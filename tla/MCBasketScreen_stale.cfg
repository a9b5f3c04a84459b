SPECIFICATION ScreenSpec
CONSTANTS
    NoUser = NoUser
    tea = tea
    beer = beer
    cake = cake
    Users = {u1}
    Members = {u1}
    Items = {tea, beer}
    Price <- MCPrice
    Venue <- MCVenue
    ReadErrors = FALSE
    Refusals = TRUE
    Kills = TRUE
    MaxItems = 2
    MaxOrders = 2
    MaxQueue = 2
    MaxSignUps = 1
PROPERTY
    DeletesThisItem
