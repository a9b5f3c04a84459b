SPECIFICATION Spec
CONSTANTS
    NoUser = NoUser
    tea = tea
    beer = beer
    cake = cake
    Users = {u1, u2}
    Members = {u1}
    Items = {tea, beer}
    Price <- MCPrice
    Venue <- MCVenue
    ReadErrors = FALSE
    Refusals = FALSE
    Kills = TRUE
    MaxItems = 1
    MaxOrders = 2
    MaxQueue = 2
    MaxSignUps = 1

    
PROPERTIES
    
    UsesWriteQueue
