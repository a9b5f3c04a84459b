SPECIFICATION ScreenSpec
CONSTANTS
    NoUser = NoUser
    tea = tea
    beer = beer
    cake = cake
    Users = {u1}
    Members = {}
    Items = {tea, beer}
    Price <- MCPrice
    Venue <- MCVenue
    ReadErrors = FALSE
    Refusals = TRUE
    Kills = TRUE
    MaxItems = 2
    MaxOrders = 2
    MaxQueue = 2
    MaxSignUps = 1
INVARIANT
    ScreenType
PROPERTIES
    ImplementsCheckout
    FreshRowIsDeleted
    AcceptedOrderIsConfirmed
