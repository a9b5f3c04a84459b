SPECIFICATION Spec
CONSTANTS
    NoUser = NoUser
    tea = tea
    beer = beer
    cake = cake
    Users = {u1}
    Members = {u1}
    Items = {beer, cake}
    Price <- MCPrice
    Venue <- MCVenue
    ReadErrors = TRUE
    Refusals = TRUE
    Kills = TRUE
    MaxItems = 2
    MaxOrders = 2
    MaxQueue = 2
    MaxSignUps = 1
INVARIANT
    OrderGoesToItsLocation
