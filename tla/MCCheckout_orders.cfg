SPECIFICATION FairSpec
CONSTANTS
    NoUser = NoUser
    tea = tea
    beer = beer
    cake = cake
    Users = {u1}
    Members = {u1}
    Items = {tea, beer}
    Price <- MCPrice
    Venue <- MCVenue
    ReadErrors = FALSE
    Refusals = TRUE
    Kills = TRUE
    MaxItems = 3
    MaxOrders = 2
    MaxQueue = 2
    MaxSignUps = 1
INVARIANTS
    TypeOK
    NoDanglingHistory
    IdentifiedOrderWillReset
    PricedByItems
PROPERTIES
    DeleteTakesOneRow
    ImplementsOrderBook
    AcceptedOrderIsListed
    AcceptedOrderLeavesBasket
