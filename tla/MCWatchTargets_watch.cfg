SPECIFICATION FairSpec
CONSTANTS
    menu = menu
    locations = locations
    Queries <- MCQueries
    Forbidden <- MCForbidden
    MaxGets = 2
    MaxChanges = 1
    MaxFaults = 1
INVARIANTS
    WatchType
    AssertionsHold
    RegistriesAgree
    OwedIsOnItsWay
    ServerWillAgree
    SyncedIsFresh
    AnsweredOnce
    NoReadIsForgotten
PROPERTIES
    EveryGetAnswered
CHECK_DEADLOCK FALSE
