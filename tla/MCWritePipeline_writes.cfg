SPECIFICATION FairSpec
CONSTANTS
    alice = alice
    bob = bob
    Owners <- MCOwners
    MaxPending = 2
    LostAnswers = 1
    MaxWrites = 3
    MaxSwitches = 1
    MaxFaults = 1
INVARIANTS
    TypeOK
    PipelineIsQueueFront
    AnswersMatchPipeline
    AssertionsHold
    OpenAsCurrentUser
    BlocksWaitForTheirWrite
    SuccessMeansCommitted
    ToldOnce
PROPERTIES
    CommitsInOrder
    ImplementsWriteQueue
    EveryWriteLeaves
CHECK_DEADLOCK FALSE
