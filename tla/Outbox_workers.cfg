SPECIFICATION OutboxSpec
CONSTANTS
    r1 = r1
    r2 = r2
    w1 = w1
    w2 = w2
    Row = {r1, r2}
    Poison = {r1}
    Worker = {w1, w2}
    Stoppable = {w2}
    Nobody = Nobody
    NoRow = NoRow
    BatchLimit = 2
    Concurrency <- LoopsOf
    MaxBatches = 2
    MaxFaults = 2
    Claiming = TRUE
    InOrder = TRUE
CHECK_DEADLOCK FALSE
INVARIANTS
    DuplicatesAreExplained StoppedMeansQuiet PublishedIsReplayable
PROPERTIES
    DeliversAtLeastOnce
