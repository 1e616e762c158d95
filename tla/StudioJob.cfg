CONSTANTS
    Jobs = {j1, j2}
    NoJob = NoJob
    GaveUp = GaveUp
    Images = 2
    MaxFaults = 1
SPECIFICATION Spec
CHECK_DEADLOCK FALSE
INVARIANTS TypeOK OneAtATime RowTellsTruth CancelStops
PROPERTIES ImplementsJobLife EveryBatchEnds StopReachesBatch
