CONSTANTS
    Runs = {r1, r2}
    Nobody = Nobody
    Chats = {k1, k2}
    Lines = 1
    MaxEdits = 1
    MaxCrashes = 1
SPECIFICATION Spec
CHECK_DEADLOCK FALSE
INVARIANTS TypeOK RunsItsOwn EveryLineLands StagedOnce SeesEdits
