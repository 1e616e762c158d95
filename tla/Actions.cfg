SPECIFICATION Spec
CONSTANTS
    Acts = {a1, a2}
    Calls = {c1, c2}
    Chats = {k1}
    Card = Card
    Host = Host
    Free = Free
    NoAct = NoAct
    MaxEdits = 1
    MaxCrashes = 1
SYMMETRY Symmetric
CHECK_DEADLOCK FALSE
INVARIANTS TypeOK AloneTellsTruth DoneMeansCarriedOut
