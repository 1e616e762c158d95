CONSTANTS
    RowIds = {i1, i2, i3}
    Names = {n1, n2}
    LoreTexts = {a, b}
    None = None
    MaxEdits = 2
    MaxRestores = 1
SPECIFICATION LoreSpec
CHECK_DEADLOCK FALSE
INVARIANTS LoreTypeOK
PROPERTIES OwnEntriesSurviveOpen OpenAccountsForAll WritesOnlyAccounted
SYMMETRY Swaps
