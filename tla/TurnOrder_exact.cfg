CONSTANTS
    N = 3
    Reqs = {r1, r2}
    Top = Top
    Ops = {"delete", "insert", "split", "join", "reset", "rewrite"}
    MaxCrashes = 1
SPECIFICATION Spec
SYMMETRY Perms
CHECK_DEADLOCK FALSE
PROPERTIES OrderIsExact
