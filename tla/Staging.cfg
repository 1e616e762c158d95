CONSTANTS
    Turns = {t1}
    Bodies = {a, b}
    Absent = Absent
    Props = {p1, p2}
    Batches = {g1, g2}
    Requests = {r1, r2}
    MaxEdits = 1
    MaxCrashes = 1
SYMMETRY Symmetry
SPECIFICATION Spec
INVARIANTS TypeOK AppliedTookEffect
PROPERTIES GuardedApply ImplementsGate
