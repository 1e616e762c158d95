\* One message seeded in RisuAI, one id left for a new one; the button only,
\* every failure of the environment.
CONSTANTS
    Ids = {m1, m2}
    Seeded = {m1}
    Bodies = {a, b, c}
    Absent = Absent
    Writers = {"bar"}
    Faults = {"lost-upload", "lost-commit", "dropped-write", "stub"}
    MaxRisu = 2
    MaxPanel = 2
SYMMETRY BodySymmetry
SPECIFICATION Spec
INVARIANTS TypeOK ConflictsDecidable
PROPERTIES PanelEditsSurviveReopen NoSilentRebase GuardedOverwrite
