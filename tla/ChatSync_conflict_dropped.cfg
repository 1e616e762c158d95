CONSTANTS
    Ids = {m1}
    Seeded = {m1}
    Bodies = {a, b, c}
    Absent = Absent
    Writers = {"bar"}
    Faults = {}
    MaxRisu = 1
    MaxPanel = 1
SPECIFICATION Spec
PROPERTIES ConflictSurvivesReopen
