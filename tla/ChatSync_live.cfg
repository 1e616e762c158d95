CONSTANTS
    Ids = {m1, m2}
    Seeded = {m1}
    Bodies = {a, b}
    Absent = Absent
    Writers = {"bar"}
    Faults = {"lost-upload", "lost-commit", "dropped-write"}
    MaxRisu = 1
    MaxPanel = 1
SPECIFICATION LiveSpec
PROPERTIES Converges
