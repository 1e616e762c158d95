CONSTANTS
    Turns = {t1, t2}
    Reqs = {q1, q2}
    Kinds = {shell, pip}
    Before = Before
    NoKind = NoKind
SPECIFICATION Spec
CHECK_DEADLOCK FALSE
INVARIANTS TypeOK RanWasAllowed PromptIsKept
PROPERTIES AlwaysEndsWithTurn
