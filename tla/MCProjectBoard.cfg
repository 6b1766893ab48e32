SPECIFICATION Spec
CONSTANTS
    Results = {r1}
    Contents = {a, b}
    a = a
    b = b
    None = None
    Generated <- MCGenerated
    Projects = {p1, p2}
    Tasks = {t1}
    Handlers = {h1, h2}
    Operations <- EditOps
    MaxVersion = 3
SYMMETRY Interchangeable
INVARIANTS OneProjectPerResult EditsAreCurrent
PROPERTY Serialized
CHECK_DEADLOCK FALSE
