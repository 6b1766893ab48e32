SPECIFICATION Spec
CONSTANTS
    Results = {r1}
    Contents = {a, b}
    a = a
    b = b
    None = None
    Generated <- MCGenerated
    Projects = {p1}
    Tasks = {t1, t2, t3}
    Handlers = {h1, h2}
    Operations <- ListOps
    MaxVersion = 2
SYMMETRY Interchangeable
INVARIANTS PositionsDistinct NeverStuck
PROPERTIES ArchivedReadOnly Serialized
CHECK_DEADLOCK FALSE
