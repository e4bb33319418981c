SPECIFICATION Spec
CONSTANTS
    Proc = {p1, p2, p3}
    Free = Free
    Empty = Empty
    Operator = Operator
    NoFile = NoFile
    MaxWrites = 4
PROPERTIES
    ReplacedLockKept
