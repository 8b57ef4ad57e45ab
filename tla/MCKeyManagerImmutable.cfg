SPECIFICATION Spec

CONSTANTS
    a = a
    b = b
    Empty = Empty
    Label <- MCLabel
    Parts <- MCParts
    Delimiter = {colon}
    Thread = {t1}
    MaxManagers = 4

INVARIANTS
    Immutable
