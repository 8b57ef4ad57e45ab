SPECIFICATION Spec

CONSTANTS
    a = a
    b = b
    Empty = Empty
    Label <- MCLabel
    Parts <- MCParts
    Delimiter = {colon}
    Thread = {t1, t2}
    MaxManagers = 3

PROPERTIES
    ResultIsReceiverPlusParts
