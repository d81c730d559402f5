SPECIFICATION Spec
CONSTANTS
    x1 = x1
    x2 = x2
    TxIds <- MCTxIds
    NotFound = NotFound
    NoArg = NoArg
    MarkLen = 12
    EndLen = 3
    SizeBits = 8
    MaxResult = 60
    Docs <- MCDocsCutAtEnd
    Depths <- MCDepths
PROPERTIES
    ResolverRefinesMarkup
CHECK_DEADLOCK FALSE
