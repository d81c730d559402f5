SPECIFICATION Spec
CONSTANTS
    x1 = x1
    x2 = x2
    TxIds <- MCTxIds
    NotFound = NotFound
    NoArg = NoArg
    MarkLen = 12
    EndLen = 3
    SizeBits = 8
    MaxResult = 120
    Docs <- MCDocs
    Depths <- MCDepths
INVARIANTS
    TypeOK
PROPERTIES
    ResolverRefinesMarkup
CHECK_DEADLOCK FALSE
