\* Violation: t2 pays a2 the same amount twice; no restart, no redelivery.
CONSTANTS
    Addr = {a1, a2, a3}
    NoAddress = NoAddress
    NoFile = NoFile
    Txs = {t1, t2, t3, t4}
    a1 = a1  a2 = a2  a3 = a3
    t1 = t1  t2 = t2  t3 = t3  t4 = t4
    b1 = b1  b2 = b2  b3 = b3
    Chain <- MCChain
    Inputs <- MCInputs
    Outputs <- MCOutputsTwin
    COIN = 2
    NotFound = NotFound
    NoArg = NoArg
    Alnum <- MCAlnum
    IdLens = {2}
    LinkTexts <- MCLinkTexts
    IdText <- MCIdText
    FixupEntriesCount = 6
    MaxDeliveries = 3
    MaxRestarts = 0
SPECIFICATION Spec
INVARIANT LedgerBalanceInWindow
CHECK_DEADLOCK FALSE
