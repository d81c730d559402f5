SPECIFICATION Spec
CONSTANTS
    a = a
    b = b
    c = c
    Chain <- MCChainForged
    NoText = NoText
    Lower <- MCLower
    SearchQueries <- MCQueries
    MaxSearchResults = 3
    UrlSafe <- MCUrlSafe
    MaxMessagesShow = 2
    MaxRedeliveries = 0
    MaxRestarts = 0
INVARIANTS
    VaultProvenance
CHECK_DEADLOCK FALSE
