SPECIFICATION Spec
CONSTANTS
    a = a
    b = b
    c = c
    Chain <- MCChain
    NoText = NoText
    Lower <- MCLower
    SearchQueries <- MCQueries
    MaxSearchResults = 3
    UrlSafe <- MCUrlSafe
    MaxMessagesShow = 2
    MaxRedeliveries = 1
    MaxRestarts = 1
INVARIANTS
    TypeOK
    NoMessageLost
    VaultKeepsEveryPublication
    FeedNewestFirstUntilRestart
    FirstPublisherIsEarliest
    VaultLinksFindDocs
CHECK_DEADLOCK FALSE
