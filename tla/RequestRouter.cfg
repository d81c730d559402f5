\* Passing run: ids free of endpoint names; raw reads within the cutoff.
SPECIFICATION Spec
CONSTANTS
    index = index
    addr = addr
    tx = tx
    missing = missing
    statsAddr = statsAddr
    Absent = Absent
    NaN = NaN
    BlockArgs <- MCBlockArgs
    BestHeight = 2
    AddrIds <- MCAddrIds
    BalanceLines <- MCBalanceLines
    Index = index
    Cutoff = 100
    Ids <- MCIds
    Words <- MCWords
    PageIds <- MCPageIds
    ResolveTimes <- MCResolveTimes
    RawTimes <- MCRawTimes
INVARIANTS
    RouteMatchesSpec
PROPERTIES
    ResolvedAgain
