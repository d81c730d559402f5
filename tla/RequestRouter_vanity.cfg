\* An address whose text contains "stats".
SPECIFICATION Spec
CONSTANTS
    index = index
    addr = addr
    tx = tx
    missing = missing
    statsAddr = statsAddr
    Absent = Absent
    NaN = NaN
    BlockArgs <- MCBlockArgs
    BestHeight = 2
    AddrIds <- MCAddrIds
    BalanceLines <- MCBalanceLines
    Index = index
    Cutoff = 100
    Ids <- MCIdsVanity
    Words <- MCWords
    PageIds <- MCPageIds
    ResolveTimes <- MCResolveTimes
    RawTimes <- MCRawTimes
INVARIANTS
    RouteMatchesSpec
