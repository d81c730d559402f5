------------------------------ MODULE BlockFeed ------------------------------
(***************************************************************************)
(* The block half of WriteBlockInfo (blockexplorer.cpp): updateBlockInfo   *)
(* adds a timing sample to blockStats and the block joins the latest-      *)
(* blocks list g_latestBlocksAdded; UpdateIndex rebuilds index.html from   *)
(* both, at most once per AutoUpdateTimeMs unless forced, and              *)
(* calculateNetworkStats turns blockStats into the averages it shows.      *)
(*                                                                         *)
(* WriteBlockInfo and the rebuild run under g_cs_be_fatlock, so each is    *)
(* one step.  The ledger hands blocks over in chain order and may hand one *)
(* over again.  A block is a record [id, pos]; a sample is [pos, t], t the *)
(* tick count getTicksCountToMeasure returned.  Ticks advance by a gap     *)
(* from Gaps between two blocks.  Averages are kept exact, as             *)
(* <<numerator, denominator>> pairs; the code divides floats.              *)
(***************************************************************************)
EXTENDS Naturals, Sequences, FiniteSets, SequencesExt

CONSTANTS
    Chain,             \* the blocks, in chain order
    MaxBlocksStat,     \* 100 in the code
    MaxLatestBlocks,   \* size of the latest-blocks list
    AutoUpdateTimeMs,  \* the rebuild throttle
    Gaps,              \* ticks that can pass between two blocks
    MaxRedeliveries,
    MaxRestarts

VARIABLES
    next,          \* index in Chain of the next block handed over
    now,           \* getTicksCountToMeasure()
    blockStats,    \* front first
    latest,        \* g_latestBlocksAdded, front first
    lastUpdate,    \* g_lastUpdateTime
    shown,         \* what index.html shows: its block list and averages
    redeliveries, restarts

vars == <<next, now, blockStats, latest, lastUpdate, shown, redeliveries, restarts>>

(* A bug in updateBlockInfo: the trim loop left out.                       *)
TrimStatsNone(s) == s

(* while (blockStats.size() > MaxBlocksStat) blockStats.pop_back().       *)
TrimStats(s) == IF Len(s) > MaxBlocksStat THEN SubSeq(s, 1, MaxBlocksStat) ELSE s

(* updateBlockInfo: trim, then the block's sample at the front.          *)
UpdateBlockInfo(b, t) == <<[pos |-> b.pos, t |-> t]>> \o TrimStats(blockStats)

(* A bug in the duplicate test: only the newest entry compared.          *)
KnownBlockFront(b) == latest # <<>> /\ latest[1].id = b.id

(* The loop over g_latestBlocksAdded that sets blockFound.               *)
KnownBlock(b) == \E u \in DOMAIN latest : latest[u].id = b.id

(* A new block is inserted at the front, then the list trimmed to        *)
(* MaxLatestBlocks; a known one only logs "Duplicate of block".          *)
AddLatest(b) ==
    IF KnownBlock(b) THEN latest
    ELSE LET l == <<b>> \o latest
         IN  IF Len(l) > MaxLatestBlocks THEN SubSeq(l, 1, MaxLatestBlocks) ELSE l

Gap(s, i, j) == IF s[i].t > s[j].t THEN s[i].t - s[j].t ELSE 0
SumOf(f(_), lo, hi) == FoldLeft(LAMBDA acc, n : acc + f(n), 0, [k \in 1..(hi + 1 - lo) |-> lo + k - 1])

(* A bug in the average confirmation time: divided by every sample.      *)
ConfSpeedAll(s) ==
    <<SumOf(LAMBDA n : Gap(s, n - 1, n), 2, Len(s)), Len(s)>>

(* averageConfSpeed: the gaps between neighbouring samples, over size-1. *)
ConfSpeed(s) ==
    <<SumOf(LAMBDA n : Gap(s, n - 1, n), 2, Len(s)), Len(s) - 1>>

(* averageTxSpeed: the spans of four samples for n > 4 (0-based), over   *)
(* size-4 when size > 4, and 0 otherwise.                                 *)
TxSpeed(s) ==
    IF Len(s) > 4 THEN <<SumOf(LAMBDA n : Gap(s, n - 4, n), 6, Len(s)), Len(s) - 4>>
    ELSE <<0, 1>>

(* calculateNetworkStats: nothing for 2 samples or fewer; otherwise the   *)
(* PoS share and the two averages.                                        *)
NetworkStats(s) ==
    IF Len(s) <= 2 THEN [ok |-> FALSE]
    ELSE [ok |-> TRUE,
          posRatio |-> <<Cardinality({n \in DOMAIN s : s[n].pos}), Len(s)>>,
          conf |-> ConfSpeed(s), tx |-> TxSpeed(s)]

Init ==
    /\ next = 1
    /\ now = 0
    /\ blockStats = <<>>
    /\ latest = <<>>
    /\ lastUpdate = 0
    /\ shown = [blocks |-> <<>>, stats |-> [ok |-> FALSE]]
    /\ redeliveries = 0
    /\ restarts = 0

(* WriteBlockInfo's block steps for block b, g ticks after the last one.  *)
WriteBlockInfo(b, g) ==
    /\ now' = now + g
    /\ blockStats' = UpdateBlockInfo(b, now + g)
    /\ latest' = AddLatest(b)
    /\ UNCHANGED <<lastUpdate, shown>>

Deliver ==
    /\ next <= Len(Chain)
    /\ \E g \in Gaps : WriteBlockInfo(Chain[next], g)
    /\ next' = next + 1
    /\ UNCHANGED <<redeliveries, restarts>>

Redeliver ==
    /\ redeliveries < MaxRedeliveries
    /\ \E i \in 1..(next - 1), g \in Gaps : WriteBlockInfo(Chain[i], g)
    /\ redeliveries' = redeliveries + 1
    /\ UNCHANGED <<next, restarts>>

(* UpdateIndex(force): unless forced, nothing when less than             *)
(* AutoUpdateTimeMs passed since the last rebuild; otherwise index.html   *)
(* is written from g_latestBlocksAdded and calculateNetworkStats, and     *)
(* g_lastUpdateTime set.                                                  *)
UpdateIndex ==
    /\ \E force \in BOOLEAN : force \/ now - lastUpdate >= AutoUpdateTimeMs
    /\ shown' = [blocks |-> latest, stats |-> NetworkStats(blockStats)]
    /\ lastUpdate' = now
    /\ UNCHANGED <<next, now, blockStats, latest, redeliveries, restarts>>

(* A stop and a start: blockStats, g_latestBlocksAdded and                *)
(* g_lastUpdateTime start empty; index.html stays; ticks go on.           *)
Restart ==
    /\ restarts < MaxRestarts
    /\ restarts' = restarts + 1
    /\ blockStats' = <<>>
    /\ latest' = <<>>
    /\ lastUpdate' = 0
    /\ UNCHANGED <<next, now, shown, redeliveries>>

Next == Deliver \/ Redeliver \/ UpdateIndex \/ Restart

Spec == Init /\ [][Next]_vars

-----------------------------------------------------------------------------
Blocks == {Chain[i] : i \in DOMAIN Chain}
Sample == [pos : BOOLEAN, t : Nat]

(* blockStats holds at most MaxBlocksStat + 1 samples (the trim runs      *)
(* before the insert), g_latestBlocksAdded at most MaxLatestBlocks blocks. *)
TypeOK ==
    /\ next \in 1..(Len(Chain) + 1)
    /\ now \in Nat /\ lastUpdate \in 0..now
    /\ blockStats \in Seq(Sample) /\ Len(blockStats) <= MaxBlocksStat + 1
    /\ latest \in Seq(Blocks) /\ Len(latest) <= MaxLatestBlocks
    /\ redeliveries \in 0..MaxRedeliveries
    /\ restarts \in 0..MaxRestarts

(* p/q = r/s for the exact averages.                                       *)
SameRatio(a, b) == a[1] * b[2] = b[1] * a[2]

(* The index's block table never lists a block twice: the duplicate test  *)
(* in WriteBlockInfo keeps a block handed over again out of               *)
(* g_latestBlocksAdded while it is still listed, through evictions and    *)
(* restarts.                                                               *)
LatestDistinct ==
    \A i, j \in DOMAIN latest : i # j => latest[i].id # latest[j].id

(* calculateNetworkStats' average confirmation time is the mean time      *)
(* between two blocks: the time from the oldest sample to the newest,     *)
(* over the number of gaps between them.                                   *)
ConfTimeIsMeanGap ==
    LET s == blockStats IN
    Len(s) > 2 =>
        SameRatio(NetworkStats(s).conf, <<s[1].t - s[Len(s)].t, Len(s) - 1>>)

(* calculateNetworkStats' "full TX time" is the mean time over four        *)
(* confirmations: the mean, over every sample with four newer ones, of    *)
(* the time to the fourth newer sample.  There are size - 4 such spans,   *)
(* the number the code divides by.                                         *)
TxTimeIsMeanSpan ==
    LET s == blockStats IN
    Len(s) > 4 =>
        SameRatio(NetworkStats(s).tx,
                  <<SumOf(LAMBDA k : s[k - 4].t - s[k].t, 5, Len(s)), Len(s) - 4>>)

=============================================================================
