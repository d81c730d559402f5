--------------------------- MODULE AddressLedger ---------------------------
(***************************************************************************)
(* The address ledger of the Index Builder (src/src/blockexplorer.cpp).    *)
(*                                                                         *)
(* BlocksContainer::WriteBlockInfo runs under g_cs_be_fatlock, one block   *)
(* at a time.  For every transaction, printTxToStream bumps the durable    *)
(* circulating_supply counter for a coinbase, and then calls addAddressTx  *)
(* twice per non-zero output: a credit filed under the destination and a   *)
(* debit filed under the source.  addAddressTx consults the volatile       *)
(* duplicate guard g_lastDupFixup (newest first, FixupEntriesCount long),  *)
(* registers ids in g_ids, updates the per-address counter file and the    *)
(* in-memory rich list (storeRichList), and appends a row to the address   *)
(* page.  The process can stop between any two of these writes; on start  *)
(* reloadKnownObjects rebuilds g_ids and g_richlist from the files.  The   *)
(* ledger may hand the explorer a block it has already indexed.            *)
(*                                                                         *)
(* A handler is a queue of pending writes, `work`, consumed in code order: *)
(* a crash may fall between any two of them.                               *)
(***************************************************************************)
EXTENDS Integers, Sequences, SequencesExt, FiniteSets

CONSTANTS
    Addr,               \* wallet addresses
    NoAddress,          \* Address_NoAddress: the source of coinbase outputs
    NoFile,             \* a counter file that does not exist
    Txs,                \* transaction ids
    Chain,              \* the main chain: Seq of [id, txs : Seq(Txs)]
    Inputs,             \* [Txs -> Seq([addr, amt])]: prevouts as read from txdb
    Outputs,            \* [Txs -> Seq([addr, amt])]: vout in order
    COIN,
    FixupEntriesCount,  \* size of g_lastDupFixup (100 in the code)
    MaxDeliveries,      \* bound: WriteBlockInfo calls
    MaxRestarts         \* bound: process restarts

BlockIds == {Chain[b].id : b \in DOMAIN Chain}
Fingerprint == Txs \X (Addr \cup {NoAddress}) \X Addr \X Int

VARIABLES
    highest,     \* ledger: highest height handed to WriteBlockInfo so far
    deliveries,  \* ledger: WriteBlockInfo calls so far
    restarts,    \* environment: restarts so far
    work,        \* writes of the WriteBlockInfo call in progress
    ring,        \* g_lastDupFixup (volatile)
    known,       \* g_ids (volatile)
    richlist,    \* g_richlist: Seq of <<balance, address>> (volatile)
    counter,     \* richlist/<addr>.html counter files (durable)
    doc,         \* blockexplorer/<addr>.html rows (durable)
    pages,       \* blockexplorer/<tx or block>.html files (durable)
    supply,      \* webdb/circulating_supply (durable)
    window       \* history: no restart and no guard eviction so far

vars == <<highest, deliveries, restarts, work, ring, known, richlist,
          counter, doc, pages, supply, window>>

-----------------------------------------------------------------------------
(* printTxToStream: the input address is the last input that resolves to  *)
(* an address with a non-zero amount; none means a mined (coinbase) tx.   *)
InputAddr(t) ==
    LET nz == {i \in DOMAIN Inputs[t] : Inputs[t][i].amt > 0}
    IN  IF nz = {} THEN NoAddress ELSE Inputs[t][Max(nz)].addr

NonZeroOutputs(t) == SelectSeq(Outputs[t], LAMBDA o : o.amt # 0)

HasPoSOutputs(t) == \E i \in DOMAIN Outputs[t] : Outputs[t][i].amt = 0

AddrCall(t, file, o, amt) ==
    [kind |-> "addr", file |-> file, src |-> InputAddr(t), dst |-> o.addr,
     amt |-> amt, tx |-> t]

(* The writes printTxToStream and writeBlockTransactions make for tx t.    *)
TxWork(t) ==
    LET nz     == NonZeroOutputs(t)
        mined  == IF InputAddr(t) = NoAddress /\ nz # <<>>
                  THEN <<[kind |-> "supply", amt |-> nz[1].amt \div COIN]>>
                  ELSE <<>>
        ledger == IF HasPoSOutputs(t) THEN <<>>
                  ELSE FlattenSeq([i \in DOMAIN nz |->
                         << AddrCall(t, nz[i].addr, nz[i], nz[i].amt),
                            AddrCall(t, InputAddr(t), nz[i], -nz[i].amt) >>])
    IN  mined \o ledger \o <<[kind |-> "page", id |-> t]>>

BlockWork(b) ==
    FlattenSeq([i \in DOMAIN Chain[b].txs |-> TxWork(Chain[b].txs[i])])
      \o <<[kind |-> "page", id |-> Chain[b].id]>>

FingerprintOf(c) == <<c.tx, c.src, c.dst, c.amt>>

(* std::sort with a descending comparator: not stable, so equal balances  *)
(* may come out in any order.                                             *)
SortedByBalance(s) ==
    {p \in [1..Len(s) -> ToSet(s)] :
        ToBag(p) = ToBag(s) /\ IsSorted(p, LAMBDA x, y : x[1] >= y[1])}

CounterValue(a) == IF counter[a] = NoFile THEN 0 ELSE counter[a]

(* Mutant: storeRichList without the trailing std::sort.                  *)
StoreRichListUnsorted(a, delta) ==
    LET new     == CounterValue(a) + delta
        at      == {i \in DOMAIN richlist : richlist[i][2] = a}
    IN  /\ counter' = IF delta # 0 THEN [counter EXCEPT ![a] = new] ELSE counter
        /\ richlist' = IF at = {} THEN Append(richlist, <<new, a>>)
                       ELSE [richlist EXCEPT ![CHOOSE i \in at : TRUE] = <<new, a>>]

(* storeRichList(address, amountChange)                                   *)
StoreRichList(a, delta) ==
    LET new     == CounterValue(a) + delta
        at      == {i \in DOMAIN richlist : richlist[i][2] = a}
        entries == IF at = {} THEN Append(richlist, <<new, a>>)
                   ELSE [richlist EXCEPT ![CHOOSE i \in at : TRUE] = <<new, a>>]
    IN  /\ counter' = IF delta # 0 THEN [counter EXCEPT ![a] = new] ELSE counter
        /\ richlist' \in SortedByBalance(entries)

(* Mutant: g_ids rebuilt from the richlist directory instead.            *)
ReloadedIdsFromCounters == {a \in Addr : counter[a] # NoFile} \cup pages

(* reloadKnownObjects: g_ids from the blockexplorer directory.            *)
ReloadedIds == {a \in Addr : doc[a] # <<>>} \cup pages

(* reloadKnownObjects: g_richlist by storeRichList(stem, 0) per file.      *)
ReloadedRichList ==
    SortedByBalance(SetToSeq({<<counter[a], a>> : a \in {x \in Addr : counter[x] # NoFile}}))

-----------------------------------------------------------------------------
Init ==
    /\ highest = 0
    /\ deliveries = 0
    /\ restarts = 0
    /\ work = <<>>
    /\ ring = <<>>
    /\ known = {}
    /\ richlist = <<>>
    /\ counter = [a \in Addr |-> NoFile]
    /\ doc = [a \in Addr |-> <<>>]
    /\ pages = {}
    /\ supply = 0
    /\ window = TRUE

(* WriteBlockInfo entry: registers the block and its txs in g_ids, then   *)
(* starts writing.  Any height up to the next one: the next block, or one *)
(* the ledger hands over again.                                           *)
WriteBlockInfo(b) ==
    /\ work = <<>>
    /\ deliveries < MaxDeliveries
    /\ b <= highest + 1
    /\ highest' = IF b > highest THEN b ELSE highest
    /\ deliveries' = deliveries + 1
    /\ known' = known \cup {Chain[b].id} \cup ToSet(Chain[b].txs)
    /\ work' = BlockWork(b)
    /\ UNCHANGED <<restarts, ring, richlist, counter, doc, pages, supply, window>>

(* WebTools::AddToCounterFile("circulating_supply", cnt) for a coinbase.  *)
AddToSupply ==
    /\ work # <<>> /\ Head(work).kind = "supply"
    /\ supply' = supply + Head(work).amt
    /\ work' = Tail(work)
    /\ UNCHANGED <<highest, deliveries, restarts, ring, known, richlist,
                   counter, doc, pages, window>>

Named(c) == {c.src, c.dst} \ {NoAddress}

(* addAddressTx, early return: the fingerprint is in g_lastDupFixup.      *)
AddAddressTxDuplicate ==
    /\ work # <<>> /\ Head(work).kind = "addr"
    /\ FingerprintOf(Head(work)) \in ToSet(ring)
    /\ known' = known \cup Named(Head(work))
    /\ work' = Tail(work)
    /\ UNCHANGED <<highest, deliveries, restarts, ring, richlist, counter,
                   doc, pages, supply, window>>

(* Mutant: the g_lastDupFixup lookup is skipped.                          *)
GuardNoDedup(c) ==
    LET r == <<FingerprintOf(c)>> \o ring
    IN  /\ ring' = SubSeq(r, 1, IF Len(r) > FixupEntriesCount THEN FixupEntriesCount ELSE Len(r))
        /\ window' = (window /\ Len(r) <= FixupEntriesCount)
        /\ known' = known \cup Named(c) \cup {c.tx}

(* Mutant: the pop_back loop that trims g_lastDupFixup is missing.        *)
GuardNoTrim(c) ==
    LET r == <<FingerprintOf(c)>> \o ring
    IN  /\ FingerprintOf(c) \notin ToSet(ring)
        /\ ring' = r
        /\ window' = (window /\ Len(r) <= FixupEntriesCount)
        /\ known' = known \cup Named(c) \cup {c.tx}

(* addAddressTx: a new fingerprint goes to the front of the guard, which  *)
(* is trimmed to FixupEntriesCount.                                       *)
Guard(c) ==
    LET r == <<FingerprintOf(c)>> \o ring
    IN  /\ FingerprintOf(c) \notin ToSet(ring)
        /\ ring' = SubSeq(r, 1, IF Len(r) > FixupEntriesCount THEN FixupEntriesCount ELSE Len(r))
        /\ window' = (window /\ Len(r) <= FixupEntriesCount)
        /\ known' = known \cup Named(c) \cup {c.tx}

(* addAddressTx, early return: the row is filed under "no address".       *)
AddAddressTxNoFile ==
    /\ work # <<>> /\ Head(work).kind = "addr"
    /\ Head(work).file = NoAddress
    /\ Guard(Head(work))
    /\ work' = Tail(work)
    /\ UNCHANGED <<highest, deliveries, restarts, richlist, counter, doc,
                   pages, supply>>

(* addAddressTx: storeRichList, then the page write is still to come.     *)
AddAddressTxStore ==
    /\ work # <<>> /\ Head(work).kind = "addr"
    /\ LET c == Head(work) IN
       /\ c.file # NoAddress
       /\ Guard(c)
       /\ StoreRichList(c.file, c.amt)
       /\ work' = <<[kind |-> "row", file |-> c.file, amt |-> c.amt, tx |-> c.tx]>>
                    \o Tail(work)
    /\ UNCHANGED <<highest, deliveries, restarts, doc, pages, supply>>

(* addAddressTx: the page is created with its head on the first row, and  *)
(* appended to afterwards.                                                *)
AppendAddressRow ==
    /\ work # <<>> /\ Head(work).kind = "row"
    /\ doc' = [doc EXCEPT ![Head(work).file] =
                 Append(@, [tx |-> Head(work).tx, amt |-> Head(work).amt])]
    /\ work' = Tail(work)
    /\ UNCHANGED <<highest, deliveries, restarts, ring, known, richlist,
                   counter, pages, supply, window>>

(* writeBlockTransactions / WriteBlockInfo: tx and block pages.           *)
WritePage ==
    /\ work # <<>> /\ Head(work).kind = "page"
    /\ pages' = pages \cup {Head(work).id}
    /\ work' = Tail(work)
    /\ UNCHANGED <<highest, deliveries, restarts, ring, known, richlist,
                   counter, doc, supply, window>>

(* The process stops, possibly in the middle of a WriteBlockInfo call,    *)
(* and BlockExplorerInit runs reloadKnownObjects.                         *)
Restart ==
    /\ restarts < MaxRestarts
    /\ restarts' = restarts + 1
    /\ work' = <<>>
    /\ ring' = <<>>
    /\ known' = ReloadedIds
    /\ richlist' \in ReloadedRichList
    /\ window' = FALSE
    /\ UNCHANGED <<highest, deliveries, counter, doc, pages, supply>>

Next ==
    \/ \E b \in DOMAIN Chain : WriteBlockInfo(b)
    \/ AddToSupply
    \/ AddAddressTxDuplicate
    \/ AddAddressTxNoFile
    \/ AddAddressTxStore
    \/ AppendAddressRow
    \/ WritePage
    \/ Restart

Spec == Init /\ [][Next]_vars

-----------------------------------------------------------------------------
TypeOK ==
    /\ highest \in 0..Len(Chain)
    /\ deliveries \in 0..MaxDeliveries
    /\ restarts \in 0..MaxRestarts
    /\ ring \in Seq(Fingerprint) /\ Len(ring) <= FixupEntriesCount
    /\ known \subseteq Addr \cup Txs \cup BlockIds
    /\ richlist \in Seq(Int \X Addr)
    /\ counter \in [Addr -> Int \cup {NoFile}]
    /\ doc \in [Addr -> Seq([tx : Txs, amt : Int])]
    /\ pages \subseteq Txs \cup BlockIds
    /\ supply \in Nat
    /\ window \in BOOLEAN

(* What the ledger says address a holds after the blocks handed over so   *)
(* far: every non-zero output of a non-PoS tx once, credited to its       *)
(* destination and debited from the tx's input address.                   *)
TxDelta(t, a) ==
    LET nz == NonZeroOutputs(t)
    IN  IF HasPoSOutputs(t) THEN 0
        ELSE SumFunction([i \in DOMAIN nz |->
               (IF nz[i].addr = a THEN nz[i].amt ELSE 0)
               - (IF InputAddr(t) = a THEN nz[i].amt ELSE 0)])

LedgerBalance(a) ==
    SumFunction([b \in 1..highest |->
        SumFunction([i \in DOMAIN Chain[b].txs |-> TxDelta(Chain[b].txs[i], a)])])

RowSum(a) == SumFunction([i \in DOMAIN doc[a] |-> doc[a][i].amt])

Idle == work = <<>>

(* Duplicate suppression (addAddressTx, g_lastDupFixup): while the        *)
(* process has not restarted and the guard has not dropped a fingerprint, *)
(* handing a block over again changes no balance, so between blocks every *)
(* counter file holds the address's ledger balance.                       *)
LedgerBalanceInWindow ==
    (window /\ Idle) => \A a \in Addr : CounterValue(a) = LedgerBalance(a)

(* g_richlist is a cache of the counter files, through updates and        *)
(* reloads alike: one entry per counter file, carrying its value, sorted  *)
(* by descending balance (storeRichList, reloadKnownObjects).             *)
RichListMirrorsCounters ==
    /\ IsSorted(richlist, LAMBDA x, y : x[1] >= y[1])
    /\ \A i, j \in DOMAIN richlist : richlist[i][2] = richlist[j][2] => i = j
    /\ {e[2] : e \in ToSet(richlist)} = {a \in Addr : counter[a] # NoFile}
    /\ \A i \in DOMAIN richlist : richlist[i][1] = counter[richlist[i][2]]

(* Between blocks, every id in g_ids has a page, so every link that       *)
(* fixupKnownObjects writes into a page leads somewhere (makeObjectKnown, *)
(* reloadKnownObjects).                                                   *)
KnownIdsResolve ==
    Idle => known \subseteq ({a \in Addr : doc[a] # <<>>} \cup pages)

(* An address page and its counter file agree: the rows' amounts, which   *)
(* fixupDynamicStatuses sums into the page's balance, add up to the rich  *)
(* list balance (addAddressTx writes both).                               *)
CounterMatchesDocument ==
    Idle => \A a \in Addr : CounterValue(a) = RowSum(a)

=============================================================================
