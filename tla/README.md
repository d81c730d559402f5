# TLA+ models of the Scash block explorer

This directory models the block explorer in `src/src/blockexplorer.cpp` and the
helpers it calls. The explorer turns blocks into per-entity HTML pages, keeps
several indices in memory and on disk, and serves pages. At serve time it
resolves deferred `<!--dynamic:...-->` fields against the ledger.

## 1. Inventory

### Components, their state and their operations

| Component | State | Operations (source) |
|---|---|---|
| Index Builder: address ledger | `g_lastDupFixup` (volatile ring of 100 fingerprints `tx:from:to:amount`, newest first); address pages `blockexplorer/<addr>.html` (durable) | `WriteBlockInfo` 1226, `writeBlockTransactions` 1114, `printTxToStream` 831, `addAddressTx` 572 |
| Rich list | counter files `richlist/<addr>.html` (durable); `g_richlist`, a sorted vector of (balance, address) (volatile); `webdb/circulating_supply` (durable) | `storeRichList` 315, `AddToCounterFile` (webtools.cpp 154), `GetRichListPage` 1331 |
| Object registry | `g_ids`: id → type (volatile; only membership is ever read) | `makeObjectKnown` 562, `fixupKnownObjects` 475, `reloadKnownObjects` 372 |
| Message feed | `g_messages` (volatile, capped at `MaxMessagesShow` = 30); `messages/<time>-<n>.html` (durable) | the message branch of `printTxToStream` 957, `storeMessageData` 805, `reloadMessage` 260, `UpdateMessagesList` 1615 |
| Document vault | `g_vaultDocs` (volatile, unbounded); `vault/<time>-<n>.html` (durable); `IncreasingId` | `storeVaultEntry` 770, `reloadVaultDoc` 284, `GetVaultPage` 1411, `SearchDocPage` 1462 |
| Text record parser | none (pure) | `TrySplit` 105, `ParseTextData` 220 |
| Dynamic markup resolver | per call: `balanceAmount`, `balanceAmountConfirmed`, `tempBalanceToConfirm`, `startPos` | `fixupDynamicStatuses` 1758 |
| Request router | `largeRequests`: page → last elapsed ms (volatile); the server mode, fixed at start | `GetFileDataByURL` 1923 |
| Block feed and index page | `g_latestBlocksAdded` (capped), `blockStats` (capped at 100), `g_lastUpdateTime` | `updateBlockInfo` 1150, `calculateNetworkStats` 1181, `UpdateIndex` 1662 |
| Startup | all volatile state | `BlockExplorerInit` 452 → `reloadKnownObjects` 372 |
| Web tools | counter files, access log | `webtools.cpp` |
| Balance checker | none of its own; reads `balances.txt` and appends to `webdb/access_log.txt` | `getDataByRequest` 82, `lookupAddress` 28 (`balancechecker.cpp`), `writeAccessLog` (webtools.cpp 79) |

Not part of the explorer's behaviour: the page style (`blockexplorerstyle.cpp`, constant
CSS), `jsondataserver.h` (declarations only), `msha3.h` (a hash primitive),
and `qt/sendcoinsdialog.h` (a GUI class with no implementation here).

### How the components interact

* The node calls `WriteBlockInfo(height, block)` once per connected block. It may
  hand the explorer a block it has already indexed; the code expects this and
  logs "Duplicate of block". `WriteBlockInfo` takes `g_cs_be_fatlock`, registers the block and its
  transactions in `g_ids`, and writes each transaction's page. On the way,
  `printTxToStream` does all the index accounting: the coinbase supply, the
  message feed or vault, and two `addAddressTx` calls per non-zero output.
  It then writes the block page and updates the latest-blocks list.
* `addAddressTx` is where the durable indices change. In order, it:
  1. registers the from/to addresses;
  2. checks the duplicate guard and returns early on a hit;
  3. registers the transaction;
  4. calls `storeRichList`, which reads, adds to and writes the counter file,
     updates `g_richlist` and sorts it;
  5. appends a row to the address page. The row carries `amountplus`/`amountminus` and
     `txstate` directives. The first row creates the page with a head that
     holds `balance` and `balanceconfirmed` directives.
* A request calls `GetFileDataByURL` (under the same fat lock). It routes the
  path and reads the page. Then it runs `fixupDynamicStatuses` unless
  `largeRequests` says the previous request for that page was slow. The
  resolver sums the amount directives into the page's balance and looks up
  the confirmation depth of every `txstate` in the ledger.
* On start, `reloadKnownObjects` rebuilds `g_ids` from the page directory,
  `g_vaultDocs` from the vault, `g_richlist` from the counter files, and
  `g_messages` from the message records. The duplicate guard,
  `largeRequests`, the block list and the stats start empty.

### What is hard

* **Crashes between writes.** An event touches up to five files (supply,
  counter, address page, tx page, block page) with no atomicity. The
  process can stop between any two of them.
* **Redelivered blocks.** Idempotence rests on a volatile ring of 100 fingerprints.
  The ring has no output index and is empty after a restart. The supply
  counter, the vault and the block stats are outside it.
* **Caches of durable state.** `g_richlist` and `g_ids` must agree with the
  files through updates and reloads.
* **The resolver's scan.** It is an ad-hoc substring scanner with an accumulator
  that carries across directives. Its guard for an unclosed directive tests the
  wrong variable.
* **Serving under one lock.** A request that does not finish stops indexing.
  The latency cutoff decides per page whether the ledger is consulted at all.

### Properties that make each component correct

* Address ledger: between blocks, each counter file equals the address's
  ledger balance inside the guard window (`LedgerBalanceInWindow`). The page
  rows add up to the counter (`CounterMatchesDocument`).
* Rich list: `g_richlist` holds exactly one entry per counter file, with its value, sorted
  (`RichListMirrorsCounters`).
* Object registry: every registered id has a page, so links resolve (`KnownIdsResolve`).
* Address pages: a served address page shows the ledger balance, and as
  confirmed balance the transfers with 6 confirmations, whatever the node's
  tip (`PageShowsLedgerBalances`).
* Resolver: the served page is the spec's fold over the directive spans. The
  confirmed balance takes a row's amount exactly when its txstate has at
  least 6 confirmations. The placeholders are filled only with non-negative
  totals. An unclosed directive truncates the page (`ResolverRefinesMarkup`).
* Router: every request gets what it names, and in balance-checker mode an
  address gets the balance `balances.txt` holds for it (`RouteMatchesSpec`). A page
  requested again and again is served resolved again and again
  (`ResolvedAgain`).
* Message feed: no visible note is lost (`NoMessageLost`), every vault
  publication stays listed (`VaultKeepsEveryPublication`), the feed is the
  newest messages first until the first restart (`FeedNewestFirstUntilRestart`), and each publication is stored
  in the vault once (`VaultOnePerPublication`) under its own sender and block
  (`VaultProvenance`).
* Vault search: unless the query matched an author, the row flagged
  "First publisher!" is the earliest document with its hash
  (`FirstPublisherIsEarliest`). Every link of the vault page leads to a
  search that lists its document (`VaultLinksFindDocs`).
* Linker: `fixupKnownObjects` keeps the text and links exactly the
  registered ids among its words (`LinkerMatchesWords`).
* Block feed: the index never lists a block twice (`LatestDistinct`), and the
  averages it shows are the means they name (`ConfTimeIsMeanGap`,
  `TxTimeIsMeanSpan`).

## 2. Plan

Most important first:

1. `AddressLedger` (done): the accounting half of `WriteBlockInfo`, with
   crashes at every write boundary, restarts and redelivery.
2. `DynamicResolver` (done): `fixupDynamicStatuses` as a step-wise scan, shown
   to implement `DynamicMarkup`, the spec's fold, through `INSTANCE ... WITH`.
3. `AddressPages` (done): composes `AddressLedger` and `DynamicMarkup`. The page
   written by the ledger, resolved against every tip the node can have, shows
   the ledger's balance.
4. `RequestRouter` (done): `GetFileDataByURL` routing and `largeRequests`, with
   nondeterministic elapsed times, in all three server modes, with the
   balance checker.
5. `MessageFeed` (done): the message and vault branch, with redelivery and restart.
6. `BlockFeed` (done): `updateBlockInfo`, `g_latestBlocksAdded`, `UpdateIndex`
   and `calculateNetworkStats`. The callers of `UpdateIndex` are outside this
   repository. The rebuild runs under the fat lock, so the model has one
   rebuild step.
7. Pure operators:
   * `ParseTextData` (done, `TextRecord`): the vault documents of `MessageFeed`
     are read back through it.
   * `SearchDocPage` (done, `VaultSearch`): checked in every state of the
     feed run. The project's twelve runs are all in use, so it adds a
     property to the feed run rather than a run of its own.
   * `GetVaultPage`'s links (done, `VaultPage`) and `fixupKnownObjects`
     (done, `KnownObjects`): checked as invariants of the feed and ledger runs.
   * The `GetRichListPage` row loop: not modelled. The first row reads
     `g_richlist[i-1]` at `i = 0`. The outcome is undefined, so the model
     would have to choose it freely. Showing the defect would take a
     violation run, and no run slot is free. It stays a hazard.

## 3. Modules and runs

### AddressLedger (`AddressLedger.tla`, `MC_AddressLedger.tla`)

State: `counter`, `doc`, `pages` and `supply` are the durable files. `ring`
(`g_lastDupFixup`), `known` (`g_ids`) and `richlist` (`g_richlist`) are
volatile. `work` is the queue of writes of the `WriteBlockInfo` call in
progress, in code order. `highest` and `deliveries` describe the ledger.
`window` records whether a restart or a guard eviction has happened yet.

Actions:

* `WriteBlockInfo(b)` is the handler's entry; the next block or any block
  already handed over can be delivered.
* `AddToSupply` is the coinbase's `AddToCounterFile`.
* `AddAddressTxDuplicate`, `AddAddressTxNoFile` and `AddAddressTxStore` are
  the three exits of `addAddressTx` up to `storeRichList`.
* `AppendAddressRow` is its page write. `WritePage` writes a tx or block page.
* `Restart` is a stop at any point followed by `reloadKnownObjects`.

`std::sort` is not stable, so the rich list after a sort is any
descending arrangement.

Data: addresses, transactions and blocks are model values. Amounts are small
integers with `COIN = 2`, so the whole-coin truncation of the supply shows.
`Inputs` and `Outputs` give each transaction's prevouts and outputs. The input
address is computed from them as the code does: the last input with a
non-zero amount. The chain in `MC_AddressLedger` covers:

* a coinbase;
* a payment with change back to the payer;
* a coinstake (a zero output, so no ledger rows);
* a two-input payment, debited to its last input only.

| Run | cfg | Expect | Shows |
|---|---|---|---|
| ledger | AddressLedger.cfg | pass | `TypeOK`, `LedgerBalanceInWindow`, `RichListMirrorsCounters`, `KnownIdsResolve`, `PageShowsLedgerBalances`, `LinkerMatchesWords` hold over 3 blocks, 4 deliveries, 1 restart anywhere, a guard of 6 |
| ledger_twin_outputs | AddressLedger_twin.cfg | violation | two equal outputs to one address are counted once |
| ledger_page_crash | AddressLedger_page.cfg | violation | a stop between the counter write and the page write splits the two balances |

While building the model, TLC also found two more counterexamples. They are
not kept as runs, because the runs above already check the same patterns.

* **The guard does not survive a restart.** Suppose the process stops inside
  `WriteBlockInfo` and the block is handed over again. The half already
  folded is folded a second time, because `g_lastDupFixup` is empty after the
  restart.
* **The supply is outside the guard.** `circulating_supply` is bumped before
  `addAddressTx` and outside the guard. A block redelivered inside the window
  counts its coinbase twice.

Bounds:

* The guard holds 6 fingerprints. Blocks 1 and 2 make exactly 6, so
  redelivering either of them right away falls inside the window, and block 3
  evicts.
* Four deliveries allow every order of three new blocks and one repeat.
* One restart can fall anywhere, including inside a handler.

Deadlock checking is off: once the ledger has handed over its blocks, the
explorer idles, as it does between blocks.

### AddressPages (`AddressPages.tla`)

Composes the two halves of an address page. `addAddressTx` writes the page
(`AddressLedger`'s `doc[a]`, one record per row), and a request serves it
through `fixupDynamicStatuses`, which the resolver runs show to equal the fold
`DynamicMarkup!ResolvedPage`. `AddressPages` builds the page's markup from
`doc[a]`: `PageHead` holds the `balance` and `balanceconfirmed` directives of
the first write (lines 616-627), and `PageRow` holds a row's amount directive
(`amountplus` or `amountminus` of |amount|, none for 0, lines 633-637) before
its `txstate` directive (line 645). The text between directives is a filler of
fixed length, because only the directive spans matter to the fold.

`Depths` is the set of answers `ReadDiskTx`/`GetDepthInMainChain` can give
while the explorer has indexed blocks 1..highest. The node's tip is anywhere
from `highest` to `highest + 6`. A transaction in block b has depth
tip - b + 1, and one past the tip is not found. Depths drawn independently per
transaction would let a later transaction be confirmed while an earlier one is
not, which no chain does.

`MC_AddressLedger` extends `AddressPages`, so the ledger run checks
`PageShowsLedgerBalances` in every state: between blocks, inside the guard
window, the served page shows `LedgerBalance(a)` as balance and the sum of the
confirmed transfers as confirmed balance. This takes the row layout, the
resolver's pending amount (`tempBalanceToConfirm` is added when the row's
`txstate` says 6 confirmations) and the guard together. The mutant
`PageRowStateFirst` writes the `txstate` cell before the amount cell, as an
edited row template would. Each amount then waits for the next row's state,
and TLC finds a confirmed balance that is off.

A page cut short by a stop is not among `AddressLedger`'s steps. What the
resolver makes of such a page is checked by the resolver runs. A chain
reorganisation is not modelled either, because the node's chain only grows
here (see the hazards).

### DynamicResolver (`MarkupDocument.tla`, `DynamicMarkup.tla`, `DynamicResolver.tla`, `MC_DynamicResolver.tla`)

`MarkupDocument` holds the shared vocabulary:

* a document is a sequence of tokens with lengths in characters: text
  runs, and directives with a kind, an argument and whether their `-->` was
  written;
* the result is a sequence of pieces: a text range of the document, a
  status cell, a placeholder, a value, or the raw document.

`DynamicMarkup` is the abstract specification. Serving is one step,
`Resolve`, whose result is `ResolvedPage`, a recursive fold over the directive
spans as spec section 4.3 describes them. A directive that was cut short spans
to the next `-->`; when there is none it truncates the page. An amount with no
digits makes the page be served unresolved, the degraded response of
section 6.

`DynamicResolver` is the code. The variables are the function's locals
(`startPos`, `balanceAmount`, `balanceAmountConfirmed`,
`tempBalanceToConfirm`, `needUpdateBalance`, `result`) and a phase. Its actions:

* `LoopEnds` is the `while` test failing (an empty page);
* `NoMoreDynamics` is the no-marker branch;
* `Directive` is one turn of the loop, with one disjunct per kind;
* `SubstituteBalances` is the `replace_all` pass.

`find` is the least offset at or after `from`. `size_t` has `SizeBits` bits,
so `npos + 3` wraps to 2 as it does with 64. `std::stoll` on no digits, and
`bad_alloc` once `result` passes `MaxResult` characters, lead to the catch
block, which returns the raw page.
`ResolverRefinesMarkup` is `Abstract!Spec` under the mapping
`served <- result` once the call has returned.

Inputs (`MC_DynamicResolver`):

* Pages: an empty page; a transaction page; address pages built as
  `addAddressTx` writes them (head with the two balance directives, then
  amount + txstate rows), including one whose balance is negative (the
  debit goes to the last input only, see `AddressLedger`); and address pages
  whose append stopped inside a directive and then had two more rows
  appended. The stop can fall inside the kind, inside the digits, before any
  digit, or inside a txstate hash.
* Depths: every combination of not found, 5 and 6 for the two transactions.
  6 is the threshold, 5 is just below it.

| Run | cfg | Expect | Shows |
|---|---|---|---|
| resolver | DynamicResolver.cfg | pass | `TypeOK`, `ResolverRefinesMarkup` for every page above and every ledger answer |
| resolver_unclosed | DynamicResolver_unclosed.cfg | violation | a page cut inside its last directive and served before the next append is not truncated: `startPos` wraps to 2 and the scan repeats itself, adding the amounts again on each pass. The page comes back raw only when `result` can grow no more, all under `g_cs_be_fatlock` |

### RequestRouter (`RequestRouter.tla`, `MC_RequestRouter.tla`)

One request is one step, because the handler holds `g_cs_be_fatlock`
throughout. A request is a page (`/<id>.html`), a search (`/search?q=<id>`),
the root, a fixed name, a path with no `.` (`bare`), a document search
(`/doc?q=<text>`) or a block lookup (`/api/block-index/<n>`). The block
arguments are `-1`, `0`, `2` and `3` around `nBestHeight = 2`, plus `NaN` for
a text `std::stoi` rejects. An id is a model value; `Words` says which endpoint
names its text contains.

The server runs in one of three modes, chosen in `Init` and then fixed:
the explorer, the balance checker, or neither. The two flags that select the
mode are set outside this repository. The endpoint, block-lookup and
document-search branches come first and run in every mode. Past them, the
explorer reads the page file, the balance checker calls
`BalanceChecker::getDataByRequest`, and a server with neither flag set
returns the not-found page.

The state is `mode`, `largeRequests` and `accessLog` (the last line
`writeAccessLog` appended), plus the last request and its response for the
properties.

Actions:

* `ServeBlockIndex`: `api/block-index/` is tested before any filtering.
  When `stoi` throws, the outer catch answers `500 ERROR`. A height outside
  `0..nBestHeight` gets `wrong block`. Any other height gets the block's hash.
* `ServeDocSearch`: `doc?q=` hands the unfiltered text to `SearchDocPage`.
  `VaultSearch` models what that page contains.
* `ServeEndpoint`: `mystyle.css` by equality, then the first of
  `circulatingsupply`, `stats`, `richlist`, `vault` and `favicon` found anywhere.
* `ServePage`: resolved, or raw when the page's entry is over 100 ms. The
  elapsed time is chosen from `ResolveTimes` or `RawTimes` and recorded as
  the code records it.
* `ServeBalanceCheck`: the root gets the checker's index. A 34-character
  id (`AddrIds`) is looked up in `balances.txt`, the result is written to
  the access log, and then the id is shown as found or not found. Any other
  id gets the wrong-request page. `lookupAddress` takes the first line that
  contains the address and starts with a number. In the run, the first line
  that contains `addr` has no number, so the lookup has to skip it. Paths
  with no `.` reach the checker too, because only the explorer reads the
  malformed flag.
* `ServeNotFound`: the not-found page is returned in three cases. With
  neither flag set, every request that gets this far gets it. In the explorer, a path with
  no `.` is malformed, and no file is read. A missing file throws in
  `reserve(tellg())`, and the catch logs it.

| Run | cfg | Expect | Shows |
|---|---|---|---|
| router | RequestRouter.cfg | pass | `RouteMatchesSpec` for ids with no endpoint name in them, in all three server modes; `ResolvedAgain`: every page that is requested infinitely often is served resolved infinitely often |
| router_vanity | RequestRouter_vanity.cfg | violation | an address containing `stats` is answered with the stats page |

`ResolvedAgain` is an implication: if a page is served infinitely often,
then it is served resolved infinitely often. It needs no fairness on the
arrival of requests. It assumes raw reads finish within the cutoff
(`RawTimes`). Resolution times are free to be above or below it.

The cutoff does not do what spec section 5 says. The spec says a path seen to
resolve slower than the threshold is served raw from then on. The code skips
the resolver only for the next request. That raw request records its own fast
time over the slow one, so the request after it resolves again. A slow page
alternates between resolved and raw. `ResolvedAgain` is the property this
behaviour satisfies.

### MessageFeed (`MessageFeed.tla`, `MC_MessageFeed.tla`)

This models the message branch of `printTxToStream` and the files it writes.
One transaction is one step, under `g_cs_be_fatlock`. A publication is a
record `[from, block, time, kind, body]`. Its kind is `note`, `vault`, or
`hidden` for `%HIDE` and `%SERVICE` messages. `time` is `msgTime`, the
transaction's time. A note's text is abstracted away: the duplicate check
reads only `(from, blockId)`. A vault publication's `body` is its text as
`TextRecord` lines, and its name, author and hash are character sequences,
so the search can match them.

| Variable | Code |
|---|---|
| `feed` | `g_messages`, front first |
| `msgFiles`, `vaultFiles` | `messages/*.html` and `vault/*.html`, in write order |
| `vaultDocs` | `g_vaultDocs`, front first |
| `next`, `redeliveries`, `restarts` | the ledger's position in `Chain`, and the bounds |

Actions:

* `Deliver` and `Redeliver` both run `MessageBranch` on a transaction.
  `Deliver` takes the next transaction; `Redeliver` takes one handed over
  before.
* `MessageBranch` follows the code's order:
  1. Hidden messages are skipped.
  2. Otherwise the feed is trimmed while its size is over `MaxMessagesShow`.
  3. A message whose key is already in the trimmed feed is dropped.
  4. A vault message goes to `storeVaultEntry`, which writes the file and
     inserts the doc at the front.
  5. A note is inserted at the front of the feed and written to a file.
* `Restart` rebuilds `g_vaultDocs` and `g_messages` from the files. The files
  are read in any order a `directory_iterator` may produce (`Listings`), and
  each is loaded with `reloadMessage`'s trim-then-insert.

In `MC_MessageFeed`, `MaxMessagesShow` is 2 and the chain is eight
transactions:

* four notes of `a` and `c`, two of which share a key;
* a hidden message;
* a vault publication by `b` in block 2;
* in block 4, `b` republishes the same hash under another name and author.

A publication's time is its block number.

One redelivery and one restart are allowed. Three notes fill the feed. Four
notes evict one. The redelivery of an evicted note, or of the vault
publication, is reachable.

| Run | cfg | Expect | Shows |
|---|---|---|---|
| feed | MessageFeed.cfg | pass | `NoMessageLost`: every note handed over has a file, even when the duplicate check drops it. `VaultKeepsEveryPublication`: every vault publication stays in `g_vaultDocs` across the restart. `FeedNewestFirstUntilRestart`: until a restart, `g_messages` is a prefix of the files newest first, with at least `MaxMessagesShow` entries. `FirstPublisherIsEarliest` and `VaultLinksFindDocs`: see VaultSearch and VaultPage |
| vault_forgery | MessageFeed_forged.cfg | violation | a vault text with a line `FROM: c` is listed under `c`: `reloadVaultDoc` lets the text's chunk overwrite the `FROM` header `storeVaultEntry` wrote |
| vault_redelivery | MessageFeed_vault.cfg | violation | a vault publication handed over twice is stored twice. The duplicate check looks only in `g_messages`, where vault entries never go |

Two more behaviours showed up while building the model:

* **Order after a restart.** `FeedIsNewestFirst` fails right after a restart
  whose directory listing is not in write order. The feed is then in
  directory order, and which entries it evicts depends on that order. This is
  not kept as a run.
* **Size.** The feed holds `MaxMessagesShow + 1` entries, 31 in the code, because the trim
  runs before the insert. Spec section 3 says at most 30.
  `FeedIsNewestFirst` allows the extra entry, because that is what the code
  does.

### TextRecord (`TextRecord.tla`)

`TextRecord` holds the file micro-format as pure operators. A line is
`[h, colon, v]`:

* `h` is the header the line starts with, or `none`;
* `colon` says whether the line contains a `:`;
* `v` is the line's text after the header.

The operators:

* `ParseTextData` follows the character loop. A chunk runs to the first line
  that contains a `:`. A colon-less line joins the line after it. A chunk is
  named by its first line's header. A nameless chunk at the end is kept as
  `remainingText`; any other nameless chunk is dropped.
* `Assign` is `reloadVaultDoc`'s loop: the last chunk for a field wins.
* `VaultFileLines` is the file `storeVaultEntry` writes: five header lines,
  then the publisher's text with its leading empty lines stripped.

`Fields` lists all nine fields that `reloadVaultDoc` sets.
`MessageFeed` stores every vault publication as these lines and reads it back
through them, on the store and on a restart. So `VaultKeepsEveryPublication`
and `VaultOnePerPublication` are checked against the parsed documents.
The text reaching `storeVaultEntry` is
`simpleHTMLSafeDisplayUnFilter(simpleHTMLSafeDisplayFilter(message))`. Both
functions are outside this repository. The model assumes they leave newlines
and `:` alone, since they are an HTML escape and its inverse.

### VaultSearch (`VaultSearch.tla`)

`SearchDocPage` reads `g_vaultDocs` under `g_cs_valut` and changes nothing.
So it is an operator of the vault and the query, and `MessageFeed` checks it
in every reachable state of the vault: after redeliveries, and after a
restart has reloaded the vault in any directory order.

* `NonStrictMatch` is `nonStrictMatch`: the query, lowered, is a prefix of
  the field, lowered. `Lower` is a constant operator; the MC module gives it
  the two capitals its texts use.
* `FirstPass` is the first loop. While fewer than `upTo` entries are
  matched, it pushes a document once for each of author, name and hash
  that it matches. A query of four characters or fewer matches nothing.
* `SecondPass` is the second loop. It runs when the query matched a name
  and no author. Starting from `m1[0]`, it pushes every document whose hash
  starts with `m1[0]`'s hash and whose dump differs.
* `std::sort` is not stable, and `msgTime` has a resolution of one second.
  The model therefore takes every row the sort may put first
  (`Earliest`), and `SearchDocPage` returns the set of pages the code may
  return. A page records its count, whether it matched by author, its
  banner (hash, renamed, or meta), its rows (first row first), and whether
  a loop stopped at `upTo`.

The feed run asks five queries:

* the republication's name in lower case, which matches a name only;
* the shared hash;
* the first publication's name and author;
* a four-character query, which matches nothing.

`MaxSearchResults` (`upTo`, 50 in the code) is 3, so the hash query hits the
cap once the first publication has been redelivered.
`FirstPublisherIsEarliest` holds:

* On every page that did not stop at `upTo` and was not matched by author,
  the first row is the earliest document in the vault with its hash.
* Its mutant drops the second loop. The name query then flags the
  republication as the first publisher.

Four more behaviours. The first three were confirmed by evaluating `SearchDocPage` on small
vaults; none is kept as a run, because all twelve runs are in use:

* **Ties.** Take two name matches published in the same second, and an
  earlier document with the second one's hash. The second loop may start
  from the first match. The sort may then put the second match first and
  flag it "First publisher!".
* **Empty hash.** A document published without a `HASH` line has the empty
  hash, which is a prefix of every hash. A name search whose earliest match
  is such a document lists the whole vault.
* **The cap.** `g_vaultDocs` is newest first, so when a loop stops at `upTo`
  the oldest documents are the ones cut off, and the "First publisher!" row
  is a later republication.
* **Spec section 8.** The spec says that a search by a hash held under two
  (name, author) pairs flags the non-original record. In the code, a hash
  search shows the "right choice" banner. A later row is flagged "not the
  same document" only when its hash differs from the first row's, so a
  same-hash row gets no such flag. It is flagged only for a different
  author. A republication under a new name by the same author is not
  flagged at all. This follows from reading the code and is not checked.

### VaultPage (`VaultPage.tla`)

`GetVaultPage` lists the newest documents of `g_vaultDocs`, up to 50. It links
each row's hash, name and author to `/doc?q=<safeDocSearchUrl(field)>`.
`GetFileDataByURL` passes the text after `doc?q=` to `SearchDocPage` before
any filtering. The module keeps the rows (`VaultPageRows`), and the query
each link carries (`LinkQuery`). `SafeDocSearchUrl` takes the characters up
to the first one outside `UrlSafe`, the set of characters that are
alphanumeric or `_`, `-` or `.`. The display of the cells is left out,
because no link depends on it. That display is the two-line hash,
`maxLength` and the HTML filter.

`MessageFeed` checks `VaultLinksFindDocs` in every state of the feed run.
Every link of every listed row leads to search pages that all list the
row's document. The property does not cover a link whose query is cut to 4
characters or fewer, because `SearchDocPage` rejects such queries outright.
That is a dead link by the code's own test, listed as a hazard. The feed
run gives Y's author a second word (`BBaBB a`), so the cut at the space
happens in the run. The mutant `SafeDocSearchUrlSkip` skips unsafe
characters instead of stopping at the first one, which turns `continue`
into `break`. Its link `BBaBBa` is then no prefix of the author, and TLC
finds the row missing from the search.

### KnownObjects (`KnownObjects.tla`)

`fixupKnownObjects` is the linker that page writes and the rich-list page
run their text through. `TokenLoop` is its first loop. An alphanumeric
extends the buffer. Any other character pushes the buffer, which may be
empty, and then itself. `Tokenize` adds the last buffer when it is not
empty. `Linked` is the second loop's test: the token's length is 64 or 34
(`IdLens`), the token is in `g_ids`, and the next token is not `"."`. A link
is a piece of its own rather than anchor markup.

`AddressPages` checks `LinkerMatchesWords` in every state of the ledger
run. `g_ids` is taken as that state's `known`, with each id given a text by
`IdText`. The check covers all texts of up to four characters over `a`,
`b`, `.` and `-`. In each one, the output shows the text unchanged, and the
links start exactly at the whole words that are registered ids of a linked
length and not followed by `.`. The reference definition (`IsWord`,
`WordLinks`) is written over positions, not tokens. The mutant
`TokenizeNoFlush` drops the last buffer, and TLC finds that a text ending
in a word loses it.

### BlockFeed (`BlockFeed.tla`, `MC_BlockFeed.tla`)

This models the block half of `WriteBlockInfo` and the index rebuild:

* `updateBlockInfo`: trim `blockStats` while over `MaxBlocksStat`, then insert
  the new sample at the front.
* `g_latestBlocksAdded`: a block not yet listed goes in at the front, and the
  list is trimmed to `MaxLatestBlocks`.
* `UpdateIndex`: unless forced, it returns early within `AutoUpdateTimeMs` of
  the last rebuild. Otherwise it snapshots the list and `calculateNetworkStats`
  into `shown`.
* `Restart`: the in-memory lists and `g_lastUpdateTime` start empty.

A sample is `[pos, t]`, where `t` is the tick count. Ticks advance by 1 or 2
between blocks. `NetworkStats` translates `calculateNetworkStats`. Its
averages are kept exact as numerator/denominator pairs, so the properties
compare them with the means they are meant to be. The code uses float
division, and rounding plays no part in either property.

`MC_BlockFeed` uses:

* six blocks;
* `MaxBlocksStat = 5`, so there can be 6 samples, and both the
  five-sample and six-sample cases of the four-block spans occur;
* `MaxLatestBlocks = 3`, so blocks are evicted and then redelivered;
* one redelivery and one restart.

| Run | cfg | Expect | Shows |
|---|---|---|---|
| blocks | BlockFeed.cfg | pass | `LatestDistinct`: the index's block table never lists a block twice. `ConfTimeIsMeanGap`: the confirmation time is (newest - oldest) / (samples - 1) |
| blocks_txspeed | BlockFeed_txspeed.cfg | violation | the full-TX time sums the spans for n > 4 but divides by size - 4, the count for n >= 4. With five samples it is 0 |

A redelivered block is sampled again by `updateBlockInfo`, which runs before
the duplicate-block test. This skews the PoS ratio. No property states it,
because the spec defines no network statistics.

## 4. Fairness

No run assumes fairness. The address ledger, resolver, message feed and
block feed runs check safety only. Blocks and messages reach the explorer
through `WriteBlockInfo` and `UpdateIndex`, and their callers are outside this
repository, so nothing in it guarantees that a block is ever handed over. The
one loop the repository does own, the scan of `fixupDynamicStatuses`,
terminates in the model because `result` is bounded (the `bad_alloc` bound of
the resolver runs). Termination there says something about the bound, not about
the code. The router's liveness property is an implication over infinitely many
requests, because nothing in the code makes requests arrive. Nor is the fat lock fair: a boost mutex
does not serve its waiters in order, so no property claims that a waiting
`WriteBlockInfo` gets the lock.

## 5. Not modelled

* I/O failures of single writes. `std::fstream` fails silently; the
  `boost::filesystem` calls throw and are caught per handler. They are a
  planned extension of `AddressLedger`.
* Page formatting, HTML escaping, the style sheet and the GUI header. This
  includes the balance checker's head, tail and templates, and its
  `std::to_string` of the balance, which keeps 6 decimals. That rounding is
  listed as a hazard. The style sheet is
  constant CSS. The JSON data server returns its argument. `mSHA3` and the
  send-coins dialog are declarations with no behaviour in the repository.
* The uninitialized `int supply` of `WebTools::ReadCounterFile` when
  `circulating_supply` does not exist yet. The model starts the counter at 0.
  Any other start value only shifts the supply, which no property reads.
* Chain reorganisations. Nothing the explorer writes is undone when the node
  disconnects a block.
* Vault and message file names. They are `<time(NULL)>-<IncreasingId>`, and
  `IncreasingId` starts at 0 in every process. A restart within the same
  second as an earlier store, or a clock set back, reuses a name, and the
  write overwrites that file. The model has no clock, so this case is out of
  its reach; it is listed as a hazard.
