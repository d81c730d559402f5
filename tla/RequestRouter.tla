---------------------------- MODULE RequestRouter ----------------------------
(***************************************************************************)
(* BlocksContainer::GetFileDataByURL (blockexplorer.cpp): routing a        *)
(* request and the largeRequests latency cutoff.  The whole handler runs   *)
(* under g_cs_be_fatlock, so one request is one step.                      *)
(*                                                                         *)
(* A request is a page "/<id>.html", a search "/search?q=<id>", a path    *)
(* "/<id>" with no extension, a document search "/doc?q=<id>", a block     *)
(* lookup "/api/block-index/<n>", the root "/" or a fixed name such as     *)
(* "/stats".  The server runs in one of three modes, fixed at start by    *)
(* fBlockExplorerServerEnabled and fBalanceCheckerServerEnabled (set       *)
(* outside this repository): the explorer, the balance checker, or        *)
(* neither.  An id is a model value; what *)
(* routing reads of its text is which endpoint names it contains          *)
(* (Words).  The time a request takes is chosen from ResolveTimes when the *)
(* resolver runs and from RawTimes when it is skipped: getTicksCount-     *)
(* ToMeasure is outside this repository.                                   *)
(***************************************************************************)
EXTENDS Integers, Sequences, FiniteSets, FiniteSetsExt

CONSTANTS
    Ids,            \* entity ids requests name
    Words,          \* [Ids -> SUBSET Endpoints]: endpoint names in an id's text
    PageIds,        \* ids with a file under blockexplorer/ (includes Index)
    Index,          \* the landing page id, "index"
    Cutoff,         \* largeRequestCutoff, 100 ms
    ResolveTimes,   \* [PageIds -> SUBSET Nat]: times a resolving read can take
    RawTimes,       \* times a read without resolution can take
    Absent,         \* no largeRequests entry
    BlockArgs,      \* what follows "api/block-index/": integers, or NaN
    NaN,            \* a text std::stoi cannot read
    BestHeight,     \* nBestHeight, the node's chain height
    AddrIds,        \* ids whose text is 34 characters long (addresses)
    BalanceLines    \* balancechecker/balances.txt: a sequence of lines,
                    \* each [bal: its leading number or NaN, ids: the ids
                    \* whose text occurs in it]

(* The names the handler tests with find(...) != npos, in code order.     *)
Endpoints == <<"circulatingsupply", "stats", "richlist", "vault", "favicon">>
EndpointNames == {Endpoints[i] : i \in DOMAIN Endpoints} \cup {"mystyle.css"}

Req(kind, x) == [kind |-> kind, x |-> x]
Requests ==
    {Req("page", i) : i \in Ids} \cup {Req("search", i) : i \in Ids}
    \cup {Req("bare", i) : i \in Ids} \cup {Req("doc", i) : i \in Ids}
    \cup {Req("api", n) : n \in BlockArgs}
    \cup {Req("name", n) : n \in EndpointNames} \cup {Req("root", Index)}

(* The "api/block-index/" and "doc?q=" prefixes are answered before the   *)
(* request is filtered and tested for endpoint names.                     *)
EarlyRoute(r) == r.kind \in {"api", "doc"}

ServerModes == {"explorer", "checker", "none"}

VARIABLES
    mode,           \* which server flag is set
    largeRequests,  \* page -> elapsed ms of its last recorded request
    accessLog,      \* the last line writeAccessLog appended
    lastReq,        \* the request served last
    response        \* what it was answered with

vars == <<mode, largeRequests, accessLog, lastReq, response>>

(* The endpoint names the filtered request text contains.                 *)
NamesIn(r) ==
    CASE r.kind = "name" -> {r.x}
      [] r.kind \in {"page", "search", "bare"} -> Words[r.x]
      [] OTHER -> {}

(* A bug in the routing: the style sheet tested like the other names.     *)
FixedRouteNoStyle(r) ==
    LET hits == {i \in DOMAIN Endpoints : Endpoints[i] \in NamesIn(r)}
    IN  IF hits = {} THEN ""
        ELSE Endpoints[CHOOSE i \in hits : \A j \in hits : i <= j]

(* The fixed endpoint a request is routed to, or "" when it is routed to  *)
(* a file: "mystyle.css" by equality, then the first name in code order   *)
(* that occurs anywhere in the request.                                    *)
FixedRoute(r) ==
    IF r.kind = "name" /\ r.x = "mystyle.css" THEN "mystyle.css"
    ELSE LET hits == {i \in DOMAIN Endpoints : Endpoints[i] \in NamesIn(r)}
         IN  IF hits = {} THEN ""
             ELSE Endpoints[CHOOSE i \in hits : \A j \in hits : i <= j]

(* The file a request not routed to an endpoint reads: the text before the *)
(* first '.', the search term, or "index" for an empty path.              *)
FileOf(r) == r.x

Resp(kind, x) == [kind |-> kind, x |-> x]

(* The resolver is skipped when the page's last recorded time is over the *)
(* cutoff.                                                                 *)
SkipsResolver(p) == largeRequests[p] # Absent /\ largeRequests[p] > Cutoff

(* A bug in the bookkeeping: only slow requests recorded.                 *)
RecordSlowOnly(p, elapsed) ==
    IF elapsed > Cutoff THEN [largeRequests EXCEPT ![p] = elapsed]
    ELSE largeRequests

(* Record the elapsed time when it is over the cutoff or the page already *)
(* has an entry.                                                           *)
Record(p, elapsed) ==
    IF elapsed > Cutoff \/ largeRequests[p] # Absent
    THEN [largeRequests EXCEPT ![p] = elapsed]
    ELSE largeRequests

Init ==
    /\ mode \in ServerModes
    /\ accessLog = <<>>
    /\ largeRequests = [p \in PageIds |-> Absent]
    /\ lastReq = Req("root", Index)
    /\ response = Resp("none", Index)

(* api/block-index/<n>: std::stoi throws on a text with no number and the *)
(* outer catch answers "500 ERROR"; a height outside 0..nBestHeight is a  *)
(* "wrong block"; otherwise the hash of the block at that height.         *)
ServeBlockIndex(r) ==
    /\ r.kind = "api"
    /\ lastReq' = r
    /\ response' = CASE r.x = NaN -> Resp("error", NaN)
                     [] r.x < 0 \/ r.x > BestHeight -> Resp("wrongblock", r.x)
                     [] OTHER -> Resp("blockhash", r.x)
    /\ UNCHANGED <<mode, largeRequests, accessLog>>

(* doc?q=<text>: SearchDocPage on the unfiltered text.                    *)
ServeDocSearch(r) ==
    /\ r.kind = "doc"
    /\ lastReq' = r
    /\ response' = Resp("docsearch", r.x)
    /\ UNCHANGED <<mode, largeRequests, accessLog>>

(* A fixed endpoint: the style sheet, the supply, the stats, rich list or *)
(* vault page, or the empty favicon.                                      *)
ServeEndpoint(r) ==
    /\ ~EarlyRoute(r)
    /\ FixedRoute(r) # ""
    /\ lastReq' = r
    /\ response' = Resp("endpoint", FixedRoute(r))
    /\ UNCHANGED <<mode, largeRequests, accessLog>>

(* A page file read and resolved, or read and returned raw when the last  *)
(* request for it was slow; the time it took is recorded.                 *)
ServePage(r) ==
    LET p == FileOf(r) IN
    /\ mode = "explorer"
    /\ ~EarlyRoute(r) /\ r.kind # "bare"
    /\ FixedRoute(r) = ""
    /\ p \in PageIds
    /\ lastReq' = r
    /\ \/ /\ ~SkipsResolver(p)
          /\ \E elapsed \in ResolveTimes[p] :
                largeRequests' = Record(p, elapsed)
          /\ response' = Resp("resolved", p)
       \/ /\ SkipsResolver(p)
          /\ \E elapsed \in RawTimes :
                largeRequests' = Record(p, elapsed)
          /\ response' = Resp("raw", p)
    /\ UNCHANGED <<mode, accessLog>>

(* The generic not-found page: with neither server flag set; or in the    *)
(* explorer, a path with no '.' that is not a search is malformed and no  *)
(* file is read, or the file is missing, and reserving tellg() == -1      *)
(* bytes throws and the handler's catch logs it.                          *)
ServeNotFound(r) ==
    /\ ~EarlyRoute(r)
    /\ FixedRoute(r) = ""
    /\ \/ mode = "none"
       \/ /\ mode = "explorer"
          /\ \/ r.kind = "bare"
             \/ FileOf(r) \notin PageIds
    /\ lastReq' = r
    /\ response' = Resp("notfound", FileOf(r))
    /\ UNCHANGED <<mode, largeRequests, accessLog>>

(* BalanceChecker::lookupAddress: the leading number of the first line of  *)
(* balances.txt that contains the address and starts with one; NaN (not   *)
(* found) when there is none or the file cannot be read.                  *)
LookupAddress(a) ==
    LET hits == {i \in DOMAIN BalanceLines :
                    a \in BalanceLines[i].ids /\ BalanceLines[i].bal # NaN}
    IN  IF hits = {} THEN NaN ELSE BalanceLines[Min(hits)].bal

(* WebTools::writeAccessLog: one line appended to webdb/access_log.txt; a *)
(* failure is caught and only printed.  The model keeps the last line.    *)
WriteAccessLog(q, bal) == accessLog' = <<q, bal>>

(* BalanceChecker::getDataByRequest(reqSafe): the checker's index for     *)
(* "index" (the root); for a 34-character text, the lookup, written to    *)
(* the access log and then shown with found.txt or notfound.txt; the      *)
(* wrong-request page for any other text.  Pages, searches and paths with *)
(* no '.' all reach it: the malformed flag is read in the explorer only.  *)
ServeBalanceCheck(r) ==
    LET q == FileOf(r) IN
    /\ mode = "checker"
    /\ ~EarlyRoute(r)
    /\ FixedRoute(r) = ""
    /\ lastReq' = r
    /\ \/ /\ q = Index
          /\ response' = Resp("bcindex", q)
          /\ UNCHANGED accessLog
       \/ /\ q \in AddrIds
          /\ WriteAccessLog(q, LookupAddress(q))
          /\ response' = IF LookupAddress(q) = NaN THEN Resp("nobalance", q)
                         ELSE Resp("balance", <<q, LookupAddress(q)>>)
       \/ /\ q \notin AddrIds \cup {Index}
          /\ response' = Resp("wrong", q)
          /\ UNCHANGED accessLog
    /\ UNCHANGED <<mode, largeRequests>>

Next ==
    \E r \in Requests :
        \/ ServeBlockIndex(r)
        \/ ServeDocSearch(r)
        \/ ServeEndpoint(r)
        \/ ServePage(r)
        \/ ServeNotFound(r)
        \/ ServeBalanceCheck(r)

Spec == Init /\ [][Next]_vars

-----------------------------------------------------------------------------
(* Spec section 5: a request naming a fixed endpoint gets that endpoint,  *)
(* a document search the search page and a block lookup the block's hash  *)
(* (or a recoverable error), a path with no extension "not found", the    *)
(* root the landing page, and a page or search request the entity it      *)
(* names, or "not found" when there is none.  The balance checker, which  *)
(* the spec leaves to its boundary, answers an address with the balance   *)
(* balances.txt holds for it, the root with its own index and any other   *)
(* id as a wrong request; with no server enabled, all of these are "not   *)
(* found".                                                                 *)
SpecResponse(r) ==
    CASE r.kind = "name" -> Resp("endpoint", r.x)
      [] r.kind = "doc"  -> Resp("docsearch", r.x)
      [] r.kind = "api"  -> IF r.x = NaN THEN Resp("error", NaN)
                            ELSE IF r.x \in 0..BestHeight THEN Resp("blockhash", r.x)
                            ELSE Resp("wrongblock", r.x)
      [] mode = "none"   -> Resp("notfound", FileOf(r))
      [] mode = "checker" ->
            CASE FileOf(r) = Index -> Resp("bcindex", Index)
              [] FileOf(r) \notin AddrIds -> Resp("wrong", r.x)
              [] LookupAddress(r.x) = NaN -> Resp("nobalance", r.x)
              [] OTHER -> Resp("balance", <<r.x, LookupAddress(r.x)>>)
      [] r.kind = "bare" -> Resp("notfound", r.x)
      [] r.x \in PageIds  -> Resp("page", r.x)
      [] OTHER            -> Resp("notfound", r.x)

(* Every request is answered with what it names: GetFileDataByURL's       *)
(* substring tests for the fixed endpoints never take over a request for  *)
(* an entity, and the '.' split and the empty-path default find the page. *)
RouteMatchesSpec ==
    response.kind # "none" =>
        LET want == SpecResponse(lastReq) IN
        IF want.kind = "page"
        THEN response.kind \in {"resolved", "raw"} /\ response.x = want.x
        ELSE response = want

ServesPage(p) == \E r \in Requests : FileOf(r) = p /\ ServePage(r)

(* The latency cutoff only ever defers resolution: a page that keeps      *)
(* being requested keeps being served resolved, so its confirmations and  *)
(* balances do not freeze (largeRequests is overwritten by the fast raw   *)
(* read).  It assumes a raw read finishes within the cutoff.              *)
ResolvedAgain ==
    \A p \in PageIds :
        []<><<ServesPage(p)>>_vars => []<>(response = Resp("resolved", p))

=============================================================================
