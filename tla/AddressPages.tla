---------------------------- MODULE AddressPages ----------------------------
(***************************************************************************)
(* The address pages as the two halves of the explorer see them.           *)
(* addAddressTx (AddressLedger) writes a page per address: a head with the *)
(* balance and balanceconfirmed directives on the first row, then per row *)
(* its amount directive and its txstate directive.  A request for the      *)
(* page runs fixupDynamicStatuses, which DynamicResolver shows to serve    *)
(* the fold of DynamicMarkup; here the fold is applied to the page the    *)
(* ledger wrote, under every answer the ledger's depths can give.          *)
(***************************************************************************)
EXTENDS AddressLedger, KnownObjects

CONSTANTS
    NotFound,   \* the depth of a transaction ReadDiskTx does not find
    NoArg,      \* a directive argument with no digits
    IdText      \* the text of each address, tx and block id

Markup == INSTANCE DynamicMarkup
    WITH TxIds <- Txs, MarkLen <- 12, EndLen <- 3, Docs <- {}, Depths <- {},
         page <- <<>>, ledgerDepth <- <<>>, returned <- FALSE, served <- <<>>

(* Markup between the directives.  Its length only places the pieces.     *)
Cell == Markup!Text(4)
D(kind, arg) == Markup!Dir(kind, arg, 12 + 2 + 3, TRUE)

(* The head written with the first row: the two balance directives.       *)
PageHead == <<Cell, D("balance", 0), Cell, D("balanceconfirmed", 0), Cell>>

(* A bug in the row: the txstate cell written before the amount cell.     *)
PageRowStateFirst(r) ==
    <<Cell, D("txstate", r.tx), Cell>> \o
    (IF r.amt = 0 THEN <<>>
     ELSE <<D(IF r.amt > 0 THEN "amountplus" ELSE "amountminus",
              IF r.amt > 0 THEN r.amt ELSE -r.amt)>>) \o <<Cell>>

(* One row: the amount cell holds amountplus or amountminus of |amount|  *)
(* (none for a zero amount), the state cell the txstate of the tx.        *)
PageRow(r) ==
    <<Cell>> \o
    (IF r.amt = 0 THEN <<>>
     ELSE <<D(IF r.amt > 0 THEN "amountplus" ELSE "amountminus",
              IF r.amt > 0 THEN r.amt ELSE -r.amt)>>) \o
    <<Cell, D("txstate", r.tx), Cell>>

(* blockexplorer/<a>.html: no file before the first row.                  *)
PageDoc(a) ==
    IF doc[a] = <<>> THEN <<>>
    ELSE PageHead \o FlattenSeq([i \in DOMAIN doc[a] |-> PageRow(doc[a][i])])

(* What the served page shows in a balance cell: the total, or the        *)
(* placeholder left when the total is negative.                           *)
Shown(out, kind) == {out[i].a : i \in {j \in DOMAIN out : out[j].k = kind}}

(* The answers ReadDiskTx/GetDepth can give while the explorer has        *)
(* indexed blocks 1..highest: the node's best chain holds them and tip    *)
(* blocks in all, and a transaction's depth is its distance from the tip. *)
BlockOf(t) == CHOOSE b \in DOMAIN Chain : t \in ToSet(Chain[b].txs)
Depths ==
    {[t \in Txs |-> IF \E b \in 1..tip : t \in ToSet(Chain[b].txs)
                   THEN tip - BlockOf(t) + 1 ELSE NotFound]
        : tip \in highest..(highest + Markup!MinConfirms)}

(* The ledger's balance of a counting only the transactions that the      *)
(* depths dep confirm (at least MinConfirms).                              *)
Confirmed(dep, t) == dep[t] # NotFound /\ dep[t] >= Markup!MinConfirms
ConfirmedLedgerBalance(a, dep) ==
    SumFunction([b \in 1..highest |->
        SumFunction([i \in DOMAIN Chain[b].txs |->
            IF Confirmed(dep, Chain[b].txs[i]) THEN TxDelta(Chain[b].txs[i], a) ELSE 0])])

(* Spec sections 3 and 8: served through fixupDynamicStatuses, an address *)
(* page shows the address's ledger balance, and as confirmed balance the  *)
(* sum of the transfers whose transaction has 6 confirmations, whatever   *)
(* the node's tip, while the duplicate guard holds (addAddressTx's row    *)
(* layout, the resolver's pending amount, and the guard together).        *)
PageShowsLedgerBalances ==
    (window /\ Idle) =>
        \A a \in Addr, dep \in Depths :
            doc[a] # <<>> =>
                LET out == Markup!ResolvedPage(PageDoc(a), dep)
                IN  /\ Shown(out, "valbal") = {LedgerBalance(a)}
                    /\ Shown(out, "valconf") = {ConfirmedLedgerBalance(a, dep)}

(* fixupKnownObjects, run on a page text with g_ids as the explorer holds *)
(* it, keeps every character of the text, in order, and links exactly the *)
(* whole words that are registered ids of an id's length and are not      *)
(* followed by "." (so "<id>.html" is left alone): its tokenizer, with its *)
(* empty tokens and its last buffer, is the word split the links need.    *)
LinkerMatchesWords ==
    LET ids == {IdText[x] : x \in known}
    IN  \A src \in LinkTexts :
            LET out == FixupKnownObjects(src, ids)
            IN  /\ ShownText(out) = src
                /\ LinkStarts(out) = WordLinks(src, ids)

=============================================================================
