--------------------------- MODULE DynamicResolver ---------------------------
(***************************************************************************)
(* fixupDynamicStatuses (blockexplorer.cpp), one iteration of its scan     *)
(* loop per step.  Offsets are size_t values of SizeBits bits: npos is     *)
(* 2^SizeBits - 1 and "startPos = nextDynamicEndPos + 3" wraps as the      *)
(* build does.  The request holds g_cs_be_fatlock for the whole call and   *)
(* the document and the ledger's depths are fixed during it.               *)
(*                                                                         *)
(* The function's catch block returns the document unresolved.  Two       *)
(* exceptions reach it: std::stoll on an amount with no digits, and        *)
(* std::bad_alloc once result outgrows the memory the process can get,     *)
(* modelled as MaxResult characters.                                       *)
(***************************************************************************)
EXTENDS MarkupDocument

CONSTANTS
    Docs,        \* documents a request can read (pages the explorer wrote)
    Depths,      \* depth functions the ledger can answer with
    SizeBits,    \* width of size_t
    MaxResult    \* characters result can grow to before bad_alloc

VARIABLES
    doc, depth,                \* data, and the ledger's ReadDiskTx/GetDepth
    phase,                     \* "scan", "subst" (after the loop), "done"
    startPos,
    balanceAmount, balanceAmountConfirmed, tempBalanceToConfirm,
    needUpdateBalance,
    result

vars == <<doc, depth, phase, startPos, balanceAmount, balanceAmountConfirmed,
          tempBalanceToConfirm, needUpdateBalance, result>>

NPOS == 2^SizeBits - 1

(* data.find(dynamicStartMarker, from) and data.find(dynamicEndMarket,    *)
(* from): the first directive start, and the first "-->", at or after     *)
(* from; npos when there is none.                                          *)
FindMarker(from) ==
    LET S == {Start(doc, i) : i \in {j \in DirIdx(doc) : Start(doc, j) >= from}}
    IN  IF S = {} THEN NPOS ELSE Min(S)
FindEnd(from) ==
    LET S == {EndAt(doc, i) : i \in {j \in DirIdx(doc) :
                  doc[j].closed /\ EndAt(doc, j) >= from}}
    IN  IF S = {} THEN NPOS ELSE Min(S)

PieceLen(p) == IF p.k \in {"text", "grayraw"} THEN p.b - p.a ELSE 1
ResultLen(r) == SumFunction([i \in DOMAIN r |-> PieceLen(r[i])])

(* ReadDiskTx on the hash of a txstate directive; a cut-off hash is not   *)
(* found.                                                                  *)
TxDepth(t) == IF t \in TxIds THEN depth[t] ELSE NotFound

(* A bug in the position update: the start marker's length skipped.      *)
NextStartPosMarkLen(e) == (e + MarkLen) % 2^SizeBits

(* startPos = nextDynamicEndPos + dynamicEndMarket.length(), in size_t.   *)
NextStartPos(e) == (e + EndLen) % 2^SizeBits

(* A bug in the confirmation test: a depth of exactly 6 left pending.     *)
IsConfirmedStrict(dep) == dep # NotFound /\ dep > MinConfirms

(* ReadDiskTx found the transaction and it has at least 6 confirmations.  *)
IsConfirmed(dep) == dep # NotFound /\ dep >= MinConfirms

Init ==
    /\ doc \in Docs
    /\ depth \in Depths
    /\ phase = "scan"
    /\ startPos = 0
    /\ balanceAmount = 0
    /\ balanceAmountConfirmed = 0
    /\ tempBalanceToConfirm = 0
    /\ needUpdateBalance = FALSE
    /\ result = <<>>

(* The catch block: the unresolved document is returned.  The locals are *)
(* dead from here on.                                                      *)
Fail ==
    /\ phase' = "done"
    /\ result' = <<RawPiece>>

(* result += pieces, or bad_alloc when result would outgrow MaxResult.    *)
AppendResult(pieces) ==
    IF ResultLen(result \o pieces) > MaxResult THEN Fail
    ELSE /\ result' = result \o pieces
         /\ UNCHANGED phase

(* while (startPos < data.length()) is false.                             *)
LoopEnds ==
    /\ phase = "scan"
    /\ startPos >= DataLen(doc)
    /\ phase' = "subst"
    /\ UNCHANGED <<doc, depth, startPos, balanceAmount, balanceAmountConfirmed,
                   tempBalanceToConfirm, needUpdateBalance, result>>

(* No directive after startPos: the rest is copied and the loop breaks.   *)
NoMoreDynamics ==
    /\ phase = "scan"
    /\ startPos < DataLen(doc)
    /\ FindMarker(startPos) = NPOS
    /\ result' = Append(result, Piece("text", startPos, DataLen(doc)))
    /\ phase' = "subst"
    /\ UNCHANGED <<doc, depth, startPos, balanceAmount, balanceAmountConfirmed,
                   tempBalanceToConfirm, needUpdateBalance>>

(* One directive.  temp is the text from after the marker up to the next  *)
(* "-->", or to the end when there is none: the guard at the "not closed" *)
(* branch tests nextDynamicPos, which is never npos, instead of           *)
(* nextDynamicEndPos.  The text before the marker is copied, the kind     *)
(* dispatched on, its output appended, and startPos moved past the "-->". *)
Directive ==
    /\ phase = "scan"
    /\ startPos < DataLen(doc)
    /\ LET m   == FindMarker(startPos)
           np  == (m + MarkLen) % 2^SizeBits
           e   == FindEnd(np)
           i   == CHOOSE j \in DirIdx(doc) : Start(doc, j) = m
           t   == doc[i]
           pre == IF m > startPos THEN <<Piece("text", startPos, m)>> ELSE <<>>
           dep == TxDepth(t.arg)
       IN
       /\ m # NPOS
       /\ np # NPOS
       /\ startPos' = NextStartPos(e)
       /\ UNCHANGED <<doc, depth>>
       /\ \/ /\ t.d \in {"amountplus", "amountminus"}
             /\ t.arg = NoArg
             /\ Fail
             /\ UNCHANGED <<balanceAmount, balanceAmountConfirmed,
                            tempBalanceToConfirm, needUpdateBalance>>
          \/ /\ t.d \in {"amountplus", "amountminus"}
             /\ t.arg # NoArg
             /\ LET r == IF t.d = "amountplus" THEN t.arg ELSE -t.arg
                IN  /\ balanceAmount' = balanceAmount + r
                    /\ tempBalanceToConfirm' = r
             /\ AppendResult(pre)
             /\ UNCHANGED <<balanceAmountConfirmed, needUpdateBalance>>
          \/ /\ t.d \in {"balance", "balanceconfirmed"}
             /\ needUpdateBalance' = TRUE
             /\ AppendResult(pre \o <<IF t.d = "balance"
                                      THEN Piece("phbal", 0, 0)
                                      ELSE Piece("phconf", 0, 0)>>)
             /\ UNCHANGED <<balanceAmount, balanceAmountConfirmed,
                            tempBalanceToConfirm>>
          \/ /\ t.d = "txstate"
             /\ IF IsConfirmed(dep)
                THEN /\ balanceAmountConfirmed' =
                            balanceAmountConfirmed + tempBalanceToConfirm
                     /\ tempBalanceToConfirm' = 0
                ELSE UNCHANGED <<balanceAmountConfirmed, tempBalanceToConfirm>>
             /\ AppendResult(pre \o <<StatusPiece(dep)>>)
             /\ UNCHANGED <<balanceAmount, needUpdateBalance>>
          \/ /\ t.d = "none"
             /\ AppendResult(pre \o <<Piece("grayraw", np, Min({e, DataLen(doc)}))>>)
             /\ UNCHANGED <<balanceAmount, balanceAmountConfirmed,
                            tempBalanceToConfirm, needUpdateBalance>>

(* After the loop: boost::replace_all of each placeholder by its total    *)
(* when the total is not negative.                                         *)
SubstituteBalances ==
    /\ phase = "subst"
    /\ phase' = "done"
    /\ result' = IF needUpdateBalance
                 THEN Substitute(result, balanceAmount, balanceAmountConfirmed)
                 ELSE result
    /\ UNCHANGED <<doc, depth, startPos, balanceAmount, balanceAmountConfirmed,
                   tempBalanceToConfirm, needUpdateBalance>>

Next == LoopEnds \/ NoMoreDynamics \/ Directive \/ SubstituteBalances

Spec == Init /\ [][Next]_vars

-----------------------------------------------------------------------------
TypeOK ==
    /\ doc \in Docs
    /\ phase \in {"scan", "subst", "done"}
    /\ startPos \in 0..DataLen(doc)
    /\ balanceAmount \in Int
    /\ balanceAmountConfirmed \in Int
    /\ tempBalanceToConfirm \in Int
    /\ needUpdateBalance \in BOOLEAN
    /\ ResultLen(result) <= MaxResult \/ result = <<RawPiece>>

(* The served page, as the abstract resolver sees it: nothing until the   *)
(* call returns, then its result.                                          *)
Abstract == INSTANCE DynamicMarkup
    WITH page <- doc, ledgerDepth <- depth, returned <- phase = "done",
         served <- IF phase = "done" THEN result ELSE <<>>

(* fixupDynamicStatuses implements spec section 4.3: whatever page it is  *)
(* given and whatever the ledger answers, the page it returns is the one  *)
(* the left-to-right fold of the directives defines: the pending amount   *)
(* of each row moves into the confirmed balance exactly when its txstate  *)
(* is confirmed, the placeholders are filled only with non-negative       *)
(* totals, and an unclosed directive truncates the page.                  *)
ResolverRefinesMarkup == Abstract!Spec

=============================================================================
