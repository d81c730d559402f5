---------------------------- MODULE DynamicMarkup ----------------------------
(***************************************************************************)
(* What the Dynamic Markup Resolver promises (spec section 4.3): resolving *)
(* a page is one step that turns the stored document into the served one.  *)
(* The served page is a left-to-right fold over the directive spans:       *)
(*   - amountplus / amountminus add to the running balance, show nothing,  *)
(*     and leave an amount pending for the next txstate;                   *)
(*   - txstate shows its status; a confirmed one moves the pending amount  *)
(*     into the confirmed balance;                                         *)
(*   - balance / balanceconfirmed show a placeholder, filled at the end    *)
(*     with the total when the total is not negative;                      *)
(*   - a directive with no "-->" of its own spans to the next "-->"; when  *)
(*     there is none it ends the scan, and the text from it on is dropped  *)
(*     (section 6, "ProtocolViolation").                                   *)
(***************************************************************************)
EXTENDS MarkupDocument

CONSTANTS Docs, Depths

VARIABLES page, ledgerDepth, returned, served

(* The span a directive opened at token i runs to the first "-->" after  *)
(* it: its own, or, for a directive cut short, that of the next closed    *)
(* one; 0 when there is none.                                              *)
SpanEnd(doc, i) ==
    LET C == {j \in DirIdx(doc) : j >= i /\ doc[j].closed}
    IN  IF C = {} THEN 0 ELSE Min(C)

(* The fold, from token i with accumulator acc.  An amount with no digits *)
(* is an error, caught at the operation boundary (spec section 6): the    *)
(* page is served unresolved.                                              *)
RECURSIVE FoldFrom(_, _, _, _)
FoldFrom(doc, dep, i, acc) ==
    IF i > Len(doc) THEN acc
    ELSE
    LET t == doc[i]
        j == SpanEnd(doc, i)
        emit(p) == [acc EXCEPT !.out = Append(@, p)]
        depOf(x) == IF x \in TxIds THEN dep[x] ELSE NotFound
    IN
    IF t.k = "text" THEN FoldFrom(doc, dep, i + 1, emit(TextPiece(doc, i)))
    ELSE IF j = 0 THEN acc
    ELSE IF t.d \in {"amountplus", "amountminus"} /\ t.arg = NoArg
    THEN [acc EXCEPT !.raw = TRUE]
    ELSE FoldFrom(doc, dep, j + 1,
      CASE t.d = "amountplus" ->
             [acc EXCEPT !.bal = @ + t.arg, !.pend = t.arg]
        [] t.d = "amountminus" ->
             [acc EXCEPT !.bal = @ - t.arg, !.pend = -t.arg]
        [] t.d = "balance" ->
             [emit(Piece("phbal", 0, 0)) EXCEPT !.need = TRUE]
        [] t.d = "balanceconfirmed" ->
             [emit(Piece("phconf", 0, 0)) EXCEPT !.need = TRUE]
        [] t.d = "txstate" /\ depOf(t.arg) # NotFound
                           /\ depOf(t.arg) >= MinConfirms ->
             [emit(StatusPiece(depOf(t.arg)))
                 EXCEPT !.conf = @ + acc.pend, !.pend = 0]
        [] t.d = "txstate" -> emit(StatusPiece(depOf(t.arg)))
        [] OTHER -> emit(Piece("grayraw", Start(doc, i) + MarkLen, EndAt(doc, j))))

ResolvedPage(doc, dep) ==
    LET r == FoldFrom(doc, dep, 1,
                 [out |-> <<>>, bal |-> 0, conf |-> 0, pend |-> 0,
                  need |-> FALSE, raw |-> FALSE])
    IN  IF r.raw THEN <<RawPiece>>
        ELSE IF r.need THEN Substitute(r.out, r.bal, r.conf) ELSE r.out

Init ==
    /\ page \in Docs
    /\ ledgerDepth \in Depths
    /\ returned = FALSE
    /\ served = <<>>

Resolve ==
    /\ ~returned
    /\ returned' = TRUE
    /\ served' = ResolvedPage(page, ledgerDepth)
    /\ UNCHANGED <<page, ledgerDepth>>

Spec == Init /\ [][Resolve]_<<page, ledgerDepth, returned, served>>

=============================================================================
