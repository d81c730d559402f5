------------------------- MODULE MC_DynamicResolver -------------------------
(***************************************************************************)
(* Pages for checking DynamicResolver, built the way addAddressTx and      *)
(* printTxToStream write them.  A text run is TextLen characters; a        *)
(* directive's content is two characters.  size_t has 8 bits: the pages    *)
(* stay below npos = 255, and npos + 3 wraps to 2 as with 64 bits.         *)
(***************************************************************************)
EXTENDS DynamicResolver, SequencesExt

CONSTANTS x1, x2

TextLen == 3
T == Text(TextLen)
D(kind, arg) == Dir(kind, arg, MarkLen + 2 + EndLen, TRUE)
(* A directive whose write stopped after the marker and n characters.    *)
Cut(kind, arg, n) == Dir(kind, arg, MarkLen + n, FALSE)

(* addAddressTx: the first row of a page writes the head with the two     *)
(* balance directives; each row holds its amount, then its txstate.       *)
PageHead == <<T, D("balance", 0), T, D("balanceconfirmed", 0), T>>
Row(amt, tx) ==
    <<D(IF amt > 0 THEN "amountplus" ELSE "amountminus",
        IF amt > 0 THEN amt ELSE -amt), T, D("txstate", tx), T>>
AddressPage(rows) == PageHead \o FlattenSeq([i \in DOMAIN rows |-> Row(rows[i][1], rows[i][2])])

(* printTxToStream: a transaction page has a single txstate.              *)
TxPage == <<T, D("txstate", x1), T>>

(* A page whose append stopped inside a row, before the next append.     *)
CutThenAppended(cut) ==
    PageHead \o <<Cut(cut[1], cut[2], cut[3]), T>> \o
    FlattenSeq(<<Row(2, x1), Row(-1, x2)>>)

(* An empty page: one whose first write stopped before any byte.          *)
WellFormedDocs ==
    { <<>>, TxPage,
      AddressPage(<<<<3, x1>>, <<-2, x2>>>>),
      AddressPage(<<<<1, x1>>, <<-3, x2>>>>) }

(* Cut inside the kind, inside the amount's digits, before any digit,     *)
(* and inside the hash of a txstate.                                      *)
CutDocs ==
    { CutThenAppended(<<"none", NoArg, 4>>),
      CutThenAppended(<<"amountplus", 1, 12>>),
      CutThenAppended(<<"amountminus", NoArg, 12>>),
      CutThenAppended(<<"txstate", NoArg, 11>>) }

(* The same pages, served before anything was appended after the cut.     *)
CutAtEndDocs ==
    { AddressPage(<<<<3, x1>>>>) \o <<D("amountplus", 2), T, Cut("txstate", NoArg, 11)>>,
      AddressPage(<<<<3, x1>>>>) \o <<Cut("none", NoArg, 4)>> }

MCDocs == WellFormedDocs \cup CutDocs
MCDocsCutAtEnd == CutAtEndDocs

MCTxIds == {x1, x2}

MCDepths == [{x1, x2} -> {NotFound, 5, 6}]

=============================================================================
