--------------------------- MODULE MarkupDocument ---------------------------
(***************************************************************************)
(* The documents that fixupDynamicStatuses reads, and the pieces of the    *)
(* page it returns.                                                        *)
(*                                                                         *)
(* A document is a sequence of tokens, each of a length in characters:    *)
(*   - a text token: page markup that holds no "<!--dynamic:" and no "-->";*)
(*   - a directive: "<!--dynamic:" kind ":" argument "-->", or, for a page *)
(*     whose last write was cut short, the same with no "-->".             *)
(* The kind is the prefix its content starts with, or "none" when it      *)
(* starts with none of them.  The argument is an amount, a transaction,   *)
(* or NoArg when a cut left no digits.                                     *)
(*                                                                         *)
(* The result is a sequence of pieces: a text range of the document       *)
(* [a, b), a status cell, a balance placeholder, a balance value, or the   *)
(* whole unresolved document.                                              *)
(***************************************************************************)
EXTENDS Naturals, Integers, Sequences, Functions, FiniteSetsExt

CONSTANTS
    TxIds,        \* transactions a txstate directive may name
    NotFound,     \* the depth of a transaction ReadDiskTx does not find
    NoArg,        \* a directive argument with no digits
    MarkLen,      \* length of "<!--dynamic:" (12)
    EndLen        \* length of "-->" (3)

Kinds == {"amountplus", "amountminus", "balance", "balanceconfirmed",
          "txstate", "none"}

Text(n) == [k |-> "text", len |-> n]
Dir(kind, arg, n, isClosed) ==
    [k |-> "dir", d |-> kind, arg |-> arg, len |-> n, closed |-> isClosed]

(* Offset of token i, and the length of the whole document.               *)
Start(doc, i) == SumFunction([j \in 1..(i - 1) |-> doc[j].len])
DataLen(doc) == Start(doc, Len(doc) + 1)

(* Tokens that are directives, and where each one's "-->" begins.         *)
DirIdx(doc) == {i \in DOMAIN doc : doc[i].k = "dir"}
EndAt(doc, i) == Start(doc, i) + doc[i].len - EndLen

(* The confirmation depth at which a transaction counts as confirmed.     *)
MinConfirms == 6

Piece(kind, a, b) == [k |-> kind, a |-> a, b |-> b]
TextPiece(doc, i) == Piece("text", Start(doc, i), Start(doc, i) + doc[i].len)

(* The status cell of a txstate directive: green with the depth when      *)
(* confirmed, gray with the depth when pending, red when not found.       *)
StatusPiece(dep) ==
    IF dep = NotFound THEN Piece("red", 0, 0)
    ELSE IF dep < MinConfirms THEN Piece("gray", dep, 0)
    ELSE Piece("green", dep, 0)

(* End-of-pass substitution: each placeholder becomes its total when the  *)
(* total is not negative, and stays otherwise.                             *)
Substitute(out, bal, conf) ==
    [i \in DOMAIN out |->
        CASE out[i].k = "phbal" /\ bal >= 0 -> Piece("valbal", bal, 0)
          [] out[i].k = "phconf" /\ conf >= 0 -> Piece("valconf", conf, 0)
          [] OTHER -> out[i]]

RawPiece == Piece("raw", 0, 0)

=============================================================================
