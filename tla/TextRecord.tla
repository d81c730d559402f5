------------------------------ MODULE TextRecord ------------------------------
(***************************************************************************)
(* The micro-format of the message and vault files (blockexplorer.cpp):    *)
(* storeVaultEntry writes "HEADER: value" lines, then the publication's    *)
(* text; ParseTextData cuts a file into chunks and TrySplit names each by  *)
(* its header; reloadVaultDoc assigns the named chunks to the fields of a  *)
(* VaultDocumentInfo in file order, so a later chunk overwrites an earlier *)
(* one.                                                                    *)
(*                                                                         *)
(* A line is a record [h, colon, v]: h is the header the line starts with  *)
(* ("none" for any other line), colon whether it contains a ':', and v     *)
(* its text after the header.  A header line always contains a ':'.       *)
(***************************************************************************)
EXTENDS Naturals, Sequences

CONSTANTS NoText   \* the value of a field no chunk named

Headers == {"BLOCK", "DATE", "FROM", "TO", "AMOUNT", "MESSAGE",
            "HASH", "NAME", "VERSION", "AUTHOR", "COMMENT"}

HLine(h, v) == [h |-> h, colon |-> TRUE, v |-> v]
TLine(colon, v) == [h |-> "none", colon |-> colon, v |-> v]
EmptyLine == TLine(FALSE, "")

(* ParseTextData's loop: characters go into temp until a '\n' arrives     *)
(* while temp holds a ':', so a chunk runs from a line up to the first     *)
(* line, at or after it, that contains a ':'.  The length of the chunk at *)
(* the front of ls; all of ls when no line has a ':'.                    *)
ChunkLen(ls) ==
    LET withColon == {i \in DOMAIN ls : ls[i].colon}
    IN  IF withColon = {} THEN Len(ls)
        ELSE CHOOSE i \in withColon : \A j \in withColon : i <= j

(* TrySplit: the chunk's text begins with a header when its first line    *)
(* does; the value is the rest of the chunk, continuation lines included. *)
(* A chunk left at the end of the text that names no header is kept as    *)
(* "remainingText"; any other chunk that names none is dropped.           *)
RECURSIVE ParseTextData(_)
ParseTextData(ls) ==
    IF ls = <<>> THEN <<>>
    ELSE LET n    == ChunkLen(ls)
             c    == SubSeq(ls, 1, n)
             rest == SubSeq(ls, n + 1, Len(ls))
             val  == [i \in 1..n |-> c[i].v]
             pair == IF c[1].h # "none" THEN <<[key |-> c[1].h, val |-> val]>>
                     ELSE IF rest = <<>> /\ ~c[n].colon
                          THEN <<[key |-> "remainingText", val |-> val]>>
                          ELSE <<>>
         IN  pair \o ParseTextData(rest)

(* The fields of a VaultDocumentInfo that reloadVaultDoc sets.           *)
Fields == {"BLOCK", "DATE", "FROM", "TO", "HASH", "NAME", "VERSION",
           "AUTHOR", "COMMENT"}

(* reloadVaultDoc's loop: each pair sets its field, so the last chunk     *)
(* with a header wins.                                                     *)
Assign(doc, pairs) ==
    [f \in Fields |->
        LET hits == {i \in DOMAIN pairs : pairs[i].key = f}
        IN  IF hits = {} THEN doc[f]
            ELSE pairs[CHOOSE i \in hits : \A j \in hits : i >= j].val]

(* reloadVaultDoc of a file's lines (the spaces removed from the hash are *)
(* not modelled: the hash values here have none).                          *)
ReloadVaultDoc(ls) == Assign([f \in Fields |-> NoText], ParseTextData(ls))

(* storeVaultEntry's file: five header lines, then the text with "%VAULT" *)
(* removed and its leading newlines stripped.  body is the text after    *)
(* the tag, as lines; date is msgTime, the transaction's time.          *)
RECURSIVE StripLeadingEmpty(_)
StripLeadingEmpty(ls) ==
    IF ls # <<>> /\ ls[1] = EmptyLine THEN StripLeadingEmpty(Tail(ls)) ELSE ls

VaultFileLines(from, block, date, body) ==
    << HLine("BLOCK", block), HLine("DATE", date), HLine("FROM", from),
       HLine("TO", "t"), HLine("AMOUNT", "a") >> \o StripLeadingEmpty(body)

=============================================================================
