----------------------------- MODULE VaultSearch -----------------------------
(***************************************************************************)
(* SearchDocPage (blockexplorer.cpp), the "doc?q=" page: a read of         *)
(* g_vaultDocs under g_cs_valut that changes nothing, so it is a function  *)
(* of the vault and the query.                                             *)
(*                                                                         *)
(* A searchable field's text is a sequence of characters; the fields of a *)
(* document are TextRecord values (a sequence of lines), joined with "\n" *)
(* the way ParseTextData keeps them.  msgTime is a "%Y-%m-%d %H:%M:%S UTC" *)
(* string, whose order is the order of the times, so the model keeps the  *)
(* time itself.  toStringDump concatenates the fields; the model compares  *)
(* the documents.  std::sort is not stable: documents with equal times    *)
(* may come out in any order, so the page is a set of possible pages.     *)
(***************************************************************************)
EXTENDS Naturals, Sequences, SequencesExt, TextRecord

CONSTANTS
    Lower(_),           \* ::tolower on one character
    MaxSearchResults    \* upTo, 50 in the code

(* The text of a field: its lines joined by newlines; "" when unset.      *)
Text(val) ==
    IF val = NoText \/ val = <<>> THEN <<>>
    ELSE FoldLeft(LAMBDA acc, l : acc \o <<"\n">> \o l, val[1], Tail(val))

MsgTime(d) == d["DATE"][1]

(* nonStrictMatch(sA, sB): sB, lowered, is a prefix of sA, lowered.       *)
NonStrictMatch(sA, sB) ==
    IsPrefix([i \in DOMAIN sB |-> Lower(sB[i])], [i \in DOMAIN sA |-> Lower(sA[i])])

Hit(d, f, q) == NonStrictMatch(Text(d[f]), q)

(* The first loop: while fewer than upTo entries are matched, a document  *)
(* is pushed once for a match on its author, once on its name and once on *)
(* its hash, in that order; a query of 4 characters or fewer matches none.*)
NoMatch == [m |-> <<>>, byA |-> FALSE, byN |-> FALSE, byH |-> FALSE]

FirstPass(docs, q) ==
    LET Step(acc, d) ==
            LET hs == SelectSeq(<<"AUTHOR", "NAME", "HASH">>, LAMBDA f : Hit(d, f, q))
            IN  IF Len(acc.m) >= MaxSearchResults THEN acc
                ELSE [m   |-> acc.m \o [k \in DOMAIN hs |-> d],
                      byA |-> acc.byA \/ Hit(d, "AUTHOR", q),
                      byN |-> acc.byN \/ Hit(d, "NAME", q),
                      byH |-> acc.byH \/ Hit(d, "HASH", q)]
    IN  IF Len(q) > 4 THEN FoldLeft(Step, NoMatch, docs) ELSE NoMatch

(* The positions std::sort(cmpDates) may put first: the earliest times.   *)
Earliest(m) == {i \in DOMAIN m : \A j \in DOMAIN m : MsgTime(m[i]) <= MsgTime(m[j])}

(* A bug in the search: the second loop left out.                        *)
SecondPassNone(docs, m, c) == m

(* The second loop, from m1[0] = c: while fewer than upTo entries are     *)
(* matched, every document whose hash starts with c's hash and whose dump *)
(* differs from c's is pushed.                                             *)
SecondPass(docs, m, c) ==
    LET Step(acc, d) ==
            IF Len(acc) < MaxSearchResults
               /\ NonStrictMatch(Text(d["HASH"]), Text(c["HASH"])) /\ d # c
            THEN Append(acc, d) ELSE acc
    IN  FoldLeft(Step, m, docs)

(* SearchDocPage(q): the pages it can return.  The second loop runs when  *)
(* the query matched a name and no author.  A page is its count, whether  *)
(* it matched by author (then no row is the "original"), its banner, its  *)
(* rows in order (the first is flagged "First publisher!" unless matched  *)
(* by author) and whether a loop stopped at upTo.                          *)
SearchDocPage(docs, q) ==
    LET fp == FirstPass(docs, q)
        m2s == IF fp.byN /\ ~fp.byA
               THEN {SecondPass(docs, fp.m, fp.m[i]) : i \in Earliest(fp.m)}
               ELSE {fp.m}
        Page(m2, rows) ==
            LET renamed == Len(m2) > Len(fp.m) /\ ~Hit(rows[1], "NAME", q)
            IN  [count |-> Min({Len(m2), MaxSearchResults}),
                 byAuthor |-> fp.byA,
                 mode |-> IF fp.byH THEN "hash" ELSE IF renamed THEN "renamed" ELSE "meta",
                 rows |-> rows,
                 full |-> Len(m2) >= MaxSearchResults]
    IN  UNION {{Page(m2, <<m2[i]>> \o RemoveAt(m2, i)) : i \in Earliest(m2)} : m2 \in m2s}
        \cup {Page(m, <<>>) : m \in {e \in m2s : e = <<>>}}

====
