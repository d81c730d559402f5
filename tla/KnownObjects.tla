----------------------------- MODULE KnownObjects -----------------------------
(***************************************************************************)
(* fixupKnownObjects (blockexplorer.cpp), the linker every page write and  *)
(* the rich list page run their text through.  It splits the text into    *)
(* tokens (a run of alphanumerics, or one other character, with an empty  *)
(* run pushed before each other character) and replaces each token that   *)
(* is an id of 64 or 34 characters in g_ids, and is not followed by ".",   *)
(* by a link to "<id>.html".  A page text is a sequence of characters;   *)
(* g_ids is a set of such sequences; a link is kept as a piece of its own *)
(* rather than as the anchor's markup.                                     *)
(***************************************************************************)
EXTENDS Naturals, Sequences, SequencesExt

CONSTANTS
    Alnum,      \* the characters isalnum accepts
    IdLens,     \* the id lengths that are linked: 64 (tx, block), 34 (address)
    LinkTexts   \* the page texts the linker is checked on

(* The tokenizer loop: a character of Alnum extends the buffer; any other *)
(* pushes the buffer (empty or not) and the character as a token.         *)
TokenLoop(src) ==
    LET Step(acc, ch) ==
            IF ch \in Alnum THEN [acc EXCEPT !.buf = Append(@, ch)]
            ELSE [toks |-> acc.toks \o <<acc.buf, <<ch>>>>, buf |-> <<>>]
    IN  FoldLeft(Step, [toks |-> <<>>, buf |-> <<>>], src)

(* A bug in the tokenizer: the buffer left at the end is not pushed.      *)
TokenizeNoFlush(src) == TokenLoop(src).toks

(* The tokens: the loop's, then the last buffer when it is not empty.     *)
Tokenize(src) ==
    LET r == TokenLoop(src)
    IN  IF r.buf # <<>> THEN Append(r.toks, r.buf) ELSE r.toks

(* The link condition of the second loop, under g_cs_ids.                 *)
Linked(toks, u, ids) ==
    /\ Len(toks[u]) \in IdLens
    /\ toks[u] \in ids
    /\ (u + 1 > Len(toks) \/ toks[u + 1] # <<".">>)

(* fixupKnownObjects(src) with g_ids = ids: the output as pieces.         *)
FixupKnownObjects(src, ids) ==
    LET toks == Tokenize(src)
    IN  [u \in DOMAIN toks |->
            [link |-> Linked(toks, u, ids), text |-> toks[u]]]

-----------------------------------------------------------------------------
(* What a reader of the page sees: the pieces' text, links included.     *)
ShownText(out) == FlattenSeq([k \in DOMAIN out |-> out[k].text])

(* Where in src each link starts.                                         *)
LinkStarts(out) ==
    {1 + Len(ShownText(SubSeq(out, 1, k - 1))) : k \in {j \in DOMAIN out : out[j].link}}

(* src[i..j] is a whole word: alphanumerics with none on either side.     *)
IsWord(src, i, j) ==
    /\ \A k \in i..j : src[k] \in Alnum
    /\ i = 1 \/ src[i - 1] \notin Alnum
    /\ j = Len(src) \/ src[j + 1] \notin Alnum

(* The reference: the words of an id length that are registered and not  *)
(* followed by ".", by where they start.                                  *)
WordLinks(src, ids) ==
    {i \in DOMAIN src :
        \E n \in IdLens :
            /\ i + n - 1 <= Len(src)
            /\ IsWord(src, i, i + n - 1)
            /\ SubSeq(src, i, i + n - 1) \in ids
            /\ (i + n - 1 = Len(src) \/ src[i + n] # ".")}

====
