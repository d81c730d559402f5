--------------------------- MODULE MC_MessageFeed ---------------------------
(***************************************************************************)
(* A chain for checking MessageFeed.  MaxMessagesShow is 2, so the cap is  *)
(* reached after three notes.  Address a sends a note in blocks 1, 2 and  *)
(* 4 and a second note in block 1 (same key as the first); b publishes a  *)
(* vault document in block 2 and republishes its content (same hash)      *)
(* under another name and author in block 4; c sends a note in block 3;  *)
(* a hidden message in block 1 exercises the filter.  A publication's     *)
(* time is its block's: no two distinct publications share a second.      *)
(* Texts are five characters over a, b and their capitals; Y's author   *)
(* has a second word, which the vault page's link leaves out.            *)
(***************************************************************************)
EXTENDS MessageFeed

CONSTANTS a, b, c

Pub(from, block, kind) ==
    [from |-> from, block |-> block, time |-> block, kind |-> kind, body |-> <<>>]
VaultPub(from, block, body) ==
    [from |-> from, block |-> block, time |-> block, kind |-> "vault", body |-> body]

MCLower(ch) == IF ch = "A" THEN "a" ELSE IF ch = "B" THEN "b" ELSE ch

NameX   == <<"a", "a", "a", "a", "a">>
AuthorX == <<"a", "b", "b", "b", "b">>
HashX   == <<"b", "a", "b", "a", "b">>
NameY   == <<"A", "A", "b", "A", "A">>
AuthorY == <<"B", "B", "a", "B", "B", " ", "a">>

(* "%VAULT" on a line of its own, then the document's fields; a line of   *)
(* plain text in the comment.                                              *)
Publication ==
    << EmptyLine, HLine("NAME", NameX), HLine("AUTHOR", AuthorX),
       HLine("HASH", HashX), HLine("COMMENT", "c1"), TLine(FALSE, "more") >>

(* The same content under another name and author.                        *)
Republication ==
    << EmptyLine, HLine("NAME", NameY), HLine("AUTHOR", AuthorY),
       HLine("HASH", HashX) >>

(* The first, with a line of the text that reads "FROM: " and names c.    *)
ForgedPublication ==
    << EmptyLine, HLine("NAME", NameX), HLine("AUTHOR", AuthorX),
       HLine("HASH", HashX), HLine("FROM", c) >>

ChainWith(vault) ==
    << Pub(a, 1, "note"), Pub(a, 1, "hidden"), Pub(a, 1, "note"),
       vault, Pub(a, 2, "note"), Pub(c, 3, "note"),
       Pub(a, 4, "note"), VaultPub(b, 4, Republication) >>

MCChain == ChainWith(VaultPub(b, 2, Publication))
MCChainForged == ChainWith(VaultPub(b, 2, ForgedPublication))

(* Y's name in lower case (it matches a name only), the shared hash, X's *)
(* name and author, and a query too short to match.                       *)
MCUrlSafe == {"a", "b", "A", "B"}

MCQueries ==
    { <<"a", "a", "b", "a", "a">>, HashX, NameX, AuthorX, <<"a", "a", "a", "a">> }

=============================================================================
