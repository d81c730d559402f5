------------------------------ MODULE VaultPage ------------------------------
(***************************************************************************)
(* GetVaultPage (blockexplorer.cpp), the "vault" page: a read of           *)
(* g_vaultDocs under g_cs_valut.  It lists the newest documents, up to 50, *)
(* and links each one's hash, name and author to the search page           *)
(* "/doc?q=<safeDocSearchUrl(field)>".  GetFileDataByURL hands what follows *)
(* "doc?q=" to SearchDocPage before any filtering, so following a link     *)
(* runs SearchDocPage on that text.  The cells' display (two-line hashes,  *)
(* maxLength, HTML filtering) is left out: no link depends on it.          *)
(***************************************************************************)
EXTENDS Naturals, Sequences, SequencesExt, VaultSearch

CONSTANTS
    UrlSafe     \* the characters safeDocSearchUrl keeps: isalnum, '_', '-', '.'

(* The fields the page links to the search.                               *)
LinkFields == {"HASH", "NAME", "AUTHOR"}

(* A bug in the link: an unsafe character skipped instead of ending it.  *)
SafeDocSearchUrlSkip(s) == SelectSeq(s, LAMBDA ch : ch \in UrlSafe)

(* safeDocSearchUrl(str): the characters up to the first one that is not *)
(* URL-safe.                                                               *)
SafeDocSearchUrl(s) ==
    LET bad == {i \in DOMAIN s : s[i] \notin UrlSafe}
    IN  IF bad = {} THEN s ELSE SubSeq(s, 1, Min(bad) - 1)

(* The rows of the page: g_vaultDocs from the front, while i < upTo, and  *)
(* upTo is 50 (the same literal as SearchDocPage's upTo).                  *)
VaultPageRows(docs) == SubSeq(docs, 1, Min({Len(docs), MaxSearchResults}))

(* The query a row's link for field f carries.                            *)
LinkQuery(d, f) == SafeDocSearchUrl(Text(d[f]))

====
