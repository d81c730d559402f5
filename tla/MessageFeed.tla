----------------------------- MODULE MessageFeed -----------------------------
(***************************************************************************)
(* The message branch of printTxToStream (blockexplorer.cpp): a transfer   *)
(* carrying a visible note is added to the in-memory feed g_messages and   *)
(* persisted by storeMessageData; one tagged "%VAULT" is persisted by      *)
(* storeVaultEntry and listed in g_vaultDocs.  On start, reloadKnownObjects *)
(* rebuilds both lists from the files, in directory order.                 *)
(*                                                                         *)
(* The ledger hands the message-carrying transactions over in chain order  *)
(* (Chain); it can hand over one it already handed over again.  All of it  *)
(* runs under g_cs_be_fatlock (WriteBlockInfo), so one transaction is one  *)
(* step.  A publication is a record [from, block, time, kind, body]: kind  *)
(* "note", "vault", or "hidden" for a "%HIDE" or "%SERVICE" message; body  *)
(* is a vault publication's text after the tag, as TextRecord lines.  A    *)
(* file is the publication it holds; the directories are sequences in      *)
(* write order.  g_vaultDocs holds what reloadVaultDoc parses back.        *)
(***************************************************************************)
EXTENDS Naturals, Sequences, SequencesExt, VaultPage

CONSTANTS
    Chain,            \* the message-carrying transactions, in chain order
    MaxMessagesShow,  \* 30 in the code
    MaxRedeliveries,  \* bound on transactions handed over again
    MaxRestarts,      \* bound on process restarts
    SearchQueries     \* the "doc?q=" queries asked of the vault

VARIABLES
    next,          \* index in Chain of the next transaction handed over
    feed,          \* g_messages, front first
    msgFiles,      \* messages/*.html, in write order
    vaultFiles,    \* vault/*.html, in write order
    vaultDocs,     \* g_vaultDocs, front first: parsed vault files
    redeliveries, restarts

vars == <<next, feed, msgFiles, vaultFiles, vaultDocs, redeliveries, restarts>>

(* The duplicate check compares (from, blockId).                          *)
Key(p) == <<p.from, p.block>>

(* A bug in the duplicate check: the block id left out.                   *)
InFeedFromOnly(f, p) == \E i \in DOMAIN f : f[i].from = p.from

(* Some entry of g_messages has the message's (from, blockId).            *)
InFeed(f, p) == \E i \in DOMAIN f : Key(f[i]) = Key(p)

(* A bug in the trim: the front, the newest entries, evicted.             *)
TrimFront(f) ==
    IF Len(f) > MaxMessagesShow
    THEN SubSeq(f, Len(f) - MaxMessagesShow + 1, Len(f)) ELSE f

(* while (g_messages.size() > MaxMessagesShow) g_messages.pop_back().    *)
Trim(f) == IF Len(f) > MaxMessagesShow THEN SubSeq(f, 1, MaxMessagesShow) ELSE f

(* The vault file of a publication, and the document read back from it.   *)
VaultFile(p) == VaultFileLines(p.from, p.block, p.time, p.body)
VaultDoc(p) == ReloadVaultDoc(VaultFile(p))

(* A bug in storeVaultEntry: the file written, reloadVaultDoc not called. *)
StoreVaultEntryNoReload(p) ==
    /\ vaultFiles' = Append(vaultFiles, p)
    /\ UNCHANGED vaultDocs

(* storeVaultEntry: the vault file, then reloadVaultDoc of it, which       *)
(* inserts the document at the front of g_vaultDocs.                       *)
StoreVaultEntry(p) ==
    /\ vaultFiles' = Append(vaultFiles, p)
    /\ vaultDocs' = <<VaultDoc(p)>> \o vaultDocs

(* storeMessageData: one more file under messages/.                       *)
StoreMessageData(p) == msgFiles' = Append(msgFiles, p)

(* A bug in the message branch: the %HIDE/%SERVICE filter dropped, so a  *)
(* hidden message is stored and shown as a note.                          *)
MessageBranchNoFilter(p) ==
    \/ /\ InFeed(Trim(feed), p)
       /\ feed' = Trim(feed)
       /\ UNCHANGED <<msgFiles, vaultFiles, vaultDocs>>
    \/ /\ p.kind = "vault"
       /\ ~InFeed(Trim(feed), p)
       /\ feed' = Trim(feed)
       /\ StoreVaultEntry(p)
       /\ UNCHANGED msgFiles
    \/ /\ p.kind # "vault"
       /\ ~InFeed(Trim(feed), p)
       /\ feed' = <<p>> \o Trim(feed)
       /\ StoreMessageData(p)
       /\ UNCHANGED <<vaultFiles, vaultDocs>>

(* The message branch for one transaction.  A visible message trims the   *)
(* feed first, then is dropped if the trimmed feed has its key; otherwise *)
(* a vault one is stored in the vault and a note is put at the front of   *)
(* the feed and stored.                                                     *)
MessageBranch(p) ==
    \/ /\ p.kind = "hidden"
       /\ UNCHANGED <<feed, msgFiles, vaultFiles, vaultDocs>>
    \/ /\ p.kind # "hidden"
       /\ InFeed(Trim(feed), p)
       /\ feed' = Trim(feed)
       /\ UNCHANGED <<msgFiles, vaultFiles, vaultDocs>>
    \/ /\ p.kind = "vault"
       /\ ~InFeed(Trim(feed), p)
       /\ feed' = Trim(feed)
       /\ StoreVaultEntry(p)
       /\ UNCHANGED msgFiles
    \/ /\ p.kind = "note"
       /\ ~InFeed(Trim(feed), p)
       /\ feed' = <<p>> \o Trim(feed)
       /\ StoreMessageData(p)
       /\ UNCHANGED <<vaultFiles, vaultDocs>>

Init ==
    /\ next = 1
    /\ feed = <<>>
    /\ msgFiles = <<>>
    /\ vaultFiles = <<>>
    /\ vaultDocs = <<>>
    /\ redeliveries = 0
    /\ restarts = 0

(* WriteBlockInfo for the block of the next transaction.                  *)
Deliver ==
    /\ next <= Len(Chain)
    /\ MessageBranch(Chain[next])
    /\ next' = next + 1
    /\ UNCHANGED <<redeliveries, restarts>>

(* WriteBlockInfo for a block it was given before.                        *)
Redeliver ==
    /\ redeliveries < MaxRedeliveries
    /\ \E i \in 1..(next - 1) : MessageBranch(Chain[i])
    /\ redeliveries' = redeliveries + 1
    /\ UNCHANGED <<next, restarts>>

(* reloadMessage: trim, then insert at the front.                         *)
ReloadMessage(f, p) == <<p>> \o Trim(f)

(* The files of a directory in an order a directory_iterator may list     *)
(* them in: any order.                                                     *)
Listings(files) ==
    {[k \in DOMAIN perm |-> files[perm[k]]] : perm \in SetToSeqs(DOMAIN files)}

(* A stop and a start: the in-memory lists are lost, and                  *)
(* reloadKnownObjects rebuilds g_vaultDocs by reloadVaultDoc and          *)
(* g_messages by reloadMessage of every file, in directory order.         *)
Restart ==
    /\ restarts < MaxRestarts
    /\ restarts' = restarts + 1
    /\ \E vl \in Listings(vaultFiles) :
          vaultDocs' = Reverse([k \in DOMAIN vl |-> VaultDoc(vl[k])])
    /\ \E ml \in Listings(msgFiles) : feed' = FoldLeft(ReloadMessage, <<>>, ml)
    /\ UNCHANGED <<next, msgFiles, vaultFiles, redeliveries>>

Next == Deliver \/ Redeliver \/ Restart

Spec == Init /\ [][Next]_vars

-----------------------------------------------------------------------------
Pubs == {Chain[i] : i \in DOMAIN Chain}
Delivered == {Chain[i] : i \in 1..(next - 1)}

Notes == {p \in Pubs : p.kind = "note"}
VaultPubs == {p \in Pubs : p.kind = "vault"}

(* The feed and the message files hold notes only, the vault files and   *)
(* g_vaultDocs vault publications only.                                   *)
TypeOK ==
    /\ next \in 1..(Len(Chain) + 1)
    /\ feed \in Seq(Notes) /\ msgFiles \in Seq(Notes)
    /\ vaultFiles \in Seq(VaultPubs)
    /\ vaultDocs \in Seq({VaultDoc(p) : p \in VaultPubs})
    /\ redeliveries \in 0..MaxRedeliveries
    /\ restarts \in 0..MaxRestarts

(* Spec section 4.4: every visible note handed over is durably persisted, *)
(* unless the feed already shows a message with its (from, blockId): the  *)
(* duplicate check may drop a message only in favour of one with its key  *)
(* that has a file, through evictions, redeliveries and restarts.         *)
NoMessageLost ==
    \A p \in Delivered :
        p.kind = "note" => \E j \in DOMAIN msgFiles : Key(msgFiles[j]) = Key(p)

(* The sender and block of a vault document, and of a publication, as    *)
(* reloadVaultDoc's fields hold them.                                       *)
DocKey(d) == <<d["FROM"], d["BLOCK"]>>
PubKey(p) == <<<<p.from>>, <<p.block>>>>

(* Every vault publication handed over is listed in g_vaultDocs under its *)
(* sender and block, in the running process and after a restart's reload. *)
VaultKeepsEveryPublication ==
    \A p \in Delivered :
        p.kind = "vault" => \E j \in DOMAIN vaultDocs : DocKey(vaultDocs[j]) = PubKey(p)

(* Spec section 4.4: a vault document is attributed to the address that   *)
(* sent the transaction and to its block, the provenance SearchDocPage's  *)
(* "original author" flag rests on: no g_vaultDocs entry names a sender   *)
(* and block that no stored publication has (storeVaultEntry,             *)
(* reloadVaultDoc, ParseTextData).                                         *)
VaultProvenance ==
    \A j \in DOMAIN vaultDocs :
        DocKey(vaultDocs[j]) \in {PubKey(vaultFiles[i]) : i \in DOMAIN vaultFiles}

(* Spec section 3: the feed is the most recent messages, newest first:    *)
(* g_messages is a prefix of the message files newest first, and holds at *)
(* least the MaxMessagesShow newest of them (it can hold one more: the   *)
(* trim runs before the insert, so the feed holds 31 entries, not 30).   *)
FeedIsNewestFirst ==
    /\ IsPrefix(feed, Reverse(msgFiles))
    /\ Len(feed) >= IF Len(msgFiles) < MaxMessagesShow THEN Len(msgFiles)
                    ELSE MaxMessagesShow

(* Until the process restarts, the feed shows the newest messages first: *)
(* the trim before the insert and the duplicate check keep g_messages in  *)
(* step with the files through redeliveries and evictions.                *)
FeedNewestFirstUntilRestart == restarts = 0 => FeedIsNewestFirst

(* Every publication is stored in the vault at most once: the duplicate   *)
(* check printTxToStream runs before storeVaultEntry keeps a transaction  *)
(* handed over twice from being published twice.                          *)
VaultOnePerPublication ==
    \A i, j \in DOMAIN vaultFiles : i # j => Key(vaultFiles[i]) # Key(vaultFiles[j])

(* SearchDocPage's provenance flag: unless the query matched an author,   *)
(* the first row is flagged "First publisher!" / "original author", and   *)
(* that document is the earliest one in g_vaultDocs with its hash (the    *)
(* second loop pulls in the republications of a name match), whatever    *)
(* order reloadKnownObjects left the vault in, and as long as no loop     *)
(* stopped at upTo.                                                        *)
FirstPublisherIsEarliest ==
    \A q \in SearchQueries : \A pg \in SearchDocPage(vaultDocs, q) :
        pg.rows # <<>> /\ ~pg.byAuthor /\ ~pg.full =>
            \A j \in DOMAIN vaultDocs :
                Text(vaultDocs[j]["HASH"]) = Text(pg.rows[1]["HASH"])
                    => MsgTime(pg.rows[1]) <= MsgTime(vaultDocs[j])

(* GetVaultPage's links lead back to their document: for every row of the *)
(* vault page and each of its hash, name and author links, every page     *)
(* SearchDocPage can answer the link's query with lists that document,    *)
(* through the upTo cap of both loops, the second loop and the sort, as   *)
(* long as safeDocSearchUrl leaves more than the 4 characters a search    *)
(* needs.                                                                  *)
VaultLinksFindDocs ==
    LET rows == VaultPageRows(vaultDocs)
    IN  \A i \in DOMAIN rows : \A f \in LinkFields :
            Len(LinkQuery(rows[i], f)) > 4 =>
                \A pg \in SearchDocPage(vaultDocs, LinkQuery(rows[i], f)) :
                    rows[i] \in ToSet(pg.rows)

=============================================================================
