-------------------------- MODULE MC_RequestRouter --------------------------
(***************************************************************************)
(* Ids for checking RequestRouter: the landing page, an address page, a    *)
(* transaction page, an id with no page, and an address whose base58 text *)
(* contains "stats".  Times are below or above the 100 ms cutoff.          *)
(***************************************************************************)
EXTENDS RequestRouter

CONSTANTS index, addr, tx, missing, statsAddr

MCIds == {addr, tx, missing}
MCIdsVanity == {addr, tx, missing, statsAddr}
MCWords == [i \in MCIdsVanity |-> IF i = statsAddr THEN {"stats"} ELSE {}]
MCPageIds == {index, addr, tx, statsAddr}
(* Address and transaction pages can resolve slowly (each txstate is a    *)
(* ledger lookup); the index has no directives and resolves quickly.      *)
MCResolveTimes == [p \in MCPageIds |-> IF p = index THEN {40} ELSE {40, 150}]
(* A raw read is a file read: within the cutoff.                          *)
MCRawTimes == {10, 20}

(* Block lookups below, at both ends of and above 0..nBestHeight, and one *)
(* with no number.                                                         *)
MCBlockArgs == {-1, 0, 2, 3, NaN}

(* The address and the id with no page are 34 characters long.  The first *)
(* line that contains the address starts with no number; the next holds   *)
(* its balance.                                                            *)
MCAddrIds == {addr, missing, statsAddr}
MCBalanceLines == << [bal |-> NaN, ids |-> {addr}],
                     [bal |-> 7, ids |-> {addr, statsAddr}] >>

=============================================================================
