---------------------------- MODULE MC_BlockFeed ----------------------------
(***************************************************************************)
(* Six blocks, PoS and PoW alternating, for checking BlockFeed.            *)
(* MaxBlocksStat is 5, so blockStats reaches 6 samples and the four-block  *)
(* spans exist; the latest list holds 3, so a block is evicted and can be  *)
(* handed over again after it.                                             *)
(***************************************************************************)
EXTENDS BlockFeed

CONSTANTS k1, k2, k3, k4, k5, k6

MCChain ==
    << [id |-> k1, pos |-> FALSE], [id |-> k2, pos |-> TRUE],
       [id |-> k3, pos |-> FALSE], [id |-> k4, pos |-> TRUE],
       [id |-> k5, pos |-> FALSE], [id |-> k6, pos |-> TRUE] >>

=============================================================================
