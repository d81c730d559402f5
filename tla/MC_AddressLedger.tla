------------------------- MODULE MC_AddressLedger -------------------------
(***************************************************************************)
(* Ledgers for checking AddressLedger.  Amounts are in units with COIN = 2 *)
(* so that the whole-coin truncation of circulating_supply shows.          *)
(***************************************************************************)
EXTENDS AddressPages

CONSTANTS a1, a2, a3, t1, t2, t3, t4, b1, b2, b3

Out(a, v) == [addr |-> a, amt |-> v]

(* b1: a coinbase to a1.  b2: a1 pays a2 with change to itself, then a    *)
(* coinstake of a2 (a zero output).  b3: a tx with two inputs, a2 first   *)
(* and a3 last, paying a3.                                                *)
MCChain == << [id |-> b1, txs |-> <<t1>>],
              [id |-> b2, txs |-> <<t2, t3>>],
              [id |-> b3, txs |-> <<t4>>] >>

MCInputs == [t \in {t1, t2, t3, t4} |->
               CASE t = t1 -> <<>>
                 [] t = t2 -> <<Out(a1, 3)>>
                 [] t = t3 -> <<Out(a2, 2)>>
                 [] t = t4 -> <<Out(a2, 2), Out(a3, 1)>>]

MCOutputs == [t \in {t1, t2, t3, t4} |->
               CASE t = t1 -> <<Out(a1, 3)>>
                 [] t = t2 -> <<Out(a2, 2), Out(a1, 1)>>
                 [] t = t3 -> <<Out(a2, 0), Out(a2, 3)>>
                 [] t = t4 -> <<Out(a3, 2)>>]

(* The same chain, except that t2 pays a2 twice the same amount.          *)
MCOutputsTwin == [MCOutputs EXCEPT ![t2] = <<Out(a2, 1), Out(a2, 1), Out(a1, 1)>>]

(* Texts of up to four characters over two letters, "." and "-".  Ids   *)
(* are two letters (the linked length), except b3's, which is one; with  *)
(* two letters some ids share a text, which changes nothing here.       *)
MCAlnum == {"a", "b"}
MCLinkTexts == BoundedSeq({"a", "b", ".", "-"}, 4)
MCIdText ==
    (a1 :> <<"a", "b">>) @@ (a2 :> <<"b", "b">>) @@ (a3 :> <<"b", "a">>) @@
    (t1 :> <<"a", "a">>) @@ (t2 :> <<"a", "b">>) @@ (t3 :> <<"b", "b">>) @@
    (t4 :> <<"b", "a">>) @@ (b1 :> <<"a", "a">>) @@ (b2 :> <<"b", "b">>) @@
    (b3 :> <<"a">>)

=============================================================================
