------------------------------ MODULE MCWebWallet ------------------------------
(* Two accounts: a rich one, and one that a send of 19 would empty. *)
EXTENDS WebWallet

CONSTANTS a1, a2

BalanceDef == (a1 :> 100) @@ (a2 :> 20)
================================================================================
