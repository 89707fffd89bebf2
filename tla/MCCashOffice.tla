----------------------------- MODULE MCCashOffice -----------------------------
(* One document of each kind and two transactions in flight.               *)
EXTENDS CashOffice, TLC

CONSTANTS c1, p1, d1

MCClaims == {c1}
MCReplenishments == {p1}
MCClosings == {d1}
MCAmount == (c1 :> 1) @@ (p1 :> 2)
MCSymmetry == Permutations(Requests)
=============================================================================
