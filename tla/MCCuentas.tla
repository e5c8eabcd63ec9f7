----------------------------- MODULE MCCuentas ------------------------------
(* Instance of Cuentas for TLC: one user; the requests are interchangeable.   *)
EXTENDS Cuentas, TLC

CONSTANTS r1, r2
UnaSesion == [j \in 1..1 |-> 1]
Simetria == Permutations(Peticion)
=============================================================================
