---------------------------- MODULE MCItemsCqrs -----------------------------
(* Instance of ItemsCqrs for TLC. The two requests and the queries are        *)
(* interchangeable, but the runs check liveness: no symmetry.                *)
EXTENDS ItemsCqrs

CONSTANTS r1, r2, q1, lista
=============================================================================
