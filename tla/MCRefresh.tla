----------------------------- MODULE MCRefresh -----------------------------
(* Instances of Refresh for TLC: two requests of one process, one of another. *)
EXTENDS Refresh, TLC

CONSTANTS r1, r2, r3, p, q

MC_ProcessOf == (r1 :> p @@ r2 :> p @@ r3 :> q)
=============================================================================
