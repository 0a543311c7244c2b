----------------------------- MODULE MCDispatch -----------------------------
(* Instances of Dispatch for TLC. *)
EXTENDS Dispatch, TLC

CONSTANTS r1, r2, r3

ThreeRequests == {r1, r2, r3}
\* The third request reuses the key for something else.
ThreeFingerprints == (r1 :> "a" @@ r2 :> "a" @@ r3 :> "b")
TwoRequests == {r1, r2}
TwoFingerprints == (r1 :> "a" @@ r2 :> "a")
=============================================================================
