------------------------------ MODULE Billing ------------------------------
(***************************************************************************)
(* What admission promises about the outcome and the price of an attempt,  *)
(* with no allowances, windows, ledger or clock: an attempt is opened once *)
(* and ends once; only the end of an attempt puts a bill on it, and only a *)
(* bill of an unknown outcome is ever corrected.                           *)
(***************************************************************************)
EXTENDS Integers

CONSTANTS Attempts, NoBill
VARIABLES phase, bill

bvars == <<phase, bill>>
Bills == Nat \cup {NoBill}

Init ==
  /\ phase = [a \in Attempts |-> "idle"]
  /\ bill = [a \in Attempts |-> NoBill]

Open(a) ==
  /\ phase[a] = "idle"
  /\ phase' = [phase EXCEPT ![a] = "open"]
  /\ UNCHANGED bill

\* The attempt never reached the provider: it ends without a bill.
Void(a) ==
  /\ phase[a] = "open"
  /\ phase' = [phase EXCEPT ![a] = "void"]
  /\ UNCHANGED bill

\* The attempt ends, known or unknown; a first bill may come with it.
End(a, p) ==
  /\ phase[a] = "open"
  /\ phase' = [phase EXCEPT ![a] = p]
  /\ bill'[a] \in Bills
  /\ bill' = [bill EXCEPT ![a] = bill'[a]]
  /\ bill[a] # NoBill => UNCHANGED bill

\* Attempts whose end nobody reported are given up together.
GiveUp(S) ==
  /\ \A a \in S : phase[a] \in {"open", "unknown"}
  /\ phase' = [a \in Attempts |-> IF a \in S THEN "unknown" ELSE phase[a]]
  /\ UNCHANGED bill

Correct(a) ==
  /\ phase[a] = "unknown"
  /\ bill'[a] \in Nat
  /\ bill' = [bill EXCEPT ![a] = bill'[a]]
  /\ UNCHANGED phase

Next ==
  \/ \E a \in Attempts : Open(a) \/ Void(a) \/ End(a, "closed") \/ End(a, "unknown") \/ Correct(a)
  \/ \E S \in SUBSET Attempts : GiveUp(S)

Spec == Init /\ [][Next]_bvars
============================================================================
