---------------------------- MODULE MCAdmission ----------------------------
(* Small instances of Admission for TLC. *)
EXTENDS Admission, TLC

CONSTANTS a1, a2, q1, q2, rec1

Limit(s, rq, tk, cc, jb, ct, w) ==
  [scope |-> s, costWindow |-> w,
   maximum |-> [k \in Kinds |-> CASE k = "requests" -> rq [] k = "tokens" -> tk
                                  [] k = "concurrency" -> cc [] k = "jobs" -> jb
                                  [] OTHER -> ct]]
Use(t, p) == [total |-> t, priced |-> p]

MC_OneScope == {"tenant"}
MC_TwoScopes == {"tenant", "key"}
MC_OwnRequests == [a \in Attempts |-> IF a = a1 THEN "r1" ELSE "r2"]
MC_AllScopes == [a \in Attempts |-> Scopes]
MC_Bounds == [a \in Attempts |-> 2]
MC_Costs == [a \in Attempts |-> 2]
MC_Windows == [p \in Prefixes |-> CASE p = "60" -> 2 [] p = "daily" -> 3 [] OTHER -> MaxTime + 1]

\* One policy with every dimension that settles: slots, money, tokens.
MC_Settle == [p \in Policies |-> {Limit("tenant", 0, 4, 1, 2, 4, "total")}]
MC_SettleUsages == {NoUsage, Use(3, 3), Use(Unknown, 2), Use(1, Invalid)}

MC_NoUsage == {NoUsage}

\* Two resources with scopes of their own, limits that windows refresh.
MC_Windowed == [p \in Policies |->
  IF p = q1 THEN {Limit("tenant", 3, 0, 0, 0, 0, "total"), Limit("tenant", 2, 4, 0, 0, 0, "total")}
            ELSE {Limit("key", 0, 0, 0, 0, 4, "daily")}]

\* A plain requests/minute limit.
MC_PerMinute == [p \in Policies |-> {Limit("tenant", 3, 0, 0, 0, 0, "total")}]

\* Concurrency alone, for the liveness of its return.
MC_Slots == [p \in Policies |-> {Limit("tenant", 0, 0, 1, 0, 0, "total")}]

SettleSymmetry == Permutations(Attempts) \cup Permutations(ReconIds)
============================================================================
