-------------------------- MODULE AdmissionProofs --------------------------
(***************************************************************************)
(* Proofs about Admission for every set of attempts, policies and windows. *)
(***************************************************************************)
EXTENDS Admission, FiniteSetTheorems, WellFoundedInduction, TLAPS

-----------------------------------------------------------------------------
(* Facts about numbers and finite sets *)

\* A nonempty set of naturals has a least element.
LEMMA LeastNatural ==
  ASSUME NEW T, T \subseteq Nat, T # {}
  PROVE  \E x \in T : \A y \in T : x <= y
<1> DEFINE R == OpToRel(<, Nat)
<1>1. PICK x \in T : \A y \in T : ~ (<<y, x>> \in R)
  BY NatLessThanWellFounded, WFMin
<1>2. ASSUME NEW y \in T PROVE x <= y
  <2>1. x \in Nat /\ y \in Nat /\ <<y, x>> \in Nat \X Nat
    BY DEF OpToRel
  <2>2. ~(y < x)
    BY <1>1, <2>1 DEF OpToRel
  <2> QED BY <2>1, <2>2
<1> QED BY <1>2

\* The units that the members of S hold, where f gives what each one holds.
Units(S, f) == UNION {{a} \X (1..f[a]) : a \in S}

LEMMA UnitsOfOne ==
  ASSUME NEW a, NEW n \in Nat
  PROVE  IsFiniteSet({a} \X (1..n)) /\ Cardinality({a} \X (1..n)) = n
<1>1. IsFiniteSet({a}) /\ Cardinality({a}) = 1
  BY FS_Singleton
<1>2. IsFiniteSet(1..n) /\ Cardinality(1..n) = n
  BY FS_Interval
<1>3. /\ IsFiniteSet({a} \X (1..n))
      /\ Cardinality({a} \X (1..n)) = Cardinality({a}) * Cardinality(1..n)
  BY <1>1, <1>2, FS_Product, Zenon
<1>4. 1 * n = n
  OBVIOUS
<1>5. Cardinality({a}) * Cardinality(1..n) = 1 * n
  BY <1>1, <1>2, Zenon
<1> QED BY <1>3, <1>4, <1>5, Zenon

\* Changing what one member holds changes the number of units by as much.
LEMMA UnitsUpdate ==
  ASSUME NEW S, NEW f \in [S -> Nat], NEW g \in [S -> Nat], NEW a \in S,
         \A b \in S \ {a} : g[b] = f[b],
         IsFiniteSet(Units(S, f))
  PROVE  /\ IsFiniteSet(Units(S, g))
         /\ Cardinality(Units(S, g)) = Cardinality(Units(S, f)) + g[a] - f[a]
<1> DEFINE Old == {a} \X (1..f[a])
           New == {a} \X (1..g[a])
           Rest == Units(S, f) \ Old
<1>1. /\ IsFiniteSet(Old) /\ Cardinality(Old) = f[a]
      /\ IsFiniteSet(New) /\ Cardinality(New) = g[a]
  BY UnitsOfOne, Zenon
<1>2. Units(S, f) \cap Old = Old
  BY DEF Units
<1>3. /\ IsFiniteSet(Rest)
      /\ Cardinality(Rest) = Cardinality(Units(S, f)) - f[a]
  <2>1. /\ IsFiniteSet(Units(S, f) \ Old)
        /\ Cardinality(Units(S, f) \ Old) =
              Cardinality(Units(S, f)) - Cardinality(Units(S, f) \cap Old)
    BY FS_Difference, Zenon
  <2> QED BY <1>1, <1>2, <2>1
<1>4. Units(S, g) = Rest \cup New
  <2>1. ASSUME NEW u \in Units(S, g) PROVE u \in Rest \cup New
    <3>1. PICK b \in S : u \in {b} \X (1..g[b])
      BY <2>1 DEF Units
    <3>2. CASE b = a
      BY <3>1, <3>2
    <3>3. CASE b # a
      <4>1. u \in {b} \X (1..f[b])
        BY <3>1, <3>3
      <4>2. u \notin Old
        BY <3>1, <3>3
      <4> QED BY <4>1, <4>2 DEF Units
    <3> QED BY <3>2, <3>3
  <2>2. ASSUME NEW u \in Rest PROVE u \in Units(S, g)
    <3>1. PICK b \in S : u \in {b} \X (1..f[b])
      BY <2>2 DEF Units
    <3>2. b # a
      BY <3>1, <2>2
    <3>3. u \in {b} \X (1..g[b])
      BY <3>1, <3>2
    <3> QED BY <3>3 DEF Units
  <2>3. New \subseteq Units(S, g)
    BY DEF Units
  <2> QED BY <2>1, <2>2, <2>3
<1>5. Rest \cap New = {}
  <2>1. ASSUME NEW u \in Rest, u \in New PROVE FALSE
    <3>1. PICK b \in S : u \in {b} \X (1..f[b])
      BY <2>1 DEF Units
    <3>2. b = a
      BY <3>1, <2>1
    <3> QED BY <3>1, <3>2, <2>1
  <2> QED BY <2>1
<1>6. Cardinality(Rest \cap New) = 0
  BY <1>5, FS_EmptySet, SMTT(30)
<1>7. Cardinality(Units(S, f)) \in Nat
  BY FS_CardinalityType
<1>8. /\ IsFiniteSet(Rest \cup New)
      /\ Cardinality(Rest \cup New) = Cardinality(Rest) + Cardinality(New) - Cardinality(Rest \cap New)
  BY <1>1, <1>3, FS_Union, Zenon
<1>9. f[a] \in Nat /\ g[a] \in Nat
  OBVIOUS
<1> HIDE DEF Old, New, Rest, Units
<1> QED BY <1>1, <1>3, <1>4, <1>6, <1>7, <1>8, <1>9

\* Taking everything away from some members removes exactly their units.
LEMMA UnitsDrop ==
  ASSUME NEW S, NEW f \in [S -> Nat], NEW g \in [S -> Nat], NEW B \in SUBSET S,
         \A b \in S : g[b] = IF b \in B THEN 0 ELSE f[b],
         IsFiniteSet(Units(S, f))
  PROVE  /\ IsFiniteSet(Units(S, g))
         /\ Cardinality(Units(S, g)) = Cardinality(Units(S, f)) - Cardinality(Units(B, f))
<1>1. Units(S, g) = Units(S, f) \ Units(B, f)
  <2>1. ASSUME NEW u \in Units(S, g) PROVE u \in Units(S, f) \ Units(B, f)
    <3>1. PICK b \in S : u \in {b} \X (1..g[b])
      BY <2>1 DEF Units
    <3>2. b \notin B
      BY <3>1
    <3>3. u \in Units(S, f)
      BY <3>1, <3>2 DEF Units
    <3>4. u \notin Units(B, f)
      BY <3>1, <3>2 DEF Units
    <3> QED BY <3>3, <3>4
  <2>2. ASSUME NEW u \in Units(S, f), u \notin Units(B, f) PROVE u \in Units(S, g)
    <3>1. PICK b \in S : u \in {b} \X (1..f[b])
      BY <2>2 DEF Units
    <3>2. b \notin B
      BY <3>1, <2>2 DEF Units
    <3>3. u \in {b} \X (1..g[b])
      BY <3>1, <3>2
    <3> QED BY <3>3 DEF Units
  <2> QED BY <2>1, <2>2
<1>2. Units(S, f) \cap Units(B, f) = Units(B, f)
  BY DEF Units
<1>3. /\ IsFiniteSet(Units(S, f) \ Units(B, f))
      /\ Cardinality(Units(S, f) \ Units(B, f)) =
            Cardinality(Units(S, f)) - Cardinality(Units(S, f) \cap Units(B, f))
  BY FS_Difference, Zenon
<1> HIDE DEF Units
<1> QED BY <1>1, <1>2, <1>3, Zenon

LEMMA ProductNat ==
  ASSUME NEW m \in Nat, NEW n \in Nat
  PROVE  m * n \in Nat
OBVIOUS

-----------------------------------------------------------------------------
(* The operators of the model *)

LEMMA SourceRow ==
  ASSUME NEW r \in Rows, NEW i \in Sources(r)
  PROVE  [r EXCEPT !.index = i] \in Rows
BY DEF Rows, Sources

LEMMA RowMaximumType ==
  ASSUME TypeOK, NEW r \in Rows, Sources(r) # {}
  PROVE  RowMaximum(r) \in Nat \ {0}
<1>1. Sources(r) \subseteq Nat
  BY DEF Sources
<1>2. \E i \in Sources(r) : \A j \in Sources(r) : i <= j
  BY <1>1, LeastNatural
<1> DEFINE i == CHOOSE i \in Sources(r) : \A j \in Sources(r) : i <= j
<1>3. i \in Sources(r)
  BY <1>2
<1>4. limits[[r EXCEPT !.index = i]] \in Nat \ {0}
  <2> HIDE DEF i
  <2>1. [r EXCEPT !.index = i] \in Rows
    BY <1>3, SourceRow
  <2>2. limits[[r EXCEPT !.index = i]] > 0
    BY <1>3 DEF Sources
  <2>3. limits[[r EXCEPT !.index = i]] \in Nat
    BY <2>1 DEF TypeOK
  <2> QED BY <2>2, <2>3
<1> QED BY <1>4 DEF RowMaximum, TypeOK

LEMMA EntriesFinite ==
  ASSUME NEW a, NEW r \in Rows, NEW b
  PROVE  /\ IsFiniteSet(Entries(a, r, b))
         /\ Cardinality(Entries(a, r, b)) \in Nat
         /\ Cardinality(Entries(a, r, b)) = 0 <=> Entries(a, r, b) = {}
<1>1. Entries(a, r, b) \subseteq 0..MaxTime
  BY DEF Entries, Sources, Rows
<1>2. IsFiniteSet(0..MaxTime)
  <2>1. MaxTime \in Nat \ {0}
    BY ConstantsAssumption
  <2>2. 0 \in Int /\ MaxTime \in Int
    BY <2>1
  <2> QED BY <2>2, FS_Interval
<1>3. IsFiniteSet(Entries(a, r, b))
  BY <1>1, <1>2, FS_Subset, Zenon
<1> QED BY <1>3, FS_CardinalityType, FS_EmptySet

LEMMA AmountType ==
  ASSUME NEW a \in Attempts, NEW k, amount(a, k) # Unknown
  PROVE  amount(a, k) \in Nat
BY ConstantsAssumption DEF amount, Unknown

LEMMA CostType ==
  ASSUME NEW u \in Usages
  PROVE  /\ EstimateUsageCost(u) \in Nat \cup {Unknown, Invalid}
         /\ \A o : ActualCost(o, u) \in Nat \cup {Unknown}
<1>1. u \in UsageRecords
  BY ConstantsAssumption
<1>2. u.priced \in Nat \cup {Unknown, Invalid} /\ Price \in Nat \cup {Unknown}
  BY <1>1, ConstantsAssumption DEF UsageRecords
<1>3. u.priced \in Nat /\ Price # Unknown => u.priced * Price \in Nat
  BY <1>2, ProductNat
<1>4. EstimateUsageCost(u) \in Nat \cup {Unknown, Invalid}
  BY <1>2, <1>3 DEF EstimateUsageCost, Unknown, Invalid
<1> QED BY <1>4 DEF ActualCost, Unknown, Invalid

LEMMA FinalTargetType ==
  ASSUME TypeOK, NEW a \in Attempts, NEW u \in Usages, NEW next,
         NEW cost \in Nat \cup {Unknown}
  PROVE  FinalTarget(a, next, u, cost) \in [Rows -> Nat]
<1>1. u \in UsageRecords
  BY ConstantsAssumption
<1> SUFFICES ASSUME NEW r \in Rows PROVE FinalTarget(a, next, u, cost)[r] \in Nat
  BY DEF FinalTarget
<1>2. plan[a][r] \in Nat /\ held[a][r] \in Nat
  BY DEF TypeOK
<1>3. u.total # Unknown => plan[a][r] * u.total \in Nat
  BY <1>1, <1>2, ProductNat DEF UsageRecords
<1>4. cost # Unknown => plan[a][r] * cost \in Nat
  BY <1>2, ProductNat
<1> QED BY <1>2, <1>3, <1>4 DEF FinalTarget

LEMMA ReconcileTargetType ==
  ASSUME TypeOK, NEW a \in Attempts, NEW u \in Usages \cup {NoUsage}, NEW mode,
         NEW charge \in Nat \cup {Unknown}
  PROVE  ReconcileTarget(a, mode, u, charge) \in [Rows -> Nat]
<1>1. u \in UsageRecords
  <2>1. NoUsage \in UsageRecords
    BY DEF NoUsage, UsageRecords
  <2>2. Usages \subseteq UsageRecords
    BY ConstantsAssumption
  <2> QED BY <2>1, <2>2
<1> SUFFICES ASSUME NEW r \in Rows PROVE ReconcileTarget(a, mode, u, charge)[r] \in Nat
  BY DEF ReconcileTarget
<1>2. plan[a][r] \in Nat /\ held[a][r] \in Nat
  BY DEF TypeOK
<1>3. u.total # Unknown => plan[a][r] * u.total \in Nat
  BY <1>1, <1>2, ProductNat DEF UsageRecords
<1>4. charge # Unknown => plan[a][r] * charge \in Nat
  BY <1>2, ProductNat
<1> QED BY <1>2, <1>3, <1>4 DEF ReconcileTarget

-----------------------------------------------------------------------------
(* Type correctness and conservation *)

\* Every counter is the number of units the attempts hold of its row.
Conserved ==
  \A r \in Rows : /\ IsFiniteSet(UnitsOf(Attempts, r))
                  /\ reserved[r] = Cardinality(UnitsOf(Attempts, r))

AbsentHoldsNothing ==
  \A a \in Attempts : state[a] = "absent" => \A r \in Rows : held[a][r] = 0 /\ plan[a][r] = 0

Accounts == TypeOK /\ AbsentHoldsNothing /\ Conserved

\* What each attempt holds of row r, as a function.
Share(r) == [a \in Attempts |-> held[a][r]]

LEMMA UnitsOfShare ==
  ASSUME NEW r, NEW S \in SUBSET Attempts
  PROVE  UnitsOf(S, r) = Units(S, Share(r))
<1>1. \A a \in S : Share(r)[a] = held[a][r]
  BY DEF Share
<1> HIDE DEF Share
<1> QED BY <1>1 DEF UnitsOf, Units

\* Moving every counter by what one attempt's hold of it changes preserves
\* conservation, whichever way the hold changes.
LEMMA AdjustConserves ==
  ASSUME TypeOK, Conserved, NEW a \in Attempts, NEW target \in [Rows -> Nat],
         held' = [held EXCEPT ![a] = target],
         reserved' = [r \in Rows |-> reserved[r] + target[r] - held[a][r]]
  PROVE  Conserved' /\ held' \in [Attempts -> [Rows -> Nat]] /\ reserved' \in [Rows -> Nat]
<1>1. held' \in [Attempts -> [Rows -> Nat]]
  BY DEF TypeOK
<1>2. ASSUME NEW r \in Rows
      PROVE  /\ IsFiniteSet(UnitsOf(Attempts, r))'
             /\ reserved'[r] = Cardinality(UnitsOf(Attempts, r))'
             /\ reserved'[r] \in Nat
  <2> DEFINE f == Share(r)
             g == Share(r)'
  <2>1. f \in [Attempts -> Nat] /\ g \in [Attempts -> Nat]
    BY <1>1 DEF TypeOK, Share
  <2>2. f[a] = held[a][r] /\ g[a] = target[r] /\ \A b \in Attempts \ {a} : g[b] = f[b]
    BY DEF Share, TypeOK
  <2>3. /\ IsFiniteSet(Units(Attempts, f))
        /\ reserved[r] = Cardinality(Units(Attempts, f))
    BY UnitsOfShare DEF Conserved
  <2>4. UnitsOf(Attempts, r)' = Units(Attempts, g)
    BY UnitsOfShare, <1>1 DEF UnitsOf, Units, Share
  <2> HIDE DEF f, g
  <2>5. /\ IsFiniteSet(Units(Attempts, g))
        /\ Cardinality(Units(Attempts, g)) = Cardinality(Units(Attempts, f)) + g[a] - f[a]
    BY <2>1, <2>2, <2>3, UnitsUpdate
  <2>6. Cardinality(Units(Attempts, g)) \in Nat
    BY <2>5, FS_CardinalityType
  <2>7. reserved'[r] = reserved[r] + target[r] - held[a][r]
    OBVIOUS
  <2> QED BY <2>2, <2>3, <2>4, <2>5, <2>6, <2>7
<1>3. reserved' \in [Rows -> Nat]
  BY <1>2
<1> QED BY <1>1, <1>2, <1>3 DEF Conserved

LEMMA AccountsInit == Init => Accounts
<1> SUFFICES ASSUME Init PROVE Accounts
  OBVIOUS
<1>1. TypeOK
  <2>1. MaxTime \in Nat \ {0}
    BY ConstantsAssumption
  <2>2. now \in 0..MaxTime
    BY <2>1 DEF Init
  <2>3. state \in [Attempts -> States] /\ charged \in [Attempts -> Nat \cup {Unknown}]
    BY DEF Init, States
  <2>4. policies \in [Policies -> PolicyRecords \cup {NoPolicy}]
    BY DEF Init
  <2> QED BY <2>2, <2>3, <2>4 DEF Init, TypeOK
<1>2. ASSUME NEW r \in Rows PROVE UnitsOf(Attempts, r) = {}
  BY DEF Init, UnitsOf
<1>3. Conserved
  BY <1>2, FS_EmptySet, Zenon DEF Conserved, Init
<1> QED BY <1>1, <1>3 DEF Accounts, AbsentHoldsNothing, Init

\* When neither the holds nor the counters change.
LEMMA StillConserved ==
  ASSUME Conserved, UNCHANGED <<reserved, held>>
  PROVE  Conserved'
BY SMTT(30) DEF Conserved, UnitsOf

LEMMA MutatePolicyAccounts ==
  ASSUME Accounts, NEW p \in Policies, NEW d \in PolicyData[p] \cup {NoPolicy}, MutatePolicy(p, d)
  PROVE  Accounts'
<1>1. d \in PolicyRecords \cup {NoPolicy}
  BY ConstantsAssumption
<1>2. \A k \in Kinds : d.maximum[k] \in Nat
  <2>1. CASE d \in PolicyRecords
    BY <2>1 DEF PolicyRecords
  <2>2. CASE d = NoPolicy
    BY <2>2 DEF NoPolicy
  <2> QED BY <1>1, <2>1, <2>2
<1>3. limits' \in [Rows -> Nat]
  BY <1>2, SMTT(30) DEF MutatePolicy, syncPolicyLimit, Accounts, TypeOK, Rows
<1>4. TypeOK'
  BY <1>1, <1>3, SMTT(30) DEF MutatePolicy, attemptVars, Accounts, TypeOK
<1>5. AbsentHoldsNothing'
  BY SMTT(30) DEF MutatePolicy, attemptVars, Accounts, AbsentHoldsNothing
<1> QED BY <1>4, <1>5, StillConserved DEF MutatePolicy, attemptVars, Accounts

LEMMA BeginAttemptAccounts ==
  ASSUME Accounts, NEW a \in Attempts, BeginAttempt(a)
  PROVE  Accounts'
<1>1. PICK inserted \in CursorSees :
        LET entries == [r \in Rows |-> Entries(a, r, inserted)]
            count   == [r \in Rows |-> Cardinality(entries[r])]
            take    == [r \in Rows |-> IF count[r] = 0 THEN 0 ELSE count[r] * amount(a, r.kind)]
        IN /\ state[a] = "absent"
           /\ \A r \in Rows : entries[r] # {} => amount(a, r.kind) # Unknown
           /\ limits' = [r \in Rows |-> IF Applies(a, r) THEN RowMaximum(r) ELSE limits[r]]
           /\ plan' = [plan EXCEPT ![a] = count]
           /\ held' = [held EXCEPT ![a] = take]
           /\ reserved' = [r \in Rows |-> reserved[r] + take[r]]
           /\ state' = [state EXCEPT ![a] = "dispatch_intent"]
           /\ version' = [version EXCEPT ![a] = cfg]
           /\ updatedAt' = [updatedAt EXCEPT ![a] = now]
           /\ UNCHANGED <<now, cfg, policies, planned, deadline, charged, released, ledger>>
  BY SMTT(30) DEF BeginAttempt, reserve
<1> DEFINE entries == [r \in Rows |-> Entries(a, r, inserted)]
           count   == [r \in Rows |-> Cardinality(entries[r])]
           take    == [r \in Rows |-> IF count[r] = 0 THEN 0 ELSE count[r] * amount(a, r.kind)]
<1>2. count \in [Rows -> Nat]
  BY EntriesFinite
<1>3. take \in [Rows -> Nat]
  <2> SUFFICES ASSUME NEW r \in Rows, count[r] # 0 PROVE count[r] * amount(a, r.kind) \in Nat
    OBVIOUS
  <2>1. entries[r] # {}
    BY EntriesFinite
  <2>2. amount(a, r.kind) \in Nat
    BY <1>1, <2>1, AmountType, SMTT(30)
  <2> HIDE DEF count
  <2> QED BY <1>2, <2>2, ProductNat
<1>4. limits' \in [Rows -> Nat]
  <2>1. ASSUME NEW r \in Rows, Applies(a, r) PROVE RowMaximum(r) \in Nat
    BY <2>1, RowMaximumType DEF Applies, Accounts
  <2> QED BY <1>1, <2>1 DEF Accounts, TypeOK
<1>5. \A r \in Rows : held[a][r] = 0
  BY <1>1, SMTT(30) DEF Accounts, AbsentHoldsNothing
<1> HIDE DEF entries, count, take
<1>6. reserved' = [r \in Rows |-> reserved[r] + take[r] - held[a][r]]
  BY <1>1, <1>3, <1>5, SMTT(30) DEF Accounts, TypeOK, entries, count, take
<1>7. held' = [held EXCEPT ![a] = take] /\ plan' = [plan EXCEPT ![a] = count]
  BY <1>1, SMTT(30) DEF entries, count, take
<1>8. Conserved' /\ held' \in [Attempts -> [Rows -> Nat]] /\ reserved' \in [Rows -> Nat]
  BY <1>3, <1>6, <1>7, AdjustConserves, Zenon DEF Accounts
<1>9. TypeOK'
  BY <1>1, <1>2, <1>4, <1>7, <1>8, SMTT(30) DEF Accounts, TypeOK, States
<1>10. AbsentHoldsNothing'
  BY <1>1, <1>7, SMTT(30) DEF Accounts, AbsentHoldsNothing, TypeOK
<1> QED BY <1>8, <1>9, <1>10 DEF Accounts

LEMMA PlanAttemptAccounts ==
  ASSUME Accounts, NEW a \in Attempts, PlanAttempt(a)
  PROVE  Accounts'
<1>1. TypeOK'
  <2>1. Timeout \in Nat /\ MaxTime \in Nat
    BY ConstantsAssumption
  <2>2. now + Timeout \in Nat
    BY <2>1 DEF Accounts, TypeOK
  <2> QED BY <2>2, SMTT(30) DEF PlanAttempt, Accounts, TypeOK
<1>2. AbsentHoldsNothing'
  BY DEF PlanAttempt, Accounts, AbsentHoldsNothing
<1> QED BY <1>1, <1>2, StillConserved DEF PlanAttempt, Accounts

LEMMA MarkAcceptedAccounts ==
  ASSUME Accounts, NEW a \in Attempts, MarkAccepted(a)
  PROVE  Accounts'
<1>1. TypeOK'
  BY SMTT(30) DEF MarkAccepted, Accounts, TypeOK, States
<1>2. AbsentHoldsNothing'
  BY DEF MarkAccepted, Accounts, AbsentHoldsNothing, TypeOK
<1> QED BY <1>1, <1>2, StillConserved DEF MarkAccepted, Accounts

LEMMA FinalizeAttemptAccounts ==
  ASSUME Accounts, NEW a \in Attempts, NEW o \in Outcomes, NEW u \in Usages,
         FinalizeAttempt(a, o, u)
  PROVE  Accounts'
<1> DEFINE cost   == ActualCost(o, u)
           next   == FinalState(a, o, u)
           target == FinalTarget(a, next, u, cost)
<1>1. cost \in Nat \cup {Unknown}
  BY CostType
<1>2. next \in States \ {"absent"}
  BY DEF FinalState, Outcomes, States
<1>3. target \in [Rows -> Nat]
  BY <1>1, FinalTargetType, Zenon DEF Accounts
<1>4. /\ held' = [held EXCEPT ![a] = target]
      /\ reserved' = [r \in Rows |-> reserved[r] + target[r] - held[a][r]]
      /\ state' = [state EXCEPT ![a] = next]
      /\ version' = [version EXCEPT ![a] = @ + 1]
      /\ updatedAt' = [updatedAt EXCEPT ![a] = now]
      /\ \E c \in {cost, charged[a]} : charged' = [charged EXCEPT ![a] = c]
      /\ \/ ledger' = ledger
         \/ /\ cost # Unknown
            /\ ledger' = ledger \cup {[attempt |-> a, kind |-> "charge", known |-> TRUE,
                                       amount |-> cost, at |-> now]}
      /\ UNCHANGED <<now, cfg, policies, limits, planned, deadline, plan, released>>
  BY Zenon DEF FinalizeAttempt, adjustHolds
<1> HIDE DEF cost, next, target
<1>5. Conserved' /\ held' \in [Attempts -> [Rows -> Nat]] /\ reserved' \in [Rows -> Nat]
  BY <1>3, <1>4, AdjustConserves, Zenon DEF Accounts
<1>6. ledger' \subseteq Effects
  <2>1. cost \in Int
    BY <1>1 DEF Unknown
  <2>2. [attempt |-> a, kind |-> "charge", known |-> TRUE, amount |-> cost, at |-> now] \in Effects
    BY <2>1 DEF Accounts, TypeOK, Effects
  <2> QED BY <1>4, <2>2, Zenon DEF Accounts, TypeOK
<1>7. charged' \in [Attempts -> Nat \cup {Unknown}]
  BY <1>1, <1>4, SMTT(30) DEF Accounts, TypeOK
<1>8. TypeOK'
  BY <1>2, <1>4, <1>5, <1>6, <1>7, SMTT(30) DEF Accounts, TypeOK
<1>9. AbsentHoldsNothing'
  BY <1>2, <1>4, SMTT(30) DEF Accounts, AbsentHoldsNothing, TypeOK
<1> QED BY <1>5, <1>8, <1>9 DEF Accounts

\* Evidence an operator may submit.
LEMMA ReconciledChargeType ==
  ASSUME TypeOK, NEW a \in Attempts, NEW u \in Usages \cup {NoUsage}, NEW mode,
         NEW cost \in ReconCosts \cup {Unknown}
  PROVE  ReconciledCharge(a, mode, u, cost) \in Nat \cup {Unknown}
<1>1. MaximumCost[a] \in Nat \cup {Unknown} /\ ReconCosts \subseteq Nat
  BY ConstantsAssumption
<1>2. charged[a] \in Nat \cup {Unknown}
  BY DEF TypeOK
<1>3. EstimateUsageCost(u) \in Nat \cup {Unknown, Invalid}
  BY CostType DEF NoUsage, EstimateUsageCost, Unknown
<1> QED BY <1>1, <1>2, <1>3, SMTT(30) DEF ReconciledCharge

LEMMA ReconcileAccounts ==
  ASSUME Accounts, NEW a \in Attempts, NEW id \in ReconIds, NEW expected, NEW mode,
         NEW u \in Usages \cup {NoUsage}, NEW cost \in ReconCosts \cup {Unknown},
         Reconcile(id, a, expected, mode, u, cost)
  PROVE  Accounts'
<1> DEFINE charge == ReconciledCharge(a, mode, u, cost)
           target == ReconcileTarget(a, mode, u, charge)
           delta  == IF charge # Unknown THEN LedgerDelta(a, charge) ELSE 0
<1>1. charge \in Nat \cup {Unknown}
  BY ReconciledChargeType DEF Accounts
<1>2. target \in [Rows -> Nat]
  BY <1>1, ReconcileTargetType, Zenon DEF Accounts
<1>3. delta \in Int
  <2> HIDE DEF charge
  <2> QED BY <1>1, SMTT(30) DEF LedgerDelta, Accounts, TypeOK
<1>4. /\ held' = [held EXCEPT ![a] = target]
      /\ reserved' = [r \in Rows |-> reserved[r] + target[r] - held[a][r]]
      /\ version' = [version EXCEPT ![a] = @ + 1]
      /\ updatedAt' = [updatedAt EXCEPT ![a] = now]
      /\ \E c \in {charge, charged[a]} : charged' = [charged EXCEPT ![a] = c]
      /\ \E known \in BOOLEAN :
            ledger' = ledger \cup {[attempt |-> a, kind |-> id, known |-> known,
                                    amount |-> delta, at |-> now]}
      /\ UNCHANGED <<now, cfg, policies, limits, planned, deadline, state, plan, released>>
  BY Zenon DEF Reconcile, adjustHolds
<1>5. state[a] = "outcome_unknown"
  BY SMTT(30) DEF Reconcile
<1> HIDE DEF charge, target, delta
<1>6. Conserved' /\ held' \in [Attempts -> [Rows -> Nat]] /\ reserved' \in [Rows -> Nat]
  BY <1>2, <1>4, AdjustConserves, Zenon DEF Accounts
<1>7. ledger' \subseteq Effects
  BY <1>3, <1>4, SMTT(30) DEF Accounts, TypeOK, Effects
<1>8. charged' \in [Attempts -> Nat \cup {Unknown}]
  BY <1>1, <1>4, SMTT(30) DEF Accounts, TypeOK
<1>9. TypeOK'
  BY <1>4, <1>6, <1>7, <1>8, SMTT(30) DEF Accounts, TypeOK
<1>10. AbsentHoldsNothing'
  BY <1>4, <1>5, SMTT(30) DEF Accounts, AbsentHoldsNothing, TypeOK
<1> QED BY <1>6, <1>9, <1>10 DEF Accounts

LEMMA TickAccounts ==
  ASSUME Accounts, Tick
  PROVE  Accounts'
<1>1. TypeOK'
  <2>1. MaxTime \in Nat \ {0}
    BY ConstantsAssumption
  <2>2. now' \in 0..MaxTime
    BY <2>1 DEF Tick, Accounts, TypeOK
  <2> QED BY <2>2 DEF Tick, attemptVars, Accounts, TypeOK
<1>2. AbsentHoldsNothing'
  BY SMTT(30) DEF Tick, attemptVars, Accounts, AbsentHoldsNothing
<1> QED BY <1>1, <1>2, StillConserved DEF Tick, attemptVars, Accounts

LEMMA RunMaintenanceAccounts ==
  ASSUME Accounts, RunMaintenance
  PROVE  Accounts'
<1>1. PICK B \in SUBSET Attempts, P \in SUBSET Attempts :
        /\ B \subseteq Expired
        /\ reserved' = [r \in Rows |-> IF r.kind = "concurrency"
                                       THEN reserved[r] - Cardinality(UnitsOf(B, r))
                                       ELSE reserved[r]]
        /\ held' = [a \in Attempts |-> IF a \in B
                      THEN [r \in Rows |-> IF r.kind = "concurrency" THEN 0 ELSE held[a][r]]
                      ELSE held[a]]
        /\ released' = [a \in Attempts |-> released[a] \/ a \in B]
        /\ state' = [a \in Attempts |->
                       IF a \in B THEN "outcome_unknown"
                       ELSE IF a \in {x \in P : updatedAt[x] > 0 /\ updatedAt[x] < now - AttemptRetention}
                       THEN "pruned" ELSE state[a]]
        /\ version' = [a \in Attempts |-> IF a \in B THEN version[a] + 1 ELSE version[a]]
        /\ updatedAt' = [a \in Attempts |-> IF a \in B THEN now ELSE updatedAt[a]]
        /\ ledger' \subseteq ledger
        /\ UNCHANGED <<now, cfg, policies, limits, planned, deadline, plan, charged>>
  BY Zenon DEF RunMaintenance, IsBatch
<1>2. held' \in [Attempts -> [Rows -> Nat]]
  BY <1>1 DEF Accounts, TypeOK
<1>3. ASSUME NEW r \in Rows
      PROVE  /\ IsFiniteSet(UnitsOf(Attempts, r))'
             /\ reserved'[r] = Cardinality(UnitsOf(Attempts, r))'
             /\ reserved'[r] \in Nat
  <2> DEFINE f == Share(r)
             g == Share(r)'
  <2>1. f \in [Attempts -> Nat] /\ g \in [Attempts -> Nat]
    BY <1>2 DEF Accounts, TypeOK, Share
  <2>2. \A b \in Attempts :
           g[b] = IF b \in B /\ r.kind = "concurrency" THEN 0 ELSE f[b]
    BY <1>1, SMTT(30) DEF Share, Accounts, TypeOK
  <2>3. /\ IsFiniteSet(Units(Attempts, f))
        /\ reserved[r] = Cardinality(Units(Attempts, f))
    BY UnitsOfShare DEF Accounts, Conserved
  <2>4. UnitsOf(Attempts, r)' = Units(Attempts, g)
    BY <1>2 DEF UnitsOf, Units, Share
  <2>5. UnitsOf(B, r) = Units(B, f)
    BY UnitsOfShare
  <2> HIDE DEF f, g
  <2>6. CASE r.kind = "concurrency"
    <3>1. /\ IsFiniteSet(Units(Attempts, g))
          /\ Cardinality(Units(Attempts, g)) = Cardinality(Units(Attempts, f)) - Cardinality(Units(B, f))
      BY <2>1, <2>2, <2>3, <2>6, UnitsDrop, SMTT(30)
    <3>2. Cardinality(Units(Attempts, g)) \in Nat
      BY <3>1, FS_CardinalityType, SMTT(30)
    <3>3. reserved'[r] = reserved[r] - Cardinality(Units(B, f))
      BY <1>1, <2>5, <2>6, SMTT(30)
    <3> QED BY <2>3, <2>4, <3>1, <3>2, <3>3, SMTT(30)
  <2>7. CASE r.kind # "concurrency"
    <3>1. g = f
      BY <2>1, <2>2, <2>7
    <3>2. reserved'[r] = reserved[r] /\ reserved[r] \in Nat
      BY <1>1, <2>7, SMTT(30) DEF Accounts, TypeOK
    <3> QED BY <2>3, <2>4, <3>1, <3>2, SMTT(30)
  <2> QED BY <2>6, <2>7, SMTT(30)
<1>4. reserved' \in [Rows -> Nat]
  <2>1. reserved' = [r \in Rows |-> reserved'[r]]
    BY <1>1, Zenon
  <2>2. \A r \in Rows : reserved'[r] \in Nat
    BY <1>3, Zenon
  <2> HIDE <1>1, <1>3
  <2> QED BY <2>1, <2>2, Zenon
<1>5. TypeOK'
  <2>1. state' \in [Attempts -> States]
    BY <1>1, SMTT(30) DEF Accounts, TypeOK, States
  <2>2. released' \in [Attempts -> BOOLEAN]
    BY <1>1, Zenon
  <2>3. version' \in [Attempts -> Nat] /\ updatedAt' \in [Attempts -> Nat]
    BY <1>1, SMTT(30) DEF Accounts, TypeOK
  <2> QED BY <1>1, <1>2, <1>4, <2>1, <2>2, <2>3, SMTT(30) DEF Accounts, TypeOK
<1>6. AbsentHoldsNothing'
  BY <1>1, SMTT(30) DEF Accounts, AbsentHoldsNothing, TypeOK
<1> QED BY <1>3, <1>5, <1>6 DEF Accounts, Conserved

LEMMA AccountsStep == Accounts /\ [Next]_vars => Accounts'
<1> SUFFICES ASSUME Accounts, [Next]_vars PROVE Accounts'
  OBVIOUS
<1>1. CASE \E p \in Policies : \E d \in PolicyData[p] \cup {NoPolicy} : MutatePolicy(p, d)
  BY <1>1, MutatePolicyAccounts
<1>2. ASSUME NEW a \in Attempts, PlanAttempt(a) PROVE Accounts'
  BY <1>2, PlanAttemptAccounts
<1>3. ASSUME NEW a \in Attempts, BeginAttempt(a) PROVE Accounts'
  BY <1>3, BeginAttemptAccounts
<1>4. ASSUME NEW a \in Attempts, MarkAccepted(a) PROVE Accounts'
  BY <1>4, MarkAcceptedAccounts
<1>5. ASSUME NEW a \in Attempts, NEW o \in Outcomes, NEW u \in Usages, FinalizeAttempt(a, o, u)
      PROVE  Accounts'
  BY <1>5, FinalizeAttemptAccounts
<1>6. ASSUME NEW a \in Attempts, NEW id \in ReconIds, NEW b \in Attempts,
             NEW u \in Usages, NEW c \in ReconCosts \cup {Unknown},
             Reconcile(id, a, version[b], "provider_evidence", u, c)
      PROVE  Accounts'
  BY <1>6, ReconcileAccounts
<1>7. ASSUME NEW a \in Attempts, NEW id \in ReconIds, NEW b \in Attempts,
             Reconcile(id, a, version[b], "charge_reserved_maximum", NoUsage, Unknown)
      PROVE  Accounts'
  BY <1>7, ReconcileAccounts
<1>8. CASE RunMaintenance
  BY <1>8, RunMaintenanceAccounts
<1>9. CASE Tick
  BY <1>9, TickAccounts
<1>10. CASE UNCHANGED vars
  <2>1. TypeOK' /\ AbsentHoldsNothing'
    BY <1>10, SMTT(30) DEF vars, Accounts, TypeOK, AbsentHoldsNothing
  <2> QED BY <1>10, <2>1, StillConserved DEF vars, Accounts
<1> QED BY <1>1, <1>2, <1>3, <1>4, <1>5, <1>6, <1>7, <1>8, <1>9, <1>10, Zenon DEF Next

LEMMA AccountsInvariant == Spec => []Accounts
BY AccountsInit, AccountsStep, PTL DEF Spec

\* Every reachable state of the store is well typed; in particular no counter
\* and no hold ever becomes negative, although the code stores them as signed
\* integers and subtracts from them in three places.
THEOREM TypeCorrect == Spec => []TypeOK
<1>1. Accounts => TypeOK
  BY DEF Accounts
<1> QED BY <1>1, AccountsInvariant, PTL

\* For every number of attempts, scopes, policies, windows and batch size, the
\* shared counter of each allowance row is the sum of the holds the attempts
\* have recorded on it (BeginAttempt, adjustHoldMode, RunMaintenance).
THEOREM ConservationHolds == Spec => []Conservation
<1>1. Accounts => Conservation
  BY DEF Accounts, Conserved, Conservation
<1> QED BY <1>1, AccountsInvariant, PTL
============================================================================
