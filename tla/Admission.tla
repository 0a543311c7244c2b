----------------------------- MODULE Admission -----------------------------
(***************************************************************************)
(* The admission store: one row per upstream attempt, the shared allowance *)
(* counters that attempts reserve against, the usage ledger, and the quota *)
(* windows that policy limits open.  Every store call runs in one WithTx   *)
(* transaction (serialised by the store), so every operation is one action *)
(* and a call that returns an error is a step that is not taken.           *)
(***************************************************************************)
EXTENDS Integers, FiniteSets, FiniteSetsExt

CONSTANTS
  Attempts,          \* attempt identities (random in the code, never reused)
  RequestOf,         \* the client request an attempt belongs to
  Scopes,            \* (scope kind, scope id) pairs limits are attached to
  ScopesOf,          \* the scopes policyScopeMatches accepts for an attempt
  Policies,          \* identities of policy_limits resources
  PolicyData,        \* the contents an operator may give each of them
  TokenBound,        \* InputBound + OutputBound of an attempt, or Unknown
  MaximumCost,       \* AttemptPlan.MaximumCost, or Unknown
  Price,             \* pinned price of one token, or Unknown
  Usages,            \* usage evidence a provider response may carry
  ReconIds,          \* reconciliation identities operators may submit
  ReconCosts,        \* costs operators may submit
  WindowLen,         \* length of a quota window of each prefix
  Timeout,           \* attempt deadline, counted from planning
  Grace,             \* attemptCancellationGraceSeconds
  AttemptRetention,  \* attemptRetentionSeconds
  UsageRetention,    \* usageRetentionSeconds
  CursorSees,        \* whether the database may return a row to the query that
                     \* is still open when the row is inserted
  Batch,             \* rows one maintenance query returns (LIMIT 256)
  MaxInt,            \* the largest value an allowance counter can hold
  MaxTime,           \* bound on the clock
  MaxRevision        \* bound on configuration changes

Kinds == {"requests", "tokens", "concurrency", "jobs", "cost"}
Prefixes == {"total", "60", "daily", "monthly"}
Unknown == -1        \* a nil quantity
Invalid == -2        \* usage whose detail EstimateUsageCost refuses

\* Windows of these prefixes may limit a kind; only cost can choose.
PrefixesOf(k) ==
  IF k = "cost" THEN {"total", "daily", "monthly"}
  ELSE IF k \in {"requests", "tokens"} THEN {"60"} ELSE {"total"}

\* Keys of policy_limits and of allowances. A window is a prefix and the
\* number of the period; "total" has one period longer than the clock.
Rows == {r \in [scope : Scopes, kind : Kinds, prefix : Prefixes, index : 0..MaxTime] :
            /\ r.prefix \in PrefixesOf(r.kind)
            /\ r.index * WindowLen[r.prefix] <= MaxTime}

\* The resource a policy identity has before it is created and once deleted.
NoPolicy == [scope |-> "", maximum |-> [k \in Kinds |-> 0], costWindow |-> "total"]
PolicyRecords == [scope : Scopes, maximum : [Kinds -> Nat],
                  costWindow : {"total", "daily", "monthly"}]

\* Evidence after normalizeUsage: total is the token total when it is known
\* and consistent, priced the tokens EstimateUsageCost can put a price on.
UsageRecords == [total : Nat \cup {Unknown}, priced : Nat \cup {Unknown, Invalid}]

ASSUME ConstantsAssumption ==
  /\ DOMAIN RequestOf = Attempts
  /\ "" \notin Scopes
  /\ ScopesOf \in [Attempts -> SUBSET Scopes]
  /\ PolicyData \in [Policies -> SUBSET PolicyRecords]
  /\ TokenBound \in [Attempts -> Nat \cup {Unknown}]
  /\ MaximumCost \in [Attempts -> Nat \cup {Unknown}]
  /\ Price \in Nat \cup {Unknown}
  /\ Usages \subseteq UsageRecords
  /\ "charge" \notin ReconIds
  /\ ReconCosts \subseteq Nat
  /\ WindowLen \in [Prefixes -> Nat \ {0}]
  /\ Timeout \in Nat /\ Grace \in Nat
  /\ AttemptRetention \in Nat /\ UsageRetention \in Nat
  /\ Batch \in Nat \ {0}
  /\ CursorSees \subseteq BOOLEAN
  /\ MaxInt \in Nat /\ MaxTime \in Nat \ {0} /\ MaxRevision \in Nat
  /\ WindowLen["total"] > MaxTime

VARIABLES
  now,        \* the database clock (sqlNow)
  cfg,        \* config_state.revision
  policies,   \* the policy_limits resources
  limits,     \* policy_limits rows: the maximum, 0 where there is no row
  reserved,   \* allowances.reserved
  planned,    \* AttemptPlan.ConfigRevision of the plan made last, 0 if none
  deadline,   \* attempts.deadline
  state,      \* attempts.state; "absent" and "pruned" mean there is no row
  version,    \* attempts.version
  updatedAt,  \* attemptEnvelope.UpdatedAt
  plan,       \* how many entries of Plan.Allowances name each row
  held,       \* what the attempt holds of each row, summed over its entries
  charged,    \* attemptEnvelope.ChargedCost, Unknown unless ChargedCostKnown
  released,   \* attemptEnvelope.ConcurrencyReleased
  ledger      \* usage_ledger

vars == <<now, cfg, policies, limits, reserved, planned, deadline, state,
          version, updatedAt, plan, held, charged, released, ledger>>
attemptVars == <<planned, deadline, state, version, updatedAt, plan, held, charged, released>>

States == {"absent", "dispatch_intent", "accepted", "job_pending",
           "settled", "outcome_unknown", "not_executed", "pruned"}
Live == {"dispatch_intent", "accepted"}
HasRow(a) == state[a] \notin {"absent", "pruned"}

\* A ledger effect: "charge" or a reconciliation; a NULL amount is not known.
Effects == [attempt : Attempts, kind : {"charge"} \cup ReconIds,
            known : BOOLEAN, amount : Int, at : Nat]

TypeOK ==
  /\ now \in 0..MaxTime
  /\ cfg \in Nat
  /\ policies \in [Policies -> PolicyRecords \cup {NoPolicy}]
  /\ limits \in [Rows -> Nat]
  /\ reserved \in [Rows -> Nat]
  /\ planned \in [Attempts -> Nat]
  /\ deadline \in [Attempts -> Nat]
  /\ state \in [Attempts -> States]
  /\ version \in [Attempts -> Nat]
  /\ updatedAt \in [Attempts -> Nat]
  /\ plan \in [Attempts -> [Rows -> Nat]]
  /\ held \in [Attempts -> [Rows -> Nat]]
  /\ charged \in [Attempts -> Nat \cup {Unknown}]
  /\ released \in [Attempts -> BOOLEAN]
  /\ ledger \subseteq Effects

Init ==
  /\ now = 1
  /\ cfg = 1
  /\ policies = [p \in Policies |-> NoPolicy]
  /\ limits = [r \in Rows |-> 0]
  /\ reserved = [r \in Rows |-> 0]
  /\ planned = [a \in Attempts |-> 0]
  /\ deadline = [a \in Attempts |-> 0]
  /\ state = [a \in Attempts |-> "absent"]
  /\ version = [a \in Attempts |-> 0]
  /\ updatedAt = [a \in Attempts |-> 0]
  /\ plan = [a \in Attempts |-> [r \in Rows |-> 0]]
  /\ held = [a \in Attempts |-> [r \in Rows |-> 0]]
  /\ charged = [a \in Attempts |-> Unknown]
  /\ released = [a \in Attempts |-> FALSE]
  /\ ledger = {}

-----------------------------------------------------------------------------
(* Policy limits and the windows they open *)

\* r belongs to the period the clock is in.
IsCurrent(r) == r.index = now \div WindowLen[r.prefix]

PrefixOf(d, k) ==
  IF k = "cost" THEN d.costWindow
  ELSE IF k \in {"requests", "tokens"} THEN "60" ELSE "total"

\* (Mutant: an update leaves the rows the old contents put there.)
syncKeepsOld(old, d) ==
  [r \in Rows |->
     IF /\ r.scope = d.scope
        /\ r.prefix = PrefixOf(d, r.kind)
        /\ IsCurrent(r)
        /\ limits[r] = 0
     THEN d.maximum[r.kind]
     ELSE limits[r]]

\* The rows the old contents put on their scope go, in every window; the new
\* contents insert a row for the current window of each positive dimension.
syncPolicyLimit(old, d) ==
  [r \in Rows |->
     IF /\ r.scope = d.scope
        /\ r.prefix = PrefixOf(d, r.kind)
        /\ IsCurrent(r)
        /\ d.maximum[r.kind] > 0
     THEN d.maximum[r.kind]
     ELSE IF r.scope = old.scope THEN 0 ELSE limits[r]]

\* Mutate of a policy_limits resource: create, update, or delete (NoPolicy).
MutatePolicy(p, d) ==
  /\ cfg < MaxRevision
  /\ d = NoPolicy => policies[p] # NoPolicy
  /\ limits' = syncPolicyLimit(policies[p], d)
  /\ policies' = [policies EXCEPT ![p] = d]
  /\ cfg' = cfg + 1
  /\ UNCHANGED <<now, reserved, ledger>> /\ UNCHANGED attemptVars

\* The periods in which r's scope, kind and prefix have a policy_limits row.
Sources(r) == {i \in 0..MaxTime : /\ i * WindowLen[r.prefix] <= MaxTime
                                  /\ limits[[r EXCEPT !.index = i]] > 0}

\* resolveAllowances maps every such row, expired or current, to the row of
\* the current window, which it inserts with the oldest row's maximum.
Applies(a, r) == r.scope \in ScopesOf[a] /\ IsCurrent(r) /\ Sources(r) # {}
RowMaximum(r) ==
  IF limits[r] > 0 THEN limits[r]
  ELSE limits[[r EXCEPT !.index = CHOOSE i \in Sources(r) : \A j \in Sources(r) : i <= j]]

\* One plan entry per source row. The query is still open when the current
\* window's row is inserted; SQLite leaves it undefined whether the cursor
\* then returns it too (inserted = TRUE), a Postgres snapshot does not.
Entries(a, r, inserted) ==
  IF Applies(a, r) THEN Sources(r) \cup (IF inserted THEN {r.index} ELSE {}) ELSE {}
EntryMaximum(r, i) ==
  IF i \in Sources(r) THEN limits[[r EXCEPT !.index = i]] ELSE RowMaximum(r)

-----------------------------------------------------------------------------
(* BeginAttempt *)

seenRequest(a) == \E b \in Attempts \ {a} : RequestOf[b] = RequestOf[a] /\ HasRow(b)

\* What BeginAttempt reserves for one plan entry.
amount(a, k) ==
  CASE k = "cost"     -> MaximumCost[a]
    [] k = "tokens"   -> TokenBound[a]
    [] k = "requests" -> IF seenRequest(a) THEN 0 ELSE 1
    [] OTHER          -> 1

\* (Mutant: the counter is compared with the maximum before it is raised.)
FitsOffByOne(a, r, entries) ==
  amount(a, r.kind) # 0 =>
    \A i \in entries :
       /\ amount(a, r.kind) <= RowMaximum(r)
       /\ reserved[r] + amount(a, r.kind) * Cardinality({j \in entries : j < i})
             <= EntryMaximum(r, i)

\* (Mutant: every entry is checked against the counter as it was.)
FitsUnaware(a, r, entries) ==
  amount(a, r.kind) # 0 =>
    \A i \in entries : reserved[r] + amount(a, r.kind) <= EntryMaximum(r, i)

\* The guarded updates of one row, one per entry in window order.
Fits(a, r, entries) ==
  amount(a, r.kind) # 0 =>
    \A i \in entries :
       /\ EntryMaximum(r, i) <= RowMaximum(r)
       /\ amount(a, r.kind) <= RowMaximum(r)
       /\ reserved[r] + amount(a, r.kind) * Cardinality({j \in entries : j <= i})
             <= EntryMaximum(r, i)

PlanAttempt(a) ==
  /\ state[a] = "absent"
  /\ now + Timeout + Grace <= MaxTime
  /\ planned' = [planned EXCEPT ![a] = cfg]
  /\ deadline' = [deadline EXCEPT ![a] = now + Timeout]
  /\ UNCHANGED <<now, cfg, policies, limits, reserved, state, version,
                 updatedAt, plan, held, charged, released, ledger>>

\* (Mutant: a row that several entries name is raised once.)
reserveOnce(a, count) ==
  /\ held' = [held EXCEPT ![a] = [r \in Rows |-> IF count[r] = 0 THEN 0
                                                ELSE count[r] * amount(a, r.kind)]]
  /\ reserved' = [r \in Rows |-> IF count[r] = 0 THEN reserved[r]
                                 ELSE reserved[r] + amount(a, r.kind)]

\* Every entry takes its amount from its row and records it as held.
reserve(a, count) ==
  LET take == [r \in Rows |-> IF count[r] = 0 THEN 0 ELSE count[r] * amount(a, r.kind)]
  IN /\ held' = [held EXCEPT ![a] = take]
     /\ reserved' = [r \in Rows |-> reserved[r] + take[r]]

BeginAttempt(a) ==
  \E inserted \in CursorSees :
    LET entries == [r \in Rows |-> Entries(a, r, inserted)]
        count   == [r \in Rows |-> Cardinality(entries[r])]
    IN /\ state[a] = "absent"
       /\ planned[a] = cfg
       /\ now < deadline[a]
       /\ \A r \in Rows : entries[r] # {} =>
             /\ amount(a, r.kind) # Unknown
             /\ Fits(a, r, entries[r])
       /\ limits' = [r \in Rows |-> IF Applies(a, r) THEN RowMaximum(r) ELSE limits[r]]
       /\ plan' = [plan EXCEPT ![a] = count]
       /\ reserve(a, count)
       /\ state' = [state EXCEPT ![a] = "dispatch_intent"]
       /\ version' = [version EXCEPT ![a] = cfg]
       /\ updatedAt' = [updatedAt EXCEPT ![a] = now]
       /\ UNCHANGED <<now, cfg, policies, planned, deadline, charged, released, ledger>>

MarkAccepted(a) ==
  /\ state[a] = "dispatch_intent"
  /\ state' = [state EXCEPT ![a] = "accepted"]
  /\ version' = [version EXCEPT ![a] = @ + 1]
  /\ updatedAt' = [updatedAt EXCEPT ![a] = now]
  /\ UNCHANGED <<now, cfg, policies, limits, reserved, planned, deadline,
                 plan, held, charged, released, ledger>>

-----------------------------------------------------------------------------
(* Settlement *)

EstimateUsageCost(u) ==
  IF u.priced < 0 THEN u.priced
  ELSE IF Price # Unknown THEN u.priced * Price
  ELSE IF u.priced = 0 THEN 0 ELSE Unknown

\* (Mutant: a counter is assigned the attempt's own total.)
adjustHoldsAbsolute(a, target) ==
  /\ reserved' = [r \in Rows |-> IF target[r] = held[a][r] THEN reserved[r] ELSE target[r]]
  /\ held' = [held EXCEPT ![a] = target]

\* (Mutant: the whole hold is returned again on top of the difference.)
adjustHoldsTwice(a, target) ==
  /\ reserved' = [r \in Rows |-> IF target[r] = held[a][r] THEN reserved[r]
                                 ELSE reserved[r] + target[r] - 2 * held[a][r]]
  /\ held' = [held EXCEPT ![a] = target]

\* adjustHold and adjustIncurredHold of every entry of attempt a: each row
\* moves by the difference, and refuses to go below zero or past MaxInt.
adjustHolds(a, target) ==
  /\ \A r \in Rows : target[r] # held[a][r] => reserved[r] + target[r] - held[a][r] \in 0..MaxInt
  /\ reserved' = [r \in Rows |-> reserved[r] + target[r] - held[a][r]]
  /\ held' = [held EXCEPT ![a] = target]

needs(a, k) == \E r \in Rows : r.kind = k /\ plan[a][r] > 0

\* (Mutant: missing price evidence does not keep the outcome open.)
FinalStateTrusting(a, o, u) ==
  IF o = "settled" /\ needs(a, "tokens") /\ u.total = Unknown THEN "outcome_unknown" ELSE o

\* The state FinalizeAttempt records when the caller asks for o: a success
\* without the evidence its held dimensions need stays reconcilable.
FinalState(a, o, u) ==
  IF /\ o = "settled"
     /\ \/ needs(a, "cost") /\ EstimateUsageCost(u) < 0
        \/ needs(a, "tokens") /\ u.total = Unknown
  THEN "outcome_unknown" ELSE o

\* Only a success is priced (no caller supplies ActualCost itself).
ActualCost(o, u) ==
  IF o = "settled" /\ EstimateUsageCost(u) >= 0 THEN EstimateUsageCost(u) ELSE Unknown

\* (Mutant: settlement forgets the job slot.)
FinalTargetKeepsJob(a, next, u, cost) ==
  [r \in Rows |->
     CASE next = "not_executed" -> 0
       [] next \in {"settled", "job_pending"} /\ r.kind = "concurrency" -> 0
       [] next \in {"settled", "outcome_unknown"} /\ r.kind = "cost" /\ cost # Unknown
            -> plan[a][r] * cost
       [] OTHER -> held[a][r]]

FinalTarget(a, next, u, cost) ==
  [r \in Rows |->
     CASE next = "not_executed" -> 0
       [] next \in {"settled", "job_pending"} /\ r.kind = "concurrency" -> 0
       [] next = "settled" /\ r.kind = "jobs" -> 0
       [] next \in {"settled", "outcome_unknown"} /\ r.kind = "tokens" /\ u.total # Unknown
            -> plan[a][r] * u.total
       [] next \in {"settled", "outcome_unknown"} /\ r.kind = "cost" /\ cost # Unknown
            -> plan[a][r] * cost
       [] OTHER -> held[a][r]]

\* (Mutant: a late report replaces an unknown outcome.)
FinalizableLate(a, o) ==
  \/ state[a] \in Live \cup {"outcome_unknown"}
  \/ state[a] = "job_pending" /\ o \in {"settled", "outcome_unknown"}

\* From which states an attempt may still be given outcome o.
Finalizable(a, o) ==
  \/ state[a] \in Live
  \/ state[a] = "job_pending" /\ o \in {"settled", "outcome_unknown"}

FinalizeAttempt(a, o, u) ==
  LET cost == ActualCost(o, u)
      next == FinalState(a, o, u)
      pays == next \in {"settled", "outcome_unknown"} /\ cost # Unknown /\ charged[a] = Unknown
  IN /\ Finalizable(a, o)
     /\ adjustHolds(a, FinalTarget(a, next, u, cost))
     /\ state' = [state EXCEPT ![a] = next]
     /\ version' = [version EXCEPT ![a] = @ + 1]
     /\ updatedAt' = [updatedAt EXCEPT ![a] = now]
     /\ charged' = [charged EXCEPT ![a] = IF pays THEN cost ELSE @]
     /\ ledger' = IF pays
                  THEN ledger \cup {[attempt |-> a, kind |-> "charge", known |-> TRUE,
                                     amount |-> cost, at |-> now]}
                  ELSE ledger
     /\ UNCHANGED <<now, cfg, policies, limits, planned, deadline, plan, released>>

\* An operator resolves an unknown outcome: mode "provider_evidence" with a
\* usage, a cost or both, or mode "charge_reserved_maximum". (An attempt with
\* a cost entry has a MaximumCost, so the fallback on the entries' maximum is
\* never needed.)
ReconciledCharge(a, mode, u, cost) ==
  IF mode = "charge_reserved_maximum" THEN MaximumCost[a]
  ELSE IF cost # Unknown THEN cost
  ELSE IF EstimateUsageCost(u) = Unknown THEN charged[a]
  ELSE IF EstimateUsageCost(u) = Invalid THEN Unknown
  ELSE EstimateUsageCost(u)

ReconcileTarget(a, mode, u, charge) ==
  [r \in Rows |->
     CASE r.kind = "concurrency" -> 0
       [] r.kind = "cost" /\ charge # Unknown -> plan[a][r] * charge
       [] r.kind = "tokens" /\ mode = "provider_evidence" /\ u.total # Unknown
            -> plan[a][r] * u.total
       [] OTHER -> held[a][r]]

\* What a reconciliation posts to the ledger: the correction of the charge.
\* (Mutant: it posts the corrected charge itself.)
LedgerAbsolute(a, charge) == charge
LedgerDelta(a, charge) == charge - (IF charged[a] = Unknown THEN 0 ELSE charged[a])

Reconcile(id, a, expected, mode, u, cost) ==
  LET charge == ReconciledCharge(a, mode, u, cost)
      known  == charge # Unknown
  IN /\ \A e \in ledger : e.kind # id
     /\ state[a] = "outcome_unknown"
     /\ version[a] = expected
     /\ mode = "charge_reserved_maximum" => known
     /\ adjustHolds(a, ReconcileTarget(a, mode, u, charge))
     /\ charged' = [charged EXCEPT ![a] = IF known THEN charge ELSE @]
     /\ ledger' = ledger \cup {[attempt |-> a, kind |-> id, known |-> known,
                                amount |-> IF known THEN LedgerDelta(a, charge) ELSE 0, at |-> now]}
     /\ version' = [version EXCEPT ![a] = @ + 1]
     /\ updatedAt' = [updatedAt EXCEPT ![a] = now]
     /\ UNCHANGED <<now, cfg, policies, limits, planned, deadline, state, plan, released>>

-----------------------------------------------------------------------------
(* Maintenance *)

\* The first rows a query ordered by key returns.
IsBatch(B, S, key) ==
  /\ B \subseteq S
  /\ \A x \in B, y \in S \ B : key[x] <= key[y]
  /\ Cardinality(B) = IF Cardinality(S) < Batch THEN Cardinality(S) ELSE Batch

\* (Mutant: only attempts still in flight are swept.)
ExpiredInFlight == {a \in Attempts : deadline[a] <= now - Grace /\ state[a] \in Live}

Expired == {a \in Attempts : /\ deadline[a] <= now - Grace
                             /\ \/ state[a] \in Live
                                \/ state[a] = "outcome_unknown" /\ ~released[a]}

Settled == {a \in Attempts : state[a] = "settled"}

\* The units of row r that the attempts of S hold, as a set.
UnitsOf(S, r) == UNION {{a} \X (1..held[a][r]) : a \in S}

RunMaintenance ==
  \E B, P \in SUBSET Attempts :
    LET pruned == {a \in P : updatedAt[a] > 0 /\ updatedAt[a] < now - AttemptRetention}
    IN /\ IsBatch(B, Expired, deadline)
       /\ IsBatch(P, Settled, updatedAt)
       /\ \A r \in Rows : r.kind = "concurrency" => reserved[r] >= Cardinality(UnitsOf(B, r))
       /\ reserved' = [r \in Rows |-> IF r.kind = "concurrency"
                                      THEN reserved[r] - Cardinality(UnitsOf(B, r))
                                      ELSE reserved[r]]
       /\ held' = [a \in Attempts |-> IF a \in B
                     THEN [r \in Rows |-> IF r.kind = "concurrency" THEN 0 ELSE held[a][r]]
                     ELSE held[a]]
       /\ released' = [a \in Attempts |-> released[a] \/ a \in B]
       /\ state' = [a \in Attempts |-> IF a \in B THEN "outcome_unknown"
                                       ELSE IF a \in pruned THEN "pruned" ELSE state[a]]
       /\ version' = [a \in Attempts |-> IF a \in B THEN version[a] + 1 ELSE version[a]]
       /\ updatedAt' = [a \in Attempts |-> IF a \in B THEN now ELSE updatedAt[a]]
       /\ ledger' = {e \in ledger : e.kind # "charge" \/ e.at >= now - UsageRetention}
       /\ UNCHANGED <<now, cfg, policies, limits, planned, deadline, plan, charged>>

Tick ==
  /\ now < MaxTime
  /\ now' = now + 1
  /\ UNCHANGED <<cfg, policies, limits, reserved, ledger>> /\ UNCHANGED attemptVars

-----------------------------------------------------------------------------
Outcomes == {"settled", "outcome_unknown", "not_executed", "job_pending"}
NoUsage == [total |-> Unknown, priced |-> Unknown]

Next ==
  \/ \E p \in Policies : \E d \in PolicyData[p] \cup {NoPolicy} : MutatePolicy(p, d)
  \/ \E a \in Attempts :
       \/ PlanAttempt(a)
       \/ BeginAttempt(a)
       \/ MarkAccepted(a)
       \/ \E o \in Outcomes, u \in Usages : FinalizeAttempt(a, o, u)
       \/ \E id \in ReconIds, b \in Attempts, u \in Usages, c \in ReconCosts \cup {Unknown} :
            /\ u # NoUsage \/ c # Unknown
            /\ u.priced >= 0 => u.total # Unknown
            /\ Reconcile(id, a, version[b], "provider_evidence", u, c)
       \/ \E id \in ReconIds, b \in Attempts :
            Reconcile(id, a, version[b], "charge_reserved_maximum", NoUsage, Unknown)
  \/ RunMaintenance
  \/ Tick

Spec == Init /\ [][Next]_vars

\* main.go runs RunMaintenance every minute for as long as the process lives
\* (and once before it serves), and the database clock advances.
FairSpec == Spec /\ WF_vars(RunMaintenance) /\ WF_vars(Tick)

-----------------------------------------------------------------------------
(* Properties *)

\* The shared counter of a row is the sum of what the attempts hold of it,
\* whatever the order in which attempts are begun, settled, swept and pruned.
\* (adjustHoldMode: "clamping to zero could erase another attempt's
\* reservation"; a counter that is too low refuses a settlement for ever.)
Conservation == \A r \in Rows : reserved[r] = Cardinality(UnitsOf(Attempts, r))

\* The part of a cost row an attempt holds is its recorded charge; before
\* there is one, the maximum it was admitted with. An unknown outcome keeps
\* the reservation rather than inventing a charge, a settled attempt is never
\* without one, and an attempt that was not executed holds nothing
\* (FinalizeAttempt, Reconcile).
CostHold(a) ==
  IF state[a] \in {"absent", "not_executed"} THEN 0
  ELSE IF charged[a] # Unknown THEN charged[a] ELSE MaximumCost[a]
CostHoldIsExact ==
  \A a \in Attempts, r \in Rows :
     r.kind = "cost" /\ plan[a][r] > 0 =>
        /\ held[a][r] = plan[a][r] * CostHold(a)
        /\ state[a] \in {"settled", "pruned"} => charged[a] # Unknown

\* Concurrency and job slots do not outlive the work: a settled attempt holds
\* neither, an acknowledged job no concurrency, an attempt that was not
\* executed nothing at all.
SlotsFollowState ==
  \A a \in Attempts, r \in Rows :
     held[a][r] > 0 =>
        /\ state[a] \notin {"absent", "not_executed"}
        /\ state[a] \in {"settled", "pruned"} => r.kind \notin {"concurrency", "jobs"}
        /\ state[a] = "job_pending" => r.kind # "concurrency"

\* The ledger effects of an attempt add up to the charge on its row, however
\* often it is reconciled, until retention removes the first of them.
LedgerMatchesCharge ==
  \A a \in Attempts :
     now - UsageRetention <= deadline[a] - Timeout =>
        MapThenSumSet(LAMBDA e : e.amount, {e \in ledger : e.attempt = a})
          = IF charged[a] = Unknown THEN 0 ELSE charged[a]

\* Every configured dimension of a policy resource has a row that admission
\* enforces, through every window that has passed since it was written.
EveryPolicyEnforced ==
  \A p \in Policies, k \in Kinds :
     policies[p].maximum[k] > 0 =>
        \E r \in Rows : /\ r.scope = policies[p].scope
                        /\ r.kind = k
                        /\ limits[r] = policies[p].maximum[k]

\* A counter rises past its limit only because a settlement records what was
\* really spent (adjustIncurredHold), never because an attempt was admitted.
OverrunOnlyIncurred ==
  [][\A r \in Rows : reserved'[r] > reserved[r] /\ reserved'[r] > limits'[r] =>
        /\ r.kind \in {"tokens", "cost"}
        /\ \A a \in Attempts : state[a] = "absent" => state'[a] = "absent"]_vars

\* Admission keeps the promise of Billing: an attempt ends once, a late or
\* repeated report never replaces the outcome or the charge it ended with,
\* and only an unknown outcome is corrected, by an operator.
Phase(a) ==
  CASE state[a] = "absent" -> "idle"
    [] state[a] \in {"dispatch_intent", "accepted", "job_pending"} -> "open"
    [] state[a] = "not_executed" -> "void"
    [] state[a] = "outcome_unknown" -> "unknown"
    [] OTHER -> "closed"
PhaseOf == [a \in Attempts |-> Phase(a)]
Bill == INSTANCE Billing WITH NoBill <- Unknown, phase <- PhaseOf, bill <- charged
BillingHolds == Bill!Spec

\* Every concurrency slot is given back: by settlement, or by maintenance once
\* the deadline and the cancellation grace of a lost attempt have passed.
ConcurrencyIsReturned ==
  \A a \in Attempts :
     (\E r \in Rows : r.kind = "concurrency" /\ held[a][r] > 0)
       ~> (\A r \in Rows : r.kind = "concurrency" => held[a][r] = 0)

\* A plan names an allowance row once (policy.ValidateAttempt calls a second
\* entry for the same row an error, "duplicate allowance").
NoDuplicateAllowance == \A a \in Attempts, r \in Rows : plan[a][r] <= 1
=============================================================================
