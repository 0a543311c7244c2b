# A TLA+ model of the Hoorific gateway

Hoorific is a model gateway: it authenticates a client request, picks a
provider, limits and accounts for what the request may spend, forwards it, and
settles what it did spend. Several gateway processes share one SQL store. The
correctness questions that matter are about that store: several processes,
reconcilers, operators and the maintenance ticker act on the same rows, any of
them may die between two calls, and money and capacity must be neither lost
nor invented.

This directory holds TLA+ modules translated from the Go source, TLC
configurations that check them on small instances, and TLAPS proofs.
`PROJECT.json` lists components, runs, mutants, the map from definitions to
source lines, findings, hazards and theorems.

## The system

| Part | Source | State | Operations | Module |
|---|---|---|---|---|
| Admission | `store/admission.go`, `store/governance_maintenance.go` | `attempts`, `allowances`, `usage_ledger` | BeginAttempt, MarkAccepted, FinalizeAttempt, RunMaintenance | `Admission`, `Billing` |
| Limits and windows | `store/policy_sync.go`, `store/policy_plan.go`, `policy/policy.go` | `policy_limits` rows, `config_state.revision` | syncPolicyLimit, planning, resolveAllowances | `Admission` |
| Operator reconciliation | `store/actions.go` | the attempt, the ledger | Reconcile | `Admission` |
| Native jobs | `store/resource_jobs.go`, `store/job_actions.go`, `gateway/native.go`, `gateway/native_reconcile.go`, `app/action_operations.go` | `durable_records` of kind resource_job, leases, fences, cursors | PutJob, ClaimJobs, UpdateJob, FinalizeAttempt, job actions | `Jobs` |
| Request dispatch | `gateway/gateway.go`, `gateway/lifecycle.go` | one goroutine per request | the retry loop, one attempt | `Dispatch` |
| Idempotency keys | `store/idempotency.go`, `gateway/idempotency.go` | `idempotency_records` | Begin, Replay, Finish, Discard, expiry, cleanup | `Dispatch` |
| Credential refresh, OAuth logins | `credential/*.go`, `store/auxiliary.go` | the refresh intent and its lease, versions | Lease, Join, BeginRefresh, CommitRefresh, FailRefresh, Put, Rewrap | `Refresh`; logins planned |
| Configuration, snapshots | `store/resources.go`, `store/snapshots.go`, `app/runtime_state.go` | versions, revision, the snapshot each process serves from | Mutate, ApplyConfig, reload | planned |
| Hints and routing | `coord/*.go`, `routing/routing.go` | health and affinity hints with a TTL | observe, merge, pick | planned |
| Realtime | `realtime/*.go`, `store/realtime.go` | tickets, sessions | issue, consume, relay, close | planned |
| Bodies and transport | `gateway/body*.go`, `transport/*.go` | the shared byte budget, pools | acquire, release, relay | planned |
| Protocol codecs | `protocol/*` | the state of a stream decoder | one event | planned, in part |

The parts that change no state of their own (telemetry, the catalog, provider
tables, encryption) are listed in `PROJECT.json` with the reason they are left
out.

How they interact: `Dispatch` drives an attempt through the states that
`Admission` keeps for it; a native response hands the attempt to a job, and
from then on only `Jobs` may end it; the sweep of `Admission` ends what a dead
process left, except attempts handed to a job. All of them reach the store
through `Store.WithTx`.

## Modelling decisions

* **A store call is one action.** `WithTx` runs each call as one serialised
  transaction. A call that returns an error writes nothing, so it is a step
  that is not taken. Code between two store or provider calls is part of the
  action before it; a process may die, be suspended or lose its lease between
  any two actions.
* **Time.** `Admission` has a bounded database clock, because windows,
  deadlines and retention compare absolute times. `Jobs` counts leases and
  polls as ticks to go, which keeps the state space finite without a bound on
  time. `Dispatch` needs only whether a response has expired.
* **Data.** A usage report is the pair (total tokens, priced tokens), each
  possibly unknown, the second possibly invalid. A plan is the number of
  entries that name each allowance row. A response is one of five kinds.
* **Undefined order.** `resolveAllowances` inserts the row of a new window
  while a query over the same table is open. Whether SQLite's cursor returns
  that row is not defined; the constant `CursorSees` allows both.

## Modules

`Admission.tla` models one row per attempt, the counters, the ledger, the
limits of every window, planning, admission, settlement, reconciliation and
maintenance. `held[a][r]` is what attempt `a` has of row `r`, summed over the
entries of its plan that name `r`.

`Billing.tla` is the abstract contract of an attempt's outcome and price:
opened once, ended once, billed only at its end, corrected only while the
outcome is unknown. `Admission!Bill` is the refinement mapping.

`Jobs.tla` models the creating handler (accept, store the job, hand over), one
reconciler per process (claim, poll, store the status, settle, close), the
operator's result and cancel actions, the sweep, and the provider. Fences are
compared only for equality, so the number nobody holds stands for the next
one. A crash also stands for a failed store call, after which the process goes
on with its cursor kept or lost.

`Dispatch.tla` models the requests that carry one idempotency key: the claim,
the loop over candidates, stale plans and replanning, every way an attempt can
end, the phase each leaves, and what `Finish` makes of the claim. `Endings` is
what may happen after the provider has answered; the endings in `Unmarked` are
those after which `attempt` returns without marking a phase.

`Refresh.tla` models the OAuth credential of one connection: the stored record
and its refresh intent, requests that lease it, refresh it, or join the refresh
their process runs, the provider, and the operator who replaces, revokes or
rewraps the record. `at[r]` holds the locals of a request; its result is also
the `refreshCall` it leads. An operator's import brings a token of its own; the
provider may replace a refresh token or let it stand.

`MCAdmission`, `MCJobs`, `MCDispatch` and `MCRefresh` give the constants values.
`AdmissionProofs` holds the theorems.

## Runs

| Run | Shows | Instance |
|---|---|---|
| `settle` | Conservation of counters, slots that follow the state, exact cost holds, a ledger that adds up to the charge, no overrun by admission, and the refinement of `Billing` | two attempts, one policy with tokens, concurrency, jobs and cost; complete, partial, invalid and missing evidence; one reconciliation |
| `windows` | Conservation, every configured limit enforced, no overrun, through window changes | two attempts, two policies with scopes of their own, three configuration changes, both cursor behaviours; attempts end only through the sweep |
| `slots` | Every concurrency slot comes back (liveness) | two attempts that race for one slot, all outcomes, deaths |
| `fenced` | Terminal evidence is never overwritten; an attempt is settled only on the status the provider reached | two reconcilers that may be suspended, and an operator, on one job |
| `settles` | A handed-over job stays claimable, and is settled once it has ended (liveness) | two jobs, a scan budget of one row, failing polls, one crash |
| `once` | One dispatch per key, no blind retry, faithful replay, complete means known, tombstones stay, every request ends (liveness) | three requests, one of them with another fingerprint; every ending that marks a phase |
| `refresh` | No spent token stays usable, no token is sent again in doubt, a late refresh overwrites nothing, shared results are stored ones, every request is answered (liveness) | two requests of one process and one of another, three versions and tokens, lost answers, deaths, lapsed leases, an operator |
| `duplicate`, `starve`, `cancel`, `freed` | What the code does differs from what it says; see below | the smallest instance that shows it |

Every property of a passing run has a mutant, a plausible bug in the
definition it names, that makes TLC report that property.

**Bounds.** Two attempts are enough for contention: every guard of admission
and settlement compares one attempt with the sum of the others. The clock runs
far enough for two windows of the shortest kind, a deadline, the grace and
retention. `Batch = 1` makes the sweep take several rounds. In `Jobs` a lease
of two ticks, polls of one, and one crash cover a lease that is lost during
each step. In `Dispatch` three requests allow a claimant, a competitor and a
third that comes after expiry. In `Refresh` three versions allow a refresh
that is overtaken by another write, and one that follows it. Only `once` and
`freed` turn the deadlock check off: there every request has ended.

In `windows` no attempt is finalized (`Usages = {}`), to keep windows and
configuration changes in reach; finalization is in `settle` and `slots`.

**Fairness.** `Admission!FairSpec` assumes that maintenance runs and that time
passes: `main.go` runs RunMaintenance every minute. `Jobs!FairSpec` assumes
that time passes, that a running process goes on with its pass
(`RunResourceReconciler` is a ticker loop), and, as strong fairness of `Poll`,
that the polls of a job do not fail for ever.
`Dispatch!FairSpec` assumes that a request's goroutine goes on; death ends it.
`Refresh!FairSpec` assumes the same; the provider's answer is bounded by the
30 s timeout of the HTTP client (`app/oauth_configured.go:88`). Nothing else is
assumed of operators, clients or providers.

## Proofs

`AdmissionProofs` proves for all values of the constants:

* `TypeCorrect`: `Spec => []TypeOK`;
* `ConservationHolds`: `Spec => []Conservation`, that is, a counter is always
  the sum of what attempts hold of its row.

Neither is inductive alone. `Conservation` needs to know that an attempt that
does not exist yet holds nothing, because `reserve` sets a hold rather than
adding to it. The invariant is `Accounts`: type correctness, that absent
attempts hold nothing, and that the units held of each row form a finite set
whose size is the counter. The proof has one step per action. The lemmas count
units: how the set changes when one attempt's hold is replaced
(`adjustHolds`, `reserve`) and when those of a batch are removed
(`RunMaintenance`). The only assumption is `ConstantsAssumption`; the
set of attempts may be infinite, since the units in use at any time are not.

Everything else is model-checked only. Liveness and `ENABLED` are out of the
prover's reach.

## Where the code differs from what it says

Four runs end in a violation; `PROJECT.json` quotes the lines.

* `duplicate`: once a window has passed, a plan names one allowance row twice,
  and the attempt is counted double. `ValidateAttempt` calls that an error, and
  BeginAttempt does not call it on the plan it derives.
* `starve`: a settled job whose final status is not in the list of ClaimJobs
  stays eligible and is always first.
* `cancel`: after an operator's cancel nothing settles the job's attempt.
* `freed`: a request that was replanned and then dispatched, and whose response
  cannot be adapted, frees its key.

The models show five more, without a run of their own:

* a request whose first attempt was not executed and whose fallback succeeds
  is counted by no requests/minute limit (`admission.go:143`);
* Reconcile does not give back the jobs slot (`actions.go:205`);
* two policy resources of one scope delete each other's rows
  (`policy_sync.go:23`); `windows` gives each policy its own scope;
* when a job's attempt was recorded as outcome_unknown, its pending settlement
  never closes (`native_reconcile.go:279`);
* after a rate-limited attempt, a fallback whose response cannot be adapted
  stores its error as a complete response (`gateway.go:934`).

## Plan

In order of importance:

1. Logins for `Refresh`: OAuth sessions and device flows, and an abstract
   specification of a credential as a versioned register.
2. `Config`: versioned mutations, the revision, processes that serve from a
   snapshot; monotonic snapshots, no mixture of revisions in one plan.
3. `Realtime` tickets and sessions; continuations.
4. `Hints` and routing; the body budget; transport.
5. Stream codecs as state machines; price arithmetic against a reference.
6. A composition of `Dispatch`, `Jobs` and `Admission` over one attempt.
7. Proofs: `SlotsFollowState`, `CostHoldIsExact`, `OverrunOnlyIncurred` and the
   refinement of `Billing` for `Admission`; `EvidenceIsKept` for `Jobs`;
   `SingleDispatch` for `Dispatch` when every ending marks a phase;
   `TokenIsNotReused` and `UsableIsValid` for `Refresh`.
