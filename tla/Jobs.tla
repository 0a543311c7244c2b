-------------------------------- MODULE Jobs --------------------------------
(***************************************************************************)
(* Provider-native asynchronous jobs: the request handler that stores a    *)
(* job and hands the attempt over to it, the resource reconcilers (one per *)
(* gateway process) that claim, poll and settle stored jobs under a lease  *)
(* and a fence, the operator's job actions, and the maintenance sweep.     *)
(* Every store call is one transaction; a handler is as many actions as it *)
(* makes store or provider calls, so leases expire and processes die       *)
(* between any two of them.                                                *)
(***************************************************************************)
EXTENDS Integers, Sequences, FiniteSets

CONSTANTS
  Jobs,          \* jobs, numbered in durable_records key order from 1
  Workers,       \* gateway processes running RunResourceReconciler
  Admin,         \* the operator, as a lease owner
  AdminActions,  \* job actions the operator uses, among "result" and "cancel"
  Terminal,      \* statuses the provider's policy declares terminal
  Evidenced,     \* jobs whose final status carries the usage their holds need
  LeaseTicks,    \* how long a lease lasts
  PollTicks,     \* how long after a poll the next one is due
  ScanBudget,    \* rows one claim pass reads
  Pauses,        \* whether a process may be suspended in the middle of a pass
  MaxCrashes     \* bound on crashes and failed store calls of the reconcilers

\* ClaimJobs never picks these up again, unless settlement is still pending.
Skipped == {"settled", "completed", "failed", "cancelled"}
\* isTerminalJobStatus: what the operator's cancel takes for a final status.
Final == {"complete", "completed", "succeeded", "failed", "expired", "cancelled"}

ASSUME JobsAssumption ==
  /\ Jobs \subseteq Nat \ {0}
  /\ Admin \notin Workers
  /\ AdminActions \subseteq {"result", "cancel"}
  /\ Terminal # {} /\ Terminal \cap {"running", "outcome_unknown"} = {}
  /\ Evidenced \subseteq Jobs
  /\ LeaseTicks \in Nat \ {0} /\ PollTicks \in Nat \ {0} /\ ScanBudget \in Nat \ {0}
  /\ Pauses \in BOOLEAN /\ MaxCrashes \in Nat

Owners == Workers \cup {Admin}
\* A fence is only compared for equality: a number nobody holds stands for
\* the next one. Each owner holds at most one.
Fences == 1..(Cardinality(Owners) + 1)
Statuses == {"running", "outcome_unknown"} \cup Terminal \cup Final
Zero == -1                 \* the zero NextPoll, earlier than any time
Nobody == "nobody"

Rows == [status : Statuses, pending : BOOLEAN, next : Zero..PollTicks,
         owner : Owners \cup {Nobody}, lease : 0..LeaseTicks, fence : {0} \cup Fences]
NoRow == [status |-> "none", pending |-> FALSE, next |-> Zero,
          owner |-> Nobody, lease |-> 0, fence |-> 0]

VARIABLES
  provider,  \* the status of the job at the provider
  creator,   \* how far the request handler that created the job has come
  attempt,   \* the state of the job's attempt in the admission store
  row,       \* the durable resource_job record (next and lease: ticks to go)
  queue,     \* stored jobs by (NextPoll, UpdatedAt)
  cursor,    \* jobCursors: the last row the process read, 0 after a start
  passed,    \* workers that made a claim pass since the last tick
  proc,      \* what each worker and the operator are doing, and their copy
  crashes    \* crashes so far

vars == <<provider, creator, attempt, row, queue, cursor, passed, proc, crashes>>
Idle == [phase |-> "idle", job |-> 0, copy |-> NoRow]
Live == {"dispatch_intent", "accepted"}

TypeOK ==
  /\ provider \in [Jobs -> {"running"} \cup Terminal \cup {"cancelled"}]
  /\ creator \in [Jobs -> {"dispatched", "accepted", "stored", "failed", "done"}]
  /\ attempt \in [Jobs -> Live \cup {"job_pending", "settled", "outcome_unknown"}]
  /\ row \in [Jobs -> Rows \cup {NoRow}]
  /\ queue \in Seq(Jobs) /\ {queue[i] : i \in DOMAIN queue} = {j \in Jobs : row[j] # NoRow}
  /\ Len(queue) <= Cardinality(Jobs)
  /\ cursor \in [Workers -> {0} \cup Jobs]
  /\ passed \subseteq Workers
  /\ crashes \in 0..MaxCrashes
  /\ \A o \in Owners :
       /\ proc[o].phase \in {"idle", "claimed", "polled", "settling", "closing", "answered"}
       /\ proc[o].phase # "idle" => proc[o].job \in Jobs /\ proc[o].copy \in Rows

Init ==
  /\ provider = [j \in Jobs |-> "running"]
  /\ creator = [j \in Jobs |-> "dispatched"]
  /\ attempt = [j \in Jobs |-> "dispatch_intent"]
  /\ row = [j \in Jobs |-> NoRow]
  /\ queue = <<>>
  /\ cursor = [w \in Workers |-> 0]
  /\ passed = {}
  /\ proc = [o \in Owners |-> Idle]
  /\ crashes = 0

-----------------------------------------------------------------------------
(* The store *)

\* Writing a row updates it: among rows with a zero NextPoll it becomes the
\* last, any other row keeps its place in the order of polls.
Write(j, r) ==
  LET rest == SelectSeq(queue, LAMBDA i : i # j)
  IN /\ row' = [row EXCEPT ![j] = r]
     /\ queue' = IF r.next # Zero THEN queue
                 ELSE SelectSeq(rest, LAMBDA i : row[i].next = Zero) \o <<j>>
                        \o SelectSeq(rest, LAMBDA i : row[i].next # Zero)

\* (Mutant: the row is put in its new place and left in its old one.)
WriteNextPollTwice(j, r) ==
  /\ row' = [row EXCEPT ![j] = [r EXCEPT !.next = PollTicks]]
  /\ queue' = Append(queue, j)

\* Writing it with a new NextPoll makes its next poll the last of all.
WriteNextPoll(j, r) ==
  /\ row' = [row EXCEPT ![j] = [r EXCEPT !.next = PollTicks]]
  /\ queue' = Append(SelectSeq(queue, LAMBDA i : i # j), j)

\* (Mutant: a write is not checked against the lease it was made under.)
UpdatableAny(j, o, copy) == TRUE
\* UpdateJob lets only the holder of a lease that is alive write.
Updatable(j, o, copy) ==
  row[j].owner = o /\ row[j].fence = copy.fence /\ row[j].lease > 0

Released(r) == [r EXCEPT !.owner = Nobody, !.lease = 0]

\* What FinalizeAttempt makes of outcome o for an attempt in state s; FALSE
\* stands for the error attempt_already_settled.
Finalizes(j, s, o) ==
  \/ s \in Live
  \/ s = o
  \/ s = "job_pending" /\ o \in {"settled", "outcome_unknown"}
FinalState(j, s, o) ==
  IF s = o THEN s
  ELSE IF o = "settled" /\ j \notin Evidenced THEN "outcome_unknown" ELSE o

\* A fence for a new claim of j: no copy of the row still carries it.
NextFence(j) ==
  CHOOSE f \in Fences : /\ f # row[j].fence
                        /\ \A o \in Owners : proc[o].job = j => proc[o].copy.fence # f

Leased(j, o) == [row[j] EXCEPT !.owner = o, !.lease = LeaseTicks, !.fence = NextFence(j)]

-----------------------------------------------------------------------------
(* The request handler *)

handlerOnly == UNCHANGED <<cursor, passed, proc, crashes>>

\* client.Do fails after the request went out: recordUnknownNative.
LoseResponse(j) ==
  /\ creator[j] = "dispatched"
  /\ Write(j, [NoRow EXCEPT !.status = "outcome_unknown"])
  /\ creator' = [creator EXCEPT ![j] = "failed"]
  /\ UNCHANGED <<provider, attempt>> /\ handlerOnly

MarkAccepted(j) ==
  /\ creator[j] = "dispatched"
  /\ attempt[j] = "dispatch_intent"
  /\ attempt' = [attempt EXCEPT ![j] = "accepted"]
  /\ creator' = [creator EXCEPT ![j] = "accepted"]
  /\ UNCHANGED <<provider, row, queue>> /\ handlerOnly

nativeTerminal(status) == status \in Terminal

\* (Mutant: a response that is already final is not left to be settled.)
PutJobEnded(j) ==
  /\ creator[j] = "accepted"
  /\ WriteNextPoll(j, [NoRow EXCEPT !.status = provider[j]])
  /\ creator' = [creator EXCEPT ![j] = "stored"]
  /\ UNCHANGED <<provider, attempt>> /\ handlerOnly

\* prepareNativeResponse stores the job with the status of the response.
PutJob(j) ==
  /\ creator[j] = "accepted"
  /\ WriteNextPoll(j, [NoRow EXCEPT !.status = provider[j], !.pending = nativeTerminal(provider[j])])
  /\ creator' = [creator EXCEPT ![j] = "stored"]
  /\ UNCHANGED <<provider, attempt>> /\ handlerOnly

\* ... and hands the attempt over: FinalizeAttempt with job_pending.
TransferOwnership(j) ==
  /\ creator[j] = "stored"
  /\ IF Finalizes(j, attempt[j], "job_pending")
     THEN /\ attempt' = [attempt EXCEPT ![j] = "job_pending"]
          /\ creator' = [creator EXCEPT ![j] = "done"]
     ELSE creator' = [creator EXCEPT ![j] = "failed"] /\ UNCHANGED attempt
  /\ UNCHANGED <<provider, row, queue>> /\ handlerOnly

\* A store call of the handler fails without effect.
HandlerFails(j) ==
  /\ creator[j] \in {"dispatched", "accepted", "stored"}
  /\ creator' = [creator EXCEPT ![j] = "failed"]
  /\ UNCHANGED <<provider, attempt, row, queue>> /\ handlerOnly

\* The deferred finalize: outcome_unknown, retried for a while and given up.
FinalizeUnknown(j) ==
  /\ creator[j] = "failed"
  /\ attempt' = [attempt EXCEPT ![j] = IF Finalizes(j, @, "outcome_unknown")
                                       THEN "outcome_unknown" ELSE @]
  /\ creator' = [creator EXCEPT ![j] = "done"]
  /\ UNCHANGED <<provider, row, queue>> /\ handlerOnly

HandlerDies(j) ==
  /\ creator[j] # "done"
  /\ creator' = [creator EXCEPT ![j] = "done"]
  /\ UNCHANGED <<provider, attempt, row, queue>> /\ handlerOnly

\* RunMaintenance, once the deadline and the cancellation grace have passed.
\* (The grace outlasts the handler's detached calls.)
Sweep(j) ==
  /\ creator[j] = "done"
  /\ attempt[j] \in Live
  /\ attempt' = [attempt EXCEPT ![j] = "outcome_unknown"]
  /\ UNCHANGED <<provider, creator, row, queue>> /\ handlerOnly

Progress(j) ==
  /\ provider[j] = "running"
  /\ \E s \in Terminal : provider' = [provider EXCEPT ![j] = s]
  /\ UNCHANGED <<creator, attempt, row, queue>> /\ handlerOnly

-----------------------------------------------------------------------------
(* The reconcilers *)

Stored == {j \in Jobs : row[j] # NoRow}
\* (Mutant: the row right after the cursor is left out.)
ScanSkips(c, n) == {j \in Stored : j > c + 1 /\ Cardinality({i \in Stored : c + 1 < i /\ i < j}) < n}
\* The first n stored rows after key c.
Scan(c, n) == {j \in Stored : j > c /\ Cardinality({i \in Stored : c < i /\ i < j}) < n}

Eligible(j) ==
  /\ row[j].status # "outcome_unknown"
  /\ row[j].status \in Skipped => row[j].pending
  /\ row[j].next <= 0
  /\ row[j].lease = 0

\* One pass: read ScanBudget rows from the cursor on, wrapping round to the
\* first, and lease the eligible one whose poll has been due longest.
ClaimJobs(w) ==
  LET ahead   == Scan(cursor[w], ScanBudget)
      wraps   == Cardinality(ahead) < ScanBudget /\ cursor[w] # 0
      wrapped == IF wraps THEN Scan(0, ScanBudget - Cardinality(ahead)) ELSE {}
      read    == IF wrapped # {} THEN wrapped ELSE ahead
      found   == {j \in ahead \cup wrapped : Eligible(j)}
  IN /\ proc[w].phase = "idle"
     /\ w \notin passed
     /\ passed' = passed \cup {w}
     /\ cursor' = [cursor EXCEPT ![w] =
                     IF read = {} THEN @ ELSE CHOOSE j \in read : \A i \in read : i <= j]
     /\ IF found = {} THEN UNCHANGED <<row, queue, proc>>
        ELSE LET j == SelectSeq(queue, LAMBDA i : i \in found)[1]
             IN /\ Write(j, Leased(j, w))
                /\ proc' = [proc EXCEPT ![w] =
                     [phase |-> IF row[j].pending THEN "settling" ELSE "claimed",
                      job |-> j, copy |-> Leased(j, w)]]
     /\ UNCHANGED <<provider, creator, attempt, crashes>>

workerOnly == UNCHANGED <<provider, creator, cursor, passed, crashes>>
Finish(o) == proc' = [proc EXCEPT ![o] = Idle]

\* The answer of the provider, on its way to the store.
Poll(w, j) ==
  /\ proc[w].phase = "claimed" /\ proc[w].job = j
  /\ proc' = [proc EXCEPT ![w].phase = "polled",
                           ![w].copy.status = provider[j],
                           ![w].copy.pending = nativeTerminal(provider[j])]
  /\ UNCHANGED <<attempt, row, queue>> /\ workerOnly

\* No usable answer: the pass ends, and the lease runs out by itself.
PollFails(w, j) ==
  /\ proc[w].phase = "claimed" /\ proc[w].job = j
  /\ Finish(w)
  /\ UNCHANGED <<attempt, row, queue>> /\ workerOnly

\* (Mutant: a final status is settled before it is stored.)
StoreStatusLater(w, j) ==
  LET copy == proc[w].copy
  IN /\ proc[w].phase = "polled" /\ proc[w].job = j
     /\ IF copy.pending
        THEN proc' = [proc EXCEPT ![w].phase = "settling"] /\ UNCHANGED <<row, queue>>
        ELSE WriteNextPoll(j, Released(copy)) /\ Finish(w)
     /\ UNCHANGED attempt /\ workerOnly

\* A final status is stored before anything is settled; any other status
\* ends the pass, gives the lease back and sets the next poll.
StoreStatus(w, j) ==
  LET copy == proc[w].copy
  IN /\ proc[w].phase = "polled" /\ proc[w].job = j
     /\ IF ~Updatable(j, w, copy) THEN Finish(w) /\ UNCHANGED <<row, queue>>
        ELSE IF copy.pending
             THEN /\ Write(j, [copy EXCEPT !.lease = row[j].lease, !.next = row[j].next])
                  /\ proc' = [proc EXCEPT ![w].phase = "settling"]
             ELSE /\ WriteNextPoll(j, Released(copy))
                  /\ Finish(w)
     /\ UNCHANGED attempt /\ workerOnly

\* settleNativeJob up to FinalizeAttempt. (The copy of the lease is alive
\* exactly while the row is still leased under it.)
Settle(w, j) ==
  /\ proc[w].phase = "settling" /\ proc[w].job = j
  /\ IF Updatable(j, w, proc[w].copy) /\ Finalizes(j, attempt[j], "settled")
     THEN /\ attempt' = [attempt EXCEPT ![j] = FinalState(j, @, "settled")]
          /\ proc' = [proc EXCEPT ![w].phase = "closing"]
     ELSE Finish(w) /\ UNCHANGED attempt
  /\ UNCHANGED <<row, queue>> /\ workerOnly

\* ... and the UpdateJob after it.
Close(w, j) ==
  /\ proc[w].phase = "closing" /\ proc[w].job = j
  /\ IF Updatable(j, w, proc[w].copy)
     THEN Write(j, [Released(proc[w].copy) EXCEPT !.pending = FALSE, !.next = Zero])
     ELSE UNCHANGED <<row, queue>>
  /\ Finish(w)
  /\ UNCHANGED attempt /\ workerOnly

\* The process dies and is started again, or a store call of its pass fails.
Crash(w) ==
  /\ crashes < MaxCrashes
  /\ crashes' = crashes + 1
  /\ proc[w].phase # "idle"
  /\ Finish(w)
  /\ \E c \in {0, cursor[w]} : cursor' = [cursor EXCEPT ![w] = c]
  /\ UNCHANGED <<provider, creator, attempt, row, queue, passed>>

\* Time: an idle reconciler makes a pass every tick. The calls of a pass time
\* out well before its lease, so that only a process that is suspended finds
\* its lease expired.
Tick ==
  /\ \A w \in Workers : IF proc[w].phase = "idle" THEN w \in passed ELSE Pauses
  /\ passed' = {}
  /\ row' = [j \in Jobs |-> [row[j] EXCEPT !.lease = IF @ > 0 THEN @ - 1 ELSE @,
                                           !.next = IF @ > 0 THEN @ - 1 ELSE @]]
  /\ UNCHANGED <<provider, creator, attempt, queue, cursor, proc, crashes>>

-----------------------------------------------------------------------------
(* The operator's job actions *)

\* ClaimJobAction: any stored job whose lease is not alive. (The version the
\* operator read is checked in the transaction that writes.)
ClaimJobAction(j) ==
  /\ AdminActions # {}
  /\ proc[Admin].phase = "idle"
  /\ j \in Stored
  /\ row[j].lease = 0
  /\ Write(j, Leased(j, Admin))
  /\ proc' = [proc EXCEPT ![Admin] = [phase |-> "claimed", job |-> j, copy |-> Leased(j, Admin)]]
  /\ UNCHANGED attempt /\ workerOnly

\* A result was fetched, or the call failed: the status stays as it was.
KeepStatus ==
  /\ proc[Admin].phase = "claimed"
  /\ proc' = [proc EXCEPT ![Admin].phase = "answered"]
  /\ UNCHANGED <<attempt, row, queue>> /\ workerOnly

\* cancellationJobStatus: a final status stays, else the provider's answer.
Cancelled(copy, answer) == IF copy.status \in Final THEN copy.status ELSE answer

\* The provider cancels the job if it still runs; its answer carries the status
\* of the job, or none, or is lost. (It knows no job under the identity
\* recordUnknownNative makes up.)
CancelJob ==
  LET j == proc[Admin].job
      copy == proc[Admin].copy
  IN /\ "cancel" \in AdminActions
     /\ proc[Admin].phase = "claimed"
     /\ copy.status # "outcome_unknown"
     /\ provider' = [provider EXCEPT ![j] = IF @ = "running" THEN "cancelled" ELSE @]
     /\ \E answer \in {copy.status, provider'[j]} :
          proc' = [proc EXCEPT ![Admin].phase = "answered",
                               ![Admin].copy.status = Cancelled(copy, answer)]
     /\ UNCHANGED <<creator, attempt, row, queue, cursor, passed, crashes>>

\* The operator's request ends before the job is released.
AbandonJob ==
  /\ proc[Admin].phase # "idle"
  /\ Finish(Admin)
  /\ UNCHANGED <<attempt, row, queue>> /\ workerOnly

ReleaseJob ==
  LET j == proc[Admin].job
      copy == proc[Admin].copy
  IN /\ proc[Admin].phase = "answered"
     /\ IF Updatable(j, Admin, copy)
        THEN Write(j, [Released(copy) EXCEPT !.next = row[j].next])
        ELSE UNCHANGED <<row, queue>>
     /\ Finish(Admin)
     /\ UNCHANGED attempt /\ workerOnly

-----------------------------------------------------------------------------
Next ==
  \/ \E j \in Jobs :
       \/ LoseResponse(j) \/ MarkAccepted(j) \/ PutJob(j) \/ TransferOwnership(j)
       \/ HandlerFails(j) \/ FinalizeUnknown(j) \/ HandlerDies(j)
       \/ Sweep(j) \/ Progress(j) \/ ClaimJobAction(j)
  \/ \E w \in Workers :
       \/ ClaimJobs(w) \/ Crash(w)
       \/ \E j \in Jobs : \/ Poll(w, j) \/ PollFails(w, j) \/ StoreStatus(w, j)
                          \/ Settle(w, j) \/ Close(w, j)
  \/ KeepStatus \/ CancelJob \/ AbandonJob \/ ReleaseJob
  \/ Tick

Spec == Init /\ [][Next]_vars

\* RunResourceReconciler loops for as long as a process lives, a crashed
\* process is started again, time passes, and a pass whose calls return goes
\* on. Polls of a job may fail again and again, but not for ever.
FairSpec ==
  /\ Spec
  /\ WF_vars(Tick)
  /\ \A w \in Workers :
       /\ WF_vars(ClaimJobs(w))
       /\ WF_vars(\E j \in Jobs : StoreStatus(w, j) \/ Settle(w, j) \/ Close(w, j))
       /\ \A j \in Jobs : SF_vars(Poll(w, j))

-----------------------------------------------------------------------------
(* Properties *)

\* An attempt that was handed over to its job has a stored job that some
\* reconciler will claim: nothing else ends it, the sweep passes it by.
HandedOverIsClaimable ==
  \A j \in Jobs :
     attempt[j] = "job_pending" =>
        /\ row[j] # NoRow
        /\ row[j].status # "outcome_unknown"
        /\ row[j].status \in Skipped => row[j].pending

\* Stored terminal evidence outlives crashes, expired leases and writers that
\* come too late ("Persist terminal evidence while keeping SQL settlement
\* claimable across a crash"): the status stays, and settlement stays pending
\* until the attempt has ended.
EvidenceIsKept ==
  [][\A j \in Jobs : row[j].pending =>
        /\ row'[j].status = row[j].status
        /\ row'[j].pending \/ attempt[j] \in {"settled", "outcome_unknown"}]_vars

\* An attempt is settled on the final status the provider really reached.
SettledOnEvidence ==
  \A j \in Jobs : attempt[j] = "settled" =>
     provider[j] \in Terminal /\ row[j].status = provider[j]

\* A job that was handed over and has ended at the provider is settled.
HandedOverIsSettled ==
  \A j \in Jobs :
     attempt[j] = "job_pending" /\ provider[j] \in Terminal ~> attempt[j] # "job_pending"
=============================================================================
