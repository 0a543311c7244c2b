------------------------------ MODULE Dispatch ------------------------------
(***************************************************************************)
(* Requests that carry the same Idempotency-Key: the claim of the key in   *)
(* the store, the retry loop of ServeHTTP and the steps of its attempts,   *)
(* the phase they leave for the end of the request, and what the end makes *)
(* of the claim. A request is served by one goroutine, as many actions as  *)
(* it makes calls to the store, the provider or the client, and may die at *)
(* any of them.                                                            *)
(***************************************************************************)
EXTENDS Integers, Sequences, FiniteSets

CONSTANTS
  Requests,      \* requests with the key, from one tenant and subject
  Fingerprint,   \* Fingerprint[r]: what the request asks for
  Fallback,      \* whether the route has a second candidate
  Endings        \* what may happen once the provider has answered

\* Endings after which attempt marks no phase: AdaptResponse fails, or a
\* relayed stream ends without an error and without a terminal event.
Unmarked == {"adapt_fails", "unterminated"}
Marked == {"native_fails", "job_stored", "undecodable", "truncated", "result_unwritten", "answered"}

ASSUME DispatchAssumption ==
  /\ Fingerprint \in [Requests -> {"a", "b"}]
  /\ Fallback \in BOOLEAN
  /\ Endings \subseteq Marked \cup Unmarked

Nobody == "nobody"
NoRow == [state |-> "none", owner |-> Nobody, fp |-> "a", response |-> "none", expired |-> FALSE]
Phases == {"", "not_dispatched", "terminal", "unknown"}
Responses == {"none", "error", "conflict", "result", "acknowledgement"}
AttemptStates == {"dispatch_intent", "accepted", "not_executed", "outcome_unknown", "settled", "job_pending"}

VARIABLES
  row,         \* the idempotency_records row of the key
  pc,          \* where the request is
  phase,       \* idempotencyState.phase
  replanned,   \* whether the request was planned again after a stale plan
  attempts,    \* the states of the request's attempts in the admission store
  sent,        \* what the client was sent
  whole,       \* whether all of it was written and captured
  dispatched,  \* (history) requests that were sent to a provider
  retired      \* (history) owners of complete responses that expired

vars == <<row, pc, phase, replanned, attempts, sent, whole, dispatched, retired>>
history == <<dispatched, retired>>

TypeOK ==
  /\ row = NoRow \/ row \in [state : {"pending", "complete", "unreplayable"}, owner : Requests,
                             fp : {"a", "b"}, response : Responses, expired : BOOLEAN]
  /\ pc \in [Requests -> {"new", "plan", "intent", "issued", "response", "finish", "done"}]
  /\ phase \in [Requests -> Phases]
  /\ replanned \in [Requests -> BOOLEAN]
  /\ \A r \in Requests : attempts[r] \in Seq(AttemptStates) /\ Len(attempts[r]) <= 2
  /\ sent \in [Requests -> Responses] /\ whole \in [Requests -> BOOLEAN]
  /\ dispatched \subseteq Requests /\ retired \subseteq Requests

Init ==
  /\ row = NoRow
  /\ pc = [r \in Requests |-> "new"]
  /\ phase = [r \in Requests |-> ""]
  /\ replanned = [r \in Requests |-> FALSE]
  /\ attempts = [r \in Requests |-> <<>>]
  /\ sent = [r \in Requests |-> "none"]
  /\ whole = [r \in Requests |-> TRUE]
  /\ dispatched = {} /\ retired = {}

-----------------------------------------------------------------------------
(* BeginIdempotency *)

goto(r, l) == pc' = [pc EXCEPT ![r] = l]
unserved == UNCHANGED <<phase, replanned, attempts>>
Retired == row.state = "complete" /\ row.expired

\* A key that is free, or whose complete response has expired, is claimed.
Claim(r) ==
  /\ pc[r] = "new"
  /\ row = NoRow \/ Retired
  /\ row' = [NoRow EXCEPT !.state = "pending", !.owner = r, !.fp = Fingerprint[r]]
  /\ retired' = IF Retired THEN retired \cup {row.owner} ELSE retired
  /\ goto(r, "plan")
  /\ unserved /\ UNCHANGED <<sent, whole, dispatched>>

\* A claim of somebody else, or with another request, is a conflict; so is a
\* response that can no longer be decrypted, which is dropped for good.
Conflict(r) ==
  /\ pc[r] = "new"
  /\ row # NoRow /\ ~Retired
  /\ \/ /\ row.fp # Fingerprint[r] \/ row.state # "complete"
        /\ UNCHANGED row
     \/ /\ row.fp = Fingerprint[r] /\ row.state = "complete"
        /\ row' = [row EXCEPT !.state = "unreplayable", !.response = "none"]
  /\ sent' = [sent EXCEPT ![r] = "conflict"]
  /\ goto(r, "done")
  /\ unserved /\ UNCHANGED <<whole, history>>

Replay(r) ==
  /\ pc[r] = "new"
  /\ row.state = "complete" /\ ~row.expired /\ row.fp = Fingerprint[r]
  /\ sent' = [sent EXCEPT ![r] = row.response]
  /\ goto(r, "done")
  /\ unserved /\ UNCHANGED <<row, whole, history>>

-----------------------------------------------------------------------------
(* The retry loop and the attempts *)

\* (Mutants of mark: the last phase wins; a terminal phase is never left.)
markLast(old, new) == new
markSticky(old, new) == IF old \in {"unknown", "terminal"} THEN old ELSE new
\* idempotencyState.mark: unknown stays, only terminal replaces another phase.
mark(old, new) ==
  IF old # "unknown" /\ (new \in {"unknown", "terminal"} \/ old = "") THEN new ELSE old

Mark(r, p) == phase' = [phase EXCEPT ![r] = mark(@, p)]
\* The deferred finalize of the attempt.
Finalize(r, s) == attempts' = [attempts EXCEPT ![r][Len(attempts[r])] = s]
\* Writing a response, which may fail on the way or be too large to capture.
Send(r, response) ==
  /\ sent' = [sent EXCEPT ![r] = response]
  /\ \E ok \in BOOLEAN : whole' = [whole EXCEPT ![r] = ok]
\* Leaving the loop with an error, which writeError sends.
Break(r) == goto(r, "finish") /\ Send(r, "error")

\* What is wrong with the request shows before it is planned: headers the
\* binding does not accept, or a body that cannot be translated.
Unplanned(r) ==
  /\ pc[r] = "plan"
  /\ Mark(r, "terminal") \/ UNCHANGED phase
  /\ Break(r)
  /\ UNCHANGED <<row, replanned, attempts, history>>

\* (Mutant: a stale plan is always made again.)
ReplanAlways(r) ==
  /\ pc[r] = "plan"
  /\ replanned' = [replanned EXCEPT ![r] = ~@]
  /\ Mark(r, "not_dispatched")
  /\ UNCHANGED <<row, pc, attempts, sent, whole, history>>
\* PlanAttempt or BeginAttempt finds the configuration stale: the request is
\* planned once more, with a new snapshot.
Replan(r) ==
  /\ pc[r] = "plan"
  /\ ~replanned[r]
  /\ replanned' = [replanned EXCEPT ![r] = TRUE]
  /\ Mark(r, "not_dispatched")
  /\ UNCHANGED <<row, pc, attempts, sent, whole, history>>

\* They refuse the attempt, or it is stale again.
PlanRefused(r) ==
  /\ pc[r] = "plan"
  /\ Mark(r, "not_dispatched")
  /\ Break(r)
  /\ UNCHANGED <<row, replanned, attempts, history>>

BeginAttempt(r) ==
  /\ pc[r] = "plan"
  /\ attempts' = [attempts EXCEPT ![r] = Append(@, "dispatch_intent")]
  /\ goto(r, "intent")
  /\ UNCHANGED <<row, phase, replanned, sent, whole, history>>

\* The context is over, or there is no credential: nothing was sent.
NotExecuted(r) ==
  /\ pc[r] = "intent"
  /\ Finalize(r, "not_executed")
  /\ Break(r)
  /\ UNCHANGED <<row, phase, replanned, history>>

Issue(r) ==
  /\ pc[r] = "intent"
  /\ dispatched' = dispatched \cup {r}
  /\ goto(r, "issued")
  /\ UNCHANGED <<row, phase, replanned, attempts, sent, whole, retired>>

\* (Mutant: an unknown outcome is tried again.)
FailsOver(r) ==
  /\ pc[r] = "issued"
  /\ Mark(r, "unknown")
  /\ Finalize(r, "outcome_unknown")
  /\ IF Fallback /\ Len(attempts[r]) < 2 THEN goto(r, "plan") /\ UNCHANGED <<sent, whole>> ELSE Break(r)
  /\ UNCHANGED <<row, replanned, history>>
\* No response, an error response, or an acceptance that cannot be stored.
Fails(r) ==
  /\ pc[r] = "issued"
  /\ Mark(r, "unknown")
  /\ Finalize(r, "outcome_unknown")
  /\ Break(r)
  /\ UNCHANGED <<row, replanned, history>>

\* (Mutant: no limit on the number of attempts.)
RetriesEver(r) == Fallback
\* The next candidate, if there is one and two attempts were not made yet.
Retries(r) == Fallback /\ Len(attempts[r]) < 2

\* 429, rejected without execution: the only outcome that is tried again. The
\* fallback may no longer be eligible in a fresh snapshot.
RateLimited(r) ==
  /\ pc[r] = "issued"
  /\ Mark(r, "terminal")
  /\ Finalize(r, "not_executed")
  /\ \/ Retries(r) /\ goto(r, "plan") /\ UNCHANGED <<sent, whole>>
     \/ Break(r)
  /\ UNCHANGED <<row, replanned, history>>

\* MarkAccepted, for a 2xx response.
Accepted(r) ==
  /\ pc[r] = "issued"
  /\ \E s \in {"dispatch_intent", "accepted"} : Finalize(r, s)
  /\ goto(r, "response")
  /\ UNCHANGED <<row, phase, replanned, sent, whole, history>>

-----------------------------------------------------------------------------
(* From the response of the provider to the response to the client *)

Ending(r, e) == pc[r] = "response" /\ e \in Endings /\ UNCHANGED <<row, replanned, history>>

\* AdaptResponse or prepareNativeResponse fails, a codec is missing, or the
\* result cannot be decoded or encoded.
Unusable(r) ==
  /\ \E e \in {"adapt_fails", "native_fails", "undecodable"} :
       /\ Ending(r, e)
       /\ IF e \in Unmarked THEN UNCHANGED phase ELSE Mark(r, "unknown")
  /\ Finalize(r, "outcome_unknown")
  /\ Break(r)

\* The job is stored and owns the attempt now; its acknowledgement is relayed.
JobStored(r) ==
  /\ Ending(r, "job_stored")
  /\ Finalize(r, "job_pending")
  /\ Send(r, "acknowledgement")
  /\ phase' = [phase EXCEPT ![r] = IF whole'[r] THEN mark(@, "terminal")
                                   ELSE mark(mark(@, "terminal"), "unknown")]
  /\ goto(r, "finish")

\* The stream of the provider or of the client breaks after some events, or
\* a relayed one ends without a terminal event.
Truncated(r) ==
  /\ \E e \in {"truncated", "unterminated"} :
       /\ Ending(r, e)
       /\ IF e \in Unmarked THEN UNCHANGED phase ELSE Mark(r, "unknown")
  /\ Finalize(r, "outcome_unknown")
  /\ Send(r, "result")
  /\ goto(r, "finish")

\* The result is there; it is settled also when the client does not take it.
ResultUnwritten(r) ==
  /\ Ending(r, "result_unwritten")
  /\ Mark(r, "unknown")
  /\ Finalize(r, "settled")
  /\ sent' = [sent EXCEPT ![r] = "result"] /\ whole' = [whole EXCEPT ![r] = FALSE]
  /\ goto(r, "finish")

\* The whole result or stream is written. (Of an oversized one not all is
\* captured.)
Answered(r) ==
  /\ Ending(r, "answered")
  /\ Mark(r, "terminal")
  /\ Finalize(r, "settled")
  /\ Send(r, "result")
  /\ goto(r, "finish")

-----------------------------------------------------------------------------
(* The end of the request *)

\* (Mutant: what was captured is stored, complete or not.)
snapshotAny(r) == TRUE
\* What the capturing writer holds can be stored: it was written without
\* error and fits.
snapshot(r) == whole[r]

\* The goroutine ends, and its variables with it.
Forget(r) ==
  /\ goto(r, "done")
  /\ phase' = [phase EXCEPT ![r] = ""]
  /\ replanned' = [replanned EXCEPT ![r] = FALSE]

\* DiscardIdempotency if nothing was dispatched, else FinishIdempotency.
Finish(r) ==
  /\ pc[r] = "finish"
  /\ row' = IF row.owner # r \/ row.state # "pending" THEN row
            ELSE IF phase[r] = "not_dispatched" THEN NoRow
            ELSE IF phase[r] = "terminal" /\ snapshot(r)
                 THEN [row EXCEPT !.state = "complete", !.response = sent[r], !.expired = FALSE]
                 ELSE [row EXCEPT !.state = "unreplayable"]
  /\ Forget(r)
  /\ UNCHANGED <<attempts, sent, whole, history>>

\* The gateway process dies, or the store fails at the end of the request. The
\* maintenance sweep finalizes what the attempt left.
Dies(r) ==
  /\ pc[r] \notin {"new", "done"}
  /\ Forget(r)
  /\ attempts' = [attempts EXCEPT ![r] =
       [i \in DOMAIN @ |-> IF @[i] \in {"dispatch_intent", "accepted"} THEN "outcome_unknown" ELSE @[i]]]
  /\ UNCHANGED <<row, sent, whole, history>>

\* 24 hours pass.
Expire ==
  /\ row # NoRow /\ ~row.expired
  /\ row' = [row EXCEPT !.expired = TRUE]
  /\ UNCHANGED <<pc, phase, replanned, attempts, sent, whole, history>>

\* (Mutant: cleanup of every expired row.)
CleanAny ==
  /\ row # NoRow /\ row.expired
  /\ row' = NoRow
  /\ retired' = retired \cup {row.owner}
  /\ UNCHANGED <<pc, phase, replanned, attempts, sent, whole, dispatched>>
\* cleanupIdempotencyTx
Clean ==
  /\ Retired
  /\ row' = NoRow
  /\ retired' = retired \cup {row.owner}
  /\ UNCHANGED <<pc, phase, replanned, attempts, sent, whole, dispatched>>

Step(r) ==
  \/ Claim(r) \/ Conflict(r) \/ Replay(r)
  \/ Unplanned(r) \/ Replan(r) \/ PlanRefused(r) \/ BeginAttempt(r)
  \/ NotExecuted(r) \/ Issue(r) \/ Fails(r) \/ RateLimited(r) \/ Accepted(r)
  \/ Unusable(r) \/ JobStored(r) \/ Truncated(r) \/ ResultUnwritten(r) \/ Answered(r)
  \/ Finish(r)

Next == (\E r \in Requests : Step(r) \/ Dies(r)) \/ Expire \/ Clean

Spec == Init /\ [][Next]_vars
\* Every call of a request has a deadline, so its goroutine comes to its end.
FairSpec == Spec /\ \A r \in Requests : WF_vars(Step(r))

-----------------------------------------------------------------------------
(* Properties *)

\* At most one request with the key is sent to a provider, until its response
\* was stored complete and has expired: a pending or unreplayable claim never
\* authorizes a second dispatch, after a restart either (finish,
\* BeginIdempotency and the sweep together).
SingleDispatch == Cardinality(dispatched \ retired) <= 1

\* A request is tried again only when the provider has rejected it without
\* executing it: no other attempt of a request has a successor.
NoBlindRetry ==
  \A r \in Requests : \A i \in DOMAIN attempts[r] :
     i < Len(attempts[r]) => attempts[r][i] = "not_executed"

\* What is stored for replay is a response that its owner's client received as
\* a whole, for the same request.
ReplayIsFaithful ==
  row.state = "complete" =>
     /\ row.response = sent[row.owner] /\ whole[row.owner]
     /\ row.fp = Fingerprint[row.owner]

\* A stored response is a final one: no attempt of its owner was left with an
\* unknown outcome.
CompleteIsKnown ==
  row.state = "complete" =>
     \A i \in DOMAIN attempts[row.owner] : attempts[row.owner][i] # "outcome_unknown"

\* Negative state is durable: an unreplayable row is never removed or changed,
\* a pending one only at the end of the request that owns it.
TombstoneIsKept ==
  [][/\ row.state = "unreplayable" => [row' EXCEPT !.expired = row.expired] = row
     /\ row.state = "pending" /\ row'.state # "pending" =>
          pc[row.owner] = "finish" /\ pc'[row.owner] = "done"]_vars

\* Every request ends, however often its plan is found stale.
RequestEnds == \A r \in Requests : pc[r] # "new" ~> pc[r] = "done"
=============================================================================
