------------------------------ MODULE Refresh ------------------------------
(***************************************************************************)
(* The OAuth credential of one connection: the stored record with its      *)
(* refresh fence, the requests that lease it, refresh it or join the       *)
(* refresh of another request of their process, the provider that rotates  *)
(* refresh tokens, and the operator who replaces, revokes or rewraps the   *)
(* record.  A request is as many actions as it makes store or provider     *)
(* calls and takes the refresher's mutex.  The configuration revision that *)
(* the store advances with the record belongs to the configuration.        *)
(***************************************************************************)
EXTENDS Integers, FiniteSets

CONSTANTS
  Requests,     \* requests that need the credential
  Processes,    \* gateway processes, each with a Refresher
  ProcessOf,    \* the process that serves a request
  MaxVersion,   \* the largest version (of an int64 in the code)
  MaxTokens     \* bound on the refresh tokens the provider issues

ASSUME RefreshAssumption ==
  /\ ProcessOf \in [Requests -> Processes]
  /\ "nobody" \notin Requests
  /\ MaxVersion \in Nat \ {0} /\ MaxTokens \in Nat \ {0}

Nobody == "nobody"
Tokens == 1..MaxTokens        \* refresh tokens, in the order they are issued
Login == 0                    \* the parent of a token that a login obtained
Versions == 1..MaxVersion
Records == [version : Versions, token : Tokens]
Running == [version |-> 0, token |-> 0]   \* the result of an unfinished call
Error == [version |-> -1, token |-> 0]
Results == Records \cup {Running, Error}

VARIABLES
  row,         \* the stored credential
  intent,      \* storedCredential.Intent: whose it is, and whether its lease lives
  valid,       \* refresh tokens the provider accepts
  parent,      \* (history) the token that was exchanged for a token
  unresolved,  \* (history) how often a token was sent with no result stored
  stored,      \* (history) the records the store has held
  calls,       \* Refresher.calls: the leader of the process's running call
  at           \* of a request: its place, the version it read, the token it
               \* sends or received, the call it waits for, and its result,
               \* which is also the result of the call it leads

vars == <<row, intent, valid, parent, unresolved, stored, calls, at>>
store == <<row, intent, stored>>
provider == <<valid, parent, unresolved>>

NoIntent == [by |-> Nobody, live |-> FALSE]
Places == {"lease", "metadata", "join", "reload", "rejoin", "enter", "wait", "load",
           "begin", "call", "fail", "commit", "remove", "done"}
\* A request at place l; its other fields are as at the start.
At(l) == [pc |-> l, known |-> 0, token |-> 0, waits |-> Nobody, got |-> Running]

TypeOK ==
  /\ row \in [version : Versions, token : Tokens, fresh : BOOLEAN,
              status : {"active", "reauth_required", "revoked"},
              refresh : {"completed", "pending", "reauth_required"}]
  /\ intent \in [by : Requests, live : BOOLEAN] \cup {NoIntent}
  /\ \E n \in Tokens : parent \in [1..n -> {Login} \cup Tokens]
  /\ valid \subseteq DOMAIN parent
  /\ unresolved \in [Tokens -> Nat]
  /\ stored \subseteq Records
  /\ calls \in [Processes -> Requests \cup {Nobody}]
  /\ at \in [Requests -> [pc : Places, known : {0} \cup Versions, token : {0} \cup Tokens,
                          waits : Requests \cup {Nobody}, got : Results]]

Init ==
  /\ row = [version |-> 1, token |-> 1, fresh |-> FALSE, status |-> "active", refresh |-> "completed"]
  /\ intent = NoIntent
  /\ valid = {1} /\ parent = [t \in {1} |-> Login]
  /\ unresolved = [t \in Tokens |-> 0]
  /\ stored = {[version |-> 1, token |-> 1]}
  /\ calls = [p \in Processes |-> Nobody]
  /\ at = [r \in Requests |-> At("lease")]

-----------------------------------------------------------------------------
(* The store *)

Current == [version |-> row.version, token |-> row.token]
\* (Mutant: a fence lapses with its lease.)
FencedWhileLive == intent.live \/ row.refresh = "reauth_required"
Fenced == intent # NoIntent \/ row.refresh \in {"pending", "reauth_required"}
Usable == ~Fenced /\ row.status = "active"
\* The version cannot be advanced.  (Mutant: it always is.)
NeverExhausted == FALSE
Exhausted == row.version = MaxVersion

\* Writes record c as the active one and drops the intent.
install(c) ==
  /\ row' = [version |-> c.version, token |-> c.token, fresh |-> TRUE,
             status |-> "active", refresh |-> "completed"]
  /\ intent' = NoIntent
  /\ stored' = stored \cup {c}

\* (Mutant: any pending refresh of the record matches.)
refreshMatchesPending(r) == intent # NoIntent /\ row.refresh = "pending"
\* The record, the attempt and its fence are those of r's intent.
refreshMatches(r) == row.version = at[r].known /\ intent.by = r /\ row.refresh = "pending"

-----------------------------------------------------------------------------
(* RefreshingSource.Lease and Refresher.Join *)

goto(r, l) == at' = [at EXCEPT ![r].pc = l]
reads(r, l) == at' = [at EXCEPT ![r].pc = l, ![r].known = row.version]
\* A request ends with record c, or with an error.
end(r, c) == at' = [at EXCEPT ![r] = [At("done") EXCEPT !.got = c]]
await(r, leader) == at' = [at EXCEPT ![r] = [At("wait") EXCEPT !.waits = leader]]

Lease(r) ==
  /\ at[r].pc = "lease"
  /\ \/ Fenced /\ goto(r, "metadata")
     \/ ~Fenced /\ ~Usable /\ end(r, Error)
     \/ Usable /\ row.fresh /\ end(r, Current)
     \/ Usable /\ ~row.fresh /\ reads(r, "enter")
  /\ UNCHANGED store /\ UNCHANGED provider /\ UNCHANGED calls

LoadCredential(r) ==
  /\ at[r].pc = "metadata"
  /\ reads(r, "join")
  /\ UNCHANGED store /\ UNCHANGED provider /\ UNCHANGED calls

\* The call the process runs, if any, before and after a look at the record.
Join(r) ==
  LET leader == calls[ProcessOf[r]]
  IN /\ at[r].pc \in {"join", "rejoin"}
     /\ \/ leader # Nobody /\ await(r, leader)
        \/ leader = Nobody /\ at[r].pc = "join" /\ goto(r, "reload")
        \/ leader = Nobody /\ at[r].pc = "rejoin" /\ end(r, Error)
     /\ UNCHANGED store /\ UNCHANGED provider /\ UNCHANGED calls

Reload(r) ==
  /\ at[r].pc = "reload"
  /\ \/ Fenced /\ goto(r, "rejoin")
     \/ ~Fenced /\ end(r, IF Usable /\ row.version > at[r].known THEN Current ELSE Error)
  /\ UNCHANGED store /\ UNCHANGED provider /\ UNCHANGED calls

\* waitRefreshCall, and the wait in refreshSingleflight.
Wait(r) ==
  /\ at[r].pc = "wait"
  /\ at[at[r].waits].got # Running
  /\ end(r, at[at[r].waits].got)
  /\ UNCHANGED store /\ UNCHANGED provider /\ UNCHANGED calls

\* The context of a waiting request ends first.
Cancel(r) ==
  /\ at[r].pc = "wait"
  /\ end(r, Error)
  /\ UNCHANGED store /\ UNCHANGED provider /\ UNCHANGED calls

-----------------------------------------------------------------------------
(* refreshSingleflight and refreshRecord *)

Enter(r) ==
  LET leader == calls[ProcessOf[r]]
  IN /\ at[r].pc = "enter"
     /\ \/ /\ leader = Nobody
           /\ calls' = [calls EXCEPT ![ProcessOf[r]] = r]
           /\ goto(r, "load")
        \/ leader # Nobody /\ await(r, leader) /\ UNCHANGED calls
     /\ UNCHANGED store /\ UNCHANGED provider

\* The leader's call has result c: it is published, and then removed.
publish(r, c) == at' = [at EXCEPT ![r] = [At("remove") EXCEPT !.got = c]]

\* (Mutant: a call that finds no usable credential never says so.)
LoadSilent(r) ==
  /\ at[r].pc = "load"
  /\ Usable
  /\ \/ row.version # at[r].known /\ publish(r, Current)
     \/ /\ row.version = at[r].known
        /\ at' = [at EXCEPT ![r].pc = "begin", ![r].token = row.token]
  /\ UNCHANGED store /\ UNCHANGED provider /\ UNCHANGED calls

\* Versions only grow, so another version than the known one is a newer one.
Load(r) ==
  /\ at[r].pc = "load"
  /\ \/ ~Usable /\ publish(r, Error)
     \/ Usable /\ row.version # at[r].known /\ publish(r, Current)
     \/ /\ Usable /\ row.version = at[r].known
        /\ at' = [at EXCEPT ![r].pc = "begin", ![r].token = row.token]
  /\ UNCHANGED store /\ UNCHANGED provider /\ UNCHANGED calls

\* (Mutant: a fence whose lease has lapsed may be taken over.)
BeginnableLapsed(r) == row.version = at[r].known /\ row.status = "active" /\ ~intent.live
Beginnable(r) == row.version = at[r].known /\ Usable /\ ~Exhausted

\* The store call may also fail, for instance because the client has gone.
BeginRefresh(r) ==
  /\ at[r].pc = "begin"
  /\ \/ /\ Beginnable(r)
        /\ intent' = [by |-> r, live |-> TRUE]
        /\ row' = [row EXCEPT !.refresh = "pending"]
        /\ goto(r, "call")
     \/ publish(r, Error) /\ UNCHANGED <<row, intent>>
  /\ UNCHANGED stored /\ UNCHANGED provider /\ UNCHANGED calls

\* The provider issues its next token in exchange for token t, or to a login.
issue(t) ==
  LET next == Cardinality(DOMAIN parent) + 1
  IN /\ next \in Tokens
     /\ parent' = [u \in 1..next |-> IF u = next THEN t ELSE parent[u]]
     /\ valid' = (valid \ {t}) \cup {next}
Issued == Cardinality(DOMAIN parent) + 1

\* The provider may not be reached or refuse the token.  If it accepts it, it
\* replaces it or lets it stand, and the answer arrives, or is lost or invalid.
Exchange(r) ==
  LET t == at[r].token
  IN /\ at[r].pc = "call"
     /\ unresolved' = [unresolved EXCEPT ![t] = @ + 1]
     /\ \/ goto(r, "fail") /\ UNCHANGED <<valid, parent>>
        \/ t \in valid /\ issue(t) /\ goto(r, "fail")
        \/ t \in valid /\ goto(r, "commit") /\ UNCHANGED <<valid, parent>>
        \/ /\ t \in valid /\ issue(t)
           /\ at' = [at EXCEPT ![r].pc = "commit", ![r].token = Issued]
     /\ UNCHANGED store /\ UNCHANGED calls

\* FailRefresh's own error is ignored.
FailRefresh(r) ==
  /\ at[r].pc = "fail"
  /\ \/ /\ refreshMatches(r)
        /\ row' = [row EXCEPT !.refresh = "reauth_required", !.status = "reauth_required"]
     \/ UNCHANGED row
  /\ publish(r, Error)
  /\ UNCHANGED <<intent, stored, calls>> /\ UNCHANGED provider

\* (Mutant: the new record is handed out although the store refused it.)
RefusedRecord(r) == [version |-> at[r].known + 1, token |-> at[r].token]
Refused(r) == Error

CommitRefresh(r) ==
  LET next == [version |-> at[r].known + 1, token |-> at[r].token]
  IN /\ at[r].pc = "commit"
     /\ \/ /\ refreshMatches(r) /\ row.status = "active" /\ intent.live
           /\ ~Exhausted
           /\ install(next)
           /\ unresolved' = [unresolved EXCEPT ![row.token] = 0]
           /\ publish(r, next)
        \/ publish(r, Refused(r)) /\ UNCHANGED store /\ UNCHANGED unresolved
     /\ UNCHANGED <<valid, parent, calls>>

Remove(r) ==
  /\ at[r].pc = "remove"
  /\ calls' = [calls EXCEPT ![ProcessOf[r]] = Nobody]
  /\ end(r, at[r].got)
  /\ UNCHANGED store /\ UNCHANGED provider

Crash(p) ==
  /\ calls' = [calls EXCEPT ![p] = Nobody]
  /\ at' = [r \in Requests |-> IF ProcessOf[r] = p /\ at[r].pc # "done"
                               THEN [At("done") EXCEPT !.got = Error] ELSE at[r]]
  /\ UNCHANGED store /\ UNCHANGED provider

-----------------------------------------------------------------------------
(* The operator, and time. Each call compares the version it was given with *)
(* the stored one; a record is read and written back under one version.     *)

\* Import, or the end of an OAuth or device login, with a token of its own.
PutCredential ==
  /\ ~Exhausted
  /\ issue(Login)
  /\ install([version |-> row.version + 1, token |-> Issued])
  /\ UNCHANGED <<unresolved, calls, at>>

Revoke ==
  /\ ~Exhausted
  /\ row' = [row EXCEPT !.version = @ + 1, !.status = "revoked", !.refresh = "completed"]
  /\ intent' = NoIntent
  /\ stored' = stored \cup {[Current EXCEPT !.version = @ + 1]}
  /\ UNCHANGED provider /\ UNCHANGED <<calls, at>>

RewrapCredential ==
  /\ ~Exhausted
  /\ ~Fenced /\ row.status # "reauth_required"
  /\ row' = [row EXCEPT !.version = @ + 1]
  /\ stored' = stored \cup {[Current EXCEPT !.version = @ + 1]}
  /\ UNCHANGED provider /\ UNCHANGED <<intent, calls, at>>

\* The access token nears its expiry, or the lease of the intent lapses.
Age ==
  /\ \/ row.fresh /\ row' = [row EXCEPT !.fresh = FALSE] /\ UNCHANGED intent
     \/ intent.live /\ intent' = [intent EXCEPT !.live = FALSE] /\ UNCHANGED row
  /\ UNCHANGED provider /\ UNCHANGED <<stored, calls, at>>

-----------------------------------------------------------------------------
Step(r) ==
  \/ Lease(r) \/ LoadCredential(r) \/ Join(r) \/ Reload(r) \/ Wait(r) \/ Enter(r) \/ Load(r)
  \/ BeginRefresh(r) \/ Exchange(r) \/ FailRefresh(r) \/ CommitRefresh(r) \/ Remove(r)

Next ==
  \/ \E r \in Requests : Step(r) \/ Cancel(r)
  \/ \E p \in Processes : Crash(p)
  \/ PutCredential \/ Revoke \/ RewrapCredential \/ Age

Spec == Init /\ [][Next]_vars
FairSpec == Spec /\ \A r \in Requests : WF_vars(Step(r))

-----------------------------------------------------------------------------
(* Properties *)

\* A credential that requests may use holds a refresh token the provider
\* still accepts: an exchange whose answer was lost never leaves the old
\* token usable, through rewraps, crashes and lapsed leases.
UsableIsValid == Usable => row.token \in valid

\* A refresh token is not sent to the provider again while the outcome of
\* sending it is unknown ("never permission to reuse its token").
TokenIsNotReused == \A t \in Tokens : unresolved[t] <= 1

\* A refresh replaces only the token it exchanged: a late answer never
\* overwrites what an operator or another refresh has stored since.
RefreshFollowsToken ==
  [][row'.token # row.token /\ parent'[row'.token] # Login => parent'[row'.token] = row.token]_vars

\* Requests are given records that were stored, also through the result of a
\* shared call.
LeaseWasStored == \A r \in Requests : at[r].got \in stored \cup {Running, Error}

\* Every request gets a credential or an error, also one that waits for the
\* refresh of another.
LeaseEnds == <>(\A r \in Requests : at[r].pc = "done")
=============================================================================
