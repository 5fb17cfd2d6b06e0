--------------------------- MODULE CheckpointPlane ---------------------------
(***************************************************************************)
(* The checkpoint and lease plane of state-api: agent runs call the lease  *)
(* and checkpoint endpoints through the "canon checkpoint" commands, and   *)
(* handlers of the service serve the calls against one canon-state row.    *)
(*                                                                         *)
(* A handler is split where it talks to DynamoDB, so handlers interleave   *)
(* between the read, the conditional update, the re-read that explains a   *)
(* failed condition, and the emission of the audit event.  A caller may    *)
(* time out while its handler runs on; a handler may die at any point; a   *)
(* row whose lease expired may be purged by the table's TTL; plain GetItem *)
(* reads may return an older image of the row.                             *)
(***************************************************************************)
EXTENDS LeaseRow, Sequences, FiniteSets

CONSTANTS
    Handler,     \* concurrent request handlers of the service
    NoHandler,   \* an agent that waits for no answer
    TTL,         \* the ttl_seconds that callers ask for
    StaleReads,  \* whether GetItem may return an older image (no ConsistentRead)
    MaxClock,    \* bound: last clock value
    MaxCalls     \* bound: requests sent altogether

ASSUME PlaneAssumption ==
    /\ NoHandler \notin Handler
    /\ TTL \subseteq Nat \ {0}
    /\ StaleReads \in BOOLEAN
    /\ MaxClock \in Nat /\ MaxCalls \in Nat

VARIABLES
    clock,    \* the wall clock the handlers read, in seconds
    row,      \* the row as the conditional updates see it
    replica,  \* an older image that an eventually consistent GetItem may return
    agent,    \* agent[r]: what run r learned from the answers it received
    call,     \* call[h]: the request handler h is serving
    grants,   \* history: grants[k] is the run that was granted token k
    writes,   \* history: the checkpoint writes that were applied, in order
    events,   \* the writes whose checkpoint_write event reached the log
    purges,   \* history: how often the TTL deleted the row
    sent      \* history: requests sent so far

vars == <<clock, row, replica, agent, call, grants, writes, events, purges, sent>>

Answers == {"none", "ok", "transport", "not_found", "lease_held",
            "lease_expired", "lease_token_mismatch", "lease_required",
            "state_version_conflict"}

Agent == [token : Nat, version : Nat, wait : Handler \cup {NoHandler},
          answer : Answers]

FreshAgent == [token |-> NoToken, version |-> 0, wait |-> NoHandler,
               answer |-> "none"]

Steps == {"idle", "acquire", "extend", "claim", "recheck", "renew",
          "renew_failed", "release", "put", "put_write", "put_failed", "emit"}

\* version: the expected version of a put; id: the write that an "emit" step
\* reports.
Call == [step : Steps, run : Run \cup {NoRun}, token : Nat, version : Nat,
         now : Nat, ttl : Nat, id : Nat]

Idle == [step |-> "idle", run |-> NoRun, token |-> NoToken, version |-> 0,
         now |-> 0, ttl |-> 0, id |-> 0]

\* era: the incarnation of the row (purges so far); expected: the version
\* the caller named.
WriteRecord == [era : Nat, expected : Nat, token : Nat, run : Run \cup {NoRun}]

TypeOK ==
    /\ clock \in Nat
    /\ row \in Row
    /\ replica \in Row
    /\ agent \in [Run -> Agent]
    /\ call \in [Handler -> Call]
    /\ \A h \in Handler : call[h].step # "idle" => call[h].run \in Run
    /\ grants \in Seq(Run)
    /\ writes \in Seq(WriteRecord)
    /\ events \subseteq Nat
    /\ purges \in Nat
    /\ sent \in Nat

Init ==
    /\ clock = 0
    /\ row = Absent
    /\ replica = Absent
    /\ agent = [r \in Run |-> FreshAgent]
    /\ call = [h \in Handler |-> Idle]
    /\ grants = <<>>
    /\ writes = <<>>
    /\ events = {}
    /\ purges = 0
    /\ sent = 0

\* The images StateStore.get_item may return.
Readable == IF StaleReads THEN {row, replica} ELSE {row}

-----------------------------------------------------------------------------
(***************************************************************************)
(* Answers.  Return(h, know) ends the handler; its caller learns the       *)
(* answer only if it still waits for this handler.                         *)
(***************************************************************************)
Told(h, code) == [agent[call[h].run] EXCEPT !.wait = NoHandler,
                                            !.answer = code]

Return(h, know) ==
    /\ call' = [call EXCEPT ![h] = Idle]
    /\ agent' = IF agent[call[h].run].wait = h
                THEN [agent EXCEPT ![call[h].run] = know]
                ELSE agent

Refuse(h, code) == Return(h, Told(h, code))

Proceed(h, next) == call' = [call EXCEPT ![h] = next] /\ UNCHANGED agent

history == <<grants, writes, events, purges, sent>>
-----------------------------------------------------------------------------
(***************************************************************************)
(* POST /state/lease/acquire                                               *)
(***************************************************************************)
\* The item read decides: refuse a foreign live lease, extend an own live
\* lease under its token, otherwise try to claim.
AcquireRead(h) ==
    /\ call[h].step = "acquire"
    /\ \E item \in Readable :
         IF ~Live(item, call[h].now)
         THEN Proceed(h, [call[h] EXCEPT !.step = "claim"])
         ELSE IF item.owner = call[h].run
         THEN Proceed(h, [call[h] EXCEPT !.step = "extend", !.token = item.token])
         ELSE Refuse(h, "lease_held")
    /\ UNCHANGED <<clock, row, replica, history>>

AcquireExtend(h) ==
    /\ call[h].step = "extend"
    /\ IF CanExtend(row, call[h].token, call[h].run, call[h].now)
       THEN /\ row' = Extended(row, call[h].now + call[h].ttl)
            /\ Return(h, [Told(h, "ok") EXCEPT !.token = call[h].token])
       ELSE Refuse(h, "lease_held") /\ UNCHANGED row
    /\ UNCHANGED <<clock, replica, history>>

AcquireClaim(h) ==
    /\ call[h].step = "claim"
    /\ IF CanClaim(row, call[h].now)
       THEN LET tok == Len(grants) + 1 IN
            /\ row' = Claimed(row, tok, call[h].run, call[h].now + call[h].ttl)
            /\ grants' = Append(grants, call[h].run)
            /\ Return(h, [Told(h, "ok") EXCEPT !.token = tok])
       ELSE /\ Proceed(h, [call[h] EXCEPT !.step = "recheck"])
            /\ UNCHANGED <<row, grants>>
    /\ UNCHANGED <<clock, replica, writes, events, purges, sent>>

\* Somebody claimed first: the re-read names the holder, or the failed
\* condition surfaces as an error (HTTP 500).
AcquireRecheck(h) ==
    /\ call[h].step = "recheck"
    /\ \E item \in Readable :
         IF Live(item, clock)
         THEN Refuse(h, "lease_held")
         ELSE Refuse(h, "transport")
    /\ UNCHANGED <<clock, row, replica, history>>

(***************************************************************************)
(* POST /state/lease/renew                                                 *)
(***************************************************************************)
Renew(h) ==
    /\ call[h].step = "renew"
    /\ IF CanRenew(row, call[h].token, call[h].now)
       THEN /\ row' = Extended(row, call[h].now + call[h].ttl)
            /\ Return(h, Told(h, "ok"))
       ELSE /\ Proceed(h, [call[h] EXCEPT !.step = "renew_failed"])
            /\ UNCHANGED row
    /\ UNCHANGED <<clock, replica, history>>

RenewFailure(item, tok, now) ==
    IF ~item.exists THEN "lease_expired"
    ELSE IF item.token # tok THEN "lease_token_mismatch"
    ELSE IF item.expires <= now THEN "lease_expired"
    ELSE "lease_token_mismatch"

RenewExplain(h) ==
    /\ call[h].step = "renew_failed"
    /\ \E item \in Readable :
         Refuse(h, RenewFailure(item, call[h].token, call[h].now))
    /\ UNCHANGED <<clock, row, replica, history>>

(***************************************************************************)
(* POST /state/lease/release                                               *)
(***************************************************************************)
Release(h) ==
    /\ call[h].step = "release"
    /\ IF CanRelease(row, call[h].token)
       THEN /\ row' = Released(row)
            /\ Return(h, [Told(h, "ok") EXCEPT !.token = NoToken])
       ELSE Refuse(h, "lease_token_mismatch") /\ UNCHANGED row
    /\ UNCHANGED <<clock, replica, history>>

-----------------------------------------------------------------------------
(***************************************************************************)
(* PUT /state/checkpoint                                                   *)
(***************************************************************************)
\* Mutant: the event leaves before the conditional update.
PutReadEmits(h) ==
    /\ call[h].step = "put"
    /\ Proceed(h, [call[h] EXCEPT !.step = "put_write", !.now = clock])
    /\ events' = events \cup {Len(writes) + 1}
    /\ UNCHANGED <<clock, row, replica, grants, writes, purges, sent>>

\* The row is read for the parent of the audit event alone (left out here);
\* the time that the write's lease check uses is sampled after that read.
PutRead(h) ==
    /\ call[h].step = "put"
    /\ Proceed(h, [call[h] EXCEPT !.step = "put_write", !.now = clock])
    /\ UNCHANGED <<clock, row, replica, history>>

PutWrite(h) ==
    /\ call[h].step = "put_write"
    /\ IF CanWrite(row, call[h].token, call[h].version, call[h].now)
       THEN LET id == Len(writes) + 1 IN
            /\ row' = Written(row)
            /\ writes' = Append(writes,
                   [era |-> purges, expected |-> call[h].version,
                    token |-> call[h].token, run |-> call[h].run])
            /\ Proceed(h, [call[h] EXCEPT !.step = "emit", !.id = id])
       ELSE /\ Proceed(h, [call[h] EXCEPT !.step = "put_failed"])
            /\ UNCHANGED <<row, writes>>
    /\ UNCHANGED <<clock, replica, grants, events, purges, sent>>

\* Mutant: an answer outside the vocabulary of the endpoint.
PutFailureUnnamed(item, expected, tok, now) ==
    IF ~item.exists THEN "not_found" ELSE "conflict"

\* checkpoints._classify_put_failure
PutFailure(item, expected, tok, now) ==
    IF ~item.exists THEN "not_found"
    ELSE IF item.version # expected THEN "state_version_conflict"
    ELSE IF ~Live(item, now)
         THEN IF item.token = tok THEN "lease_expired" ELSE "lease_required"
    ELSE IF item.token # tok THEN "lease_token_mismatch"
    ELSE "lease_required"

\* Mutant: a refused write is tried again by the handler itself.
PutExplainRetries(h) ==
    /\ call[h].step = "put_failed"
    /\ Proceed(h, [call[h] EXCEPT !.step = "put"])
    /\ UNCHANGED <<clock, row, replica, history>>

PutExplain(h) ==
    /\ call[h].step = "put_failed"
    /\ \E item \in Readable :
         Refuse(h, PutFailure(item, call[h].version, call[h].token, call[h].now))
    /\ UNCHANGED <<clock, row, replica, history>>

\* The event leaves after the write; the 200 carries the new version.
PutEmit(h) ==
    /\ call[h].step = "emit"
    /\ events' = events \cup {call[h].id}
    /\ Return(h, [Told(h, "ok") EXCEPT !.version = call[h].version + 1])
    /\ UNCHANGED <<clock, row, replica, grants, writes, purges, sent>>

Serve(h) ==
    \/ AcquireRead(h) \/ AcquireExtend(h) \/ AcquireClaim(h) \/ AcquireRecheck(h)
    \/ Renew(h) \/ RenewExplain(h) \/ Release(h)
    \/ PutRead(h) \/ PutWrite(h) \/ PutExplain(h) \/ PutEmit(h)
-----------------------------------------------------------------------------
(***************************************************************************)
(* The agents' side: one "canon checkpoint" command at a time per run.     *)
(* The handler samples the clock when the request reaches it.              *)
(***************************************************************************)
Send(r, h, request) ==
    /\ agent[r].wait = NoHandler
    /\ call[h] = Idle
    /\ sent < MaxCalls
    /\ sent' = sent + 1
    /\ call' = [call EXCEPT ![h] = request]
    /\ agent' = [agent EXCEPT ![r].wait = h, ![r].answer = "none"]
    /\ UNCHANGED <<clock, row, replica, grants, writes, events, purges>>

SendAcquire(r, h) ==
    \E ttl \in TTL :
        Send(r, h, [Idle EXCEPT !.step = "acquire", !.run = r, !.now = clock,
                                !.ttl = ttl])

SendRenew(r, h) ==
    /\ agent[r].token # NoToken
    /\ \E ttl \in TTL :
         Send(r, h, [Idle EXCEPT !.step = "renew", !.run = r, !.now = clock,
                                 !.ttl = ttl, !.token = agent[r].token])

SendRelease(r, h) ==
    /\ agent[r].token # NoToken
    /\ Send(r, h, [Idle EXCEPT !.step = "release", !.run = r,
                               !.token = agent[r].token])

SendPut(r, h) ==
    /\ agent[r].token # NoToken
    /\ Send(r, h, [Idle EXCEPT !.step = "put", !.run = r,
                               !.token = agent[r].token,
                               !.version = agent[r].version])

\* GET /state/checkpoint: the run learns the version of the image it is
\* shown (a 404 means that no version was written); no token is ever shown.
Read(r) ==
    /\ agent[r].wait = NoHandler
    /\ \E item \in Readable :
         agent' = [agent EXCEPT
                     ![r].version = item.version,
                     ![r].answer = IF item.exists THEN "ok" ELSE "not_found"]
    /\ UNCHANGED <<clock, row, replica, call, history>>

\* The command gives up (timeout, connection error); its handler runs on.
Timeout(r) ==
    /\ agent[r].wait # NoHandler
    /\ agent' = [agent EXCEPT ![r].wait = NoHandler, ![r].answer = "transport"]
    /\ UNCHANGED <<clock, row, replica, call, history>>

\* The agent process restarts under its run id and remembers nothing.
AgentRestart(r) ==
    /\ agent' = [agent EXCEPT ![r] = FreshAgent]
    /\ UNCHANGED <<clock, row, replica, call, history>>

Act(r) == Read(r) \/ Timeout(r) \/ AgentRestart(r)

Request(r, h) ==
    SendAcquire(r, h) \/ SendRenew(r, h) \/ SendRelease(r, h) \/ SendPut(r, h)

-----------------------------------------------------------------------------
(***************************************************************************)
(* The surroundings: time, DynamoDB and the container that runs handlers.  *)
(***************************************************************************)
Tick ==
    /\ clock < MaxClock
    /\ clock' = clock + 1
    /\ UNCHANGED <<row, replica, agent, call, history>>

\* The older image catches up.
Replicate ==
    /\ StaleReads
    /\ replica' = row
    /\ UNCHANGED <<clock, row, agent, call, history>>

\* The table's TTL deletes items, whole, some time after the epoch in
\* lease_expires_at has passed.
Purge ==
    /\ row.token # NoToken
    /\ row.expires <= clock
    /\ row' = Absent
    /\ purges' = purges + 1
    /\ UNCHANGED <<clock, replica, agent, call, grants, writes, events, sent>>

\* The task that serves the request is stopped or replaced.
HandlerCrash(h) ==
    /\ call[h] # Idle
    /\ call' = [call EXCEPT ![h] = Idle]
    /\ UNCHANGED <<clock, row, replica, agent, history>>

Next ==
    \/ Tick \/ Replicate \/ Purge
    \/ \E r \in Run : Act(r)
    \/ \E r \in Run, h \in Handler : Request(r, h)
    \/ \E h \in Handler : Serve(h) \/ HandlerCrash(h)

Spec == Init /\ [][Next]_vars

\* Handlers are threads of a running service: one that can take its next
\* step takes it.
FairSpec == Spec /\ \A h \in Handler : WF_vars(Serve(h))

-----------------------------------------------------------------------------
(***************************************************************************)
(* Safety                                                                  *)
(***************************************************************************)
\* Fencing: once a write under a newer lease was applied, no write under an
\* older lease is, however long its handler was delayed.
FencingOrder ==
    \A i, j \in DOMAIN writes : i < j => writes[i].token <= writes[j].token

\* No lost update and no double application: within one incarnation of the
\* row, the applied writes name strictly increasing expected versions, so a
\* write that was superseded, or that a timed-out caller sends again, is
\* refused.
OneWritePerVersion ==
    \A i, j \in DOMAIN writes :
        i < j /\ writes[i].era = writes[j].era
            => writes[i].expected < writes[j].expected

\* The audit log never reports a checkpoint write that did not happen.
EventsFollowWrites == events \subseteq DOMAIN writes

\* Nobody but its holder ends or shortens a live lease: it goes by a release that
\* carries its token, and its expiry goes back only when an extension or a renewal that
\* the holder sent sets it, maybe late, to the time of that request plus its ttl.
\* Acquires that race on an expired lease cannot take a live one.
LeaseNotStolen ==
    [][Live(row, clock) /\ (row'.token # row.token \/ row'.expires < row.expires)
         => \E h \in Handler :
              /\ call[h].run = row.owner /\ call[h].token = row.token
              /\ \/ call[h].step = "release" /\ row'.token = NoToken
                 \/ /\ call[h].step \in {"extend", "renew"} /\ row'.token = row.token
                    /\ row'.expires = call[h].now + call[h].ttl]_vars

\* A token that is not in force any more never comes into force again, so a
\* late renew, extension or write that carries it can only be refused.
DeadTokensStayDead ==
    [][\A k \in DOMAIN grants : row.token # k => row'.token # k]_vars

\* The plane implements the fenced register.
Register == INSTANCE FencedRegister WITH
    epoch <- Len(grants), holder <- row.token, version <- row.version,
    log <- [i \in DOMAIN writes |-> writes[i].token]

ImplementsRegister == Register!RegSpec

(***************************************************************************)
(* Liveness: every request that reached a handler leaves it.               *)
(***************************************************************************)
CallsReturn == \A h \in Handler : call[h] # Idle ~> call[h] = Idle

=============================================================================
