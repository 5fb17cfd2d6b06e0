----------------------- MODULE CheckpointPlane_proofs -----------------------
(***************************************************************************)
(* Proofs about CheckpointPlane, for every set of runs and handlers, every *)
(* lease duration and every bound.                                         *)
(***************************************************************************)
EXTENDS CheckpointPlane, TLAPS

\* The conditional updates keep a row a row.
LEMMA AbsentIsRow == Absent \in Row
  BY DEF Row, Absent, NoToken

LEMMA ClaimedIsRow ==
    \A item \in Row, tok \in Nat, run \in Run, n \in Nat :
        Claimed(item, tok, run, n) \in Row
  BY DEF Row, Claimed

LEMMA ExtendedIsRow == \A item \in Row, n \in Nat : Extended(item, n) \in Row
  BY DEF Row, Extended

LEMMA ReleasedIsRow == \A item \in Row : Released(item) \in Row
  BY DEF Row, Released, NoToken

LEMMA WrittenIsRow == \A item \in Row : Written(item) \in Row
<1> TAKE item \in Row
<1>1. item.version + 1 \in Nat
  BY DEF Row
<1> QED BY <1>1 DEF Row, Written

LEMMA IdleIsCall == Idle \in Call /\ Idle.step = "idle"
  BY DEF Idle, Call, Steps, NoToken

LEMMA FreshAgentIsAgent == FreshAgent \in Agent
  BY DEF FreshAgent, Agent, Answers, NoToken

\* What an answer does to the record of the caller, and a handler's next step.
LEMMA AnswersKeepTypes ==
    ASSUME TypeOK, NEW h \in Handler, call[h].step # "idle",
           NEW code \in Answers, NEW tok \in Nat, NEW version \in Nat
    PROVE  /\ Told(h, code) \in Agent
           /\ [Told(h, code) EXCEPT !.token = tok] \in Agent
           /\ [Told(h, code) EXCEPT !.version = version] \in Agent
<1>1. agent[call[h].run] \in Agent
  BY DEF TypeOK
<1>2. Told(h, code) \in Agent
  BY <1>1 DEF Told, Agent
<1>3. [Told(h, code) EXCEPT !.token = tok] \in Agent
  BY <1>2 DEF Agent
<1>4. [Told(h, code) EXCEPT !.version = version] \in Agent
  BY <1>2 DEF Agent
<1> QED BY <1>2, <1>3, <1>4

Typed(a, c) ==
    /\ a \in [Run -> Agent]
    /\ c \in [Handler -> Call]
    /\ \A h \in Handler : c[h].step # "idle" => c[h].run \in Run

LEMMA ReturnKeepsTypes ==
    ASSUME TypeOK, NEW h \in Handler, NEW know \in Agent, Return(h, know)
    PROVE  Typed(agent', call')
  BY IdleIsCall DEF TypeOK, Return, Typed

LEMMA ProceedKeepsTypes ==
    ASSUME TypeOK, NEW h \in Handler, NEW next \in Call, next.run \in Run,
           Proceed(h, next)
    PROVE  Typed(agent', call')
  BY DEF TypeOK, Proceed, Typed

LEMMA TypeInductive == TypeOK /\ [Next]_vars => TypeOK'
<1> SUFFICES ASSUME TypeOK, [Next]_vars PROVE TypeOK'
  OBVIOUS
<1> USE PlaneAssumption, RunAssumption
<1>1. CASE UNCHANGED vars
  BY <1>1 DEF TypeOK, vars
<1>2. CASE Tick
  BY <1>2 DEF TypeOK, Tick, history
<1>3. CASE Replicate
  BY <1>3 DEF TypeOK, Replicate, history
<1>4. CASE Purge
  BY <1>4, AbsentIsRow DEF TypeOK, Purge
<1>5. ASSUME NEW r \in Run, Act(r) PROVE TypeOK'
  <2>1. CASE Read(r)
    <3> DEFINE Shown(item) ==
          [agent[r] EXCEPT !.version = item.version,
                           !.answer = IF item.exists THEN "ok" ELSE "not_found"]
    <3>1. PICK item \in Readable : agent' = [agent EXCEPT ![r] = Shown(item)]
      BY <2>1 DEF Read
    <3>2. item.version \in Nat
      BY DEF TypeOK, Readable, Row
    <3>3. Shown(item) \in Agent
      BY <3>2 DEF TypeOK, Agent, Answers
    <3> HIDE DEF Shown
    <3> QED BY <2>1, <3>1, <3>3 DEF TypeOK, Read, history
  <2>2. CASE Timeout(r)
    <3>1. [agent[r] EXCEPT !.wait = NoHandler, !.answer = "transport"] \in Agent
      BY DEF TypeOK, Agent, Answers
    <3> QED BY <2>2, <3>1 DEF TypeOK, Timeout, history
  <2>3. CASE AgentRestart(r)
    BY <2>3, FreshAgentIsAgent DEF TypeOK, AgentRestart, history
  <2> QED BY <1>5, <2>1, <2>2, <2>3 DEF Act
<1>6. ASSUME NEW r \in Run, NEW h \in Handler, Request(r, h) PROVE TypeOK'
  <2>1. ASSUME NEW c \in Call, c.run = r, Send(r, h, c) PROVE TypeOK'
    <3>1. [agent[r] EXCEPT !.wait = h, !.answer = "none"] \in Agent
      BY DEF TypeOK, Agent, Answers
    <3>2. agent' = [agent EXCEPT ![r] =
                      [agent[r] EXCEPT !.wait = h, !.answer = "none"]]
      BY <2>1 DEF Send
    <3>3. sent' \in Nat
      BY <2>1 DEF TypeOK, Send
    <3> QED BY <2>1, <3>1, <3>2, <3>3 DEF TypeOK, Send
  <2>2. CASE SendAcquire(r, h)
    <3> PICK ttl \in TTL : Send(r, h, [Idle EXCEPT !.step = "acquire", !.run = r,
                                              !.now = clock, !.ttl = ttl])
      BY <2>2 DEF SendAcquire
    <3>1. [Idle EXCEPT !.step = "acquire", !.run = r, !.now = clock, !.ttl = ttl]
            \in Call
      BY DEF TypeOK, Idle, Call, Steps, NoToken
    <3> QED BY <2>1, <3>1 DEF Idle
  <2>3. CASE SendRenew(r, h)
    <3> PICK ttl \in TTL :
          Send(r, h, [Idle EXCEPT !.step = "renew", !.run = r, !.now = clock,
                                  !.ttl = ttl, !.token = agent[r].token])
      BY <2>3 DEF SendRenew
    <3>1. [Idle EXCEPT !.step = "renew", !.run = r, !.now = clock,
                       !.ttl = ttl, !.token = agent[r].token] \in Call
      BY DEF TypeOK, Idle, Call, Steps, NoToken, Agent
    <3> QED BY <2>1, <3>1 DEF Idle
  <2>4. CASE SendRelease(r, h)
    <3>1. [Idle EXCEPT !.step = "release", !.run = r, !.token = agent[r].token]
            \in Call
      BY DEF TypeOK, Idle, Call, Steps, NoToken, Agent
    <3> QED BY <2>1, <2>4, <3>1 DEF SendRelease, Idle
  <2>5. CASE SendPut(r, h)
    <3>1. [Idle EXCEPT !.step = "put", !.run = r, !.token = agent[r].token,
                       !.version = agent[r].version] \in Call
      BY DEF TypeOK, Idle, Call, Steps, NoToken, Agent
    <3> QED BY <2>1, <2>5, <3>1 DEF SendPut, Idle
  <2> QED BY <1>6, <2>2, <2>3, <2>4, <2>5 DEF Request
<1>7. ASSUME NEW h \in Handler, HandlerCrash(h) PROVE TypeOK'
  BY <1>7, IdleIsCall DEF TypeOK, HandlerCrash, history
<1>8. ASSUME NEW h \in Handler, Serve(h) PROVE TypeOK'
  <2>0. /\ call[h] \in Call
        /\ call[h].step # "idle" => call[h].run \in Run
        /\ Readable \subseteq Row
    BY DEF TypeOK, Readable
  <2>1. CASE AcquireRead(h)
    <3> PICK item \in Readable :
          IF ~Live(item, call[h].now)
          THEN Proceed(h, [call[h] EXCEPT !.step = "claim"])
          ELSE IF item.owner = call[h].run
          THEN Proceed(h, [call[h] EXCEPT !.step = "extend", !.token = item.token])
          ELSE Refuse(h, "lease_held")
      BY <2>1 DEF AcquireRead
    <3>1. /\ item.token \in Nat
          /\ item.owner \in Run \cup {NoRun}
          /\ call[h].step # "idle"
      BY <2>0, <2>1 DEF Row, AcquireRead
    <3>2. /\ [call[h] EXCEPT !.step = "claim"] \in Call
          /\ [call[h] EXCEPT !.step = "claim"].run \in Run
          /\ [call[h] EXCEPT !.step = "extend", !.token = item.token] \in Call
          /\ [call[h] EXCEPT !.step = "extend", !.token = item.token].run \in Run
      BY <2>0, <3>1 DEF Call, Steps
    <3>3. Told(h, "lease_held") \in Agent
      BY <3>1, AnswersKeepTypes DEF Answers
    <3>4. Typed(agent', call')
      BY <3>2, <3>3, ReturnKeepsTypes, ProceedKeepsTypes DEF Refuse
    <3> QED BY <2>1, <3>4 DEF TypeOK, Typed, AcquireRead, history
  <2>2. CASE AcquireExtend(h)
    <3>1. call[h].step # "idle" /\ call[h].token \in Nat
      BY <2>0, <2>2 DEF AcquireExtend, Call
    <3>2. row' \in Row
      <4>1. call[h].now + call[h].ttl \in Nat
        BY <2>0 DEF Call
      <4> QED BY <2>2, <4>1, ExtendedIsRow DEF AcquireExtend, TypeOK
    <3>3. Typed(agent', call')
      BY <2>2, <3>1, ReturnKeepsTypes, AnswersKeepTypes DEF AcquireExtend, Refuse, Answers
    <3> QED BY <2>2, <3>2, <3>3 DEF TypeOK, Typed, AcquireExtend, history
  <2>3. CASE AcquireClaim(h)
    <3>1. call[h].step # "idle" /\ call[h].run \in Run /\ Len(grants) + 1 \in Nat
      BY <2>0, <2>3 DEF AcquireClaim, TypeOK
    <3>2. row' \in Row
      <4>1. call[h].now + call[h].ttl \in Nat
        BY <2>0 DEF Call
      <4>2. \/ row' = row
            \/ row' = Claimed(row, Len(grants) + 1, call[h].run,
                              call[h].now + call[h].ttl)
        BY <2>3 DEF AcquireClaim
      <4> QED BY <3>1, <4>1, <4>2, ClaimedIsRow DEF TypeOK
    <3>6. grants' \in Seq(Run)
      <4>1. grants' = grants \/ grants' = Append(grants, call[h].run)
        BY <2>3 DEF AcquireClaim
      <4>2. grants \in Seq(Run)
        BY DEF TypeOK
      <4> QED BY <3>1, <4>1, <4>2
    <3>3. /\ [call[h] EXCEPT !.step = "recheck"] \in Call
          /\ [call[h] EXCEPT !.step = "recheck"].run \in Run
      BY <2>0, <3>1 DEF Call, Steps
    <3>4. [Told(h, "ok") EXCEPT !.token = Len(grants) + 1] \in Agent
      BY <3>1, AnswersKeepTypes DEF Answers
    <3>5. Typed(agent', call')
      BY <2>3, <3>3, <3>4, ReturnKeepsTypes, ProceedKeepsTypes DEF AcquireClaim
    <3> QED BY <2>3, <3>2, <3>5, <3>6 DEF TypeOK, Typed, AcquireClaim
  <2>4. CASE AcquireRecheck(h)
    <3>1. call[h].step # "idle"
      BY <2>4 DEF AcquireRecheck
    <3>2. \A item \in Readable : item.owner \in Run \cup {NoRun}
      BY <2>0 DEF Row
    <3>3. Typed(agent', call')
      BY <2>4, <3>1, <3>2, ReturnKeepsTypes, AnswersKeepTypes
         DEF AcquireRecheck, Refuse, Answers
    <3> QED BY <2>4, <3>3 DEF TypeOK, Typed, AcquireRecheck, history
  <2>5. CASE Renew(h)
    <3>1. call[h].step # "idle" /\ call[h].run \in Run
      BY <2>0, <2>5 DEF Renew
    <3>2. row' \in Row
      <4>1. call[h].now + call[h].ttl \in Nat
        BY <2>0 DEF Call
      <4> QED BY <2>5, <4>1, ExtendedIsRow DEF Renew, TypeOK
    <3>3. /\ [call[h] EXCEPT !.step = "renew_failed"] \in Call
          /\ [call[h] EXCEPT !.step = "renew_failed"].run \in Run
      BY <2>0, <3>1 DEF Call, Steps
    <3>4. Told(h, "ok") \in Agent
      BY <3>1, AnswersKeepTypes DEF Answers
    <3>5. Typed(agent', call')
      BY <2>5, <3>3, <3>4, ReturnKeepsTypes, ProceedKeepsTypes DEF Renew
    <3> QED BY <2>5, <3>2, <3>5 DEF TypeOK, Typed, Renew, history
  <2>6. CASE RenewExplain(h)
    <3>1. \A item : RenewFailure(item, call[h].token, call[h].now) \in Answers
      BY DEF RenewFailure, Answers
    <3>2. call[h].step # "idle"
      BY <2>6 DEF RenewExplain
    <3>3. Typed(agent', call')
      BY <2>6, <3>1, <3>2, ReturnKeepsTypes, AnswersKeepTypes DEF RenewExplain, Refuse
    <3> QED BY <2>6, <3>3 DEF TypeOK, Typed, RenewExplain, history
  <2>7. CASE Release(h)
    <3>1. call[h].step # "idle" /\ NoToken \in Nat
      BY <2>7 DEF Release, NoToken
    <3>2. row' \in Row
      BY <2>7, ReleasedIsRow DEF Release, TypeOK
    <3>3. Typed(agent', call')
      BY <2>7, <3>1, ReturnKeepsTypes, AnswersKeepTypes DEF Release, Refuse, Answers
    <3> QED BY <2>7, <3>2, <3>3 DEF TypeOK, Typed, Release, history
  <2>8. CASE PutRead(h)
    <3>1. call[h].step # "idle" /\ call[h].run \in Run
      BY <2>0, <2>8 DEF PutRead
    <3>2. LET next == [call[h] EXCEPT !.step = "put_write", !.now = clock]
          IN  next \in Call /\ next.run \in Run
      BY <2>0, <3>1 DEF Call, Steps, TypeOK
    <3>3. Typed(agent', call')
      BY <2>8, <3>2, ProceedKeepsTypes DEF PutRead
    <3> QED BY <2>8, <3>3 DEF TypeOK, Typed, PutRead, history
  <2>9. CASE PutWrite(h)
    <3>1. call[h].step # "idle" /\ call[h].run \in Run /\ Len(writes) + 1 \in Nat
      BY <2>0, <2>9 DEF PutWrite, TypeOK
    <3>2. row' \in Row
      BY <2>9, <3>1, WrittenIsRow DEF PutWrite, TypeOK
    <3>3. writes' \in Seq(WriteRecord)
      <4> DEFINE w == [era |-> purges, expected |-> call[h].version,
                       token |-> call[h].token, run |-> call[h].run]
      <4>1. w \in WriteRecord
        BY <2>0 DEF TypeOK, WriteRecord, Call
      <4>2. writes' = writes \/ writes' = Append(writes, w)
        BY <2>9 DEF PutWrite
      <4> HIDE DEF w
      <4> QED BY <4>1, <4>2 DEF TypeOK
    <3>4. /\ [call[h] EXCEPT !.step = "emit", !.id = Len(writes) + 1] \in Call
          /\ [call[h] EXCEPT !.step = "emit", !.id = Len(writes) + 1].run \in Run
          /\ [call[h] EXCEPT !.step = "put_failed"] \in Call
          /\ [call[h] EXCEPT !.step = "put_failed"].run \in Run
      BY <2>0, <3>1 DEF Call, Steps
    <3>5. Typed(agent', call')
      BY <2>9, <3>4, ProceedKeepsTypes DEF PutWrite
    <3> QED BY <2>9, <3>2, <3>3, <3>5 DEF TypeOK, Typed, PutWrite
  <2>10. CASE PutExplain(h)
    <3>1. \A item : PutFailure(item, call[h].version, call[h].token, call[h].now)
                      \in Answers
      BY DEF PutFailure, Answers
    <3>2. call[h].step # "idle"
      BY <2>10 DEF PutExplain
    <3>3. Typed(agent', call')
      BY <2>10, <3>1, <3>2, ReturnKeepsTypes, AnswersKeepTypes DEF PutExplain, Refuse
    <3> QED BY <2>10, <3>3 DEF TypeOK, Typed, PutExplain, history
  <2>11. CASE PutEmit(h)
    <3>1. /\ call[h].step # "idle"
          /\ call[h].version + 1 \in Nat
          /\ call[h].id \in Nat
      BY <2>0, <2>11 DEF PutEmit, Call
    <3>2. Typed(agent', call')
      BY <2>11, <3>1, ReturnKeepsTypes, AnswersKeepTypes DEF PutEmit, Answers
    <3> QED BY <2>11, <3>1, <3>2 DEF TypeOK, Typed, PutEmit
  <2> QED BY <1>8, <2>1, <2>2, <2>3, <2>4, <2>5, <2>6, <2>7, <2>8, <2>9, <2>10, <2>11
          DEF Serve
<1> QED BY <1>1, <1>2, <1>3, <1>4, <1>5, <1>6, <1>7, <1>8 DEF Next

\* Type correctness of the plane (the records the endpoints exchange).
THEOREM TypeCorrect == Spec => []TypeOK
<1>1. Init => TypeOK
  BY AbsentIsRow, IdleIsCall, FreshAgentIsAgent DEF Init, TypeOK
<1> QED BY <1>1, TypeInductive, PTL DEF Spec

-----------------------------------------------------------------------------
(***************************************************************************)
(* What a step may do to the row and the histories.  Every action of Next  *)
(* falls under one of these six effects; the safety proofs argue about the *)
(* effects and not about the twenty actions.                               *)
(***************************************************************************)
Nothing == UNCHANGED <<row, grants, writes, purges>>

Granting(h, exp) ==
    /\ call[h].step = "claim" /\ CanClaim(row, call[h].now)
    /\ row' = Claimed(row, Len(grants) + 1, call[h].run, exp)
    /\ grants' = Append(grants, call[h].run)
    /\ UNCHANGED <<writes, purges>>

Extending(h) ==
    /\ call[h].step \in {"extend", "renew"} /\ call[h].token = row.token
    /\ row.expires > call[h].now
    /\ row' = Extended(row, call[h].now + call[h].ttl)
    /\ UNCHANGED <<grants, writes, purges>>

Releasing(h) ==
    /\ call[h].step = "release" /\ call[h].token = row.token
    /\ row.token # NoToken
    /\ row' = Released(row)
    /\ UNCHANGED <<grants, writes, purges>>

Writing(h) ==
    /\ CanWrite(row, call[h].token, call[h].version, call[h].now)
    /\ row' = Written(row)
    /\ writes' = Append(writes,
           [era |-> purges, expected |-> call[h].version,
            token |-> call[h].token, run |-> call[h].run])
    /\ UNCHANGED <<grants, purges>>

Purging ==
    /\ row.token # NoToken /\ row.expires <= clock
    /\ row' = Absent
    /\ purges' = purges + 1
    /\ UNCHANGED <<grants, writes>>

Effect ==
    \/ Nothing
    \/ \E h \in Handler, exp \in Nat : Granting(h, exp)
    \/ \E h \in Handler : Extending(h) \/ Releasing(h) \/ Writing(h)
    \/ Purging

LEMMA StepsHaveEffects == TypeOK /\ [Next]_vars => Effect
<1> SUFFICES ASSUME TypeOK, [Next]_vars PROVE Effect
  OBVIOUS
<1>1. CASE UNCHANGED vars
  BY <1>1 DEF vars, Effect, Nothing
<1>2. CASE Tick \/ Replicate
  BY <1>2 DEF Tick, Replicate, history, Effect, Nothing
<1>3. CASE Purge
  BY <1>3 DEF Purge, Effect, Purging
<1>4. ASSUME NEW r \in Run, Act(r) PROVE Effect
  BY <1>4 DEF Act, Read, Timeout, AgentRestart, history, Effect, Nothing
<1>5. ASSUME NEW r \in Run, NEW h \in Handler, Request(r, h) PROVE Effect
  BY <1>5 DEF Request, SendAcquire, SendRenew, SendRelease, SendPut, Send,
              Effect, Nothing
<1>6. ASSUME NEW h \in Handler, HandlerCrash(h) PROVE Effect
  BY <1>6 DEF HandlerCrash, history, Effect, Nothing
<1>7. ASSUME NEW h \in Handler, Serve(h) PROVE Effect
  <2> DEFINE exp == call[h].now + call[h].ttl
  <2>1. call[h].now \in Nat /\ exp \in Nat
    BY DEF TypeOK, Call
  <2>2. CASE AcquireRead(h) \/ AcquireRecheck(h) \/ RenewExplain(h)
             \/ PutRead(h) \/ PutExplain(h) \/ PutEmit(h)
    BY <2>2 DEF AcquireRead, AcquireRecheck, RenewExplain, PutRead, PutExplain,
                PutEmit, history, Effect, Nothing
  <2>3. CASE AcquireExtend(h)
    <3>1. Nothing \/ Extending(h)
      BY <2>3 DEF AcquireExtend, CanExtend, history, Nothing, Extending
    <3> QED BY <3>1 DEF Effect
  <2>4. CASE AcquireClaim(h)
    <3>1. Nothing \/ Granting(h, exp)
      BY <2>4 DEF AcquireClaim, Nothing, Granting
    <3> QED BY <2>1, <3>1 DEF Effect
  <2>5. CASE Renew(h)
    <3>1. Nothing \/ Extending(h)
      BY <2>5 DEF Renew, CanRenew, history, Nothing, Extending
    <3> QED BY <3>1 DEF Effect
  <2>6. CASE Release(h)
    BY <2>6 DEF Release, CanRelease, history, Effect, Nothing, Releasing
  <2>7. CASE PutWrite(h)
    <3>1. Nothing \/ Writing(h)
      BY <2>7 DEF PutWrite, Nothing, Writing
    <3> QED BY <3>1 DEF Effect
  <2> QED BY <1>7, <2>2, <2>3, <2>4, <2>5, <2>6, <2>7 DEF Serve
<1> QED BY <1>1, <1>2, <1>3, <1>4, <1>5, <1>6, <1>7 DEF Next
-----------------------------------------------------------------------------
(***************************************************************************)
(* The inductive invariant.  FencingOrder alone is not inductive: it needs *)
(* that the lease in force is always the newest grant (a write is made     *)
(* under the token in the row) and that a row without a token cannot pass  *)
(* a condition on lease_expires_at.  OneWritePerVersion needs that the row *)
(* is ahead of every write of its incarnation.                             *)
(***************************************************************************)
\* The token in the row is the newest grant, or there is none, and then
\* there is no expiry either.
TokenIsNewest ==
    \/ row.token = NoToken /\ row.expires = 0
    \/ row.token = Len(grants) /\ row.token # NoToken

\* Every write was made under a lease that had been granted.
WritesWereGranted ==
    \A i \in DOMAIN writes : writes[i].token \in 1..Len(grants)

\* The row is ahead of every write of its incarnation.
RowIsAhead ==
    \A i \in DOMAIN writes :
        /\ writes[i].era <= purges
        /\ writes[i].era = purges => writes[i].expected < row.version

RowInv ==
    /\ TokenIsNewest
    /\ WritesWereGranted
    /\ RowIsAhead
    /\ FencingOrder
    /\ OneWritePerVersion

\* The writes that were applied stay as they are; one more may follow.
LEMMA WritesGrow ==
    ASSUME TypeOK, NEW h \in Handler, Writing(h)
    PROVE  /\ Len(writes) \in Nat /\ Len(writes') = Len(writes) + 1
           /\ \A i \in 1..Len(writes) : writes'[i] = writes[i]
           /\ writes'[Len(writes) + 1].era = purges
           /\ writes'[Len(writes) + 1].expected = call[h].version
           /\ writes'[Len(writes) + 1].token = call[h].token
           /\ DOMAIN writes = 1..Len(writes)
           /\ DOMAIN writes' = 1..(Len(writes) + 1)
<1> DEFINE w == [era |-> purges, expected |-> call[h].version,
                 token |-> call[h].token, run |-> call[h].run]
<1>1. writes \in Seq(WriteRecord) /\ writes' = Append(writes, w)
  BY DEF TypeOK, Writing
<1>2. w \in WriteRecord
  BY DEF TypeOK, WriteRecord, Call
<1>3. w.era = purges /\ w.expected = call[h].version /\ w.token = call[h].token
  OBVIOUS
<1> HIDE DEF w
<1>4. /\ Len(writes) \in Nat /\ Len(writes') = Len(writes) + 1
      /\ \A i \in 1..Len(writes) : writes'[i] = writes[i]
      /\ writes'[Len(writes) + 1] = w
      /\ DOMAIN writes = 1..Len(writes)
      /\ DOMAIN writes' = 1..(Len(writes) + 1)
  BY <1>1, <1>2
<1> QED BY <1>3, <1>4

LEMMA RowInvInductive == TypeOK /\ RowInv /\ Effect => RowInv'
<1> SUFFICES ASSUME TypeOK, RowInv, Effect PROVE RowInv'
  OBVIOUS
<1>0. /\ row \in Row /\ row.token \in Nat /\ row.version \in Nat /\ row.expires \in Nat
      /\ Len(grants) \in Nat
      /\ purges \in Nat
      /\ \A i \in DOMAIN writes : /\ writes[i].era \in Nat
                                  /\ writes[i].expected \in Nat
                                  /\ writes[i].token \in Nat
  <2>1. row \in Row /\ Len(grants) \in Nat /\ purges \in Nat
    BY DEF TypeOK
  <2>2. row.token \in Nat /\ row.version \in Nat /\ row.expires \in Nat
    BY <2>1 DEF Row
  <2>3. \A i \in DOMAIN writes : writes[i] \in WriteRecord
    BY DEF TypeOK
  <2> QED BY <2>1, <2>2, <2>3 DEF WriteRecord
<1>1. CASE Nothing
  BY <1>1 DEF Nothing, RowInv, TokenIsNewest, WritesWereGranted, RowIsAhead,
              FencingOrder, OneWritePerVersion
<1>2. ASSUME NEW h \in Handler, NEW exp \in Nat, Granting(h, exp) PROVE RowInv'
  <2>1. /\ writes' = writes /\ purges' = purges
        /\ row'.token = Len(grants) + 1 /\ row'.version = row.version
    BY <1>0, <1>2 DEF Granting, Claimed, Row
  <2>2. Len(grants') = Len(grants) + 1
    <3>1. call[h].run \in Run
      BY <1>2 DEF Granting, TypeOK
    <3> QED BY <1>2, <3>1 DEF Granting, TypeOK
  <2>3. TokenIsNewest'
    BY <1>0, <2>1, <2>2 DEF TokenIsNewest, NoToken
  <2>4. WritesWereGranted'
    BY <1>0, <2>1, <2>2 DEF RowInv, WritesWereGranted
  <2> QED BY <2>1, <2>3, <2>4 DEF RowInv, RowIsAhead, FencingOrder, OneWritePerVersion
<1>3. ASSUME NEW h \in Handler, Extending(h) PROVE RowInv'
  <2>1. /\ UNCHANGED <<grants, writes, purges>>
        /\ row'.token = row.token /\ row'.version = row.version
    BY <1>0, <1>3 DEF Extending, Extended, Row
  <2>2. TokenIsNewest'
    <3>1. call[h].now \in Nat /\ row.expires > call[h].now
      BY <1>3 DEF Extending, TypeOK, Call
    <3> QED BY <1>0, <2>1, <3>1 DEF RowInv, TokenIsNewest
  <2> QED BY <2>1, <2>2 DEF RowInv, WritesWereGranted, RowIsAhead, FencingOrder,
                            OneWritePerVersion
<1>4. ASSUME NEW h \in Handler, Releasing(h) PROVE RowInv'
  <2>1. /\ UNCHANGED <<grants, writes, purges>>
        /\ row'.token = NoToken /\ row'.expires = 0 /\ row'.version = row.version
    BY <1>0, <1>4 DEF Releasing, Released, Row
  <2> QED BY <2>1 DEF RowInv, TokenIsNewest, WritesWereGranted, RowIsAhead,
                      FencingOrder, OneWritePerVersion
<1>5. ASSUME NEW h \in Handler, Writing(h) PROVE RowInv'
  <2>1. /\ grants' = grants /\ purges' = purges
        /\ row'.token = row.token /\ row'.expires = row.expires
        /\ row'.version = row.version + 1
    BY <1>0, <1>5 DEF Writing, Written, Row
  <2>2. /\ row.token = call[h].token /\ row.version = call[h].version
        /\ row.expires > call[h].now
        /\ call[h].now \in Nat
    BY <1>5 DEF Writing, CanWrite, TypeOK, Call
  <2>3. row.token \in 1..Len(grants)
    BY <1>0, <2>2 DEF RowInv, TokenIsNewest, NoToken
  <2>4. TokenIsNewest'
    BY <2>1 DEF RowInv, TokenIsNewest
  <2>5. WritesWereGranted'
    BY <1>0, <1>5, <2>1, <2>2, <2>3, WritesGrow DEF RowInv, WritesWereGranted
  <2>6. RowIsAhead'
    <3> SUFFICES ASSUME NEW i \in DOMAIN writes'
        PROVE  /\ writes'[i].era <= purges'
               /\ writes'[i].era = purges' => writes'[i].expected < row'.version
      BY DEF RowIsAhead
    <3>1. purges' = purges
      BY <1>5 DEF Writing
    <3>2. CASE i = Len(writes) + 1
      BY <1>0, <1>5, <2>1, <2>2, <3>1, <3>2, WritesGrow
    <3>3. CASE i \in DOMAIN writes
      <4>1. writes'[i] = writes[i]
        BY <1>5, <3>3, WritesGrow
      <4>2. /\ writes[i].era <= purges
            /\ writes[i].era = purges => writes[i].expected < row.version
            /\ writes[i].expected \in Nat
        BY <1>0, <3>3 DEF RowInv, RowIsAhead
      <4> QED BY <1>0, <2>1, <3>1, <4>1, <4>2
    <3>4. i = Len(writes) + 1 \/ i \in DOMAIN writes
      BY <1>5, WritesGrow
    <3> QED BY <3>2, <3>3, <3>4
  <2>7. FencingOrder'
    <3> SUFFICES ASSUME NEW i \in DOMAIN writes', NEW j \in DOMAIN writes', i < j
                 PROVE  writes'[i].token <= writes'[j].token
      BY DEF FencingOrder
    <3>1. CASE j = Len(writes) + 1
      <4>1. i \in DOMAIN writes /\ writes'[i] = writes[i]
        BY <1>5, <3>1, WritesGrow
      <4>2. row.token = Len(grants)
        BY <1>0, <2>2 DEF RowInv, TokenIsNewest
      <4>3. writes'[i].token \in 1..Len(grants)
        BY <4>1 DEF RowInv, WritesWereGranted
      <4>4. writes'[j].token = row.token
        BY <1>5, <2>2, <3>1, WritesGrow
      <4> QED BY <1>0, <4>2, <4>3, <4>4
    <3>2. CASE j # Len(writes) + 1
      BY <1>5, <3>2, WritesGrow DEF RowInv, FencingOrder
    <3> QED BY <3>1, <3>2
  <2>8. OneWritePerVersion'
    <3> SUFFICES ASSUME NEW i \in DOMAIN writes', NEW j \in DOMAIN writes', i < j,
                        writes'[i].era = writes'[j].era
                 PROVE  writes'[i].expected < writes'[j].expected
      BY DEF OneWritePerVersion
    <3>1. CASE j = Len(writes) + 1
      <4>1. i \in DOMAIN writes /\ writes'[i] = writes[i]
        BY <1>5, <3>1, WritesGrow
      <4> QED BY <1>0, <1>5, <2>2, <3>1, <4>1, WritesGrow DEF RowInv, RowIsAhead
    <3>2. CASE j # Len(writes) + 1
      BY <1>5, <3>2, WritesGrow DEF RowInv, OneWritePerVersion
    <3> QED BY <3>1, <3>2
  <2> QED BY <2>4, <2>5, <2>6, <2>7, <2>8 DEF RowInv
<1>6. CASE Purging
  <2>1. /\ UNCHANGED <<grants, writes>> /\ purges' = purges + 1
        /\ row'.token = NoToken /\ row'.expires = 0
    BY <1>6 DEF Purging, Absent
  <2>2. RowIsAhead'
    BY <1>0, <2>1 DEF RowInv, RowIsAhead
  <2> QED BY <2>1, <2>2 DEF RowInv, TokenIsNewest, WritesWereGranted, FencingOrder,
                            OneWritePerVersion
<1> QED BY <1>1, <1>2, <1>3, <1>4, <1>5, <1>6 DEF Effect
(***************************************************************************)
(* Time and the audit log: no request carries a time that has not come,    *)
(* and a handler that is about to emit names a write that happened.        *)
(***************************************************************************)
CallInv ==
    \A h \in Handler :
        /\ call[h].now <= clock
        /\ call[h].step = "emit" => call[h].id \in DOMAIN writes

LEMMA CallInvInductive ==
    TypeOK /\ CallInv /\ EventsFollowWrites /\ [Next]_vars
      => CallInv' /\ EventsFollowWrites'
<1> SUFFICES ASSUME TypeOK, CallInv, EventsFollowWrites, [Next]_vars
             PROVE  CallInv' /\ EventsFollowWrites'
  OBVIOUS
<1> USE DEF CallInv, EventsFollowWrites
<1>0. /\ call \in [Handler -> Call] /\ clock \in Nat
      /\ \A h \in Handler : call[h].now \in Nat /\ call[h] \in Call
      /\ Idle.now = 0 /\ Idle.step = "idle" /\ Idle \in Call
  BY IdleIsCall DEF TypeOK, Call, Idle
<1>1. CASE UNCHANGED vars
  BY <1>1 DEF vars
<1>2. CASE Tick
  BY <1>0, <1>2 DEF Tick, history
<1>3. CASE Replicate \/ Purge
  BY <1>3 DEF Replicate, Purge, history
<1>4. ASSUME NEW r \in Run, Act(r) PROVE CallInv' /\ EventsFollowWrites'
  BY <1>4 DEF Act, Read, Timeout, AgentRestart, history
<1>5. ASSUME NEW r \in Run, NEW h \in Handler, Request(r, h)
      PROVE  CallInv' /\ EventsFollowWrites'
  <2>1. \E c : /\ Send(r, h, c)
               /\ c.now \in {0, clock}
               /\ c.step # "emit"
    <3>1. CASE SendAcquire(r, h)
      <4> PICK ttl \in TTL :
            Send(r, h, [Idle EXCEPT !.step = "acquire", !.run = r, !.now = clock,
                            !.ttl = ttl])
        BY <3>1 DEF SendAcquire
      <4> DEFINE c == [Idle EXCEPT !.step = "acquire", !.run = r, !.now = clock,
                            !.ttl = ttl]
      <4>1. c.now \in {0, clock} /\ c.step # "emit"
        BY DEF Idle
      <4>2. Send(r, h, c)
        OBVIOUS
      <4> HIDE DEF c
      <4> QED BY <4>1, <4>2
    <3>2. CASE SendRenew(r, h)
      <4> PICK ttl \in TTL :
            Send(r, h, [Idle EXCEPT !.step = "renew", !.run = r, !.now = clock,
                            !.ttl = ttl, !.token = agent[r].token])
        BY <3>2 DEF SendRenew
      <4> DEFINE c == [Idle EXCEPT !.step = "renew", !.run = r, !.now = clock,
                            !.ttl = ttl, !.token = agent[r].token]
      <4>1. c.now \in {0, clock} /\ c.step # "emit"
        BY DEF Idle
      <4>2. Send(r, h, c)
        OBVIOUS
      <4> HIDE DEF c
      <4> QED BY <4>1, <4>2
    <3>3. CASE SendRelease(r, h)
      <4> DEFINE c == [Idle EXCEPT !.step = "release", !.run = r,
                            !.token = agent[r].token]
      <4>1. c.now \in {0, clock} /\ c.step # "emit"
        BY DEF Idle
      <4>2. Send(r, h, c)
        BY <3>3 DEF SendRelease
      <4> HIDE DEF c
      <4> QED BY <4>1, <4>2
    <3>4. CASE SendPut(r, h)
      <4> DEFINE c == [Idle EXCEPT !.step = "put", !.run = r,
                            !.token = agent[r].token,
                            !.version = agent[r].version]
      <4>1. c.now \in {0, clock} /\ c.step # "emit"
        BY DEF Idle
      <4>2. Send(r, h, c)
        BY <3>4 DEF SendPut
      <4> HIDE DEF c
      <4> QED BY <4>1, <4>2
    <3> QED BY <1>5, <3>1, <3>2, <3>3, <3>4 DEF Request
  <2>2. PICK c : Send(r, h, c) /\ c.now \in {0, clock} /\ c.step # "emit"
    BY <2>1
  <2>3. /\ clock' = clock /\ writes' = writes /\ events' = events
        /\ call' = [call EXCEPT ![h] = c]
    BY <2>2 DEF Send
  <2>4. c.now <= clock
    BY <1>0, <2>2
  <2> QED BY <1>0, <2>2, <2>3, <2>4
<1>6. ASSUME NEW h \in Handler, HandlerCrash(h) PROVE CallInv' /\ EventsFollowWrites'
  BY <1>0, <1>6 DEF HandlerCrash, history
<1>7. ASSUME NEW h \in Handler, Serve(h) PROVE CallInv' /\ EventsFollowWrites'
  <2>1. ASSUME NEW know, Return(h, know), clock' = clock, writes' = writes,
               events' \subseteq DOMAIN writes
        PROVE  CallInv' /\ EventsFollowWrites'
    BY <1>0, <2>1 DEF Return
  <2>2. ASSUME NEW next, Proceed(h, next), clock' = clock, events' = events,
               DOMAIN writes \subseteq DOMAIN writes', next.now <= clock,
               next.step = "emit" => next.id \in DOMAIN writes'
        PROVE  CallInv' /\ EventsFollowWrites'
    BY <1>0, <2>2 DEF Proceed
  <2>3. /\ \A s \in {"claim", "recheck", "renew_failed", "put_failed"} :
              /\ [call[h] EXCEPT !.step = s].step # "emit"
              /\ [call[h] EXCEPT !.step = s].now <= clock
        /\ \A t : /\ [call[h] EXCEPT !.step = "extend", !.token = t].step # "emit"
                  /\ [call[h] EXCEPT !.step = "extend", !.token = t].now <= clock
    BY <1>0 DEF Call
  <2>4. CASE AcquireRead(h)
    BY <1>0, <2>1, <2>2, <2>3, <2>4 DEF AcquireRead, Refuse, history
  <2>5. CASE AcquireExtend(h) \/ Release(h)
    BY <2>1, <2>5 DEF AcquireExtend, Release, Refuse, history
  <2>6. CASE AcquireClaim(h)
    BY <1>0, <2>1, <2>2, <2>3, <2>6 DEF AcquireClaim
  <2>7. CASE AcquireRecheck(h)
    BY <2>1, <2>7 DEF AcquireRecheck, Refuse, history
  <2>8. CASE Renew(h)
    BY <1>0, <2>1, <2>2, <2>3, <2>8 DEF Renew, history
  <2>9. CASE RenewExplain(h)
    BY <2>1, <2>9 DEF RenewExplain, Refuse, history
  <2>10. CASE PutRead(h)
    <3>1. LET next == [call[h] EXCEPT !.step = "put_write", !.now = clock]
          IN  next.step # "emit" /\ next.now <= clock
      BY <1>0 DEF Call
    <3> QED BY <2>2, <2>10, <3>1 DEF PutRead, history
  <2>11. CASE PutWrite(h)
    <3>1. CASE Writing(h)
      <4> DEFINE next == [call[h] EXCEPT !.step = "emit", !.id = Len(writes) + 1]
      <4>1. next.now <= clock /\ next.id = Len(writes) + 1
        BY <1>0 DEF Call
      <4>2. Proceed(h, next) /\ clock' = clock /\ events' = events
        BY <2>11, <3>1 DEF PutWrite, Writing
      <4>3. DOMAIN writes \subseteq DOMAIN writes' /\ next.id \in DOMAIN writes'
        BY <3>1, <4>1, WritesGrow
      <4> HIDE DEF next
      <4> QED BY <2>2, <4>1, <4>2, <4>3
    <3>2. CASE ~CanWrite(row, call[h].token, call[h].version, call[h].now)
      BY <1>0, <2>2, <2>3, <2>11, <3>2 DEF PutWrite
    <3> QED BY <2>11, <3>1, <3>2 DEF PutWrite, Writing
  <2>12. CASE PutExplain(h)
    BY <2>1, <2>12 DEF PutExplain, Refuse, history
  <2>13. CASE PutEmit(h)
    <3>1. events' \subseteq DOMAIN writes
      BY <2>13 DEF PutEmit
    <3> QED BY <2>1, <2>13, <3>1 DEF PutEmit
  <2> QED BY <1>7, <2>4, <2>5, <2>6, <2>7, <2>8, <2>9, <2>10, <2>11, <2>12, <2>13
          DEF Serve
<1> QED BY <1>1, <1>2, <1>3, <1>4, <1>5, <1>6, <1>7 DEF Next
-----------------------------------------------------------------------------
(***************************************************************************)
(* Whoever names a token, in the row, in an image of it, in what an agent  *)
(* was told or in a request, is the run that the token was granted to.     *)
(***************************************************************************)
Owns(tok, r) == tok # NoToken => tok \in DOMAIN grants /\ grants[tok] = r

OwnerInv ==
    /\ Owns(row.token, row.owner)
    /\ Owns(replica.token, replica.owner)
    /\ \A r \in Run : Owns(agent[r].token, r)
    /\ \A h \in Handler : Owns(call[h].token, call[h].run)

\* What a token was granted to does not change.
GrantsKept ==
    \A k \in DOMAIN grants : k \in DOMAIN grants' /\ grants'[k] = grants[k]

LEMMA GrantsStay ==
    ASSUME TypeOK, \/ UNCHANGED grants
                   \/ \E r \in Run : grants' = Append(grants, r)
    PROVE  GrantsKept
<1>1. CASE UNCHANGED grants
  BY <1>1 DEF GrantsKept
<1>2. ASSUME NEW q \in Run, grants' = Append(grants, q) PROVE GrantsKept
  <2>1. grants \in Seq(Run)
    BY DEF TypeOK
  <2>2. grants' \in Seq(Run) /\ Len(grants') = Len(grants) + 1 /\ Len(grants) \in Nat
    BY <1>2, <2>1
  <2>3. \A i \in 1..Len(grants) : grants'[i] = grants[i]
    BY <1>2, <2>1
  <2>4. DOMAIN grants = 1..Len(grants) /\ DOMAIN grants' = 1..Len(grants')
    BY <2>1, <2>2
  <2> QED BY <2>2, <2>3, <2>4 DEF GrantsKept
<1> QED BY <1>1, <1>2

\* The answers and the next steps of handlers.
LEMMA ReturnOwns ==
    ASSUME TypeOK, OwnerInv, NEW h \in Handler, NEW know, NEW q \in Run, q = call[h].run,
           Owns(know.token, q)', Return(h, know), GrantsKept
    PROVE  /\ \A r \in Run : Owns(agent[r].token, r)'
           /\ \A g \in Handler : Owns(call[g].token, call[g].run)'
<1>1. /\ \A r \in Run : agent[r].token \in Nat
      /\ \A g \in Handler : call[g].token \in Nat
  BY DEF TypeOK, Agent, Call
<1>2. ASSUME NEW r \in Run PROVE Owns(agent[r].token, r)'
  <2>1. Owns(agent[r].token, r)
    BY DEF OwnerInv
  <2>2. CASE agent' = agent
    BY <1>1, <2>1, <2>2 DEF GrantsKept, Owns
  <2>3. CASE agent' = [agent EXCEPT ![q] = know]
    <3>1. agent'[r] = IF r = q THEN know ELSE agent[r]
      BY <2>3 DEF TypeOK
    <3> QED BY <1>1, <2>1, <3>1 DEF GrantsKept, Owns
  <2> QED BY <2>2, <2>3 DEF Return
<1>3. ASSUME NEW g \in Handler PROVE Owns(call[g].token, call[g].run)'
  <2>1. call'[g] = IF g = h THEN Idle ELSE call[g]
    BY DEF TypeOK, Return
  <2>2. Owns(call[g].token, call[g].run)
    BY DEF OwnerInv
  <2> QED BY <1>1, <2>1, <2>2 DEF GrantsKept, Owns, Idle
<1> QED BY <1>2, <1>3

LEMMA ProceedOwns ==
    ASSUME TypeOK, OwnerInv, NEW h \in Handler, NEW next, Owns(next.token, next.run)',
           Proceed(h, next), GrantsKept
    PROVE  /\ \A r \in Run : Owns(agent[r].token, r)'
           /\ \A g \in Handler : Owns(call[g].token, call[g].run)'
<1>1. /\ \A r \in Run : agent[r].token \in Nat
      /\ \A g \in Handler : call[g].token \in Nat
  BY DEF TypeOK, Agent, Call
<1>2. UNCHANGED agent /\ \A g \in Handler : call'[g] = IF g = h THEN next ELSE call[g]
  BY DEF TypeOK, Proceed
<1> QED BY <1>1, <1>2 DEF GrantsKept, OwnerInv, Owns

LEMMA OwnerInvInductive ==
    ASSUME TypeOK, OwnerInv, [Next]_vars
    PROVE  OwnerInv'
<1>0. /\ Effect /\ row \in Row /\ replica \in Row /\ grants \in Seq(Run) /\ Len(grants) \in Nat
      /\ row.token \in Nat /\ replica.token \in Nat
      /\ \A r \in Run : agent[r].token \in Nat /\ Owns(agent[r].token, r)
      /\ \A h \in Handler : call[h].token \in Nat /\ Owns(call[h].token, call[h].run)
  <2>1. Effect
    BY StepsHaveEffects
  <2>2. row \in Row /\ replica \in Row /\ grants \in Seq(Run) /\ Len(grants) \in Nat
    BY DEF TypeOK
  <2> QED BY <2>1, <2>2 DEF TypeOK, Row, Agent, Call, OwnerInv
<1>1. UNCHANGED grants \/ \E r \in Run : grants' = Append(grants, r)
  <2>1. ASSUME NEW h \in Handler, NEW exp \in Nat, Granting(h, exp)
        PROVE  \E r \in Run : grants' = Append(grants, r)
    BY <2>1 DEF Granting, TypeOK
  <2> QED BY <1>0, <2>1 DEF Effect, Nothing, Extending, Releasing, Writing, Purging
<1>2. GrantsKept
  BY <1>1, GrantsStay
<1>3. Owns(row.token, row.owner)'
  <2>0. Owns(row.token, row.owner)
    BY DEF OwnerInv
  <2>1. CASE row'.token = row.token /\ row'.owner = row.owner
    BY <1>0, <1>2, <2>0, <2>1 DEF GrantsKept, Owns
  <2>2. CASE row'.token = NoToken
    BY <2>2 DEF GrantsKept, Owns
  <2>3. ASSUME NEW h \in Handler, NEW exp \in Nat, Granting(h, exp) PROVE Owns(row.token, row.owner)'
    <3>1. PICK r \in Run : r = call[h].run
      BY <2>3 DEF Granting, TypeOK
    <3>2. row'.token = Len(grants) + 1 /\ row'.owner = r
      BY <1>0, <2>3, <3>1 DEF Granting, Claimed, Row
    <3>3. DOMAIN grants' = 1..(Len(grants) + 1) /\ grants'[Len(grants) + 1] = r
      BY <1>0, <2>3, <3>1 DEF Granting
    <3> QED BY <1>0, <3>2, <3>3 DEF GrantsKept, Owns
  <2>4. ASSUME NEW h \in Handler, Extending(h) \/ Writing(h)
        PROVE  row'.token = row.token /\ row'.owner = row.owner
    BY <1>0, <2>4 DEF Extending, Extended, Writing, Written, Row
  <2>5. ASSUME NEW h \in Handler, Releasing(h) PROVE row'.token = NoToken
    BY <1>0, <2>5 DEF Releasing, Released, Row
  <2>6. Purging => row'.token = NoToken
    BY DEF Purging, Absent
  <2> QED BY <1>0, <2>1, <2>2, <2>3, <2>4, <2>5, <2>6 DEF Effect, Nothing
<1>4. Owns(replica.token, replica.owner)'
  <2>1. replica' = replica \/ replica' = row
    BY DEF Next, vars, Tick, Replicate, Purge, Act, Read, Timeout, AgentRestart, Request,
           SendAcquire, SendRenew, SendRelease, SendPut, Send, Serve, HandlerCrash, history,
           AcquireRead, AcquireExtend, AcquireClaim, AcquireRecheck, Renew, RenewExplain,
           Release, PutRead, PutWrite, PutExplain, PutEmit
  <2> QED BY <1>0, <1>2, <2>1 DEF GrantsKept, OwnerInv, Owns
<1> DEFINE Known == /\ \A r \in Run : Owns(agent[r].token, r)
                    /\ \A h \in Handler : Owns(call[h].token, call[h].run)
<1>5. Known'
  <2>1. CASE UNCHANGED <<agent, call>>
    BY <1>0, <1>2, <2>1 DEF GrantsKept, Owns
  <2>2. ASSUME NEW r \in Run, Act(r) PROVE Known'
    <3>1. UNCHANGED call /\ \E new : /\ agent' = [agent EXCEPT ![r] = new]
                                     /\ new.token \in {agent[r].token, NoToken}
      <4>1. CASE Read(r)
        <5> DEFINE Shown(item) == [agent[r] EXCEPT
                     !.version = item.version,
                     !.answer = IF item.exists THEN "ok" ELSE "not_found"]
        <5>1. PICK item \in Readable : agent' = [agent EXCEPT ![r] = Shown(item)]
          BY <4>1 DEF Read
        <5>2. Shown(item).token = agent[r].token
          BY DEF TypeOK, Agent
        <5> HIDE DEF Shown
        <5> QED BY <4>1, <5>1, <5>2 DEF Read
      <4>2. CASE Timeout(r)
        <5> DEFINE new == [agent[r] EXCEPT !.wait = NoHandler, !.answer = "transport"]
        <5>1. new.token = agent[r].token /\ agent' = [agent EXCEPT ![r] = new]
          BY <4>2 DEF TypeOK, Agent, Timeout
        <5> HIDE DEF new
        <5> QED BY <4>2, <5>1 DEF Timeout
      <4>3. CASE AgentRestart(r)
        <5>1. FreshAgent.token = NoToken
          BY DEF FreshAgent
        <5> QED BY <4>3, <5>1 DEF AgentRestart
      <4> QED BY <2>2, <4>1, <4>2, <4>3 DEF Act
    <3>2. PICK new : agent' = [agent EXCEPT ![r] = new] /\ new.token \in {agent[r].token, NoToken}
      BY <3>1
    <3>3. \A q \in Run : agent'[q] = IF q = r THEN new ELSE agent[q]
      BY <3>2 DEF TypeOK
    <3> QED BY <1>0, <1>2, <3>1, <3>2, <3>3 DEF GrantsKept, Owns
  <2>3. ASSUME NEW r \in Run, NEW h \in Handler, Request(r, h) PROVE Known'
    <3>1. \E c : Send(r, h, c) /\ c.run = r /\ c.token \in {agent[r].token, NoToken}
      <4>1. CASE SendAcquire(r, h)
        <5> PICK ttl \in TTL :
              Send(r, h, [Idle EXCEPT !.step = "acquire", !.run = r, !.now = clock, !.ttl = ttl])
          BY <4>1 DEF SendAcquire
        <5> DEFINE c == [Idle EXCEPT !.step = "acquire", !.run = r, !.now = clock, !.ttl = ttl]
        <5>1. Send(r, h, c) /\ c.run = r /\ c.token = NoToken
          BY DEF Idle
        <5> HIDE DEF c
        <5> QED BY <5>1
      <4>2. CASE SendRenew(r, h)
        <5> PICK ttl \in TTL :
              Send(r, h, [Idle EXCEPT !.step = "renew", !.run = r, !.now = clock, !.ttl = ttl,
                                      !.token = agent[r].token])
          BY <4>2 DEF SendRenew
        <5> DEFINE c == [Idle EXCEPT !.step = "renew", !.run = r, !.now = clock, !.ttl = ttl,
                                     !.token = agent[r].token]
        <5>1. Send(r, h, c) /\ c.run = r /\ c.token = agent[r].token
          BY DEF Idle
        <5> HIDE DEF c
        <5> QED BY <5>1
      <4>3. CASE SendRelease(r, h)
        <5> DEFINE c == [Idle EXCEPT !.step = "release", !.run = r, !.token = agent[r].token]
        <5>1. Send(r, h, c) /\ c.run = r /\ c.token = agent[r].token
          BY <4>3 DEF Idle, SendRelease
        <5> HIDE DEF c
        <5> QED BY <5>1
      <4>4. CASE SendPut(r, h)
        <5> DEFINE c == [Idle EXCEPT !.step = "put", !.run = r, !.token = agent[r].token,
                                     !.version = agent[r].version]
        <5>1. Send(r, h, c) /\ c.run = r /\ c.token = agent[r].token
          BY <4>4 DEF Idle, SendPut
        <5> HIDE DEF c
        <5> QED BY <5>1
      <4> QED BY <2>3, <4>1, <4>2, <4>3, <4>4 DEF Request
    <3>2. PICK c : Send(r, h, c) /\ c.run = r /\ c.token \in {agent[r].token, NoToken}
      BY <3>1
    <3>3. \A g \in Handler : call'[g] = IF g = h THEN c ELSE call[g]
      BY <3>2 DEF Send, TypeOK
    <3>4. \A q \in Run : agent'[q].token = agent[q].token
      <4> DEFINE new == [agent[r] EXCEPT !.wait = h, !.answer = "none"]
      <4>1. agent' = [agent EXCEPT ![r] = new]
        BY <3>2 DEF Send
      <4>2. new.token = agent[r].token
        BY DEF TypeOK, Agent
      <4> HIDE DEF new
      <4> QED BY <4>1, <4>2 DEF TypeOK
    <3> QED BY <1>0, <1>2, <3>2, <3>3, <3>4 DEF GrantsKept, Owns
  <2>4. ASSUME NEW h \in Handler, HandlerCrash(h) PROVE Known'
    <3>1. UNCHANGED agent /\ \A g \in Handler : call'[g] = IF g = h THEN Idle ELSE call[g]
      BY <2>4 DEF HandlerCrash, TypeOK
    <3> QED BY <1>0, <1>2, <3>1 DEF GrantsKept, Owns, Idle
  <2>5. ASSUME NEW h \in Handler, Serve(h) PROVE Known'
    <3>1. PICK r \in Run : r = call[h].run
      BY <2>5 DEF TypeOK, Serve, AcquireRead, AcquireExtend, AcquireClaim, AcquireRecheck,
                  Renew, RenewExplain, Release, PutRead, PutWrite, PutExplain, PutEmit
    <3>2. ASSUME NEW know, Return(h, know), Owns(know.token, r)' PROVE Known'
      BY <1>2, <3>1, <3>2, ReturnOwns
    <3>3. ASSUME NEW next, Proceed(h, next), Owns(next.token, next.run)' PROVE Known'
      BY <1>2, <3>3, ProceedOwns
    <3>4. PICK old \in Nat, tok \in Nat : old = agent[r].token /\ tok = call[h].token
      BY <1>0
    <3>5. Owns(old, r)' /\ Owns(tok, r)'
      BY <1>0, <1>2, <3>1, <3>4 DEF GrantsKept, Owns
    <3>6. ASSUME NEW code
          PROVE  /\ Told(h, code).token = old
                 /\ \A n : [Told(h, code) EXCEPT !.token = n].token = n
                 /\ \A n : [Told(h, code) EXCEPT !.version = n].token = old
      <4>1. agent[r] \in Agent
        BY DEF TypeOK
      <4> QED BY <3>1, <3>4, <4>1 DEF Told, Agent
    <3>7. \A code : Refuse(h, code) => Known'
      BY <3>2, <3>5, <3>6 DEF Refuse
    <3>8. \A s : [call[h] EXCEPT !.step = s].token = tok /\ [call[h] EXCEPT !.step = s].run = r
      BY <3>1, <3>4 DEF TypeOK, Call
    <3>9. CASE AcquireRead(h)
      <4>1. PICK item \in Readable :
              IF ~Live(item, call[h].now)
              THEN Proceed(h, [call[h] EXCEPT !.step = "claim"])
              ELSE IF item.owner = call[h].run
              THEN Proceed(h, [call[h] EXCEPT !.step = "extend", !.token = item.token])
              ELSE Refuse(h, "lease_held")
        BY <3>9 DEF AcquireRead
      <4>2. item.token \in Nat /\ Owns(item.token, item.owner)'
        BY <1>0, <1>2 DEF GrantsKept, Owns, OwnerInv, Readable
      <4>3. CASE item.owner = r
        <5> DEFINE c == [call[h] EXCEPT !.step = "extend", !.token = item.token]
        <5>1. c.token = item.token /\ c.run = r
          BY <3>1 DEF TypeOK, Call
        <5> HIDE DEF c
        <5>2. Proceed(h, c) => Known'
          BY <3>3, <4>2, <4>3, <5>1
        <5>3. Proceed(h, [call[h] EXCEPT !.step = "claim"]) => Known'
          BY <3>3, <3>5, <3>8
        <5> QED BY <3>1, <3>7, <4>1, <5>2, <5>3 DEF c
      <4>4. CASE item.owner # r
        BY <3>1, <3>3, <3>5, <3>7, <3>8, <4>1, <4>4
      <4> QED BY <4>3, <4>4
    <3>10. CASE AcquireExtend(h)
      <4>1. Return(h, [Told(h, "ok") EXCEPT !.token = tok]) => Known'
        BY <3>2, <3>5, <3>6
      <4> QED BY <3>4, <3>7, <3>10, <4>1 DEF AcquireExtend
    <3>11. CASE AcquireClaim(h)
      <4>1. CASE CanClaim(row, call[h].now)
        <5>1. PICK n \in Nat : n = Len(grants) + 1
          BY <1>0
        <5>2. grants' = Append(grants, r) /\ Return(h, [Told(h, "ok") EXCEPT !.token = n])
          BY <3>1, <3>11, <4>1, <5>1 DEF AcquireClaim
        <5>3. Owns(n, r)'
          <6>1. DOMAIN grants' = 1..n /\ grants'[n] = r
            BY <1>0, <5>1, <5>2
          <6> QED BY <1>0, <5>1, <6>1 DEF GrantsKept, Owns
        <5> QED BY <3>2, <3>6, <5>2, <5>3
      <4>2. CASE ~CanClaim(row, call[h].now)
        BY <3>3, <3>5, <3>8, <3>11, <4>2 DEF AcquireClaim
      <4> QED BY <4>1, <4>2
    <3>12. CASE AcquireRecheck(h) \/ RenewExplain(h) \/ PutExplain(h)
      BY <3>7, <3>12 DEF AcquireRecheck, RenewExplain, PutExplain
    <3>13. CASE Renew(h)
      <4>1. Return(h, Told(h, "ok")) => Known'
        BY <3>2, <3>5, <3>6
      <4>2. Proceed(h, [call[h] EXCEPT !.step = "renew_failed"]) => Known'
        BY <3>3, <3>5, <3>8
      <4> QED BY <3>13, <4>1, <4>2 DEF Renew
    <3>14. CASE Release(h)
      <4>1. Owns(NoToken, r)'
        BY DEF GrantsKept, Owns
      <4>2. Return(h, [Told(h, "ok") EXCEPT !.token = NoToken]) => Known'
        BY <3>2, <3>6, <4>1
      <4> QED BY <3>7, <3>14, <4>2 DEF Release
    <3>15. CASE PutRead(h)
      <4> DEFINE c == [call[h] EXCEPT !.step = "put_write", !.now = clock]
      <4>1. c.token = tok /\ c.run = r
        BY <3>1, <3>4 DEF TypeOK, Call
      <4>2. Proceed(h, c)
        BY <3>15 DEF PutRead
      <4> HIDE DEF c
      <4> QED BY <3>3, <3>5, <4>1, <4>2
    <3>16. CASE PutWrite(h)
      <4> DEFINE c == [call[h] EXCEPT !.step = "emit", !.id = Len(writes) + 1]
      <4>1. c.token = tok /\ c.run = r
        BY <3>1, <3>4 DEF TypeOK, Call
      <4>2. Proceed(h, c) \/ Proceed(h, [call[h] EXCEPT !.step = "put_failed"])
        BY <3>16 DEF PutWrite
      <4> HIDE DEF c
      <4> QED BY <3>3, <3>5, <3>8, <4>1, <4>2
    <3>17. CASE PutEmit(h)
      <4>1. Return(h, [Told(h, "ok") EXCEPT !.version = call[h].version + 1])
        BY <3>17 DEF PutEmit
      <4> QED BY <3>2, <3>5, <3>6, <4>1
    <3> QED BY <2>5, <3>9, <3>10, <3>11, <3>12, <3>13, <3>14, <3>15, <3>16, <3>17 DEF Serve
  <2> HIDE DEF Known
  <2>6. CASE UNCHANGED vars \/ Tick \/ Replicate \/ Purge
    <3>1. UNCHANGED <<agent, call>>
      BY <2>6 DEF vars, Tick, Replicate, Purge
    <3> QED BY <2>1, <3>1
  <2> QED BY <2>2, <2>3, <2>4, <2>5, <2>6 DEF Next
<1> QED BY <1>3, <1>4, <1>5 DEF OwnerInv

-----------------------------------------------------------------------------
(***************************************************************************)
(* The theorems.                                                           *)
(***************************************************************************)
PlaneInv == TypeOK /\ RowInv /\ CallInv /\ EventsFollowWrites /\ OwnerInv

LEMMA PlaneInvHolds == Spec => []PlaneInv
<1>1. Init => TypeOK
  BY AbsentIsRow, IdleIsCall, FreshAgentIsAgent DEF Init, TypeOK
<1>2. Init => RowInv /\ CallInv /\ EventsFollowWrites /\ OwnerInv
  BY DEF Init, RowInv, TokenIsNewest, WritesWereGranted, RowIsAhead, FencingOrder,
         OneWritePerVersion, CallInv, EventsFollowWrites, OwnerInv, Owns, Absent, Idle,
         FreshAgent
<1>3. TypeOK /\ [Next]_vars => TypeOK'
  BY TypeInductive
<1>4. PlaneInv /\ [Next]_vars => PlaneInv'
  BY <1>3, StepsHaveEffects, RowInvInductive, CallInvInductive, OwnerInvInductive DEF PlaneInv
<1> QED BY <1>1, <1>2, <1>4, PTL DEF Spec, PlaneInv

\* Fencing, for any number of runs, handlers and calls: writes that were
\* applied under a newer lease are never followed by one under an older.
THEOREM FencingHolds == Spec => []FencingOrder
<1>1. PlaneInv => FencingOrder
  BY DEF PlaneInv, RowInv
<1> QED BY <1>1, PlaneInvHolds, PTL

\* No lost update: a version of an incarnation of the row is written once.
THEOREM NoLostUpdate == Spec => []OneWritePerVersion
<1>1. PlaneInv => OneWritePerVersion
  BY DEF PlaneInv, RowInv
<1> QED BY <1>1, PlaneInvHolds, PTL

\* The audit log reports only writes that happened.
THEOREM AuditIsTruthful == Spec => []EventsFollowWrites
<1>1. PlaneInv => EventsFollowWrites
  BY DEF PlaneInv
<1> QED BY <1>1, PlaneInvHolds, PTL

\* Nobody but its holder ends or shortens a live lease; a shortening sets the expiry to
\* the time of the holder's own request plus its ttl.
THEOREM LeasesAreNotStolen == Spec => LeaseNotStolen
<1> DEFINE Owned(h) ==
      /\ call[h].run = row.owner /\ call[h].token = row.token
      /\ \/ call[h].step = "release" /\ row'.token = NoToken
         \/ /\ call[h].step \in {"extend", "renew"} /\ row'.token = row.token
            /\ row'.expires = call[h].now + call[h].ttl
<1>1. ASSUME PlaneInv, [Next]_vars, Live(row, clock),
             row'.token # row.token \/ row'.expires < row.expires
      PROVE  \E h \in Handler : Owned(h)
  <2>0. /\ Effect
        /\ row \in Row /\ clock \in Nat /\ row.expires \in Nat
        /\ row.token # NoToken /\ row.expires > clock
        /\ \A h \in Handler : /\ call[h].now \in Nat /\ call[h].now <= clock
                              /\ call[h].token = row.token => call[h].run = row.owner
    <3>1. \A h \in Handler : call[h].token = row.token => call[h].run = row.owner
      BY <1>1 DEF PlaneInv, OwnerInv, Owns, Live
    <3> QED BY <1>1, <3>1, StepsHaveEffects DEF PlaneInv, TypeOK, CallInv, Call, Row, Live
  <2>1. CASE Nothing
    BY <1>1, <2>0, <2>1 DEF Nothing
  <2>2. ASSUME NEW h \in Handler, NEW exp \in Nat, Granting(h, exp) PROVE FALSE
    BY <2>0, <2>2 DEF Granting, CanClaim
  <2>3. ASSUME NEW h \in Handler, Extending(h) PROVE Owned(h)
    <3>1. row'.token = row.token /\ row'.expires = call[h].now + call[h].ttl
      BY <2>0, <2>3 DEF Extending, Extended, Row
    <3> QED BY <2>0, <2>3, <3>1 DEF Extending
  <2>4. ASSUME NEW h \in Handler, Releasing(h) PROVE Owned(h)
    <3>1. row'.token = NoToken
      BY <2>0, <2>4 DEF Releasing, Released, Row
    <3> QED BY <2>0, <2>4, <3>1 DEF Releasing
  <2>5. ASSUME NEW h \in Handler, Writing(h) PROVE FALSE
    <3>1. row'.token = row.token /\ row'.expires = row.expires
      BY <2>0, <2>5 DEF Writing, Written, Row
    <3> QED BY <1>1, <2>0, <3>1
  <2>6. CASE Purging
    BY <2>0, <2>6 DEF Purging
  <2> HIDE DEF Owned
  <2> QED BY <2>0, <2>1, <2>2, <2>3, <2>4, <2>5, <2>6 DEF Effect
<1>2. PlaneInv /\ [Next]_vars
        => [Live(row, clock) /\ (row'.token # row.token \/ row'.expires < row.expires)
              => \E h \in Handler : Owned(h)]_vars
  BY <1>1
<1> QED BY <1>2, PlaneInvHolds, PTL DEF Spec, LeaseNotStolen

\* A token that lost its force never regains it: a late renew, extension or
\* write under it can only be refused.
THEOREM TokensDieOnce == Spec => DeadTokensStayDead
<1>1. ASSUME PlaneInv, [Next]_vars, NEW k \in DOMAIN grants, row.token # k
      PROVE  row'.token # k
  <2>0. /\ Effect
        /\ row \in Row /\ k \in 1..Len(grants) /\ Len(grants) \in Nat
    BY <1>1, StepsHaveEffects DEF PlaneInv, TypeOK
  <2>1. row'.token \in {row.token, NoToken, Len(grants) + 1}
    <3>1. CASE Nothing \/ Purging
      BY <3>1 DEF Nothing, Purging, Absent
    <3>2. ASSUME NEW h \in Handler, NEW exp \in Nat, Granting(h, exp)
          PROVE  row'.token = Len(grants) + 1
      BY <2>0, <3>2 DEF Granting, Claimed, Row
    <3>3. ASSUME NEW h \in Handler, Extending(h)
          PROVE  row'.token = row.token
      BY <2>0, <3>3 DEF Extending, Extended, Row
    <3>4. ASSUME NEW h \in Handler, Releasing(h) PROVE row'.token = NoToken
      BY <2>0, <3>4 DEF Releasing, Released, Row
    <3>5. ASSUME NEW h \in Handler, Writing(h) PROVE row'.token = row.token
      BY <2>0, <3>5 DEF Writing, Written, Row
    <3> QED BY <2>0, <3>1, <3>2, <3>3, <3>4, <3>5 DEF Effect
  <2> QED BY <1>1, <2>0, <2>1 DEF NoToken
<1>2. PlaneInv /\ [Next]_vars
        => [\A k \in DOMAIN grants : row.token # k => row'.token # k]_vars
  BY <1>1
<1> QED BY <1>2, PlaneInvHolds, PTL DEF Spec, DeadTokensStayDead

\* The plane implements the fenced register: a claim is a Grant, a release a
\* Drop, an applied write a Commit, a purge an Erase; every other step, those
\* of the clients, the re-reads and the crashes included, is a stutter.
THEOREM PlaneImplementsRegister == Spec => ImplementsRegister
<1>1. Init => Register!RegInit
  <2> SUFFICES ASSUME Init PROVE Register!RegInit
    OBVIOUS
  <2>1. writes = <<>> /\ grants = <<>> /\ row = Absent
    BY DEF Init
  <2>2. [i \in DOMAIN writes |-> writes[i].token] = <<>>
    BY <2>1
  <2> QED BY <2>1, <2>2 DEF Register!RegInit, Absent, NoToken
<1>2. PlaneInv /\ [Next]_vars => [Register!RegNext]_(Register!regVars)
  <2> SUFFICES ASSUME PlaneInv, [Next]_vars
               PROVE  [Register!RegNext]_(Register!regVars)
    OBVIOUS
  <2>0. /\ Effect /\ TypeOK /\ RowInv
        /\ row \in Row /\ Len(grants) \in Nat /\ row.token \in Nat
    <3>1. Effect /\ TypeOK /\ RowInv
      BY StepsHaveEffects DEF PlaneInv
    <3> QED BY <3>1 DEF TypeOK, Row
  <2>1. CASE Nothing
    BY <2>1 DEF Nothing, Register!regVars
  <2>2. ASSUME NEW h \in Handler, NEW exp \in Nat, Granting(h, exp)
        PROVE  Register!Grant
    <3>1. Len(grants') = Len(grants) + 1
      <4>1. call[h].run \in Run
        BY <2>0, <2>2 DEF Granting, TypeOK
      <4> QED BY <2>0, <2>2, <4>1 DEF Granting, TypeOK
    <3>2. row'.token = Len(grants) + 1 /\ row'.version = row.version
      BY <2>0, <2>2 DEF Granting, Claimed, Row
    <3>3. writes' = writes
      BY <2>2 DEF Granting
    <3> QED BY <3>1, <3>2, <3>3 DEF Register!Grant
  <2>3. ASSUME NEW h \in Handler, Extending(h)
        PROVE  UNCHANGED Register!regVars
    <3>1. /\ row'.token = row.token /\ row'.version = row.version
          /\ grants' = grants /\ writes' = writes
      BY <2>0, <2>3 DEF Extending, Extended, Row
    <3> QED BY <3>1 DEF Register!regVars
  <2>4. ASSUME NEW h \in Handler, Releasing(h) PROVE Register!Drop
    <3>1. /\ row.token # 0 /\ row'.token = 0 /\ row'.version = row.version
          /\ grants' = grants /\ writes' = writes
      BY <2>0, <2>4 DEF Releasing, Released, Row, NoToken
    <3> QED BY <3>1 DEF Register!Drop
  <2>5. ASSUME NEW h \in Handler, Writing(h) PROVE Register!Commit
    <3>1. /\ row'.token = row.token /\ row'.version = row.version + 1
          /\ grants' = grants
      BY <2>0, <2>5 DEF Writing, Written, Row
    <3>2. row.token # 0 /\ call[h].token = row.token
      <4>0. call[h] \in Call
        BY <2>0 DEF TypeOK
      <4>1. /\ call[h].token = row.token /\ row.expires > call[h].now
            /\ call[h].now \in Nat
        BY <2>5, <4>0 DEF Writing, CanWrite, Call
      <4>2. row.expires # 0
        BY <2>0, <4>1 DEF Row
      <4> QED BY <2>0, <4>1, <4>2 DEF RowInv, TokenIsNewest, NoToken
    <3>3. [i \in DOMAIN writes' |-> writes'[i].token]
            = Append([i \in DOMAIN writes |-> writes[i].token], row.token)
      <4> DEFINE log == [i \in DOMAIN writes |-> writes[i].token]
                 logN == [i \in DOMAIN writes' |-> writes'[i].token]
      <4>1. /\ Len(writes) \in Nat
            /\ DOMAIN writes = 1..Len(writes)
            /\ DOMAIN writes' = 1..(Len(writes) + 1)
            /\ \A i \in 1..Len(writes) : writes'[i] = writes[i]
            /\ writes'[Len(writes) + 1].token = row.token
        BY <2>0, <2>5, <3>2, WritesGrow
      <4>2. \A i \in DOMAIN writes : writes[i].token \in Nat
        <5>1. \A i \in DOMAIN writes : writes[i] \in WriteRecord
          BY <2>0 DEF TypeOK
        <5> QED BY <5>1 DEF WriteRecord
      <4>3. log \in Seq(Nat) /\ Len(log) = Len(writes)
        BY <4>1, <4>2
      <4>4. Append(log, row.token) =
              [i \in 1..(Len(writes) + 1) |->
                 IF i = Len(writes) + 1 THEN row.token ELSE writes[i].token]
        <5>1. row.token \in Nat /\ log \in Seq(Nat)
          BY <2>0, <4>3
        <5>2. Append(log, row.token) =
                [i \in 1..(Len(log) + 1) |-> IF i = Len(log) + 1 THEN row.token ELSE log[i]]
          <6> HIDE DEF log
          <6> QED BY <5>1
        <5>3. \A i \in 1..Len(writes) : log[i] = writes[i].token
          BY <4>1
        <5>4. Len(log) = Len(writes)
          BY <4>3
        <5> HIDE DEF log
        <5>5. \A i \in 1..(Len(writes) + 1) :
                (IF i = Len(log) + 1 THEN row.token ELSE log[i])
                  = (IF i = Len(writes) + 1 THEN row.token ELSE writes[i].token)
          BY <4>1, <5>3, <5>4
        <5> QED BY <5>2, <5>4, <5>5
      <4>5. logN = [i \in 1..(Len(writes) + 1) |->
                 IF i = Len(writes) + 1 THEN row.token ELSE writes[i].token]
        BY <4>1
      <4> QED BY <4>4, <4>5
    <3> QED BY <3>1, <3>2, <3>3 DEF Register!Commit
  <2>6. CASE Purging
    <3>1. /\ row.token # 0 /\ row'.token = 0 /\ row'.version = 0
          /\ grants' = grants /\ writes' = writes
      BY <2>6 DEF Purging, Absent, NoToken
    <3> QED BY <3>1 DEF Register!Erase, Register!RegNext
  <2> QED BY <2>0, <2>1, <2>2, <2>3, <2>4, <2>5, <2>6 DEF Effect, Register!RegNext
<1> QED BY <1>1, <1>2, PlaneInvHolds, PTL DEF Spec, ImplementsRegister, Register!RegSpec
=============================================================================
