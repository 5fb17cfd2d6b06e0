------------------------------ MODULE PlanRows ------------------------------
(***************************************************************************)
(* The checkpoint rows of one plan and the agent runs that work on them.   *)
(* Each manifest entry (a task and a workstream) has a row: a lease, the   *)
(* phase last written and its status.  The row operations are those of     *)
(* LeaseRow; CheckpointPlane shows that interleaved handlers implement     *)
(* them one at a time, so they are single steps here.  A handler samples   *)
(* the clock before its conditional update, so the update judges the lease *)
(* by a time that may have passed.  The state version and the event id of  *)
(* a row play no part in what its readers do with it.                      *)
(***************************************************************************)
EXTENDS LeaseRow, Sequences, FiniteSets

CONSTANTS
    Manifest,    \* the entries of the plan, in file order
    Phases,      \* the length of PHASE_ORDER
    NoEntry,     \* the job of a run that has none
    Duration,    \* the ttl_seconds of every lease
    MaxClock,    \* bound: last clock value
    MaxGrants,   \* bound: leases granted altogether
    MaxRenewals  \* bound: renewals sent altogether

Entry == {Manifest[i] : i \in DOMAIN Manifest}

ASSUME PlanAssumption ==
    /\ Manifest \in Seq(Entry)
    /\ Phases \in Nat \ {0}
    /\ NoEntry \notin Entry
    /\ Duration \in Nat \ {0}
    /\ MaxClock \in Nat /\ MaxGrants \in Nat /\ MaxRenewals \in Nat

VARIABLES
    clock,
    row,       \* row[e]: the lease of e
    cp,        \* cp[e]: the phase and phase_status last written, phase 0 if none
    images,    \* images[e]: the checkpoints the row of e has held
    job,       \* job[r]: the entry run r works on and its lease token
    told,      \* told[r]: when run r was last answered, or started
    granted,   \* leases granted so far
    renewals,  \* the renewals that were sent
    settled,   \* those whose handler has ended
    finished   \* history: finished[e] is the last phase whose work was done

renewVars == <<renewals, settled>>
rowVars == <<clock, row, cp, images, job, told, granted, renewVars, finished>>

\* A checkpoint is [phase, status], of which the reports read nothing but these; status is
\* "in_progress", "fail" or "completed".
NoCheckpoint == [phase |-> 0, status |-> ""]
NoJob == [entry |-> NoEntry, token |-> NoToken]

RowsInit ==
    /\ clock = 0
    /\ row = [e \in Entry |-> Absent]
    /\ cp = [e \in Entry |-> NoCheckpoint]
    /\ images = [e \in Entry |-> {NoCheckpoint}]
    /\ job = [r \in Run |-> NoJob]
    /\ told = [r \in Run |-> 0]
    /\ granted = 0
    /\ renewals = {} /\ settled = {}
    /\ finished = [e \in Entry |-> 0]

(***************************************************************************)
(* The agents.  They acquire an entry, write "in_progress" for a phase,    *)
(* do the work, write how it ended, and release.  A run waits for these    *)
(* answers, so the clock was sampled at some time since its last one.      *)
(***************************************************************************)
Sampled(r) == told[r]..clock

Answered(r) == told' = [told EXCEPT ![r] = clock]

Claim(r, e) ==
    /\ job[r] = NoJob
    /\ granted < MaxGrants
    /\ \E at \in Sampled(r) :
         /\ CanClaim(row[e], at)
         /\ row' = [row EXCEPT ![e] = Claimed(@, granted + 1, r, at + Duration)]
    /\ granted' = granted + 1
    /\ job' = [job EXCEPT ![r] = [entry |-> e, token |-> granted + 1]]
    /\ Answered(r)
    /\ UNCHANGED <<clock, cp, images, renewVars, finished>>

\* PUT /state/checkpoint by the holder of the lease.
Put(r, phase, status) ==
    LET e == job[r].entry IN
    /\ e # NoEntry
    /\ \E at \in Sampled(r) : CanWrite(row[e], job[r].token, row[e].version, at)
    /\ cp' = [cp EXCEPT ![e] = [phase |-> phase, status |-> status]]
    /\ images' = [images EXCEPT ![e] = @ \cup {[phase |-> phase, status |-> status]}]
    /\ Answered(r)
    /\ UNCHANGED <<clock, row, job, granted, renewVars>>

\* The phase an agent takes up when the entry stands at checkpoint c.
Upcoming(c) ==
    IF c.phase = 0 THEN 1
    ELSE IF c.status = "completed" THEN c.phase + 1 ELSE c.phase

Begin(r) ==
    /\ job[r] # NoJob
    /\ cp[job[r].entry].status # "in_progress"
    /\ Upcoming(cp[job[r].entry]) <= Phases
    /\ Put(r, Upcoming(cp[job[r].entry]), "in_progress")
    /\ UNCHANGED finished

\* The work of the phase is done, or fails.
Finish(r) ==
    /\ job[r] # NoJob
    /\ LET e == job[r].entry IN
       /\ cp[e].status = "in_progress"
       /\ \/ /\ Put(r, cp[e].phase, "completed")
             /\ finished' = [finished EXCEPT ![e] = IF @ < cp[e].phase THEN cp[e].phase ELSE @]
          \/ Put(r, cp[e].phase, "fail") /\ UNCHANGED finished

\* Release, also of a lease that meanwhile ended.
Release(r) ==
    /\ job[r] # NoJob
    /\ job' = [job EXCEPT ![r] = NoJob]
    /\ row' = [row EXCEPT ![job[r].entry] =
                  IF CanRelease(@, job[r].token) THEN Released(@) ELSE @]
    /\ Answered(r)
    /\ UNCHANGED <<clock, cp, images, granted, renewVars, finished>>

Crash(r) ==
    /\ job[r] # NoJob
    /\ job' = [job EXCEPT ![r] = NoJob]
    /\ Answered(r)
    /\ UNCHANGED <<clock, row, cp, images, granted, renewVars, finished>>

(***************************************************************************)
(* Renewals.  The handler samples the clock when it starts and updates the *)
(* row later, perhaps after the lease expired, after the run gave up on it *)
(* or is gone; or it dies.                                                 *)
(***************************************************************************)
SendRenew(r) ==
    /\ job[r] # NoJob
    /\ Cardinality(renewals) < MaxRenewals
    /\ renewals' = renewals \cup {[entry |-> job[r].entry, token |-> job[r].token, at |-> clock]}
    /\ UNCHANGED <<clock, row, cp, images, job, told, granted, settled, finished>>

Renew(q) ==
    /\ q \notin settled
    /\ settled' = settled \cup {q}
    /\ \/ /\ CanRenew(row[q.entry], q.token, q.at)
          /\ row' = [row EXCEPT ![q.entry] = Extended(@, q.at + Duration)]
       \/ UNCHANGED row
    /\ UNCHANGED <<clock, cp, images, job, told, granted, renewals, finished>>

Work(r) == Begin(r) \/ Finish(r) \/ SendRenew(r) \/ Release(r) \/ Crash(r)

Tick ==
    /\ clock < MaxClock
    /\ clock' = clock + 1
    /\ UNCHANGED <<row, cp, images, job, told, granted, renewVars, finished>>

\* The table's TTL deletes the item under an expired lease.
Purge(e) ==
    /\ row[e].token # NoToken
    /\ row[e].expires <= clock
    /\ row' = [row EXCEPT ![e] = Absent]
    /\ cp' = [cp EXCEPT ![e] = NoCheckpoint]
    /\ UNCHANGED <<clock, images, job, told, granted, renewVars, finished>>

Surroundings ==
    \/ Tick
    \/ \E e \in Entry : Purge(e)
    \/ \E q \in renewals : Renew(q)
=============================================================================
