---------------------------- MODULE StallWatchdog ----------------------------
(***************************************************************************)
(* canon stall-watchdog scan: GET probes over the rows of a plan, which    *)
(* append one lease_stall_detected event to the event log for every lease  *)
(* that had expired when the scan began.  The clock is sampled once, before*)
(* the first probe; agents claim, renew and release between the probes,    *)
(* and the table's TTL may purge an expired row.  A GET is an eventually   *)
(* consistent read: a copy of the row that lags behind may answer it.      *)
(***************************************************************************)
EXTENDS PlanRows

CONSTANTS
    MaxScans,   \* bound: scans started
    MaxFaults   \* bound: probes and log writes that fail

ASSUME WatchdogAssumption == MaxScans \in Nat /\ MaxFaults \in Nat

VARIABLES
    next,      \* index of the next entry to probe, 0 when no scan runs
    now,       \* the clock value the scan sampled
    found,     \* the entries of this scan whose event waits to be written
    clean,     \* no probe and no write of this scan failed
    exit,      \* exit code of the last scan, 99 before the first
    alerts,    \* the event log: the stalls that were reported
    scans, faults,
    replica,   \* replica[e]: the image of e's row that the lagging copy holds
    expired    \* history: the leases that were overdue when the scan began

scanVars == <<next, now, found, clean, exit, alerts, scans, faults, expired>>
watchVars == <<scanVars, replica>>
vars == <<rowVars, watchVars>>

\* An alert is [entry, owner, expires, now, token]; the events carry all but the token,
\* which is history.
NoScan == 0

\* What a GET may answer for e.
Readable(e) == {row[e], replica[e]}

\* The lagging copy catches up.
Replicate(e) ==
    /\ replica' = [replica EXCEPT ![e] = row[e]]
    /\ UNCHANGED <<rowVars, scanVars>>

UnderWay(e) == {q \in renewals \ settled : q.entry = e /\ q.token = row[e].token}

\* A lease that ran out, that every copy of its row shows and whose holder has no
\* renewal under way.
Overdue(e) ==
    /\ row[e].token # NoToken
    /\ row[e].expires <= clock
    /\ replica[e] = row[e]
    /\ UnderWay(e) = {}

\* Mutants: a lease is stalled when it is about to expire, or only after the
\* second in which it expired.
StalledEarly(item, at) == item.exists /\ item.token # NoToken /\ item.expires <= at + 1
StalledLate(item, at) == item.exists /\ item.token # NoToken /\ item.expires < at

\* _classify_probe of the row that the GET returned.
Stalled(item, at) == item.exists /\ item.token # NoToken /\ item.expires <= at

Start ==
    /\ next = NoScan
    /\ scans < MaxScans
    /\ scans' = scans + 1
    /\ next' = 1
    /\ now' = clock
    /\ expired' = {<<e, row[e].token>> : e \in {d \in Entry : Overdue(d)}}
    /\ UNCHANGED <<rowVars, replica, found, clean, exit, alerts, faults>>

Probing(e) == next \in DOMAIN Manifest /\ e = Manifest[next] /\ found = {}

ProbeStalled(e) ==
    /\ Probing(e)
    /\ \E item \in Readable(e) :
         /\ Stalled(item, now)
         /\ found' = {[entry |-> e, owner |-> item.owner, expires |-> item.expires,
                       now |-> now, token |-> item.token]}
    /\ UNCHANGED <<rowVars, replica, next, now, clean, exit, alerts, scans, faults, expired>>

ProbeQuiet(e) ==
    /\ Probing(e)
    /\ \E item \in Readable(e) : ~Stalled(item, now)
    /\ next' = next + 1
    /\ UNCHANGED <<rowVars, replica, now, found, clean, exit, alerts, scans, faults, expired>>

ProbeDegraded(e) ==
    /\ Probing(e)
    /\ faults < MaxFaults
    /\ faults' = faults + 1
    /\ clean' = FALSE
    /\ next' = next + 1
    /\ UNCHANGED <<rowVars, replica, now, found, exit, alerts, scans, expired>>

\* _emit_event: the append happens, or fails and degrades the task.
Emit ==
    /\ found # {}
    /\ found' = {}
    /\ next' = next + 1
    /\ \/ alerts' = alerts \cup found /\ UNCHANGED <<clean, faults>>
       \/ /\ faults < MaxFaults
          /\ faults' = faults + 1
          /\ clean' = FALSE
          /\ UNCHANGED alerts
    /\ UNCHANGED <<rowVars, replica, now, exit, scans, expired>>

Conclude ==
    /\ next > Len(Manifest)
    /\ found = {}
    /\ exit' = IF clean THEN 0 ELSE 5
    /\ next' = NoScan /\ now' = 0 /\ expired' = {} /\ clean' = TRUE
    /\ UNCHANGED <<rowVars, replica, found, alerts, scans, faults>>

\* The scan is killed.
Killed ==
    /\ next # NoScan
    /\ next' = NoScan /\ now' = 0 /\ expired' = {} /\ clean' = TRUE
    /\ found' = {}
    /\ exit' = 99
    /\ UNCHANGED <<rowVars, replica, alerts, scans, faults>>

Scan ==
    \/ Start \/ Emit \/ Conclude
    \/ \E e \in Entry : ProbeStalled(e) \/ ProbeQuiet(e) \/ ProbeDegraded(e)

Init ==
    /\ RowsInit
    /\ next = NoScan /\ now = 0 /\ found = {} /\ clean = TRUE /\ exit = 99
    /\ alerts = {} /\ scans = 0 /\ faults = 0 /\ expired = {}
    /\ replica = [e \in Entry |-> Absent]

\* The lease traffic of the agents; what they write plays no part here.
Traffic(r) ==
    \/ SendRenew(r) \/ Release(r) \/ Crash(r)
    \/ \E e \in Entry : Claim(r, e)

Next ==
    \/ Scan \/ Killed
    \/ \E e \in Entry : Replicate(e)
    \/ (Surroundings \/ \E r \in Run : Traffic(r)) /\ UNCHANGED watchVars

Spec == Init /\ [][Next]_vars
-----------------------------------------------------------------------------
\* No alarm about an agent that kept asking: a lease that was reported as stalled
\* is dead, and stays dead, unless its holder had sent a renewal before the time
\* at which the report says that it expired.  (A renewal that is committed late
\* revives the lease, and a copy that lags behind shows an expiry that was moved
\* since.)
AlertedLeaseIsDead ==
    \A x \in alerts \cup found :
        row[x.entry].token = x.token /\ Live(row[x.entry], clock)
          => \E q \in renewals : q.token = x.token /\ q.at < x.expires

\* A scan that ends with exit code 0 reported every lease that had expired when it
\* began, with every copy of its row up to date and no renewal of it under way,
\* and that nobody took over, released or purged meanwhile.
CleanScanMissesNothing ==
    [][exit' = 0 /\ next # NoScan /\ next' = NoScan
         => \A x \in expired :
              row[x[1]].token = x[2]
                => \E y \in alerts : y.entry = x[1] /\ y.token = x[2] /\ y.now = now]_vars
=============================================================================
