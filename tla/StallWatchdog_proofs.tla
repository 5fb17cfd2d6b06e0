------------------------ MODULE StallWatchdog_proofs ------------------------
(***************************************************************************)
(* Proofs about StallWatchdog, for every plan, every set of runs and every *)
(* bound.                                                                  *)
(***************************************************************************)
EXTENDS StallWatchdog, TLAPS

JobRecord == {NoJob} \cup [entry : Entry, token : Nat]
Renewal == [entry : Entry, token : Nat, at : Nat]

\* Tokens are numbers of grants, and a lease is in a row that exists.
IsImage(item) ==
    /\ item \in Row
    /\ item.token <= granted
    /\ item.token # NoToken => item.exists

RowInv ==
    /\ clock \in Nat /\ granted \in Nat
    /\ row \in [Entry -> Row] /\ \A e \in Entry : IsImage(row[e])
    /\ job \in [Run -> JobRecord]
    /\ told \in [Run -> Nat]
    /\ \A q \in renewals : q \in Renewal

\* What the traffic may do to the lease of an entry between two states of a scan:
\* nothing, end it, replace it by a new grant, or move its expiry by a renewal that was
\* sent before it ran out.
LeaseStep(e) ==
    \/ row'[e] = row[e]
    \/ row'[e].token = NoToken
    \/ row'[e].token > granted
    \/ \E q \in renewals \ settled :
          /\ q.entry = e /\ q.token = row[e].token /\ q.at < row[e].expires
          /\ row'[e].token = row[e].token

\* Renewals are sent with the time of their sending and stay on record.
RenewalStep ==
    /\ renewals \subseteq renewals'
    /\ renewals' \ settled' \subseteq (renewals \ settled) \cup {q \in renewals' : q.at = clock}

Steps ==
    /\ RowInv'
    /\ clock <= clock' /\ granted <= granted'
    /\ RenewalStep
    /\ \A e \in Entry : LeaseStep(e)

LEMMA AbsentIsImage == ASSUME granted \in Nat PROVE IsImage(Absent) /\ Absent.token = NoToken
  BY DEF Absent, Row, NoToken, IsImage

\* The conditional updates keep a row a row; only a claim and a release touch its token.
LEMMA ClaimedRow ==
    \A item \in Row, tok \in Nat, run \in Run, n \in Nat :
        LET new == Claimed(item, tok, run, n)
        IN  new \in Row /\ new.token = tok /\ new.exists
  BY DEF Row, Claimed

LEMMA ExtendedRow ==
    \A item \in Row, n \in Nat :
        LET new == Extended(item, n)
        IN  new \in Row /\ new.token = item.token /\ new.exists = item.exists
  BY DEF Row, Extended

LEMMA ReleasedRow == \A item \in Row : Released(item) \in Row /\ Released(item).token = NoToken
  BY DEF Row, Released, NoToken

LEMMA RowInit == RowsInit => RowInv
<1> SUFFICES ASSUME RowsInit PROVE RowInv
  OBVIOUS
<1>1. NoJob \in JobRecord
  BY DEF NoJob, JobRecord, NoToken
<1>2. granted \in Nat /\ clock \in Nat /\ renewals = {}
  BY DEF RowsInit
<1>3. IsImage(Absent) /\ Absent \in Row
  BY <1>2, AbsentIsImage DEF IsImage
<1> QED BY <1>1, <1>2, <1>3 DEF RowsInit, RowInv

\* A step that leaves the row of every entry but one alone.
LEMMA OneRow ==
    ASSUME RowInv, NEW e \in Entry, NEW item, row' = [row EXCEPT ![e] = item],
           clock \in Nat, UNCHANGED clock, granted' \in Nat, granted <= granted',
           job' \in [Run -> JobRecord], told' \in [Run -> Nat],
           \A q \in renewals' : q \in Renewal, RenewalStep,
           IsImage(item)',
           \/ item = row[e]
           \/ item.token = NoToken
           \/ item.token > granted
           \/ \E q \in renewals \ settled :
                 /\ q.entry = e /\ q.token = row[e].token /\ q.at < row[e].expires
                 /\ item.token = row[e].token
    PROVE  Steps
<1>1. \A d \in Entry : row'[d] = IF d = e THEN item ELSE row[d]
  BY DEF RowInv
<1>2. ASSUME NEW d \in Entry PROVE IsImage(row[d])'
  <2>1. row[d] \in Row /\ row[d].token \in Nat /\ row[d].token <= granted /\ granted \in Nat
        /\ IsImage(row[d])
    BY DEF RowInv, IsImage, Row
  <2> QED BY <1>1, <2>1 DEF IsImage
<1>3. row' \in [Entry -> Row]
  BY DEF RowInv, IsImage
<1>4. \A d \in Entry : LeaseStep(d)
  BY <1>1 DEF LeaseStep
<1> QED BY <1>2, <1>3, <1>4 DEF Steps, RowInv

\* A step that leaves every row alone.
LEMMA NoRowChanges ==
    ASSUME RowInv, UNCHANGED <<row, granted>>, clock' \in Nat, clock <= clock',
           job' \in [Run -> JobRecord], told' \in [Run -> Nat],
           \A q \in renewals' : q \in Renewal, RenewalStep
    PROVE  Steps
<1>1. granted <= granted'
  BY DEF RowInv
<1> QED BY <1>1 DEF Steps, RowInv, IsImage, LeaseStep

LEMMA RowSteps ==
    ASSUME RowInv, Surroundings \/ \E r \in Run : Traffic(r)
    PROVE  Steps
<1>0. /\ clock \in Nat /\ granted \in Nat /\ granted <= granted /\ NoJob \in JobRecord
      /\ \A e \in Entry : row[e] \in Row /\ IsImage(row[e])
      /\ \A r \in Run, e \in Entry, n \in Nat :
            /\ [job EXCEPT ![r] = NoJob] \in [Run -> JobRecord]
            /\ [job EXCEPT ![r] = [entry |-> e, token |-> n]] \in [Run -> JobRecord]
            /\ [told EXCEPT ![r] = clock] \in [Run -> Nat]
      /\ Duration \in Nat
  BY PlanAssumption DEF RowInv, JobRecord
<1>1. UNCHANGED renewVars => RenewalStep
  BY DEF RenewalStep, renewVars
<1>2. CASE Tick
  BY <1>0, <1>1, <1>2, NoRowChanges DEF Tick, RowInv, renewVars
<1>3. ASSUME NEW e \in Entry, Purge(e) PROVE Steps
  <2>1. IsImage(Absent)' /\ Absent.token = NoToken
    BY <1>0, <1>3, AbsentIsImage DEF Purge, IsImage
  <2> QED BY <1>0, <1>1, <1>3, <2>1, OneRow DEF Purge, RowInv, renewVars
<1>4. ASSUME NEW q \in renewals, Renew(q) PROVE Steps
  <2>1. q \in Renewal /\ q \in renewals \ settled /\ RenewalStep
    BY <1>4 DEF Renew, RowInv, RenewalStep
  <2>2. UNCHANGED <<clock, granted, job, told, renewals>>
    BY <1>4 DEF Renew
  <2>3. CASE UNCHANGED row
    BY <1>0, <2>1, <2>2, <2>3, NoRowChanges DEF RowInv
  <2>4. CASE /\ CanRenew(row[q.entry], q.token, q.at)
             /\ row' = [row EXCEPT ![q.entry] = Extended(@, q.at + Duration)]
    <3>1. PICK e \in Entry : e = q.entry
      BY <2>1 DEF Renewal
    <3>2. PICK item : item = Extended(row[e], q.at + Duration)
      OBVIOUS
    <3>3. item \in Row /\ item.token = row[e].token /\ item.exists = row[e].exists
      <4>1. q.at + Duration \in Nat
        BY <1>0, <2>1 DEF Renewal
      <4> QED BY <1>0, <3>2, <4>1, ExtendedRow
    <3>4. IsImage(item)'
      BY <1>0, <2>2, <3>3 DEF IsImage
    <3>5. q.token = row[e].token /\ q.at < row[e].expires
      BY <1>0, <2>1, <2>4, <3>1 DEF CanRenew, Renewal, Row
    <3> QED BY <1>0, <2>1, <2>2, <2>4, <3>1, <3>2, <3>3, <3>4, <3>5, OneRow DEF RowInv
  <2> QED BY <1>4, <2>3, <2>4 DEF Renew
<1>5. ASSUME NEW r \in Run, SendRenew(r) PROVE Steps
  <2> DEFINE q == [entry |-> job[r].entry, token |-> job[r].token, at |-> clock]
  <2>1. /\ renewals' = renewals \cup {q} /\ job[r] # NoJob
        /\ UNCHANGED <<clock, row, granted, job, told, settled>>
    BY <1>5 DEF SendRenew
  <2>2. job[r] \in [entry : Entry, token : Nat]
    BY <2>1 DEF RowInv, JobRecord
  <2>3. q \in Renewal /\ q.at = clock
    BY <1>0, <2>2 DEF Renewal
  <2> HIDE DEF q
  <2>4. RenewalStep /\ \A p \in renewals' : p \in Renewal
    BY <2>1, <2>3 DEF RenewalStep, RowInv
  <2> QED BY <1>0, <2>1, <2>4, NoRowChanges DEF RowInv
<1>6. ASSUME NEW r \in Run, Release(r) PROVE Steps
  <2>1. PICK e \in Entry : e = job[r].entry
    BY <1>6 DEF Release, RowInv, JobRecord
  <2>2. PICK item : item = IF CanRelease(row[e], job[r].token) THEN Released(row[e]) ELSE row[e]
    OBVIOUS
  <2>3. item \in Row /\ (item = row[e] \/ item.token = NoToken)
    BY <1>0, <2>2, ReleasedRow
  <2>4. /\ row' = [row EXCEPT ![e] = item] /\ UNCHANGED <<clock, granted, renewVars>>
        /\ job' = [job EXCEPT ![r] = NoJob] /\ told' = [told EXCEPT ![r] = clock]
    BY <1>6, <2>1, <2>2 DEF Release, Answered
  <2>5. IsImage(item)'
    BY <1>0, <2>3, <2>4 DEF IsImage, NoToken
  <2> QED BY <1>0, <1>1, <2>3, <2>4, <2>5, OneRow DEF RowInv, renewVars
<1>7. ASSUME NEW r \in Run, Crash(r) PROVE Steps
  BY <1>0, <1>1, <1>7, NoRowChanges DEF Crash, Answered, RowInv, renewVars
<1>8. ASSUME NEW r \in Run, NEW e \in Entry, Claim(r, e) PROVE Steps
  <2>1. PICK at \in Sampled(r) : row' = [row EXCEPT ![e] = Claimed(@, granted + 1, r, at + Duration)]
    BY <1>8 DEF Claim
  <2>2. at \in Nat
    BY <1>0, <2>1 DEF Sampled, RowInv
  <2>3. PICK item : item = Claimed(row[e], granted + 1, r, at + Duration)
    OBVIOUS
  <2>4. item \in Row /\ item.token = granted + 1 /\ item.exists
    BY <1>0, <2>2, <2>3, ClaimedRow
  <2>5. /\ row' = [row EXCEPT ![e] = item] /\ granted' = granted + 1 /\ UNCHANGED <<clock, renewVars>>
        /\ job' = [job EXCEPT ![r] = [entry |-> e, token |-> granted + 1]]
        /\ told' = [told EXCEPT ![r] = clock]
    BY <1>8, <2>1, <2>3 DEF Claim, Answered
  <2>6. IsImage(item)' /\ granted + 1 \in Nat /\ granted <= granted' /\ item.token > granted
    BY <1>0, <2>4, <2>5 DEF IsImage
  <2> QED BY <1>0, <1>1, <2>4, <2>5, <2>6, OneRow DEF RowInv, renewVars
<1> QED BY <1>2, <1>3, <1>4, <1>5, <1>6, <1>7, <1>8 DEF Surroundings, Traffic

-----------------------------------------------------------------------------
(* The scan.                                                               *)

\* If the row of e holds lease tok, its expiry is no later than exp, unless it was moved
\* by a renewal that was sent before exp.
NoLater(e, tok, exp) ==
    row[e].token = tok
      => row[e].expires <= exp \/ \E q \in renewals : q.token = tok /\ q.at < exp

\* The lagging copy is an image of the row, and if it shows the lease that the row has,
\* no later expiry than the lease had then.
ReplicaInv ==
    /\ replica \in [Entry -> Row]
    /\ \A e \in Entry :
          /\ IsImage(replica[e])
          /\ replica[e].token # NoToken => NoLater(e, replica[e].token, replica[e].expires)

\* A stall that was found names a lease that was granted and that had run out.
AlertIsDead(x) ==
    /\ x.entry \in Entry
    /\ x.token \in Nat \ {NoToken} /\ x.token <= granted
    /\ x.expires \in Nat /\ x.expires <= clock
    /\ NoLater(x.entry, x.token, x.expires)

\* <<entry, token>>: a lease that was overdue when the scan began, and that no renewal
\* which may still be committed can move.
ExpiredAtStart(x) ==
    /\ x[1] \in Entry
    /\ x[2] \in Nat \ {NoToken} /\ x[2] <= granted
    /\ row[x[1]].token = x[2] =>
          /\ row[x[1]].expires <= now
          /\ replica[x[1]].token = x[2] /\ replica[x[1]].expires <= now
          /\ \A q \in renewals \ settled :
                q.entry = x[1] /\ q.token = x[2] => q.at >= row[x[1]].expires

Reported(x, events) ==
    \E y \in events : y.entry = x[1] /\ y.token = x[2] /\ y.now = now

\* The entry is still to be probed in this scan.
Ahead(x) ==
    \E i \in DOMAIN Manifest : Manifest[i] = x[1] /\ (i > next \/ (i = next /\ found = {}))

ScanInv ==
    /\ next \in Nat /\ now \in Nat
    /\ next # NoScan => now <= clock
    /\ next = NoScan => found = {} /\ expired = {}
    /\ \A x \in alerts \cup found : AlertIsDead(x)
    /\ \A x \in expired : /\ ExpiredAtStart(x)
                          /\ clean /\ row[x[1]].token = x[2] =>
                                Reported(x, alerts \cup found) \/ Ahead(x)

WatchInv == RowInv /\ ReplicaInv /\ ScanInv

\* Whatever the agents do, an expiry that was read is outlived only by a renewal that
\* was sent before it.
LEMMA NoLaterStays ==
    ASSUME RowInv, Steps, NEW e \in Entry, NEW tok \in Nat \ {NoToken}, tok <= granted,
           NEW exp \in Nat, NoLater(e, tok, exp)
    PROVE  NoLater(e, tok, exp)'
<1>1. LeaseStep(e) /\ renewals \subseteq renewals' /\ row[e] \in Row /\ row'[e] \in Row
      /\ granted \in Nat /\ \A q \in renewals : q \in Renewal
  BY DEF RowInv, Steps, RenewalStep
<1>2. SUFFICES ASSUME row'[e].token = tok
               PROVE  row'[e].expires <= exp \/ \E q \in renewals' : q.token = tok /\ q.at < exp
  BY DEF NoLater
<1>3. CASE row'[e] = row[e]
  BY <1>1, <1>2, <1>3 DEF NoLater
<1>4. CASE row'[e].token = NoToken \/ row'[e].token > granted
  BY <1>1, <1>2, <1>4
<1>5. ASSUME NEW q \in renewals \ settled, q.token = row[e].token, q.at < row[e].expires,
             row'[e].token = row[e].token
      PROVE  \E p \in renewals' : p.token = tok /\ p.at < exp
  <2>1. q \in renewals' /\ q.at \in Nat /\ row[e].expires \in Nat
    BY <1>1 DEF Renewal, Row
  <2>2. CASE row[e].expires <= exp
    <3>1. q.at < exp
      BY <1>5, <2>1, <2>2
    <3> QED BY <1>2, <1>5, <2>1, <3>1
  <2>3. CASE \E p \in renewals : p.token = tok /\ p.at < exp
    BY <1>1, <2>3
  <2> QED BY <1>2, <1>5, <2>2, <2>3 DEF NoLater
<1> QED BY <1>1, <1>3, <1>4, <1>5 DEF LeaseStep

\* Whatever the agents do, the scan's notes stay true.
LEMMA TrafficKeepsScan ==
    ASSUME WatchInv, Surroundings \/ \E r \in Run : Traffic(r), UNCHANGED watchVars
    PROVE  WatchInv'
<1>1. Steps /\ RowInv' /\ clock <= clock' /\ granted <= granted'
  BY RowSteps DEF WatchInv, Steps
<1>2. UNCHANGED <<next, now, found, clean, alerts, expired, replica>>
  BY DEF watchVars, scanVars
<1>3. clock \in Nat /\ clock' \in Nat /\ granted \in Nat /\ granted' \in Nat /\ now \in Nat
      /\ \A e \in Entry : row[e] \in Row /\ row'[e] \in Row /\ replica[e] \in Row
  BY <1>1 DEF WatchInv, RowInv, ReplicaInv, ScanInv
<1>4. ASSUME NEW x, AlertIsDead(x) PROVE AlertIsDead(x)'
  <2>1. NoLater(x.entry, x.token, x.expires)'
    BY <1>1, <1>4, NoLaterStays DEF AlertIsDead, WatchInv
  <2> QED BY <1>1, <1>3, <1>4, <2>1 DEF AlertIsDead
<1>5. ReplicaInv'
  <2>1. ASSUME NEW e \in Entry
        PROVE  /\ IsImage(replica[e])'
               /\ replica[e].token # NoToken => NoLater(e, replica[e].token, replica[e].expires)'
    <3>1. IsImage(replica[e]) /\ replica[e].token \in Nat /\ replica[e].expires \in Nat
          /\ (replica[e].token # NoToken => NoLater(e, replica[e].token, replica[e].expires))
      BY <1>3 DEF WatchInv, ReplicaInv, Row
    <3>2. IsImage(replica[e])'
      BY <1>1, <1>2, <1>3, <3>1 DEF IsImage
    <3>3. replica[e].token <= granted
      BY <3>1 DEF IsImage
    <3>4. PICK tok \in Nat, exp \in Nat : tok = replica[e].token /\ exp = replica[e].expires
      BY <3>1
    <3>5. tok # NoToken => NoLater(e, tok, exp)'
      BY <1>1, <3>1, <3>3, <3>4, NoLaterStays DEF WatchInv
    <3> QED BY <1>2, <3>2, <3>4, <3>5 DEF NoLater
  <2> QED BY <1>2, <2>1 DEF WatchInv, ReplicaInv, NoLater
<1>6. ASSUME NEW x \in expired
      PROVE  ExpiredAtStart(x)' /\ (row'[x[1]].token = x[2] => row[x[1]].token = x[2])
  <2>1. ExpiredAtStart(x) /\ now <= clock /\ LeaseStep(x[1]) /\ RenewalStep
    BY <1>1 DEF WatchInv, ScanInv, ExpiredAtStart, Steps
  <2> DEFINE e == x[1]
  <2>2. e \in Entry /\ row[e] \in Row /\ row'[e] \in Row /\ row[e].expires \in Nat
        /\ x[2] \in Nat \ {NoToken} /\ x[2] <= granted
    BY <1>3, <2>1 DEF ExpiredAtStart, Row
  <2>3. row'[e].token = x[2] => row'[e] = row[e]
    <3>1. SUFFICES ASSUME row'[e].token = x[2] PROVE row'[e] = row[e]
      OBVIOUS
    <3>2. CASE row'[e].token = NoToken \/ row'[e].token > granted
      BY <1>3, <2>2, <3>1, <3>2
    <3>3. ASSUME NEW q \in renewals \ settled, q.entry = e, q.token = row[e].token,
                 q.at < row[e].expires, row'[e].token = row[e].token
          PROVE  FALSE
      <4>1. q.at >= row[e].expires
        BY <2>1, <3>1, <3>3 DEF ExpiredAtStart
      <4>2. q.at \in Nat
        BY DEF WatchInv, RowInv, Renewal
      <4> QED BY <2>2, <3>3, <4>1, <4>2
    <3> QED BY <2>1, <3>2, <3>3 DEF LeaseStep
  <2>4. row'[e].token = x[2] => row[e].token = x[2]
    BY <2>3
  <2>5. row'[e].token = x[2] =>
          \A q \in renewals' \ settled' :
             q.entry = e /\ q.token = x[2] => q.at >= row'[e].expires
    <3>1. SUFFICES ASSUME row'[e].token = x[2], NEW q \in renewals' \ settled',
                          q.entry = e, q.token = x[2]
                   PROVE  q.at >= row'[e].expires
      OBVIOUS
    <3>2. CASE q \in renewals \ settled
      BY <2>1, <2>3, <2>4, <3>1, <3>2 DEF ExpiredAtStart
    <3>3. CASE q.at = clock
      <4>1. row[e].expires <= now
        BY <2>1, <2>4, <3>1 DEF ExpiredAtStart
      <4> QED BY <1>3, <2>1, <2>2, <2>3, <3>1, <3>3, <4>1
    <3> QED BY <2>1, <3>2, <3>3 DEF RenewalStep
  <2>6. x[2] <= granted'
    BY <1>1, <1>3, <2>2
  <2> QED BY <1>2, <2>1, <2>2, <2>3, <2>4, <2>5, <2>6 DEF ExpiredAtStart
<1> QED BY <1>1, <1>2, <1>3, <1>4, <1>5, <1>6 DEF WatchInv, ScanInv, Reported, Ahead

\* The copy catches up with the row.
LEMMA ReplicateKeeps ==
    ASSUME WatchInv, NEW e \in Entry, Replicate(e)
    PROVE  WatchInv'
<1>1. replica' = [replica EXCEPT ![e] = row[e]] /\ UNCHANGED <<rowVars, scanVars>>
  BY DEF Replicate
<1>2. /\ UNCHANGED <<clock, row, job, told, granted, renewals, settled>>
      /\ UNCHANGED <<next, now, found, clean, alerts, expired>>
  BY <1>1 DEF rowVars, renewVars, scanVars
<1>3. RowInv'
  BY <1>2 DEF WatchInv, RowInv, IsImage
<1>4. /\ replica' \in [Entry -> Row]
      /\ \A d \in Entry : replica'[d] = IF d = e THEN row[e] ELSE replica[d]
  BY <1>1 DEF WatchInv, ReplicaInv, RowInv
<1>5. ReplicaInv'
  <2>1. IsImage(row[e]) /\ row[e] \in Row /\ NoLater(e, row[e].token, row[e].expires)
    BY DEF WatchInv, RowInv, NoLater, Row
  <2> QED BY <1>2, <1>4, <2>1 DEF WatchInv, ReplicaInv, NoLater, IsImage
<1>6. \A x \in alerts \cup found : AlertIsDead(x)'
  BY <1>2 DEF WatchInv, ScanInv, AlertIsDead, NoLater
<1>7. \A x \in expired : ExpiredAtStart(x)'
  BY <1>2, <1>4 DEF WatchInv, ScanInv, ExpiredAtStart
<1> QED BY <1>2, <1>3, <1>5, <1>6, <1>7 DEF WatchInv, ScanInv, Reported, Ahead

LEMMA RowsStay ==
    ASSUME WatchInv, UNCHANGED <<rowVars, replica>>
    PROVE  /\ RowInv' /\ ReplicaInv'
           /\ \A x : AlertIsDead(x) => AlertIsDead(x)'
           /\ UNCHANGED now => \A x : ExpiredAtStart(x) => ExpiredAtStart(x)'
<1>1. UNCHANGED <<clock, row, job, told, granted, renewals, settled, replica>>
  BY DEF rowVars, renewVars
<1> QED BY <1>1 DEF WatchInv, RowInv, ReplicaInv, IsImage, NoLater, AlertIsDead, ExpiredAtStart

\* What a probe found had run out, and stands for the entry in what it reports.
LEMMA ProbeStalledKeeps ==
    ASSUME WatchInv, NEW e \in Entry, ProbeStalled(e)
    PROVE  WatchInv'
<1>a. PICK item \in Readable(e) :
        /\ Stalled(item, now)
        /\ found' = {[entry |-> e, owner |-> item.owner, expires |-> item.expires,
                      now |-> now, token |-> item.token]}
  BY DEF ProbeStalled
<1>0. PICK y : /\ found' = {y} /\ y.entry = e /\ y.token = item.token /\ y.now = now
               /\ y.expires = item.expires
  <2> DEFINE z == [entry |-> e, owner |-> item.owner, expires |-> item.expires,
                   now |-> now, token |-> item.token]
  <2>1. found' = {z} /\ z.entry = e /\ z.token = item.token /\ z.now = now
        /\ z.expires = item.expires
    BY <1>a
  <2> HIDE DEF z
  <2> QED BY <2>1
<1>1. /\ next \in DOMAIN Manifest /\ e = Manifest[next] /\ found = {}
      /\ UNCHANGED <<rowVars, replica, next, now, clean, alerts, expired>>
  BY DEF ProbeStalled, Probing
<1>2. next # NoScan
  BY <1>1, PlanAssumption DEF NoScan
<1>3. AlertIsDead(y)
  <2>1. /\ item \in Row /\ item.token \in Nat /\ item.token <= granted /\ item.expires \in Nat
        /\ item.token # NoToken /\ item.expires <= now
    BY <1>a DEF Readable, WatchInv, RowInv, ReplicaInv, IsImage, Row, Stalled
  <2>2. NoLater(e, item.token, item.expires)
    <3>1. CASE item = row[e]
      BY <2>1, <3>1 DEF NoLater
    <3>2. CASE item = replica[e]
      BY <2>1, <3>2 DEF WatchInv, ReplicaInv
    <3> QED BY <3>1, <3>2 DEF Readable
  <2>3. clock \in Nat /\ now \in Nat /\ now <= clock
    BY <1>2 DEF WatchInv, RowInv, ScanInv
  <2> QED BY <1>0, <2>1, <2>2, <2>3 DEF AlertIsDead
<1>4. RowInv' /\ ReplicaInv' /\ \A x \in alerts \cup found' : AlertIsDead(x)'
  BY <1>0, <1>1, <1>3, RowsStay DEF WatchInv, ScanInv
<1>5. UNCHANGED <<clock, row>>
  BY <1>1 DEF rowVars
<1>6. ASSUME NEW x \in expired, clean, row[x[1]].token = x[2]
      PROVE  (Reported(x, alerts \cup found) \/ Ahead(x))'
  <2>1. Reported(x, alerts \cup found) \/ Ahead(x)
    BY <1>6 DEF WatchInv, ScanInv
  <2>2. CASE Reported(x, alerts \cup found)
    BY <1>1, <2>2 DEF Reported
  <2>3. CASE Ahead(x)
    <3>1. PICK i \in DOMAIN Manifest : Manifest[i] = x[1] /\ (i > next \/ i = next)
      BY <2>3 DEF Ahead
    <3>2. CASE i > next
      BY <1>1, <3>1, <3>2 DEF Ahead
    <3>3. CASE i = next
      <4>1. x[1] = e /\ item.token = x[2]
        BY <1>0, <1>1, <1>6, <3>1, <3>3 DEF WatchInv, ScanInv, ExpiredAtStart, Readable
      <4> QED BY <1>0, <1>1, <4>1 DEF Reported
    <3> QED BY <3>1, <3>2, <3>3
  <2> QED BY <2>1, <2>2, <2>3
<1>7. \A x \in expired : ExpiredAtStart(x)'
  BY <1>1, RowsStay DEF WatchInv, ScanInv
<1> QED BY <1>1, <1>2, <1>4, <1>5, <1>6, <1>7 DEF WatchInv, ScanInv

\* The entry at hand is done with: its event was written, or nothing was to be said of it,
\* or the scan is not clean any more.
LEMMA AdvanceKeeps ==
    ASSUME WatchInv, next' = next + 1, next # NoScan, found' = {},
           alerts' \in {alerts, alerts \cup found}, clean' \in {clean, FALSE},
           UNCHANGED <<rowVars, replica, now, expired>>,
           clean' => \A x \in expired :
               /\ row[x[1]].token = x[2]
               /\ Reported(x, found) \/ \E i \in DOMAIN Manifest : Manifest[i] = x[1] /\ i = next
                                                                /\ found = {}
               => Reported(x, alerts') \/ \E i \in DOMAIN Manifest : Manifest[i] = x[1] /\ i > next
    PROVE  WatchInv'
<1>1. UNCHANGED <<clock, row>> /\ RowInv' /\ ReplicaInv'
  BY RowsStay DEF rowVars
<1>2. next \in Nat /\ next' \in Nat /\ next' # NoScan
  BY DEF WatchInv, ScanInv, NoScan
<1>3. \A x \in alerts' \cup found' : AlertIsDead(x)'
  BY RowsStay DEF WatchInv, ScanInv
<1>4. ASSUME NEW x \in expired, clean', row[x[1]].token = x[2]
      PROVE  (Reported(x, alerts \cup found) \/ Ahead(x))'
  <2>1. clean /\ (Reported(x, alerts \cup found) \/ Ahead(x))
    BY <1>4 DEF WatchInv, ScanInv
  <2>2. CASE Reported(x, alerts)
    BY <2>2 DEF Reported
  <2>3. CASE \E i \in DOMAIN Manifest : Manifest[i] = x[1] /\ i > next
    <3>1. \A i \in DOMAIN Manifest : i \in Nat
      BY PlanAssumption
    <3>2. PICK i \in DOMAIN Manifest : Manifest[i] = x[1] /\ i > next
      BY <2>3
    <3>3. i > next' \/ i = next'
      BY <1>2, <3>1, <3>2
    <3> QED BY <3>2, <3>3 DEF Ahead
  <2>4. CASE Reported(x, alerts')
    BY <2>4 DEF Reported
  <2>5. Reported(x, alerts) \/ Reported(x, found)
          \/ (\E i \in DOMAIN Manifest : Manifest[i] = x[1] /\ i > next)
          \/ (\E i \in DOMAIN Manifest : Manifest[i] = x[1] /\ i = next /\ found = {})
    BY <2>1 DEF Reported, Ahead
  <2> QED BY <1>4, <2>2, <2>3, <2>4, <2>5
<1>5. \A x \in expired : ExpiredAtStart(x)'
  BY RowsStay DEF WatchInv, ScanInv
<1> QED BY <1>1, <1>2, <1>3, <1>4, <1>5 DEF WatchInv, ScanInv

LEMMA ScanKeeps ==
    ASSUME WatchInv, Scan \/ Killed
    PROVE  WatchInv'
<1>1. CASE Start
  <2>1. /\ next' = 1 /\ now' = clock /\ found' = {} /\ alerts' = alerts
        /\ expired' = {<<e, row[e].token>> : e \in {d \in Entry : Overdue(d)}}
        /\ UNCHANGED <<rowVars, replica>> /\ UNCHANGED <<clock, row, granted, renewals, settled>>
    BY <1>1 DEF Start, WatchInv, ScanInv, rowVars, renewVars
  <2>2. RowInv' /\ ReplicaInv' /\ \A x \in alerts' \cup found' : AlertIsDead(x)'
    BY <2>1, RowsStay DEF WatchInv, ScanInv
  <2>3. ASSUME NEW x \in expired' PROVE ExpiredAtStart(x)' /\ Ahead(x)'
    <3>1. PICK e \in Entry : x = <<e, row[e].token>> /\ Overdue(e)
      BY <2>1
    <3>2. row[e] \in Row /\ row[e].token <= granted
      BY DEF WatchInv, RowInv, IsImage
    <3>3. ExpiredAtStart(x)'
      BY <2>1, <3>1, <3>2 DEF ExpiredAtStart, Row, Overdue, UnderWay
    <3>4. PICK i \in DOMAIN Manifest : Manifest[i] = e
      BY DEF Entry
    <3>5. i = 1 \/ i > 1
      BY PlanAssumption
    <3> QED BY <2>1, <3>1, <3>3, <3>4, <3>5 DEF Ahead
  <2> QED BY <2>1, <2>2, <2>3 DEF WatchInv, ScanInv, RowInv, NoScan
<1>2. CASE Emit
  <2>1. /\ next' = next + 1 /\ found # {} /\ found' = {}
        /\ UNCHANGED <<rowVars, replica, now, expired>>
        /\ \/ alerts' = alerts \cup found /\ clean' = clean
           \/ alerts' = alerts /\ clean' = FALSE
    BY <1>2 DEF Emit
  <2>2. next # NoScan
    BY <2>1 DEF WatchInv, ScanInv
  <2> QED BY <2>1, <2>2, AdvanceKeeps DEF Reported
<1>3. ASSUME NEW e \in Entry, ProbeStalled(e) PROVE WatchInv'
  BY <1>3, ProbeStalledKeeps
<1>4. ASSUME NEW e \in Entry, ProbeQuiet(e) PROVE WatchInv'
  <2>1. /\ next \in DOMAIN Manifest /\ e = Manifest[next] /\ found = {} /\ next' = next + 1
        /\ UNCHANGED <<rowVars, replica, now, found, clean, alerts, expired>>
        /\ \E item \in {row[e], replica[e]} : ~Stalled(item, now)
    BY <1>4 DEF ProbeQuiet, Probing, Readable
  <2>2. next # NoScan
    BY <2>1, PlanAssumption DEF NoScan
  <2>3. \A x \in expired : x[1] = e => row[x[1]].token # x[2]
    BY <2>1 DEF WatchInv, ScanInv, RowInv, ReplicaInv, IsImage, ExpiredAtStart, Stalled
  <2> QED BY <2>1, <2>2, <2>3, AdvanceKeeps DEF Reported
<1>5. ASSUME NEW e \in Entry, ProbeDegraded(e) PROVE WatchInv'
  <2>1. /\ next \in DOMAIN Manifest /\ found = {} /\ next' = next + 1 /\ clean' = FALSE
        /\ UNCHANGED <<rowVars, replica, now, found, alerts, expired>>
    BY <1>5 DEF ProbeDegraded, Probing
  <2>2. next # NoScan
    BY <2>1, PlanAssumption DEF NoScan
  <2> QED BY <2>1, <2>2, AdvanceKeeps
<1>6. CASE Conclude \/ Killed
  <2>1. /\ next' = NoScan /\ now' = 0 /\ expired' = {} /\ found' = {} /\ alerts' = alerts
        /\ UNCHANGED <<rowVars, replica>>
    BY <1>6 DEF Conclude, Killed
  <2>2. RowInv' /\ ReplicaInv' /\ \A x \in alerts' \cup found' : AlertIsDead(x)'
    BY <2>1, RowsStay DEF WatchInv, ScanInv
  <2> QED BY <2>1, <2>2 DEF WatchInv, ScanInv, NoScan
<1> QED BY <1>1, <1>2, <1>3, <1>4, <1>5, <1>6 DEF Scan

LEMMA WatchInductive == WatchInv /\ [Next]_vars => WatchInv'
<1> SUFFICES ASSUME WatchInv, [Next]_vars PROVE WatchInv'
  OBVIOUS
<1>1. CASE UNCHANGED vars
  <2>1. UNCHANGED <<rowVars, replica>> /\ UNCHANGED scanVars
    BY <1>1 DEF vars, watchVars
  <2> QED BY <2>1, RowsStay DEF WatchInv, ScanInv, Reported, Ahead, scanVars, rowVars
<1>2. CASE Scan \/ Killed
  BY <1>2, ScanKeeps
<1>3. CASE (Surroundings \/ \E r \in Run : Traffic(r)) /\ UNCHANGED watchVars
  BY <1>3, TrafficKeepsScan
<1>4. ASSUME NEW e \in Entry, Replicate(e) PROVE WatchInv'
  BY <1>4, ReplicateKeeps
<1> QED BY <1>1, <1>2, <1>3, <1>4 DEF Next

LEMMA WatchInvHolds == Spec => []WatchInv
<1>1. ASSUME Init PROVE WatchInv
  <2>1. RowInv /\ granted \in Nat /\ clock = 0
    BY <1>1, RowInit DEF Init, RowInv, RowsInit
  <2>2. ReplicaInv
    BY <1>1, <2>1, AbsentIsImage DEF Init, ReplicaInv, IsImage
  <2> QED BY <1>1, <2>1, <2>2 DEF Init, WatchInv, ScanInv, NoScan
<1> QED BY <1>1, WatchInductive, PTL DEF Spec

\* A lease that was reported as stalled is dead, unless its holder sent a renewal before
\* the time at which the report says it expired: the scan compares with a clock reading
\* that is never ahead of the clock, a renewal that is sent after the expiry is refused,
\* and a token is granted once.
THEOREM AlertsAreTrue == Spec => []AlertedLeaseIsDead
<1>1. ASSUME WatchInv, NEW x \in alerts \cup found,
             row[x.entry].token = x.token, Live(row[x.entry], clock)
      PROVE  \E q \in renewals : q.token = x.token /\ q.at < x.expires
  <2>1. AlertIsDead(x) /\ clock \in Nat
    BY <1>1 DEF WatchInv, RowInv, ScanInv
  <2>2. row[x.entry].expires \in Nat
    BY <1>1, <2>1 DEF WatchInv, RowInv, AlertIsDead, Row
  <2> QED BY <1>1, <2>1, <2>2 DEF AlertIsDead, NoLater, Live
<1>2. WatchInv => AlertedLeaseIsDead
  BY <1>1 DEF AlertedLeaseIsDead
<1> QED BY <1>2, WatchInvHolds, PTL

\* A scan that ends with exit code 0 reported every lease that was overdue when it began
\* and that is still in its row, although the rows are probed one after the other and a
\* probe may read a copy that lags behind.
THEOREM CleanScansAreComplete == Spec => CleanScanMissesNothing
<1> DEFINE Complete ==
      exit' = 0 /\ next # NoScan /\ next' = NoScan
        => \A x \in expired : row[x[1]].token = x[2]
              => \E y \in alerts : y.entry = x[1] /\ y.token = x[2] /\ y.now = now
<1>1. WatchInv /\ [Next]_vars => [Complete]_vars
  <2> SUFFICES ASSUME WatchInv, Next, exit' = 0, next # NoScan, next' = NoScan,
                      NEW x \in expired, row[x[1]].token = x[2]
               PROVE  Reported(x, alerts)
    BY DEF Reported
  <2>1. Conclude
    <3>1. next \in Nat /\ next + 1 # NoScan
      BY DEF WatchInv, ScanInv, NoScan
    <3> QED BY <3>1 DEF Next, Scan, Start, ProbeStalled, ProbeQuiet, ProbeDegraded, Emit,
                        Killed, watchVars, scanVars, Replicate, NoScan
  <2>2. clean /\ found = {} /\ next > Len(Manifest)
    BY <2>1 DEF Conclude
  <2>3. ~Ahead(x)
    BY <2>2, PlanAssumption DEF WatchInv, ScanInv, Ahead
  <2>4. Reported(x, alerts \cup found)
    BY <2>2, <2>3 DEF WatchInv, ScanInv
  <2> QED BY <2>2, <2>4
<1> QED BY <1>1, WatchInvHolds, PTL DEF Spec, CleanScanMissesNothing
=============================================================================
