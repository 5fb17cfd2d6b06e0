-------------------------- MODULE ResumeScan_proofs --------------------------
(***************************************************************************)
(* Proofs about ResumeScan, for every plan whose entries come from a tasks *)
(* file, every set of runs, every dependency between tasks and every bound.*)
(***************************************************************************)
EXTENDS ResumeScan, WellFoundedInduction, SequenceTheorems, TLAPS

LEMMA LeastNatural ==
    ASSUME NEW S \in SUBSET Nat, S # {}
    PROVE  \E m \in S : \A n \in S : m <= n
<1> DEFINE Less == {pair \in Nat \X Nat : pair[1] < pair[2]}
<1>1. IsWellFoundedOn(Less, Nat)
  BY NatLessThanWellFounded DEF OpToRel
<1>2. PICK m \in S : \A n \in S : <<n, m>> \notin Less
  BY <1>1, WFMin
<1>3. ASSUME NEW n \in S PROVE m <= n
  <2>1. <<n, m>> \notin Less
    BY <1>2
  <2> QED BY <2>1
<1> QED BY <1>3

-----------------------------------------------------------------------------
(* The rows.                                                               *)

Status == {"", "in_progress", "completed", "fail"}
Checkpoint == [phase : 0..Phases, status : Status]
JobRecord == [entry : Entry \cup {NoEntry}, token : Nat]

\* A checkpoint, or a row as seen, claims no more than n phases done.
Says(c, n) ==
    /\ c.phase = 0 => c.status = ""
    /\ c.status = "completed" => c.phase <= n
    /\ c.phase # 0 /\ c.status # "completed" => c.phase <= n + 1

\* By the code's measure, what e depends on is done.
DepsDone(e) == \A t \in DependsOn[e] : \E d \in Entry : TaskOf[d] = t /\ finished[d] = Phases

JobIsFree(r) == Lanes /\ job[r].entry # NoEntry => DepsDone(job[r].entry)

\* No checkpoint that the row of e holds or has held claims more than what was done.
IsTrueOf(c, e) ==
    /\ c \in Checkpoint
    /\ Says(c, finished[e])
    /\ Lanes /\ c.phase # 0 => DepsDone(e)

RowIsTrue(e) ==
    /\ cp[e] \in images[e]
    /\ \A c \in images[e] : IsTrueOf(c, e)

RowInv ==
    /\ cp \in [Entry -> Checkpoint]
    /\ images \in [Entry -> SUBSET Checkpoint]
    /\ finished \in [Entry -> 0..Phases]
    /\ job \in [Run -> JobRecord]
    /\ granted \in Nat
    /\ \A e \in Entry : NoCheckpoint \in images[e] /\ RowIsTrue(e)
    /\ \A r \in Run : JobIsFree(r)

\* Time passes for what was read of the rows: work is never undone.
Progress == \A e \in Entry : finished[e] <= finished'[e]

LEMMA PhaseCount == Phases \in Nat /\ Phases > 0
BY PlanAssumption

LEMMA SaysStays ==
    ASSUME NEW c, c.phase \in 0..Phases, NEW n \in 0..Phases, NEW m \in 0..Phases, n <= m, Says(c, n)
    PROVE  Says(c, m)
<1>1. PICK k \in Nat : k = c.phase
  BY PhaseCount
<1>2. n \in Nat /\ m \in Nat
  BY PhaseCount
<1>3. k <= n => k <= m
  BY <1>2
<1>4. k <= n + 1 => k <= m + 1
  BY <1>2
<1> QED BY <1>1, <1>3, <1>4 DEF Says

LEMMA FinishedStays ==
    ASSUME finished' \in [Entry -> 0..Phases], Progress, NEW e \in Entry, finished[e] = Phases
    PROVE  finished'[e] = Phases
<1>1. finished[e] <= finished'[e] /\ finished'[e] \in 0..Phases
  BY DEF Progress
<1> QED BY <1>1, PhaseCount

LEMMA DepsStayDone ==
    ASSUME finished' \in [Entry -> 0..Phases], Progress, NEW e \in Entry, DepsDone(e)
    PROVE  DepsDone(e)'
BY FinishedStays DEF DepsDone

LEMMA ImageStaysTrue ==
    ASSUME finished \in [Entry -> 0..Phases], finished' \in [Entry -> 0..Phases], Progress,
           NEW e \in Entry, NEW c, IsTrueOf(c, e)
    PROVE  IsTrueOf(c, e)'
<1>1. DepsDone(e) => DepsDone(e)'
  BY DepsStayDone
<1>2. c.phase \in 0..Phases /\ finished[e] \in 0..Phases /\ finished'[e] \in 0..Phases
      /\ finished[e] <= finished'[e]
  BY DEF IsTrueOf, Checkpoint, Progress
<1>3. Says(c, finished'[e])
  BY <1>2, SaysStays DEF IsTrueOf
<1> QED BY <1>1, <1>3 DEF IsTrueOf, Says

LEMMA FreeKeepsJobs ==
    ASSUME RowInv, NEW r \in Run, job' = [job EXCEPT ![r] = NoJob], UNCHANGED finished
    PROVE  job' \in [Run -> JobRecord] /\ \A q \in Run : JobIsFree(q)'
<1>1. NoJob \in JobRecord /\ NoJob.entry = NoEntry
  BY DEF NoJob, NoToken, JobRecord
<1>2. job' \in [Run -> JobRecord]
  BY <1>1 DEF RowInv
<1>3. ASSUME NEW q \in Run PROVE JobIsFree(q)'
  <2>1. job'[q] = IF q = r THEN NoJob ELSE job[q]
    BY DEF RowInv
  <2>2. JobIsFree(q)
    BY DEF RowInv
  <2> QED BY <1>1, <2>1, <2>2 DEF JobIsFree, DepsDone
<1> QED BY <1>2, <1>3

\* A checkpoint is written by a run that holds the entry.
LEMMA PutKeeps ==
    ASSUME RowInv, NEW r \in Run, NEW e \in Entry, e = job[r].entry, e # NoEntry,
           NEW c \in Checkpoint, cp' = [cp EXCEPT ![e] = c],
           images' = [images EXCEPT ![e] = @ \cup {c}],
           NEW done \in 0..Phases, finished[e] <= done, finished' = [finished EXCEPT ![e] = done],
           Says(c, done), UNCHANGED <<job, granted>>
    PROVE  RowInv' /\ Progress
<1>1. /\ cp' \in [Entry -> Checkpoint] /\ finished' \in [Entry -> 0..Phases]
      /\ images' \in [Entry -> SUBSET Checkpoint]
  BY DEF RowInv
<1>2. \A d \in Entry : /\ cp'[d] = IF d = e THEN c ELSE cp[d]
                       /\ images'[d] = IF d = e THEN images[d] \cup {c} ELSE images[d]
                       /\ finished'[d] = IF d = e THEN done ELSE finished[d]
  BY DEF RowInv
<1>3. Progress
  <2>1. \A d \in Entry : finished[d] \in 0..Phases
    BY DEF RowInv
  <2> QED BY <1>2, <2>1, PhaseCount DEF Progress
<1>4. \A d \in Entry : DepsDone(d) => DepsDone(d)'
  BY <1>1, <1>3, DepsStayDone
<1>5. Lanes => DepsDone(e)
  BY DEF RowInv, JobIsFree
<1>6. ASSUME NEW d \in Entry PROVE RowIsTrue(d)'
  <2>1. RowIsTrue(d)
    BY DEF RowInv
  <2>2. ASSUME NEW x \in images[d] PROVE IsTrueOf(x, d)'
    <3>1. IsTrueOf(x, d)
      BY <2>1, <2>2 DEF RowIsTrue
    <3> QED BY <1>1, <1>3, <3>1, ImageStaysTrue DEF RowInv
  <2>3. IsTrueOf(c, e)'
    BY <1>2, <1>4, <1>5 DEF IsTrueOf, Says, Checkpoint
  <2> QED BY <1>2, <2>1, <2>2, <2>3 DEF RowIsTrue
<1>7. ASSUME NEW q \in Run PROVE JobIsFree(q)'
  <2>1. JobIsFree(q) /\ job[q] \in JobRecord
    BY DEF RowInv
  <2>2. CASE Lanes /\ job[q].entry # NoEntry
    <3>1. PICK d \in Entry : d = job[q].entry
      BY <2>1, <2>2 DEF JobRecord
    <3>2. DepsDone(d)'
      BY <1>4, <2>1, <2>2, <3>1 DEF JobIsFree
    <3> QED BY <3>1, <3>2 DEF JobIsFree, DepsDone
  <2>3. CASE ~(Lanes /\ job[q].entry # NoEntry)
    BY <2>3 DEF JobIsFree
  <2> QED BY <2>2, <2>3
<1> QED BY <1>1, <1>3, <1>6, <1>7 DEF RowInv

\* A step that leaves the checkpoints and the work done alone.
LEMMA LeaseStepKeeps ==
    ASSUME RowInv, UNCHANGED <<cp, images, finished>>, granted' \in Nat,
           job' \in [Run -> JobRecord], \A q \in Run : JobIsFree(q)'
    PROVE  RowInv' /\ Progress
<1>1. \A e \in Entry : finished[e] \in 0..Phases
  BY DEF RowInv
<1>2. Progress
  BY <1>1, PhaseCount DEF Progress
<1>3. ASSUME NEW e \in Entry PROVE RowIsTrue(e)'
  <2>1. RowIsTrue(e)
    BY DEF RowInv
  <2> QED BY <2>1 DEF RowIsTrue, IsTrueOf, DepsDone, Says
<1> QED BY <1>2, <1>3 DEF RowInv

LEMMA RowSteps ==
    ASSUME RowInv, Surroundings \/ \E r \in Run : Work(r)
    PROVE  RowInv' /\ Progress
<1>1. ASSUME NEW e \in Entry
      PROVE  /\ finished[e] \in 0..Phases /\ cp[e] \in Checkpoint /\ cp[e].phase \in 0..Phases
             /\ RowIsTrue(e) /\ Says(cp[e], finished[e])
  BY DEF RowInv, Checkpoint, Status, RowIsTrue, IsTrueOf
<1>2. ASSUME UNCHANGED <<job, finished>> PROVE \A q \in Run : JobIsFree(q)'
  <2>1. \A q \in Run : JobIsFree(q)
    BY DEF RowInv
  <2> QED BY <1>2, <2>1 DEF JobIsFree, DepsDone
<1>3. ASSUME NEW r \in Run, job[r].entry # NoEntry PROVE \E e \in Entry : e = job[r].entry
  BY <1>3 DEF RowInv, JobRecord
<1>4. CASE Tick
  <2>1. UNCHANGED <<cp, images, finished, job, granted>>
    BY <1>4 DEF Tick
  <2> QED BY <1>2, <2>1, LeaseStepKeeps DEF RowInv
<1>5. ASSUME NEW e \in Entry, Purge(e) PROVE RowInv' /\ Progress
  <2>1. /\ cp' = [cp EXCEPT ![e] = NoCheckpoint] /\ UNCHANGED <<images, job, granted, finished>>
    BY <1>5 DEF Purge
  <2>2. \A d \in Entry : NoCheckpoint \in images[d]
    BY DEF RowInv
  <2>3. NoCheckpoint \in Checkpoint
    BY <2>2 DEF RowInv
  <2>4. cp' \in [Entry -> Checkpoint]
        /\ \A d \in Entry : cp'[d] = IF d = e THEN NoCheckpoint ELSE cp[d]
    BY <2>1, <2>3 DEF RowInv
  <2>5. Progress
    BY <1>1, <2>1, PhaseCount DEF Progress
  <2>6. ASSUME NEW d \in Entry PROVE RowIsTrue(d)'
    <3>1. RowIsTrue(d) /\ cp'[d] \in images'[d]
      BY <1>1, <2>1, <2>2, <2>4 DEF RowIsTrue
    <3> QED BY <2>1, <3>1 DEF RowIsTrue, IsTrueOf, DepsDone, Says
  <2> QED BY <1>2, <2>1, <2>2, <2>4, <2>5, <2>6 DEF RowInv
<1>6. ASSUME NEW r \in Run, Begin(r) PROVE RowInv' /\ Progress
  <2>1. PICK e \in Entry : e = job[r].entry
    BY <1>3, <1>6 DEF Begin, Put
  <2>2. /\ e # NoEntry /\ Upcoming(cp[e]) <= Phases
        /\ cp' = [cp EXCEPT ![e] = [phase |-> Upcoming(cp[e]), status |-> "in_progress"]]
        /\ images' = [images EXCEPT ![e] =
                         @ \cup {[phase |-> Upcoming(cp[e]), status |-> "in_progress"]}]
        /\ UNCHANGED <<job, granted, finished>>
    BY <1>6, <2>1 DEF Begin, Put
  <2>3. Upcoming(cp[e]) \in 1..Phases
    BY <1>1, <2>2, PhaseCount DEF Upcoming
  <2>4. PICK c \in Checkpoint : c = [phase |-> Upcoming(cp[e]), status |-> "in_progress"]
    <3>1. [phase |-> Upcoming(cp[e]), status |-> "in_progress"] \in Checkpoint
      <4>1. Upcoming(cp[e]) \in 0..Phases
        BY <2>3, PhaseCount
      <4> QED BY <4>1 DEF Checkpoint, Status
    <3> QED BY <3>1
  <2>5. c.phase = Upcoming(cp[e]) /\ c.status = "in_progress"
    BY <2>4
  <2>6. Says(c, finished[e])
    <3>1. Says(cp[e], finished[e]) /\ cp[e].phase \in 0..Phases /\ finished[e] \in 0..Phases
      BY <1>1
    <3>2. c.phase # 0 /\ c.status # "completed"
      BY <2>3, <2>5, PhaseCount
    <3>3. PICK n \in Nat, m \in Nat : n = finished[e] /\ m = cp[e].phase
      BY <3>1, PhaseCount
    <3>4. c.phase <= n + 1
      <4>1. CASE m = 0
        BY <2>5, <3>3, <4>1 DEF Upcoming
      <4>2. CASE m # 0 /\ cp[e].status = "completed"
        BY <2>5, <3>1, <3>3, <4>2 DEF Upcoming, Says
      <4>3. CASE m # 0 /\ cp[e].status # "completed"
        BY <2>5, <3>1, <3>3, <4>3 DEF Upcoming, Says
      <4> QED BY <4>1, <4>2, <4>3
    <3> QED BY <3>2, <3>3, <3>4 DEF Says
  <2>7. finished' = [finished EXCEPT ![e] = finished[e]] /\ finished[e] \in 0..Phases
        /\ finished[e] <= finished[e]
    BY <1>1, <2>2, PhaseCount DEF RowInv
  <2> QED BY <2>1, <2>2, <2>4, <2>6, <2>7, PutKeeps
<1>7. ASSUME NEW r \in Run, Finish(r) PROVE RowInv' /\ Progress
  <2>1. PICK e \in Entry : e = job[r].entry
    BY <1>3, <1>7 DEF Finish, Put
  <2> DEFINE ended(status) == [phase |-> cp[e].phase, status |-> status]
  <2>2. /\ e # NoEntry /\ cp[e].status = "in_progress" /\ UNCHANGED <<job, granted>>
        /\ \/ /\ cp' = [cp EXCEPT ![e] = ended("completed")]
              /\ images' = [images EXCEPT ![e] = @ \cup {ended("completed")}]
              /\ finished' = [finished EXCEPT ![e] = IF finished[e] < cp[e].phase THEN cp[e].phase
                                                     ELSE finished[e]]
           \/ /\ cp' = [cp EXCEPT ![e] = ended("fail")] /\ finished' = finished
              /\ images' = [images EXCEPT ![e] = @ \cup {ended("fail")}]
    BY <1>7, <2>1 DEF Finish, Put
  <2>3. cp[e].phase \in 1..Phases
    <3>1. Says(cp[e], finished[e]) /\ cp[e].phase \in 0..Phases
      BY <1>1
    <3> QED BY <2>2, <3>1, PhaseCount DEF Says
  <2>4. ended("completed") \in Checkpoint /\ ended("fail") \in Checkpoint
    <3>1. cp[e].phase \in 0..Phases
      BY <2>3, PhaseCount
    <3> QED BY <3>1 DEF Checkpoint, Status
  <2>5. CASE /\ cp' = [cp EXCEPT ![e] = ended("completed")]
             /\ images' = [images EXCEPT ![e] = @ \cup {ended("completed")}]
             /\ finished' = [finished EXCEPT ![e] = IF finished[e] < cp[e].phase THEN cp[e].phase
                                                    ELSE finished[e]]
    <3>1. PICK c \in Checkpoint : c = ended("completed")
      BY <2>4
    <3>2. PICK n \in 0..Phases : n = IF finished[e] < cp[e].phase THEN cp[e].phase ELSE finished[e]
      BY <1>1, <2>3, PhaseCount
    <3>3. c.phase = cp[e].phase /\ c.status = "completed"
      BY <3>1
    <3>4. finished[e] <= n /\ Says(c, n)
      <4>1. Says(cp[e], finished[e]) /\ finished[e] \in 0..Phases
        BY <1>1
      <4> QED BY <2>2, <2>3, <3>2, <3>3, <4>1, PhaseCount DEF Says
    <3>5. cp' = [cp EXCEPT ![e] = c] /\ images' = [images EXCEPT ![e] = @ \cup {c}] /\ finished' = [finished EXCEPT ![e] = n]
      BY <2>5, <3>1, <3>2
    <3> HIDE DEF ended
    <3> QED BY <2>1, <2>2, <3>4, <3>5, PutKeeps
  <2>6. CASE /\ cp' = [cp EXCEPT ![e] = ended("fail")] /\ finished' = finished
             /\ images' = [images EXCEPT ![e] = @ \cup {ended("fail")}]
    <3>1. PICK c \in Checkpoint : c = ended("fail")
      BY <2>4
    <3>2. c.phase = cp[e].phase /\ c.status = "fail"
      BY <3>1
    <3>3. finished' = [finished EXCEPT ![e] = finished[e]] /\ finished[e] \in 0..Phases
          /\ finished[e] <= finished[e]
      BY <1>1, <2>6, PhaseCount DEF RowInv
    <3>4. Says(c, finished[e])
      BY <1>1, <2>2, <2>3, <3>2, PhaseCount DEF Says
    <3>5. cp' = [cp EXCEPT ![e] = c] /\ images' = [images EXCEPT ![e] = @ \cup {c}]
      BY <2>6, <3>1
    <3> HIDE DEF ended
    <3> QED BY <2>1, <2>2, <3>3, <3>4, <3>5, PutKeeps
  <2> QED BY <2>2, <2>5, <2>6
<1>8. CASE (\E q \in renewals : Renew(q)) \/ \E r \in Run : SendRenew(r)
  <2>1. UNCHANGED <<cp, images, finished, job, granted>>
    BY <1>8 DEF Renew, SendRenew
  <2> QED BY <1>2, <2>1, LeaseStepKeeps DEF RowInv
<1>9. ASSUME NEW r \in Run, Release(r) \/ Crash(r) PROVE RowInv' /\ Progress
  <2>1. job' = [job EXCEPT ![r] = NoJob] /\ UNCHANGED <<cp, images, granted, finished>>
    BY <1>9 DEF Release, Crash
  <2>2. job' \in [Run -> JobRecord] /\ \A q \in Run : JobIsFree(q)'
    BY <2>1, FreeKeepsJobs
  <2> QED BY <2>1, <2>2, LeaseStepKeeps DEF RowInv
<1> QED BY <1>4, <1>5, <1>6, <1>7, <1>8, <1>9 DEF Surroundings, Work

-----------------------------------------------------------------------------
(* The scan.                                                               *)

SeenRow == [phase : 0..Phases, status : Status, degraded : BOOLEAN]

\* What was read of e, maybe from an older image, claims no more than what is done.
SeenIsTrue(s, e) ==
    /\ ~s.degraded => Says(s, finished[e])
    /\ ~s.degraded /\ Lanes /\ s.phase # 0 => DepsDone(e)

ScanInv ==
    running => /\ listed = Manifest
               /\ seen \in Seq(SeenRow)
               /\ Len(seen) <= Len(Manifest)
               /\ \A i \in 1..Len(seen) : SeenIsTrue(seen[i], Manifest[i])

TargetRecord == [entry : Entry, phase : 1..Phases]

\* A target is the first entry that was not seen complete, at no later phase than its first to do.
TargetIsTrue ==
    report.target # NoTarget =>
      LET t == report.target IN
      /\ t \in TargetRecord
      /\ t.phase <= finished[t.entry] + 1
      /\ \E j \in 1..Len(Manifest) :
            /\ Manifest[j] = t.entry
            /\ \A i \in 1..Len(Manifest) :
                 i < j => Manifest[i] \in report.degraded \/ finished[Manifest[i]] = Phases

ReportIsTrue ==
    /\ TargetIsTrue
    /\ report.printed /\ report.target = NoTarget =>
         \A e \in Entry : e \in report.degraded \/ finished[e] = Phases
    /\ report.printed /\ Lanes =>
         \A e \in Entry \ (report.runnable \cup report.active \cup report.blocked) :
            finished[e] = Phases
    /\ Lanes => \A e \in (report.runnable \cup report.active) \cap Entry : DepsDone(e)

Inv == RowInv /\ ScanInv /\ ReportIsTrue

LEMMA ManifestEntries ==
    /\ Manifest \in Seq(Entry)
    /\ Len(Manifest) \in Nat
    /\ DOMAIN Manifest = 1..Len(Manifest)
    /\ \A i \in 1..Len(Manifest) : Manifest[i] \in Entry
    /\ \A e \in Entry : \E i \in 1..Len(Manifest) : Manifest[i] = e
<1>1. Manifest \in Seq(Entry)
  BY PlanAssumption
<1>2. DOMAIN Manifest = 1..Len(Manifest) /\ Len(Manifest) \in Nat
  BY <1>1
<1> QED BY <1>1, <1>2 DEF Entry

\* What the reports conclude from one row as seen.
LEMMA SeenFacts ==
    ASSUME NEW e \in Entry, NEW s \in SeenRow, SeenIsTrue(s, e), ~s.degraded,
           finished[e] \in 0..Phases
    PROVE  /\ FullyComplete(s) => finished[e] = Phases
           /\ FirstIncomplete(s) = 0 => FullyComplete(s)
           /\ FirstIncomplete(s) # 0 => /\ FirstIncomplete(s) \in 1..Phases
                                        /\ FirstIncomplete(s) <= finished[e] + 1
<1>1. s.phase \in 0..Phases /\ Says(s, finished[e])
  BY DEF SeenRow, SeenIsTrue
<1>2. CASE s.phase = 0
  <2>1. FirstIncomplete(s) = 1 /\ ~FullyComplete(s)
    BY <1>1, <1>2, PhaseCount DEF FirstIncomplete, FullyComplete
  <2> QED BY <2>1, PhaseCount
<1>3. CASE s.phase # 0 /\ s.status = "completed"
  BY <1>1, <1>3, PhaseCount DEF FirstIncomplete, FullyComplete, Says
<1>4. CASE s.phase # 0 /\ s.status # "completed"
  <2>1. FirstIncomplete(s) = s.phase /\ ~FullyComplete(s)
    BY <1>1, <1>4, PhaseCount DEF FirstIncomplete, FullyComplete
  <2>2. s.phase <= finished[e] + 1
    BY <1>1, <1>4 DEF Says
  <2> QED BY <1>1, <1>4, <2>1, <2>2, PhaseCount
<1> QED BY <1>2, <1>3, <1>4

\* The envelope of a complete scan.
LEMMA EnvelopeIsTrue ==
    ASSUME RowInv, NEW s \in Seq(SeenRow), Len(s) = Len(Manifest),
           \A i \in 1..Len(s) : SeenIsTrue(s[i], Manifest[i]),
           report' = Envelope(Manifest, s), UNCHANGED rowVars
    PROVE  ReportIsTrue'
<1> DEFINE n == Len(Manifest)
           E == Envelope(Manifest, s)
<1>1. /\ n \in Nat /\ DOMAIN s = 1..n /\ DOMAIN Manifest = 1..n
      /\ \A i \in 1..n : Manifest[i] \in Entry /\ s[i] \in SeenRow /\ SeenIsTrue(s[i], Manifest[i])
      /\ \A i \in 1..n : finished[Manifest[i]] \in 0..Phases
  <2>1. \A e \in Entry : finished[e] \in 0..Phases
    BY DEF RowInv
  <2> QED BY <2>1, ManifestEntries
<1> HIDE DEF n
<1>2. UNCHANGED finished
  BY DEF rowVars
<1>3. ASSUME NEW i \in 1..n, ~s[i].degraded
      PROVE  /\ FullyComplete(s[i]) => finished[Manifest[i]] = Phases
             /\ FirstIncomplete(s[i]) = 0 => FullyComplete(s[i])
             /\ FirstIncomplete(s[i]) # 0 =>
                  /\ FirstIncomplete(s[i]) \in 1..Phases
                  /\ FirstIncomplete(s[i]) <= finished[Manifest[i]] + 1
  BY <1>1, <1>3, SeenFacts
<1>4. DegradedOf(Manifest, s) = {Manifest[i] : i \in {j \in 1..n : s[j].degraded}}
  BY <1>1 DEF DegradedOf
<1>5. TargetIsTrue'
  <2>1. Open(s) = {i \in 1..n : ~s[i].degraded /\ FirstIncomplete(s[i]) # 0}
    BY <1>1 DEF Open
  <2>2. CASE Open(s) = {}
    <3>1. report'.target = NoTarget
      BY <2>2 DEF Envelope, Target
    <3> QED BY <3>1 DEF TargetIsTrue, NoTarget
  <2>3. CASE Open(s) # {}
    <3>1. \E i \in Open(s) : \A j \in Open(s) : i <= j
      BY <1>1, <2>1, <2>3, LeastNatural
    <3> DEFINE k == CHOOSE i \in Open(s) : \A j \in Open(s) : i <= j
    <3>2. k \in Open(s) /\ \A j \in Open(s) : k <= j
      BY <3>1
    <3>3. report'.target = [entry |-> Manifest[k], phase |-> FirstIncomplete(s[k])]
          /\ report'.degraded = DegradedOf(Manifest, s)
      BY <2>3 DEF Envelope, Target
    <3> HIDE DEF k
    <3>4. k \in 1..n /\ ~s[k].degraded /\ FirstIncomplete(s[k]) # 0
      BY <2>1, <3>2
    <3>5. /\ FirstIncomplete(s[k]) \in 1..Phases
          /\ FirstIncomplete(s[k]) <= finished[Manifest[k]] + 1
      BY <1>3, <3>4
    <3>6. ASSUME NEW i \in 1..n, i < k
          PROVE  Manifest[i] \in DegradedOf(Manifest, s) \/ finished[Manifest[i]] = Phases
      <4>1. CASE s[i].degraded
        BY <1>4, <4>1
      <4>2. CASE ~s[i].degraded
        <5>1. FirstIncomplete(s[i]) = 0
          BY <1>1, <2>1, <3>2, <3>4, <3>6, <4>2
        <5> QED BY <1>3, <4>2, <5>1
      <4> QED BY <4>1, <4>2
    <3>7. report'.target \in TargetRecord
      BY <1>1, <3>3, <3>4, <3>5 DEF TargetRecord
    <3> QED BY <1>1, <1>2, <3>3, <3>4, <3>5, <3>6, <3>7 DEF TargetIsTrue, n
  <2> QED BY <2>2, <2>3
<1>6. /\ report'.target = Target(Manifest, s) /\ report'.degraded = DegradedOf(Manifest, s)
      /\ Lanes => /\ report'.runnable = RunnableOf(Manifest, s)
                  /\ report'.active = ActiveOf(Manifest, s)
                  /\ report'.blocked = BlockedOf(Manifest, s)
  BY DEF Envelope
<1>7. ASSUME Target(Manifest, s) = NoTarget, NEW e \in Entry
      PROVE  e \in DegradedOf(Manifest, s) \/ finished[e] = Phases
  <2>1. PICK i \in 1..n : Manifest[i] = e
    BY ManifestEntries DEF n
  <2>2. Open(s) = {}
    <3>1. SUFFICES ASSUME Open(s) # {} PROVE FALSE
      OBVIOUS
    <3>2. \E j \in Open(s) : \A m \in Open(s) : j <= m
      <4>1. Open(s) \in SUBSET Nat
        BY <1>1 DEF Open
      <4> QED BY <3>1, <4>1, LeastNatural
    <3>3. PICK j \in Open(s) : Target(Manifest, s).entry = Manifest[j]
      BY <3>1, <3>2 DEF Target
    <3>4. Manifest[j] \in Entry
      BY <1>1 DEF Open
    <3> QED BY <1>7, <3>3, <3>4, PlanAssumption DEF NoTarget
  <2>3. CASE s[i].degraded
    BY <1>4, <2>1, <2>3
  <2>4. CASE ~s[i].degraded
    <3>1. FirstIncomplete(s[i]) = 0
      BY <1>1, <2>2, <2>4 DEF Open
    <3> QED BY <1>3, <2>1, <2>4, <3>1
  <2> QED BY <2>3, <2>4
<1>8. ASSUME NEW e \in Entry,
             e \notin RunnableOf(Manifest, s) \cup ActiveOf(Manifest, s) \cup BlockedOf(Manifest, s)
      PROVE  finished[e] = Phases
  <2>1. PICK i \in 1..n : Manifest[i] = e
    BY ManifestEntries DEF n
  <2>2. ~s[i].degraded
    BY <1>4, <1>8, <2>1 DEF BlockedOf
  <2>3. i \notin Undone(s)
    BY <1>8, <2>1 DEF RunnableOf, ActiveOf, BlockedOf
  <2>4. FullyComplete(s[i])
    BY <1>1, <2>2, <2>3 DEF Undone
  <2> QED BY <1>3, <2>1, <2>2, <2>4
<1>9. ASSUME Lanes, NEW e \in RunnableOf(Manifest, s) \cup ActiveOf(Manifest, s)
      PROVE  DepsDone(e)
  <2>1. CASE e \in ActiveOf(Manifest, s)
    <3>1. PICK i \in 1..n : e = Manifest[i] /\ ~s[i].degraded /\ s[i].status = "in_progress"
      BY <1>1, <2>1 DEF ActiveOf, Undone
    <3>2. s[i].phase # 0
      BY <1>1, <3>1 DEF SeenIsTrue, Says
    <3> QED BY <1>1, <1>9, <3>1, <3>2 DEF SeenIsTrue
  <2>2. CASE e \in RunnableOf(Manifest, s)
    <3>1. DependsOn[e] \subseteq CompleteTasks(Manifest, s)
      BY <2>2 DEF RunnableOf
    <3>2. ASSUME NEW t \in CompleteTasks(Manifest, s)
          PROVE  \E d \in Entry : TaskOf[d] = t /\ finished[d] = Phases
      <4>1. PICK i \in 1..n : t = TaskOf[Manifest[i]] /\ FullyComplete(s[i])
        BY <1>1 DEF CompleteTasks
      <4>2. finished[Manifest[i]] = Phases
        BY <1>3, <4>1 DEF FullyComplete
      <4> QED BY <1>1, <4>1, <4>2
    <3> QED BY <3>1, <3>2 DEF DepsDone
  <2> QED BY <2>1, <2>2
<1> QED
  <2>1. (report.printed /\ report.target = NoTarget =>
           \A e \in Entry : e \in report.degraded \/ finished[e] = Phases)'
    BY <1>2, <1>6, <1>7
  <2>2. (report.printed /\ Lanes =>
           \A e \in Entry \ (report.runnable \cup report.active \cup report.blocked) :
              finished[e] = Phases)'
    BY <1>2, <1>6, <1>8
  <2>3. (Lanes => \A e \in (report.runnable \cup report.active) \cap Entry : DepsDone(e))'
    BY <1>2, <1>6, <1>9 DEF DepsDone
  <2> QED BY <1>5, <2>1, <2>2, <2>3 DEF ReportIsTrue

\* What was concluded stays true while the agents work.
LEMMA ReportStaysTrue ==
    ASSUME ReportIsTrue, RowInv, RowInv', Progress, UNCHANGED report
    PROVE  ReportIsTrue'
<1>1. finished' \in [Entry -> 0..Phases]
  BY DEF RowInv
<1>2. \A e \in Entry : finished[e] = Phases => finished'[e] = Phases
  BY <1>1, FinishedStays
<1>3. \A e \in Entry : DepsDone(e) => DepsDone(e)'
  BY <1>1, DepsStayDone
<1>4. TargetIsTrue'
  <2>1. SUFFICES ASSUME report.target # NoTarget PROVE TargetIsTrue'
    BY DEF TargetIsTrue
  <2>2. PICK t \in TargetRecord : t = report.target
    BY <2>1 DEF ReportIsTrue, TargetIsTrue
  <2>3. t.phase <= finished[t.entry] + 1
    BY <2>1, <2>2 DEF ReportIsTrue, TargetIsTrue
  <2>4. t.phase <= finished'[t.entry] + 1
    <3>1. /\ finished[t.entry] <= finished'[t.entry] /\ t.phase \in 1..Phases
          /\ finished[t.entry] \in 0..Phases /\ finished'[t.entry] \in 0..Phases
      BY DEF TargetRecord, RowInv, Progress
    <3> QED BY <2>3, <3>1, PhaseCount
  <2>5. PICK j \in 1..Len(Manifest) :
          /\ Manifest[j] = t.entry
          /\ \A i \in 1..Len(Manifest) :
               i < j => Manifest[i] \in report.degraded \/ finished[Manifest[i]] = Phases
    BY <2>1, <2>2 DEF ReportIsTrue, TargetIsTrue
  <2>6. \A i \in 1..Len(Manifest) :
          i < j => Manifest[i] \in report.degraded \/ finished'[Manifest[i]] = Phases
    BY <1>2, <2>5, ManifestEntries
  <2> QED BY <1>1, <2>2, <2>3, <2>4, <2>5, <2>6 DEF TargetIsTrue
<1> QED BY <1>2, <1>3, <1>4 DEF ReportIsTrue

\* What was read stays true while the agents work.
LEMMA ScanStaysTrue ==
    ASSUME ScanInv, RowInv, RowInv', Progress, UNCHANGED <<running, listed, seen>>
    PROVE  ScanInv'
<1>1. finished' \in [Entry -> 0..Phases]
  BY DEF RowInv
<1>2. ASSUME NEW e \in Entry, NEW s \in SeenRow, SeenIsTrue(s, e)
      PROVE  SeenIsTrue(s, e)'
  <2>1. ~s.degraded => Says(s, finished'[e])
    <3>1. /\ finished[e] <= finished'[e] /\ s.phase \in 0..Phases
          /\ finished[e] \in 0..Phases /\ finished'[e] \in 0..Phases
      BY <1>2 DEF SeenRow, RowInv, Progress
    <3> QED BY <1>2, <3>1, SaysStays DEF SeenIsTrue
  <2>2. DepsDone(e) => DepsDone(e)'
    BY <1>1, DepsStayDone
  <2> QED BY <1>1, <1>2, <2>1, <2>2 DEF SeenIsTrue, Says
<1>3. ASSUME running, NEW i \in 1..Len(seen) PROVE SeenIsTrue(seen[i], Manifest[i])'
  <2>1. seen[i] \in SeenRow /\ Manifest[i] \in Entry /\ SeenIsTrue(seen[i], Manifest[i])
    BY <1>3, ManifestEntries DEF ScanInv
  <2> QED BY <1>2, <2>1
<1> QED BY <1>3 DEF ScanInv

LEMMA InvInit ==
    ASSUME Init
    PROVE  Inv
<1>1. /\ cp = [e \in Entry |-> NoCheckpoint] /\ images = [e \in Entry |-> {NoCheckpoint}] /\ job = [r \in Run |-> NoJob]
      /\ granted = 0 /\ finished = [e \in Entry |-> 0] /\ running = FALSE /\ report = NoReport
  BY DEF Init, RowsInit
<1>2. NoCheckpoint \in Checkpoint /\ NoJob \in JobRecord /\ 0 \in 0..Phases /\ NoJob.entry = NoEntry
      /\ NoCheckpoint.phase = 0 /\ NoCheckpoint.status = ""
  BY PhaseCount DEF NoCheckpoint, Checkpoint, Status, NoJob, JobRecord, NoToken
<1>3. ASSUME NEW e \in Entry PROVE RowIsTrue(e)
  <2>1. images[e] = {NoCheckpoint} /\ cp[e] = NoCheckpoint
    BY <1>1
  <2>2. IsTrueOf(NoCheckpoint, e)
    BY <1>2 DEF IsTrueOf, Says
  <2> QED BY <2>1, <2>2 DEF RowIsTrue
<1>4. \A r \in Run : JobIsFree(r)
  BY <1>1, <1>2 DEF JobIsFree
<1>5. RowInv
  BY <1>1, <1>2, <1>3, <1>4 DEF RowInv
<1>6. ScanInv
  BY <1>1 DEF ScanInv
<1>7. ReportIsTrue
  BY <1>1 DEF ReportIsTrue, TargetIsTrue, NoReport
<1> QED BY <1>5, <1>6, <1>7 DEF Inv

LEMMA ProbeKeepsScan ==
    ASSUME Inv, Probe
    PROVE  ScanInv'
<1>1. /\ running /\ listed = Manifest /\ seen \in Seq(SeenRow) /\ Len(seen) < Len(Manifest)
      /\ \A i \in 1..Len(seen) : SeenIsTrue(seen[i], Manifest[i])
      /\ UNCHANGED <<finished, running, listed>>
  BY DEF Inv, ScanInv, Probe, rowVars
<1>2. PICK k \in 1..Len(Manifest) : k = Len(seen) + 1
  BY <1>1, ManifestEntries
<1>3. PICK e \in Entry : e = Manifest[k]
  BY ManifestEntries
<1>4. \A c \in images[e] : IsTrueOf(c, e)
  BY DEF Inv, RowInv, RowIsTrue
<1>5. PICK s \in SeenRow : seen' = Append(seen, s) /\ SeenIsTrue(s, e)
  <2>1. CASE \E c \in images[e] :
               seen' = Append(seen, [phase |-> c.phase, status |-> c.status, degraded |-> FALSE])
    <3>1. PICK c \in images[e] :
               seen' = Append(seen, [phase |-> c.phase, status |-> c.status, degraded |-> FALSE])
      BY <2>1
    <3>2. c \in Checkpoint /\ Says(c, finished[e]) /\ (Lanes /\ c.phase # 0 => DepsDone(e))
      BY <1>4 DEF IsTrueOf
    <3> DEFINE s == [phase |-> c.phase, status |-> c.status, degraded |-> FALSE]
    <3>3. s \in SeenRow /\ SeenIsTrue(s, e)
      BY <3>2 DEF SeenRow, SeenIsTrue, Says, Checkpoint
    <3> QED BY <3>1, <3>3
  <2>2. CASE seen' = Append(seen, [phase |-> 0, status |-> "", degraded |-> TRUE])
    <3> DEFINE s == [phase |-> 0, status |-> "", degraded |-> TRUE]
    <3>1. s \in SeenRow /\ SeenIsTrue(s, e)
      BY PhaseCount DEF SeenRow, SeenIsTrue, Status
    <3> QED BY <2>2, <3>1
  <2> QED BY <1>1, <1>2, <1>3, <2>1, <2>2 DEF Probe
<1>6. /\ seen' \in Seq(SeenRow) /\ Len(seen') = k
      /\ \A i \in 1..k : seen'[i] = IF i = k THEN s ELSE seen[i]
  BY <1>1, <1>2, <1>5
<1>7. ASSUME NEW i \in 1..k PROVE SeenIsTrue(seen'[i], Manifest[i])
  BY <1>1, <1>2, <1>3, <1>5, <1>6
<1>8. ASSUME NEW i \in 1..k PROVE SeenIsTrue(seen[i], Manifest[i])'
  <2>1. PICK q \in SeenRow : q = seen'[i] /\ SeenIsTrue(q, Manifest[i])
    BY <1>6, <1>7
  <2> QED BY <1>1, <2>1 DEF SeenIsTrue, DepsDone, Says
<1> QED BY <1>1, <1>2, <1>6, <1>8 DEF ScanInv

LEMMA HandOutKeepsRows ==
    ASSUME Inv, NEW r \in Run, NEW e \in Entry, HandOut(r, e)
    PROVE  RowInv' /\ Progress
<1>1. /\ job' = [job EXCEPT ![r] = [entry |-> e, token |-> granted + 1]]
      /\ granted' = granted + 1 /\ UNCHANGED <<cp, images, finished>> /\ e \in HandedOut
  BY DEF HandOut, Claim
<1>2. [entry |-> e, token |-> granted + 1] \in JobRecord /\ granted' \in Nat
  BY <1>1 DEF Inv, RowInv, JobRecord
<1>3. job' \in [Run -> JobRecord]
      /\ \A q \in Run : job'[q] = IF q = r THEN [entry |-> e, token |-> granted + 1] ELSE job[q]
  BY <1>1, <1>2 DEF Inv, RowInv
<1>4. Lanes => DepsDone(e)
  BY <1>1 DEF Inv, ReportIsTrue, HandedOut
<1>5. ASSUME NEW q \in Run PROVE JobIsFree(q)'
  <2>1. JobIsFree(q)
    BY DEF Inv, RowInv
  <2>2. CASE q = r
    <3>1. job'[q].entry = e
      BY <1>3, <2>2
    <3> QED BY <1>1, <1>4, <3>1 DEF JobIsFree, DepsDone
  <2>3. CASE q # r
    BY <1>1, <1>3, <2>1, <2>3 DEF JobIsFree, DepsDone
  <2> QED BY <2>2, <2>3
<1> QED BY <1>1, <1>2, <1>3, <1>5, LeaseStepKeeps DEF Inv

LEMMA InvNext ==
    ASSUME ~Handoffs, Inv, [Next]_vars
    PROVE  Inv'
<1>1. CASE UNCHANGED rowVars
  <2>1. UNCHANGED <<clock, row, cp, images, job, granted, finished>>
    BY <1>1 DEF rowVars
  <2>2. \A q \in Run : JobIsFree(q)'
    BY <2>1 DEF Inv, RowInv, JobIsFree, DepsDone
  <2>3. RowInv' /\ Progress
    BY <2>1, <2>2, LeaseStepKeeps DEF Inv, RowInv
  <2>4. CASE UNCHANGED scanVars
    BY <2>3, <2>4, ScanStaysTrue, ReportStaysTrue DEF Inv, scanVars
  <2>5. CASE Start
    <3>1. ReportIsTrue'
      BY <2>3, <2>5, ReportStaysTrue DEF Inv, Start
    <3>2. seen' = <<>> /\ listed' = Manifest
      BY <2>5 DEF Start, Listing
    <3>3. ScanInv'
      BY <3>2, ManifestEntries DEF ScanInv
    <3> QED BY <2>3, <3>1, <3>3 DEF Inv
  <2>6. CASE Probe
    <3>1. ReportIsTrue'
      BY <2>3, <2>6, ReportStaysTrue DEF Inv, Probe
    <3> QED BY <2>3, <2>6, <3>1, ProbeKeepsScan DEF Inv
  <2>7. CASE Conclude
    <3>1. /\ listed = Manifest /\ seen \in Seq(SeenRow) /\ Len(seen) = Len(Manifest)
          /\ \A i \in 1..Len(seen) : SeenIsTrue(seen[i], Manifest[i])
          /\ report' = Envelope(Manifest, seen) /\ running' = FALSE
      BY <2>7 DEF Conclude, Inv, ScanInv
    <3>2. ReportIsTrue'
      BY <1>1, <3>1, EnvelopeIsTrue DEF Inv
    <3>3. ScanInv'
      BY <3>1 DEF ScanInv
    <3> QED BY <2>3, <3>2, <3>3 DEF Inv
  <2>8. ASSUME NEW r \in Run, NEW e \in Entry, HandOut(r, e) PROVE Inv'
    <3>1. granted' = granted + 1 /\ granted \in Nat
      BY <2>8 DEF HandOut, Claim, Inv, RowInv
    <3> QED BY <2>1, <3>1
  <2> QED BY <1>1, <2>4, <2>5, <2>6, <2>7, <2>8 DEF Next, vars
<1>2. CASE ~UNCHANGED rowVars
  <2>1. CASE (Surroundings \/ \E r \in Run : Work(r)) /\ UNCHANGED scanVars
    <3>1. RowInv' /\ Progress
      BY <2>1, RowSteps DEF Inv
    <3> QED BY <2>1, <3>1, ScanStaysTrue, ReportStaysTrue DEF Inv, scanVars
  <2>2. ASSUME NEW r \in Run, NEW e \in Entry, HandOut(r, e) PROVE Inv'
    <3>1. UNCHANGED <<running, listed, seen, report>>
      BY <2>2 DEF HandOut
    <3> QED BY <2>2, <3>1, HandOutKeepsRows, ScanStaysTrue, ReportStaysTrue DEF Inv
  <2> QED BY <1>2, <2>1, <2>2 DEF Next, vars, Start, Probe, Conclude
<1> QED BY <1>1, <1>2

-----------------------------------------------------------------------------
(* The theorems, for a plan whose entries are listed in a tasks file.      *)

\* Everything the scan holds, and the last report, is true of the rows: what was read of a
\* row, although it may be stale, bounds the work that was done.
THEOREM ReportsAreTrue ==
    ASSUME ~Handoffs
    PROVE  Spec => []Inv
<1>1. Init => Inv
  BY InvInit
<1>2. Inv /\ [Next]_vars => Inv'
  BY InvNext
<1> QED BY <1>1, <1>2, PTL DEF Spec

\* compute_lane_state and the merge gate: when canon resume has nothing left to name,
\* every entry did all its phases.
THEOREM GateSound ==
    ASSUME ~Handoffs
    PROVE  Spec => []GateIsSound
<1>1. Inv => GateIsSound
  BY DEF Inv, ReportIsTrue, GateIsSound, GateOpen
<1> QED BY <1>1, ReportsAreTrue, PTL

\* _compute_resume_target: the target is the first entry and phase that are not done.
THEOREM TargetIsFirst ==
    ASSUME ~Handoffs
    PROVE  Spec => []TargetSkipsNothing
<1>1. ASSUME Inv, report.target # NoTarget PROVE TargetSkipsNothing
  <2>1. PICK t \in TargetRecord : t = report.target
    BY <1>1 DEF Inv, ReportIsTrue, TargetIsTrue
  <2>2. t.phase <= finished[t.entry] + 1
    BY <1>1, <2>1 DEF Inv, ReportIsTrue, TargetIsTrue
  <2> QED BY <1>1, <2>1, <2>2, ManifestEntries
          DEF Inv, ReportIsTrue, TargetIsTrue, TargetSkipsNothing
<1>2. Inv => TargetSkipsNothing
  BY <1>1 DEF TargetSkipsNothing
<1> QED BY <1>2, ReportsAreTrue, PTL

\* compute_lane_state: an entry outside the three lanes is finished.
THEOREM LanesAreComplete ==
    ASSUME ~Handoffs
    PROVE  Spec => []LanesLoseNothing
<1>1. Inv => LanesLoseNothing
  BY DEF Inv, ReportIsTrue, LanesLoseNothing
<1> QED BY <1>1, ReportsAreTrue, PTL

\* Work handed out by canon resume --lanes follows the dependencies between tasks, also
\* when the report is old and when checkpoints are purged.
THEOREM LanesFollowDependencies ==
    ASSUME ~Handoffs, Lanes
    PROVE  Spec => []WorkFollowsDependencies
<1>1. ASSUME Inv, NEW e \in Entry, cp[e].phase > 0 PROVE DepsDone(e)
  <2>1. cp[e].phase # 0 /\ IsTrueOf(cp[e], e)
    BY <1>1 DEF Inv, RowInv, RowIsTrue
  <2> QED BY <1>1, <2>1 DEF IsTrueOf
<1>2. Inv => WorkFollowsDependencies
  BY <1>1 DEF WorkFollowsDependencies, DepsDone
<1> QED BY <1>2, ReportsAreTrue, PTL
=============================================================================
