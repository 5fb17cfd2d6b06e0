----------------------------- MODULE ResumeScan -----------------------------
(***************************************************************************)
(* canon resume: a read-only scan over the rows of a plan that names the   *)
(* first incomplete (task, phase), and, with --lanes, sorts the entries    *)
(* into runnable, active and blocked ones.  The rows are read one request  *)
(* at a time while agents work on them, each by an eventually consistent   *)
(* GET that may return an older image of the row, or fail.  The            *)
(* orchestrator hands out work from the last report, which may be old.     *)
(***************************************************************************)
EXTENDS PlanRows

CONSTANTS
    TaskOf,      \* the task_id of an entry; a task may have several workstreams
    DependsOn,   \* the task_ids an entry depends on
    Lanes,       \* TRUE: the orchestrator hands out work by --lanes
    Handoffs,    \* TRUE: tasks are discovered by --handoffs-dir
    MaxFaults    \* bound: requests that fail altogether

ASSUME ResumeAssumption ==
    /\ DOMAIN TaskOf = Entry
    /\ DOMAIN DependsOn = Entry
    /\ Lanes \in BOOLEAN /\ Handoffs \in BOOLEAN
    /\ MaxFaults \in Nat

VARIABLES
    running,  \* a scan is running
    listed,   \* the entries it was given
    seen,     \* what the scan read of them so far
    report,   \* the last envelope that canon resume printed
    opened,   \* the entries that have a handoff directory
    faults    \* requests that failed so far

scanVars == <<running, listed, seen, report, opened, faults>>
vars == <<rowVars, scanVars>>

\* A row as seen is [phase, status, degraded].
NoTarget == [entry |-> NoEntry, phase |-> 0]

NoReport == [printed |-> FALSE, target |-> NoTarget, available |-> FALSE,
             degraded |-> {}, runnable |-> {}, active |-> {}, blocked |-> {},
             exit |-> 0]

\* Mutants: the last phase counts as complete whatever its status; the status is
\* ignored.
FirstIncompleteEndsEarly(s) ==
    IF s.phase \notin 1..Phases THEN 1
    ELSE IF s.phase = Phases THEN 0
    ELSE IF s.status # "completed" THEN s.phase ELSE s.phase + 1

FirstIncompleteAlwaysNext(s) == IF s.phase = Phases THEN 0 ELSE s.phase + 1

\* _first_incomplete_phase, 0 if every phase is complete.  No phase, or one that is
\* not in PHASE_ORDER, means the first.
FirstIncomplete(s) ==
    IF s.phase \notin 1..Phases THEN 1
    ELSE IF s.status # "completed" THEN s.phase
    ELSE IF s.phase = Phases THEN 0 ELSE s.phase + 1

\* _is_fully_complete, of a row that could be read.
FullyComplete(s) == ~s.degraded /\ s.phase = Phases /\ s.status = "completed"

-----------------------------------------------------------------------------
(***************************************************************************)
(* The envelope.                                                           *)
(***************************************************************************)
\* _compute_resume_target
Open(s) == {i \in DOMAIN s : ~s[i].degraded /\ FirstIncomplete(s[i]) # 0}

Target(l, s) ==
    IF Open(s) = {} THEN NoTarget
    ELSE LET i == CHOOSE i \in Open(s) : \A j \in Open(s) : i <= j
         IN  [entry |-> l[i], phase |-> FirstIncomplete(s[i])]

DegradedOf(l, s) == {l[i] : i \in {j \in DOMAIN s : s[j].degraded}}

\* compute_lane_state
\* Mutant: a task counts as complete when its current phase is.
CompleteTasksByStatus(l, s) ==
    {TaskOf[l[i]] : i \in {j \in DOMAIN s : s[j].status = "completed"}}

CompleteTasks(l, s) ==
    {TaskOf[l[i]] : i \in {j \in DOMAIN s : FullyComplete(s[j])}}

\* Mutant: an entry whose phase failed is passed over.
UndoneNotFailed(s) ==
    {i \in DOMAIN s : ~s[i].degraded /\ ~FullyComplete(s[i]) /\ s[i].status # "fail"}

Undone(s) == {i \in DOMAIN s : ~s[i].degraded /\ ~FullyComplete(s[i])}

ActiveOf(l, s) == {l[i] : i \in {j \in Undone(s) : s[j].status = "in_progress"}}

RunnableOf(l, s) ==
    {l[i] : i \in {j \in Undone(s) : /\ s[j].status # "in_progress"
                                     /\ DependsOn[l[j]] \subseteq CompleteTasks(l, s)}}

BlockedOf(l, s) ==
    DegradedOf(l, s)
      \cup {l[i] : i \in {j \in Undone(s) : /\ s[j].status # "in_progress"
                                            /\ ~ DependsOn[l[j]] \subseteq CompleteTasks(l, s)}}

Envelope(l, s) ==
    [printed |-> TRUE,
     target |-> Target(l, s),
     available |-> Target(l, s) # NoTarget /\ DegradedOf(l, s) # {l[i] : i \in DOMAIN l},
     degraded |-> DegradedOf(l, s),
     runnable |-> IF Lanes THEN RunnableOf(l, s) ELSE {},
     active |-> IF Lanes THEN ActiveOf(l, s) ELSE {},
     blocked |-> IF Lanes THEN BlockedOf(l, s) ELSE {},
     exit |-> IF l # <<>> /\ \A i \in DOMAIN s : s[i].degraded THEN 5 ELSE 0]

-----------------------------------------------------------------------------
(***************************************************************************)
(* The scan.                                                               *)
(***************************************************************************)
\* _load_tasks_from_file, _load_tasks_from_handoffs
Listing == IF Handoffs THEN SelectSeq(Manifest, LAMBDA e : e \in opened) ELSE Manifest

\* (A plan without a handoff directory is a usage error.)
Start ==
    /\ ~running
    /\ Listing # <<>>
    /\ running' = TRUE
    /\ listed' = Listing
    /\ seen' = <<>>
    /\ UNCHANGED <<rowVars, report, opened, faults>>

\* One GET /state/checkpoint; a missing row and a row without a phase read alike.
Probe ==
    /\ running
    /\ Len(seen) < Len(listed)
    /\ \/ /\ \E c \in images[listed[Len(seen) + 1]] :
               seen' = Append(seen, [phase |-> c.phase, status |-> c.status, degraded |-> FALSE])
          /\ UNCHANGED faults
       \/ /\ faults < MaxFaults
          /\ faults' = faults + 1
          /\ seen' = Append(seen, [phase |-> 0, status |-> "", degraded |-> TRUE])
    /\ UNCHANGED <<rowVars, running, listed, report, opened>>

Conclude ==
    /\ running
    /\ Len(seen) = Len(listed)
    /\ report' = Envelope(listed, seen)
    /\ running' = FALSE
    /\ listed' = <<>>
    /\ seen' = <<>>
    /\ UNCHANGED <<rowVars, opened, faults>>

(***************************************************************************)
(* The orchestrator re-invokes what the last report names; the scoper of a *)
(* task opens its handoff directory.  Before the first report of a plan    *)
(* that is discovered by its directories, it takes the first entry.        *)
(***************************************************************************)
HandedOut ==
    IF Lanes THEN report.runnable \cup report.active
    ELSE IF report.target # NoTarget THEN {report.target.entry}
    ELSE IF opened = {} THEN {Manifest[1]} ELSE {}

HandOut(r, e) ==
    /\ e \in HandedOut
    /\ Claim(r, e)
    /\ opened' = opened \cup {e}
    /\ UNCHANGED <<running, listed, seen, report, faults>>

Init ==
    /\ RowsInit
    /\ running = FALSE
    /\ listed = <<>>
    /\ seen = <<>>
    /\ report = NoReport
    /\ opened = {}
    /\ faults = 0

Next ==
    \/ Start \/ Probe \/ Conclude
    \/ \E r \in Run, e \in Entry : HandOut(r, e)
    \/ (Surroundings \/ \E r \in Run : Work(r))
       /\ UNCHANGED scanVars

Spec == Init /\ [][Next]_vars
-----------------------------------------------------------------------------
\* The merge gate of the release orchestrator.
GateOpen ==
    /\ report.printed
    /\ report.target = NoTarget
    /\ ~report.available
    /\ report.degraded = {}

\* The gate opens only for a plan whose every entry did all its phases,
\* although the rows were read at different times, by a scan that raced with
\* their agents.
GateIsSound == GateOpen => \A e \in Entry : finished[e] = Phases

\* The target skips nothing: the phases before it are done, and so is every
\* entry before it that could be read.
TargetSkipsNothing ==
    report.target # NoTarget
      => LET t == report.target IN
         /\ t.phase <= finished[t.entry] + 1
         /\ \E j \in DOMAIN Manifest :
              /\ Manifest[j] = t.entry
              /\ \A i \in DOMAIN Manifest : i < j
                   => \/ Manifest[i] \in report.degraded
                      \/ finished[Manifest[i]] = Phases
                      \/ Handoffs /\ Manifest[i] \notin opened

\* With --lanes no entry is worked on before every task it depends on is done, by the
\* code's measure: one of the task's workstreams did all its phases.
WorkFollowsDependencies ==
    Lanes => \A e \in Entry : cp[e].phase > 0 =>
        \A t \in DependsOn[e] :
            \E d \in Entry : TaskOf[d] = t /\ finished[d] = Phases

\* --lanes loses nothing: an entry it reports in no lane did all its phases.
LanesLoseNothing ==
    report.printed /\ Lanes /\ ~Handoffs
      => \A e \in Entry \ (report.runnable \cup report.active \cup report.blocked) :
             finished[e] = Phases

=============================================================================
