----------------------------- MODULE GatePackets -----------------------------
(***************************************************************************)
(* The merge gates over the files of one task: canon qa-validate parses    *)
(* the GATE_RESULTS packet line by line, canon flow-audit looks for the    *)
(* packets, the telemetry of rejections, the memory health, the checkpoint *)
(* files and the deployment smoke.  Pure operators: a file is what the     *)
(* gates can tell of it.                                                   *)
(***************************************************************************)
EXTENDS Integers, Sequences, FiniteSets, SequencesExt

CONSTANTS
    HandoffId, TaskId,
    Paths        \* what looks like the path of a test: has a slash or ends in .py

EvidenceKinds == {"pytest", "manual", "shell", "browser"}

ASSUME PathAssumption == Paths \cap EvidenceKinds = {}

(***************************************************************************)
(* A line of a packet: its kind, its indentation and, for "- head: text"   *)
(* under covering_tests, its form ("double" for ::, "single" for :, "bare" *)
(* without either), its head and its text.  "start" is a line that is or   *)
(* begins with GATE_RESULTS; "titled" only holds it, as a heading does.    *)
(***************************************************************************)
L(k, ind, v) == [k |-> k, ind |-> ind, form |-> "", v |-> v, w |-> ""]
Line == [k : STRING, ind : Nat, form : STRING, v : STRING, w : STRING]

RequiredTokens == {"handoff_id", "verdict", "ac", "regression_checked"}

First(p, kinds) ==
    LET at == {i \in DOMAIN p : p[i].k \in kinds}
    IN IF at = {} THEN 0 ELSE CHOOSE i \in at : \A j \in at : i <= j

\* The text from the first GATE_RESULTS to the first END_GATE_RESULTS.
GateBlock(p) ==
    LET start == First(p, {"start", "titled", "end"})
        end == First(p, {"end"})
    IN IF end > start /\ start > 0 THEN SubSeq(p, start, end) ELSE <<>>

\* The lines that are searched for criteria: a titled GATE_RESULTS does not begin them.
GateRegion(p) ==
    LET start == First(p, {"start"})
        tail == IF start = 0 THEN <<>> ELSE SubSeq(p, start, Len(p))
    IN SubSeq(tail, 1, First(tail, {"end"}))

\* One line under covering_tests: an entry, or a parse error.  A labelled path is a
\* pytest node id; any other label must be a kind of evidence.
ParseItem(line) ==
    LET isPath == line.form = "double" /\ line.v \in Paths
    IN [ok |-> /\ line.k = "item"
               /\ IF line.form = "bare" THEN line.w # ""
                  ELSE line.v \in EvidenceKinds \/ isPath,
        kind |-> IF line.form # "bare" /\ line.v \in EvidenceKinds THEN line.v ELSE "pytest",
        text |-> IF isPath THEN line.v ELSE line.w]

\* What the scan of the region knows: the indentation of acceptance_criteria and of
\* the covering_tests it is in, and what it has seen of the present criterion.
NoScan == [ac |-> -1, ct |-> -1, crit |-> FALSE, key |-> FALSE, items |-> 0, marks |-> 0,
           entries |-> <<>>, bad |-> {}]

\* The end of a criterion: it must have had covering_tests, with something listed.
Finalize(s) ==
    [s EXCEPT !.crit = FALSE, !.ct = -1,
              !.bad = IF s.crit /\ (~s.key \/ (s.items = 0 /\ s.marks = 0))
                      THEN @ \cup {"structure"} ELSE @]

\* Mutant: what the criterion before had is not forgotten.
OutsideCriterionKeeps(s, line) ==
    CASE s.ac < 0 /\ line.k = "ac" -> [s EXCEPT !.ac = line.ind]
      [] s.ac >= 0 /\ line.ind <= s.ac /\ line.k # "crit" -> [s EXCEPT !.ac = -1]
      [] s.ac >= 0 /\ line.ind = s.ac + 2 /\ line.k = "crit" -> [s EXCEPT !.crit = TRUE]
      [] OTHER -> s
OutsideCriterion(s, line) ==
    CASE s.ac < 0 /\ line.k = "ac" -> [s EXCEPT !.ac = line.ind]
      [] s.ac >= 0 /\ line.ind <= s.ac /\ line.k # "crit" -> [s EXCEPT !.ac = -1]
      [] s.ac >= 0 /\ line.ind = s.ac + 2 /\ line.k = "crit" ->
            [s EXCEPT !.crit = TRUE, !.key = FALSE, !.items = 0, !.marks = 0]
      [] OTHER -> s

ListItem(s, line) ==
    LET e == ParseItem(line)
    IN [s EXCEPT !.marks = IF line.k \in {"item", "crit"} THEN @ + 1 ELSE @,
                 !.items = IF e.ok THEN @ + 1 ELSE @,
                 !.entries = IF e.ok THEN Append(@, e) ELSE @,
                 !.bad = IF e.ok THEN @ ELSE @ \cup {"parse"}]

ScanLine(s, line) ==
    CASE line.k = "blank" -> s
      [] line.k # "blank" /\ ~s.crit -> OutsideCriterion(s, line)
      [] line.k # "blank" /\ s.crit /\ s.ct >= 0 /\ line.ind > s.ct -> ListItem(s, line)
      [] OTHER ->
            IF line.ind <= s.ac \/ (line.ind = s.ac + 2 /\ line.k = "crit")
            THEN OutsideCriterion(Finalize(s), line)
            ELSE IF line.k = "cov"
                 THEN [s EXCEPT !.key = TRUE, !.ct = line.ind, !.marks = 0]
                 ELSE [s EXCEPT !.ct = -1]

ScanCriteria(p) == Finalize(FoldLeft(ScanLine, NoScan, GateRegion(p)))

\* What qa-validate --require-pass reports of a packet, with the test files there are.
QaErrors(p, tests) ==
    LET block == GateBlock(p)
        scan == ScanCriteria(p)
        verdict == First(block, {"verdict"})
        entries == {scan.entries[i] : i \in DOMAIN scan.entries}
        Unproved(e) == IF e.kind = "pytest" THEN e.text \notin tests ELSE e.text = ""
    IN {t \in RequiredTokens : First(block, {t}) = 0}
       \cup {x \in {"not PASS"} : verdict = 0 \/ block[verdict].v # "PASS"}
       \cup scan.bad
       \cup {x \in {"evidence"} : \E e \in entries : Unproved(e)}
       \cup {x \in {"no entries"} : entries = {} /\ scan.bad = {} /\ GateRegion(p) # <<>>}

----------------------------------------------------------------------------
(* The telemetry that a HANDOFF_NOT_READY packet must leave: a JSON file   *)
(* and a status file.                                                      *)

\* dir[r] for each rejection r.  json is "none", "garbled" or "object".
TelemetryErrors(dir, needTask, bulk) ==
    {x \in {<<"no telemetry", "any">>} :
        bulk /\ DOMAIN dir # {} /\ \A r \in DOMAIN dir : dir[r].json = "none"}
    \cup {<<"telemetry", r>> : r \in {r \in DOMAIN dir :
            \/ dir[r].json # "object" \/ dir[r].status = "none"
            \/ dir[r].handoff # HandoffId \/ ~dir[r].stage
            \/ dir[r].task # TaskId /\ (needTask \/ dir[r].task # "")
            \/ dir[r].status # "exit code"}}

CheckpointPhases == {"scoper", "cursor-pilot", "implementer", "qa-gate", "release-orchestrator"}

\* The checkpoint files of the five phases: of this task, of their phase, and counted.
CheckpointErrors(files) ==
    {ph \in CheckpointPhases :
        ~(/\ files[ph].json = "object" /\ files[ph].schema = "1" /\ files[ph].phase = ph
          /\ files[ph].task = TaskId /\ files[ph].handoff = HandoffId
          /\ files[ph].version >= 1)}

MemoryHealthErrors(health) ==
    {x \in {"memory health"} : ~(health.json = "object" /\ health.schema = "1" /\ health.status = "ok")}

NotProof == "environment_smoke_not_proof_of_branch"

\* deployment-smoke.json: its form first, then its verdict, then its proof, which is the
\* deployed commit or, only without one, the deployed build.
DeployForm(s) ==
    /\ s.json = "object" /\ s.schema = "1"
    /\ s.handoff = HandoffId /\ s.task = TaskId
    /\ \A f \in {"environment", "branch", "verdict", "checked", "url", "head"} : s[f] # ""
    /\ s.refs = "list"
DeployErrors(s) ==
    {x \in {"deploy"} :
        ~(/\ DeployForm(s)
          /\ NotProof \notin {s.verdict, s.reason}
          /\ IF s.sha # "" THEN s.sha = s.head
             ELSE s.build # "" /\ s.build = s.expected)}

\* flow-audit with every --require flag: packet[f] is "none", "bare" or "token".
AuditErrors(packet, proof) ==
    {<<"packet", f>> : f \in {f \in {"scoper", "cursor-pilot", "qa-gate", "release-status"} :
                                packet[f] # "token"}}
    \cup TelemetryErrors(proof.telemetry, TRUE, TRUE)
    \cup {<<"health", x>> : x \in MemoryHealthErrors(proof.health)}
    \cup {<<"plan", x>> : x \in {y \in {TaskId} : y \notin proof.plan}}
    \cup {<<"checkpoint", x>> : x \in CheckpointErrors(proof.checkpoints)}
    \cup {<<"deploy", x>> : x \in DeployErrors(proof.smoke)}
=============================================================================
