----------------------------- MODULE EvidencePlane -----------------------------
(***************************************************************************)
(* The way of a task from its local packets to a readiness report.  An     *)
(* operator runs canon qa-validate and canon flow-audit on the handoff     *)
(* files, archives each packet through POST /state/archive, merges the     *)
(* records that came back into a run-ledger row, puts the row, and asks    *)
(* canon readiness check.  Agents rewrite packets meanwhile, other         *)
(* operators put rows of the same scope, calls fail or lose their answer,  *)
(* and a read of the ledger may miss what was just written.                *)
(***************************************************************************)
EXTENDS GatePackets, LedgerRecords

CONSTANTS
    Rewrites,   \* Rewrites[f]: the texts agents may give packet f in the meantime
    Tests,      \* the test files there are
    Dirs,       \* the initial directories: the text of each packet (empty: no file), proof
    Labels,     \* the --status and --outcome an operator archives with
    Bases,      \* the records an operator may write, before the archive records are merged
    Rivals,     \* rows that other operators put
    Limits,     \* the --limit that readiness check may be called with
    MinPage,    \* how many rows 1 MB, the page of a query, holds at the least
    MaxRefs,    \* _MAX_ARCHIVE_REFS
    MaxTrouble, \* bound: failed calls and lost answers
    MaxEdits,   \* bound: packets rewritten
    MaxPuts,    \* bound: rows the operator sets out to put
    MaxRivals   \* bound: rows the others put

File == {"scoper", "cursor-pilot", "implementer", "qa-gate", "release-status"}

ASSUME EvidenceAssumption ==
    /\ Limits \subseteq 1 .. 200 /\ MinPage \in Nat \ {0} /\ MaxRefs \in Nat
    /\ Rivals \subseteq Bases
    /\ \A b \in Bases :
          /\ DOMAIN b = {"run", "handoff", "status", "created", "updated", "refs", "marker", "blocks"}
          /\ {b.run, b.created, b.updated} \subseteq Nat

ASSUME TextAssumption ==
    /\ \A d \in Dirs : d.packets \in [File -> Seq(Line)]
    /\ Rewrites \in [File -> SUBSET Seq(Line)]

VARIABLES
    disk,      \* disk[f]: the lines of packet f
    proof,     \* the other evidence in the directory
    op,        \* the operator
    bucket,    \* bucket[k]: how often the object of key k was put
    events,    \* events[k]: how many packet_archived events name k
    rows,      \* rows[run]: the ledger row of a run id
    fresh,     \* run ids whose row an eventually consistent read may still miss
    report,    \* the readiness report on the last row put, and (history) how it was asked for
    accepted,  \* history: the records whose put was answered with success
    used       \* how much of each bound is used up

vars == <<disk, proof, op, bucket, events, rows, fresh, report, accepted, used>>

FileOrder == <<"scoper", "cursor-pilot", "implementer", "qa-gate", "release-status">>
FileKind == [f \in File |-> CHOOSE k \in DOMAIN KindPhase \ {"packet_implementer_shard"} : KindPhase[k] = f]

Spend(what) == used' = [used EXCEPT ![what] = @ + 1]
CanFail == used["trouble"] < MaxTrouble
Count(f, k) == IF k \in DOMAIN f THEN f[k] ELSE 0
Bump(f, k) == [x \in DOMAIN f \cup {k} |-> Count(f, x) + IF x = k THEN 1 ELSE 0]
Store(run, row) == [r \in DOMAIN rows \cup {run} |-> IF r = run THEN row ELSE rows[r]]

NoRecord == CHOOSE b \in Bases : TRUE
Idle == [at |-> "idle", label |-> <<"", "">>, todo |-> <<>>, failed |-> FALSE, snaps |-> {},
         rec |-> NoRecord, said |-> "", read |-> <<>>]

\* latest: by --latest, with the limit; seen: the rows a read could see; page: of how many.
Unasked == [r |-> NoReport, latest |-> FALSE, seen |-> {}, limit |-> 0, page |-> 0]

Init ==
    /\ \E d \in Dirs : disk = d.packets /\ proof = d.proof
    /\ op = Idle /\ report = Unasked
    /\ bucket = <<>> /\ events = <<>> /\ rows = <<>>
    /\ fresh = {} /\ accepted = {}
    /\ used = [b \in {"trouble", "edits", "puts", "rivals"} |-> 0]

----------------------------------------------------------------------------
(* The gates.                                                              *)

Begin(label) ==
    /\ op.at = "idle"
    /\ op' = [Idle EXCEPT !.at = "validate", !.label = label]
    /\ UNCHANGED <<disk, proof, bucket, events, rows, fresh, report, accepted, used>>

\* An agent writes a packet anew, whenever it likes.
Rewrite(f, text) ==
    /\ used["edits"] < MaxEdits /\ Spend("edits")
    /\ disk[f] # text /\ disk' = [disk EXCEPT ![f] = text]
    /\ UNCHANGED <<proof, op, bucket, events, rows, fresh, report, accepted>>

\* The exit code of qa-validate with every --require flag, for the text it reads.
QaExit(text) ==
    IF GateBlock(text) = <<>> THEN 2
    ELSE IF QaErrors(text, Tests) = {}
            /\ TelemetryErrors(proof.telemetry, FALSE, FALSE) = {}
            /\ CheckpointErrors(proof.checkpoints) = {}
         THEN 0 ELSE 1

QaValidate ==
    /\ op.at = "validate"
    /\ op' = [op EXCEPT !.at = IF QaExit(disk["qa-gate"]) = 0 THEN "audit" ELSE "stopped",
                        !.read = disk["qa-gate"]]
    /\ UNCHANGED <<disk, proof, bucket, events, rows, fresh, report, accepted, used>>

HasToken(f) ==
    IF disk[f] = <<>> THEN "none"
    ELSE IF First(disk[f], {"start", "titled", "end"}) = 0 THEN "bare" ELSE "token"

FlowAudit ==
    /\ op.at = "audit"
    /\ LET passes == AuditErrors([f \in File |-> HasToken(f)], proof) = {}
       IN op' = [op EXCEPT !.at = IF passes THEN "archive" ELSE "stopped", !.todo = FileOrder]
    /\ UNCHANGED <<disk, proof, bucket, events, rows, fresh, report, accepted, used>>

----------------------------------------------------------------------------
(* canon packet-archive, file after file, and POST /state/archive.         *)

UploadOf(f) ==
    [phase |-> f, kind |-> FileKind[f], subtype |-> "", body |-> <<f, disk[f]>>, label |-> f,
     status |-> op.label[1], outcome |-> op.label[2]]

Archiving(f) == op.at = "archive" /\ op.todo # <<>> /\ f = Head(op.todo) /\ disk[f] # <<>>

\* The server puts the object, emits the event and answers with the record.
Archive(f) ==
    /\ Archiving(f)
    /\ LET up == UploadOf(f)
           record == ArchiveRecord(up, Count(bucket, ObjectKey(up)) + 1)
       IN /\ SendsArchive(up)
          /\ bucket' = Bump(bucket, ObjectKey(up))
          /\ events' = Bump(events, EventPayload(record).key)
          /\ op' = [op EXCEPT !.todo = Tail(@), !.failed = FALSE, !.snaps = @ \cup {record}]
    /\ UNCHANGED <<disk, proof, rows, fresh, report, accepted, used>>

\* Mutant: the event is emitted before the object is put.
ArchiveFailsEmitted(f, put, emitted) ==
    /\ Archiving(f) /\ CanFail /\ Spend("trouble")
    /\ LET k == ObjectKey(UploadOf(f))
       IN /\ bucket' = IF put /\ emitted THEN Bump(bucket, k) ELSE bucket
          /\ events' = IF emitted THEN Bump(events, k) ELSE events
    /\ op' = [op EXCEPT !.failed = TRUE]
    /\ UNCHANGED <<disk, proof, rows, fresh, report, accepted>>
\* The call fails before the object is put, after it and before the event, or after both:
\* the operator has no record.
ArchiveFails(f, put, emitted) ==
    /\ Archiving(f) /\ CanFail /\ Spend("trouble")
    /\ LET k == ObjectKey(UploadOf(f))
       IN /\ bucket' = IF put THEN Bump(bucket, k) ELSE bucket
          /\ events' = IF put /\ emitted THEN Bump(events, k) ELSE events
    /\ op' = [op EXCEPT !.failed = TRUE]
    /\ UNCHANGED <<disk, proof, rows, fresh, report, accepted>>

\* A packet that is not there, or that could not be archived, is left out.
LeaveOut ==
    /\ op.at = "archive" /\ op.todo # <<>>
    /\ op.failed \/ disk[Head(op.todo)] = <<>>
    /\ op' = [op EXCEPT !.todo = Tail(@), !.failed = FALSE]
    /\ UNCHANGED <<disk, proof, bucket, events, rows, fresh, report, accepted, used>>

\* What was left out is archived later, for the next row.
ArchiveLater(f) ==
    /\ op.at = "archive" /\ op.todo = <<>> /\ used["puts"] \in 1 .. (MaxPuts - 1)
    /\ \A snap \in op.snaps : snap.phase # f
    /\ op' = [op EXCEPT !.todo = <<f>>]
    /\ UNCHANGED <<disk, proof, bucket, events, rows, fresh, report, accepted, used>>

----------------------------------------------------------------------------
(* canon run-ledger and PUT /state/run-ledger.                             *)

Compose(base) ==
    /\ op.at = "archive" /\ op.todo = <<>> /\ used["puts"] < MaxPuts
    /\ LET rec == [base EXCEPT !.refs = base.refs \cup op.snaps]
       IN op' = [op EXCEPT !.rec = rec, !.said = "",
                           !.at = IF Valid(rec, MaxRefs) THEN "put" ELSE "stopped"]
    /\ Spend("puts") /\ report' = Unasked
    /\ UNCHANGED <<disk, proof, bucket, events, rows, fresh, accepted>>

\* Mutants: a taken key is a success; a row that is not read is a conflict.
PutAnswerAnyRow(item, missed) ==
    IF item.run \notin DOMAIN rows THEN "stored" ELSE IF missed THEN "race" ELSE "stored"
PutAnswerHasty(item, missed) ==
    IF item.run \notin DOMAIN rows THEN "stored"
    ELSE IF ~missed /\ Equivalent(rows[item.run], item) THEN "stored" ELSE "conflict"
\* What the server answers: the row is inserted unless its key is taken; then the row
\* that is read, which may not be there yet, decides.
PutAnswer(item, missed) ==
    IF item.run \notin DOMAIN rows THEN "stored"
    ELSE IF missed THEN "race"
    ELSE IF Equivalent(rows[item.run], item) THEN "stored" ELSE "conflict"

RowsAfterPut(item) ==
    IF item.run \in DOMAIN rows THEN rows ELSE Store(item.run, item)

PutRow(missed, lost) ==
    /\ op.at = "put"
    /\ missed => op.rec.run \in fresh
    /\ lost => CanFail
    /\ IF lost THEN Spend("trouble") ELSE UNCHANGED used
    /\ LET item == Normal(op.rec)
           answer == PutAnswer(item, missed)
       IN /\ rows' = RowsAfterPut(item)
          /\ fresh' = fresh \cup (DOMAIN rows' \ DOMAIN rows)
          /\ accepted' = IF answer = "stored" /\ ~lost THEN accepted \cup {op.rec} ELSE accepted
          /\ op' = IF lost THEN op
                   ELSE [op EXCEPT !.said = answer,
                                   !.at = CASE answer = "stored" -> "check"
                                            [] answer = "race" -> "put"
                                            [] OTHER -> "stopped"]
    /\ UNCHANGED <<disk, proof, bucket, events, report>>

\* Another operator of the scope puts a row.
PutRival(rec) ==
    /\ used["rivals"] < MaxRivals /\ Spend("rivals")
    /\ rec.run \notin DOMAIN rows
    /\ rows' = RowsAfterPut(Normal(rec)) /\ fresh' = fresh \cup {rec.run}
    /\ UNCHANGED <<disk, proof, op, bucket, events, report, accepted>>

\* The row is there for every read.
Settle(run) ==
    /\ run \in fresh /\ fresh' = fresh \ {run}
    /\ UNCHANGED <<disk, proof, op, bucket, events, rows, report, accepted, used>>

----------------------------------------------------------------------------
(* canon readiness check: a read of the ledger, and nothing else.          *)

CheckLatest(limit, page, missed) ==
    /\ op.at = "check" /\ missed \subseteq fresh
    /\ LET seen == DOMAIN rows \ missed
       IN report' = [latest |-> TRUE, seen |-> seen, limit |-> limit, page |-> page,
                     r |-> EvaluateLatest(rows, Scoped(rows, seen, op.rec.handoff, page), limit)]
    /\ op' = [op EXCEPT !.at = "archive", !.said = ""]
    /\ UNCHANGED <<disk, proof, bucket, events, rows, fresh, accepted, used>>

CheckRun(missed) ==
    /\ op.at = "check" /\ missed \subseteq fresh
    /\ LET seen == DOMAIN rows \ missed
       IN report' = [Unasked EXCEPT !.seen = seen,
                                    !.r = EvaluateRun(rows, seen, op.rec.run, op.rec.handoff)]
    /\ op' = [op EXCEPT !.at = "archive", !.said = ""]
    /\ UNCHANGED <<disk, proof, bucket, events, rows, fresh, accepted, used>>

\* The query fails (exit 2): no report.
CheckFails ==
    /\ op.at = "check" /\ CanFail /\ Spend("trouble")
    /\ op' = [op EXCEPT !.at = "archive", !.said = ""]
    /\ UNCHANGED <<disk, proof, bucket, events, rows, fresh, report, accepted>>

Next ==
    \/ \E label \in Labels : Begin(label)
    \/ \E f \in File : \E text \in Rewrites[f] : Rewrite(f, text)
    \/ QaValidate
    \/ FlowAudit
    \/ \E f \in File : Archive(f)
    \/ \E f \in File, put, emitted \in BOOLEAN : ArchiveFails(f, put, emitted)
    \/ LeaveOut
    \/ \E f \in File : ArchiveLater(f)
    \/ \E base \in Bases \ Rivals : Compose(base)
    \/ \E missed, lost \in BOOLEAN : PutRow(missed, lost)
    \/ \E rec \in Rivals : PutRival(rec)
    \/ \E run \in fresh : Settle(run)
    \/ \E limit \in Limits : \E page \in Pages(limit, MinPage), missed \in SUBSET fresh :
          CheckLatest(limit, page, missed)
    \/ \E missed \in SUBSET fresh : CheckRun(missed)
    \/ CheckFails

Spec == Init /\ [][Next]_vars

----------------------------------------------------------------------------
\* The lines from the first that holds GATE_RESULTS to the first that holds
\* END_GATE_RESULTS, and the criteria among them.
Packet(text) ==
    {i \in DOMAIN text : First(text, {"start", "titled", "end"}) <= i /\ i <= First(text, {"end"})}
Criteria(text) == {i \in Packet(text) : text[i].k = "crit"}
Under(line, above) == line.k = "blank" \/ line.ind > above.ind

\* The layout that .cursor/agents/qa-gate.md:77 prescribes: GATE_RESULTS on a line of its
\* own, before one acceptance_criteria, and every criterion under that, two columns in.
LaidOut(text) ==
    \E h, a \in Packet(text) :
        /\ h < a /\ text[h].k = "start" /\ text[a].k = "ac"
        /\ \A x \in Packet(text) : text[x].k = "ac" => x = a
        /\ \A i \in Criteria(text) :
              /\ a < i /\ text[i].ind = text[a].ind + 2
              /\ \A x \in (a + 1) .. i : Under(text[x], text[a])

\* A line that lists evidence: words with a kind that needs no file, or a test file there is.
Evidence(line) ==
    /\ line.k = "item"
    /\ \/ line.form # "bare" /\ line.v \in EvidenceKinds \ {"pytest"} /\ line.w # ""
       \/ line.form # "bare" /\ line.v = "pytest" /\ line.w \in Tests
       \/ line.form = "double" /\ line.v \in Paths /\ line.v \in Tests
       \/ line.form = "bare" /\ line.w \in Tests

\* Every criterion has, before the next one, covering_tests with evidence under it.
Covered(text) ==
    \A i \in Criteria(text) :
        \E c, j \in Packet(text) :
            /\ i < c /\ c < j /\ text[c].k = "cov"
            /\ \A x \in (i + 1) .. j : x \notin Criteria(text)
            /\ \A x \in (c + 1) .. j : Under(text[x], text[c])
            /\ Evidence(text[j])

\* A packet in the prescribed layout that qa-validate --require-pass let pass has evidence
\* of its own for every criterion: the line-by-line scan never credits a criterion with
\* what stands under another (qa_validate.py:147).  Other layouts may pass uncovered: a
\* header such as "GATE_RESULTS:" or "# GATE_RESULTS" opens the packet (:17) but not the
\* search for criteria (:274), and a criterion at another indentation is not seen (:184).
PassMeansCovered == op.at = "audit" /\ LaidOut(op.read) => Covered(op.read)

\* A scope that readiness calls ready has, for every required phase, an object in the
\* bucket with the digest its row names, whatever failed on the way (readiness.py:165,
\* state_api/packet_archive.py:53).
ReadyMeansArchived ==
    report.r.ready =>
        \A ph \in RequiredPhases :
            \E ref \in rows[report.r.run].refs :
                /\ RefPhase(ref) = ph
                /\ ref.key[4] = ref.sha /\ Count(bucket, ref.key) >= ref.version

\* The rows of the handoff that are newer than the one that was reported ready.
NewerRows ==
    {run \in report.seen :
        /\ rows[run].handoff = rows[report.r.run].handoff
        /\ Later(rows[run], rows[report.r.run])}

\* Ready by --latest says that the newest row of the handoff is: there is no newer one
\* (readiness.py:141, :220).  It holds neither of a window that holds another handoff's
\* rows nor of a page cut at 1 MB.
ReadyIsTheLatest == report.r.ready /\ report.latest => NewerRows = {}

\* A newer row that a ready report passes over was beyond the page that the server read,
\* and only for what the client cannot count: the page was cut before the limit
\* (state_api/storage.py:68) or rows of another handoff came before the row
\* (state_api/run_ledger.py:160).  A window full of the handoff's own rows is never
\* called ready (readiness.py:416).
NewerIsOutOfReach ==
    report.r.ready /\ report.latest =>
        \A run \in NewerRows :
            LET before == {r \in report.seen : r < run}
            IN /\ Cardinality(before) >= report.page
               /\ \/ report.page < report.limit
                  \/ \E r \in before : rows[r].handoff # rows[run].handoff

\* A row whose put was answered with success is in the ledger as it was sent, for good,
\* also when the put was a retry or another operator had the run id first
\* (state_api/run_ledger.py:62).
AckedRowStays ==
    \A rec \in accepted : rec.run \in DOMAIN rows /\ rows[rec.run] = Normal(rec)

\* run_ledger_id_conflict is only answered when the run id holds another record: the
\* retry of a put that lost its answer is never told so (state_api/run_ledger.py:76).
ConflictsAreReal ==
    op.said = "conflict" => rows[op.rec.run] # Normal(op.rec)

\* Every archive record that an operator holds has its event, and every event names an
\* object that is there (state_api/packet_archive.py:107).
EventsFollowObjects ==
    /\ \A k \in DOMAIN events : events[k] <= Count(bucket, k)
    /\ \A snap \in op.snaps : Count(events, snap.key) > 0
=============================================================================
