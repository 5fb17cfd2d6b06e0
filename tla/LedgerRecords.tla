---------------------------- MODULE LedgerRecords ----------------------------
(***************************************************************************)
(* What is kept of a task for good: archived packets (an object in the     *)
(* bucket, a record and an event of it), run-ledger rows that refer to     *)
(* them, and the readiness report that is derived from one row.  Pure      *)
(* operators; the scope (company, repository, plan, task, workstream) is   *)
(* one and is left out of keys and records.                                *)
(***************************************************************************)
EXTENDS Integers, Sequences, FiniteSets, SequencesExt

\* The kinds of packet, and the phase each stands for.
KindPhase ==
    [packet_scoper |-> "scoper", packet_cursor_pilot |-> "cursor-pilot",
     packet_implementer |-> "implementer", packet_implementer_shard |-> "implementer",
     packet_qa_gate |-> "qa-gate", packet_release_status |-> "release-status"]
Kind == DOMAIN KindPhase \cup
        {"packet_handoff_not_ready", "dor_telemetry", "evidence_memory_health",
         "evidence_deployment_smoke", "evidence_runtime", "evidence_browser", "evidence_shell"}

ValidKind(kind, subtype) ==
    kind \in Kind /\ (kind = "packet_implementer_shard" => subtype # "")

\* A segment of a key that is empty, or climbs, is refused.
Segment(s) == s \notin {"", ".", "..", "a/b"}

\* The key is a function of the scope, the labels and the content.
ObjectKey(up) == <<up.phase, up.kind, up.subtype, up.body>>

\* What canon packet-archive sends, or refuses to send.
SendsArchive(up) ==
    /\ ValidKind(up.kind, up.subtype) /\ Segment(up.phase) /\ up.label # ""

\* The record that is returned: never the body, but its digest.
ArchiveRecord(up, version) ==
    [phase |-> up.phase, kind |-> up.kind, subtype |-> up.subtype, sha |-> up.body,
     key |-> ObjectKey(up), version |-> version, status |-> up.status, outcome |-> up.outcome,
     label |-> up.label]

\* The fields of the record that are in its packet_archived event, where they are set.
EventPayload(record) ==
    LET unset == {x \in {"subtype", "status", "outcome", "label"} : record[x] = ""}
    IN [f \in DOMAIN record \ unset |-> record[f]]

----------------------------------------------------------------------------
(* Run-ledger rows.  A raw record has blocks, each "absent", "empty",      *)
(* "loose" (well-formed up to case and blanks), "plain", "bad" or "body"   *)
(* (it holds a body field).                                                *)

Lists == {"evidence_refs", "validation_outcomes", "commits", "source_event_ids"}
Objects == {"pull_request", "deployment"}
Refused == "refused"

\* A pull request needs its URL, a deployment its environment and status.
NormalObject(v) ==
    CASE v = "absent" -> "absent"
      [] v \in {"loose", "plain"} -> "plain"
      [] OTHER -> Refused

\* A list that is absent is stored empty; a bad element refuses all of it.  Of a commit
\* only the digest and the label are kept, and an event id is made a string.
NormalList(b, v) ==
    CASE v \in {"absent", "empty"} -> "empty"
      [] v \in {"loose", "plain"} -> "plain"
      [] v = "body" /\ b \in {"commits", "source_event_ids"} -> "plain"
      [] OTHER -> Refused

\* By reference only: a record that carries a body, or no digest or kind, is refused.
LedgerReference(record) ==
    [f \in {"phase", "kind", "subtype", "sha", "key", "version", "status", "outcome", "label"}
        |-> record[f]]

NormalBlocks(blocks) ==
    [b \in Lists \cup Objects |->
        IF b \in Lists THEN NormalList(b, blocks[b]) ELSE NormalObject(blocks[b])]

\* The record that is stored; valid says whether it is accepted.
Normal(raw) ==
    [run |-> raw.run, handoff |-> raw.handoff, status |-> raw.status,
     created |-> raw.created, updated |-> raw.updated,
     refs |-> {LedgerReference(r) : r \in raw.refs},
     marker |-> raw.marker, blocks |-> NormalBlocks(raw.blocks)]
Valid(raw, MaxRefs) ==
    /\ raw.run > 0 /\ Segment(raw.handoff) /\ raw.status # "" /\ raw.created > 0
    /\ Cardinality(raw.refs) <= MaxRefs
    /\ \A b \in Lists \cup Objects : NormalBlocks(raw.blocks)[b] # Refused

\* Two rows are the same write if they are equal once both are validated again.
Equivalent(stored, desired) == Normal(stored) = Normal(desired)

----------------------------------------------------------------------------
(* canon readiness check.                                                  *)

RequiredPhases == {"scoper", "cursor-pilot", "qa-gate", "release-status"}
StatusOk == {"ok", "completed", "archived", "success", "stored", "pass", "passed"}

RefPhase(ref) ==
    IF ref.phase # "" THEN ref.phase
    ELSE IF ref.kind \in DOMAIN KindPhase THEN KindPhase[ref.kind] ELSE "none"
PhasesPresent(row) == {RefPhase(r) : r \in row.refs} \ {"none"}

\* An implementer packet, or an evidence reference whose text names one.
ImplementerSatisfied(row) == "implementer" \in PhasesPresent(row) \/ row.marker

\* The outcome counts only where there is no status.
RefWarns(ref) ==
    LET said == IF ref.status # "" THEN ref.status ELSE ref.outcome
    IN said # "" /\ said \notin StatusOk

\* Newest by updated_at, then by created_at; without updated_at it is the empty string.
Later(a, b) == a.updated > b.updated \/ (a.updated = b.updated /\ a.created > b.created)
PickLatest(rows, ids) ==
    CHOOSE run \in ids :
        \A r \in ids : ~Later(rows[r], rows[run]) /\ (r < run => Later(rows[run], rows[r]))

NoReport == [found |-> FALSE, ready |-> FALSE, status |-> "fail",
             missing |-> RequiredPhases \cup {"implementer"}, run |-> 0]

\* Mutant: a missing phase fails only where no implementer is named either.
ReportLenient(row, limitHit) ==
    LET missing == RequiredPhases \ PhasesPresent(row)
        fails == missing # {} /\ ~ImplementerSatisfied(row)
        warns == limitHit \/ \E r \in row.refs : RefWarns(r)
    IN [found |-> TRUE, ready |-> ~fails /\ ~warns,
        status |-> IF fails THEN "fail" ELSE IF warns THEN "warn" ELSE "pass",
        missing |-> missing, run |-> row.run]
Report(row, limitHit) ==
    LET missing == RequiredPhases \ PhasesPresent(row)
        fails == missing # {} \/ ~ImplementerSatisfied(row)
        warns == limitHit \/ \E r \in row.refs : RefWarns(r)
    IN [found |-> TRUE, ready |-> ~fails /\ ~warns,
        status |-> IF fails THEN "fail" ELSE IF warns THEN "warn" ELSE "pass",
        missing |-> missing, run |-> row.run]

\* GET /state/run-ledger is one Query, whose page ends at the limit or, short of it, at
\* 1 MB: so many rows, the first in the order of the run ids.  What follows is not asked for.
Pages(limit, MinPage) == {n \in 1 .. limit : n >= MinPage \/ n = limit}
Window(seen, page) == {run \in seen : Cardinality({r \in seen : r < run}) < page}

\* The answer: the rows of the page that have the handoff.
Scoped(rows, seen, handoff, page) ==
    {run \in Window(seen, page) : rows[run].handoff = handoff}

\* Mutant: an answer of as many rows as the limit is no reason to warn.
EvaluateLatestTrusting(rows, ids, limit) ==
    IF ids = {} THEN NoReport ELSE Report(rows[PickLatest(rows, ids)], FALSE)
EvaluateLatest(rows, ids, limit) ==
    IF ids = {} THEN NoReport
    ELSE Report(rows[PickLatest(rows, ids)], Cardinality(ids) >= limit)

EvaluateRun(rows, seen, run, handoff) ==
    IF run \in seen /\ rows[run].handoff = handoff THEN Report(rows[run], FALSE) ELSE NoReport
=============================================================================
