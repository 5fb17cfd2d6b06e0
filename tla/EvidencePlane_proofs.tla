------------------------ MODULE EvidencePlane_proofs ------------------------
(***************************************************************************)
(* Proofs about EvidencePlane, for any packets, directories, records,      *)
(* operators and bounds.                                                   *)
(***************************************************************************)
EXTENDS EvidencePlane, FiniteSetTheorems, SequenceTheorems, WellFoundedInduction, TLAPS

(***************************************************************************)
(* Validating a stored row again changes nothing.  put_run_ledger depends  *)
(* on it: it compares what it stored with what it is sent after validating *)
(* both.                                                                   *)
(***************************************************************************)

LEMMA ReferenceTwice ==
    ASSUME NEW r
    PROVE  LedgerReference(LedgerReference(r)) = LedgerReference(r)
BY DEF LedgerReference

LEMMA BlocksTwice ==
    ASSUME NEW blocks
    PROVE  NormalBlocks(NormalBlocks(blocks)) = NormalBlocks(blocks)
<1> DEFINE once == NormalBlocks(blocks)
<1>1. ASSUME NEW b \in Lists \cup Objects PROVE NormalBlocks(once)[b] = once[b]
  <2>1. CASE b \in Lists
    <3>1. once[b] = NormalList(b, blocks[b]) /\ NormalBlocks(once)[b] = NormalList(b, once[b])
      BY <2>1 DEF NormalBlocks
    <3>2. \A v : NormalList(b, NormalList(b, v)) = NormalList(b, v)
      BY DEF NormalList, Refused
    <3> QED BY <3>1, <3>2
  <2>2. CASE b \in Objects
    <3>1. b \notin Lists
      BY <2>2 DEF Lists, Objects
    <3>2. once[b] = NormalObject(blocks[b]) /\ NormalBlocks(once)[b] = NormalObject(once[b])
      BY <2>2, <3>1 DEF NormalBlocks
    <3>3. \A v : NormalObject(NormalObject(v)) = NormalObject(v)
      BY DEF NormalObject, Refused
    <3> QED BY <3>2, <3>3
  <2> QED BY <2>1, <2>2
<1> QED BY <1>1 DEF NormalBlocks

LEMMA NormalTwice ==
    ASSUME NEW r
    PROVE  Normal(Normal(r)) = Normal(r)
<1> DEFINE once == Normal(r)
<1>1. {LedgerReference(q) : q \in once.refs} = once.refs
  <2>1. once.refs = {LedgerReference(q) : q \in r.refs}
    BY DEF Normal
  <2>2. \A q \in once.refs : LedgerReference(q) = q
    BY <2>1, ReferenceTwice
  <2> QED BY <2>2
<1>2. NormalBlocks(once.blocks) = once.blocks
  BY BlocksTwice DEF Normal
<1>3. once.run = r.run /\ once.handoff = r.handoff /\ once.status = r.status
      /\ once.created = r.created /\ once.updated = r.updated /\ once.marker = r.marker
  BY DEF Normal
<1>4. Normal(r) = [run |-> r.run, handoff |-> r.handoff, status |-> r.status,
                   created |-> r.created, updated |-> r.updated, refs |-> once.refs,
                   marker |-> r.marker, blocks |-> once.blocks]
  BY DEF Normal
<1> HIDE DEF once
<1>5. Normal(once) = [run |-> r.run, handoff |-> r.handoff, status |-> r.status,
                      created |-> r.created, updated |-> r.updated, refs |-> once.refs,
                      marker |-> r.marker, blocks |-> once.blocks]
  BY <1>1, <1>2, <1>3 DEF Normal
<1> QED BY <1>4, <1>5 DEF once

-----------------------------------------------------------------------------
(* The invariant.                                                          *)

OpFields == {"at", "label", "todo", "failed", "snaps", "rec", "said", "read"}

Recorded(rec) == rec.run \in Nat /\ rec.created \in Nat /\ rec.updated \in Nat

\* A row is keyed by its run id and is as validation leaves it.
RowStands(run) ==
    /\ run \in Nat /\ rows[run].run = run /\ Recorded(rows[run])
    /\ rows[run] = Normal(rows[run])

IsCounter(f) == \A k \in DOMAIN f : f[k] \in Nat

TypeInv ==
    /\ DOMAIN op = OpFields
    /\ op.at \in {"put", "check"} => Recorded(op.rec)
    /\ IsCounter(bucket)
    /\ IsCounter(events)
    /\ IsFiniteSet(DOMAIN rows)
    /\ \A run \in DOMAIN rows : RowStands(run)

\* An archive record that was answered.
SnapStands(s) ==
    /\ s.key[4] = s.sha
    /\ s.version \in Nat /\ s.version <= Count(bucket, s.key)
    /\ Count(events, s.key) > 0

ArchiveInv ==
    /\ \A k \in DOMAIN events : events[k] <= Count(bucket, k)
    /\ \A s \in op.snaps : SnapStands(s)

LedgerInv ==
    /\ \A rec \in accepted : rec.run \in DOMAIN rows /\ rows[rec.run] = Normal(rec)
    /\ op.said = "conflict" => op.rec.run \in DOMAIN rows /\ rows[op.rec.run] # Normal(op.rec)

Inv == TypeInv /\ ArchiveInv /\ LedgerInv

\* readiness check, either way.
Checks ==
    \/ \E limit \in Limits : \E page \in Pages(limit, MinPage), missed \in SUBSET fresh :
          CheckLatest(limit, page, missed)
    \/ \E missed \in SUBSET fresh : CheckRun(missed)

LEMMA CountBump ==
    ASSUME NEW f, NEW k, IsCounter(f)
    PROVE  /\ DOMAIN Bump(f, k) = DOMAIN f \cup {k}
           /\ IsCounter(Bump(f, k))
           /\ \A x : /\ Count(f, x) \in Nat
                     /\ Count(Bump(f, k), x) = IF x = k THEN Count(f, x) + 1 ELSE Count(f, x)
<1>1. \A x : Count(f, x) \in Nat
  BY DEF Count, IsCounter
<1>2. DOMAIN Bump(f, k) = DOMAIN f \cup {k}
  BY DEF Bump
<1>3. \A x \in DOMAIN f \cup {k} : Bump(f, k)[x] = IF x = k THEN Count(f, x) + 1 ELSE Count(f, x)
  BY <1>1 DEF Bump
<1>4. \A x : Count(Bump(f, k), x) = IF x = k THEN Count(f, x) + 1 ELSE Count(f, x)
  BY <1>2, <1>3 DEF Count
<1> QED BY <1>1, <1>2, <1>3, <1>4 DEF IsCounter

LEMMA StoreRow ==
    ASSUME NEW run, NEW item, run \notin DOMAIN rows
    PROVE  /\ DOMAIN Store(run, item) = DOMAIN rows \cup {run}
           /\ Store(run, item)[run] = item
           /\ \A r \in DOMAIN rows : Store(run, item)[r] = rows[r]
BY DEF Store

\* A step that puts no object and no row.
LEMMA OperatorSteps ==
    ASSUME Inv, UNCHANGED <<bucket, events, rows, accepted>>,
           DOMAIN op' = OpFields, op'.snaps \subseteq op.snaps,
           op'.at \in {"put", "check"} => Recorded(op'.rec),
           op'.said = "conflict" => op'.rec = op.rec /\ op.said = "conflict"
    PROVE  Inv'
<1>1. TypeInv'
  BY DEF Inv, TypeInv, IsCounter, RowStands, Recorded
<1>2. ArchiveInv'
  BY DEF Inv, ArchiveInv, SnapStands
<1>3. LedgerInv'
  BY DEF Inv, LedgerInv
<1> QED BY <1>1, <1>2, <1>3 DEF Inv

LEMMA InvInit ==
    ASSUME Init
    PROVE  Inv
<1>1. /\ bucket = <<>> /\ events = <<>> /\ rows = <<>> /\ accepted = {}
      /\ op.snaps = {} /\ op.said = "" /\ op.at = "idle" /\ DOMAIN op = OpFields
  BY DEF Init, Idle, OpFields
<1>2. DOMAIN << >> = {}
  <2>1. << >> \in Seq({}) /\ Len(<< >>) = 0
    OBVIOUS
  <2>2. DOMAIN << >> = 1..0
    BY <2>1
  <2> QED BY <2>2
<1> QED BY <1>1, <1>2, FS_EmptySet DEF Inv, TypeInv, IsCounter, ArchiveInv, LedgerInv

LEMMA ArchiveKeepsInv ==
    ASSUME Inv, NEW f, Archive(f)
    PROVE  Inv'
<1> DEFINE up == UploadOf(f)
           k == ObjectKey(up)
<1>1. PICK record : record = ArchiveRecord(up, Count(bucket, k) + 1)
  OBVIOUS
<1>2. /\ record.key = k /\ record.sha = up.body /\ record.version = Count(bucket, k) + 1
      /\ EventPayload(record).key = k
  <2>1. record = [phase |-> up.phase, kind |-> up.kind, subtype |-> up.subtype, sha |-> up.body,
                  key |-> k, version |-> Count(bucket, k) + 1, status |-> up.status,
                  outcome |-> up.outcome, label |-> up.label]
    BY <1>1 DEF ArchiveRecord
  <2>2. DOMAIN record = {"phase", "kind", "subtype", "sha", "key", "version", "status",
                         "outcome", "label"}
    BY <2>1
  <2>3. "key" \in DOMAIN record \ {x \in {"subtype", "status", "outcome", "label"} : record[x] = ""}
    BY <2>2
  <2>4. EventPayload(record).key = record.key
    BY <2>3 DEF EventPayload
  <2> QED BY <2>1, <2>4
<1>3. k[4] = up.body
  BY DEF ObjectKey
<1>4. /\ bucket' = Bump(bucket, k) /\ events' = Bump(events, k)
      /\ op' = [op EXCEPT !.todo = Tail(@), !.failed = FALSE, !.snaps = @ \cup {record}]
      /\ UNCHANGED <<rows, accepted>> /\ op.at = "archive"
  BY <1>1, <1>2 DEF Archive, Archiving
<1> HIDE DEF k, up
<1>5. /\ DOMAIN op' = OpFields /\ op'.snaps = op.snaps \cup {record} /\ op'.at = op.at
      /\ op'.said = op.said /\ op'.rec = op.rec
  BY <1>4 DEF Inv, TypeInv, OpFields
<1>6. /\ IsCounter(bucket')
      /\ IsCounter(events')
      /\ DOMAIN events' = DOMAIN events \cup {k}
      /\ \A x : /\ Count(bucket, x) \in Nat /\ Count(events, x) \in Nat
                /\ Count(bucket', x) = IF x = k THEN Count(bucket, x) + 1 ELSE Count(bucket, x)
                /\ Count(events', x) = IF x = k THEN Count(events, x) + 1 ELSE Count(events, x)
  <2>1. /\ IsCounter(bucket)
        /\ IsCounter(events)
    BY DEF Inv, TypeInv
  <2>2. /\ IsCounter(bucket')
        /\ \A x : /\ Count(bucket, x) \in Nat
                  /\ Count(bucket', x) = IF x = k THEN Count(bucket, x) + 1 ELSE Count(bucket, x)
    <3>1. bucket' = Bump(bucket, k)
      BY <1>4
    <3>2. IsCounter(Bump(bucket, k))
      BY <2>1, CountBump
    <3>3. \A x : /\ Count(bucket, x) \in Nat
                 /\ Count(Bump(bucket, k), x) = IF x = k THEN Count(bucket, x) + 1 ELSE Count(bucket, x)
      BY <2>1, CountBump
    <3> QED BY <3>1, <3>2, <3>3
  <2>3. /\ IsCounter(events')
        /\ DOMAIN events' = DOMAIN events \cup {k}
        /\ \A x : /\ Count(events, x) \in Nat
                  /\ Count(events', x) = IF x = k THEN Count(events, x) + 1 ELSE Count(events, x)
    <3>1. events' = Bump(events, k)
      BY <1>4
    <3>2. IsCounter(Bump(events, k)) /\ DOMAIN Bump(events, k) = DOMAIN events \cup {k}
      BY <2>1, CountBump
    <3>3. \A x : /\ Count(events, x) \in Nat
                 /\ Count(Bump(events, k), x) = IF x = k THEN Count(events, x) + 1 ELSE Count(events, x)
      BY <2>1, CountBump
    <3> QED BY <3>1, <3>2, <3>3
  <2> QED BY <2>2, <2>3
<1>7. TypeInv'
  BY <1>4, <1>5, <1>6 DEF Inv, TypeInv, IsCounter, RowStands, Recorded
<1>8. \A x \in DOMAIN events' : events'[x] <= Count(bucket', x)
  <2>1. ASSUME NEW x \in DOMAIN events' PROVE Count(events', x) <= Count(bucket', x)
    <3>1. Count(events, x) <= Count(bucket, x)
      BY <1>6 DEF Inv, ArchiveInv, Count
    <3> QED BY <1>6, <3>1
  <2> QED BY <2>1 DEF Count
<1>9. ASSUME NEW s \in op'.snaps PROVE SnapStands(s)'
  <2>1. CASE s = record
    <3>1. s.key = k /\ s.key[4] = s.sha /\ s.version = Count(bucket, k) + 1
      BY <1>2, <1>3, <2>1
    <3>2. Count(bucket', k) = Count(bucket, k) + 1 /\ Count(bucket, k) \in Nat
          /\ Count(events', k) = Count(events, k) + 1 /\ Count(events, k) \in Nat
      BY <1>6
    <3> QED BY <3>1, <3>2 DEF SnapStands
  <2>2. CASE s \in op.snaps
    <3>1. SnapStands(s)
      BY <2>2 DEF Inv, ArchiveInv
    <3>2. Count(bucket, s.key) <= Count(bucket', s.key) /\ Count(events, s.key) <= Count(events', s.key)
          /\ Count(bucket, s.key) \in Nat /\ Count(events, s.key) \in Nat
          /\ Count(bucket', s.key) \in Nat /\ Count(events', s.key) \in Nat
      BY <1>6
    <3> QED BY <3>1, <3>2 DEF SnapStands
  <2> QED BY <1>5, <2>1, <2>2
<1>10. LedgerInv'
  BY <1>4, <1>5 DEF Inv, LedgerInv
<1> QED BY <1>7, <1>8, <1>9, <1>10 DEF Inv, ArchiveInv

LEMMA ArchiveFailsKeepsInv ==
    ASSUME Inv, NEW f, NEW put \in BOOLEAN, NEW emitted \in BOOLEAN, ArchiveFails(f, put, emitted)
    PROVE  Inv'
<1> DEFINE k == ObjectKey(UploadOf(f))
<1>1. /\ bucket' = IF put THEN Bump(bucket, k) ELSE bucket
      /\ events' = IF put /\ emitted THEN Bump(events, k) ELSE events
      /\ op' = [op EXCEPT !.failed = TRUE] /\ UNCHANGED <<rows, accepted>>
  BY DEF ArchiveFails
<1> HIDE DEF k
<1>2. /\ DOMAIN op' = OpFields /\ op'.snaps = op.snaps /\ op'.at = op.at
      /\ op'.said = op.said /\ op'.rec = op.rec
  BY <1>1 DEF Inv, TypeInv, OpFields
<1>3. /\ IsCounter(bucket')
      /\ IsCounter(events')
      /\ \A x : /\ Count(bucket, x) \in Nat /\ Count(events, x) \in Nat
                /\ Count(bucket', x) = IF put /\ x = k THEN Count(bucket, x) + 1 ELSE Count(bucket, x)
                /\ Count(events', x) = IF put /\ emitted /\ x = k THEN Count(events, x) + 1
                                       ELSE Count(events, x)
  <2>1. /\ IsCounter(bucket)
        /\ IsCounter(events)
    BY DEF Inv, TypeInv
  <2>2. \A x : Count(bucket, x) \in Nat /\ Count(events, x) \in Nat
    BY <2>1 DEF Count, IsCounter
  <2>3. /\ IsCounter(bucket')
        /\ \A x : Count(bucket', x) = IF put /\ x = k THEN Count(bucket, x) + 1 ELSE Count(bucket, x)
    <3>1. CASE put
      <4>1. bucket' = Bump(bucket, k)
        BY <1>1, <3>1
      <4>2. IsCounter(Bump(bucket, k))
        BY <2>1, CountBump
      <4>3. \A x : /\ Count(bucket, x) \in Nat
                   /\ Count(Bump(bucket, k), x) = IF x = k THEN Count(bucket, x) + 1 ELSE Count(bucket, x)
        BY <2>1, CountBump
      <4> QED BY <3>1, <4>1, <4>2, <4>3
    <3>2. CASE ~put
      BY <1>1, <2>1, <3>2
    <3> QED BY <3>1, <3>2
  <2>4. /\ IsCounter(events')
        /\ \A x : Count(events', x) = IF put /\ emitted /\ x = k THEN Count(events, x) + 1
                                      ELSE Count(events, x)
    <3>1. CASE put /\ emitted
      <4>1. events' = Bump(events, k)
        BY <1>1, <3>1
      <4>2. IsCounter(Bump(events, k))
        BY <2>1, CountBump
      <4>3. \A x : /\ Count(events, x) \in Nat
                   /\ Count(Bump(events, k), x) = IF x = k THEN Count(events, x) + 1 ELSE Count(events, x)
        BY <2>1, CountBump
      <4> QED BY <3>1, <4>1, <4>2, <4>3
    <3>2. CASE ~(put /\ emitted)
      BY <1>1, <2>1, <3>2
    <3> QED BY <3>1, <3>2
  <2> QED BY <2>2, <2>3, <2>4
<1>4. TypeInv'
  BY <1>1, <1>2, <1>3 DEF Inv, TypeInv, IsCounter, RowStands, Recorded
<1>5. \A x \in DOMAIN events' : events'[x] <= Count(bucket', x)
  <2>1. ASSUME NEW x \in DOMAIN events' PROVE Count(events', x) <= Count(bucket', x)
    <3>1. Count(events, x) <= Count(bucket, x)
      BY <1>3 DEF Inv, ArchiveInv, Count
    <3> QED BY <1>3, <3>1
  <2> QED BY <2>1 DEF Count
<1>6. ASSUME NEW s \in op'.snaps PROVE SnapStands(s)'
  <2>1. SnapStands(s)
    BY <1>2 DEF Inv, ArchiveInv
  <2>2. Count(bucket, s.key) <= Count(bucket', s.key) /\ Count(events, s.key) <= Count(events', s.key)
        /\ Count(bucket, s.key) \in Nat /\ Count(events, s.key) \in Nat
        /\ Count(bucket', s.key) \in Nat /\ Count(events', s.key) \in Nat
    BY <1>3
  <2> QED BY <2>1, <2>2 DEF SnapStands
<1>7. LedgerInv'
  BY <1>1, <1>2 DEF Inv, LedgerInv
<1> QED BY <1>4, <1>5, <1>6, <1>7 DEF Inv, ArchiveInv

\* A row is stored under a run id that has none, and no row is ever changed.
LEMMA InsertKeeps ==
    ASSUME Inv, NEW rec, Recorded(rec), rows' = RowsAfterPut(Normal(rec))
    PROVE  /\ IsFiniteSet(DOMAIN rows') /\ DOMAIN rows' = DOMAIN rows \cup {rec.run}
           /\ \A run \in DOMAIN rows' : RowStands(run)'
           /\ \A run \in DOMAIN rows : rows'[run] = rows[run]
           /\ rec.run \notin DOMAIN rows => rows'[rec.run] = Normal(rec)
<1> DEFINE item == Normal(rec)
<1>1. item.run = rec.run /\ item.created = rec.created /\ item.updated = rec.updated
      /\ Normal(item) = item
  BY NormalTwice DEF Normal
<1> HIDE DEF item
<1>2. CASE rec.run \in DOMAIN rows
  <2>1. rows' = rows
    BY <1>1, <1>2 DEF RowsAfterPut, item
  <2> QED BY <1>2, <2>1 DEF Inv, TypeInv, RowStands, Recorded
<1>3. CASE rec.run \notin DOMAIN rows
  <2>1. rows' = Store(rec.run, item)
    BY <1>1, <1>3 DEF RowsAfterPut, item
  <2>2. DOMAIN rows' = DOMAIN rows \cup {rec.run} /\ rows'[rec.run] = item
        /\ \A run \in DOMAIN rows : rows'[run] = rows[run]
    <3>1. /\ DOMAIN Store(rec.run, item) = DOMAIN rows \cup {rec.run}
          /\ Store(rec.run, item)[rec.run] = item
          /\ \A r \in DOMAIN rows : Store(rec.run, item)[r] = rows[r]
      BY <1>3, StoreRow
    <3> QED BY <2>1, <3>1
  <2>3. IsFiniteSet(DOMAIN rows')
    BY <2>2, FS_AddElement DEF Inv, TypeInv
  <2>4. ASSUME NEW run \in DOMAIN rows' PROVE RowStands(run)'
    <3>1. CASE run = rec.run
      BY <1>1, <2>2, <3>1 DEF RowStands, Recorded
    <3>2. CASE run \in DOMAIN rows
      BY <2>2, <3>2 DEF Inv, TypeInv, RowStands, Recorded
    <3> QED BY <2>2, <3>1, <3>2
  <2> QED BY <1>3, <2>2, <2>3, <2>4 DEF item
<1> QED BY <1>2, <1>3

LEMMA PutKeepsInv ==
    ASSUME Inv, NEW missed \in BOOLEAN, NEW lost \in BOOLEAN, PutRow(missed, lost)
    PROVE  Inv'
<1> DEFINE item == Normal(op.rec)
           answer == PutAnswer(item, missed)
<1>1. /\ op.at = "put" /\ rows' = RowsAfterPut(item)
      /\ accepted' = IF answer = "stored" /\ ~lost THEN accepted \cup {op.rec} ELSE accepted
      /\ op' = IF lost THEN op
               ELSE [op EXCEPT !.said = answer, !.at = CASE answer = "stored" -> "check"
                                                         [] answer = "race" -> "put"
                                                         [] OTHER -> "stopped"]
      /\ UNCHANGED <<bucket, events>>
  BY DEF PutRow
<1>2. Recorded(op.rec)
  BY <1>1 DEF Inv, TypeInv
<1>3. /\ IsFiniteSet(DOMAIN rows') /\ DOMAIN rows' = DOMAIN rows \cup {op.rec.run}
      /\ \A run \in DOMAIN rows' : RowStands(run)'
      /\ \A run \in DOMAIN rows : rows'[run] = rows[run]
      /\ op.rec.run \notin DOMAIN rows => rows'[op.rec.run] = item
  BY <1>1, <1>2, InsertKeeps
<1>4. item.run = op.rec.run
  BY DEF Normal
<1>5. op.rec.run \in DOMAIN rows => (Equivalent(rows[op.rec.run], item) <=> rows[op.rec.run] = item)
  BY NormalTwice DEF Equivalent, Inv, TypeInv, RowStands
<1> HIDE DEF item
<1>6. /\ answer = "stored" => rows'[op.rec.run] = item
      /\ answer = "conflict" => op.rec.run \in DOMAIN rows /\ rows[op.rec.run] # item
  BY <1>3, <1>4, <1>5 DEF PutAnswer
<1> HIDE DEF answer
<1>7. /\ DOMAIN op' = OpFields /\ op'.snaps = op.snaps /\ op'.rec = op.rec
      /\ op'.said = IF lost THEN op.said ELSE answer
  BY <1>1 DEF Inv, TypeInv, OpFields
<1>8. TypeInv'
  BY <1>1, <1>2, <1>3, <1>7 DEF Inv, TypeInv, Recorded
<1>9. ArchiveInv'
  BY <1>1, <1>7 DEF Inv, ArchiveInv, SnapStands
<1>10. LedgerInv'
  <2>1. ASSUME NEW rec \in accepted' PROVE rec.run \in DOMAIN rows' /\ rows'[rec.run] = Normal(rec)
    <3>1. CASE rec \in accepted
      BY <1>3, <3>1 DEF Inv, LedgerInv
    <3>2. CASE rec = op.rec /\ answer = "stored"
      BY <1>3, <1>6, <3>2 DEF item
    <3> QED BY <1>1, <3>1, <3>2
  <2>2. ASSUME op'.said = "conflict"
        PROVE  op'.rec.run \in DOMAIN rows' /\ rows'[op'.rec.run] # Normal(op'.rec)
    <3>1. op.rec.run \in DOMAIN rows /\ rows[op.rec.run] # item
      BY <1>6, <1>7, <2>2 DEF Inv, LedgerInv, item
    <3> QED BY <1>3, <1>7, <3>1 DEF item
  <2> QED BY <2>1, <2>2 DEF LedgerInv
<1> QED BY <1>8, <1>9, <1>10 DEF Inv

LEMMA PutRivalKeepsInv ==
    ASSUME Inv, NEW rec \in Rivals, PutRival(rec)
    PROVE  Inv'
<1>1. Recorded(rec)
  BY EvidenceAssumption DEF Recorded
<1>2. rows' = RowsAfterPut(Normal(rec)) /\ UNCHANGED <<op, bucket, events, accepted>>
  BY DEF PutRival
<1>3. /\ IsFiniteSet(DOMAIN rows') /\ DOMAIN rows' = DOMAIN rows \cup {rec.run}
      /\ \A run \in DOMAIN rows' : RowStands(run)'
      /\ \A run \in DOMAIN rows : rows'[run] = rows[run]
  BY <1>1, <1>2, InsertKeeps
<1>4. TypeInv'
  BY <1>2, <1>3 DEF Inv, TypeInv, IsCounter, Recorded
<1>5. ArchiveInv'
  BY <1>2 DEF Inv, ArchiveInv, SnapStands
<1>6. LedgerInv'
  BY <1>2, <1>3 DEF Inv, LedgerInv
<1> QED BY <1>4, <1>5, <1>6 DEF Inv

LEMMA ComposeKeepsInv ==
    ASSUME Inv, NEW base \in Bases, Compose(base)
    PROVE  Inv'
<1> DEFINE rec == [base EXCEPT !.refs = base.refs \cup op.snaps]
<1>1. rec.run = base.run /\ rec.created = base.created /\ rec.updated = base.updated
  BY EvidenceAssumption
<1>2. Recorded(rec)
  BY <1>1, EvidenceAssumption DEF Recorded
<1>3. /\ op' = [op EXCEPT !.rec = rec, !.said = "",
                          !.at = IF Valid(rec, MaxRefs) THEN "put" ELSE "stopped"]
      /\ UNCHANGED <<bucket, events, rows, accepted>>
  BY DEF Compose
<1> HIDE DEF rec
<1>4. DOMAIN op' = OpFields /\ op'.snaps = op.snaps /\ op'.rec = rec /\ op'.said = ""
  BY <1>3 DEF Inv, TypeInv, OpFields
<1> QED BY <1>2, <1>3, <1>4, OperatorSteps

LEMMA InvNext ==
    ASSUME Inv, [Next]_vars
    PROVE  Inv'
<1>0. DOMAIN op = OpFields /\ (op.at \in {"put", "check"} => Recorded(op.rec))
  BY DEF Inv, TypeInv
<1>1. ASSUME NEW label, Begin(label) PROVE Inv'
  <2>1. /\ op' = [Idle EXCEPT !.at = "validate", !.label = label]
        /\ UNCHANGED <<bucket, events, rows, accepted>>
    BY <1>1 DEF Begin
  <2>2. DOMAIN op' = OpFields /\ op'.snaps = {} /\ op'.said = "" /\ op'.at = "validate"
    BY <2>1 DEF Idle, OpFields
  <2> QED BY <2>1, <2>2, OperatorSteps
<1>2. ASSUME UNCHANGED <<op, bucket, events, rows, accepted>> PROVE Inv'
  BY <1>0, <1>2, OperatorSteps
<1>3. CASE QaValidate
  <2>1. /\ op' = [op EXCEPT !.at = IF QaExit(disk["qa-gate"]) = 0 THEN "audit" ELSE "stopped",
                            !.read = disk["qa-gate"]]
        /\ UNCHANGED <<bucket, events, rows, accepted>>
    BY <1>3 DEF QaValidate
  <2>2. /\ DOMAIN op' = OpFields /\ op'.snaps = op.snaps /\ op'.said = op.said
        /\ op'.at \in {"audit", "stopped"} /\ op'.rec = op.rec
    BY <1>0, <2>1 DEF OpFields
  <2> QED BY <2>1, <2>2, OperatorSteps
<1>4. CASE FlowAudit
  <2>1. PICK passes \in BOOLEAN :
          /\ op' = [op EXCEPT !.at = IF passes THEN "archive" ELSE "stopped", !.todo = FileOrder]
          /\ UNCHANGED <<bucket, events, rows, accepted>>
    <3>1. (AuditErrors([f \in File |-> HasToken(f)], proof) = {}) \in BOOLEAN
      OBVIOUS
    <3> QED BY <1>4, <3>1 DEF FlowAudit
  <2>2. /\ DOMAIN op' = OpFields /\ op'.snaps = op.snaps /\ op'.said = op.said
        /\ op'.at \in {"archive", "stopped"} /\ op'.rec = op.rec
    BY <1>0, <2>1 DEF OpFields
  <2> QED BY <2>1, <2>2, OperatorSteps
<1>5. ASSUME LeaveOut \/ \E f \in File : ArchiveLater(f) PROVE Inv'
  <2>1. /\ UNCHANGED <<bucket, events, rows, accepted>> /\ op.at = "archive"
        /\ \/ op' = [op EXCEPT !.todo = Tail(@), !.failed = FALSE]
           \/ \E f \in File : op' = [op EXCEPT !.todo = <<f>>]
    BY <1>5 DEF LeaveOut, ArchiveLater
  <2>2. /\ DOMAIN op' = OpFields /\ op'.snaps = op.snaps /\ op'.said = op.said
        /\ op'.at = "archive" /\ op'.rec = op.rec
    BY <1>0, <2>1 DEF OpFields
  <2> QED BY <2>1, <2>2, OperatorSteps
<1>6. ASSUME CheckFails \/ Checks
      PROVE  Inv'
  <2>1. /\ UNCHANGED <<bucket, events, rows, accepted>>
        /\ op' = [op EXCEPT !.at = "archive", !.said = ""]
    BY <1>6 DEF Checks, CheckLatest, CheckRun, CheckFails
  <2>2. /\ DOMAIN op' = OpFields /\ op'.snaps = op.snaps /\ op'.said = ""
        /\ op'.at = "archive"
    BY <1>0, <2>1 DEF OpFields
  <2> QED BY <2>1, <2>2, OperatorSteps
<1>7. ASSUME NEW f, NEW text, Rewrite(f, text) PROVE Inv'
  BY <1>2, <1>7 DEF Rewrite
<1>8. ASSUME NEW run, Settle(run) PROVE Inv'
  BY <1>2, <1>8 DEF Settle
<1>9. CASE UNCHANGED vars
  BY <1>2, <1>9 DEF vars
<1> QED BY <1>1, <1>3, <1>4, <1>5, <1>6, <1>7, <1>8, <1>9, ArchiveKeepsInv, ArchiveFailsKeepsInv,
           PutKeepsInv, PutRivalKeepsInv, ComposeKeepsInv DEF Next, Checks

-----------------------------------------------------------------------------
(* What the rest of the proofs need to know of a step.                     *)

LEMMA RowsOnlyGrow ==
    ASSUME Inv, [Next]_vars
    PROVE  /\ DOMAIN rows \subseteq DOMAIN rows'
           /\ \A run \in DOMAIN rows : rows'[run] = rows[run]
           /\ \A run \in DOMAIN rows' \ DOMAIN rows :
                 \/ op.at = "put" /\ rows'[run] = Normal(op.rec)
                 \/ \E rec \in Rivals : rows'[run] = Normal(rec)
<1>1. ASSUME NEW missed, NEW lost, PutRow(missed, lost)
      PROVE  /\ DOMAIN rows' = DOMAIN rows \cup {op.rec.run} /\ op.at = "put"
             /\ \A run \in DOMAIN rows : rows'[run] = rows[run]
             /\ op.rec.run \notin DOMAIN rows => rows'[op.rec.run] = Normal(op.rec)
  <2>1. rows' = RowsAfterPut(Normal(op.rec)) /\ op.at = "put"
    BY <1>1 DEF PutRow
  <2>2. Recorded(op.rec)
    BY <2>1 DEF Inv, TypeInv
  <2> QED BY <2>1, <2>2, InsertKeeps
<1>2. ASSUME NEW rec \in Rivals, PutRival(rec)
      PROVE  /\ DOMAIN rows' = DOMAIN rows \cup {rec.run}
             /\ \A run \in DOMAIN rows : rows'[run] = rows[run]
             /\ rec.run \notin DOMAIN rows => rows'[rec.run] = Normal(rec)
  <2>1. rows' = RowsAfterPut(Normal(rec)) /\ Recorded(rec)
    BY <1>2, EvidenceAssumption DEF PutRival, Recorded
  <2> QED BY <2>1, InsertKeeps
<1>3. CASE UNCHANGED rows
  BY <1>3
<1>4. CASE ~UNCHANGED rows
  <2>1. \/ \E missed, lost \in BOOLEAN : PutRow(missed, lost)
        \/ \E rec \in Rivals : PutRival(rec)
    BY <1>4 DEF Next, vars, Begin, Rewrite, QaValidate, FlowAudit, Archive, ArchiveFails, LeaveOut,
                ArchiveLater, Compose, Settle, CheckLatest, CheckRun, CheckFails
  <2>2. CASE \E missed, lost \in BOOLEAN : PutRow(missed, lost)
    <3>1. PICK missed \in BOOLEAN, lost \in BOOLEAN : PutRow(missed, lost)
      BY <2>2
    <3>2. /\ DOMAIN rows' = DOMAIN rows \cup {op.rec.run} /\ op.at = "put"
          /\ \A run \in DOMAIN rows : rows'[run] = rows[run]
          /\ op.rec.run \notin DOMAIN rows => rows'[op.rec.run] = Normal(op.rec)
      BY <1>1, <3>1
    <3> QED BY <3>2
  <2>3. CASE \E rec \in Rivals : PutRival(rec)
    <3>1. PICK rec \in Rivals : PutRival(rec)
      BY <2>3
    <3>2. /\ DOMAIN rows' = DOMAIN rows \cup {rec.run}
          /\ \A run \in DOMAIN rows : rows'[run] = rows[run]
          /\ rec.run \notin DOMAIN rows => rows'[rec.run] = Normal(rec)
      BY <1>2, <3>1
    <3> QED BY <3>2
  <2> QED BY <2>1, <2>2, <2>3
<1> QED BY <1>3, <1>4

LEMMA BucketOnlyGrows ==
    ASSUME Inv, [Next]_vars
    PROVE  \A k : /\ Count(bucket, k) \in Nat /\ Count(bucket', k) \in Nat
                  /\ Count(bucket, k) <= Count(bucket', k)
<1>1. IsCounter(bucket)
  BY DEF Inv, TypeInv
<1>2. \A k : Count(bucket, k) \in Nat /\ Count(bucket, k) <= Count(bucket, k)
  BY <1>1 DEF IsCounter, Count
<1>3. CASE UNCHANGED bucket
  BY <1>2, <1>3
<1>4. ASSUME NEW k, bucket' = Bump(bucket, k)
      PROVE  \A x : /\ Count(bucket, x) \in Nat /\ Count(bucket', x) \in Nat
                    /\ Count(bucket, x) <= Count(bucket', x)
  <2>1. \A x : /\ Count(bucket, x) \in Nat
               /\ Count(Bump(bucket, k), x) = IF x = k THEN Count(bucket, x) + 1 ELSE Count(bucket, x)
    BY <1>1, CountBump
  <2> QED BY <1>4, <2>1
<1>5. CASE ~UNCHANGED bucket
  <2>1. \/ \E f \in File : Archive(f)
        \/ \E f \in File, put, emitted \in BOOLEAN : ArchiveFails(f, put, emitted)
    BY <1>5 DEF Next, vars, Begin, Rewrite, QaValidate, FlowAudit, LeaveOut,
                ArchiveLater, Compose, PutRow, PutRival, Settle, CheckLatest, CheckRun,
                CheckFails
  <2>2. \E k : bucket' = Bump(bucket, k)
    BY <1>5, <2>1 DEF Archive, ArchiveFails
  <2> QED BY <1>4, <2>2
<1> QED BY <1>3, <1>5

LEMMA RecordsAreComposed ==
    ASSUME Inv, [Next]_vars, op'.at \in {"put", "check"}
    PROVE  \/ op.at = "put" /\ op'.rec = op.rec
           \/ op.at = op'.at /\ op'.rec = op.rec
           \/ /\ op'.at = "put"
              /\ \E base \in Bases : op'.rec = [base EXCEPT !.refs = base.refs \cup op.snaps]
<1>0. DOMAIN op = OpFields
  BY DEF Inv, TypeInv
<1>1. ASSUME NEW base \in Bases, Compose(base)
      PROVE  /\ op'.rec = [base EXCEPT !.refs = base.refs \cup op.snaps]
             /\ op'.at \in {"put", "stopped"}
  BY <1>0, <1>1 DEF Compose, OpFields
<1>2. ASSUME NEW missed \in BOOLEAN, NEW lost \in BOOLEAN, PutRow(missed, lost)
      PROVE  op'.rec = op.rec /\ op.at = "put"
  BY <1>0, <1>2 DEF PutRow, OpFields
<1>3. CASE UNCHANGED op
  BY <1>3
<1>4. ASSUME QaValidate \/ FlowAudit \/ LeaveOut \/ (\E f \in File : ArchiveLater(f)) \/ CheckFails
             \/ Checks \/ (\E f \in File : Archive(f)) \/ (\E label \in Labels : Begin(label))
      PROVE  op'.at \notin {"put", "check"}
  BY <1>0, <1>4 DEF QaValidate, FlowAudit, LeaveOut, ArchiveLater, CheckFails, Checks, CheckLatest,
                    CheckRun, Archive, Archiving, Begin, Idle, OpFields
<1>5. ASSUME NEW f \in File, NEW put \in BOOLEAN, NEW emitted \in BOOLEAN, ArchiveFails(f, put, emitted)
      PROVE  op'.at \notin {"put", "check"}
  BY <1>0, <1>5 DEF ArchiveFails, Archiving, OpFields
<1> QED BY <1>1, <1>2, <1>3, <1>4, <1>5 DEF Next, Checks, vars, Rewrite, PutRival, Settle

LEMMA ReportsAreMade ==
    ASSUME [Next]_vars
    PROVE  \/ report' = report
           \/ report'.r.ready = FALSE
           \/ Checks
<1>1. ASSUME NEW base, Compose(base) PROVE report'.r.ready = FALSE
  BY <1>1 DEF Compose, Unasked, NoReport
<1> QED BY <1>1 DEF Next, Checks, vars, Begin, Rewrite, QaValidate, FlowAudit, Archive,
                    ArchiveFails, LeaveOut, ArchiveLater, PutRow, PutRival, Settle, CheckFails

-----------------------------------------------------------------------------
(* The rows and the archive.                                               *)

\* Every counter, row and archive record that an operator holds is as the server left it.
THEOREM LedgerStands == Spec => []Inv
<1>1. Init => Inv
  BY InvInit
<1>2. Inv /\ [Next]_vars => Inv'
  BY InvNext
<1> QED BY <1>1, <1>2, PTL DEF Spec

\* put_run_ledger: an acknowledged row is in the ledger as it was sent, for good.
THEOREM AckedRowsStay == Spec => []AckedRowStays
<1>1. Inv => AckedRowStays
  BY DEF Inv, LedgerInv, AckedRowStays
<1> QED BY <1>1, LedgerStands, PTL

\* put_run_ledger: a conflict is answered only where the run id holds another record.
THEOREM ConflictsReal == Spec => []ConflictsAreReal
<1>1. Inv => ConflictsAreReal
  BY DEF Inv, LedgerInv, ConflictsAreReal
<1> QED BY <1>1, LedgerStands, PTL

\* archive_packet: no event without its object, and no record without its event.
THEOREM EventsHaveObjects == Spec => []EventsFollowObjects
<1>1. Inv => EventsFollowObjects
  BY DEF Inv, ArchiveInv, SnapStands, EventsFollowObjects
<1> QED BY <1>1, LedgerStands, PTL

-----------------------------------------------------------------------------
(* Readiness.                                                              *)

\* The newest of a finite set of rows exists.
LEMMA LeastNatural ==
    ASSUME NEW S \in SUBSET Nat, S # {}
    PROVE  \E m \in S : \A n \in S : m <= n
<1> DEFINE Less == {pair \in Nat \X Nat : pair[1] < pair[2]}
<1>1. IsWellFoundedOn(Less, Nat)
  BY NatLessThanWellFounded DEF OpToRel
<1>2. PICK m \in S : \A n \in S : <<n, m>> \notin Less
  BY <1>1, WFMin
<1>3. ASSUME NEW n \in S PROVE m <= n
  <2>1. <<n, m>> \notin Less
    BY <1>2
  <2> QED BY <2>1
<1> QED BY <1>3

Newest(ids, run) == \A r \in ids : ~Later(rows[r], rows[run])

LEMMA LaterOrder ==
    ASSUME Inv, NEW a \in DOMAIN rows, NEW b \in DOMAIN rows, NEW c \in DOMAIN rows
    PROVE  /\ ~Later(rows[a], rows[a])
           /\ Later(rows[a], rows[b]) => ~Later(rows[b], rows[a])
           /\ ~Later(rows[a], rows[b]) /\ ~Later(rows[b], rows[c]) => ~Later(rows[a], rows[c])
           /\ ~Later(rows[a], rows[b]) /\ Later(rows[c], rows[b]) => Later(rows[c], rows[a])
<1>1. /\ rows[a].updated \in Nat /\ rows[a].created \in Nat
      /\ rows[b].updated \in Nat /\ rows[b].created \in Nat
      /\ rows[c].updated \in Nat /\ rows[c].created \in Nat
  BY DEF Inv, TypeInv, RowStands, Recorded
<1> QED BY <1>1 DEF Later

LEMMA NewestExists ==
    ASSUME Inv, NEW ids \in SUBSET DOMAIN rows, ids # {}
    PROVE  \E run \in ids : Newest(ids, run)
<1> DEFINE Bad == {T \in SUBSET DOMAIN rows : T # {} /\ ~\E run \in T : Newest(T, run)}
           sizes == {Cardinality(T) : T \in Bad}
<1>1. \A T \in SUBSET DOMAIN rows : IsFiniteSet(T) /\ Cardinality(T) \in Nat
  BY FS_Subset, FS_CardinalityType DEF Inv, TypeInv
<1>2. SUFFICES ASSUME ids \in Bad PROVE FALSE
  OBVIOUS
<1>3. sizes \in SUBSET Nat /\ sizes # {}
  BY <1>1, <1>2
<1>4. PICK n \in sizes : \A m \in sizes : n <= m
  BY <1>3, LeastNatural
<1>5. PICK T \in Bad : n = Cardinality(T)
  BY <1>4
<1>6. PICK x \in T : TRUE
  BY <1>5
<1> DEFINE U == T \ {x}
<1>7. Cardinality(U) = n - 1 /\ n \in Nat /\ Cardinality(U) \in Nat
  BY <1>1, <1>5, <1>6, FS_RemoveElement
<1>8. U \notin Bad
  <2>1. Cardinality(U) < n
    BY <1>7
  <2> HIDE DEF U, Bad
  <2> QED BY <1>4, <1>7, <2>1
<1>9. CASE U = {}
  <2>1. T = {x} /\ x \in DOMAIN rows
    BY <1>5, <1>6, <1>9
  <2>2. Newest(T, x)
    BY <2>1, LaterOrder DEF Newest
  <2> QED BY <1>5, <1>6, <2>2
<1>10. CASE U # {}
  <2>1. PICK m \in U : Newest(U, m)
    BY <1>5, <1>8, <1>10
  <2>2. x \in DOMAIN rows /\ m \in DOMAIN rows /\ m \in T
    BY <1>5, <1>6, <2>1
  <2>3. CASE Later(rows[x], rows[m])
    <3>1. ASSUME NEW r \in T PROVE ~Later(rows[r], rows[x])
      <4>1. CASE r = x
        BY <2>2, <4>1, LaterOrder
      <4>2. CASE r # x
        <5>1. r \in U /\ r \in DOMAIN rows
          BY <1>5, <4>2
        <5>2. ~Later(rows[r], rows[m])
          BY <2>1, <5>1 DEF Newest
        <5>3. ~Later(rows[m], rows[x])
          BY <2>2, <2>3, LaterOrder
        <5> QED BY <2>2, <5>1, <5>2, <5>3, LaterOrder
      <4> QED BY <4>1, <4>2
    <3> QED BY <1>5, <1>6, <3>1 DEF Newest
  <2>4. CASE ~Later(rows[x], rows[m])
    <3>1. ASSUME NEW r \in T PROVE ~Later(rows[r], rows[m])
      BY <2>1, <2>4 DEF Newest
    <3> QED BY <1>5, <2>2, <3>1 DEF Newest
  <2> QED BY <2>3, <2>4
<1> QED BY <1>9, <1>10

\* pick_latest_ledger_record returns one of the rows it is given, and a newest one.
LEMMA LatestIsPicked ==
    ASSUME Inv, NEW ids \in SUBSET DOMAIN rows, ids # {}
    PROVE  PickLatest(rows, ids) \in ids /\ Newest(ids, PickLatest(rows, ids))
<1> DEFINE newest == {run \in ids : Newest(ids, run)}
           Foremost(run) == \A r \in ids : /\ ~Later(rows[r], rows[run])
                                           /\ r < run => Later(rows[run], rows[r])
<1>1. newest \in SUBSET Nat /\ newest # {}
  BY NewestExists DEF Inv, TypeInv, RowStands
<1>2. PICK run \in newest : \A r \in newest : run <= r
  BY <1>1, LeastNatural
<1>3. ASSUME NEW r \in ids, r < run PROVE Later(rows[run], rows[r])
  <2>1. r \notin newest
    <3>1. r \in Nat /\ run \in Nat
      BY <1>1 DEF Inv, TypeInv, RowStands
    <3> QED BY <1>2, <1>3, <3>1
  <2>2. PICK q \in ids : Later(rows[q], rows[r])
    BY <2>1 DEF Newest
  <2>3. ~Later(rows[q], rows[run])
    BY DEF Newest
  <2>4. CASE Later(rows[run], rows[r])
    BY <2>4
  <2>5. CASE ~Later(rows[run], rows[r])
    <3>1. ~Later(rows[q], rows[r])
      BY <2>3, <2>5, LaterOrder
    <3> QED BY <2>2, <3>1
  <2> QED BY <2>4, <2>5
<1>4. run \in ids /\ Foremost(run)
  BY <1>3 DEF Newest
<1>5. PickLatest(rows, ids) = CHOOSE r \in ids : Foremost(r)
  BY DEF PickLatest
<1> HIDE DEF Foremost
<1>6. PickLatest(rows, ids) \in ids /\ Foremost(PickLatest(rows, ids))
  BY <1>4, <1>5
<1> QED BY <1>6 DEF Foremost, Newest

\* What a read by --latest reports ready is one of the newest rows of the answer.
LEMMA LatestFollows ==
    ASSUME Inv, NEW limit, NEW page, NEW missed \in SUBSET fresh,
           CheckLatest(limit, page, missed), report'.r.ready
    PROVE  \E run \in Scoped(rows, report'.seen, op.rec.handoff, page) :
             /\ Newest(Scoped(rows, report'.seen, op.rec.handoff, page), run)
             /\ report'.r = Report(rows[run], Cardinality(Scoped(rows, report'.seen, op.rec.handoff, page)) >= limit)
             /\ report'.seen = DOMAIN rows \ missed
<1> DEFINE seen == DOMAIN rows \ missed
           ids == Scoped(rows, seen, op.rec.handoff, page)
<1>1. /\ report' = [latest |-> TRUE, seen |-> seen, limit |-> limit, page |-> page,
                    r |-> EvaluateLatest(rows, ids, limit)]
  BY DEF CheckLatest
<1>2. ids \in SUBSET DOMAIN rows
  BY DEF Scoped, Window
<1>3. report'.seen = seen /\ report'.r = EvaluateLatest(rows, ids, limit)
  BY <1>1
<1>4. NoReport.ready = FALSE
  BY DEF NoReport
<1> HIDE DEF ids
<1>5. ids # {}
  BY <1>3, <1>4 DEF EvaluateLatest
<1>6. report'.r = Report(rows[PickLatest(rows, ids)], Cardinality(ids) >= limit)
  BY <1>3, <1>5 DEF EvaluateLatest
<1>7. PickLatest(rows, ids) \in ids /\ Newest(ids, PickLatest(rows, ids))
  BY <1>2, <1>5, LatestIsPicked
<1> QED BY <1>3, <1>6, <1>7 DEF ids

\* What a check reads is in the ledger.
LEMMA ReportFollows ==
    ASSUME Inv, Checks, report'.r.ready
    PROVE  /\ rows' = rows
           /\ \E run \in DOMAIN rows, limitHit \in BOOLEAN : report'.r = Report(rows[run], limitHit)
<1>1. ASSUME NEW limit \in Limits, NEW page \in Pages(limit, MinPage), NEW missed \in SUBSET fresh,
             CheckLatest(limit, page, missed)
      PROVE  \E run \in DOMAIN rows, limitHit \in BOOLEAN : report'.r = Report(rows[run], limitHit)
  <2> DEFINE ids == Scoped(rows, report'.seen, op.rec.handoff, page)
             hit == Cardinality(ids) >= limit
  <2>1. PICK run \in ids : report'.r = Report(rows[run], hit) /\ report'.seen = DOMAIN rows \ missed
    BY <1>1, LatestFollows
  <2>2. run \in DOMAIN rows
    BY <2>1 DEF Scoped, Window
  <2>3. hit \in BOOLEAN
    OBVIOUS
  <2> HIDE DEF hit, ids
  <2> QED BY <2>1, <2>2, <2>3
<1>2. ASSUME NEW missed \in SUBSET fresh, CheckRun(missed)
      PROVE  \E run \in DOMAIN rows, limitHit \in BOOLEAN : report'.r = Report(rows[run], limitHit)
  <2>1. report'.r = EvaluateRun(rows, DOMAIN rows \ missed, op.rec.run, op.rec.handoff)
    BY <1>2 DEF CheckRun, Unasked
  <2>2. NoReport.ready = FALSE
    BY DEF NoReport
  <2> QED BY <2>1, <2>2 DEF EvaluateRun
<1>3. rows' = rows
  BY DEF Checks, CheckLatest, CheckRun
<1> QED BY <1>1, <1>2, <1>3 DEF Checks

\* A reference to a required packet names an object that is in the bucket.
RefStands(ref) ==
    RefPhase(ref) \in RequiredPhases =>
        /\ ref.key[4] = ref.sha
        /\ ref.version \in Nat /\ ref.version <= Count(bucket, ref.key)

RefInv ==
    /\ \A run \in DOMAIN rows : \A ref \in rows[run].refs : RefStands(ref)
    /\ op.at = "put" => \A ref \in op.rec.refs : RefStands(ref)

ReadyRow ==
    report.r.ready =>
        /\ report.r.run \in DOMAIN rows
        /\ \A ph \in RequiredPhases : \E ref \in rows[report.r.run].refs : RefPhase(ref) = ph

\* References to required packets come from the answers of the archive, and from nowhere
\* else: the server does not look them up.
HonestRecords == \A b \in Bases : \A ref \in b.refs : RefPhase(ref) \notin RequiredPhases

LEMMA ReferenceStands ==
    ASSUME NEW ref, RefStands(ref)
    PROVE  RefStands(LedgerReference(ref))
<1>1. /\ LedgerReference(ref).phase = ref.phase /\ LedgerReference(ref).kind = ref.kind
      /\ LedgerReference(ref).key = ref.key /\ LedgerReference(ref).sha = ref.sha
      /\ LedgerReference(ref).version = ref.version
  BY DEF LedgerReference
<1> QED BY <1>1 DEF RefStands, RefPhase

LEMMA RefNext ==
    ASSUME HonestRecords, Inv, Inv', RefInv, [Next]_vars
    PROVE  RefInv'
<1>1. ASSUME NEW ref, RefStands(ref) PROVE RefStands(ref)'
  <2>1. Count(bucket, ref.key) \in Nat /\ Count(bucket', ref.key) \in Nat
        /\ Count(bucket, ref.key) <= Count(bucket', ref.key)
    BY BucketOnlyGrows
  <2> QED BY <1>1, <2>1 DEF RefStands
<1>2. ASSUME NEW b \in Bases, NEW ref \in b.refs PROVE RefStands(ref)
  BY DEF HonestRecords, RefStands
<1>3. ASSUME NEW run \in DOMAIN rows', NEW ref \in rows'[run].refs PROVE RefStands(ref)'
  <2>1. CASE run \in DOMAIN rows
    <3>1. ref \in rows[run].refs
      BY <2>1, RowsOnlyGrow
    <3> QED BY <1>1, <2>1, <3>1 DEF RefInv
  <2>2. CASE run \notin DOMAIN rows
    <3>1. PICK rec : /\ rows'[run] = Normal(rec)
                     /\ \/ op.at = "put" /\ rec = op.rec
                        \/ rec \in Rivals
      BY <2>2, RowsOnlyGrow
    <3>2. \A r \in rec.refs : RefStands(r)
      BY <1>2, <3>1, EvidenceAssumption DEF RefInv
    <3>3. PICK r \in rec.refs : ref = LedgerReference(r)
      BY <3>1 DEF Normal
    <3> QED BY <1>1, <3>2, <3>3, ReferenceStands
  <2> QED BY <2>1, <2>2
<1>4. ASSUME op'.at = "put", NEW ref \in op'.rec.refs PROVE RefStands(ref)'
  <2>1. CASE op.at = "put" /\ op'.rec = op.rec
    BY <1>1, <1>4, <2>1 DEF RefInv
  <2>2. CASE \E base \in Bases : op'.rec = [base EXCEPT !.refs = base.refs \cup op.snaps]
    <3>1. PICK base \in Bases : op'.rec = [base EXCEPT !.refs = base.refs \cup op.snaps]
      BY <2>2
    <3>2. op'.rec.refs = base.refs \cup op.snaps
      BY <3>1, EvidenceAssumption
    <3>3. ASSUME ref \in op.snaps PROVE RefStands(ref)
      BY <3>3 DEF Inv, ArchiveInv, SnapStands, RefStands
    <3> QED BY <1>1, <1>2, <1>4, <3>2, <3>3
  <2> QED BY <1>4, <2>1, <2>2, RecordsAreComposed
<1> QED BY <1>3, <1>4 DEF RefInv

\* A report that says ready names the row's run, and no required phase is missing there.
LEMMA ReadyReport ==
    ASSUME NEW row, NEW l \in BOOLEAN, Report(row, l).ready
    PROVE  /\ Report(row, l).run = row.run
           /\ ~l
           /\ \A ph \in RequiredPhases : \E ref \in row.refs : RefPhase(ref) = ph
<1> DEFINE missing == RequiredPhases \ PhasesPresent(row)
           fails == missing # {} \/ ~ImplementerSatisfied(row)
           warns == l \/ \E r \in row.refs : RefWarns(r)
           ready == ~fails /\ ~warns
           status == IF fails THEN "fail" ELSE IF warns THEN "warn" ELSE "pass"
<1>0. Report(row, l) = [found |-> TRUE, ready |-> ready, status |-> status,
                        missing |-> missing, run |-> row.run]
  BY DEF Report
<1>a. PICK b \in BOOLEAN : b = ready
  OBVIOUS
<1>1. Report(row, l) = [found |-> TRUE, ready |-> b, status |-> status,
                        missing |-> missing, run |-> row.run]
  BY <1>0, <1>a, Zenon
<1> HIDE DEF missing, fails, warns, ready, status
<1>2. Report(row, l).run = row.run
  BY <1>1
<1>3. b
  BY <1>1
<1>4. missing = {}
  BY <1>a, <1>3 DEF ready, fails
<1>5. \A ph \in RequiredPhases : \E ref \in row.refs : RefPhase(ref) = ph
  BY <1>4 DEF missing, PhasesPresent
<1>6. ~l
  BY <1>a, <1>3 DEF ready, warns
<1> QED BY <1>2, <1>5, <1>6

LEMMA ReadyNext ==
    ASSUME Inv, Inv', ReadyRow, [Next]_vars
    PROVE  ReadyRow'
<1>1. CASE report' = report
  <2>1. SUFFICES ASSUME report.r.ready PROVE ReadyRow'
    BY <1>1 DEF ReadyRow
  <2>2. report.r.run \in DOMAIN rows
    BY <2>1 DEF ReadyRow
  <2>3. report.r.run \in DOMAIN rows' /\ rows'[report.r.run] = rows[report.r.run]
    BY <2>2, RowsOnlyGrow
  <2> QED BY <1>1, <2>1, <2>3 DEF ReadyRow
<1>2. CASE report'.r.ready = FALSE
  BY <1>2 DEF ReadyRow
<1>3. ASSUME Checks, report'.r.ready
      PROVE  ReadyRow'
  <2>1. PICK run \in DOMAIN rows, limitHit \in BOOLEAN : report'.r = Report(rows[run], limitHit)
    BY <1>3, ReportFollows
  <2>2. rows' = rows
    BY <1>3, ReportFollows
  <2>3. Report(rows[run], limitHit).ready
    BY <1>3, <2>1
  <2>4. rows[run].run = run
    BY DEF Inv, TypeInv, RowStands
  <2>5. /\ report'.r.run = run
        /\ \A ph \in RequiredPhases : \E ref \in rows[run].refs : RefPhase(ref) = ph
    BY <2>1, <2>3, <2>4, ReadyReport
  <2> QED BY <2>2, <2>5 DEF ReadyRow
<1> QED BY <1>1, <1>2, <1>3, ReportsAreMade DEF ReadyRow

\* build_readiness_report_for_record: a scope that is called ready has every required packet
\* in the bucket, with the digest its row names.
THEOREM ReadyIsArchived ==
    ASSUME HonestRecords
    PROVE  Spec => []ReadyMeansArchived
<1>1. Init => RefInv /\ ReadyRow
  <2>1. SUFFICES ASSUME Init PROVE RefInv /\ ReadyRow
    OBVIOUS
  <2>2. DOMAIN << >> = {}
    <3>1. << >> \in Seq({}) /\ Len(<< >>) = 0
      OBVIOUS
    <3> QED BY <3>1
  <2>3. /\ op = Idle
        /\ report = Unasked
        /\ rows = << >>
    BY <2>1 DEF Init
  <2>4. Idle.at = "idle" /\ Unasked.r.ready = FALSE
    BY DEF Idle, Unasked, NoReport
  <2> QED BY <2>2, <2>3, <2>4 DEF RefInv, ReadyRow
<1>2. Inv /\ Inv' /\ RefInv /\ ReadyRow /\ [Next]_vars => (RefInv /\ ReadyRow)'
  BY RefNext, ReadyNext
<1>3. ASSUME Inv, RefInv, ReadyRow, report.r.ready
      PROVE  ReadyMeansArchived
  <2>1. report.r.run \in DOMAIN rows
    BY <1>3 DEF ReadyRow
  <2>2. ASSUME NEW ph \in RequiredPhases
        PROVE  \E ref \in rows[report.r.run].refs :
                 /\ RefPhase(ref) = ph
                 /\ ref.key[4] = ref.sha /\ Count(bucket, ref.key) >= ref.version
    <3>1. PICK ref \in rows[report.r.run].refs : RefPhase(ref) = ph
      BY <1>3 DEF ReadyRow
    <3>2. RefStands(ref)
      BY <1>3, <2>1 DEF RefInv
    <3>3. Count(bucket, ref.key) \in Nat
      BY <1>3 DEF Inv, TypeInv, IsCounter, Count
    <3> QED BY <3>1, <3>2, <3>3 DEF RefStands
  <2> QED BY <2>2 DEF ReadyMeansArchived
<1>4. Inv /\ RefInv /\ ReadyRow => ReadyMeansArchived
  BY <1>3 DEF ReadyMeansArchived
<1> QED BY <1>1, <1>2, <1>4, LedgerStands, PTL DEF Spec

-----------------------------------------------------------------------------
(* canon readiness check --latest.                                         *)

\* A set of run ids with fewer than limit members in its window is its window.
LEMMA WindowIsAll ==
    ASSUME NEW seen \in SUBSET Nat, IsFiniteSet(seen), NEW limit \in Nat \ {0},
           Cardinality(Window(seen, limit)) < limit
    PROVE  Window(seen, limit) = seen
<1> DEFINE out == seen \ Window(seen, limit)
<1>1. SUFFICES ASSUME out # {} PROVE FALSE
  BY DEF Window
<1>2. PICK m \in out : \A n \in out : m <= n
  BY <1>1, LeastNatural
<1> DEFINE below == {r \in seen : r < m}
<1>3. ~(Cardinality(below) < limit)
  BY <1>2 DEF Window
<1>4. below \subseteq Window(seen, limit)
  <2>1. ASSUME NEW r \in below PROVE r \in Window(seen, limit)
    <3>1. r \notin out
      BY <1>2
    <3> QED BY <3>1
  <2> QED BY <2>1
<1>5. IsFiniteSet(Window(seen, limit))
  BY FS_Subset DEF Window
<1>6. Cardinality(below) <= Cardinality(Window(seen, limit)) /\ Cardinality(below) \in Nat
      /\ Cardinality(Window(seen, limit)) \in Nat
  BY <1>4, <1>5, FS_Subset, FS_CardinalityType
<1> HIDE DEF below
<1> QED BY <1>3, <1>6

\* A newer row of the handoff lies beyond the page, for a reason the client cannot see.
LatestInv ==
    /\ report.seen \subseteq DOMAIN rows
    /\ report.r.ready /\ report.latest => report.r.run \in DOMAIN rows
    /\ NewerIsOutOfReach

\* A row beyond the page has the whole page before it.
LEMMA BeyondThePage ==
    ASSUME NEW seen \in SUBSET Nat, IsFiniteSet(seen), NEW page \in Nat \ {0},
           NEW run \in seen, run \notin Window(seen, page)
    PROVE  LET before == {r \in seen : r < run}
           IN Cardinality(before) >= page /\ Window(seen, page) \subseteq before
<1> DEFINE before == {r \in seen : r < run}
<1>1. IsFiniteSet(before) /\ Cardinality(before) \in Nat
  BY FS_Subset, FS_CardinalityType
<1>2. Cardinality(before) >= page
  BY <1>1 DEF Window
<1>3. ASSUME NEW w \in Window(seen, page), w \notin before PROVE FALSE
  <2> DEFINE below == {r \in seen : r < w}
  <2>1. w \in Nat /\ run \in Nat /\ run <= w
    BY <1>3 DEF Window
  <2>2. before \subseteq below
    <3>1. ASSUME NEW r \in before PROVE r \in below
      <4>1. r \in Nat /\ r \in seen /\ r < run
        OBVIOUS
      <4> QED BY <2>1, <4>1
    <3> QED BY <3>1
  <2>3. IsFiniteSet(below) /\ Cardinality(below) \in Nat /\ Cardinality(before) <= Cardinality(below)
    BY <2>2, FS_Subset, FS_CardinalityType
  <2>4. Cardinality(below) < page
    BY <1>3 DEF Window
  <2> HIDE DEF before, below
  <2> QED BY <1>1, <1>2, <2>3, <2>4
<1> QED BY <1>2, <1>3

LEMMA LatestNext ==
    ASSUME Inv, LatestInv, [Next]_vars
    PROVE  LatestInv'
<1>1. CASE report' = report
  <2>1. \A run \in DOMAIN rows : run \in DOMAIN rows' /\ rows'[run] = rows[run]
    BY RowsOnlyGrow
  <2>2. CASE report.r.ready /\ report.latest
    <3>1. rows'[report.r.run] = rows[report.r.run]
      BY <2>1, <2>2 DEF LatestInv
    <3>2. NewerRows' = NewerRows
      BY <1>1, <2>1, <3>1 DEF LatestInv, NewerRows
    <3> QED BY <1>1, <2>1, <2>2, <3>2 DEF LatestInv, NewerIsOutOfReach, NewerRows
  <2>3. CASE ~(report.r.ready /\ report.latest)
    BY <1>1, <2>1, <2>3 DEF LatestInv, NewerIsOutOfReach
  <2> QED BY <2>2, <2>3
<1>2. ASSUME NEW base, Compose(base) PROVE LatestInv'
  <2>1. report'.r.ready = FALSE /\ report'.seen = {}
    BY <1>2 DEF Compose, Unasked, NoReport
  <2> QED BY <2>1 DEF LatestInv, NewerIsOutOfReach
<1>3. ASSUME NEW missed \in SUBSET fresh, CheckRun(missed) PROVE LatestInv'
  <2>1. report'.latest = FALSE /\ report'.seen = DOMAIN rows \ missed /\ rows' = rows
    BY <1>3 DEF CheckRun, Unasked
  <2> QED BY <2>1 DEF LatestInv, NewerIsOutOfReach
<1>4. ASSUME NEW limit \in Limits, NEW page \in Pages(limit, MinPage), NEW missed \in SUBSET fresh,
             CheckLatest(limit, page, missed)
      PROVE  LatestInv'
  <2>1. /\ rows' = rows /\ report'.seen = DOMAIN rows \ missed
        /\ report'.page = page /\ report'.limit = limit
    BY <1>4 DEF CheckLatest
  <2>2. SUFFICES ASSUME report'.r.ready
                 PROVE  report'.r.run \in DOMAIN rows /\ NewerIsOutOfReach'
    BY <2>1 DEF LatestInv, NewerIsOutOfReach
  <2> DEFINE seen == report'.seen
             ids == Scoped(rows, seen, op.rec.handoff, page)
             hit == Cardinality(ids) >= limit
  <2>3. PICK top \in ids : Newest(ids, top) /\ report'.r = Report(rows[top], hit)
    BY <1>4, <2>2, LatestFollows
  <2>4. top \in DOMAIN rows /\ rows[top].handoff = op.rec.handoff
    BY <2>1, <2>3 DEF Scoped, Window
  <2>5. report'.r.run = top /\ ~hit
    <3>1. hit \in BOOLEAN
      OBVIOUS
    <3> HIDE DEF hit, ids
    <3>2. Report(rows[top], hit).ready
      BY <2>2, <2>3
    <3>3. Report(rows[top], hit).run = rows[top].run /\ ~hit
      BY <3>1, <3>2, ReadyReport
    <3> QED BY <2>3, <2>4, <3>3 DEF Inv, TypeInv, RowStands
  <2>6. seen \in SUBSET Nat /\ IsFiniteSet(seen)
    BY <2>1, FS_Subset DEF Inv, TypeInv, RowStands
  <2>7. page \in Nat \ {0} /\ limit \in Nat /\ page <= limit
    BY EvidenceAssumption DEF Pages
  <2> SUFFICES ASSUME NEW run \in seen, rows[run].handoff = op.rec.handoff, Later(rows[run], rows[top])
               PROVE  LET before == {r \in seen : r < run}
                      IN /\ Cardinality(before) >= page
                         /\ page < limit \/ \E r \in before : rows[r].handoff # rows[run].handoff
    BY <2>1, <2>4, <2>5 DEF NewerIsOutOfReach, NewerRows
  <2>8. run \notin Window(seen, page)
    BY <2>3 DEF Newest, Scoped
  <2> DEFINE before == {r \in seen : r < run}
  <2>9. Cardinality(before) >= page /\ Window(seen, page) \subseteq before
    BY <2>6, <2>7, <2>8, BeyondThePage
  <2>10. ASSUME page = limit, \A r \in before : rows[r].handoff = rows[run].handoff PROVE FALSE
    <3>1. ids = Window(seen, page)
      BY <2>9, <2>10 DEF Scoped
    <3>2. ~(Cardinality(Window(seen, page)) < page)
      BY <2>6, <2>7, <2>8, WindowIsAll
    <3>3. IsFiniteSet(Window(seen, page))
      BY <2>6, FS_Subset DEF Window
    <3>4. Cardinality(Window(seen, page)) \in Nat
      BY <3>3, FS_CardinalityType
    <3> HIDE DEF ids, before, seen
    <3>5. Cardinality(ids) >= limit
      BY <2>7, <2>10, <3>1, <3>2, <3>4
    <3> QED BY <2>5, <3>5
  <2> HIDE DEF before
  <2>11. page < limit \/ page = limit
    BY <2>7
  <2> QED BY <2>9, <2>10, <2>11 DEF before
<1> QED BY <1>1, <1>2, <1>3, <1>4 DEF Next, vars, Begin, Rewrite, QaValidate, FlowAudit, Archive,
              ArchiveFails, LeaveOut, ArchiveLater, PutRow, PutRival, Settle, CheckFails

\* evaluate_readiness, get_run_ledger: when ready passes over a newer row of the handoff, the
\* page was cut at 1 MB or other handoffs' rows are in it; a page full of its own rows warns.
THEOREM ReadyIsLatest == Spec => []NewerIsOutOfReach
<1>1. ASSUME Init PROVE LatestInv
  <2>1. report = Unasked
    BY <1>1 DEF Init
  <2>2. Unasked.r.ready = FALSE /\ Unasked.seen = {}
    BY DEF Unasked, NoReport
  <2> QED BY <2>1, <2>2 DEF LatestInv, NewerIsOutOfReach
<1>2. Inv /\ LatestInv /\ [Next]_vars => LatestInv'
  BY LatestNext
<1>3. LatestInv => NewerIsOutOfReach
  BY DEF LatestInv
<1> QED BY <1>1, <1>2, <1>3, LedgerStands, PTL DEF Spec

-----------------------------------------------------------------------------
(* The scan of a text, line by line.                                       *)

\* What the fold knows of each set of lines: it takes the last line of the set last.
IsScan(f, g, k) ==
    f = [s \in SUBSET (1 .. k) |->
            IF s = {} THEN NoScan ELSE ScanLine(f[s \ {Max(s)}], g[Max(s)])]

LEMMA MaxIsLast ==
    ASSUME NEW m \in Nat, NEW s \in SUBSET (1 .. m), m \in s
    PROVE  Max(s) = m
<1>1. \E x \in s : \A y \in s : x >= y
  OBVIOUS
<1>2. Max(s) \in s /\ \A y \in s : Max(s) >= y
  BY <1>1 DEF Max
<1>3. Max(s) \in 1 .. m /\ Max(s) >= m
  BY <1>2
<1> HIDE DEF Max
<1> QED BY <1>3

LEMMA ScanExists ==
    ASSUME NEW n \in Nat, NEW g
    PROVE  \E f : IsScan(f, g, n)
<1> DEFINE S == {k \in 0 .. n : ~ \E f : IsScan(f, g, k)}
<1>1. SUFFICES ASSUME S # {} PROVE FALSE
  OBVIOUS
<1>2. PICK m \in S : \A k \in S : m <= k
  <2>1. S \in SUBSET Nat
    OBVIOUS
  <2> HIDE DEF S
  <2> QED BY <1>1, <2>1, LeastNatural
<1>3. m \in Nat /\ m \in 0 .. n /\ ~ \E f : IsScan(f, g, m)
  OBVIOUS
<1>4. CASE m = 0
  <2> DEFINE f == [s \in SUBSET (1 .. 0) |-> NoScan]
  <2>1. \A s \in SUBSET (1 .. 0) : s = {}
    OBVIOUS
  <2>2. IsScan(f, g, 0)
    BY <2>1 DEF IsScan
  <2> QED BY <1>3, <1>4, <2>2
<1>5. CASE m # 0
  <2>1. m - 1 \in 0 .. n /\ m - 1 \notin S
    BY <1>2, <1>3, <1>5
  <2>2. PICK f : IsScan(f, g, m - 1)
    BY <2>1
  <2>3. \A s \in SUBSET (1 .. (m - 1)) :
           f[s] = IF s = {} THEN NoScan ELSE ScanLine(f[s \ {Max(s)}], g[Max(s)])
    BY <2>2 DEF IsScan
  <2> DEFINE h == [s \in SUBSET (1 .. m) |->
                      IF m \in s THEN ScanLine(f[s \ {m}], g[m]) ELSE f[s]]
  <2>4. ASSUME NEW s \in SUBSET (1 .. m)
        PROVE  h[s] = IF s = {} THEN NoScan ELSE ScanLine(h[s \ {Max(s)}], g[Max(s)])
    <3>1. s \ {Max(s)} \in SUBSET (1 .. m)
      OBVIOUS
    <3>2. CASE m \in s
      <4>1. Max(s) = m
        BY <1>3, <3>2, MaxIsLast
      <4>2. h[s \ {m}] = f[s \ {m}]
        BY <3>1, <4>1
      <4>3. h[s] = ScanLine(f[s \ {m}], g[m])
        BY <3>2
      <4> QED BY <3>2, <4>1, <4>2, <4>3
    <3>3. CASE m \notin s
      <4>1. s \in SUBSET (1 .. (m - 1)) /\ m \notin s \ {Max(s)}
        BY <1>3, <3>3
      <4>2. h[s] = f[s] /\ h[s \ {Max(s)}] = f[s \ {Max(s)}]
        BY <3>1, <3>3, <4>1
      <4>3. f[s] = IF s = {} THEN NoScan ELSE ScanLine(f[s \ {Max(s)}], g[Max(s)])
        BY <2>3, <4>1
      <4> HIDE DEF h
      <4> QED BY <4>2, <4>3
    <3> QED BY <3>2, <3>3
  <2>5. h = [s \in SUBSET (1 .. m) |-> h[s]]
    OBVIOUS
  <2> HIDE DEF h
  <2>6. IsScan(h, g, m)
    BY <2>4, <2>5 DEF IsScan
  <2> QED BY <1>3, <2>6
<1> QED BY <1>4, <1>5

\* After each line the state is that of ScanLine on the state before.
LEMMA ScanStep ==
    ASSUME NEW g, NEW n \in Nat, DOMAIN g = 1 .. n
    PROVE  \E h : /\ h[0] = NoScan
                  /\ \A i \in 1 .. n : h[i] = ScanLine(h[i - 1], g[i])
                  /\ FoldLeft(ScanLine, NoScan, g) = h[n]
<1> DEFINE it == CHOOSE f : IsScan(f, g, n)
<1>1. IsScan(it, g, n)
  BY ScanExists
<1>2. FoldLeft(ScanLine, NoScan, g) = it[1 .. n]
  BY DEF FoldLeft, MapThenFoldSet, IsScan
<1> HIDE DEF it
<1> DEFINE h == [k \in 0 .. n |-> it[1 .. k]]
<1>3. h[0] = NoScan
  <2>1. 1 .. 0 = {} /\ 1 .. 0 \in SUBSET (1 .. n)
    OBVIOUS
  <2>2. it[1 .. 0] = NoScan
    BY <1>1, <2>1 DEF IsScan
  <2> QED BY <2>2
<1>4. ASSUME NEW i \in 1 .. n PROVE h[i] = ScanLine(h[i - 1], g[i])
  <2>1. 1 .. i \in SUBSET (1 .. n) /\ 1 .. i # {} /\ i \in 1 .. i
    OBVIOUS
  <2>2. Max(1 .. i) = i
    BY <2>1, MaxIsLast
  <2>3. (1 .. i) \ {i} = 1 .. (i - 1)
    OBVIOUS
  <2>4. it[1 .. i] = ScanLine(it[(1 .. i) \ {Max(1 .. i)}], g[Max(1 .. i)])
    BY <1>1, <2>1 DEF IsScan
  <2>5. h[i] = it[1 .. i] /\ h[i - 1] = it[1 .. (i - 1)]
    OBVIOUS
  <2> HIDE DEF h
  <2> QED BY <2>2, <2>3, <2>4, <2>5
<1>5. h[n] = it[1 .. n]
  OBVIOUS
<1> HIDE DEF h
<1> QED BY <1>2, <1>3, <1>4, <1>5

LEMMA UpTo ==
    ASSUME NEW a \in Nat, NEW b \in Nat, NEW S, a \in S,
           \A k \in a .. (b - 1) : k \in S => k + 1 \in S
    PROVE  a .. b \subseteq S
<1> DEFINE out == (a .. b) \ S
<1>1. SUFFICES ASSUME out # {} PROVE FALSE
  OBVIOUS
<1>2. PICK m \in out : \A k \in out : m <= k
  <2>1. out \in SUBSET Nat
    OBVIOUS
  <2> HIDE DEF out
  <2> QED BY <1>1, <2>1, LeastNatural
<1>3. m \in a .. b /\ m # a /\ m \notin S
  OBVIOUS
<1>4. m - 1 \in a .. (b - 1) /\ m - 1 \notin out
  BY <1>2, <1>3
<1>5. m - 1 \in S
  BY <1>4
<1>6. (m - 1) + 1 \in S
  BY <1>4, <1>5
<1> QED BY <1>3, <1>6

Item == {ParseItem(line) : line \in Line}
Scan == [ac : Nat \cup {-1}, ct : Nat \cup {-1}, crit : BOOLEAN, key : BOOLEAN, items : Nat,
         marks : Nat, entries : Seq(Item), bad : SUBSET {"structure", "parse"}]

Listed(s) == {s.entries[i] : i \in DOMAIN s.entries}

\* Covering tests belong to a criterion.
Framed(s) == s \in Scan /\ (~s.crit => s.ct = -1)

\* Errors and entries stay.
Adds(s, t) == s.bad \subseteq t.bad /\ Listed(s) \subseteq Listed(t)

LEMMA NoScanIsFramed == Framed(NoScan) /\ Listed(NoScan) = {}
<1>1. <<>> \in Seq(Item) /\ DOMAIN <<>> = {}
  OBVIOUS
<1>2. NoScan \in Scan
  BY <1>1 DEF NoScan, Scan
<1> QED BY <1>1, <1>2 DEF Framed, Listed, NoScan

LEMMA FinalizeEnds ==
    ASSUME NEW s, Framed(s)
    PROVE  /\ Framed(Finalize(s)) /\ Adds(s, Finalize(s))
           /\ Finalize(s).ac = s.ac /\ ~Finalize(s).crit /\ Finalize(s).ct = -1
           /\ Finalize(s).entries = s.entries
           /\ s.crit /\ Finalize(s).bad = {} => s.key /\ (s.items # 0 \/ s.marks # 0)
<1>1. Finalize(s) \in Scan
  BY DEF Finalize, Scan, Framed
<1> QED BY <1>1 DEF Finalize, Scan, Framed, Adds, Listed

LEMMA OutsideMoves ==
    ASSUME NEW s, Framed(s), NEW line \in Line, ~s.crit
    PROVE  LET t == OutsideCriterion(s, line)
           IN  Framed(t) /\ Adds(s, t) /\ t.bad = s.bad /\ t.entries = s.entries /\ t.ct = -1
<1> DEFINE t == OutsideCriterion(s, line)
<1>1. CASE s.ac < 0 /\ line.k = "ac"
  <2>1. t = [s EXCEPT !.ac = line.ind]
    BY <1>1 DEF OutsideCriterion, Framed, Scan, Line
  <2> QED BY <2>1 DEF Framed, Scan, Adds, Listed, Line
<1>2. CASE s.ac >= 0 /\ line.ind <= s.ac /\ line.k # "crit"
  <2>1. t = [s EXCEPT !.ac = -1]
    BY <1>2 DEF OutsideCriterion, Framed, Scan, Line
  <2> QED BY <2>1 DEF Framed, Scan, Adds, Listed
<1>3. CASE s.ac >= 0 /\ line.ind = s.ac + 2 /\ line.k = "crit"
  <2>1. t = [s EXCEPT !.crit = TRUE, !.key = FALSE, !.items = 0, !.marks = 0]
    BY <1>3 DEF OutsideCriterion, Framed, Scan, Line
  <2> HIDE DEF t
  <2>2. t \in Scan
    BY <2>1 DEF Framed, Scan
  <2>3. t.crit /\ t.ct = -1 /\ t.bad = s.bad /\ t.entries = s.entries
    BY <2>1 DEF Framed, Scan
  <2> QED BY <2>2, <2>3 DEF Framed, Adds, Listed, t
<1>4. CASE /\ ~(s.ac < 0 /\ line.k = "ac")
           /\ ~(s.ac >= 0 /\ line.ind <= s.ac /\ line.k # "crit")
           /\ ~(s.ac >= 0 /\ line.ind = s.ac + 2 /\ line.k = "crit")
  <2>1. t = s
    BY <1>4 DEF OutsideCriterion
  <2> QED BY <2>1 DEF Framed, Adds
<1> HIDE DEF t
<1> QED BY <1>1, <1>2, <1>3, <1>4 DEF t

LEMMA ListItemAdds ==
    ASSUME NEW s, Framed(s), NEW line \in Line
    PROVE  LET t == ListItem(s, line)
               e == ParseItem(line)
           IN  /\ t \in Scan /\ Adds(s, t)
               /\ t.ac = s.ac /\ t.crit = s.crit /\ t.ct = s.ct /\ t.key = s.key
               /\ ~e.ok => t.bad # {}
               /\ e.ok => t.items = s.items + 1 /\ Listed(t) = Listed(s) \cup {e}
<1> DEFINE e == ParseItem(line)
           t == ListItem(s, line)
           marks == IF line.k \in {"item", "crit"} THEN s.marks + 1 ELSE s.marks
<1>1. e \in Item
  BY DEF Item
<1>2. s \in Scan /\ s.entries \in Seq(Item)
  BY DEF Framed, Scan
<1>6. marks \in Nat
  BY <1>2 DEF Scan
<1>3. CASE e.ok
  <2>1. t = [s EXCEPT !.marks = marks, !.items = s.items + 1, !.entries = Append(s.entries, e)]
    BY <1>2, <1>3 DEF ListItem, Scan
  <2> HIDE DEF t, e, marks
  <2> DEFINE es == s.entries
             more == Append(s.entries, e)
  <2>2. Append(es, e) \in Seq(Item) /\ DOMAIN Append(es, e) = DOMAIN es \cup {Len(es) + 1}
        /\ (\A i \in DOMAIN es : Append(es, e)[i] = es[i]) /\ Append(es, e)[Len(es) + 1] = e
    BY <1>1, <1>2
  <2>3. t.entries = Append(es, e)
    BY <1>2, <2>1 DEF Scan
  <2>7. more \in Seq(Item) /\ t = [s EXCEPT !.marks = marks, !.items = s.items + 1, !.entries = more]
    BY <2>1, <2>2
  <2> HIDE DEF es, more
  <2>4. Listed(t) = Listed(s) \cup {e}
    <3>1. Listed(s) = {es[i] : i \in DOMAIN es}
      BY DEF Listed, es
    <3> QED BY <2>2, <2>3, <3>1 DEF Listed
  <2>5. t \in Scan
    <3>1. t = [ac |-> s.ac, ct |-> s.ct, crit |-> s.crit, key |-> s.key, items |-> s.items + 1,
               marks |-> marks, entries |-> more, bad |-> s.bad]
      BY <1>2, <2>7 DEF Scan
    <3>2. s.items + 1 \in Nat /\ s.ac \in Nat \cup {-1} /\ s.ct \in Nat \cup {-1}
          /\ s.crit \in BOOLEAN /\ s.key \in BOOLEAN /\ s.bad \in SUBSET {"structure", "parse"}
      BY <1>2 DEF Scan
    <3> QED BY <1>6, <2>7, <3>1, <3>2 DEF Scan
  <2>6. /\ t.bad = s.bad /\ t.items = s.items + 1
        /\ t.ac = s.ac /\ t.crit = s.crit /\ t.ct = s.ct /\ t.key = s.key
    BY <1>2, <2>1 DEF Scan
  <2> QED BY <1>3, <2>4, <2>5, <2>6 DEF Adds, t, e
<1>4. CASE ~e.ok
  <2>1. t = [s EXCEPT !.marks = marks, !.bad = s.bad \cup {"parse"}]
    BY <1>2, <1>4 DEF ListItem, Scan
  <2> HIDE DEF t, e, marks
  <2>2. t \in Scan
    BY <1>2, <1>6, <2>1 DEF Scan
  <2>3. /\ t.bad = s.bad \cup {"parse"} /\ t.entries = s.entries
        /\ t.ac = s.ac /\ t.crit = s.crit /\ t.ct = s.ct /\ t.key = s.key
    BY <1>2, <2>1 DEF Scan
  <2> QED BY <1>4, <2>2, <2>3 DEF Adds, Listed, t, e
<1> QED BY <1>3, <1>4

\* The branches of ScanLine.
InList(s, line) == s.crit /\ s.ct >= 0 /\ line.ind > s.ct
Ends(s, line) == line.ind <= s.ac \/ (line.ind = s.ac + 2 /\ line.k = "crit")

LEMMA ScanBranches ==
    ASSUME NEW s, Framed(s), NEW line \in Line
    PROVE  LET t == ScanLine(s, line)
           IN  /\ line.k = "blank" => t = s
               /\ line.k # "blank" /\ ~s.crit => t = OutsideCriterion(s, line)
               /\ line.k # "blank" /\ InList(s, line) => t = ListItem(s, line)
               /\ line.k # "blank" /\ s.crit /\ ~InList(s, line) /\ Ends(s, line) =>
                     t = OutsideCriterion(Finalize(s), line)
               /\ line.k # "blank" /\ s.crit /\ ~InList(s, line) /\ ~Ends(s, line) =>
                     t = IF line.k = "cov"
                         THEN [s EXCEPT !.key = TRUE, !.ct = line.ind, !.marks = 0]
                         ELSE [s EXCEPT !.ct = -1]
BY DEF ScanLine, InList, Ends

LEMMA WithinCriterion ==
    ASSUME NEW s, Framed(s), NEW line \in Line, s.crit
    PROVE  LET t == IF line.k = "cov"
                    THEN [s EXCEPT !.key = TRUE, !.ct = line.ind, !.marks = 0]
                    ELSE [s EXCEPT !.ct = -1]
           IN  /\ Framed(t) /\ t.bad = s.bad /\ t.entries = s.entries /\ t.ac = s.ac /\ t.crit
               /\ t.items = s.items
               /\ line.k = "cov" => t.ct = line.ind /\ t.marks = 0
               /\ line.k # "cov" => t.ct = -1 /\ t.marks = s.marks
<1>1. CASE line.k = "cov"
  BY <1>1 DEF Framed, Scan, Line
<1>2. CASE line.k # "cov"
  BY <1>2 DEF Framed, Scan
<1> QED BY <1>1, <1>2

LEMMA ScanKeeps ==
    ASSUME NEW s, Framed(s), NEW line \in Line
    PROVE  Framed(ScanLine(s, line)) /\ Adds(s, ScanLine(s, line))
<1> DEFINE t == ScanLine(s, line)
<1>1. CASE line.k = "blank"
  <2>1. t = s
    BY <1>1, ScanBranches
  <2> QED BY <2>1 DEF Adds
<1>2. CASE line.k # "blank" /\ ~s.crit
  <2>1. t = OutsideCriterion(s, line)
    BY <1>2, ScanBranches
  <2> QED BY <1>2, <2>1, OutsideMoves
<1>3. CASE line.k # "blank" /\ InList(s, line)
  <2>1. t = ListItem(s, line)
    BY <1>3, ScanBranches
  <2>2. t \in Scan /\ Adds(s, t) /\ t.crit = s.crit
    BY <2>1, ListItemAdds
  <2> QED BY <1>3, <2>2 DEF Framed, InList
<1>4. CASE line.k # "blank" /\ s.crit /\ ~InList(s, line) /\ Ends(s, line)
  <2> DEFINE f == Finalize(s)
  <2>1. t = OutsideCriterion(f, line)
    BY <1>4, ScanBranches
  <2>2. Framed(f) /\ ~f.crit /\ Adds(s, f)
    BY FinalizeEnds
  <2> HIDE DEF f
  <2>3. Framed(t) /\ Adds(f, t)
    BY <2>1, <2>2, OutsideMoves
  <2> QED BY <2>2, <2>3 DEF Adds
<1>5. CASE line.k # "blank" /\ s.crit /\ ~InList(s, line) /\ ~Ends(s, line)
  <2>1. t = IF line.k = "cov"
            THEN [s EXCEPT !.key = TRUE, !.ct = line.ind, !.marks = 0]
            ELSE [s EXCEPT !.ct = -1]
    BY <1>5, ScanBranches
  <2> HIDE DEF t
  <2>2. Framed(t) /\ t.bad = s.bad /\ t.entries = s.entries
    BY <1>5, <2>1, WithinCriterion
  <2> QED BY <2>2 DEF Adds, Listed, t
<1> QED BY <1>1, <1>2, <1>3, <1>4, <1>5

-----------------------------------------------------------------------------
(* The lines of a block of acceptance_criteria that is indented by a.      *)

Within(line, a) == line.k = "blank" \/ line.ind > a
Marks(line, a) == line.k = "crit" /\ line.ind = a + 2

LEMMA BeforeCriteria ==
    ASSUME NEW line \in Line
    PROVE  ScanLine(NoScan, line) = IF line.k = "ac" THEN [NoScan EXCEPT !.ac = line.ind] ELSE NoScan
BY DEF ScanLine, OutsideCriterion, NoScan, Line

\* No line within the block leaves it.
LEMMA WithinStays ==
    ASSUME NEW s, Framed(s), NEW line \in Line, NEW a \in Nat, s.ac = a, Within(line, a)
    PROVE  ScanLine(s, line).ac = a
<1> DEFINE t == ScanLine(s, line)
<1>1. CASE line.k = "blank"
  <2>1. t = s
    BY <1>1, ScanBranches
  <2> QED BY <2>1
<1>0. ASSUME NEW r, Framed(r), r.ac = a, line.k # "blank"
      PROVE  OutsideCriterion(r, line).ac = a
  <2>1. line.ind > a /\ line.ind \in Nat
    BY <1>0 DEF Within, Line
  <2>2. CASE line.ind = a + 2 /\ line.k = "crit"
    <3>1. OutsideCriterion(r, line) = [r EXCEPT !.crit = TRUE, !.key = FALSE, !.items = 0, !.marks = 0]
      BY <1>0, <2>1, <2>2 DEF OutsideCriterion
    <3> QED BY <1>0, <3>1 DEF Framed, Scan
  <2>3. CASE ~(line.ind = a + 2 /\ line.k = "crit")
    <3>1. OutsideCriterion(r, line) = r
      BY <1>0, <2>1, <2>3 DEF OutsideCriterion
    <3> QED BY <1>0, <3>1
  <2> QED BY <2>2, <2>3
<1>2. CASE line.k # "blank" /\ ~s.crit
  <2>1. t = OutsideCriterion(s, line)
    BY <1>2, ScanBranches
  <2> QED BY <1>0, <1>2, <2>1
<1>3. CASE line.k # "blank" /\ InList(s, line)
  <2>1. t = ListItem(s, line)
    BY <1>3, ScanBranches
  <2> QED BY <2>1, ListItemAdds
<1>4. CASE line.k # "blank" /\ s.crit /\ ~InList(s, line) /\ Ends(s, line)
  <2>1. t = OutsideCriterion(Finalize(s), line)
    BY <1>4, ScanBranches
  <2>2. Framed(Finalize(s)) /\ Finalize(s).ac = a
    BY FinalizeEnds
  <2> QED BY <1>0, <1>4, <2>1, <2>2
<1>5. CASE line.k # "blank" /\ s.crit /\ ~InList(s, line) /\ ~Ends(s, line)
  <2>1. t = IF line.k = "cov"
            THEN [s EXCEPT !.key = TRUE, !.ct = line.ind, !.marks = 0]
            ELSE [s EXCEPT !.ct = -1]
    BY <1>5, ScanBranches
  <2> HIDE DEF t
  <2>2. t.ac = s.ac
    BY <1>5, <2>1, WithinCriterion
  <2> QED BY <2>2 DEF t
<1> QED BY <1>1, <1>2, <1>3, <1>4, <1>5

\* A line that begins a criterion begins it with nothing to its credit, or is an error.
LEMMA MarkOpens ==
    ASSUME NEW s, Framed(s), NEW line \in Line, NEW a \in Nat, s.ac = a, Marks(line, a),
           ScanLine(s, line).bad = {}
    PROVE  LET t == ScanLine(s, line)
           IN  t.crit /\ t.ct = -1 /\ t.items = 0 /\ t.marks = 0
<1> DEFINE t == ScanLine(s, line)
<1>1. line.k = "crit" /\ line.ind = a + 2 /\ Ends(s, line)
  BY DEF Marks, Ends
<1>2. ASSUME NEW r, Framed(r), r.ac = a, ~r.crit, t = OutsideCriterion(r, line)
      PROVE  t.crit /\ t.ct = -1 /\ t.items = 0 /\ t.marks = 0
  <2>1. t = [r EXCEPT !.crit = TRUE, !.key = FALSE, !.items = 0, !.marks = 0]
    BY <1>1, <1>2 DEF OutsideCriterion
  <2> QED BY <1>2, <2>1 DEF Framed, Scan
<1>3. CASE ~s.crit
  <2>1. t = OutsideCriterion(s, line)
    BY <1>1, <1>3, ScanBranches
  <2> QED BY <1>2, <1>3, <2>1
<1>4. CASE InList(s, line)
  <2>1. t = ListItem(s, line)
    BY <1>1, <1>4, ScanBranches
  <2>2. ~ParseItem(line).ok
    BY <1>1 DEF ParseItem
  <2> QED BY <2>1, <2>2, ListItemAdds
<1>5. CASE s.crit /\ ~InList(s, line)
  <2>1. t = OutsideCriterion(Finalize(s), line)
    BY <1>1, <1>5, ScanBranches
  <2> QED BY <1>2, <2>1, FinalizeEnds
<1> QED BY <1>3, <1>4, <1>5

\* What ends a criterion is an error, unless something was listed.
LEMMA EndIsEarned ==
    ASSUME NEW s, Framed(s), NEW line \in Line, NEW a \in Nat, s.ac = a, s.crit,
           s.ct >= 0 => s.ct > a, ~Within(line, a) \/ Marks(line, a), ScanLine(s, line).bad = {}
    PROVE  s.items # 0 \/ s.marks # 0
<1> DEFINE t == ScanLine(s, line)
<1>1. line.k # "blank" /\ line.ind \in Nat /\ Ends(s, line)
  BY DEF Within, Marks, Ends, Line
<1>2. CASE InList(s, line)
  <2>1. t = ListItem(s, line)
    BY <1>1, <1>2, ScanBranches
  <2>2. Marks(line, a)
    BY <1>1, <1>2 DEF InList, Within, Framed, Scan
  <2>3. ~ParseItem(line).ok
    BY <2>2 DEF ParseItem, Marks
  <2> QED BY <2>1, <2>3, ListItemAdds
<1>3. CASE ~InList(s, line)
  <2> DEFINE f == Finalize(s)
  <2>1. t = OutsideCriterion(f, line)
    BY <1>1, <1>3, ScanBranches
  <2>2. Framed(f) /\ ~f.crit
    BY FinalizeEnds
  <2>3. t.bad = f.bad
    BY <2>1, <2>2, OutsideMoves
  <2> QED BY <2>3, FinalizeEnds
<1> QED BY <1>2, <1>3

\* What a line between two beginnings does.
LEMMA WithinSteps ==
    ASSUME NEW s, Framed(s), NEW line \in Line, NEW a \in Nat, s.ac = a, s.crit,
           Within(line, a), ~Marks(line, a), ScanLine(s, line).bad = {}
    PROVE  LET t == ScanLine(s, line)
               e == ParseItem(line)
           IN  /\ t.crit /\ t.ac = a
               /\ \/ t = s /\ line.k = "blank"
                  \/ t.ct = -1 /\ t.items = s.items /\ t.marks = s.marks /\ Listed(t) = Listed(s)
                  \/ /\ line.k = "cov" /\ line.ind > a /\ t.ct = line.ind
                     /\ t.items = s.items /\ t.marks = 0 /\ Listed(t) = Listed(s)
                  \/ /\ s.ct >= 0 /\ line.ind > s.ct /\ e.ok /\ t.ct = s.ct
                     /\ t.items = s.items + 1 /\ Listed(t) = Listed(s) \cup {e}
<1> DEFINE t == ScanLine(s, line)
<1>1. t.ac = a
  BY WithinStays
<1>2. CASE line.k = "blank"
  <2>1. t = s
    BY <1>2, ScanBranches
  <2> QED BY <1>1, <1>2, <2>1
<1>3. CASE line.k # "blank" /\ InList(s, line)
  <2>1. t = ListItem(s, line)
    BY <1>3, ScanBranches
  <2> HIDE DEF t
  <2>2. /\ ParseItem(line).ok => t.items = s.items + 1 /\ Listed(t) = Listed(s) \cup {ParseItem(line)}
        /\ ~ParseItem(line).ok => t.bad # {}
        /\ t.crit = s.crit /\ t.ct = s.ct
    BY <2>1, ListItemAdds
  <2>3. t.bad = {}
    BY DEF t
  <2> QED BY <1>1, <1>3, <2>2, <2>3 DEF InList, t
<1>4. CASE line.k # "blank" /\ ~InList(s, line)
  <2>1. ~Ends(s, line) /\ line.ind > a
    BY <1>4 DEF Ends, Within, Marks, Line
  <2>2. t = IF line.k = "cov"
            THEN [s EXCEPT !.key = TRUE, !.ct = line.ind, !.marks = 0]
            ELSE [s EXCEPT !.ct = -1]
    BY <1>4, <2>1, ScanBranches
  <2> HIDE DEF t
  <2>3. /\ t.entries = s.entries /\ t.crit /\ t.items = s.items
        /\ line.k = "cov" => t.ct = line.ind /\ t.marks = 0
        /\ line.k # "cov" => t.ct = -1 /\ t.marks = s.marks
    BY <2>2, WithinCriterion
  <2>4. Listed(t) = Listed(s)
    BY <2>3 DEF Listed
  <2> QED BY <1>1, <2>1, <2>3, <2>4 DEF t
<1> QED BY <1>2, <1>3, <1>4

-----------------------------------------------------------------------------
(* The text.                                                               *)

LEMMA FirstIs ==
    ASSUME NEW p \in Seq(Line), NEW kinds
    PROVE  /\ First(p, kinds) \in 0 .. Len(p)
           /\ First(p, kinds) # 0 => p[First(p, kinds)].k \in kinds
           /\ \A j \in 1 .. Len(p) : p[j].k \in kinds =>
                 First(p, kinds) # 0 /\ First(p, kinds) <= j
<1> DEFINE at == {i \in DOMAIN p : p[i].k \in kinds}
           Least(i) == i \in at /\ \A j \in at : i <= j
<1>1. DOMAIN p = 1 .. Len(p) /\ Len(p) \in Nat
  OBVIOUS
<1>2. CASE at = {}
  BY <1>1, <1>2 DEF First
<1>3. CASE at # {}
  <2>1. at \in SUBSET Nat
    BY <1>1
  <2>2. \E i \in at : \A j \in at : i <= j
    <3> HIDE DEF at
    <3> QED BY <1>3, <2>1, LeastNatural
  <2>3. First(p, kinds) = CHOOSE i \in at : \A j \in at : i <= j
    BY <1>3 DEF First
  <2>4. Least(First(p, kinds))
    BY <2>2, <2>3
  <2> QED BY <1>1, <2>4
<1> QED BY <1>2, <1>3

LEMMA RegionType ==
    ASSUME NEW p \in Seq(Line)
    PROVE  GateRegion(p) \in Seq(Line)
<1> DEFINE start == First(p, {"start"})
           tail == IF start = 0 THEN <<>> ELSE SubSeq(p, start, Len(p))
           end == First(tail, {"end"})
<1>1. start \in 0 .. Len(p) /\ Len(p) \in Nat
  BY FirstIs
<1>2. tail \in Seq(Line)
  <2> HIDE DEF start
  <2>1. CASE start = 0
    BY <2>1
  <2>2. CASE start # 0
    BY <1>1, <2>2, SubSeqProperties
  <2> QED BY <2>1, <2>2
<1> HIDE DEF tail, start
<1>3. end \in 0 .. Len(tail) /\ Len(tail) \in Nat
  BY <1>2, FirstIs
<1> HIDE DEF end
<1>4. \A i \in 1 .. end : i \in 1 .. Len(tail)
  BY <1>3
<1>5. SubSeq(tail, 1, end) \in Seq(Line)
  BY <1>2, <1>3, <1>4, SubSeqProperties
<1> QED BY <1>5 DEF GateRegion, tail, start, end

\* A scan: the states before, between and after the lines.
Scans(h, g) ==
    /\ h[0] = NoScan
    /\ \A i \in 1 .. Len(g) : h[i] = ScanLine(h[i - 1], g[i])

LEMMA ScanIsFramed ==
    ASSUME NEW g \in Seq(Line), NEW h, Scans(h, g)
    PROVE  /\ \A k \in 0 .. Len(g) : Framed(h[k])
           /\ \A k \in 0 .. Len(g) : Adds(h[k], h[Len(g)])
<1> DEFINE n == Len(g)
           S == {k \in 0 .. n : Framed(h[k])}
<1>1. n \in Nat /\ \A i \in 1 .. n : g[i] \in Line
  OBVIOUS
<1> HIDE DEF n
<1>2. \A i \in 1 .. n : h[i] = ScanLine(h[i - 1], g[i])
  BY DEF Scans, n
<1>3. 0 \in S
  BY <1>1, NoScanIsFramed DEF Scans
<1>4. ASSUME NEW k \in 0 .. (n - 1), k \in S PROVE k + 1 \in S
  <2>1. k + 1 \in 1 .. n /\ (k + 1) - 1 = k
    BY <1>1
  <2>2. h[k + 1] = ScanLine(h[k], g[k + 1])
    BY <1>2, <2>1
  <2>3. Framed(h[k + 1])
    BY <1>1, <1>4, <2>1, <2>2, ScanKeeps
  <2> QED BY <1>1, <2>1, <2>3
<1>5. 0 .. n \subseteq S
  <2> HIDE DEF S
  <2> QED BY <1>1, <1>3, <1>4, UpTo
<1>6. ASSUME NEW k \in 0 .. n PROVE Adds(h[k], h[n])
  <2> DEFINE T == {j \in k .. n : Adds(h[k], h[j])}
  <2>1. k \in T
    BY <1>1 DEF Adds
  <2>2. ASSUME NEW j \in k .. (n - 1), j \in T PROVE j + 1 \in T
    <3>1. j + 1 \in 1 .. n /\ (j + 1) - 1 = j /\ j \in 0 .. n /\ j + 1 \in k .. n
      BY <1>1
    <3>2. h[j + 1] = ScanLine(h[j], g[j + 1])
      BY <1>2, <3>1
    <3>3. Adds(h[j], h[j + 1])
      BY <1>1, <1>5, <3>1, <3>2, ScanKeeps
    <3>4. Adds(h[k], h[j])
      BY <2>2
    <3>5. Adds(h[k], h[j + 1])
      BY <3>3, <3>4 DEF Adds
    <3> QED BY <3>1, <3>5
  <2>3. k .. n \subseteq T
    <3>1. k \in Nat
      BY <1>1
    <3> HIDE DEF T
    <3> QED BY <1>1, <2>1, <2>2, <3>1, UpTo
  <2>4. n \in k .. n
    BY <1>1
  <2> QED BY <2>3, <2>4
<1> QED BY <1>5, <1>6 DEF n

\* In a block that begins at line ac, a line i that begins a criterion, and what follows it
\* to line k without leaving the block or beginning another one.
Block(g, ac, i, k) ==
    /\ \A x \in (ac + 1) .. k : Within(g[x], g[ac].ind)
    /\ Marks(g[i], g[ac].ind)
    /\ \A x \in (i + 1) .. k : ~Marks(g[x], g[ac].ind)

\* Some line up to k of the criterion lists an entry under covering_tests.
Credit(g, i, k, entries) ==
    \E c \in (i + 1) .. k, j \in (i + 2) .. k :
        /\ c < j /\ g[c].k = "cov"
        /\ \A x \in (c + 1) .. j : Within(g[x], g[c].ind)
        /\ ParseItem(g[j]).ok /\ ParseItem(g[j]) \in entries

KeyOver(g, i, k, ct) ==
    \E c \in (i + 1) .. k : /\ g[c].k = "cov" /\ g[c].ind = ct
                            /\ \A x \in (c + 1) .. k : Within(g[x], ct)

\* The state of the scan after line k of the criterion that line i begins.
Counts(g, a, i, k, s) ==
    /\ s.ac = a /\ s.crit
    /\ s.ct >= 0 => s.ct > a /\ KeyOver(g, i, k, s.ct)
    /\ s.marks # 0 => s.items # 0
    /\ s.items # 0 => Credit(g, i, k, Listed(s))

LEMMA CountsNext ==
    ASSUME NEW g \in Seq(Line), NEW s, Framed(s), NEW a \in Nat,
           NEW i \in 1 .. Len(g), NEW k \in i .. (Len(g) - 1), Counts(g, a, i, k, s),
           Within(g[k + 1], a), ~Marks(g[k + 1], a), ScanLine(s, g[k + 1]).bad = {}
    PROVE  Counts(g, a, i, k + 1, ScanLine(s, g[k + 1]))
<1> DEFINE line == g[k + 1]
           t == ScanLine(s, line)
           e == ParseItem(line)
<1>1. k \in Nat /\ i \in Nat /\ i <= k /\ k + 1 \in 1 .. Len(g) /\ Len(g) \in Nat
  OBVIOUS
<1>2. line \in Line /\ line.ind \in Nat
  <2>1. line \in Line
    BY <1>1
  <2> HIDE DEF line
  <2> QED BY <2>1 DEF Line
<1>3. /\ t.crit /\ t.ac = a
      /\ \/ t = s /\ line.k = "blank"
         \/ t.ct = -1 /\ t.items = s.items /\ t.marks = s.marks /\ Listed(t) = Listed(s)
         \/ /\ line.k = "cov" /\ line.ind > a /\ t.ct = line.ind
            /\ t.items = s.items /\ t.marks = 0 /\ Listed(t) = Listed(s)
         \/ /\ s.ct >= 0 /\ line.ind > s.ct /\ e.ok /\ t.ct = s.ct
            /\ t.items = s.items + 1 /\ Listed(t) = Listed(s) \cup {e}
  BY <1>2, WithinSteps DEF Counts
<1>4. s.items \in Nat /\ s.marks \in Nat
  BY DEF Framed, Scan
<1> HIDE DEF t
<1>5. ASSUME NEW E, NEW F, E \subseteq F, Credit(g, i, k, E) PROVE Credit(g, i, k + 1, F)
  <2>1. PICK c \in (i + 1) .. k, j \in (i + 2) .. k :
           /\ c < j /\ g[c].k = "cov"
           /\ \A x \in (c + 1) .. j : Within(g[x], g[c].ind)
           /\ ParseItem(g[j]).ok /\ ParseItem(g[j]) \in E
    BY <1>5 DEF Credit
  <2>2. c \in (i + 1) .. (k + 1) /\ j \in (i + 2) .. (k + 1)
    BY <1>1
  <2> QED BY <1>5, <2>1, <2>2 DEF Credit
<1>6. ASSUME NEW ct, KeyOver(g, i, k, ct), Within(line, ct) PROVE KeyOver(g, i, k + 1, ct)
  <2>1. PICK c \in (i + 1) .. k : /\ g[c].k = "cov" /\ g[c].ind = ct
                                 /\ \A x \in (c + 1) .. k : Within(g[x], ct)
    BY <1>6 DEF KeyOver
  <2>2. c \in (i + 1) .. (k + 1) /\ \A x \in (c + 1) .. (k + 1) : x \in (c + 1) .. k \/ x = k + 1
    BY <1>1
  <2> QED BY <1>6, <2>1, <2>2 DEF KeyOver
<1>7. CASE t = s /\ line.k = "blank"
  <2>1. s.ct >= 0 => s.ct > a /\ KeyOver(g, i, k + 1, s.ct)
    BY <1>6, <1>7 DEF Counts, Within
  <2>2. s.items # 0 => Credit(g, i, k + 1, Listed(s))
    BY <1>5 DEF Counts
  <2>3. s.marks # 0 => s.items # 0
    BY DEF Counts
  <2> QED BY <1>3, <1>7, <2>1, <2>2, <2>3 DEF Counts, t
<1>8. CASE t.ct = -1 /\ t.items = s.items /\ t.marks = s.marks /\ Listed(t) = Listed(s)
  <2>1. t.items # 0 => Credit(g, i, k + 1, Listed(t))
    BY <1>5, <1>8 DEF Counts
  <2>2. t.marks # 0 => t.items # 0
    BY <1>8 DEF Counts
  <2>3. ~(t.ct >= 0)
    BY <1>8
  <2> QED BY <1>3, <2>1, <2>2, <2>3 DEF Counts, t
<1>9. CASE /\ line.k = "cov" /\ line.ind > a /\ t.ct = line.ind
           /\ t.items = s.items /\ t.marks = 0 /\ Listed(t) = Listed(s)
  <2>1. t.items # 0 => Credit(g, i, k + 1, Listed(t))
    BY <1>5, <1>9 DEF Counts
  <2>2. KeyOver(g, i, k + 1, t.ct)
    <3>1. k + 1 \in (i + 1) .. (k + 1) /\ (k + 1 + 1) .. (k + 1) = {}
      BY <1>1
    <3> QED BY <1>9, <3>1 DEF KeyOver
  <2> QED BY <1>3, <1>9, <2>1, <2>2 DEF Counts, t
<1>10. CASE /\ s.ct >= 0 /\ line.ind > s.ct /\ e.ok /\ t.ct = s.ct
            /\ t.items = s.items + 1 /\ Listed(t) = Listed(s) \cup {e}
  <2>1. s.ct > a /\ KeyOver(g, i, k, s.ct) /\ Within(line, s.ct)
    BY <1>10 DEF Counts, Within
  <2>2. t.ct > a /\ KeyOver(g, i, k + 1, t.ct)
    BY <1>6, <1>10, <2>1
  <2>3. PICK c \in (i + 1) .. k : /\ g[c].k = "cov" /\ g[c].ind = s.ct
                                 /\ \A x \in (c + 1) .. k : Within(g[x], s.ct)
    BY <2>1 DEF KeyOver
  <2>4. /\ c \in (i + 1) .. (k + 1) /\ k + 1 \in (i + 2) .. (k + 1) /\ c < k + 1
        /\ \A x \in (c + 1) .. (k + 1) : x \in (c + 1) .. k \/ x = k + 1
    BY <1>1
  <2>5. \A x \in (c + 1) .. (k + 1) : Within(g[x], g[c].ind)
    BY <2>1, <2>3, <2>4
  <2>6. ParseItem(g[k + 1]).ok /\ ParseItem(g[k + 1]) \in Listed(t)
    BY <1>10
  <2>7. Credit(g, i, k + 1, Listed(t))
    BY <2>3, <2>4, <2>5, <2>6 DEF Credit
  <2>8. t.items # 0
    BY <1>4, <1>10
  <2> QED BY <1>3, <2>2, <2>7, <2>8 DEF Counts, t
<1> QED BY <1>3, <1>7, <1>8, <1>9, <1>10

\* Where a criterion ends, or the text does, something was listed to its credit.
LEMMA CriterionIsCredited ==
    ASSUME NEW g \in Seq(Line), NEW h, Scans(h, g), NEW ac \in 1 .. Len(g), NEW i \in (ac + 1) .. Len(g),
           ac = First(g, {"ac"}), Block(g, ac, i, i), Finalize(h[Len(g)]).bad = {}
    PROVE  \E k \in i .. Len(g) : /\ Block(g, ac, i, k)
                                 /\ Credit(g, i, k, Listed(h[Len(g)]))
<1> DEFINE n == Len(g)
           a == g[ac].ind
<1>1. n \in Nat /\ ac \in Nat /\ i \in Nat /\ ac < i /\ 1 <= ac /\ i <= n
  OBVIOUS
<1>2. \A x \in 1 .. n : g[x] \in Line
  OBVIOUS
<1>3. a \in Nat /\ g[ac].k = "ac" /\ \A x \in 1 .. (ac - 1) : g[x].k # "ac"
  <2>1. g[ac] \in Line /\ g[ac].k \in {"ac"}
    BY <1>1, <1>2, FirstIs
  <2>2. ASSUME NEW x \in 1 .. (ac - 1), g[x].k = "ac" PROVE FALSE
    <3>1. ac <= x
      BY <1>1, <2>2, FirstIs
    <3> QED BY <1>1, <3>1
  <2> HIDE DEF a
  <2> QED BY <2>1, <2>2 DEF Line, a
<1>4. /\ h[0] = NoScan
      /\ \A x \in 1 .. n : h[x] = ScanLine(h[x - 1], g[x])
  BY DEF Scans
<1>5. /\ \A k \in 0 .. n : Framed(h[k])
      /\ \A k \in 0 .. n : Adds(h[k], h[n])
  BY ScanIsFramed
<1>6. \A k \in 0 .. n : h[k].bad = {}
  <2>1. n \in 0 .. n
    BY <1>1
  <2>2. Adds(h[n], Finalize(h[n]))
    BY <1>5, <2>1, FinalizeEnds
  <2> QED BY <1>5, <2>2 DEF Adds
<1> HIDE DEF n, a
<1>7. h[ac - 1] = NoScan
  <2> DEFINE S == {k \in 0 .. (ac - 1) : h[k] = NoScan}
  <2>1. 0 \in S
    BY <1>1, <1>4
  <2>2. ASSUME NEW k \in 0 .. ((ac - 1) - 1), k \in S PROVE k + 1 \in S
    <3>1. k + 1 \in 1 .. (ac - 1) /\ k + 1 \in 1 .. n /\ (k + 1) - 1 = k
      BY <1>1
    <3>2. h[k + 1] = ScanLine(NoScan, g[k + 1])
      BY <1>4, <2>2, <3>1
    <3>3. g[k + 1] \in Line /\ g[k + 1].k # "ac"
      BY <1>2, <1>3, <3>1
    <3>4. h[k + 1] = NoScan
      BY <3>2, <3>3, BeforeCriteria
    <3> QED BY <1>1, <3>1, <3>4
  <2>3. 0 .. (ac - 1) \subseteq S
    <3>1. ac - 1 \in Nat
      BY <1>1
    <3> HIDE DEF S
    <3> QED BY <2>1, <2>2, <3>1, UpTo
  <2> QED BY <1>1, <2>3
<1>8. h[ac].ac = a
  <2>1. ac \in 1 .. n
    BY <1>1
  <2>2. h[ac] = ScanLine(NoScan, g[ac])
    BY <1>4, <1>7, <2>1
  <2>3. h[ac] = [NoScan EXCEPT !.ac = a]
    BY <1>2, <1>3, <2>1, <2>2, BeforeCriteria DEF a
  <2> QED BY <2>3 DEF NoScan
<1>9. h[i - 1].ac = a
  <2> DEFINE S == {k \in ac .. (i - 1) : h[k].ac = a}
  <2>1. ac \in S
    BY <1>1, <1>8
  <2>2. ASSUME NEW k \in ac .. ((i - 1) - 1), k \in S PROVE k + 1 \in S
    <3>1. /\ k + 1 \in 1 .. n /\ (k + 1) - 1 = k /\ k \in 0 .. n
          /\ k + 1 \in (ac + 1) .. i /\ k + 1 \in ac .. (i - 1)
      BY <1>1
    <3>2. h[k + 1] = ScanLine(h[k], g[k + 1]) /\ h[k].ac = a
      BY <1>4, <2>2, <3>1
    <3>3. g[k + 1] \in Line /\ Within(g[k + 1], a)
      BY <1>2, <3>1 DEF Block, a
    <3>4. h[k + 1].ac = a
      BY <1>3, <1>5, <3>1, <3>2, <3>3, WithinStays
    <3> QED BY <3>1, <3>4
  <2>3. ac .. (i - 1) \subseteq S
    <3> DEFINE last == i - 1
    <3>1. ac \in Nat /\ last \in Nat
      BY <1>1
    <3>2. \A k \in ac .. (last - 1) : k \in S => k + 1 \in S
      BY <2>2
    <3> HIDE DEF S, last
    <3>3. ac .. last \subseteq S
      BY <2>1, <3>1, <3>2, UpTo
    <3> QED BY <3>3 DEF last
  <2> QED BY <1>1, <2>3
<1>10. Counts(g, a, i, i, h[i])
  <2>1. i \in 1 .. n /\ i - 1 \in 0 .. n /\ i \in 0 .. n /\ i \in (ac + 1) .. i
    BY <1>1
  <2>2. h[i] = ScanLine(h[i - 1], g[i]) /\ Framed(h[i - 1]) /\ h[i].bad = {}
    BY <1>4, <1>5, <1>6, <2>1
  <2>3. g[i] \in Line /\ Marks(g[i], a) /\ Within(g[i], a)
    BY <1>2, <2>1 DEF Block, a
  <2>4. h[i].crit /\ h[i].ct = -1 /\ h[i].items = 0 /\ h[i].marks = 0
    BY <1>3, <1>9, <2>2, <2>3, MarkOpens
  <2>5. h[i].ac = a
    BY <1>3, <1>9, <2>2, <2>3, WithinStays
  <2> QED BY <2>4, <2>5 DEF Counts
<1> DEFINE Leaves(x) == ~Within(g[x], a) \/ Marks(g[x], a)
           out == {x \in (i + 1) .. n : Leaves(x)} \cup {n + 1}
<1>11. PICK m \in out : \A x \in out : m <= x
  <2>1. out \in SUBSET Nat /\ out # {}
    BY <1>1
  <2> HIDE DEF out
  <2> QED BY <2>1, LeastNatural
<1>12. m \in (i + 1) .. (n + 1) /\ \A x \in (i + 1) .. (m - 1) : ~Leaves(x)
  <2>1. m \in (i + 1) .. (n + 1)
    BY <1>1
  <2>2. ASSUME NEW x \in (i + 1) .. (m - 1) PROVE ~Leaves(x)
    <3>1. x \in (i + 1) .. n /\ ~(m <= x)
      BY <1>1, <2>1
    <3> QED BY <1>11, <3>1
  <2> QED BY <2>1, <2>2
<1> DEFINE e == m - 1
<1>13. e \in i .. n /\ e \in Nat /\ e + 1 = m
  BY <1>1, <1>12
<1> HIDE DEF e
<1>14. Counts(g, a, i, e, h[e])
  <2> DEFINE S == {k \in i .. e : Counts(g, a, i, k, h[k])}
  <2>1. i \in S
    BY <1>1, <1>10, <1>13
  <2>2. ASSUME NEW k \in i .. (e - 1), k \in S PROVE k + 1 \in S
    <3>1. /\ k + 1 \in 1 .. n /\ (k + 1) - 1 = k /\ k \in 0 .. n /\ k \in i .. (n - 1)
          /\ k + 1 \in (i + 1) .. (m - 1) /\ k + 1 \in i .. e /\ k + 1 \in 0 .. n /\ i \in 1 .. n
      BY <1>1, <1>13
    <3>2. h[k + 1] = ScanLine(h[k], g[k + 1]) /\ Framed(h[k]) /\ h[k + 1].bad = {}
      BY <1>4, <1>5, <1>6, <3>1
    <3>3. Within(g[k + 1], a) /\ ~Marks(g[k + 1], a)
      BY <1>12, <3>1
    <3>4. Counts(g, a, i, k, h[k])
      BY <2>2
    <3>5. Counts(g, a, i, k + 1, h[k + 1])
      BY <1>3, <3>1, <3>2, <3>3, <3>4, CountsNext DEF n
    <3> QED BY <3>1, <3>5
  <2>3. i .. e \subseteq S
    <3> HIDE DEF S
    <3> QED BY <1>1, <1>13, <2>1, <2>2, UpTo
  <2> QED BY <1>1, <1>13, <2>3
<1>15. h[e].items # 0 \/ h[e].marks # 0
  <2>1. e \in 0 .. n /\ Framed(h[e]) /\ h[e].crit /\ h[e].ac = a /\ (h[e].ct >= 0 => h[e].ct > a)
    BY <1>1, <1>5, <1>13, <1>14 DEF Counts
  <2>2. CASE m = n + 1
    <3>1. e = n
      BY <1>1, <1>13, <2>2
    <3>2. Finalize(h[e]).bad = {}
      BY <3>1 DEF n
    <3> QED BY <2>1, <3>2, FinalizeEnds
  <2>3. CASE m # n + 1
    <3>1. m \in 1 .. n /\ m \in 0 .. n /\ m - 1 = e /\ Leaves(m)
      BY <1>1, <1>12, <1>13, <2>3
    <3>2. h[m] = ScanLine(h[e], g[m]) /\ h[m].bad = {} /\ g[m] \in Line
      BY <1>2, <1>4, <1>6, <3>1
    <3> QED BY <1>3, <2>1, <3>1, <3>2, EndIsEarned
  <2> QED BY <2>2, <2>3
<1>16. Credit(g, i, e, Listed(h[n]))
  <2>1. Credit(g, i, e, Listed(h[e]))
    BY <1>14, <1>15 DEF Counts
  <2>2. Listed(h[e]) \subseteq Listed(h[n])
    BY <1>1, <1>5, <1>13 DEF Adds
  <2> QED BY <2>1, <2>2 DEF Credit
<1>17. Block(g, ac, i, e)
  <2>1. ASSUME NEW x \in (ac + 1) .. e PROVE Within(g[x], a)
    <3>1. x \in (ac + 1) .. i \/ x \in (i + 1) .. (m - 1)
      BY <1>1, <1>13
    <3> QED BY <1>12, <3>1 DEF Block, a
  <2>2. \A x \in (i + 1) .. e : ~Marks(g[x], a)
    BY <1>12, <1>13
  <2> QED BY <2>1, <2>2 DEF Block, a
<1> QED BY <1>13, <1>16, <1>17 DEF n

\* The same of the region that the scanner searches, as the scanner understands it.
RegionCovered(text) ==
    LET g == GateRegion(text)
        ac == First(g, {"ac"})
        Holds(e) == IF e.kind = "pytest" THEN e.text \in Tests ELSE e.text # ""
    IN \A i \in DOMAIN g :
            i > ac /\ Marks(g[i], g[ac].ind) /\ (\A x \in (ac + 1) .. i : Within(g[x], g[ac].ind)) =>
                \E c \in (i + 1) .. Len(g), j \in (i + 2) .. Len(g) :
                    /\ c < j /\ g[c].k = "cov"
                    /\ \A x \in (i + 1) .. j : Within(g[x], g[ac].ind) /\ ~Marks(g[x], g[ac].ind)
                    /\ \A x \in (c + 1) .. j : Within(g[x], g[c].ind)
                    /\ ParseItem(g[j]).ok /\ Holds(ParseItem(g[j]))

LEMMA CleanIsCovered ==
    ASSUME NEW p \in Seq(Line), QaErrors(p, Tests) = {}
    PROVE  RegionCovered(p)
<1> DEFINE g == GateRegion(p)
           ac == First(g, {"ac"})
           scan == ScanCriteria(p)
           entries == {scan.entries[x] : x \in DOMAIN scan.entries}
           Unproved(e) == IF e.kind = "pytest" THEN e.text \notin Tests ELSE e.text = ""
<1>1. /\ scan.bad = {}
      /\ ~ \E e \in entries : Unproved(e)
      /\ ~(entries = {} /\ scan.bad = {} /\ g # <<>>)
  <2>1. scan.bad \subseteq QaErrors(p, Tests)
    BY DEF QaErrors
  <2>2. {x \in {"evidence"} : \E e \in entries : Unproved(e)} \subseteq QaErrors(p, Tests)
    BY DEF QaErrors
  <2>3. {x \in {"no entries"} : entries = {} /\ scan.bad = {} /\ g # <<>>} \subseteq QaErrors(p, Tests)
    BY DEF QaErrors
  <2> HIDE DEF scan, entries, g, Unproved
  <2> QED BY <2>1, <2>2, <2>3
<1>2. g \in Seq(Line)
  BY RegionType
<1> HIDE DEF g
<1>3. DOMAIN g = 1 .. Len(g) /\ Len(g) \in Nat /\ \A x \in 1 .. Len(g) : g[x] \in Line
  BY <1>2
<1>4. PICK h : /\ h[0] = NoScan
               /\ \A x \in 1 .. Len(g) : h[x] = ScanLine(h[x - 1], g[x])
               /\ FoldLeft(ScanLine, NoScan, g) = h[Len(g)]
  BY <1>3, ScanStep
<1>5. scan = Finalize(h[Len(g)]) /\ Scans(h, g)
  BY <1>4 DEF ScanCriteria, g, Scans
<1>6. Framed(h[Len(g)])
  BY <1>2, <1>3, <1>5, ScanIsFramed
<1>7. entries = Listed(h[Len(g)])
  <2>1. scan.entries = h[Len(g)].entries
    BY <1>5, <1>6, FinalizeEnds
  <2> HIDE DEF scan
  <2> QED BY <2>1 DEF Listed
<1> HIDE DEF scan, entries
<1>8. ASSUME g # <<>>, ac = 0 PROVE FALSE
  <2> DEFINE S == {k \in 0 .. Len(g) : h[k] = NoScan}
  <2>1. 0 \in S
    BY <1>3, <1>4
  <2>2. ASSUME NEW k \in 0 .. (Len(g) - 1), k \in S PROVE k + 1 \in S
    <3>1. k + 1 \in 1 .. Len(g) /\ (k + 1) - 1 = k /\ k + 1 \in 0 .. Len(g)
      BY <1>3
    <3>2. h[k + 1] = ScanLine(NoScan, g[k + 1]) /\ g[k + 1] \in Line
      BY <1>3, <1>4, <2>2, <3>1
    <3>3. g[k + 1].k # "ac"
      BY <1>2, <1>8, <3>1, FirstIs
    <3> QED BY <3>1, <3>2, <3>3, BeforeCriteria
  <2>3. 0 .. Len(g) \subseteq S
    <3> HIDE DEF S
    <3> QED BY <1>3, <2>1, <2>2, UpTo
  <2>4. h[Len(g)] = NoScan
    BY <1>3, <2>3
  <2> QED BY <1>1, <1>7, <1>8, <2>4, NoScanIsFramed
<1>9. ASSUME NEW i \in 1 .. Len(g), ac # 0, i > ac, Block(g, ac, i, i)
      PROVE  \E c \in (i + 1) .. Len(g), j \in (i + 2) .. Len(g) :
                /\ c < j /\ g[c].k = "cov"
                /\ \A x \in (i + 1) .. j : Within(g[x], g[ac].ind) /\ ~Marks(g[x], g[ac].ind)
                /\ \A x \in (c + 1) .. j : Within(g[x], g[c].ind)
                /\ ParseItem(g[j]).ok /\ ~Unproved(ParseItem(g[j]))
  <2>1. ac \in 1 .. Len(g) /\ i \in (ac + 1) .. Len(g)
    <3>1. ac \in 0 .. Len(g)
      BY <1>2, FirstIs
    <3> HIDE DEF ac
    <3> QED BY <1>3, <1>9, <3>1
  <2>2. PICK k \in i .. Len(g) : Block(g, ac, i, k) /\ Credit(g, i, k, Listed(h[Len(g)]))
    BY <1>1, <1>2, <1>5, <1>9, <2>1, CriterionIsCredited
  <2>3. PICK c \in (i + 1) .. k, j \in (i + 2) .. k :
           /\ c < j /\ g[c].k = "cov"
           /\ \A x \in (c + 1) .. j : Within(g[x], g[c].ind)
           /\ ParseItem(g[j]).ok /\ ParseItem(g[j]) \in Listed(h[Len(g)])
    BY <2>2 DEF Credit
  <2>4. c \in (i + 1) .. Len(g) /\ j \in (i + 2) .. Len(g) /\ \A x \in (i + 1) .. j : x \in (i + 1) .. k
    BY <1>3
  <2>5. \A x \in (i + 1) .. j : x \in (ac + 1) .. k
    <3> HIDE DEF ac
    <3> QED BY <1>3, <2>1
  <2>6. ~Unproved(ParseItem(g[j]))
    BY <1>1, <1>7, <2>3
  <2> QED BY <2>2, <2>3, <2>4, <2>5, <2>6 DEF Block
<1>10. ASSUME NEW i \in DOMAIN g, i > ac, Marks(g[i], g[ac].ind),
              \A x \in (ac + 1) .. i : Within(g[x], g[ac].ind)
       PROVE  \E c \in (i + 1) .. Len(g), j \in (i + 2) .. Len(g) :
                /\ c < j /\ g[c].k = "cov"
                /\ \A x \in (i + 1) .. j : Within(g[x], g[ac].ind) /\ ~Marks(g[x], g[ac].ind)
                /\ \A x \in (c + 1) .. j : Within(g[x], g[c].ind)
                /\ ParseItem(g[j]).ok /\ ~Unproved(ParseItem(g[j]))
  <2>1. g # <<>>
    BY <1>2, <1>10
  <2>2. (i + 1) .. i = {}
    BY <1>3, <1>10
  <2>3. Block(g, ac, i, i)
    BY <1>10, <2>2 DEF Block
  <2> QED BY <1>3, <1>8, <1>9, <1>10, <2>1, <2>3
<1> QED BY <1>10 DEF RegionCovered, g

\* The region runs from the first header of its own to the end of the packet.
LEMMA RegionIs ==
    ASSUME NEW p \in Seq(Line), NEW s, NEW e, s = First(p, {"start"}), e = First(p, {"end"}),
           s # 0, s < e
    PROVE  /\ s \in 1 .. Len(p) /\ e \in 1 .. Len(p)
           /\ Len(GateRegion(p)) = e - s + 1
           /\ \A x \in 1 .. (e - s + 1) : GateRegion(p)[x] = p[s + x - 1]
<1> DEFINE tail == SubSeq(p, s, Len(p))
           end == First(tail, {"end"})
<1>1. /\ Len(p) \in Nat /\ s \in 1 .. Len(p) /\ e \in 1 .. Len(p)
      /\ p[e].k = "end" /\ \A j \in 1 .. Len(p) : p[j].k = "end" => e <= j
  <2>1. s \in 0 .. Len(p) /\ e \in 0 .. Len(p) /\ Len(p) \in Nat
    BY FirstIs
  <2>2. e # 0
    BY <2>1
  <2>3. p[e].k \in {"end"} /\ \A j \in 1 .. Len(p) : p[j].k \in {"end"} => e <= j
    BY <2>2, FirstIs
  <2> QED BY <2>1, <2>2, <2>3
<1>2. /\ tail \in Seq(Line) /\ Len(tail) = Len(p) - s + 1
      /\ \A x \in 1 .. (Len(p) - s + 1) : tail[x] = p[s + x - 1]
  BY <1>1, SubSeqProperties
<1> HIDE DEF tail
<1>3. end = e - s + 1
  <2>1. /\ end \in 0 .. Len(tail) /\ (end # 0 => tail[end].k = "end")
        /\ \A j \in 1 .. Len(tail) : tail[j].k = "end" => end # 0 /\ end <= j
    BY <1>2, FirstIs
  <2>2. e - s + 1 \in 1 .. Len(tail) /\ s + (e - s + 1) - 1 = e
    BY <1>1, <1>2
  <2>3. tail[e - s + 1].k = "end"
    BY <1>1, <1>2, <2>2
  <2>4. end # 0 /\ end <= e - s + 1
    BY <2>1, <2>2, <2>3
  <2> HIDE DEF end
  <2>5. end \in 1 .. Len(tail) /\ s + end - 1 \in 1 .. Len(p)
    <3>1. Len(tail) = Len(p) - s + 1 /\ Len(p) \in Nat /\ s \in Nat /\ 1 <= s /\ s <= Len(p)
      BY <1>1, <1>2
    <3>2. end \in Nat /\ 1 <= end /\ end <= Len(tail)
      BY <2>1, <2>4, <3>1
    <3> QED BY <3>1, <3>2
  <2>6. p[s + end - 1].k = "end"
    BY <1>2, <2>1, <2>5
  <2>7. e <= s + end - 1
    BY <1>1, <2>5, <2>6
  <2> QED BY <1>1, <2>4, <2>5, <2>7
<1>4. GateRegion(p) = SubSeq(tail, 1, e - s + 1)
  <2>1. SubSeq(tail, 1, end) = SubSeq(tail, 1, e - s + 1)
    BY <1>3
  <2> QED BY <2>1 DEF GateRegion, tail, end
<1>5. e - s + 1 \in 1 .. Len(tail)
  BY <1>1, <1>2
<1>6. /\ Len(SubSeq(tail, 1, e - s + 1)) = e - s + 1
      /\ \A x \in 1 .. (e - s + 1) : SubSeq(tail, 1, e - s + 1)[x] = tail[x]
  <2>1. \A x \in 1 .. (e - s + 1) : x \in 1 .. Len(tail)
    BY <1>1, <1>2
  <2> DEFINE n == e - s + 1
  <2>2. n \in Int /\ 1 <= n
    BY <1>1, <1>5
  <2>3. \A x \in 1 .. n : tail[x] \in Line
    BY <1>2, <2>1
  <2> HIDE DEF n
  <2>4. /\ Len(SubSeq(tail, 1, n)) = n - 1 + 1
        /\ \A x \in 1 .. (n - 1 + 1) : SubSeq(tail, 1, n)[x] = tail[1 + x - 1]
    BY <2>2, <2>3, SubSeqProperties
  <2>5. Len(SubSeq(tail, 1, n)) = n /\ \A x \in 1 .. n : SubSeq(tail, 1, n)[x] = tail[x]
    BY <2>2, <2>4
  <2> QED BY <2>5 DEF n
<1>7. Len(GateRegion(p)) = e - s + 1
  BY <1>4, <1>6
<1>8. ASSUME NEW x \in 1 .. (e - s + 1) PROVE GateRegion(p)[x] = p[s + x - 1]
  <2>1. x \in 1 .. (Len(p) - s + 1)
    BY <1>1, <1>2, <1>5
  <2>2. GateRegion(p)[x] = tail[x]
    BY <1>4, <1>6
  <2> QED BY <1>2, <2>1, <2>2
<1> QED BY <1>1, <1>7, <1>8

\* An entry that the scanner accepts and that holds is evidence.
LEMMA EntryIsEvidence ==
    ASSUME NEW line \in Line, ParseItem(line).ok,
           IF ParseItem(line).kind = "pytest" THEN ParseItem(line).text \in Tests
           ELSE ParseItem(line).text # ""
    PROVE  Evidence(line)
<1> DEFINE isPath == line.form = "double" /\ line.v \in Paths
<1>1. /\ line.k = "item"
      /\ IF line.form = "bare" THEN line.w # "" ELSE line.v \in EvidenceKinds \/ isPath
  BY DEF ParseItem
<1>2. ParseItem(line).kind = (IF line.form # "bare" /\ line.v \in EvidenceKinds THEN line.v ELSE "pytest")
  BY DEF ParseItem
<1>3. ParseItem(line).text = (IF isPath THEN line.v ELSE line.w)
  BY DEF ParseItem
<1>4. line.v \in Paths => line.v \notin EvidenceKinds
  BY PathAssumption
<1> QED BY <1>1, <1>2, <1>3, <1>4 DEF Evidence, EvidenceKinds

\* In the prescribed layout the criteria of the packet are those of the region.
LEMMA LayoutIsCovered ==
    ASSUME NEW p \in Seq(Line), QaErrors(p, Tests) = {}, GateBlock(p) # <<>>, LaidOut(p)
    PROVE  Covered(p)
<1> DEFINE hd == First(p, {"start", "titled", "end"})
           s == First(p, {"start"})
           e == First(p, {"end"})
           g == GateRegion(p)
           ac == First(g, {"ac"})
<1>1. Len(p) \in Nat /\ DOMAIN p = 1 .. Len(p) /\ \A x \in 1 .. Len(p) : p[x] \in Line
  OBVIOUS
<1>2. PICK h \in Packet(p), a \in Packet(p) :
        /\ h < a /\ p[h].k = "start" /\ p[a].k = "ac"
        /\ \A x \in Packet(p) : p[x].k = "ac" => x = a
        /\ \A i \in Criteria(p) :
              /\ a < i /\ p[i].ind = p[a].ind + 2
              /\ \A x \in (a + 1) .. i : Under(p[x], p[a])
  BY DEF LaidOut
<1>3. Packet(p) = {i \in 1 .. Len(p) : hd <= i /\ i <= e}
  BY <1>1 DEF Packet
<1>4. hd \in Nat /\ e \in Nat /\ hd < e
  <2>1. hd \in Nat /\ e \in Nat
    BY <1>1, FirstIs
  <2>2. GateBlock(p) = IF e > hd /\ hd > 0 THEN SubSeq(p, hd, e) ELSE <<>>
    BY DEF GateBlock
  <2> HIDE DEF hd, e
  <2> QED BY <2>1, <2>2
<1>5. /\ h \in 1 .. Len(p) /\ a \in 1 .. Len(p) /\ hd <= h /\ h < a /\ a <= e
      /\ s \in 1 .. Len(p) /\ s <= h /\ hd <= s /\ s < e
  <2>1. h \in 1 .. Len(p) /\ a \in 1 .. Len(p) /\ hd <= h /\ a <= e
    BY <1>2, <1>3
  <2>2. s \in 0 .. Len(p) /\ s # 0 /\ s <= h /\ p[s].k \in {"start"}
    BY <1>2, <2>1, FirstIs
  <2>3. hd <= s
    <3>1. p[s].k \in {"start", "titled", "end"} /\ s \in 1 .. Len(p)
      BY <1>1, <2>2
    <3> QED BY <3>1, FirstIs
  <2> HIDE DEF hd, e, s
  <2> QED BY <1>1, <1>2, <1>4, <2>1, <2>2, <2>3
<1>6. /\ e \in 1 .. Len(p) /\ Len(g) = e - s + 1
      /\ \A x \in 1 .. (e - s + 1) : g[x] = p[s + x - 1]
  <2>1. s # 0
    BY <1>5
  <2> QED BY <1>5, <2>1, RegionIs
<1>7. g \in Seq(Line)
  BY RegionType
<1>8. RegionCovered(p)
  BY CleanIsCovered
<1>9. /\ \A i \in DOMAIN g :
            i > ac /\ Marks(g[i], g[ac].ind) /\ (\A x \in (ac + 1) .. i : Within(g[x], g[ac].ind)) =>
                \E c \in (i + 1) .. Len(g), j \in (i + 2) .. Len(g) :
                    /\ c < j /\ g[c].k = "cov"
                    /\ \A x \in (i + 1) .. j : Within(g[x], g[ac].ind) /\ ~Marks(g[x], g[ac].ind)
                    /\ \A x \in (c + 1) .. j : Within(g[x], g[c].ind)
                    /\ Evidence(g[j])
  <2>1. \A x \in 1 .. Len(g) : g[x] \in Line
    BY <1>7
  <2>2. Len(g) \in Nat /\ DOMAIN g = 1 .. Len(g)
    BY <1>7
  <2> HIDE DEF g, ac
  <2>3. \A i \in 1 .. Len(g) : \A j \in (i + 2) .. Len(g) : j \in 1 .. Len(g)
    BY <2>2
  <2> QED BY <1>8, <2>1, <2>2, <2>3, EntryIsEvidence DEF RegionCovered, g, ac
<1>10. ac = a - s + 1 /\ ac \in 1 .. Len(g) /\ g[ac] = p[a]
  <2>1. /\ ac \in 0 .. Len(g) /\ (ac # 0 => g[ac].k = "ac")
        /\ \A j \in 1 .. Len(g) : g[j].k = "ac" => ac # 0 /\ ac <= j
    BY <1>7, FirstIs
  <2> HIDE DEF ac, g, s, e, hd
  <2>2. a - s + 1 \in 1 .. Len(g) /\ s + (a - s + 1) - 1 = a
    BY <1>1, <1>4, <1>5, <1>6
  <2>3. g[a - s + 1] = p[a]
    BY <1>6, <2>2
  <2>4. ac # 0
    BY <1>2, <2>1, <2>2, <2>3
  <2>5. ac \in 1 .. Len(g) /\ s + ac - 1 \in 1 .. Len(p) /\ hd <= s + ac - 1 /\ s + ac - 1 <= e
    BY <1>1, <1>4, <1>5, <1>6, <2>1, <2>4
  <2>6. p[s + ac - 1].k = "ac"
    BY <1>6, <2>1, <2>4, <2>5
  <2>7. s + ac - 1 = a
    BY <1>2, <1>3, <2>5, <2>6
  <2> QED BY <1>1, <1>5, <2>3, <2>5, <2>7
<1> HIDE DEF ac, g, s, e, hd
<1> SUFFICES ASSUME NEW i \in Criteria(p)
             PROVE  \E c, j \in Packet(p) :
                       /\ i < c /\ c < j /\ p[c].k = "cov"
                       /\ \A x \in (i + 1) .. j : x \notin Criteria(p)
                       /\ \A x \in (c + 1) .. j : Under(p[x], p[c])
                       /\ Evidence(p[j])
  BY DEF Covered
<1>11. /\ i \in 1 .. Len(p) /\ hd <= i /\ i <= e /\ p[i].k = "crit"
       /\ a < i /\ p[i].ind = p[a].ind + 2
       /\ \A x \in (a + 1) .. i : Under(p[x], p[a])
  BY <1>2, <1>3 DEF Criteria
<1> DEFINE m == i - s + 1
<1>12. /\ m \in 1 .. Len(g) /\ m > ac /\ g[m] = p[i] /\ Marks(g[m], g[ac].ind)
  <2>1. m \in 1 .. Len(g) /\ m > ac /\ s + m - 1 = i
    BY <1>1, <1>4, <1>5, <1>6, <1>10, <1>11
  <2>2. g[m] = p[i]
    BY <1>6, <2>1
  <2> QED BY <1>10, <1>11, <2>1, <2>2 DEF Marks
<1>13. \A x \in (ac + 1) .. m : Within(g[x], g[ac].ind)
  <2> SUFFICES ASSUME NEW x \in (ac + 1) .. m PROVE Within(g[x], g[ac].ind)
    OBVIOUS
  <2>1. x \in 1 .. (e - s + 1) /\ s + x - 1 \in (a + 1) .. i
    BY <1>1, <1>4, <1>5, <1>6, <1>10, <1>11, <1>12
  <2>2. g[x] = p[s + x - 1] /\ Under(p[s + x - 1], p[a])
    BY <1>6, <1>11, <2>1
  <2> QED BY <1>10, <2>2 DEF Under, Within
<1>14. PICK c \in (m + 1) .. Len(g), j \in (m + 2) .. Len(g) :
          /\ c < j /\ g[c].k = "cov"
          /\ \A x \in (m + 1) .. j : Within(g[x], g[ac].ind) /\ ~Marks(g[x], g[ac].ind)
          /\ \A x \in (c + 1) .. j : Within(g[x], g[c].ind)
          /\ Evidence(g[j])
  <2>1. DOMAIN g = 1 .. Len(g)
    BY <1>7
  <2> HIDE DEF m
  <2> QED BY <1>9, <1>12, <1>13, <2>1
<1> DEFINE C == s + c - 1
           J == s + j - 1
<1>15. /\ C \in 1 .. Len(p) /\ J \in 1 .. Len(p) /\ hd <= C /\ C <= e /\ hd <= J /\ J <= e
       /\ i < C /\ C < J /\ g[c] = p[C] /\ g[j] = p[J]
  <2>1. c \in 1 .. (e - s + 1) /\ j \in 1 .. (e - s + 1)
    BY <1>1, <1>4, <1>5, <1>6, <1>12
  <2>2. /\ s \in Int /\ e \in Int /\ hd \in Int /\ i \in Int /\ Len(p) \in Int
        /\ 1 <= s /\ s < e /\ e <= Len(p) /\ hd <= s
    BY <1>1, <1>4, <1>5, <1>6, <1>11
  <2>3. /\ c \in Int /\ j \in Int /\ m < c /\ c < j /\ j <= e - s + 1
    BY <1>12, <1>14, <2>1, <2>2
  <2>4. /\ C \in 1 .. Len(p) /\ J \in 1 .. Len(p) /\ hd <= C /\ C <= e /\ hd <= J /\ J <= e
        /\ i < C /\ C < J
    BY <2>1, <2>2, <2>3
  <2>5. g[c] = p[C] /\ g[j] = p[J]
    BY <1>6, <2>1
  <2> QED BY <2>4, <2>5
<1>16. ASSUME NEW x \in (i + 1) .. J PROVE x \notin Criteria(p)
  <2>1. x - s + 1 \in (m + 1) .. j /\ x - s + 1 \in 1 .. (e - s + 1) /\ s + (x - s + 1) - 1 = x
    BY <1>1, <1>4, <1>5, <1>6, <1>11, <1>12, <1>15
  <2>2. ~Marks(p[x], p[a].ind)
    BY <1>6, <1>10, <1>14, <2>1
  <2>3. x \in Criteria(p) => p[x].k = "crit" /\ p[x].ind = p[a].ind + 2
    BY <1>2 DEF Criteria
  <2> QED BY <2>2, <2>3 DEF Marks
<1>17. ASSUME NEW x \in (C + 1) .. J PROVE Under(p[x], p[C])
  <2>1. x - s + 1 \in (c + 1) .. j /\ x - s + 1 \in 1 .. (e - s + 1) /\ s + (x - s + 1) - 1 = x
    BY <1>1, <1>4, <1>5, <1>6, <1>11, <1>12, <1>15
  <2>2. Within(g[x - s + 1], g[c].ind) /\ g[x - s + 1] = p[x]
    BY <1>6, <1>14, <2>1
  <2> QED BY <1>15, <2>2 DEF Under, Within
<1>18. C \in Packet(p) /\ J \in Packet(p)
  BY <1>3, <1>15
<1> HIDE DEF C, J, m
<1> QED BY <1>14, <1>15, <1>16, <1>17, <1>18

\* What qa_validate let pass, and what there is for it to read.
PassInv ==
    /\ disk \in [File -> Seq(Line)]
    /\ op.at = "audit" =>
          op.read \in Seq(Line) /\ QaErrors(op.read, Tests) = {} /\ GateBlock(op.read) # <<>>

\* qa_validate: a packet in the prescribed layout that the scanner lets pass is covered,
\* criterion by criterion.
THEOREM PassesAreCovered == Spec => []PassMeansCovered
<1>1. ASSUME Init PROVE PassInv
  <2>1. op.at = "idle"
    BY <1>1 DEF Init, Idle
  <2>2. PICK d \in Dirs : disk = d.packets
    BY <1>1 DEF Init
  <2> QED BY <2>1, <2>2, TextAssumption DEF PassInv
<1>2. ASSUME Inv, PassInv, [Next]_vars PROVE PassInv'
  <2>0. DOMAIN op = OpFields
    BY <1>2 DEF Inv, TypeInv
  <2>1. disk' \in [File -> Seq(Line)]
    <3>1. CASE UNCHANGED disk
      BY <1>2, <3>1 DEF PassInv
    <3>2. CASE \E f \in File : \E text \in Rewrites[f] : Rewrite(f, text)
      <4>1. PICK f \in File : \E text \in Rewrites[f] : Rewrite(f, text)
        BY <3>2
      <4>2. PICK text \in Rewrites[f] : Rewrite(f, text)
        BY <4>1
      <4>3. text \in Seq(Line) /\ disk' = [disk EXCEPT ![f] = text]
        BY <4>2, TextAssumption DEF Rewrite
      <4> QED BY <1>2, <4>3 DEF PassInv
    <3> QED BY <1>2, <3>1, <3>2 DEF Next, vars, Begin, QaValidate, FlowAudit, Archive, ArchiveFails,
                LeaveOut, ArchiveLater, Compose, PutRow, PutRival, Settle, CheckLatest, CheckRun,
                CheckFails
  <2>2. ASSUME op'.at = "audit"
        PROVE  op'.read \in Seq(Line) /\ QaErrors(op'.read, Tests) = {} /\ GateBlock(op'.read) # <<>>
    <3>1. CASE QaValidate
      <4>1. QaExit(disk["qa-gate"]) = 0 /\ op'.read = disk["qa-gate"]
        BY <2>0, <2>2, <3>1 DEF QaValidate, OpFields
      <4>2. QaErrors(disk["qa-gate"], Tests) = {} /\ GateBlock(disk["qa-gate"]) # <<>>
        <5> DEFINE text == disk["qa-gate"]
                   clean == QaErrors(text, Tests) = {}
                   told == TelemetryErrors(proof.telemetry, FALSE, FALSE) = {}
                   saved == CheckpointErrors(proof.checkpoints) = {}
        <5>1. QaExit(text) = IF GateBlock(text) = <<>> THEN 2 ELSE IF clean /\ told /\ saved THEN 0 ELSE 1
          BY DEF QaExit
        <5> HIDE DEF text, clean, told, saved
        <5>2. QaExit(text) = 0
          BY <4>1 DEF text
        <5>3. clean /\ GateBlock(text) # <<>>
          BY <5>1, <5>2
        <5> QED BY <5>3 DEF clean, text
      <4>3. disk["qa-gate"] \in Seq(Line)
        BY <1>2 DEF PassInv, File
      <4> QED BY <4>1, <4>2, <4>3
    <3>2. CASE UNCHANGED op
      BY <1>2, <2>2, <3>2 DEF PassInv
    <3> QED BY <1>2, <2>0, <2>2, <3>1, <3>2 DEF Next, vars, Begin, Rewrite, FlowAudit, Archive, Archiving,
                ArchiveFails, LeaveOut, ArchiveLater, Compose, PutRow, PutRival, Settle,
                CheckLatest, CheckRun, CheckFails, Idle, OpFields
  <2> QED BY <2>1, <2>2 DEF PassInv
<1>3. PassInv => PassMeansCovered
  BY LayoutIsCovered DEF PassInv, PassMeansCovered
<1> QED BY <1>1, <1>2, <1>3, LedgerStands, PTL DEF Spec
=============================================================================
