------------------------------ MODULE TaskPlane ------------------------------
(***************************************************************************)
(* canon task: machines record the events of a task in local ledgers and   *)
(* push them to the task plane of state-api, fail-open; canon task sync    *)
(* pushes what a ledger holds, pulls what the server holds, and falls back *)
(* on an object in S3.                                                     *)
(*                                                                         *)
(* Several processes of one machine share its ledgers without a lock: the  *)
(* user's commands and the hooks that run at every prompt and answer.      *)
(* Requests fail before or after they took effect, and a process may be    *)
(* killed between any two of its steps.                                    *)
(***************************************************************************)
EXTENDS TaskFold

CONSTANTS
    Proc,        \* processes that run canon task commands
    On,          \* the machine a process runs on
    HasServer,   \* CANON_TASKS_API_URL or CANON_STATE_API_URL is set
    HasBucket,   \* CANON_TASKS_BUCKET is set
    FetchLimit,  \* the limit of GET /state/tasks
    MaxEvents,   \* bound: events recorded
    MaxSyncs,    \* bound: syncs started
    MaxFaults    \* bound: failed requests and kills

ASSUME TaskAssumption ==
    /\ DOMAIN On = Proc /\ \A p \in Proc : On[p] \in Machine
    /\ HasServer \in BOOLEAN /\ HasBucket \in BOOLEAN
    /\ FetchLimit \in Nat \ {0}
    /\ MaxEvents \in Nat /\ MaxSyncs \in Nat /\ MaxFaults \in Nat

VARIABLES
    ledger,    \* ledger[m][s]: the events in the ledger file of m for scope s
    server,    \* the event rows of the tasks table
    bucket,    \* the events in the S3 object
    pc,        \* pc[p]: what process p is doing
    recorded,  \* history: the events that commands recorded
    mixed,     \* history: machines where a rewrite of the cache was killed, or
               \* overlapped with an append or another rewrite
    syncs, faults

vars == <<ledger, server, bucket, pc, recorded, mixed, syncs, faults>>

NoEvent == [status |-> "", kind |-> "", text |-> ""]

\* event: the fields a command is going to record, then the recorded event;
\* todo: events still to push; start: the ledgers when the sync began;
\* got: what was fetched, then what is to be written back.
Idle == [stage |-> "idle", event |-> NoEvent, scope |-> "", todo |-> {},
         start |-> {}, got |-> {}, failed |-> FALSE]

Local(m) == ledger[m]["repo"] \cup ledger[m]["company"]

\* The rewrite of a cache file: read, truncate, write back.
Rewriting(p) == pc[p].stage \in {"sync_write", "s3_write"}
Overlapped(p) ==
    IF \E q \in Proc \ {p} : On[q] = On[p] /\ Rewriting(q)
    THEN mixed \cup {On[p]} ELSE mixed

\* The first events in the order of the table's sort key.
Page(events) ==
    {e \in events : Cardinality({f \in events : f.stamp < e.stamp}) < FetchLimit}

Goto(p, next) == pc' = [pc EXCEPT ![p] = next]

\* _combined_state: both ledgers and what the server returns, or the ledgers.
Views(p) ==
    {Local(On[p])} \cup (IF HasServer THEN {Local(On[p]) \cup Page(server)} ELSE {})
-----------------------------------------------------------------------------
(***************************************************************************)
(* Commands.                                                               *)
(***************************************************************************)
\* canon task create: the model follows one task.
Create(p) ==
    /\ pc[p].stage = "idle"
    /\ MaxEvents > 0 /\ recorded = {}
    /\ \A q \in Proc : pc[q].event.kind # "task_created"
    /\ \E scope \in Scopes :
         Goto(p, [Idle EXCEPT !.stage = "record", !.scope = scope,
                    !.event = [status |-> "open", kind |-> "task_created", text |-> ""]])
    /\ UNCHANGED <<ledger, server, bucket, recorded, mixed, syncs, faults>>

\* canon task comment, status, reopen, and close with an optional comment.
Mutate(p) ==
    /\ pc[p].stage = "idle"
    /\ Cardinality(recorded) < MaxEvents
    /\ \E e \in {[status |-> "", kind |-> "task_commented", text |-> "comment"],
                 [status |-> "open", kind |-> "task_updated", text |-> ""],
                 [status |-> "done", kind |-> "task_updated", text |-> "close"]} :
         Goto(p, [Idle EXCEPT !.stage = "look", !.event = e])
    /\ UNCHANGED <<ledger, server, bucket, recorded, mixed, syncs, faults>>

\* The hooks: canon task active --refresh and record-session promote a task
\* that they saw open.
Promote(p) ==
    /\ pc[p].stage = "idle"
    /\ Cardinality(recorded) < MaxEvents
    /\ \E view \in Views(p) : Materialize(view).status = "open"
    /\ \E e \in {[status |-> "in_progress", kind |-> "task_updated", text |-> "link"],
                 [status |-> "in_progress", kind |-> "task_commented", text |-> "note"]} :
         Goto(p, [Idle EXCEPT !.stage = "look", !.event = e])
    /\ UNCHANGED <<ledger, server, bucket, recorded, mixed, syncs, faults>>

\* _ledger_for_scope: whatever is not of the repository is the company's.
LedgerForScope(scope) == IF scope = "repo" THEN "repo" ELSE "company"

\* _find_ledger_with_task
Look(p) ==
    /\ pc[p].stage = "look"
    /\ \E view \in Views(p) :
         IF Materialize(view).exists
         THEN Goto(p, [pc[p] EXCEPT !.stage = "record",
                                    !.scope = LedgerForScope(Materialize(view).scope)])
         ELSE Goto(p, Idle)
    /\ UNCHANGED <<ledger, server, bucket, recorded, mixed, syncs, faults>>

\* A clock reading: the clock of a machine never repeats itself, the clocks
\* of two machines may differ.
Reading(m) ==
    {t \in 1..MaxStamp : \A e \in recorded : e.stamp # t /\ (e.at = m => e.stamp < t)}

\* make_event and _append_event
Record(p) ==
    /\ pc[p].stage = "record"
    /\ Cardinality(recorded) < MaxEvents
    /\ \E t \in Reading(On[p]) :
         LET x == pc[p].event
             e == [stamp |-> t, at |-> On[p], kind |-> x.kind, status |-> x.status,
                   text |-> x.text,
                   scope |-> IF x.kind = "task_created" THEN pc[p].scope ELSE ""]
         IN /\ ledger' = [ledger EXCEPT ![On[p]][pc[p].scope] = @ \cup {e}]
            /\ recorded' = recorded \cup {e}
            /\ Goto(p, IF HasServer THEN [Idle EXCEPT !.stage = "push", !.todo = {e}]
                       ELSE Idle)
    /\ mixed' = Overlapped(p)
    /\ UNCHANGED <<server, bucket, syncs, faults>>

\* POST /state/tasks/events, put_event_if_absent: it is answered, or the
\* request or its answer is lost.  The caller goes on with good or with bad.
Post(p, e, good, bad) ==
    \/ /\ server' = server \cup {e}
       /\ Goto(p, good)
       /\ UNCHANGED faults
    \/ /\ faults < MaxFaults
       /\ faults' = faults + 1
       /\ \/ UNCHANGED server
          \/ server' = server \cup {e}
       /\ Goto(p, bad)

\* push_event at the end of _record_event; a failure is only reported.
Push(p) ==
    /\ pc[p].stage = "push"
    /\ \E e \in pc[p].todo : Post(p, e, Idle, Idle)
    /\ UNCHANGED <<ledger, bucket, recorded, mixed, syncs>>

-----------------------------------------------------------------------------
(***************************************************************************)
(* canon task sync, with a server.                                         *)
(***************************************************************************)
Sync(p) ==
    /\ pc[p].stage = "idle"
    /\ syncs < MaxSyncs
    /\ syncs' = syncs + 1
    /\ IF HasServer
       THEN Goto(p, [Idle EXCEPT !.stage = "sync_push", !.todo = Local(On[p]),
                                 !.start = Local(On[p])])
       ELSE HasBucket /\ Goto(p, [Idle EXCEPT !.stage = "s3_get"])
    /\ UNCHANGED <<ledger, server, bucket, recorded, mixed, faults>>

\* Mutant: the last answer decides whether the sync failed.
SyncPushForgets(p) ==
    /\ pc[p].stage = "sync_push"
    /\ pc[p].todo # {}
    /\ LET e == CHOOSE e \in pc[p].todo : \A f \in pc[p].todo : e.stamp <= f.stamp IN
       Post(p, e, [pc[p] EXCEPT !.todo = @ \ {e}, !.failed = FALSE],
                  [pc[p] EXCEPT !.todo = @ \ {e}, !.failed = TRUE])
    /\ UNCHANGED <<ledger, bucket, recorded, mixed, syncs>>

\* The events are pushed one by one, in the order of their ids.
SyncPush(p) ==
    /\ pc[p].stage = "sync_push"
    /\ pc[p].todo # {}
    /\ LET e == CHOOSE e \in pc[p].todo : \A f \in pc[p].todo : e.stamp <= f.stamp IN
       Post(p, e, [pc[p] EXCEPT !.todo = @ \ {e}],
                  [pc[p] EXCEPT !.todo = @ \ {e}, !.failed = TRUE])
    /\ UNCHANGED <<ledger, bucket, recorded, mixed, syncs>>

\* Where a sync goes when the exchange with the server is over.
AfterServer(p) ==
    IF pc[p].failed /\ HasBucket THEN [Idle EXCEPT !.stage = "s3_get"] ELSE Idle

SyncFetch(p) ==
    /\ pc[p].stage = "sync_push"
    /\ pc[p].todo = {}
    /\ \/ Goto(p, [pc[p] EXCEPT !.stage = "sync_merge", !.got = Page(server)])
          /\ UNCHANGED faults
       \/ /\ faults < MaxFaults
          /\ faults' = faults + 1
          /\ Goto(p, AfterServer(p))
    /\ UNCHANGED <<ledger, server, bucket, recorded, mixed, syncs>>

\* Mutant: what was read when the sync began is merged, instead of a new read.
SyncMergeOld(p) ==
    /\ pc[p].stage = "sync_merge"
    /\ Goto(p, [pc[p] EXCEPT !.stage = "sync_write", !.got = @ \cup pc[p].start])
    /\ ledger' = [ledger EXCEPT ![On[p]]["company"] = {}]
    /\ mixed' = Overlapped(p)
    /\ UNCHANGED <<server, bucket, recorded, syncs, faults>>

\* The cache is read again and merged; opening it for writing truncates it.
SyncMerge(p) ==
    /\ pc[p].stage = "sync_merge"
    /\ Goto(p, [pc[p] EXCEPT !.stage = "sync_write",
                             !.got = @ \cup ledger[On[p]]["company"]])
    /\ ledger' = [ledger EXCEPT ![On[p]]["company"] = {}]
    /\ mixed' = Overlapped(p)
    /\ UNCHANGED <<server, bucket, recorded, syncs, faults>>

SyncWrite(p) ==
    /\ pc[p].stage = "sync_write"
    /\ ledger' = [ledger EXCEPT ![On[p]]["company"] = pc[p].got]
    /\ Goto(p, AfterServer(p))
    /\ mixed' = Overlapped(p)
    /\ UNCHANGED <<server, bucket, recorded, syncs, faults>>

-----------------------------------------------------------------------------
(***************************************************************************)
(* canon task sync, with the S3 object.                                    *)
(***************************************************************************)
\* Every failure of get_object reads as a missing object.
S3Get(p) ==
    /\ pc[p].stage = "s3_get"
    /\ \/ Goto(p, [pc[p] EXCEPT !.stage = "s3_merge", !.got = bucket])
          /\ UNCHANGED faults
       \/ /\ faults < MaxFaults
          /\ faults' = faults + 1
          /\ Goto(p, [pc[p] EXCEPT !.stage = "s3_merge"])
    /\ UNCHANGED <<ledger, server, bucket, recorded, mixed, syncs>>

S3Merge(p) ==
    /\ pc[p].stage = "s3_merge"
    /\ Goto(p, [pc[p] EXCEPT !.stage = "s3_write",
                             !.got = @ \cup ledger[On[p]]["company"]])
    /\ ledger' = [ledger EXCEPT ![On[p]]["company"] = {}]
    /\ mixed' = Overlapped(p)
    /\ UNCHANGED <<server, bucket, recorded, syncs, faults>>

S3Write(p) ==
    /\ pc[p].stage = "s3_write"
    /\ ledger' = [ledger EXCEPT ![On[p]]["company"] = pc[p].got]
    /\ Goto(p, [pc[p] EXCEPT !.stage = "s3_put"])
    /\ mixed' = Overlapped(p)
    /\ UNCHANGED <<server, bucket, recorded, syncs, faults>>

\* With --pull-only the object is left alone.
S3Put(p) ==
    /\ pc[p].stage = "s3_put"
    /\ \/ bucket' = pc[p].got /\ UNCHANGED faults
       \/ UNCHANGED <<bucket, faults>>
    /\ Goto(p, Idle)
    /\ UNCHANGED <<ledger, server, recorded, mixed, syncs>>

\* The process is killed.
Kill(p) ==
    /\ pc[p].stage # "idle"
    /\ faults < MaxFaults
    /\ faults' = faults + 1
    /\ Goto(p, Idle)
    /\ mixed' = IF Rewriting(p) THEN mixed \cup {On[p]} ELSE mixed
    /\ UNCHANGED <<ledger, server, bucket, recorded, syncs>>

Init ==
    /\ ledger = [m \in Machine |-> [s \in Scopes |-> {}]]
    /\ server = {} /\ bucket = {}
    /\ pc = [p \in Proc |-> Idle]
    /\ recorded = {} /\ mixed = {}
    /\ syncs = 0 /\ faults = 0

Command(p) == Create(p) \/ Mutate(p) \/ Promote(p) \/ Look(p) \/ Record(p) \/ Push(p)

Synchronize(p) ==
    \/ Sync(p) \/ SyncPush(p) \/ SyncFetch(p) \/ SyncMerge(p) \/ SyncWrite(p)
    \/ S3Get(p) \/ S3Merge(p) \/ S3Write(p) \/ S3Put(p)

Next == \E p \in Proc : Command(p) \/ Synchronize(p) \/ Kill(p)

Spec == Init /\ [][Next]_vars
-----------------------------------------------------------------------------
\* No recorded event is lost, whatever requests fail and wherever commands
\* are killed, unless a rewrite of the machine's cache was killed or
\* overlapped with another process.
NothingLost ==
    \A e \in recorded :
        \/ e.at \in mixed
        \/ e \in Local(e.at) \cup server
        \/ \E p \in Proc : On[p] = e.at /\ Rewriting(p) /\ e \in pc[p].got

\* A sync whose pushes all succeeded left on the server every event that the
\* ledgers of its machine held when it began.
SyncReconciles ==
    \A p \in Proc :
        pc[p].stage \in {"sync_merge", "sync_write"} /\ ~pc[p].failed
          => pc[p].start \subseteq server

\* What a fold shows, of any ledgers and page of the server's stream: the
\* status that the latest event with a status set, and every text given with an
\* event, except those of canon task close and of the automatic link.  These
\* two travel in events of a kind whose text the fold drops, against
\* canon-tasks.mdc:40.  An event that is not on the page is not shown.
FoldShowsLatest ==
    \A m \in Machine : \A view \in {Local(m), Local(m) \cup Page(server)} :
        view # {} =>
          LET task == Materialize(view)
              setters == {e \in view : e.status # ""}
          IN /\ setters # {} =>
                  \E e \in setters : /\ task.status = e.status
                                     /\ \A f \in setters : f.stamp <= e.stamp
             /\ task.comments = {e.stamp : e \in {f \in view :
                                     f.text \notin {"", "close", "link"}}}

=============================================================================
