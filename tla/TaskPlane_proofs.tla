-------------------------- MODULE TaskPlane_proofs --------------------------
(***************************************************************************)
(* Proofs about TaskPlane, for any machines, processes, limits and bounds, *)
(* with or without a server and a bucket.                                  *)
(***************************************************************************)
EXTENDS TaskPlane, FiniteSetTheorems, WellFoundedInduction, TLAPS

Kinds == {"task_created", "task_updated", "task_commented"}
Stages == {"idle", "look", "record", "push", "sync_push", "sync_merge", "sync_write",
           "s3_get", "s3_merge", "s3_write", "s3_put"}
Draft == [status : Statuses \cup {""}, kind : Kinds \cup {""}, text : Texts \cup {""}]
State == [stage : Stages, event : Draft, scope : Scopes \cup {""}, todo : SUBSET recorded,
          start : SUBSET recorded, got : SUBSET recorded, failed : BOOLEAN]

\* Comments and the notes of record-session travel in task_commented events, and they alone.
Fit(e) ==
    /\ e.kind \in Kinds
    /\ e.kind = "task_commented" <=> e.text \in {"comment", "note"}

\* Every event that is anywhere was recorded by a command, and its stamp is its own.
TypeInv ==
    /\ recorded \subseteq Event /\ \A e \in recorded : Fit(e)
    /\ \A e, f \in recorded : e.stamp = f.stamp => e = f
    /\ ledger \in [Machine -> [Scopes -> SUBSET recorded]]
    /\ server \subseteq recorded /\ bucket \subseteq recorded
    /\ pc \in [Proc -> State]
    /\ mixed \subseteq Machine

\* What a process is going to record has a kind, and a ledger to go to.
DraftInv ==
    \A p \in Proc :
        /\ pc[p].stage \in {"look", "record"} => Fit(pc[p].event)
        /\ pc[p].stage = "record" => pc[p].scope \in Scopes

\* While its cache is rewritten, it is empty, unless somebody else has written to it.
RewriteInv ==
    \A p \in Proc : Rewriting(p) /\ On[p] \notin mixed => ledger[On[p]]["company"] = {}

\* What a sync did not see fail is on the server, or still to be pushed.
PushInv ==
    \A p \in Proc :
        /\ pc[p].stage \in {"sync_push", "sync_merge", "sync_write"} /\ ~pc[p].failed =>
              pc[p].start \subseteq server \cup pc[p].todo
        /\ pc[p].stage \in {"sync_merge", "sync_write"} => pc[p].todo = {}

Inv == TypeInv /\ DraftInv /\ RewriteInv /\ PushInv

LEMMA LeastNatural ==
    ASSUME NEW S \in SUBSET Nat, S # {}
    PROVE  \E m \in S : \A n \in S : m <= n
<1> DEFINE Less == {pair \in Nat \X Nat : pair[1] < pair[2]}
<1>1. IsWellFoundedOn(Less, Nat)
  BY NatLessThanWellFounded DEF OpToRel
<1>2. PICK m \in S : \A n \in S : <<n, m>> \notin Less
  BY <1>1, WFMin
<1>3. ASSUME NEW n \in S PROVE m <= n
  <2>1. <<n, m>> \notin Less
    BY <1>2
  <2> QED BY <2>1
<1> QED BY <1>3

Earliest(todo) == CHOOSE e \in todo : \A f \in todo : e.stamp <= f.stamp

\* The event that a sync pushes next is one of those it has to push.
LEMMA EarliestIsThere ==
    ASSUME TypeInv, NEW todo \in SUBSET recorded, todo # {}
    PROVE  Earliest(todo) \in todo
<1> DEFINE stamps == {e.stamp : e \in todo}
<1>1. stamps \in SUBSET Nat /\ stamps # {}
  <2>1. ASSUME NEW e \in Event PROVE e.stamp \in Nat
    <3>1. e.stamp \in 1 .. MaxStamp
      BY DEF Event
    <3> QED BY <3>1, FoldAssumption
  <2>2. todo \subseteq Event
    BY DEF TypeInv
  <2> QED BY <2>1, <2>2
<1>2. PICK m \in stamps : \A n \in stamps : m <= n
  BY <1>1, LeastNatural
<1>3. \E e \in todo : \A f \in todo : e.stamp <= f.stamp
  BY <1>2
<1> QED BY <1>3 DEF Earliest

\* The command that a process runs is the only thing a step of it changes in pc.
LEMMA IdleIsState ==
    /\ Idle \in State
    /\ Idle.stage = "idle" /\ Idle.failed = FALSE /\ Idle.todo = {} /\ Idle.start = {} /\ Idle.got = {}
BY DEF Idle, State, NoEvent, Stages, Draft

LEMMA InvInit == Init => Inv
<1>1. SUFFICES ASSUME Init PROVE Inv
  OBVIOUS
<1>2. TypeInv
  BY <1>1, IdleIsState DEF Init, TypeInv
<1>3. \A p \in Proc : pc[p].stage = "idle"
  BY <1>1, IdleIsState DEF Init
<1> QED BY <1>2, <1>3 DEF Inv, DraftInv, RewriteInv, PushInv, Rewriting

\* What a step has to keep: one process goes to state st, and the rest is changed as it may.
LEMMA StepKeepsInv ==
    ASSUME Inv, NEW p \in Proc, NEW st \in State, Goto(p, st), UNCHANGED recorded,
           ledger' \in [Machine -> [Scopes -> SUBSET recorded]],
           server \subseteq server', server' \subseteq recorded, bucket' \subseteq recorded,
           mixed \subseteq mixed', mixed' \subseteq Machine,
           st.stage \in {"look", "record"} => Fit(st.event),
           st.stage = "record" => st.scope \in Scopes,
           st.stage \in {"sync_push", "sync_merge", "sync_write"} /\ ~st.failed =>
              st.start \subseteq server' \cup st.todo,
           st.stage \in {"sync_merge", "sync_write"} => st.todo = {},
           st.stage \in {"sync_write", "s3_write"} /\ On[p] \notin mixed' =>
              ledger'[On[p]]["company"] = {},
           \A q \in Proc \ {p} : Rewriting(q) /\ On[q] \notin mixed' =>
              ledger'[On[q]]["company"] \subseteq ledger[On[q]]["company"]
    PROVE  Inv'
<1>1. /\ pc' \in [Proc -> State] /\ pc'[p] = st
      /\ \A q \in Proc \ {p} : pc'[q] = pc[q]
  BY DEF Inv, TypeInv, Goto
<1>2. TypeInv'
  BY <1>1 DEF Inv, TypeInv, State
<1>3. DraftInv'
  BY <1>1 DEF Inv, DraftInv
<1>4. RewriteInv'
  <2>1. ASSUME NEW q \in Proc, Rewriting(q)', On[q] \notin mixed' PROVE ledger'[On[q]]["company"] = {}
    <3>1. CASE q = p
      BY <1>1, <2>1, <3>1 DEF Rewriting
    <3>2. CASE q # p
      <4>1. Rewriting(q) /\ On[q] \notin mixed
        BY <1>1, <2>1, <3>2 DEF Rewriting
      <4> QED BY <2>1, <3>2, <4>1 DEF Inv, RewriteInv
    <3> QED BY <3>1, <3>2
  <2> QED BY <2>1 DEF RewriteInv
<1>5. PushInv'
  <2>1. ASSUME NEW q \in Proc
        PROVE  /\ pc'[q].stage \in {"sync_push", "sync_merge", "sync_write"} /\ ~pc'[q].failed =>
                     pc'[q].start \subseteq server' \cup pc'[q].todo
               /\ pc'[q].stage \in {"sync_merge", "sync_write"} => pc'[q].todo = {}
    BY <1>1 DEF Inv, PushInv
  <2> QED BY <2>1 DEF PushInv
<1> QED BY <1>2, <1>3, <1>4, <1>5 DEF Inv

LEMMA InvNext == Inv /\ [Next]_vars => Inv'
<1> SUFFICES ASSUME Inv, [Next]_vars PROVE Inv'
  OBVIOUS
<1>1. CASE UNCHANGED vars
  BY <1>1 DEF vars, Inv, TypeInv, State, DraftInv, RewriteInv, PushInv, Rewriting
<1>2. ASSUME NEW p \in Proc PROVE pc[p] \in State /\ On[p] \in Machine /\ Local(On[p]) \subseteq recorded
  BY <1>2, TaskAssumption DEF Inv, TypeInv, Local, Scopes
<1>3. Page(server) \subseteq recorded
  BY DEF Inv, TypeInv, Page
<1>4. ASSUME NEW p \in Proc PROVE mixed \subseteq Overlapped(p) /\ Overlapped(p) \subseteq Machine
  BY <1>2, <1>4 DEF Overlapped, Inv, TypeInv
<1>5. /\ ledger \in [Machine -> [Scopes -> SUBSET recorded]]
      /\ server \subseteq recorded /\ bucket \subseteq recorded /\ mixed \subseteq Machine
  BY DEF Inv, TypeInv
\* Steps that leave the ledgers, the server and the bucket alone.
<1>6. ASSUME NEW p \in Proc, NEW st \in State, Goto(p, st),
             UNCHANGED <<ledger, server, bucket, recorded, mixed>>,
             st.stage \notin {"look", "record", "sync_push", "sync_merge", "sync_write", "s3_write"}
      PROVE  Inv'
  BY <1>5, <1>6, StepKeepsInv
<1>7. ASSUME NEW p \in Proc, Create(p) PROVE Inv'
  <2>1. PICK scope \in Scopes :
          Goto(p, [Idle EXCEPT !.stage = "record", !.scope = scope,
                     !.event = [status |-> "open", kind |-> "task_created", text |-> ""]])
    BY <1>7 DEF Create
  <2> DEFINE st == [Idle EXCEPT !.stage = "record", !.scope = scope,
                      !.event = [status |-> "open", kind |-> "task_created", text |-> ""]]
  <2>2. st \in State /\ st.stage = "record" /\ st.scope \in Scopes /\ Fit(st.event)
    BY DEF Idle, State, Stages, Draft, Statuses, Kinds, Texts, Fit
  <2>3. UNCHANGED <<ledger, server, bucket, recorded, mixed>>
    BY <1>7 DEF Create
  <2> HIDE DEF st
  <2> QED BY <1>5, <2>1, <2>2, <2>3, StepKeepsInv DEF st
<1>8. ASSUME NEW p \in Proc, Mutate(p) \/ Promote(p) PROVE Inv'
  <2>1. PICK e \in {x \in Draft : Fit(x)} : Goto(p, [Idle EXCEPT !.stage = "look", !.event = e])
    <3>1. CASE Mutate(p)
      BY <3>1 DEF Mutate, Statuses, Kinds, Texts, Draft, Fit
    <3>2. CASE Promote(p)
      BY <3>2 DEF Promote, Statuses, Kinds, Texts, Draft, Fit
    <3> QED BY <1>8, <3>1, <3>2
  <2> DEFINE st == [Idle EXCEPT !.stage = "look", !.event = e]
  <2>2. st \in State /\ st.stage = "look" /\ Fit(st.event)
    BY DEF Idle, State, Stages, Draft
  <2>3. UNCHANGED <<ledger, server, bucket, recorded, mixed>>
    BY <1>8 DEF Mutate, Promote
  <2> HIDE DEF st
  <2> QED BY <1>5, <2>1, <2>2, <2>3, StepKeepsInv DEF st
<1>9. ASSUME NEW p \in Proc, Look(p) PROVE Inv'
  <2>1. UNCHANGED <<ledger, server, bucket, recorded, mixed>> /\ pc[p].stage = "look"
    BY <1>9 DEF Look
  <2>2. CASE Goto(p, Idle)
    BY <1>6, <2>1, <2>2, IdleIsState
  <2>3. ASSUME NEW scope, Goto(p, [pc[p] EXCEPT !.stage = "record", !.scope = LedgerForScope(scope)])
        PROVE  Inv'
    <3> DEFINE st == [pc[p] EXCEPT !.stage = "record", !.scope = LedgerForScope(scope)]
    <3>1. LedgerForScope(scope) \in Scopes
      BY DEF LedgerForScope, Scopes
    <3>2. st \in State /\ st.stage = "record" /\ st.scope \in Scopes /\ st.event = pc[p].event
      BY <1>2, <3>1 DEF State, Stages
    <3>3. Fit(st.event)
      BY <2>1, <3>2 DEF Inv, DraftInv
    <3> HIDE DEF st
    <3> QED BY <1>5, <2>1, <2>3, <3>2, <3>3, StepKeepsInv DEF st
  <2> QED BY <1>9, <2>2, <2>3 DEF Look
<1>10. ASSUME NEW p \in Proc, Record(p) PROVE Inv'
  <2>1. PICK t \in Reading(On[p]) :
          LET x == pc[p].event
              e == [stamp |-> t, at |-> On[p], kind |-> x.kind, status |-> x.status,
                    text |-> x.text,
                    scope |-> IF x.kind = "task_created" THEN pc[p].scope ELSE ""]
          IN /\ ledger' = [ledger EXCEPT ![On[p]][pc[p].scope] = @ \cup {e}]
             /\ recorded' = recorded \cup {e}
             /\ Goto(p, IF HasServer THEN [Idle EXCEPT !.stage = "push", !.todo = {e}] ELSE Idle)
    BY <1>10 DEF Record
  <2> DEFINE x == pc[p].event
             e == [stamp |-> t, at |-> On[p], kind |-> x.kind, status |-> x.status,
                   text |-> x.text,
                   scope |-> IF x.kind = "task_created" THEN pc[p].scope ELSE ""]
             st == IF HasServer THEN [Idle EXCEPT !.stage = "push", !.todo = {e}] ELSE Idle
  <2>2. /\ pc[p].stage = "record" /\ pc[p].scope \in Scopes /\ Fit(x) /\ x \in Draft
        /\ On[p] \in Machine
    BY <1>2, <1>10 DEF Record, Inv, DraftInv, State
  <2>3. e \in Event /\ Fit(e)
    <3>1. t \in 1 .. MaxStamp
      BY <2>1 DEF Reading
    <3>2. x.status \in Statuses \cup {""} /\ x.text \in Texts \cup {""}
      BY <2>2 DEF Draft
    <3> QED BY <2>2, <3>1, <3>2 DEF Event, Kinds, Fit
  <2>4. /\ \A f \in recorded : f.stamp # e.stamp
        /\ ledger' = [ledger EXCEPT ![On[p]][pc[p].scope] = @ \cup {e}]
        /\ recorded' = recorded \cup {e}
        /\ Goto(p, st)
    BY <2>1 DEF Reading
  <2>5. /\ UNCHANGED <<server, bucket>> /\ mixed' = Overlapped(p)
    BY <1>10 DEF Record
  <2> HIDE DEF e
  <2>6. st \in State' /\ st.stage \in {"push", "idle"}
    BY <2>4 DEF Idle, State, Stages, Draft, NoEvent
  <2>7. /\ pc' \in [Proc -> State'] /\ pc'[p] = st
        /\ \A q \in Proc \ {p} : pc'[q] = pc[q]
    <3>1. \A q \in Proc : pc[q] \in State'
      BY <1>2, <2>4 DEF State
    <3> HIDE DEF st
    <3> QED BY <2>4, <2>6, <3>1 DEF Goto, Inv, TypeInv
  <2>8. TypeInv'
    <3>1. ledger' \in [Machine -> [Scopes -> SUBSET recorded']]
      BY <1>5, <2>2, <2>4
    <3>2. /\ recorded' \subseteq Event /\ \A f \in recorded' : Fit(f)
          /\ \A f, g \in recorded' : f.stamp = g.stamp => f = g
      BY <2>3, <2>4 DEF Inv, TypeInv
    <3> QED BY <1>4, <1>5, <2>4, <2>5, <2>7, <3>1, <3>2 DEF TypeInv
  <2>9. DraftInv' /\ PushInv'
    <3>1. \A q \in Proc : \/ pc'[q] = pc[q]
                          \/ pc'[q].stage \in {"push", "idle"}
      BY <2>6, <2>7
    <3> QED BY <2>5, <3>1 DEF Inv, DraftInv, PushInv
  <2>10. RewriteInv'
    <3>1. ASSUME NEW q \in Proc, Rewriting(q)', On[q] \notin mixed' PROVE ledger'[On[q]]["company"] = {}
      <4>1. q # p /\ Rewriting(q) /\ On[q] \notin mixed
        BY <1>4, <2>5, <2>6, <2>7, <3>1 DEF Rewriting
      <4>2. On[q] # On[p]
        BY <2>5, <3>1, <4>1 DEF Overlapped
      <4> QED BY <1>2, <1>5, <2>2, <2>4, <4>1, <4>2 DEF Inv, RewriteInv
    <3> QED BY <3>1 DEF RewriteInv
  <2> QED BY <2>8, <2>9, <2>10 DEF Inv
<1>11. ASSUME NEW p \in Proc, NEW e \in recorded, NEW good \in State, NEW bad \in State,
              Post(p, e, good, bad)
       PROVE  /\ server \subseteq server' /\ server' \subseteq recorded
              /\ \/ Goto(p, good) /\ e \in server'
                 \/ Goto(p, bad)
  BY <1>5, <1>11 DEF Post
<1>12. ASSUME NEW p \in Proc, Push(p) PROVE Inv'
  <2>1. PICK e \in pc[p].todo : Post(p, e, Idle, Idle)
    BY <1>12 DEF Push
  <2>2. e \in recorded
    BY <1>2 DEF State
  <2>3. Goto(p, Idle) /\ server \subseteq server' /\ server' \subseteq recorded
    BY <1>11, <2>1, <2>2, IdleIsState
  <2>4. UNCHANGED <<ledger, bucket, recorded, mixed>>
    BY <1>12 DEF Push
  <2> QED BY <1>5, <2>3, <2>4, IdleIsState, StepKeepsInv
<1>13. ASSUME NEW p \in Proc, Sync(p) PROVE Inv'
  <2>1. UNCHANGED <<ledger, server, bucket, recorded, mixed>>
    BY <1>13 DEF Sync
  <2>2. CASE HasServer
    <3> DEFINE st == [Idle EXCEPT !.stage = "sync_push", !.todo = Local(On[p]),
                                  !.start = Local(On[p])]
    <3>1. st \in State /\ st.stage = "sync_push" /\ st.start = st.todo
      BY <1>2 DEF Idle, State, Stages, Draft, NoEvent
    <3>2. Goto(p, st)
      BY <1>13, <2>2 DEF Sync
    <3> HIDE DEF st
    <3> QED BY <1>5, <2>1, <3>1, <3>2, StepKeepsInv
  <2>3. CASE ~HasServer
    <3> DEFINE st == [Idle EXCEPT !.stage = "s3_get"]
    <3>1. st \in State /\ st.stage = "s3_get"
      BY DEF Idle, State, Stages, Draft, NoEvent
    <3>2. Goto(p, st)
      BY <1>13, <2>3 DEF Sync
    <3> HIDE DEF st
    <3> QED BY <1>6, <2>1, <3>1, <3>2
  <2> QED BY <2>2, <2>3
<1>14. ASSUME NEW p \in Proc, SyncPush(p) PROVE Inv'
  <2> DEFINE e == Earliest(pc[p].todo)
             good == [pc[p] EXCEPT !.todo = @ \ {e}]
             bad == [pc[p] EXCEPT !.todo = @ \ {e}, !.failed = TRUE]
  <2>1. /\ pc[p].stage = "sync_push" /\ pc[p].todo # {} /\ Post(p, e, good, bad)
        /\ UNCHANGED <<ledger, bucket, recorded, mixed>>
    BY <1>14 DEF SyncPush, Earliest
  <2>2. e \in recorded
    BY <1>2, <2>1, EarliestIsThere DEF Inv, State
  <2>3. /\ good \in State /\ good.stage = "sync_push" /\ good.todo = pc[p].todo \ {e}
        /\ good.start = pc[p].start /\ good.failed = pc[p].failed
    BY <1>2, <2>1 DEF State
  <2>4. bad \in State /\ bad.stage = "sync_push" /\ bad.failed
    BY <1>2, <2>1 DEF State
  <2>5. ~pc[p].failed => pc[p].start \subseteq server \cup pc[p].todo
    BY <2>1 DEF Inv, PushInv
  <2> HIDE DEF e, good, bad
  <2>6. /\ server \subseteq server' /\ server' \subseteq recorded
        /\ \/ Goto(p, good) /\ e \in server'
           \/ Goto(p, bad)
    BY <1>11, <2>1, <2>2, <2>3, <2>4
  <2>7. CASE Goto(p, good) /\ e \in server'
    <3>1. ~good.failed => good.start \subseteq server' \cup good.todo
      BY <2>3, <2>5, <2>6, <2>7
    <3> QED BY <1>5, <2>1, <2>3, <2>6, <2>7, <3>1, StepKeepsInv
  <2>8. CASE Goto(p, bad)
    BY <1>5, <2>1, <2>4, <2>6, <2>8, StepKeepsInv
  <2> QED BY <2>6, <2>7, <2>8
<1>15. ASSUME NEW p \in Proc PROVE AfterServer(p) \in State /\ AfterServer(p).stage \in {"idle", "s3_get"}
  BY DEF AfterServer, Idle, State, Stages, Draft, NoEvent
<1>16. ASSUME NEW p \in Proc, SyncFetch(p) PROVE Inv'
  <2>1. /\ pc[p].stage = "sync_push" /\ pc[p].todo = {}
        /\ UNCHANGED <<ledger, server, bucket, recorded, mixed>>
    BY <1>16 DEF SyncFetch
  <2>2. CASE Goto(p, AfterServer(p))
    BY <1>6, <1>15, <2>1, <2>2
  <2>3. CASE Goto(p, [pc[p] EXCEPT !.stage = "sync_merge", !.got = Page(server)])
    <3> DEFINE st == [pc[p] EXCEPT !.stage = "sync_merge", !.got = Page(server)]
    <3>1. st \in State /\ st.stage = "sync_merge" /\ st.todo = {} /\ st.start = pc[p].start
          /\ st.failed = pc[p].failed
      BY <1>2, <1>3, <2>1 DEF State, Stages
    <3>2. ~pc[p].failed => pc[p].start \subseteq server \cup pc[p].todo
      BY <2>1 DEF Inv, PushInv
    <3>3. Goto(p, st)
      BY <2>3
    <3> HIDE DEF st
    <3> QED BY <1>5, <2>1, <3>1, <3>2, <3>3, StepKeepsInv
  <2> QED BY <1>16, <2>2, <2>3 DEF SyncFetch
\* The rewrite of the cache.
<1>17. ASSUME NEW p \in Proc, NEW stage \in {"sync_write", "s3_write"},
              pc[p].stage = IF stage = "sync_write" THEN "sync_merge" ELSE "s3_merge",
              Goto(p, [pc[p] EXCEPT !.stage = stage, !.got = @ \cup ledger[On[p]]["company"]]),
              ledger' = [ledger EXCEPT ![On[p]]["company"] = {}],
              mixed' = Overlapped(p), UNCHANGED <<server, bucket, recorded>>
       PROVE  Inv'
  <2> DEFINE st == [pc[p] EXCEPT !.stage = stage, !.got = @ \cup ledger[On[p]]["company"]]
  <2>1. /\ ledger' \in [Machine -> [Scopes -> SUBSET recorded]]
        /\ ledger'[On[p]]["company"] = {}
        /\ \A m \in Machine : ledger'[m]["company"] \subseteq ledger[m]["company"]
    BY <1>2, <1>5, <1>17 DEF Scopes
  <2>2. /\ st \in State /\ st.stage = stage /\ st.todo = pc[p].todo /\ st.start = pc[p].start
        /\ st.failed = pc[p].failed
    <3>1. ledger[On[p]]["company"] \subseteq recorded
      BY <1>2, <1>5 DEF Scopes
    <3> QED BY <1>2, <3>1 DEF State, Stages
  <2>3. stage = "sync_write" => /\ pc[p].todo = {}
                                /\ ~pc[p].failed => pc[p].start \subseteq server \cup pc[p].todo
    BY <1>17 DEF Inv, PushInv
  <2>4. Goto(p, st)
    BY <1>17
  <2>5. \A q \in Proc : ledger'[On[q]]["company"] \subseteq ledger[On[q]]["company"]
    BY <1>2, <2>1
  <2> HIDE DEF st
  <2> QED BY <1>4, <1>5, <1>17, <2>1, <2>2, <2>3, <2>4, <2>5, StepKeepsInv
<1>18. ASSUME NEW p \in Proc, SyncMerge(p) \/ S3Merge(p) PROVE Inv'
  <2>1. CASE SyncMerge(p)
    BY <1>17, <2>1 DEF SyncMerge
  <2>2. CASE S3Merge(p)
    BY <1>17, <2>2 DEF S3Merge
  <2> QED BY <1>18, <2>1, <2>2
<1>19. ASSUME NEW p \in Proc, NEW st \in State, Rewriting(p), Goto(p, st),
              st.stage \in {"idle", "s3_get", "s3_put"},
              ledger' = [ledger EXCEPT ![On[p]]["company"] = pc[p].got],
              mixed' = Overlapped(p), UNCHANGED <<server, bucket, recorded>>
       PROVE  Inv'
  <2>1. ledger' \in [Machine -> [Scopes -> SUBSET recorded]]
    <3>1. pc[p].got \subseteq recorded
      BY <1>2 DEF State
    <3> QED BY <1>2, <1>5, <1>19, <3>1
  <2>2. ASSUME NEW q \in Proc \ {p}, Rewriting(q), On[q] \notin mixed'
        PROVE  ledger'[On[q]]["company"] \subseteq ledger[On[q]]["company"]
    <3>1. On[q] # On[p]
      BY <1>19, <2>2 DEF Overlapped
    <3> QED BY <1>2, <1>5, <1>19, <3>1
  <2> QED BY <1>4, <1>5, <1>19, <2>1, <2>2, StepKeepsInv
<1>20. ASSUME NEW p \in Proc, SyncWrite(p) PROVE Inv'
  BY <1>15, <1>19, <1>20 DEF SyncWrite, Rewriting
<1>21. ASSUME NEW p \in Proc, S3Write(p) PROVE Inv'
  <2>1. [pc[p] EXCEPT !.stage = "s3_put"] \in State /\ [pc[p] EXCEPT !.stage = "s3_put"].stage = "s3_put"
    BY <1>2 DEF State, Stages
  <2> QED BY <1>19, <1>21, <2>1 DEF S3Write, Rewriting
<1>22. ASSUME NEW p \in Proc, S3Get(p) PROVE Inv'
  <2>1. UNCHANGED <<ledger, server, bucket, recorded, mixed>>
    BY <1>22 DEF S3Get
  <2>2. PICK got \in {bucket, pc[p].got} : Goto(p, [pc[p] EXCEPT !.stage = "s3_merge", !.got = got])
    <3>1. [pc[p] EXCEPT !.stage = "s3_merge"] = [pc[p] EXCEPT !.stage = "s3_merge", !.got = pc[p].got]
      BY <1>2 DEF State
    <3> QED BY <1>22, <3>1 DEF S3Get
  <2> DEFINE st == [pc[p] EXCEPT !.stage = "s3_merge", !.got = got]
  <2>3. st \in State /\ st.stage = "s3_merge"
    BY <1>2, <1>5 DEF State, Stages
  <2> HIDE DEF st
  <2> QED BY <1>6, <2>1, <2>2, <2>3 DEF st
<1>23. ASSUME NEW p \in Proc, S3Put(p) PROVE Inv'
  <2>1. /\ UNCHANGED <<ledger, server, recorded, mixed>> /\ Goto(p, Idle)
        /\ bucket' \subseteq recorded
    BY <1>2, <1>5, <1>23 DEF S3Put, State
  <2> QED BY <1>5, <2>1, IdleIsState, StepKeepsInv
<1>24. ASSUME NEW p \in Proc, Kill(p) PROVE Inv'
  <2>1. /\ UNCHANGED <<ledger, server, bucket, recorded>> /\ Goto(p, Idle)
        /\ mixed \subseteq mixed' /\ mixed' \subseteq Machine
    BY <1>2, <1>5, <1>24 DEF Kill
  <2> QED BY <1>5, <2>1, IdleIsState, StepKeepsInv
<1> QED BY <1>1, <1>7, <1>8, <1>9, <1>10, <1>12, <1>13, <1>14, <1>16, <1>18, <1>20, <1>21, <1>22,
           <1>23, <1>24 DEF Next, Command, Synchronize

-----------------------------------------------------------------------------
\* tasks_cli, tasks_remote: whatever is in a ledger, on the server or in the object was
\* recorded by a command, once, under a stamp of its own.
THEOREM NothingInvented == Spec => []Inv
BY InvInit, InvNext, PTL DEF Spec

\* _cmd_sync: a sync none of whose pushes failed left everything that its machine held on
\* the server.
THEOREM CleanSyncReconciles == Spec => []SyncReconciles
<1>1. Inv => SyncReconciles
  BY DEF Inv, PushInv, SyncReconciles
<1> QED BY <1>1, NothingInvented, PTL

-----------------------------------------------------------------------------
(* Nothing is lost.                                                        *)

\* What a step of p may do to the events that its machine keeps.
LEMMA CacheSteps ==
    ASSUME Inv, NEW p \in Proc, Command(p) \/ Synchronize(p) \/ Kill(p)
    PROVE  /\ server \subseteq server' /\ mixed \subseteq mixed'
           /\ \A q \in Proc \ {p} : pc'[q] = pc[q]
           /\ \/ /\ \A m \in Machine, s \in Scopes : ledger[m][s] \subseteq ledger'[m][s]
                 /\ Rewriting(p) => On[p] \in mixed'
              \/ /\ ledger' = [ledger EXCEPT ![On[p]]["company"] = {}]
                 /\ ~Rewriting(p) /\ Rewriting(p)'
                 /\ ledger[On[p]]["company"] \subseteq pc'[p].got
              \/ /\ ledger' = [ledger EXCEPT ![On[p]]["company"] = pc[p].got]
                 /\ Rewriting(p)
<1>1. /\ ledger \in [Machine -> [Scopes -> SUBSET recorded]]
      /\ pc \in [Proc -> State] /\ pc[p] \in State /\ On[p] \in Machine
  BY TaskAssumption DEF Inv, TypeInv
<1>2. ASSUME NEW st, Goto(p, st)
      PROVE  pc'[p] = st /\ \A q \in Proc \ {p} : pc'[q] = pc[q]
  BY <1>1, <1>2 DEF Goto
<1>3. mixed \subseteq Overlapped(p)
  BY DEF Overlapped
<1>4. ASSUME NEW st, Goto(p, st), UNCHANGED ledger, server \subseteq server', mixed \subseteq mixed',
             Rewriting(p) => On[p] \in mixed'
      PROVE  /\ server \subseteq server' /\ mixed \subseteq mixed'
             /\ \A q \in Proc \ {p} : pc'[q] = pc[q]
             /\ \A m \in Machine, s \in Scopes : ledger[m][s] \subseteq ledger'[m][s]
             /\ Rewriting(p) => On[p] \in mixed'
  BY <1>2, <1>4
<1>5. CASE Create(p) \/ Mutate(p) \/ Promote(p) \/ Look(p) \/ Sync(p) \/ SyncFetch(p) \/ S3Get(p) \/ S3Put(p)
  <2>1. \E st : Goto(p, st)
    BY <1>5 DEF Create, Mutate, Promote, Look, Sync, SyncFetch, S3Get, S3Put
  <2>2. ~Rewriting(p) /\ UNCHANGED <<ledger, server, mixed>>
    BY <1>5 DEF Rewriting, Create, Mutate, Promote, Look, Sync, SyncFetch, S3Get, S3Put
  <2> QED BY <1>4, <2>1, <2>2
<1>6. CASE Kill(p)
  <2>1. Goto(p, Idle) /\ UNCHANGED <<ledger, server>> /\ mixed \subseteq mixed'
        /\ (Rewriting(p) => On[p] \in mixed')
    BY <1>6 DEF Kill
  <2> QED BY <1>4, <2>1
<1>7. CASE Push(p) \/ SyncPush(p)
  <2>1. \E e, good, bad : Post(p, e, good, bad)
    BY <1>7 DEF Push, SyncPush
  <2>2. server \subseteq server' /\ \E st : Goto(p, st)
    BY <2>1 DEF Post
  <2>3. ~Rewriting(p) /\ UNCHANGED <<ledger, mixed>>
    BY <1>7 DEF Rewriting, Push, SyncPush
  <2> QED BY <1>4, <2>2, <2>3
<1>8. CASE Record(p)
  <2>1. \E st : Goto(p, st)
    BY <1>8 DEF Record
  <2>2. \E e : ledger' = [ledger EXCEPT ![On[p]][pc[p].scope] = @ \cup {e}]
    BY <1>8 DEF Record
  <2>3. \A m \in Machine, s \in Scopes : ledger[m][s] \subseteq ledger'[m][s]
    BY <1>1, <2>2
  <2>4. ~Rewriting(p) /\ UNCHANGED server /\ mixed \subseteq mixed'
    BY <1>3, <1>8 DEF Rewriting, Record
  <2> QED BY <1>2, <2>1, <2>3, <2>4
<1>9. ASSUME NEW stage \in {"sync_write", "s3_write"},
             Goto(p, [pc[p] EXCEPT !.stage = stage, !.got = @ \cup ledger[On[p]]["company"]])
      PROVE  Rewriting(p)' /\ ledger[On[p]]["company"] \subseteq pc'[p].got
  <2> DEFINE st == [pc[p] EXCEPT !.stage = stage, !.got = @ \cup ledger[On[p]]["company"]]
  <2>1. st.stage = stage /\ st.got = pc[p].got \cup ledger[On[p]]["company"]
    BY <1>1 DEF State
  <2>2. pc'[p] = st
    BY <1>2, <1>9
  <2> HIDE DEF st
  <2> QED BY <2>1, <2>2 DEF Rewriting
<1>10. CASE SyncMerge(p) \/ S3Merge(p)
  <2>1. /\ ledger' = [ledger EXCEPT ![On[p]]["company"] = {}]
        /\ UNCHANGED server /\ mixed \subseteq mixed' /\ ~Rewriting(p)
    BY <1>3, <1>10 DEF SyncMerge, S3Merge, Rewriting
  <2>2. \E stage \in {"sync_write", "s3_write"} :
            Goto(p, [pc[p] EXCEPT !.stage = stage, !.got = @ \cup ledger[On[p]]["company"]])
    BY <1>10 DEF SyncMerge, S3Merge
  <2>3. Rewriting(p)' /\ ledger[On[p]]["company"] \subseteq pc'[p].got
    BY <1>9, <2>2
  <2> QED BY <1>2, <2>1, <2>2, <2>3
<1>11. CASE SyncWrite(p) \/ S3Write(p)
  <2>1. /\ ledger' = [ledger EXCEPT ![On[p]]["company"] = pc[p].got]
        /\ UNCHANGED server /\ mixed \subseteq mixed' /\ Rewriting(p)
    BY <1>3, <1>11 DEF SyncWrite, S3Write, Rewriting
  <2>2. \E st : Goto(p, st)
    BY <1>11 DEF SyncWrite, S3Write
  <2> QED BY <1>2, <2>1, <2>2
<1> QED BY <1>5, <1>6, <1>7, <1>8, <1>10, <1>11 DEF Command, Synchronize

LEMMA NothingLostNext ==
    ASSUME Inv, NothingLost, [Next]_vars
    PROVE  NothingLost'
<1>1. CASE UNCHANGED vars
  BY <1>1 DEF vars, NothingLost, Local, Rewriting
<1>2. ASSUME NEW p \in Proc, Command(p) \/ Synchronize(p) \/ Kill(p), NEW e \in recorded,
             e.at \notin mixed'
      PROVE  \/ e \in Local(e.at)' \cup server'
             \/ \E q \in Proc : On[q] = e.at /\ Rewriting(q)' /\ e \in pc'[q].got
  <2>1. e.at \notin mixed /\ server \subseteq server' /\ \A q \in Proc \ {p} : pc'[q] = pc[q]
    BY <1>2, CacheSteps
  <2>2. /\ ledger \in [Machine -> [Scopes -> SUBSET recorded]]
        /\ On[p] \in Machine /\ e.at \in Machine
    <3>1. e \in Event
      BY DEF Inv, TypeInv
    <3>2. e.at \in Machine
      BY <3>1 DEF Event
    <3> QED BY <3>2, TaskAssumption DEF Inv, TypeInv
  <2>3. \/ e \in Local(e.at) \cup server
        \/ \E q \in Proc : On[q] = e.at /\ Rewriting(q) /\ e \in pc[q].got
    BY <2>1 DEF NothingLost
  <2>4. CASE e \in server
    BY <2>1, <2>4
  <2>5. ASSUME NEW q \in Proc \ {p}, On[q] = e.at, Rewriting(q), e \in pc[q].got
        PROVE  On[q] = e.at /\ Rewriting(q)' /\ e \in pc'[q].got
    BY <2>1, <2>5 DEF Rewriting
  <2>6. CASE /\ \A m \in Machine, s \in Scopes : ledger[m][s] \subseteq ledger'[m][s]
             /\ Rewriting(p) => On[p] \in mixed'
    <3>1. Local(e.at) \subseteq Local(e.at)'
      BY <2>2, <2>6 DEF Local, Scopes
    <3>2. ~(On[p] = e.at /\ Rewriting(p))
      BY <1>2, <2>6
    <3> QED BY <2>3, <2>4, <2>5, <3>1, <3>2
  <2>7. CASE /\ ledger' = [ledger EXCEPT ![On[p]]["company"] = {}]
             /\ ~Rewriting(p) /\ Rewriting(p)'
             /\ ledger[On[p]]["company"] \subseteq pc'[p].got
    <3>1. CASE e \in Local(e.at)
      <4>1. CASE e \in Local(e.at)'
        BY <4>1
      <4>2. CASE e \notin Local(e.at)'
        <5>1. On[p] = e.at /\ e \in ledger[On[p]]["company"]
          BY <2>2, <2>7, <3>1, <4>2 DEF Local, Scopes
        <5> QED BY <2>7, <5>1
      <4> QED BY <4>1, <4>2
    <3> QED BY <2>3, <2>4, <2>5, <2>7, <3>1
  <2>8. CASE /\ ledger' = [ledger EXCEPT ![On[p]]["company"] = pc[p].got]
             /\ Rewriting(p)
    <3>1. CASE e \in Local(e.at)
      <4>1. On[p] = e.at => ledger[On[p]]["company"] = {}
        BY <2>1, <2>8 DEF Inv, RewriteInv
      <4>2. e \in Local(e.at)'
        BY <2>2, <2>8, <3>1, <4>1 DEF Local, Scopes
      <4> QED BY <4>2
    <3>2. CASE On[p] = e.at /\ e \in pc[p].got
      <4>1. e \in Local(e.at)'
        BY <2>2, <2>8, <3>2 DEF Local, Scopes
      <4> QED BY <4>1
    <3> QED BY <2>3, <2>4, <2>5, <3>1, <3>2
  <2> QED BY <1>2, <2>6, <2>7, <2>8, CacheSteps
<1>3. ASSUME NEW p \in Proc, Command(p) \/ Synchronize(p) \/ Kill(p), NEW e \in recorded', e \notin recorded
      PROVE  e \in Local(e.at)'
  <2>1. Record(p)
    BY <1>3 DEF Command, Synchronize, Kill, Create, Mutate, Promote, Look, Push, Sync, SyncPush,
                SyncFetch, SyncMerge, SyncWrite, S3Get, S3Merge, S3Write, S3Put
  <2>2. e.at = On[p] /\ ledger' = [ledger EXCEPT ![On[p]][pc[p].scope] = @ \cup {e}]
    <3>1. PICK d : /\ d.at = On[p]
                   /\ ledger' = [ledger EXCEPT ![On[p]][pc[p].scope] = @ \cup {d}]
                   /\ recorded' = recorded \cup {d}
      BY <2>1 DEF Record
    <3> QED BY <1>3, <3>1
  <2>3. /\ ledger \in [Machine -> [Scopes -> SUBSET recorded]]
        /\ On[p] \in Machine /\ pc[p].scope \in Scopes
    BY <2>1, TaskAssumption DEF Record, Inv, TypeInv, DraftInv
  <2> QED BY <2>2, <2>3 DEF Local, Scopes
<1>4. ASSUME NEW p \in Proc, Command(p) \/ Synchronize(p) \/ Kill(p) PROVE NothingLost'
  <2>1. ASSUME NEW e \in recorded', e.at \notin mixed'
        PROVE  \/ e \in Local(e.at)' \cup server'
               \/ \E q \in Proc : On[q] = e.at /\ Rewriting(q)' /\ e \in pc'[q].got
    BY <1>2, <1>3, <1>4, <2>1
  <2> QED BY <2>1 DEF NothingLost
<1> QED BY <1>1, <1>4 DEF Next

\* tasks_cli: no recorded event is lost, whatever requests fail and wherever a process is
\* killed, unless a rewrite of the machine's cache was killed or overlapped with another.
THEOREM EventsAreNotLost == Spec => []NothingLost
<1>1. Init => NothingLost
  BY DEF Init, NothingLost
<1>2. Inv /\ NothingLost /\ [Next]_vars => NothingLost'
  BY NothingLostNext
<1> QED BY <1>1, <1>2, NothingInvented, PTL DEF Spec

-----------------------------------------------------------------------------
(* What a fold shows of a set of events.                                   *)

\* What the fold knows of each set of events: it takes the last event of the set last.
IsFold(f, g, k) ==
    f = [s \in SUBSET (1 .. k) |->
            IF s = {} THEN NoTask ELSE FoldEvent(f[s \ {Max(s)}], g[Max(s)])]

LEMMA MaxIsLast ==
    ASSUME NEW m \in Nat, NEW s \in SUBSET (1 .. m), m \in s
    PROVE  Max(s) = m
<1>1. \E x \in s : \A y \in s : x >= y
  OBVIOUS
<1>2. Max(s) \in s /\ \A y \in s : Max(s) >= y
  BY <1>1 DEF Max
<1>3. Max(s) \in 1 .. m /\ Max(s) >= m
  BY <1>2
<1> HIDE DEF Max
<1> QED BY <1>3

LEMMA FoldExists ==
    ASSUME NEW n \in Nat, NEW g
    PROVE  \E f : IsFold(f, g, n)
<1> DEFINE S == {k \in 0 .. n : ~ \E f : IsFold(f, g, k)}
<1>1. SUFFICES ASSUME S # {} PROVE FALSE
  OBVIOUS
<1>2. PICK m \in S : \A k \in S : m <= k
  <2>1. S \in SUBSET Nat
    OBVIOUS
  <2> HIDE DEF S
  <2> QED BY <1>1, <2>1, LeastNatural
<1>3. m \in Nat /\ m \in 0 .. n /\ ~ \E f : IsFold(f, g, m)
  OBVIOUS
<1>4. CASE m = 0
  <2> DEFINE f == [s \in SUBSET (1 .. 0) |-> NoTask]
  <2>1. \A s \in SUBSET (1 .. 0) : s = {}
    OBVIOUS
  <2>2. IsFold(f, g, 0)
    BY <2>1 DEF IsFold
  <2> QED BY <1>3, <1>4, <2>2
<1>5. CASE m # 0
  <2>1. m - 1 \in 0 .. n /\ m - 1 \notin S
    BY <1>2, <1>3, <1>5
  <2>2. PICK f : IsFold(f, g, m - 1)
    BY <2>1
  <2>3. \A s \in SUBSET (1 .. (m - 1)) :
           f[s] = IF s = {} THEN NoTask ELSE FoldEvent(f[s \ {Max(s)}], g[Max(s)])
    BY <2>2 DEF IsFold
  <2> DEFINE h == [s \in SUBSET (1 .. m) |->
                      IF m \in s THEN FoldEvent(f[s \ {m}], g[m]) ELSE f[s]]
  <2>4. ASSUME NEW s \in SUBSET (1 .. m)
        PROVE  h[s] = IF s = {} THEN NoTask ELSE FoldEvent(h[s \ {Max(s)}], g[Max(s)])
    <3>1. s \ {Max(s)} \in SUBSET (1 .. m)
      OBVIOUS
    <3>2. CASE m \in s
      <4>1. Max(s) = m
        BY <1>3, <3>2, MaxIsLast
      <4>2. h[s \ {m}] = f[s \ {m}]
        BY <3>1, <4>1
      <4>3. h[s] = FoldEvent(f[s \ {m}], g[m])
        BY <3>2
      <4> QED BY <3>2, <4>1, <4>2, <4>3
    <3>3. CASE m \notin s
      <4>1. s \in SUBSET (1 .. (m - 1)) /\ m \notin s \ {Max(s)}
        BY <1>3, <3>3
      <4>2. h[s] = f[s] /\ h[s \ {Max(s)}] = f[s \ {Max(s)}]
        BY <3>1, <3>3, <4>1
      <4>3. f[s] = IF s = {} THEN NoTask ELSE FoldEvent(f[s \ {Max(s)}], g[Max(s)])
        BY <2>3, <4>1
      <4> HIDE DEF h
      <4> QED BY <4>2, <4>3
    <3> QED BY <3>2, <3>3
  <2>5. h = [s \in SUBSET (1 .. m) |-> h[s]]
    OBVIOUS
  <2> HIDE DEF h
  <2>6. IsFold(h, g, m)
    BY <2>4, <2>5 DEF IsFold
  <2> QED BY <1>3, <2>6
<1> QED BY <1>4, <1>5

\* After each event the task is that of FoldEvent on the task before.
LEMMA FoldStep ==
    ASSUME NEW g, NEW n \in Nat, DOMAIN g = 1 .. n
    PROVE  \E h : /\ h[0] = NoTask
                  /\ \A i \in 1 .. n : h[i] = FoldEvent(h[i - 1], g[i])
                  /\ FoldLeft(FoldEvent, NoTask, g) = h[n]
<1> DEFINE it == CHOOSE f : IsFold(f, g, n)
<1>1. IsFold(it, g, n)
  BY FoldExists
<1>2. FoldLeft(FoldEvent, NoTask, g) = it[1 .. n]
  BY DEF FoldLeft, MapThenFoldSet, IsFold
<1> HIDE DEF it
<1> DEFINE h == [k \in 0 .. n |-> it[1 .. k]]
<1>3. h[0] = NoTask
  <2>1. 1 .. 0 = {} /\ 1 .. 0 \in SUBSET (1 .. n)
    OBVIOUS
  <2>2. it[1 .. 0] = NoTask
    BY <1>1, <2>1 DEF IsFold
  <2> QED BY <2>2
<1>4. ASSUME NEW i \in 1 .. n PROVE h[i] = FoldEvent(h[i - 1], g[i])
  <2>1. 1 .. i \in SUBSET (1 .. n) /\ 1 .. i # {} /\ i \in 1 .. i
    OBVIOUS
  <2>2. Max(1 .. i) = i
    BY <2>1, MaxIsLast
  <2>3. (1 .. i) \ {i} = 1 .. (i - 1)
    OBVIOUS
  <2>4. it[1 .. i] = FoldEvent(it[(1 .. i) \ {Max(1 .. i)}], g[Max(1 .. i)])
    BY <1>1, <2>1 DEF IsFold
  <2>5. h[i] = it[1 .. i] /\ h[i - 1] = it[1 .. (i - 1)]
    OBVIOUS
  <2> HIDE DEF h
  <2> QED BY <2>2, <2>3, <2>4, <2>5
<1>5. h[n] = it[1 .. n]
  OBVIOUS
<1> HIDE DEF h
<1> QED BY <1>2, <1>3, <1>4, <1>5

LEMMA UpTo ==
    ASSUME NEW a \in Nat, NEW b \in Nat, NEW S, a \in S,
           \A k \in a .. (b - 1) : k \in S => k + 1 \in S
    PROVE  a .. b \subseteq S
<1> DEFINE out == (a .. b) \ S
<1>1. SUFFICES ASSUME out # {} PROVE FALSE
  OBVIOUS
<1>2. PICK m \in out : \A k \in out : m <= k
  <2>1. out \in SUBSET Nat
    OBVIOUS
  <2> HIDE DEF out
  <2> QED BY <1>1, <2>1, LeastNatural
<1>3. m \in a .. b /\ m # a /\ m \notin S
  OBVIOUS
<1>4. m - 1 \in a .. (b - 1) /\ m - 1 \notin out
  BY <1>2, <1>3
<1>5. m - 1 \in S
  BY <1>4
<1>6. (m - 1) + 1 \in S
  BY <1>4, <1>5
<1> QED BY <1>3, <1>6

LEMMA StampOrder ==
    ASSUME NEW E, IsFiniteSet(E), \A e \in E : e.stamp \in Nat,
           \A e, f \in E : e.stamp = f.stamp => e = f
    PROVE  LET g == InStampOrder(E)
               n == Cardinality(E)
           IN  /\ n \in Nat /\ DOMAIN g = 1 .. n
               /\ \A i \in 1 .. n : g[i] \in E
               /\ \A e \in E : \E i \in 1 .. n : g[i] = e
               /\ \A i, j \in 1 .. n : i < j => g[i].stamp < g[j].stamp
<1> DEFINE n == Cardinality(E)
           g == InStampOrder(E)
           Upto(e) == {f \in E : f.stamp <= e.stamp}
           rank == [e \in E |-> Cardinality(Upto(e))]
<1>1. n \in Nat
  BY FS_CardinalityType
<1>2. ASSUME NEW e \in E
      PROVE  IsFiniteSet(Upto(e)) /\ Cardinality(Upto(e)) \in 1 .. n
  <2>1. Upto(e) \in SUBSET E /\ e \in Upto(e)
    OBVIOUS
  <2> HIDE DEF Upto
  <2>2. IsFiniteSet(Upto(e)) /\ Cardinality(Upto(e)) <= n
    BY <2>1, FS_Subset
  <2>3. Cardinality(Upto(e)) \in Nat /\ Cardinality(Upto(e)) # 0
    BY <2>1, <2>2, FS_CardinalityType, FS_EmptySet
  <2> HIDE DEF n
  <2> QED BY <1>1, <2>2, <2>3
<1>3. ASSUME NEW e \in E, NEW f \in E, e.stamp < f.stamp PROVE rank[e] < rank[f]
  <2>1. Upto(e) \in SUBSET Upto(f) /\ f \in Upto(f) /\ f \notin Upto(e)
    BY <1>3
  <2>2. Upto(e) # Upto(f)
    BY <2>1
  <2>3. rank[e] = Cardinality(Upto(e)) /\ rank[f] = Cardinality(Upto(f))
    OBVIOUS
  <2> HIDE DEF Upto, rank, n
  <2>4. Cardinality(Upto(e)) <= Cardinality(Upto(f)) /\ Cardinality(Upto(e)) # Cardinality(Upto(f))
    BY <1>2, <2>1, <2>2, FS_Subset
  <2> QED BY <1>2, <2>3, <2>4
<1>4. rank \in [E -> 1 .. n]
  BY <1>2
<1>5. rank \in Injection(E, 1 .. n)
  <2>1. ASSUME NEW e \in E, NEW f \in E, rank[e] = rank[f] PROVE e = f
    <3>1. rank[e] \in 1 .. n
      BY <1>4
    <3> HIDE DEF rank, n
    <3>2. ~(e.stamp < f.stamp) /\ ~(f.stamp < e.stamp)
      BY <1>1, <1>3, <2>1, <3>1
    <3> QED BY <3>2
  <2> HIDE DEF rank, n
  <2> QED BY <1>4, <2>1 DEF Injection, IsInjective
<1>6. rank \in Surjection(E, 1 .. n)
  <2>1. IsFiniteSet(1 .. n) /\ Cardinality(1 .. n) = n
    BY <1>1, FS_Interval
  <2> HIDE DEF rank
  <2> QED BY <1>5, <2>1, FS_Injection
<1>7. ASSUME NEW i \in 1 .. n PROVE g[i] \in E /\ rank[g[i]] = i
  <2>1. \E e \in E : rank[e] = i
    <3> HIDE DEF rank, n
    <3> QED BY <1>6 DEF Surjection
  <2>2. \E e \in E : Cardinality(Upto(e)) = i
    BY <2>1
  <2>3. g[i] = CHOOSE e \in E : Cardinality(Upto(e)) = i
    BY DEF InStampOrder
  <2> HIDE DEF g, Upto
  <2>4. g[i] \in E /\ Cardinality(Upto(g[i])) = i
    BY <2>2, <2>3
  <2> QED BY <2>4 DEF Upto
<1>8. DOMAIN g = 1 .. n
  BY DEF InStampOrder
<1> HIDE DEF g, rank, n
<1>9. ASSUME NEW e \in E PROVE \E i \in 1 .. n : g[i] = e
  <2>1. rank[e] \in 1 .. n
    BY <1>4
  <2>2. g[rank[e]] \in E /\ rank[g[rank[e]]] = rank[e]
    BY <1>7, <2>1
  <2>3. g[rank[e]] = e
    BY <1>5, <2>2 DEF Injection, IsInjective
  <2> QED BY <2>1, <2>3
<1>10. ASSUME NEW i \in 1 .. n, NEW j \in 1 .. n, i < j PROVE g[i].stamp < g[j].stamp
  <2>1. g[i] \in E /\ g[j] \in E /\ rank[g[i]] = i /\ rank[g[j]] = j
    BY <1>7
  <2>2. ~(g[j].stamp < g[i].stamp)
    BY <1>1, <1>3, <1>10, <2>1
  <2>3. g[i].stamp # g[j].stamp
    BY <1>1, <1>10, <2>1
  <2> QED BY <2>1, <2>2, <2>3
<1> QED BY <1>1, <1>7, <1>8, <1>9, <1>10 DEF g, n

Task == [exists : BOOLEAN, scope : Scopes \cup {""}, status : Statuses \cup {""}, comments : SUBSET Nat]

Comments(E) == {e.stamp : e \in {f \in E : f.kind = "task_commented" /\ f.text # ""}}
Setters(E) == {e \in E : e.status # ""}

\* A task shows a set of events.
Shows(task, E) ==
    /\ task \in Task /\ (E # {} => task.exists)
    /\ task.comments = Comments(E)
    /\ Setters(E) # {} => \E e \in Setters(E) : /\ task.status = e.status
                                               /\ \A f \in Setters(E) : f.stamp <= e.stamp

LEMMA EventFields ==
    ASSUME NEW e \in Event
    PROVE  /\ e.stamp \in 1 .. MaxStamp /\ e.stamp \in Nat
           /\ e.status \in Statuses \cup {""} /\ e.scope \in Scopes \cup {""}
<1>1. e.stamp \in 1 .. MaxStamp /\ e.status \in Statuses \cup {""} /\ e.scope \in Scopes \cup {""}
  BY DEF Event
<1>2. e.stamp \in 1 .. MaxStamp
  BY <1>1
<1>3. e.stamp \in Nat
  BY <1>2
<1> QED BY <1>1, <1>3

LEMMA ShowsNothing == Shows(NoTask, {})
<1>1. NoTask \in Task
  BY DEF NoTask, Task
<1>2. Comments({}) = {} /\ Setters({}) = {}
  BY DEF Comments, Setters
<1> QED BY <1>1, <1>2 DEF Shows, NoTask

\* The next event, later than all before, is shown as well.
LEMMA ShowsMore ==
    ASSUME NEW E \in SUBSET Event, NEW e \in Event, NEW task, Shows(task, E),
           \A f \in E : f.stamp < e.stamp
    PROVE  Shows(FoldEvent(task, e), E \cup {e})
<1> DEFINE base == IF task.exists THEN task ELSE NewTask(e)
           said == IF e.kind = "task_commented" /\ e.text # "" THEN {e.stamp} ELSE {}
           status == IF e.status = "" THEN base.status ELSE e.status
           new == FoldEvent(task, e)
           F == E \cup {e}
<1>1. /\ e.stamp \in Nat /\ e.status \in Statuses \cup {""} /\ e.scope \in Scopes \cup {""}
      /\ \A f \in E : f.stamp \in Nat
  BY EventFields
<1>2. task \in Task
  BY DEF Shows
<1>3. base \in Task /\ base.exists /\ base.comments = Comments(E)
  <2>1. CASE task.exists
    BY <1>2, <2>1 DEF Shows
  <2>2. CASE ~task.exists
    <3>1. E = {}
      BY <2>2 DEF Shows
    <3>2. Comments(E) = {}
      BY <3>1 DEF Comments
    <3>3. NewTask(e) \in Task /\ NewTask(e).exists /\ NewTask(e).comments = {}
      BY <1>1 DEF NewTask, Task, Scopes, Statuses
    <3> QED BY <2>2, <3>2, <3>3
  <2> QED BY <2>1, <2>2
<1>4. new = [base EXCEPT !.status = status, !.comments = base.comments \cup said]
  <2>1. base.comments \cup {} = base.comments
    OBVIOUS
  <2> HIDE DEF base
  <2> QED BY <1>3, <2>1 DEF FoldEvent, base, Task
<1>5. status \in Statuses \cup {""} /\ said \in SUBSET Nat
  BY <1>1, <1>3 DEF Task
<1> HIDE DEF base, new
<1>6. new \in Task /\ new.exists /\ new.status = status /\ new.comments = base.comments \cup said
  BY <1>3, <1>4, <1>5 DEF Task
<1>7. new.comments = Comments(F)
  <2>1. Comments(F) = Comments(E) \cup said
    BY DEF Comments
  <2> QED BY <1>3, <1>6, <2>1
<1>8. ASSUME Setters(F) # {}
      PROVE  \E d \in Setters(F) : /\ new.status = d.status
                                   /\ \A f \in Setters(F) : f.stamp <= d.stamp
  <2>1. CASE e.status # ""
    <3>1. e \in Setters(F) /\ new.status = e.status
      BY <1>6, <2>1 DEF Setters
    <3>2. \A f \in Setters(F) : f.stamp <= e.stamp
      <4>1. ASSUME NEW f \in Setters(F) PROVE f.stamp <= e.stamp
        <5>1. f \in E \/ f = e
          BY DEF Setters
        <5>2. CASE f \in E
          <6>1. f.stamp \in Nat /\ e.stamp \in Nat /\ f.stamp < e.stamp
            BY <1>1, <5>2
          <6> QED BY <6>1
        <5>3. CASE f = e
          <6>1. f.stamp = e.stamp /\ e.stamp \in Nat
            BY <1>1, <5>3
          <6> QED BY <6>1
        <5> QED BY <5>1, <5>2, <5>3
      <4> QED BY <4>1
    <3> QED BY <3>1, <3>2
  <2>2. CASE e.status = ""
    <3>1. Setters(F) = Setters(E)
      BY <2>2 DEF Setters
    <3>2. E # {} /\ task.exists
      BY <1>8, <3>1 DEF Setters, Shows
    <3>3. new.status = task.status
      BY <1>6, <2>2, <3>2 DEF base
    <3> QED BY <1>8, <3>1, <3>3 DEF Shows
  <2> QED BY <2>1, <2>2
<1> QED BY <1>6, <1>7, <1>8 DEF Shows, new

LEMMA MaterializeShows ==
    ASSUME NEW E \in SUBSET Event, IsFiniteSet(E), \A e, f \in E : e.stamp = f.stamp => e = f
    PROVE  Shows(Materialize(E), E)
<1> DEFINE n == Cardinality(E)
           g == InStampOrder(E)
<1>1. \A e \in E : e.stamp \in Nat
  BY EventFields
<1>2. /\ n \in Nat /\ DOMAIN g = 1 .. n
      /\ \A i \in 1 .. n : g[i] \in E
      /\ \A e \in E : \E i \in 1 .. n : g[i] = e
      /\ \A i, j \in 1 .. n : i < j => g[i].stamp < g[j].stamp
  BY <1>1, StampOrder
<1> HIDE DEF n, g
<1>3. PICK h : /\ h[0] = NoTask
               /\ \A i \in 1 .. n : h[i] = FoldEvent(h[i - 1], g[i])
               /\ FoldLeft(FoldEvent, NoTask, g) = h[n]
  BY <1>2, FoldStep
<1> DEFINE Done(k) == {g[i] : i \in 1 .. k}
           S == {k \in 0 .. n : Shows(h[k], Done(k))}
<1>4. 0 \in S
  <2>1. Done(0) = {}
    OBVIOUS
  <2> HIDE DEF Done
  <2>2. Shows(h[0], Done(0))
    BY <1>3, <2>1, ShowsNothing
  <2>3. n \in Nat
    BY <1>2
  <2>4. 0 \in 0 .. n
    BY <2>3
  <2> QED BY <2>2, <2>4
<1>5. ASSUME NEW k \in 0 .. (n - 1), k \in S PROVE k + 1 \in S
  <2>1. k + 1 \in 1 .. n /\ k + 1 \in 0 .. n /\ (k + 1) - 1 = k
    BY <1>2
  <2>2. \A i \in 1 .. k : i \in 1 .. n /\ i < k + 1
    BY <1>2
  <2>3. Done(k) \in SUBSET Event /\ g[k + 1] \in Event
    BY <1>2, <2>1, <2>2
  <2>4. \A f \in Done(k) : f.stamp < g[k + 1].stamp
    BY <1>2, <2>1, <2>2
  <2>5. Done(k + 1) = Done(k) \cup {g[k + 1]}
    <3>1. 1 .. (k + 1) = (1 .. k) \cup {k + 1}
      BY <1>2
    <3> QED BY <3>1
  <2>6. h[k + 1] = FoldEvent(h[k], g[k + 1])
    BY <1>3, <2>1
  <2>7. Shows(h[k], Done(k))
    BY <1>5
  <2> HIDE DEF Done
  <2>8. Shows(h[k + 1], Done(k + 1))
    BY <2>3, <2>4, <2>5, <2>6, <2>7, ShowsMore
  <2> QED BY <2>1, <2>8
<1>6. 0 .. n \subseteq S
  <2> HIDE DEF S
  <2> QED BY <1>2, <1>4, <1>5, UpTo
<1>7. Done(n) = E
  BY <1>2
<1>8. Shows(h[n], E)
  <2>1. n \in 0 .. n
    BY <1>2
  <2> HIDE DEF Done
  <2> QED BY <1>6, <1>7, <2>1
<1> QED BY <1>3, <1>8 DEF Materialize, g

\* materialize: a fold shows the latest status that was set and every text but those of
\* canon task close and of the automatic link.
THEOREM FoldsShowTheLatest == Spec => []FoldShowsLatest
<1>1. ASSUME Inv PROVE FoldShowsLatest
  <2>1. ASSUME NEW view, view \subseteq recorded PROVE Shows(Materialize(view), view)
    <3>1. view \in SUBSET Event /\ \A e, f \in view : e.stamp = f.stamp => e = f
      BY <1>1, <2>1 DEF Inv, TypeInv
    <3> DEFINE stamp == [e \in view |-> e.stamp]
    <3>2. stamp \in Injection(view, 1 .. MaxStamp)
      BY <3>1, EventFields DEF Injection, IsInjective
    <3>3. IsFiniteSet(1 .. MaxStamp)
      BY FoldAssumption, FS_Interval
    <3>4. IsFiniteSet(view)
      BY <3>2, <3>3, FS_Injection
    <3> QED BY <3>1, <3>4, MaterializeShows
  <2>2. ASSUME NEW m \in Machine, NEW view \in {Local(m), Local(m) \cup Page(server)}
        PROVE  view \subseteq recorded
    <3>1. Local(m) \subseteq recorded
      BY <1>1 DEF Inv, TypeInv, Local, Scopes
    <3>2. Page(server) \subseteq recorded
      BY <1>1 DEF Inv, TypeInv, Page
    <3> QED BY <2>2, <3>1, <3>2
  <2>3. ASSUME NEW view, view \subseteq recorded
        PROVE  Comments(view) = {e.stamp : e \in {f \in view : f.text \notin {"", "close", "link"}}}
    <3>1. ASSUME NEW f \in view
          PROVE  f.kind = "task_commented" /\ f.text # "" <=> f.text \notin {"", "close", "link"}
      <4>1. f.text \in Texts \cup {""}
        BY <1>1, <2>3, <3>1 DEF Inv, TypeInv, Event
      <4> QED BY <1>1, <2>3, <3>1, <4>1 DEF Inv, TypeInv, Fit, Texts
    <3> QED BY <3>1 DEF Comments
  <2> QED BY <2>1, <2>2, <2>3 DEF FoldShowsLatest, Shows, Setters
<1> QED BY <1>1, NothingInvented, PTL
=============================================================================
