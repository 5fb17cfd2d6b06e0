------------------------------- MODULE LivePlan -------------------------------
(***************************************************************************)
(* canon live-plan: the threads of the panel bridge and the commands of    *)
(* the operator work on the same session files, with no lock between them. *)
(* Every one of them loads the whole document, changes it in memory, and   *)
(* writes it back: the file is truncated first, then written.  A request   *)
(* that overlaps with another, or dies half way, may therefore undo what   *)
(* was acknowledged, or leave a file that cannot be parsed.                *)
(*                                                                         *)
(* A client of the bridge (the console and the Meet companion) shows the   *)
(* panel it fetched last, and answers the items of that panel by their id. *)
(***************************************************************************)
EXTENDS LivePlanDoc

CONSTANTS
    Proc,      \* users, each with one request at a time and the panel it looks at
    Bridge,    \* those who use the bridge: the console or the Meet companion; the
               \* others type commands
    May,       \* May[p]: the types of event that p sends
    Session,   \* session ids
    Caption,   \* captions the Meet page shows
    MaxTexts,  \* bound: texts proposed, spoken or referred to
    MaxOps,    \* bound: requests
    MaxStarts, \* bound: start commands
    MaxKills   \* bound: processes killed

ASSUME LivePlanAssumption ==
    /\ Bridge \subseteq Proc /\ DOMAIN May = Proc
    /\ MaxTexts \in Nat /\ MaxOps \in Nat /\ MaxStarts \in Nat /\ MaxKills \in Nat

VARIABLES
    session,  \* session[s]: the file session.json of s
    files,    \* files[s]: the manifests and the files of finalize
    index,    \* the file index.json
    pc,       \* pc[p]: the request p works on
    view,     \* view[p]: the session whose panel p shows, and what it can answer
    heard,    \* heard[p]: fingerprints of the captions p has sent
    texts, ops, starts, kills,
    acked,    \* history: acked[s], texts whose request was answered with success
    readback, \* history: texts their reader accepted, with or without changes
    clash     \* history: sessions where two requests overlapped, one was
              \* killed while it rewrote the file, or start replaced a document

vars == <<session, files, index, pc, view, heard, texts, ops, starts, kills,
          acked, readback, clash>>

File(kind, content) == [kind |-> kind, content |-> content]
NoFile == File("missing", <<>>)
Torn == File("torn", <<>>)
Garbled == File("garbled", <<>>)
Holds(x) == File("json", <<x>>)
Readable(f) == f.kind = "json"
Content(f) == f.content[1]

\* "handoff" stands for the handoff, the session handoff, the transcript and the
\* references, which finalize writes one after the other.
FinalFiles == <<"plan", "handoff">>
SideFile == {"runtime", "panel"} \cup {FinalFiles[i] : i \in DOMAIN FinalFiles}

\* pc[p].todo: the steps that are left of the request.
Idle == [todo |-> <<>>, s |-> "", job |-> "", batch |-> <<>>, doc |-> Blank,
         idx |-> <<>>]
NoView == [of |-> "", queue |-> Queue(Blank)]

IndexSteps == <<"index_load", "index_truncate", "index_write">>
\* Mutants: the request is answered first; the panel is written before the file;
\* finalize sets the status before it renders the files.
StepsAnswerFirst(job) ==
    CASE job = "start"    -> <<"truncate", "write">> \o IndexSteps \o <<"answer">>
      [] job = "finalize" -> FinalFiles \o <<"truncate", "write">>
      [] OTHER            -> <<"answer", "truncate", "write">>
StepsPanelFirst(job) ==
    CASE job = "event"    -> <<"panel", "truncate", "write", "runtime", "answer">>
      [] OTHER            -> <<"truncate", "write", "answer">>
StepsStatusFirst(job) ==
    IF job = "finalize" THEN <<"truncate", "write">> \o FinalFiles
    ELSE <<"truncate", "write", "answer">>

StepsOf(job) ==
    CASE job = "event"    -> <<"truncate", "write", "runtime", "panel", "answer">>
      [] job = "command"  -> <<"truncate", "write", "answer">>
      [] job = "meet"     -> <<"truncate", "write", "runtime", "answer">>
      [] job = "start"    -> <<"truncate", "write">> \o IndexSteps \o <<"answer">>
      [] job = "finalize" -> FinalFiles \o <<"runtime", "truncate", "write", "reload">>
                                \o IndexSteps \o <<"answer">>

Busy(p) == pc[p].todo # <<>>
At(p, step) == Busy(p) /\ Head(pc[p].todo) = step
Onward(c) == [c EXCEPT !.todo = Tail(@)]
Proceed(p) == pc' = [pc EXCEPT ![p] = Onward(@)]

\* The truncated or garbled file is written at offset 0: of a longer text that
\* was written in the meantime the end remains.
Written(file, x) ==
    IF Readable(file) \/ file.kind = "garbled" THEN {Holds(x), Garbled} ELSE {Holds(x)}

\* p has loaded the document of s, or made one, and has not written it yet.
Holding(p, s) ==
    /\ pc[p].s = s
    /\ \E i \in DOMAIN pc[p].todo : pc[p].todo[i] = "write"

Init ==
    /\ session = [s \in Session |-> NoFile]
    /\ files = [s \in Session |-> [f \in SideFile |-> <<>>]]
    /\ index = NoFile
    /\ pc = [p \in Proc |-> Idle]
    /\ view = [p \in Proc |-> NoView] /\ heard = [p \in Proc |-> {}]
    /\ texts = 0 /\ ops = 0 /\ starts = 0 /\ kills = 0
    /\ acked = [s \in Session |-> {}]
    /\ readback = {} /\ clash = {}

----------------------------------------------------------------------------
(* Requests.                                                               *)

NewTexts(batch) ==
    {batch[i].tag : i \in {j \in DOMAIN batch :
        batch[j].type \in {"item.propose", "transcript.segment", "reference.add"}}}

JobOf(p) == IF p \in Bridge THEN "event" ELSE "command"

MarkOverlap(p, s) ==
    IF \E q \in Proc \ {p} : Holding(q, s) THEN clash \cup {s} ELSE clash

\* canon live-plan start.  A session that exists already is replaced.
Start(p, s) ==
    /\ p \notin Bridge /\ ~Busy(p) /\ starts < MaxStarts
    /\ starts' = starts + 1
    /\ pc' = [pc EXCEPT ![p] =
                 [Idle EXCEPT !.todo = StepsOf("start"), !.s = s, !.job = "start"]]
    /\ clash' = IF session[s].kind # "missing" THEN clash \cup {s} ELSE MarkOverlap(p, s)
    /\ UNCHANGED <<session, files, index, view, heard, texts, ops, kills, acked,
                   readback>>

\* The document is loaded and changed; an error leaves the file alone.
Request(p, s, job, batch) ==
    /\ ~Busy(p) /\ ops < MaxOps /\ session[s].kind # "missing"
    /\ batch[1].type \in May[p]
    /\ ops' = ops + 1
    /\ LET doc == Content(session[s])
           after == AfterBatch(doc, batch)
       IN  IF Readable(session[s]) /\ after.ok
           THEN /\ pc' = [pc EXCEPT ![p] =
                             [Idle EXCEPT !.todo = StepsOf(job), !.s = s, !.job = job,
                                          !.batch = batch, !.doc = after.doc]]
                /\ clash' = MarkOverlap(p, s)
           ELSE UNCHANGED <<pc, clash>>
    /\ UNCHANGED <<session, files, index, view, starts, kills, acked>>

\* Events that bring a text: alone, or followed by one the bridge refuses.
NewText(p, s) ==
    /\ texts < MaxTexts
    /\ texts' = texts + 1
    /\ \E e \in {[Event("item.propose") EXCEPT !.status = "read_back_pending"],
                 [Event("item.propose") EXCEPT !.status = "draft"],
                 Event("reference.add")} :
          LET new == [e EXCEPT !.tag = texts + 1]
          IN  \/ Request(p, s, JobOf(p), <<new>>)
              \/ /\ p \in Bridge /\ e.status = "draft"
                 /\ Request(p, s, "event", <<new, Event("unsupported")>>)
    /\ UNCHANGED <<heard, readback>>

\* Caption capture: a caption is sent once, whether or not it arrives.
Capture(p, s) ==
    /\ p \in Bridge /\ ~Busy(p) /\ texts < MaxTexts
    /\ texts' = texts + 1
    /\ \E c \in Caption \ heard[p] : heard' = [heard EXCEPT ![p] = @ \cup {c}]
    /\ Request(p, s, "event", <<[Event("transcript.segment") EXCEPT !.tag = texts + 1]>>)
    /\ UNCHANGED readback

\* The user of p accepts, amends or rejects an item of the panel in view.
Answer(p, s) ==
    /\ view[p].of = s
    /\ \E item \in view[p].queue.items, status \in Verified \cup {"rejected"} :
        /\ Request(p, s, JobOf(p),
                   <<[type |-> "item.confirm", id |-> item.id, status |-> status,
                      tag |-> IF status = "amended" THEN item.tag ELSE 0]>>)
        /\ readback' = IF status \in Verified THEN readback \cup {item.tag} ELSE readback
    /\ UNCHANGED <<texts, heard>>

HandOrMode(p, s) ==
    /\ \/ Request(p, s, JobOf(p), <<[Event("hand.raise") EXCEPT !.id = 1]>>)
       \/ /\ view[p].of = s
          /\ \E h \in view[p].queue.hands, status \in {"approved", "dismissed"} :
                Request(p, s, JobOf(p),
                    <<[Event("hand.resolve") EXCEPT !.id = h, !.status = status]>>)
       \/ Request(p, s, JobOf(p),
              <<[Event("mode.set") EXCEPT !.status = "independent-hand-raise"]>>)
    /\ UNCHANGED <<texts, heard, readback>>

\* google-meet-bind-space (over HTTP, after the load) and attach-media.
BindSpace(p, s) ==
    /\ p \notin Bridge
    /\ Request(p, s, "meet",
           <<[Event("meet.set") EXCEPT
                 !.status = "bound"]>>)
    /\ UNCHANGED <<texts, heard, readback>>

Finalize(p, s) ==
    /\ p \notin Bridge /\ ~Busy(p) /\ ops < MaxOps /\ Readable(session[s])
    /\ ops' = ops + 1
    /\ pc' = [pc EXCEPT ![p] =
                 [Idle EXCEPT !.todo = StepsOf("finalize"), !.s = s, !.job = "finalize",
                              !.doc = [Content(session[s]) EXCEPT !.status = "finalized"]]]
    /\ clash' = MarkOverlap(p, s)
    /\ UNCHANGED <<session, files, index, view, heard, texts, starts, kills,
                   acked, readback>>

----------------------------------------------------------------------------
(* The steps of a request.                                                 *)

Truncate(p) ==
    /\ At(p, "truncate")
    /\ session' = [session EXCEPT ![pc[p].s] = Torn]
    /\ Proceed(p)
    /\ UNCHANGED <<files, index, view, heard, texts, ops, starts, kills, acked,
                   readback, clash>>

WriteState(p) ==
    /\ At(p, "write")
    /\ \E f \in Written(session[pc[p].s], pc[p].doc) :
           session' = [session EXCEPT ![pc[p].s] = f]
    /\ Proceed(p)
    /\ UNCHANGED <<files, index, view, heard, texts, ops, starts, kills, acked,
                   readback, clash>>

Render(f, doc) ==
    CASE f = "runtime"         -> Runtime(doc)
      [] f = "panel"           -> Panel(doc)
      [] f = "plan"            -> Plan(doc)
      [] f = "handoff"         -> Handoff(doc)

\* Nothing in the code reads these files back: a rewrite is one step.
WriteSide(p) ==
    /\ \E f \in SideFile :
        /\ At(p, f)
        /\ files' = [files EXCEPT ![pc[p].s][f] = <<Render(f, pc[p].doc)>>]
    /\ Proceed(p)
    /\ UNCHANGED <<session, index, view, heard, texts, ops, starts, kills, acked,
                   readback, clash>>

\* finalize loads the document again, for the index.
Reload(p) ==
    /\ At(p, "reload")
    /\ LET file == session[pc[p].s]
       IN  pc' = [pc EXCEPT ![p] =
                     IF Readable(file)
                     THEN [Onward(@) EXCEPT !.doc = Content(file)]
                     ELSE Idle]
    /\ UNCHANGED <<session, files, index, view, heard, texts, ops, starts, kills,
                   acked, readback, clash>>

EmptyIndex == [s \in Session |-> ""]

\* The index, or a new one, with the status of the document of c.
WithStatus(c) ==
    [(IF Readable(index) THEN Content(index) ELSE EmptyIndex) EXCEPT ![c.s] = c.doc.status]

IndexLoad(p) ==
    /\ At(p, "index_load")
    /\ pc' = [pc EXCEPT ![p] =
                 IF index.kind \in {"torn", "garbled"} THEN Idle
                 ELSE [Onward(@) EXCEPT !.idx = <<WithStatus(pc[p])>>]]
    /\ UNCHANGED <<session, files, index, view, heard, texts, ops, starts, kills,
                   acked, readback, clash>>

IndexTruncate(p) ==
    /\ At(p, "index_truncate")
    /\ index' = Torn
    /\ Proceed(p)
    /\ UNCHANGED <<session, files, view, heard, texts, ops, starts, kills, acked,
                   readback, clash>>

IndexWrite(p) ==
    /\ At(p, "index_write")
    /\ index' \in Written(index, pc[p].idx[1])
    /\ Proceed(p)
    /\ UNCHANGED <<session, files, view, heard, texts, ops, starts, kills, acked,
                   readback, clash>>

Reply(p) ==
    /\ At(p, "answer")
    /\ acked' = [acked EXCEPT ![pc[p].s] = @ \cup NewTexts(pc[p].batch)]
    /\ pc' = [pc EXCEPT ![p] = Idle]
    /\ UNCHANGED <<session, files, index, view, heard, texts, ops, starts, kills,
                   readback, clash>>

\* The panel is fetched after an answer, on demand, and by canon live-plan show.
Refresh(p, s) ==
    /\ ~Busy(p) /\ Readable(session[s])
    /\ view' = [view EXCEPT ![p] = [of |-> s, queue |-> Queue(Content(session[s]))]]
    /\ UNCHANGED <<session, files, index, pc, heard, texts, ops, starts, kills,
                   acked, readback, clash>>

Kill(p) ==
    /\ Busy(p) /\ kills < MaxKills
    /\ kills' = kills + 1
    /\ pc' = [pc EXCEPT ![p] = Idle]
    /\ clash' = IF At(p, "write") THEN clash \cup {pc[p].s} ELSE clash
    /\ UNCHANGED <<session, files, index, view, heard, texts, ops, starts, acked,
                   readback>>

Ask(p, s) ==
    NewText(p, s) \/ Capture(p, s) \/ Answer(p, s) \/ HandOrMode(p, s) \/ BindSpace(p, s)

Step(p) ==
    \/ Truncate(p) \/ WriteState(p) \/ WriteSide(p) \/ Reload(p)
    \/ IndexLoad(p) \/ IndexTruncate(p) \/ IndexWrite(p) \/ Reply(p)

Next == \E p \in Proc :
    \/ \E s \in Session : Start(p, s) \/ Ask(p, s) \/ Finalize(p, s) \/ Refresh(p, s)
    \/ Step(p) \/ Kill(p)

Spec == Init /\ [][Next]_vars

----------------------------------------------------------------------------
(* Properties.                                                             *)

\* In a session file ids tell entries apart, and the hand that was raised for an
\* item stays up until that item is answered or the hand itself is resolved:
\* the answer to one item never takes down the hand of another
\* (_resolve_pending_hand_for_item), however requests overlap.
HandsFollowItems ==
    \A s \in Session : Readable(session[s]) =>
        LET doc == Content(session[s])
        IN  /\ \A list \in {doc.items, doc.hands, doc.segs, doc.refs} :
                   \A i, j \in DOMAIN list : list[i].id = list[j].id => i = j
            /\ \A i \in DOMAIN doc.items :
                   doc.items[i].status = "read_back_pending" =>
                       \E h \in DOMAIN doc.hands :
                           /\ doc.hands[h].item = doc.items[i].id
                           /\ doc.hands[h].status = "pending" \/ doc.hands[h].by = "resolve"

\* What the bridge or a command acknowledged is in the session file, as long as
\* no two requests overlapped on it, none was killed while it rewrote the file
\* and start did not replace it: no single request loses a text.
AckedSurvives ==
    \A s \in Session \ clash : acked[s] # {} =>
        \/ Readable(session[s]) /\ acked[s] \subseteq Texts(Content(session[s]))
        \/ \E p \in Proc : At(p, "write") /\ pc[p].s = s /\ acked[s] \subseteq Texts(pc[p].doc)

\* A session that its file or the index calls finalized has its plan, handoffs,
\* transcript and references on disk: a crash of finalize may leave files
\* without the status, never the status without the files.
FinalizedHasFiles ==
    \A s \in Session :
        (\/ Readable(session[s]) /\ Content(session[s]).status = "finalized"
         \/ Readable(index) /\ Content(index)[s] = "finalized")
        => \A i \in DOMAIN FinalFiles : files[s][FinalFiles[i]] # <<>>

\* The panel manifest on disk never shows evidence that the session file does
\* not hold (unless requests clashed): it is written after the file, and a crash
\* between the two leaves it behind, not ahead.
PanelTrails ==
    \A s \in Session \ clash : files[s]["panel"] # <<>> /\ Readable(session[s]) =>
        /\ files[s]["panel"][1].segs <= Len(Content(session[s]).segs)
        /\ files[s]["panel"][1].refs <= Len(Content(session[s]).refs)
        /\ \A item \in files[s]["panel"][1].queue.items :
               item.id \in IdsOf(Content(session[s]).items)

ReadBack(s) ==
    \A item \in (IF Readable(session[s]) THEN ItemsWith(Content(session[s]), Verified) ELSE {})
                \cup (IF files[s]["plan"] # <<>> THEN files[s]["plan"][1].confirmed ELSE {}) :
        item.tag \in readback

\* Every confirmed item, of the session and of its plan file, was shown to
\* somebody who accepted that very wording, as long as no two requests clashed.
PlanWasReadBack == \A s \in Session \ clash : ReadBack(s)
=============================================================================
