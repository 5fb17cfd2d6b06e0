---------------------------- MODULE KnowledgePlane ----------------------------
(***************************************************************************)
(* The knowledge API (artifact rows in a database, bodies in an object     *)
(* store) and those who write to it: people who post versions, publish and *)
(* supersede; worker jobs that project memory into artifacts; and the      *)
(* hooks of a repository, which capture every turn of its conversations    *)
(* through the worker, or the API when the worker fails.  DoR failure      *)
(* events go to a server of their own, through a queue file.               *)
(*                                                                         *)
(* A create or version request is a handler of several steps: the body is  *)
(* put before the rows are looked at.  The hooks keep their state in files *)
(* that they read and rewrite without a lock.                              *)
(***************************************************************************)
EXTENDS ArtifactRows, Sequences, SequencesExt

CONSTANTS
    Conv,       \* conversations of the repository, each with its hooks
    Editor,     \* actors who post versions
    Job,        \* the worker job
    Dor,        \* canon dor-log processes
    Cli,        \* the actor the hooks run as: no groups header
    MaxClock,   \* bound: seconds
    MaxKinds,   \* bound: kinds of operation in one behaviour
    MaxPrompts, \* bound: prompts
    MaxOps,     \* bound: prompts, requests, jobs and dor-log calls together
    MaxTrouble  \* bound: failures of any kind

ASSUME KnowledgeAssumption ==
    /\ {MaxClock, MaxKinds, MaxPrompts, MaxOps, MaxTrouble} \subseteq Nat
    /\ Cli.groups = {}
    /\ Conv \cap Editor = {} /\ Job \notin Conv \cup Editor

VARIABLES
    artifacts,  \* the artifacts table: id -> row
    versions,   \* the artifact_versions table
    bodies,     \* the object store: the clients' refs -> text
    call,       \* per caller, its request to the knowledge API
    pending,    \* pending-user-turn.json, <<>> if there is none
    failures,   \* capture-failures.log
    hook,       \* per conversation, its turns and its capture hook
    job,        \* the worker job
    queue,      \* dor-failure-queue.jsonl
    dor,        \* per canon dor-log process
    clock,      \* the second that artifact ids are made of
    used,       \* operations and trouble so far
    hist        \* history, for the properties

api == <<artifacts, versions, bodies, call>>
hooks == <<pending, failures, hook>>
queues == <<queue, dor>>
vars == <<api, hooks, job, queues, clock, used, hist>>

Trouble ==
    /\ used.trouble < MaxTrouble
    /\ used' = [used EXCEPT !.trouble = @ + 1]

Begin(kind) ==
    /\ used.ops < MaxOps
    /\ Cardinality(used.kinds \cup {kind}) <= MaxKinds
    /\ used' = [used EXCEPT !.ops = @ + 1, !.kinds = @ \cup {kind}]

Doc == <<"doc", 0>>
Caller == Conv \cup Editor \cup {Job}

----------------------------------------------------------------------------
(***************************************************************************)
(* The knowledge API.                                                      *)
(***************************************************************************)
NoCall == [step |-> "none", kind |-> "", who |-> Cli, req |-> [aid |-> <<>>], count |-> 0,
           answer |-> ""]

Send(kind, who, req) ==
    [NoCall EXCEPT !.step = IF kind = "create" THEN "put" ELSE "open",
                   !.kind = kind, !.who = who, !.req = req]

At(p, step) == call[p].step = step
GoTo(p, step) == call' = [call EXCEPT ![p].step = step]
\* (An editor does nothing with the answer.)
Answer(p, code) ==
    call' = [call EXCEPT ![p] = IF p \in Editor THEN NoCall
                                ELSE [@ EXCEPT !.step = "done", !.answer = code]]

\* create_artifact_version_endpoint looks at the artifact and at who may edit it.
OpenArtifact(p) ==
    /\ At(p, "open")
    /\ LET aid == call[p].req.aid
       IN IF ~Found(artifacts, versions, aid) THEN Answer(p, "404")
          ELSE IF CanAccess(call[p].who, artifacts[aid], "edit") THEN GoTo(p, "put")
          ELSE Answer(p, "403")
    /\ UNCHANGED <<artifacts, versions, bodies>>

Stored(req) == [k \in DOMAIN bodies \cup {req.ref} |-> IF k = req.ref THEN req.body ELSE bodies[k]]

\* Mutant: only the endpoint of new artifacts stores the text.
PutBodyOfCreate(p) ==
    /\ At(p, "put")
    /\ LET c == call[p]
       IN bodies' = IF c.kind = "create" /\ c.req.given THEN Stored(c.req) ELSE bodies
    /\ GoTo(p, IF call[p].kind = "create" THEN "check" ELSE "count")
    /\ UNCHANGED <<artifacts, versions>>
\* A text that is sent is put where the client says, before anything is known of the rows of
\* a create; without one the request goes on to the rows.
PutBody(p) ==
    /\ At(p, "put")
    /\ bodies' = IF call[p].req.given THEN Stored(call[p].req) ELSE bodies
    /\ GoTo(p, IF call[p].kind = "create" THEN "check" ELSE "count")
    /\ UNCHANGED <<artifacts, versions>>

CheckArtifact(p) ==
    /\ At(p, "check")
    /\ IF call[p].req.aid \in DOMAIN artifacts THEN Answer(p, "409") ELSE GoTo(p, "insert")
    /\ UNCHANGED <<artifacts, versions, bodies>>

\* len(artifact.versions), as this transaction reads them.
CountVersions(p) ==
    /\ At(p, "count")
    /\ call' = [call EXCEPT ![p].step = "insert",
                            ![p].count = Cardinality(VersionsOf(versions, call[p].req.aid))]
    /\ UNCHANGED <<artifacts, versions, bodies>>

\* A primary key exists by now, which is an IntegrityError at the flush.
Taken(p) ==
    \/ call[p].kind = "create" /\ call[p].req.aid \in DOMAIN artifacts
    \/ \E v \in versions : v.vid = call[p].req.vid

\* Flush and commit.
Insert(p) ==
    /\ At(p, "insert")
    /\ LET c == call[p]
           req == c.req
           aid == req.aid
       IN IF Taken(p)
          THEN Answer(p, "500") /\ UNCHANGED <<artifacts, versions, hist>>
          ELSE /\ versions' = versions \cup {NewVersion(req, c.count + 1)}
               /\ artifacts' = [a \in DOMAIN artifacts \cup {aid} |->
                    IF a # aid THEN artifacts[a]
                    ELSE IF c.kind = "create" THEN NewArtifact(c.who, req)
                    ELSE [artifacts[a] EXCEPT !.current = req.vid]]
               /\ hist' = [hist EXCEPT
                    !.flaws = IF Cardinality(VersionsOf(versions, aid)) = c.count THEN @
                              ELSE @ \cup {"overlap"},
                    !.bare = IF req.given THEN @ ELSE @ \cup {req.vid}]
               /\ Answer(p, "201")
    /\ UNCHANGED bodies

\* The handler dies, or its answer is lost: no answer and no further effect.
LoseCall(p) ==
    /\ call[p].step # "none" /\ call[p].answer # "lost"
    /\ Trouble
    /\ Answer(p, "lost")
    /\ UNCHANGED <<artifacts, versions, bodies>>

\* publish_artifact and supersede_artifact write whatever the status was.
SetStatus(e, action) ==
    /\ Begin("request")
    /\ CanAccess(e, artifacts[Doc], action)
    /\ artifacts' = IF action = "publish"
                    THEN [artifacts EXCEPT ![Doc].status = "published"]
                    ELSE [artifacts EXCEPT ![Doc].status = "superseded",
                                           ![Doc].supersedes = "older"]
    /\ UNCHANGED <<versions, bodies, call>>

\* The ids are the client's: a retry sends those it sent before.  So is the place of the body,
\* and whether the text comes with the request or is (or will be) put there by other means.
PostVersion(e, n, ref, given) ==
    /\ At(e, "none")
    /\ Begin("request")
    /\ call' = [call EXCEPT ![e] = Send("version", e,
                 [aid |-> Doc, vid |-> <<"doc", n>>, ref |-> ref, body |-> <<e.id, used.ops>>,
                  given |-> given])]
    /\ UNCHANGED <<artifacts, versions, bodies>>

----------------------------------------------------------------------------
(***************************************************************************)
(* The worker.  A create whose answer is 409 counts as done before.        *)
(***************************************************************************)
\* The place is made of the ids, and the text is always sent.
NewRequest(aid, visibility, body) ==
    [aid |-> aid, vid |-> aid, by |-> Cli.id, visibility |-> visibility, owners |-> {Cli.id},
     groups |-> {}, scopes |-> {Cli.company}, ref |-> aid, body |-> body, given |-> TRUE]

\* The worker passes the actor on, and no company.
Worker == [Cli EXCEPT !.company = ""]

\* Mutant: every error is taken for a replay.
CreatedAlways(answer) == TRUE
\* _create_artifact_replay_safe
Created(answer) == answer \in {"201", "409"}

\* Memory is searched at once: what is found depends on when.
StartJob(targets) ==
    /\ job.todo = <<>>
    /\ Begin("job")
    /\ job' = [job EXCEPT !.todo = targets, !.targets = targets, !.attempt = used.ops,
                          !.acked = FALSE]
    /\ call' = [call EXCEPT ![Job] =
         Send("create", Worker, NewRequest(Head(targets), "project", <<"found", used.ops>>))]

\* project_memory_to_artifact creates one artifact, ingest_repo_comprehension two.
JobAnswered ==
    /\ job.todo # <<>> /\ At(Job, "done")
    /\ LET rest == Tail(job.todo)
       IN IF ~Created(call[Job].answer)
          THEN job' = [job EXCEPT !.todo = <<>>] /\ call' = [call EXCEPT ![Job] = NoCall]
          ELSE /\ job' = [job EXCEPT !.todo = rest, !.acked = rest = <<>>]
               /\ call' = [call EXCEPT ![Job] =
                    IF rest = <<>> THEN NoCall
                    ELSE Send("create", Worker,
                              NewRequest(Head(rest), "project", <<"found", job.attempt>>))]

----------------------------------------------------------------------------
(***************************************************************************)
(* The hooks of the repository.                                            *)
(***************************************************************************)
NoHook == [turn |-> 0, asked |-> FALSE, at |-> "idle", payload |-> "none", reply |-> <<>>,
           said |-> [user |-> <<>>, reply |-> <<>>], aid |-> <<>>, paired |-> FALSE,
           ok |-> FALSE, copy |-> {}]

Turns == FoldSet(LAMBDA x, n : hook[x].turn + n, 0, Conv)

\* beforeSubmitPrompt: store-pending-user overwrites the file; a failure is ignored.
Prompt(c, stored) ==
    /\ ~hook[c].asked
    /\ Turns < MaxPrompts
    /\ LET turn == <<c, hook[c].turn + 1>>
       IN /\ hook' = [hook EXCEPT ![c].asked = TRUE, ![c].turn = @ + 1]
          /\ pending' = IF stored THEN turn ELSE pending
    /\ UNCHANGED failures

\* afterAgentResponse starts the capture; the next prompt need not wait for it.
Respond(c, payload) ==
    /\ hook[c].asked /\ hook[c].at = "idle"
    /\ hook' = [hook EXCEPT ![c].asked = FALSE, ![c].at = "read", ![c].payload = payload,
                            ![c].reply = <<c, hook[c].turn>>]
    /\ UNCHANGED <<pending, failures>>

\* The halves of the turn: first_text finds a "text" as both of them, and only a payload
\* without a prompt takes the pending one.
Halves(c) ==
    LET h == hook[c]
    IN [user |-> IF h.payload = "text" THEN h.reply ELSE pending,
        reply |-> IF h.payload = "none" THEN <<>> ELSE h.reply]

\* artifact_identity: the prefix, the second and the actor.
CaptureId == <<"capture", clock>>

Idle(c) == [NoHook EXCEPT !.turn = hook[c].turn, !.asked = hook[c].asked]

ReadTurn(c) ==
    /\ hook[c].at = "read"
    /\ call[c].step \in {"none", "done"}
    /\ LET said == Halves(c)
           id == CaptureId
       IN IF said.user = <<>> /\ said.reply = <<>>
          THEN hook' = [hook EXCEPT ![c] = Idle(c)] /\ UNCHANGED <<call, hist>>
          ELSE /\ hook' = [hook EXCEPT ![c].at = "worker", ![c].said = said, ![c].aid = id,
                    ![c].paired = hook[c].payload # "text" /\ pending # <<>>]
               /\ call' = [call EXCEPT ![c] =
                    Send("create", Worker, NewRequest(id, "project", said))]
               /\ hist' = [hist EXCEPT !.said = @ \cup {<<id, said>>}]
    /\ UNCHANGED <<pending, failures>>

\* Mutant: the status 0 of a lost answer is not taken for an error.
WorkerAnsweredZero(c) ==
    /\ hook[c].at = "worker" /\ At(c, "done")
    /\ LET ok == Created(call[c].answer) \/ call[c].answer = "lost"
           h == hook[c]
       IN /\ hook' = [hook EXCEPT ![c].at = IF ok THEN "log" ELSE "fallback", ![c].ok = ok]
          /\ call' = [call EXCEPT ![c] =
               IF ok THEN NoCall ELSE Send("create", Cli, NewRequest(h.aid, "team", h.said))]
    /\ UNCHANGED <<pending, failures>>
\* The worker answers 200, or it fails and the hook posts the same ids to the API itself.
WorkerAnswered(c) ==
    /\ hook[c].at = "worker" /\ At(c, "done")
    /\ LET ok == Created(call[c].answer)
           h == hook[c]
       IN /\ hook' = [hook EXCEPT ![c].at = IF ok THEN "log" ELSE "fallback", ![c].ok = ok]
          /\ call' = [call EXCEPT ![c] =
               IF ok THEN NoCall ELSE Send("create", Cli, NewRequest(h.aid, "team", h.said))]
    /\ UNCHANGED <<pending, failures>>

\* To the hook a 409 is a failure.
FallbackAnswered(c) ==
    /\ hook[c].at = "fallback" /\ At(c, "done")
    /\ hook' = [hook EXCEPT ![c].at = "log", ![c].ok = call[c].answer = "201"]
    /\ call' = [call EXCEPT ![c] = NoCall]
    /\ UNCHANGED <<pending, failures>>

\* capture-failures.log is read ...
ReadLog(c) ==
    /\ hook[c].at = "log"
    /\ hook' = [hook EXCEPT ![c].at = IF hook[c].ok THEN "clear" ELSE "append",
                            ![c].copy = failures]
    /\ UNCHANGED <<pending, failures>>

\* ... and written back with one more line.
AppendLog(c) ==
    /\ hook[c].at = "append"
    /\ failures' = hook[c].copy \cup {hook[c].said}
    /\ hist' = [hist EXCEPT !.flaws = IF failures = hook[c].copy THEN @ ELSE @ \cup {"log"}]
    /\ hook' = [hook EXCEPT ![c].at = "clear"]
    /\ UNCHANGED pending

\* The pending prompt that was used goes, whatever the outcome: or the one that has come since.
ClearPending(c) ==
    /\ hook[c].at = "clear"
    /\ pending' = IF hook[c].paired THEN <<>> ELSE pending
    /\ hook' = [hook EXCEPT ![c] = Idle(c)]
    /\ hist' = [hist EXCEPT !.ended = @ \cup {[aid |-> hook[c].aid, said |-> hook[c].said,
                                               ok |-> hook[c].ok]}]
    /\ UNCHANGED failures

\* A read that times out is caught nowhere; a kill may leave the log truncated.  The handler
\* of its request goes on, and is over before the conversation's next capture.  (A credential
\* error ends a capture before it has done anything, and the hook runs it again.)
HookDies(c) ==
    /\ hook[c].at # "idle"
    /\ Trouble
    /\ hook' = [hook EXCEPT ![c] = Idle(c)]
    /\ IF hook[c].at = "append"
       THEN failures' \in {failures, {}} /\ hist' = [hist EXCEPT !.flaws = @ \cup {"log"}]
       ELSE UNCHANGED <<failures, hist>>
    /\ UNCHANGED <<pending, call>>

----------------------------------------------------------------------------
(***************************************************************************)
(* canon dor-log: with --flush-queue it ships the rows of the queue first, *)
(* then rewrites the file with those that failed, then ships its event.    *)
(***************************************************************************)
NoDor == [at |-> "idle", event |-> 0, start |-> <<>>, rows |-> <<>>, kept |-> <<>>,
          copy |-> <<>>, flushing |-> FALSE]

DorStart(d, flush) ==
    /\ dor[d].at = "idle"
    /\ Begin("dor-log")
    /\ LET rows == IF flush THEN queue ELSE <<>>
       IN dor' = [dor EXCEPT ![d] = [at |-> "post", event |-> used.ops, start |-> rows,
                    rows |-> rows, kept |-> <<>>, copy |-> <<>>, flushing |-> rows # <<>>]]
    /\ UNCHANGED queue

Shipping(d) == IF dor[d].flushing THEN Head(dor[d].rows) ELSE dor[d].event

\* After an event: the next row, the rewrite, or the end.
AfterEvent(d, kept) ==
    LET x == dor[d]
    IN IF ~x.flushing THEN NoDor
       ELSE [x EXCEPT !.rows = Tail(@), !.kept = kept,
                      !.at = IF Tail(x.rows) = <<>> THEN "rewrite" ELSE "post"]

Ends(d) == IF dor[d].flushing THEN {} ELSE {dor[d].event}

DorAccepted(d) ==
    /\ dor[d].at = "post"
    /\ dor' = [dor EXCEPT ![d] = AfterEvent(d, dor[d].kept)]
    /\ hist' = [hist EXCEPT !.sent = Append(@, Shipping(d)), !.logged = @ \cup Ends(d)]
    /\ UNCHANGED queue

\* A refusal, no connection, or an answer that is lost after the server took the event.
DorFailed(d, taken) ==
    /\ dor[d].at = "post"
    /\ Trouble
    /\ dor' = [dor EXCEPT ![d].at = "requeue", ![d].copy = queue]
    /\ hist' = IF taken THEN [hist EXCEPT !.sent = Append(@, Shipping(d)),
                                          !.flaws = @ \cup {"lossy"}]
               ELSE hist
    /\ UNCHANGED queue

\* _enqueue_failed_event, for a row of the queue as well: the rewrite then drops it again.
DorRequeue(d) ==
    /\ dor[d].at = "requeue"
    /\ queue' = Append(dor[d].copy, Shipping(d))
    /\ dor' = [dor EXCEPT ![d] = AfterEvent(d, Append(dor[d].kept, Shipping(d)))]
    /\ hist' = [hist EXCEPT !.logged = @ \cup Ends(d),
                            !.flaws = IF queue = dor[d].copy THEN @ ELSE @ \cup {"queue"}]

\* Mutant: the file is left as the shipping of the rows left it.
DorRewriteNot(d) ==
    /\ dor[d].at = "rewrite"
    /\ dor' = [dor EXCEPT ![d].at = "post", ![d].flushing = FALSE]
    /\ UNCHANGED <<queue, hist>>
DorRewrite(d) ==
    /\ dor[d].at = "rewrite"
    /\ queue' = dor[d].kept
    /\ dor' = [dor EXCEPT ![d].at = "post", ![d].flushing = FALSE]
    /\ hist' = [hist EXCEPT !.flaws = IF queue = dor[d].start \o dor[d].kept THEN @
                                      ELSE @ \cup {"queue"}]

\* A kill while the file is written may leave it truncated.
DorDies(d) ==
    /\ dor[d].at # "idle"
    /\ Trouble
    /\ dor' = [dor EXCEPT ![d] = NoDor]
    /\ IF dor[d].at \in {"requeue", "rewrite"} THEN queue' \in {queue, <<>>} ELSE UNCHANGED queue
    /\ hist' = [hist EXCEPT !.flaws = @ \cup {"lossy"} \cup
                                      (IF queue' = queue THEN {} ELSE {"queue"})]

----------------------------------------------------------------------------
\* One artifact with one version exists.
Init ==
    /\ \E v \in {"private", "restricted"} :
         artifacts = [a \in {Doc} |->
                        [status |-> "draft", visibility |-> v, owners |-> {Cli.id},
                         groups |-> {"g"}, scopes |-> {Cli.company},
                         current |-> <<"doc", 1>>, supersedes |-> ""]]
    /\ versions = {[vid |-> <<"doc", 1>>, aid |-> Doc, ref |-> <<"doc", 1>>, number |-> 1]}
    /\ bodies = [k \in {<<"doc", 1>>} |-> <<"first", 0>>]
    /\ call = [p \in Caller |-> NoCall]
    /\ pending = <<>> /\ failures = {}
    /\ hook = [c \in Conv |-> NoHook]
    /\ job = [todo |-> <<>>, targets |-> <<>>, attempt |-> 0, acked |-> FALSE]
    /\ queue = <<>> /\ dor = [d \in Dor |-> NoDor]
    /\ clock = 0
    /\ used = [ops |-> 0, kinds |-> {}, trouble |-> 0]
    /\ hist = [said |-> {}, ended |-> {}, flaws |-> {}, sent |-> <<>>, logged |-> {},
               bare |-> {}]

ApiStep ==
    \E p \in Caller :
       \/ /\ OpenArtifact(p) \/ PutBody(p) \/ CheckArtifact(p) \/ CountVersions(p)
          /\ UNCHANGED <<used, hist>>
       \/ Insert(p) /\ UNCHANGED used
       \/ LoseCall(p) /\ UNCHANGED hist

EditorStep ==
    /\ \E e \in Editor : \/ \E n \in 2..3 : \E ref \in {<<"doc", n>>, <<"file", 0>>} :
                              \E given \in BOOLEAN : PostVersion(e, n, ref, given)
                         \/ \E action \in {"publish", "reclassify"} : SetStatus(e, action)
    /\ UNCHANGED hist

JobStep ==
    /\ \/ \E targets \in {<<<<"context", 0>>>>, <<<<"context", 0>>, <<"note", 0>>>>} :
             StartJob(targets)
       \/ JobAnswered /\ UNCHANGED used
    /\ UNCHANGED <<artifacts, versions, bodies, hist>>

HookStep ==
    /\ \E c \in Conv :
       \/ Prompt(c, TRUE) /\ Begin("prompt") /\ UNCHANGED <<call, hist>>
       \/ Prompt(c, FALSE) /\ Begin("prompt") /\ UNCHANGED <<call, hist>>
       \/ /\ \E payload \in {"response", "text", "none"} : Respond(c, payload)
          /\ UNCHANGED <<call, used, hist>>
       \/ ReadTurn(c) /\ UNCHANGED used
       \/ (WorkerAnswered(c) \/ FallbackAnswered(c)) /\ UNCHANGED <<used, hist>>
       \/ ReadLog(c) /\ UNCHANGED <<call, used, hist>>
       \/ (AppendLog(c) \/ ClearPending(c)) /\ UNCHANGED <<call, used>>
       \/ HookDies(c)
    /\ UNCHANGED <<artifacts, versions, bodies>>

DorStep ==
    \E d \in Dor :
       \/ \E flush \in BOOLEAN : DorStart(d, flush) /\ UNCHANGED hist
       \/ DorAccepted(d) /\ UNCHANGED used
       \/ \E taken \in BOOLEAN : DorFailed(d, taken)
       \/ (DorRequeue(d) \/ DorRewrite(d)) /\ UNCHANGED used
       \/ DorDies(d)

Tick ==
    /\ clock < MaxClock /\ clock' = clock + 1
    /\ UNCHANGED <<api, hooks, job, queues, used, hist>>

Next ==
    \/ ApiStep /\ UNCHANGED <<hooks, job, queues, clock>>
    \/ EditorStep /\ UNCHANGED <<hooks, job, queues, clock>>
    \/ JobStep /\ UNCHANGED <<hooks, queues, clock>>
    \/ HookStep /\ UNCHANGED <<job, queues, clock>>
    \/ DorStep /\ UNCHANGED <<api, hooks, job, clock>>
    \/ Tick

Spec == Init /\ [][Next]_vars
----------------------------------------------------------------------------
(***************************************************************************)
(* Properties.                                                             *)
(***************************************************************************)
\* What the listing shows to an actor the other endpoints can serve: the current body and
\* every version's body are there, although a request may die between any two of its steps
\* and an update may come between any two reads (api/routers/artifacts.py:38-190).  Only a
\* version whose request brought no text may have none: the row is committed all the same
\* (:84, :123; backend/knowledge-api/README.md:46).
ShownCanBeRead ==
    \A actor \in Editor \cup {Cli} : \A a \in Listed(artifacts, actor, <<>>) :
        /\ \/ BodyAnswer(artifacts, versions, bodies, actor, a, {}) = "200"
           \/ artifacts[a].current \in hist.bare
        /\ \A v \in Versions(artifacts, versions, actor, a) :
               \/ BodyAnswer(artifacts, versions, bodies, actor, a, {v.vid}) = "200"
               \/ v.vid \in hist.bare

\* The versions of an artifact are numbered 1, 2, ... and the current one has the highest
\* number, as long as no two version requests overlapped (services/artifacts.py:246).
VersionsAreOrdered ==
    "overlap" \notin hist.flaws =>
        \A a \in DOMAIN artifacts :
            LET vs == VersionsOf(versions, a)
            IN /\ {v.number : v \in vs} = 1..Cardinality(vs)
               /\ \E v \in vs : v.vid = artifacts[a].current /\ v.number = Cardinality(vs)

\* A job that answers well has made every artifact of its request, also when the request
\* is a retry after it had failed between them (knowledge_worker/service.py:162-303).
AckedJobMadeAll ==
    job.acked => \A i \in DOMAIN job.targets : job.targets[i] \in DOMAIN artifacts

\* A capture that ends keeps its turn: it reported a success and its artifact holds the
\* turn, or the turn is in capture-failures.log.  Not so when another capture of the actor
\* took the same second, or two hooks wrote the log at a time (capture_session.py:267-306).
TurnsAreKept ==
    \A r \in hist.ended :
        Cardinality({s \in hist.said : s[1] = r.aid}) = 1 =>
            IF r.ok THEN r.aid \in DOMAIN artifacts /\ bodies[r.aid] = r.said
            ELSE r.said \in failures \/ "log" \in hist.flaws

\* A DoR event is shipped or queued when its process ends, unless two processes rewrote the
\* queue at a time; and without a death or a lost answer it is so exactly once
\* (dor_log.py:146-216).
EventsAreKept ==
    LET times(e) == Cardinality({i \in DOMAIN hist.sent : hist.sent[i] = e})
                    + Cardinality({i \in DOMAIN queue : queue[i] = e})
    IN "queue" \notin hist.flaws /\ (\A d \in Dor : dor[d].at = "idle") =>
           \A e \in hist.logged :
               times(e) >= 1 /\ ("lossy" \notin hist.flaws => times(e) = 1)
=============================================================================
