------------------------ MODULE KnowledgePlane_proofs ------------------------
(***************************************************************************)
(* Proofs about KnowledgePlane, for any conversations, editors, processes  *)
(* and bounds.                                                             *)
(***************************************************************************)
EXTENDS KnowledgePlane, FiniteSetTheorems, TLAPS

CallFields == {"step", "kind", "who", "req", "count", "answer"}
HookFields == {"turn", "asked", "at", "payload", "reply", "said", "aid", "paired", "ok", "copy"}
Target == {<<"context", 0>>, <<"note", 0>>}

\* Ids that captures make.
IsCapture(aid) == aid[1] = "capture"

\* What is known of a request, at every step of its handler.
CallOk(p) ==
    LET c == call[p]
    IN /\ DOMAIN c = CallFields
       /\ c.step # "none" =>
             /\ \/ /\ c.kind = "create" /\ c.count = 0
                   /\ c.req.vid = c.req.aid /\ c.req.ref = c.req.aid /\ c.req.given
                   /\ c.step \in {"put", "check", "insert", "done"}
                \/ /\ c.kind = "version" /\ c.req.aid = Doc /\ ~IsCapture(c.req.ref)
                   /\ c.step \in {"open", "put", "count", "insert", "done"}
             /\ IsCapture(c.req.aid) => <<c.req.aid, c.req.body>> \in hist.said
       /\ c.step \in {"check", "count", "insert"} /\ c.req.given => c.req.ref \in DOMAIN bodies
       /\ c.step = "done" /\ c.answer \in {"201", "409"} => c.req.aid \in DOMAIN artifacts

CallInv ==
    /\ DOMAIN call = Caller
    /\ \A p \in Caller : CallOk(p)

\* Every artifact has its current version, every version its artifact and, if its request
\* brought the text, its body.
RowsInv ==
    /\ Doc \in DOMAIN artifacts
    /\ \A a \in DOMAIN artifacts :
          /\ "current" \in DOMAIN artifacts[a]
          /\ \E v \in versions : v.aid = a /\ v.vid = artifacts[a].current
          /\ a # Doc => a \in DOMAIN bodies
    /\ \A v \in versions :
          v.aid \in DOMAIN artifacts /\ (v.ref \in DOMAIN bodies \/ v.vid \in hist.bare)

\* The body of a capture is a turn that was captured under its id.
BodyInv ==
    \A k \in DOMAIN bodies :
        IsCapture(k) => <<k, bodies[k]>> \in hist.said

HistInv ==
    /\ DOMAIN hist = {"said", "ended", "flaws", "sent", "logged", "bare"}
    /\ IsFiniteSet(hist.said) /\ IsFiniteSet(versions)

\* What a job has still to make; the rest of its request is made.
JobInv ==
    /\ DOMAIN job = {"todo", "targets", "attempt", "acked"} /\ job.acked \in BOOLEAN
    /\ job.todo \in Seq(Target)
    /\ job.acked => job.todo = <<>>
    /\ job.todo # <<>> => call[Job].step # "none" /\ call[Job].req.aid = Head(job.todo)
    /\ job.acked \/ job.todo # <<>> =>
          \A i \in DOMAIN job.targets :
              \/ job.targets[i] \in DOMAIN artifacts
              \/ \E j \in DOMAIN job.todo : job.todo[j] = job.targets[i]

\* What is known of a capture, at every step of the hook.
HookOk(c) ==
    LET h == hook[c]
    IN /\ DOMAIN h = HookFields /\ h.ok \in BOOLEAN
       /\ h.at \in {"idle", "read", "worker", "fallback", "log", "append", "clear"}
       /\ h.at \in {"worker", "fallback"} => call[c].step # "none" /\ call[c].req.aid = h.aid
       /\ h.at \notin {"idle", "read"} => IsCapture(h.aid) /\ <<h.aid, h.said>> \in hist.said
       /\ h.at \in {"log", "append", "clear"} /\ h.ok => h.aid \in DOMAIN artifacts
       /\ h.at = "append" => ~h.ok
       /\ h.at = "clear" /\ ~h.ok => h.said \in failures \/ "log" \in hist.flaws

HookInv == DOMAIN hook = Conv /\ \A c \in Conv : HookOk(c)

\* What is known of a capture that has ended.
EndedInv ==
    \A r \in hist.ended :
        /\ r.ok \in BOOLEAN /\ IsCapture(r.aid) /\ <<r.aid, r.said>> \in hist.said
        /\ r.ok => r.aid \in DOMAIN artifacts
        /\ ~r.ok => r.said \in failures \/ "log" \in hist.flaws

Inv == /\ CallInv /\ RowsInv /\ BodyInv /\ HistInv /\ JobInv /\ HookInv /\ EndedInv
       /\ VersionsAreOrdered

LEMMA NoCallIsOk == NoCall.step = "none" /\ DOMAIN NoCall = CallFields
BY DEF NoCall, CallFields

LEMMA NoHookIsIdle ==
    /\ NoHook.at = "idle" /\ NoHook.ok = FALSE
    /\ DOMAIN NoHook = HookFields
BY DEF NoHook, HookFields

LEMMA InvInit == Init => Inv
<1> SUFFICES ASSUME Init PROVE Inv
  OBVIOUS
<1>1. PICK v : artifacts = [a \in {Doc} |-> [status |-> "draft", visibility |-> v, owners |-> {Cli.id},
                              groups |-> {"g"}, scopes |-> {Cli.company},
                              current |-> <<"doc", 1>>, supersedes |-> ""]]
  BY DEF Init
<1>2. /\ versions = {[vid |-> <<"doc", 1>>, aid |-> Doc, ref |-> <<"doc", 1>>, number |-> 1]}
      /\ DOMAIN bodies = {<<"doc", 1>>}
      /\ hist = [said |-> {}, ended |-> {}, flaws |-> {}, sent |-> <<>>, logged |-> {}, bare |-> {}]
      /\ job = [todo |-> <<>>, targets |-> <<>>, attempt |-> 0, acked |-> FALSE]
  BY DEF Init
<1>3. CallInv
  <2>1. DOMAIN call = Caller /\ \A p \in Caller : call[p] = NoCall
    BY DEF Init
  <2> QED BY <2>1, NoCallIsOk DEF CallInv, CallOk
<1>4. RowsInv
  <2>1. DOMAIN artifacts = {Doc} /\ "current" \in DOMAIN artifacts[Doc]
        /\ artifacts[Doc].current = <<"doc", 1>>
    BY <1>1
  <2>2. \E w \in versions : w.aid = Doc /\ w.vid = artifacts[Doc].current
    BY <1>2, <2>1
  <2>3. \A w \in versions : w.aid = Doc /\ w.ref = <<"doc", 1>>
    BY <1>2
  <2> QED BY <1>2, <2>1, <2>2, <2>3 DEF RowsInv
<1>5. BodyInv
  BY <1>2 DEF BodyInv, IsCapture, Doc
<1>6. HistInv
  BY <1>2, FS_EmptySet, FS_Singleton DEF HistInv
<1>7. JobInv
  BY <1>2 DEF JobInv
<1>8. HookInv
  <2>1. \A c \in Conv : hook[c] = NoHook
    BY DEF Init
  <2>2. DOMAIN hook = Conv
    BY DEF Init
  <2> QED BY <2>1, <2>2, NoHookIsIdle DEF HookInv, HookOk
<1>9. EndedInv
  BY <1>2 DEF EndedInv
<1>10. VersionsAreOrdered
  <2>1. VersionsOf(versions, Doc) = versions
    BY <1>2 DEF VersionsOf
  <2>2. Cardinality(versions) = 1
    BY <1>2, FS_Singleton
  <2>3. {w.number : w \in versions} = {1} /\ 1 .. 1 = {1}
    BY <1>2
  <2>4. \E w \in versions : w.vid = artifacts[Doc].current /\ w.number = 1
    BY <1>1, <1>2
  <2> QED BY <1>1, <2>1, <2>2, <2>3, <2>4 DEF VersionsAreOrdered
<1> QED BY <1>3, <1>4, <1>5, <1>6, <1>7, <1>8, <1>9, <1>10 DEF Inv

-----------------------------------------------------------------------------
(* What only grows.                                                        *)

Growth ==
    /\ DOMAIN artifacts \subseteq DOMAIN artifacts'
    /\ DOMAIN bodies \subseteq DOMAIN bodies'
    /\ hist.said \subseteq hist'.said
    /\ hist.flaws \subseteq hist'.flaws
    /\ hist.bare \subseteq hist'.bare

LEMMA CallKept ==
    ASSUME Growth, NEW p, CallOk(p), call'[p] = call[p]
    PROVE  CallOk(p)'
BY DEF Growth, CallOk, CallFields, IsCapture

\* A step that leaves the rows of the API alone.
LEMMA RowsKept ==
    ASSUME Inv, Growth, UNCHANGED <<artifacts, versions, bodies>>
    PROVE  RowsInv' /\ BodyInv' /\ VersionsAreOrdered'
<1>1. RowsInv'
  BY DEF Inv, RowsInv, Growth
<1>2. BodyInv'
  BY DEF Inv, BodyInv, Growth
<1>3. VersionsAreOrdered'
  BY DEF Inv, VersionsAreOrdered, VersionsOf, Growth
<1> QED BY <1>1, <1>2, <1>3

\* A request that is answered, or goes on to its next step.
LEMMA AnswerCall ==
    ASSUME Inv, NEW p \in Caller, call[p].step # "none", NEW code,
           code \in {"201", "409"} => call[p].req.aid \in DOMAIN artifacts',
           Growth, Answer(p, code)
    PROVE  /\ CallInv'
           /\ \A q \in Caller \ {p} : call'[q] = call[q]
           /\ p \notin Editor => call'[p].step # "none" /\ call'[p].req = call[p].req
<1>1. DOMAIN call' = Caller /\ \A q \in Caller \ {p} : call'[q] = call[q]
  BY DEF Answer, Inv, CallInv
<1>2. call'[p] = IF p \in Editor THEN NoCall ELSE [call[p] EXCEPT !.step = "done", !.answer = code]
  BY DEF Answer, Inv, CallInv
<1>3. CallOk(p)'
  <2>1. CASE p \in Editor
    <3>1. call'[p] = NoCall
      BY <1>2, <2>1
    <3> QED BY <3>1, NoCallIsOk DEF CallOk
  <2>2. CASE p \notin Editor
    <3>1. CallOk(p)
      BY DEF Inv, CallInv
    <3>2. /\ DOMAIN call'[p] = CallFields /\ call'[p].step = "done" /\ call'[p].answer = code
          /\ call'[p].kind = call[p].kind /\ call'[p].req = call[p].req
          /\ call'[p].count = call[p].count
      BY <1>2, <2>2, <3>1 DEF CallOk, CallFields
    <3> QED BY <3>1, <3>2 DEF CallOk, Growth
  <2> QED BY <2>1, <2>2
<1>4. CallInv'
  <2>1. \A q \in Caller \ {p} : CallOk(q)'
    BY <1>1, CallKept DEF Inv, CallInv
  <2> QED BY <1>1, <1>3, <2>1 DEF CallInv
<1>5. p \notin Editor => call'[p].step # "none" /\ call'[p].req = call[p].req
  BY <1>2 DEF Inv, CallInv, CallOk, CallFields
<1> QED BY <1>1, <1>4, <1>5

LEMMA MoveCall ==
    ASSUME Inv, NEW p \in Caller, call[p].step # "none", NEW step,
           step \in IF call[p].kind = "create" THEN {"put", "check", "insert"}
                    ELSE {"open", "put", "count", "insert"},
           step \in {"check", "count", "insert"} /\ call[p].req.given =>
               call[p].req.ref \in DOMAIN bodies',
           Growth, DOMAIN call' = Caller, \A q \in Caller \ {p} : call'[q] = call[q],
           DOMAIN call'[p] = CallFields, call'[p].step = step, call'[p].kind = call[p].kind,
           call'[p].req = call[p].req, call'[p].kind = "create" => call'[p].count = call[p].count
    PROVE  CallInv' /\ call'[p].step # "none"
<1>1. CallOk(p)
  BY DEF Inv, CallInv
<1>2. CallOk(p)'
  BY <1>1 DEF CallOk, Growth
<1>3. \A q \in Caller \ {p} : CallOk(q)'
  BY CallKept DEF Inv, CallInv
<1> QED BY <1>2, <1>3 DEF CallInv

LEMMA GoToMoves ==
    ASSUME Inv, NEW p \in Caller, call[p].step # "none", NEW step, GoTo(p, step),
           step \in IF call[p].kind = "create" THEN {"put", "check", "insert"}
                    ELSE {"open", "put", "count", "insert"},
           step \in {"check", "count", "insert"} /\ call[p].req.given =>
               call[p].req.ref \in DOMAIN bodies',
           Growth
    PROVE  /\ CallInv' /\ call'[p].step # "none" /\ call'[p].req = call[p].req
           /\ \A q \in Caller \ {p} : call'[q] = call[q]
<1>1. /\ DOMAIN call' = Caller
      /\ \A q \in Caller \ {p} : call'[q] = call[q]
      /\ DOMAIN call'[p] = CallFields /\ call'[p].step = step /\ call'[p].kind = call[p].kind
      /\ call'[p].req = call[p].req /\ call'[p].count = call[p].count
  BY DEF GoTo, Inv, CallInv, CallOk, CallFields
<1>2. CallInv' /\ call'[p].step # "none"
  BY <1>1, MoveCall
<1> QED BY <1>1, <1>2

\* What a step of a handler keeps, and what the one who waits for the answer may rely on.
ApiOk(p) ==
    /\ Growth /\ CallInv' /\ RowsInv' /\ BodyInv' /\ VersionsAreOrdered'
    /\ IsFiniteSet(versions')
    /\ \A q \in Caller : q \notin Editor /\ call[q].step # "none" =>
          call'[q].step # "none" /\ call'[q].req = call[q].req
    /\ hist'.said = hist.said /\ hist'.ended = hist.ended
    /\ DOMAIN hist' = DOMAIN hist

LEMMA OpenIsOk ==
    ASSUME Inv, NEW p \in Caller, OpenArtifact(p) \/ CheckArtifact(p), UNCHANGED hist
    PROVE  ApiOk(p)
<1>1. UNCHANGED <<artifacts, versions, bodies>> /\ call[p].step \in {"open", "check"}
  BY DEF OpenArtifact, CheckArtifact, At
<1>2. Growth
  BY <1>1 DEF Growth
<1>3. /\ CallInv' /\ \A q \in Caller \ {p} : call'[q] = call[q]
      /\ p \notin Editor => call'[p].step # "none" /\ call'[p].req = call[p].req
  <2>1. CASE \E code : Answer(p, code) /\ (code \in {"201", "409"} => call[p].req.aid \in DOMAIN artifacts)
    BY <1>1, <1>2, <2>1, AnswerCall
  <2>2. CASE call[p].kind = "version" /\ GoTo(p, "put")
    BY <1>1, <1>2, <2>2, GoToMoves
  <2>3. CASE call[p].step = "check" /\ call[p].kind = "create" /\ GoTo(p, "insert")
    <3>1. call[p].req.given => call[p].req.ref \in DOMAIN bodies
      BY <2>3 DEF Inv, CallInv, CallOk
    <3> QED BY <1>1, <1>2, <2>3, <3>1, GoToMoves
  <2>4. CallOk(p)
    BY DEF Inv, CallInv
  <2>5. CASE OpenArtifact(p)
    <3>1. call[p].kind = "version"
      BY <2>4, <2>5 DEF OpenArtifact, At, CallOk
    <3> QED BY <2>1, <2>2, <2>5, <3>1 DEF OpenArtifact
  <2>6. CASE CheckArtifact(p)
    <3>1. call[p].kind = "create" /\ call[p].step = "check"
      BY <2>4, <2>6 DEF CheckArtifact, At, CallOk
    <3> QED BY <2>1, <2>3, <2>6, <3>1 DEF CheckArtifact
  <2> QED BY <2>5, <2>6
<1> QED BY <1>1, <1>2, <1>3, RowsKept DEF ApiOk, Inv, HistInv

LEMMA PutIsOk ==
    ASSUME Inv, NEW p \in Caller, PutBody(p), UNCHANGED hist
    PROVE  ApiOk(p)
<1> DEFINE req == call[p].req
<1>1. /\ call[p].step = "put"
      /\ bodies' = IF req.given THEN Stored(req) ELSE bodies
      /\ GoTo(p, IF call[p].kind = "create" THEN "check" ELSE "count")
      /\ UNCHANGED <<artifacts, versions>>
  BY DEF PutBody, At
<1>2. /\ DOMAIN bodies' = DOMAIN bodies \cup (IF req.given THEN {req.ref} ELSE {})
      /\ \A k \in DOMAIN bodies : k # req.ref => bodies'[k] = bodies[k]
      /\ ~req.given => bodies' = bodies
      /\ req.given => bodies'[req.ref] = req.body
  BY <1>1 DEF Stored
<1>3. Growth
  BY <1>1, <1>2 DEF Growth
<1>4. CallOk(p)
  BY DEF Inv, CallInv
<1>5. CallInv' /\ call'[p].step # "none" /\ call'[p].req = call[p].req
      /\ \A q \in Caller \ {p} : call'[q] = call[q]
  <2>1. CASE call[p].kind = "create"
    BY <1>1, <1>2, <1>3, <2>1, GoToMoves
  <2>2. CASE call[p].kind # "create"
    BY <1>1, <1>2, <1>3, <2>2, GoToMoves
  <2> QED BY <2>1, <2>2
<1>6. RowsInv'
  BY <1>1, <1>3 DEF Inv, RowsInv, Growth
<1>7. BodyInv'
  <2>1. ASSUME NEW k \in DOMAIN bodies', IsCapture(k)
        PROVE  <<k, bodies'[k]>> \in hist.said
    <3>1. CASE k = req.ref /\ req.given
      <4>1. req.aid = k /\ <<req.aid, req.body>> \in hist.said
        BY <1>1, <1>4, <2>1, <3>1 DEF CallOk
      <4> QED BY <1>2, <3>1, <4>1
    <3>2. CASE ~(k = req.ref /\ req.given)
      BY <1>1, <1>2, <2>1, <3>2 DEF Inv, BodyInv
    <3> QED BY <3>1, <3>2
  <2> QED BY <2>1 DEF BodyInv
<1>8. VersionsAreOrdered'
  BY <1>1 DEF Inv, VersionsAreOrdered, VersionsOf
<1> QED BY <1>1, <1>3, <1>5, <1>6, <1>7, <1>8 DEF ApiOk, Inv, HistInv

LEMMA CountIsOk ==
    ASSUME Inv, NEW p \in Caller, CountVersions(p), UNCHANGED hist
    PROVE  ApiOk(p)
<1>1. call[p].step = "count" /\ UNCHANGED <<artifacts, versions, bodies>>
  BY DEF CountVersions, At
<1>2. CallOk(p)
  BY DEF Inv, CallInv
<1>3. call[p].kind = "version" /\ (call[p].req.given => call[p].req.ref \in DOMAIN bodies)
  BY <1>1, <1>2 DEF CallOk
<1>4. /\ DOMAIN call' = Caller
      /\ \A q \in Caller \ {p} : call'[q] = call[q]
      /\ DOMAIN call'[p] = CallFields /\ call'[p].step = "insert" /\ call'[p].kind = call[p].kind
      /\ call'[p].req = call[p].req
  BY <1>2 DEF CountVersions, Inv, CallInv, CallOk, CallFields
<1>5. Growth
  BY <1>1 DEF Growth
<1>6. CallInv' /\ call'[p].step # "none"
  BY <1>1, <1>3, <1>4, <1>5, MoveCall
<1> QED BY <1>1, <1>4, <1>5, <1>6, RowsKept DEF ApiOk, Inv, HistInv

LEMMA LoseIsOk ==
    ASSUME Inv, NEW p \in Caller, LoseCall(p), UNCHANGED hist
    PROVE  ApiOk(p)
<1>1. call[p].step # "none" /\ Answer(p, "lost") /\ UNCHANGED <<artifacts, versions, bodies>>
  BY DEF LoseCall
<1>2. Growth
  BY <1>1 DEF Growth
<1> QED BY <1>1, <1>2, AnswerCall, RowsKept DEF ApiOk, Inv, HistInv

LEMMA InsertIsOk ==
    ASSUME Inv, NEW p \in Caller, Insert(p)
    PROVE  ApiOk(p)
<1> DEFINE c == call[p]
           req == c.req
           aid == req.aid
           new == [vid |-> req.vid, aid |-> aid, ref |-> req.ref, number |-> c.count + 1]
           row == IF c.kind = "create" THEN NewArtifact(c.who, req)
                  ELSE [artifacts[aid] EXCEPT !.current = req.vid]
<1>1. /\ c.step = "insert" /\ UNCHANGED bodies
      /\ req.given => req.ref \in DOMAIN bodies
      /\ \/ c.kind = "create" /\ req.vid = aid /\ req.ref = aid /\ req.given /\ c.count = 0
         \/ c.kind = "version" /\ aid = Doc
  BY DEF Insert, At, Inv, CallInv, CallOk
<1>2. CASE Taken(p)
  <2>1. Answer(p, "500") /\ UNCHANGED <<artifacts, versions, hist>>
    BY <1>2 DEF Insert
  <2>2. Growth
    BY <1>1, <2>1 DEF Growth
  <2> QED BY <1>1, <2>1, <2>2, AnswerCall, RowsKept DEF ApiOk, Inv, HistInv
<1>3. CASE ~Taken(p)
  <2>1. /\ versions' = versions \cup {new}
        /\ artifacts' = [a \in DOMAIN artifacts \cup {aid} |-> IF a # aid THEN artifacts[a] ELSE row]
        /\ Answer(p, "201")
    BY <1>3 DEF Insert, NewVersion
  <2>2. hist' = [hist EXCEPT
                   !.flaws = IF Cardinality(VersionsOf(versions, aid)) = c.count THEN @
                             ELSE @ \cup {"overlap"},
                   !.bare = IF req.given THEN @ ELSE @ \cup {req.vid}]
    BY <1>3 DEF Insert
  <2>3. /\ DOMAIN hist' = DOMAIN hist /\ hist'.said = hist.said /\ hist'.ended = hist.ended
        /\ hist'.flaws = IF Cardinality(VersionsOf(versions, aid)) = c.count THEN hist.flaws
                         ELSE hist.flaws \cup {"overlap"}
        /\ hist.bare \subseteq hist'.bare /\ (req.given \/ req.vid \in hist'.bare)
    BY <2>2 DEF Inv, HistInv
  <2>4. /\ c.kind = "create" => aid \notin DOMAIN artifacts
        /\ c.kind = "version" => aid \in DOMAIN artifacts
        /\ \A v \in versions : v.vid # req.vid
    BY <1>1, <1>3 DEF Taken, Inv, RowsInv
  <2>5. "current" \in DOMAIN row /\ row.current = req.vid
    <3>1. CASE c.kind = "create"
      BY <3>1 DEF NewArtifact
    <3>2. CASE c.kind # "create"
      BY <1>1, <2>4, <3>2 DEF Inv, RowsInv
    <3> QED BY <3>1, <3>2
  <2> HIDE DEF row
  <2>6. /\ DOMAIN artifacts' = DOMAIN artifacts \cup {aid} /\ artifacts'[aid] = row
        /\ \A a \in DOMAIN artifacts : a # aid => artifacts'[a] = artifacts[a]
    BY <2>1
  <2>7. Growth
    BY <1>1, <2>3, <2>6 DEF Growth
  <2>8. new.vid = req.vid /\ new.aid = aid /\ new.ref = req.ref /\ new.number = c.count + 1
    OBVIOUS
  <2> HIDE DEF new
  <2>9. RowsInv'
    <3>1. ASSUME NEW a \in DOMAIN artifacts'
          PROVE  /\ "current" \in DOMAIN artifacts'[a]
                 /\ \E v \in versions' : v.aid = a /\ v.vid = artifacts'[a].current
                 /\ a # Doc => a \in DOMAIN bodies'
      <4>1. CASE a = aid
        BY <1>1, <2>1, <2>5, <2>6, <2>8, <4>1
      <4>2. CASE a # aid
        <5>1. a \in DOMAIN artifacts /\ artifacts'[a] = artifacts[a]
          BY <2>6, <4>2
        <5> QED BY <1>1, <2>1, <5>1 DEF Inv, RowsInv
      <4> QED BY <4>1, <4>2
    <3>2. ASSUME NEW v \in versions'
          PROVE  /\ v.aid \in DOMAIN artifacts'
                 /\ v.ref \in DOMAIN bodies' \/ v.vid \in hist'.bare
      <4>1. CASE v \in versions
        BY <1>1, <2>3, <2>6, <4>1 DEF Inv, RowsInv
      <4>2. CASE v = new
        BY <1>1, <2>3, <2>6, <2>8, <4>2
      <4> QED BY <2>1, <4>1, <4>2
    <3>3. Doc \in DOMAIN artifacts'
      BY <2>6 DEF Inv, RowsInv
    <3> QED BY <3>1, <3>2, <3>3 DEF RowsInv
  <2>10. VersionsAreOrdered'
    <3>1. SUFFICES ASSUME "overlap" \notin hist'.flaws, NEW a \in DOMAIN artifacts'
                   PROVE  /\ {v.number : v \in VersionsOf(versions', a)} = 1 .. Cardinality(VersionsOf(versions', a))
                          /\ \E v \in VersionsOf(versions', a) : /\ v.vid = artifacts'[a].current
                                                                 /\ v.number = Cardinality(VersionsOf(versions', a))
      BY DEF VersionsAreOrdered
    <3>2. "overlap" \notin hist.flaws /\ Cardinality(VersionsOf(versions, aid)) = c.count
      BY <2>3, <3>1
    <3>3. CASE a # aid
      <4>1. VersionsOf(versions', a) = VersionsOf(versions, a)
        BY <2>1, <2>8, <3>3 DEF VersionsOf
      <4>2. a \in DOMAIN artifacts /\ artifacts'[a] = artifacts[a]
        BY <2>6, <3>3
      <4> QED BY <3>2, <4>1, <4>2 DEF Inv, VersionsAreOrdered
    <3>4. CASE a = aid
      <4> DEFINE vs == VersionsOf(versions, aid)
      <4>1. VersionsOf(versions', a) = vs \cup {new} /\ new \notin vs
        BY <2>1, <2>4, <2>8, <3>4 DEF VersionsOf
      <4>2. IsFiniteSet(vs)
        BY FS_Subset DEF VersionsOf, Inv, HistInv
      <4>3. c.count \in Nat
        BY <3>2, <4>2, FS_CardinalityType
      <4>4. Cardinality(VersionsOf(versions', a)) = c.count + 1
        BY <3>2, <4>1, <4>2, FS_AddElement
      <4>5. {v.number : v \in vs} = 1 .. c.count
        <5>1. CASE c.kind = "create"
          <6>1. vs = {}
            BY <2>4, <5>1 DEF VersionsOf, Inv, RowsInv
          <6>2. c.count = 0
            BY <1>1, <5>1
          <6> QED BY <6>1, <6>2
        <5>2. CASE c.kind = "version"
          BY <2>4, <3>2, <5>2 DEF Inv, VersionsAreOrdered
        <5> QED BY <1>1, <5>1, <5>2
      <4> HIDE DEF vs
      <4>6. {v.number : v \in vs \cup {new}} = 1 .. (c.count + 1)
        <5>1. {v.number : v \in vs \cup {new}} = {v.number : v \in vs} \cup {new.number}
          OBVIOUS
        <5> QED BY <2>8, <4>3, <4>5, <5>1
      <4>7. new.vid = artifacts'[a].current
        BY <2>5, <2>6, <2>8, <3>4
      <4> QED BY <2>8, <4>1, <4>4, <4>6, <4>7
    <3> QED BY <3>3, <3>4
  <2>11. BodyInv'
    BY <1>1, <2>3 DEF Inv, BodyInv
  <2>12. IsFiniteSet(versions')
    BY <2>1, FS_AddElement DEF Inv, HistInv
  <2>13. /\ CallInv' /\ \A q \in Caller \ {p} : call'[q] = call[q]
         /\ p \notin Editor => call'[p].step # "none" /\ call'[p].req = call[p].req
    BY <1>1, <2>1, <2>6, <2>7, AnswerCall
  <2> QED BY <2>3, <2>7, <2>9, <2>10, <2>11, <2>12, <2>13 DEF ApiOk
<1> QED BY <1>2, <1>3

-----------------------------------------------------------------------------
(* Those who wait for the API.                                             *)

LEMMA JobKept ==
    ASSUME Inv, Growth, UNCHANGED job,
           call[Job].step # "none" => call'[Job].step # "none" /\ call'[Job].req = call[Job].req
    PROVE  JobInv'
BY DEF Inv, JobInv, Growth

LEMMA HookKept ==
    ASSUME Inv, Growth, NEW c \in Conv, hook'[c] = hook[c],
           call[c].step # "none" => call'[c].step # "none" /\ call'[c].req = call[c].req,
           failures \subseteq failures' \/ "log" \in hist'.flaws
    PROVE  HookOk(c)'
<1>1. HookOk(c)
  BY DEF Inv, HookInv
<1> QED BY <1>1 DEF HookOk, Growth, IsCapture

LEMMA EndedKept ==
    ASSUME Inv, Growth, hist'.ended = hist.ended,
           failures \subseteq failures' \/ "log" \in hist'.flaws
    PROVE  EndedInv'
BY DEF Inv, EndedInv, Growth, IsCapture

LEMMA WaitersDiffer ==
    /\ Job \in Caller /\ Job \notin Editor
    /\ \A c \in Conv : c \in Caller /\ c \notin Editor /\ c # Job
    /\ \A e \in Editor : e \in Caller
BY KnowledgeAssumption DEF Caller

LEMMA ApiStepKeepsInv ==
    ASSUME Inv, ApiStep, UNCHANGED <<hooks, job>>
    PROVE  Inv'
<1>1. PICK p \in Caller : ApiOk(p)
  <2>1. PICK p \in Caller :
           \/ /\ OpenArtifact(p) \/ PutBody(p) \/ CheckArtifact(p) \/ CountVersions(p)
              /\ UNCHANGED hist
           \/ Insert(p)
           \/ LoseCall(p) /\ UNCHANGED hist
    BY DEF ApiStep
  <2> QED BY <2>1, OpenIsOk, PutIsOk, CountIsOk, InsertIsOk, LoseIsOk
<1>2. \A q \in Caller : q \notin Editor /\ call[q].step # "none" =>
          call'[q].step # "none" /\ call'[q].req = call[q].req
  BY <1>1 DEF ApiOk
<1>3. /\ Growth /\ CallInv' /\ RowsInv' /\ BodyInv' /\ VersionsAreOrdered'
      /\ hist'.ended = hist.ended /\ UNCHANGED <<failures, hook, job>>
  BY <1>1 DEF ApiOk, hooks
<1>4. HistInv'
  BY <1>1 DEF ApiOk, Inv, HistInv
<1>5. JobInv'
  BY <1>2, <1>3, JobKept, WaitersDiffer
<1>6. \A c \in Conv : HookOk(c)'
  BY <1>2, <1>3, HookKept, WaitersDiffer
<1>7. HookInv'
  BY <1>3, <1>6 DEF HookInv, Inv
<1>8. EndedInv'
  BY <1>3, EndedKept
<1> QED BY <1>3, <1>4, <1>5, <1>7, <1>8 DEF Inv

\* A new request of p, or none.
LEMMA SendIsOk ==
    ASSUME Inv, Growth, NEW p \in Caller, NEW kind \in {"create", "version"}, NEW who, NEW req,
           call' = [call EXCEPT ![p] = Send(kind, who, req)],
           kind = "create" => req.vid = req.aid /\ req.ref = req.aid /\ req.given,
           kind = "version" => req.aid = Doc /\ ~IsCapture(req.ref),
           IsCapture(req.aid) => <<req.aid, req.body>> \in hist'.said
    PROVE  /\ CallInv' /\ call'[p].step # "none" /\ call'[p].req = req
           /\ \A q \in Caller \ {p} : call'[q] = call[q]
<1>1. /\ DOMAIN call' = Caller /\ call'[p] = Send(kind, who, req)
      /\ \A q \in Caller \ {p} : call'[q] = call[q]
  BY DEF Inv, CallInv
<1>2. /\ DOMAIN Send(kind, who, req) = CallFields
      /\ Send(kind, who, req).step = IF kind = "create" THEN "put" ELSE "open"
      /\ Send(kind, who, req).kind = kind /\ Send(kind, who, req).req = req
      /\ Send(kind, who, req).count = 0
  BY DEF Send, NoCall, CallFields
<1>3. CallOk(p)'
  BY <1>1, <1>2 DEF CallOk, IsCapture
<1>4. \A q \in Caller \ {p} : CallOk(q)'
  BY <1>1, CallKept DEF Inv, CallInv
<1>5. CallInv'
  BY <1>1, <1>3, <1>4 DEF CallInv
<1> QED BY <1>1, <1>2, <1>5

LEMMA NoCallLeft ==
    ASSUME Inv, Growth, NEW p \in Caller, call' = [call EXCEPT ![p] = NoCall]
    PROVE  CallInv' /\ \A q \in Caller \ {p} : call'[q] = call[q]
<1>1. /\ DOMAIN call' = Caller /\ call'[p] = NoCall
      /\ \A q \in Caller \ {p} : call'[q] = call[q]
  BY DEF Inv, CallInv
<1>2. CallOk(p)'
  BY <1>1, NoCallIsOk DEF CallOk
<1>3. \A q \in Caller \ {p} : CallOk(q)'
  BY <1>1, CallKept DEF Inv, CallInv
<1> QED BY <1>1, <1>2, <1>3 DEF CallInv

LEMMA EditorStepKeepsInv ==
    ASSUME Inv, EditorStep, UNCHANGED <<hooks, job>>
    PROVE  Inv'
<1>1. UNCHANGED <<hist, failures, hook, job>>
  BY DEF EditorStep, hooks
<1>2. ASSUME NEW e \in Editor, NEW n \in 2..3, NEW ref \in {<<"doc", n>>, <<"file", 0>>},
             NEW given \in BOOLEAN, PostVersion(e, n, ref, given)
      PROVE  Inv'
  <2> DEFINE req == [aid |-> Doc, vid |-> <<"doc", n>>, ref |-> ref,
                     body |-> <<e.id, used.ops>>, given |-> given]
  <2>1. /\ call' = [call EXCEPT ![e] = Send("version", e, req)]
        /\ UNCHANGED <<artifacts, versions, bodies>>
    BY <1>2 DEF PostVersion
  <2>2. Growth
    BY <1>1, <2>1 DEF Growth
  <2>3. req.aid = Doc /\ ~IsCapture(req.aid) /\ ~IsCapture(req.ref)
    BY DEF IsCapture, Doc
  <2> HIDE DEF req
  <2>4. CallInv' /\ \A q \in Caller \ {e} : call'[q] = call[q]
    BY <2>1, <2>2, <2>3, SendIsOk, WaitersDiffer
  <2>5. JobInv' /\ \A c \in Conv : HookOk(c)'
    BY <1>1, <2>2, <2>4, JobKept, HookKept, WaitersDiffer
  <2> QED BY <1>1, <2>1, <2>2, <2>4, <2>5, RowsKept, EndedKept DEF Inv, HistInv, HookInv
<1>3. ASSUME NEW e \in Editor, NEW action, SetStatus(e, action)
      PROVE  Inv'
  <2>1. UNCHANGED <<versions, bodies, call>>
    BY <1>3 DEF SetStatus
  <2>2. /\ DOMAIN artifacts' = DOMAIN artifacts
        /\ \A a \in DOMAIN artifacts : /\ DOMAIN artifacts'[a] = DOMAIN artifacts[a]
                                       /\ artifacts'[a].current = artifacts[a].current
    BY <1>3 DEF SetStatus, Inv, RowsInv
  <2>3. Growth
    BY <1>1, <2>1, <2>2 DEF Growth
  <2>4. RowsInv'
    BY <1>1, <2>1, <2>2 DEF Inv, RowsInv
  <2>5. VersionsAreOrdered'
    <3>1. VersionsAreOrdered
      BY DEF Inv
    <3>2. \A a : VersionsOf(versions', a) = VersionsOf(versions, a)
      BY <2>1
    <3>3. UNCHANGED hist
      BY <1>1
    <3> QED BY <2>2, <3>1, <3>2, <3>3 DEF VersionsAreOrdered
  <2>6. BodyInv'
    BY <1>1, <2>1 DEF Inv, BodyInv
  <2>7. CallInv'
    BY <2>1, <2>3, CallKept DEF Inv, CallInv
  <2>8. JobInv' /\ \A c \in Conv : HookOk(c)'
    BY <1>1, <2>1, <2>3, JobKept, HookKept
  <2> QED BY <1>1, <2>1, <2>3, <2>4, <2>5, <2>6, <2>7, <2>8, EndedKept DEF Inv, HistInv, HookInv
<1> QED BY <1>2, <1>3 DEF EditorStep

LEMMA JobStepKeepsInv ==
    ASSUME Inv, JobStep, UNCHANGED hooks
    PROVE  Inv'
<1>1. UNCHANGED <<artifacts, versions, bodies, hist, failures, hook>>
  BY DEF JobStep, hooks
<1>2. Growth
  BY <1>1 DEF Growth
<1>3. RowsInv' /\ BodyInv' /\ VersionsAreOrdered' /\ HistInv' /\ EndedInv'
  BY <1>1, <1>2, RowsKept, EndedKept DEF Inv, HistInv
<1>4. ASSUME CallInv', JobInv', \A q \in Caller \ {Job} : call'[q] = call[q] PROVE Inv'
  <2>1. \A c \in Conv : HookOk(c)'
    BY <1>1, <1>2, <1>4, HookKept, WaitersDiffer
  <2> QED BY <1>1, <1>3, <1>4, <2>1 DEF Inv, HookInv
<1>5. ASSUME NEW aid \in Target, NEW body
      PROVE  /\ NewRequest(aid, "project", body).aid = aid
             /\ NewRequest(aid, "project", body).vid = aid
             /\ NewRequest(aid, "project", body).ref = aid
             /\ NewRequest(aid, "project", body).given
             /\ ~IsCapture(aid)
  BY DEF NewRequest, Target, IsCapture
<1>6. ASSUME NEW targets \in {<<<<"context", 0>>>>, <<<<"context", 0>>, <<"note", 0>>>>},
             StartJob(targets)
      PROVE  Inv'
  <2>1. targets \in Seq(Target) /\ targets # <<>> /\ Head(targets) \in Target
    <3>1. \A x, y \in Target : /\ <<x>> \in Seq(Target) /\ <<x>> # <<>> /\ Head(<<x>>) = x
                              /\ <<x, y>> \in Seq(Target) /\ <<x, y>> # <<>> /\ Head(<<x, y>>) = x
      OBVIOUS
    <3>2. <<"context", 0>> \in Target /\ <<"note", 0>> \in Target
      BY DEF Target
    <3> QED BY <3>1, <3>2
  <2> DEFINE req == NewRequest(Head(targets), "project", <<"found", used.ops>>)
  <2>2. /\ call' = [call EXCEPT ![Job] = Send("create", Worker, req)]
        /\ job' = [job EXCEPT !.todo = targets, !.targets = targets, !.attempt = used.ops,
                              !.acked = FALSE]
    BY <1>6 DEF StartJob
  <2>3. /\ req.aid = Head(targets) /\ req.vid = req.aid /\ req.ref = req.aid /\ req.given
        /\ ~IsCapture(req.aid)
    BY <1>5, <2>1
  <2> HIDE DEF req
  <2>4. /\ CallInv' /\ call'[Job].step # "none" /\ call'[Job].req = req
        /\ \A q \in Caller \ {Job} : call'[q] = call[q]
    BY <1>2, <2>2, <2>3, SendIsOk, WaitersDiffer
  <2>5. /\ DOMAIN job' = DOMAIN job /\ job'.todo = targets /\ job'.targets = targets
        /\ job'.acked = FALSE
    BY <2>2 DEF Inv, JobInv
  <2>6. JobInv'
    BY <2>1, <2>3, <2>4, <2>5 DEF JobInv, Inv
  <2> QED BY <1>4, <2>4, <2>6
<1>7. ASSUME JobAnswered PROVE Inv'
  <2> DEFINE rest == Tail(job.todo)
  <2>1. /\ job.todo \in Seq(Target) /\ job.todo # <<>> /\ call[Job].step = "done"
        /\ call[Job].req.aid = Head(job.todo)
        /\ rest \in Seq(Target)
    BY <1>7 DEF JobAnswered, At, Inv, JobInv
  <2>2. CASE ~Created(call[Job].answer)
    <3>1. job' = [job EXCEPT !.todo = <<>>] /\ call' = [call EXCEPT ![Job] = NoCall]
      BY <1>7, <2>2 DEF JobAnswered
    <3>2. DOMAIN job' = DOMAIN job /\ job'.todo = <<>> /\ job'.acked = job.acked /\ ~job.acked
      BY <2>1, <3>1 DEF Inv, JobInv
    <3>3. JobInv'
      BY <3>2 DEF Inv, JobInv
    <3> QED BY <1>2, <1>4, <3>1, <3>3, NoCallLeft, WaitersDiffer
  <2>3. CASE Created(call[Job].answer)
    <3>1. Head(job.todo) \in DOMAIN artifacts
      BY <2>1, <2>3, WaitersDiffer DEF Created, Inv, CallInv, CallOk
    <3>2. /\ job' = [job EXCEPT !.todo = rest, !.acked = rest = <<>>]
          /\ call' = [call EXCEPT ![Job] =
               IF rest = <<>> THEN NoCall
               ELSE Send("create", Worker, NewRequest(Head(rest), "project", <<"found", job.attempt>>))]
      BY <1>7, <2>3 DEF JobAnswered
    <3>3. /\ DOMAIN job' = DOMAIN job /\ job'.todo = rest /\ job'.targets = job.targets
          /\ job'.acked \in BOOLEAN /\ (job'.acked => rest = <<>>)
      BY <3>2 DEF Inv, JobInv
    <3>4. ASSUME NEW i \in DOMAIN job.targets
          PROVE  \/ job.targets[i] \in DOMAIN artifacts
                 \/ \E j \in DOMAIN rest : rest[j] = job.targets[i]
      <4>1. \/ job.targets[i] \in DOMAIN artifacts
            \/ \E j \in DOMAIN job.todo : job.todo[j] = job.targets[i]
        BY <2>1 DEF Inv, JobInv
      <4>2. ASSUME NEW j \in DOMAIN job.todo, job.todo[j] = job.targets[i], j # 1
            PROVE  \E k \in DOMAIN rest : rest[k] = job.targets[i]
        <5>1. j - 1 \in DOMAIN rest /\ rest[j - 1] = job.todo[j]
          BY <2>1, <4>2
        <5> QED BY <4>2, <5>1
      <4>3. job.todo[1] = Head(job.todo)
        BY <2>1
      <4> QED BY <3>1, <4>1, <4>2, <4>3
    <3>5. CASE rest = <<>>
      <4>1. call' = [call EXCEPT ![Job] = NoCall]
        BY <3>2, <3>5
      <4>2. JobInv'
        BY <1>1, <2>1, <3>3, <3>4, <3>5 DEF Inv, JobInv
      <4> QED BY <1>2, <1>4, <4>1, <4>2, NoCallLeft, WaitersDiffer
    <3>6. CASE rest # <<>>
      <4> DEFINE req == NewRequest(Head(rest), "project", <<"found", job.attempt>>)
      <4>1. call' = [call EXCEPT ![Job] = Send("create", Worker, req)]
        BY <3>2, <3>6
      <4>2. Head(rest) \in Target
        BY <2>1, <3>6
      <4>3. /\ req.aid = Head(rest) /\ req.vid = req.aid /\ req.ref = req.aid /\ req.given
            /\ ~IsCapture(req.aid)
        BY <1>5, <4>2
      <4> HIDE DEF req
      <4>4. /\ CallInv' /\ call'[Job].step # "none" /\ call'[Job].req = req
            /\ \A q \in Caller \ {Job} : call'[q] = call[q]
        BY <1>2, <4>1, <4>3, SendIsOk, WaitersDiffer
      <4>5. JobInv'
        BY <1>1, <2>1, <3>3, <3>4, <3>6, <4>3, <4>4 DEF Inv, JobInv
      <4> QED BY <1>4, <4>4, <4>5
    <3> QED BY <3>5, <3>6
  <2> QED BY <2>2, <2>3
<1> QED BY <1>6, <1>7 DEF JobStep

-----------------------------------------------------------------------------
(* The hooks.                                                              *)

\* What a step of the hooks of one conversation has to keep.
LEMMA HookMoves ==
    ASSUME Inv, NEW c \in Conv, UNCHANGED <<artifacts, versions, bodies, job>>,
           DOMAIN hist' = DOMAIN hist, hist.said \subseteq hist'.said, IsFiniteSet(hist'.said),
           hist.flaws \subseteq hist'.flaws, hist.bare \subseteq hist'.bare,
           CallInv', \A q \in Caller \ {c} : call'[q] = call[q],
           failures \subseteq failures' \/ "log" \in hist'.flaws,
           DOMAIN hook' = Conv, \A d \in Conv \ {c} : hook'[d] = hook[d],
           HookOk(c)', EndedInv'
    PROVE  Inv'
<1>1. Growth
  BY DEF Growth
<1>2. JobInv'
  BY <1>1, JobKept, WaitersDiffer
<1>3. \A d \in Conv \ {c} : HookOk(d)'
  BY <1>1, HookKept, WaitersDiffer
<1>4. HookInv'
  BY <1>3 DEF HookInv
<1>5. HistInv'
  BY DEF Inv, HistInv
<1> QED BY <1>1, <1>2, <1>4, <1>5, RowsKept DEF Inv

\* A step of a hook that writes nothing down and asks nothing.
LEMMA HookMovesQuietly ==
    ASSUME Inv, NEW c \in Conv, UNCHANGED <<artifacts, versions, bodies, job, hist, failures, call>>,
           DOMAIN hook' = Conv, \A d \in Conv \ {c} : hook'[d] = hook[d],
           HookOk(c)'
    PROVE  Inv'
<1>1. Growth
  BY DEF Growth
<1>2. CallInv'
  BY <1>1, CallKept DEF Inv, CallInv
<1>3. EndedInv'
  BY <1>1, EndedKept
<1> QED BY <1>2, <1>3, HookMoves DEF Inv, HistInv

LEMMA IdleIsOk ==
    ASSUME Inv, NEW c \in Conv, hook' = [hook EXCEPT ![c] = Idle(c)]
    PROVE  /\ DOMAIN hook' = Conv /\ \A d \in Conv \ {c} : hook'[d] = hook[d]
           /\ HookOk(c)'
<1>1. DOMAIN hook' = Conv /\ hook'[c] = Idle(c) /\ \A d \in Conv \ {c} : hook'[d] = hook[d]
  BY DEF Inv, HookInv
<1>2. DOMAIN Idle(c) = HookFields /\ Idle(c).at = "idle" /\ Idle(c).ok = FALSE
  BY DEF Idle, NoHook, HookFields
<1> QED BY <1>1, <1>2 DEF HookOk

LEMMA PromptKeepsInv ==
    ASSUME Inv, NEW c \in Conv, UNCHANGED <<artifacts, versions, bodies, job, hist, call>>,
           \/ \E stored \in BOOLEAN : Prompt(c, stored)
           \/ \E payload : Respond(c, payload)
    PROVE  Inv'
<1>0. HookOk(c) /\ DOMAIN hook = Conv
  BY DEF Inv, HookInv
<1>1. ASSUME NEW stored \in BOOLEAN, Prompt(c, stored) PROVE Inv'
  <2>1. hook' = [hook EXCEPT ![c].asked = TRUE, ![c].turn = @ + 1] /\ UNCHANGED failures
    BY <1>1 DEF Prompt
  <2>2. /\ DOMAIN hook' = Conv /\ \A d \in Conv \ {c} : hook'[d] = hook[d]
        /\ DOMAIN hook'[c] = HookFields /\ hook'[c].at = hook[c].at /\ hook'[c].ok = hook[c].ok
        /\ hook'[c].aid = hook[c].aid /\ hook'[c].said = hook[c].said
    BY <1>0, <2>1 DEF HookOk, HookFields
  <2>3. HookOk(c)'
    BY <1>0, <2>1, <2>2 DEF HookOk, IsCapture
  <2> QED BY <2>1, <2>2, <2>3, HookMovesQuietly
<1>2. ASSUME NEW payload, Respond(c, payload) PROVE Inv'
  <2>1. /\ hook' = [hook EXCEPT ![c].asked = FALSE, ![c].at = "read", ![c].payload = payload,
                                ![c].reply = <<c, hook[c].turn>>]
        /\ UNCHANGED failures
    BY <1>2 DEF Respond
  <2>2. /\ DOMAIN hook' = Conv /\ \A d \in Conv \ {c} : hook'[d] = hook[d]
        /\ DOMAIN hook'[c] = HookFields /\ hook'[c].at = "read" /\ hook'[c].ok = hook[c].ok
    BY <1>0, <2>1 DEF HookOk, HookFields
  <2>3. HookOk(c)'
    BY <1>0, <2>2 DEF HookOk
  <2> QED BY <2>1, <2>2, <2>3, HookMovesQuietly
<1> QED BY <1>1, <1>2

LEMMA ReadTurnKeepsInv ==
    ASSUME Inv, NEW c \in Conv, UNCHANGED <<artifacts, versions, bodies, job>>, ReadTurn(c)
    PROVE  Inv'
<1> DEFINE said == Halves(c)
           id == CaptureId
<1>0. HookOk(c) /\ DOMAIN hook = Conv /\ UNCHANGED failures /\ c \in Caller
  BY WaitersDiffer DEF Inv, HookInv, ReadTurn
<1>1. CASE said.user = <<>> /\ said.reply = <<>>
  <2>1. hook' = [hook EXCEPT ![c] = Idle(c)] /\ UNCHANGED <<call, hist>>
    BY <1>1 DEF ReadTurn
  <2> QED BY <1>0, <2>1, IdleIsOk, HookMovesQuietly
<1>2. CASE ~(said.user = <<>> /\ said.reply = <<>>)
  <2> DEFINE paired == hook[c].payload # "text" /\ pending # <<>>
             req == NewRequest(id, "project", said)
  <2>1. /\ hook' = [hook EXCEPT ![c].at = "worker", ![c].said = said, ![c].aid = id, ![c].paired = paired]
        /\ call' = [call EXCEPT ![c] = Send("create", Worker, req)]
        /\ hist' = [hist EXCEPT !.said = @ \cup {<<id, said>>}]
    BY <1>2 DEF ReadTurn
  <2>2. /\ req.aid = id /\ req.vid = id /\ req.ref = id /\ req.body = said /\ req.given
        /\ IsCapture(id)
    BY DEF NewRequest, CaptureId, IsCapture
  <2> HIDE DEF said, id, paired, req
  <2>3. /\ DOMAIN hook' = Conv /\ \A d \in Conv \ {c} : hook'[d] = hook[d]
        /\ DOMAIN hook'[c] = HookFields /\ hook'[c].at = "worker" /\ hook'[c].ok = hook[c].ok
        /\ hook'[c].aid = id /\ hook'[c].said = said
    BY <1>0, <2>1 DEF HookOk, HookFields
  <2>4. /\ DOMAIN hist' = DOMAIN hist /\ hist'.said = hist.said \cup {<<id, said>>}
        /\ hist'.flaws = hist.flaws /\ hist'.ended = hist.ended /\ hist'.bare = hist.bare
    BY <2>1 DEF Inv, HistInv
  <2>5. Growth
    BY <2>4 DEF Growth
  <2>6. /\ CallInv' /\ call'[c].step # "none" /\ call'[c].req = req
        /\ \A q \in Caller \ {c} : call'[q] = call[q]
    BY <1>0, <2>1, <2>2, <2>4, <2>5, SendIsOk
  <2>7. HookOk(c)'
    BY <1>0, <2>2, <2>3, <2>4, <2>6 DEF HookOk, IsCapture
  <2>8. EndedInv'
    BY <1>0, <2>4, <2>5, EndedKept
  <2>9. IsFiniteSet(hist'.said)
    <3>1. IsFiniteSet(hist.said)
      BY DEF Inv, HistInv
    <3>2. IsFiniteSet(hist.said \cup {<<id, said>>})
      BY <3>1, FS_AddElement
    <3> QED BY <2>4, <3>2
  <2> QED BY <1>0, <2>3, <2>4, <2>6, <2>7, <2>8, <2>9, HookMoves
<1> QED BY <1>1, <1>2

LEMMA AnsweredKeepsInv ==
    ASSUME Inv, NEW c \in Conv, UNCHANGED <<artifacts, versions, bodies, job, hist>>,
           WorkerAnswered(c) \/ FallbackAnswered(c)
    PROVE  Inv'
<1>0. /\ HookOk(c) /\ DOMAIN hook = Conv /\ UNCHANGED failures /\ c \in Caller /\ CallOk(c)
      /\ Growth
  BY WaitersDiffer DEF Inv, HookInv, CallInv, WorkerAnswered, FallbackAnswered, Growth
<1>1. /\ hook[c].at \in {"worker", "fallback"} /\ call[c].step = "done"
      /\ call[c].req.aid = hook[c].aid
      /\ IsCapture(hook[c].aid) /\ <<hook[c].aid, hook[c].said>> \in hist.said
  BY <1>0 DEF WorkerAnswered, FallbackAnswered, At, HookOk
<1>2. call[c].answer \in {"201", "409"} => hook[c].aid \in DOMAIN artifacts
  BY <1>0, <1>1 DEF CallOk
<1>3. EndedInv'
  BY <1>0, EndedKept
<1>4. ASSUME NEW ok \in BOOLEAN, NEW at \in {"log", "fallback"},
             hook' = [hook EXCEPT ![c].at = at, ![c].ok = ok],
             at = "log" /\ ok => call[c].answer \in {"201", "409"},
             at = "fallback" => call'[c].step # "none" /\ call'[c].req.aid = hook[c].aid,
             CallInv', \A q \in Caller \ {c} : call'[q] = call[q]
      PROVE  Inv'
  <2>1. /\ DOMAIN hook' = Conv /\ \A d \in Conv \ {c} : hook'[d] = hook[d]
        /\ DOMAIN hook'[c] = HookFields /\ hook'[c].at = at /\ hook'[c].ok = ok
        /\ hook'[c].aid = hook[c].aid /\ hook'[c].said = hook[c].said
    BY <1>0, <1>4 DEF HookOk, HookFields
  <2>2. HookOk(c)'
    BY <1>1, <1>2, <1>4, <2>1 DEF HookOk, IsCapture
  <2> QED BY <1>0, <1>3, <1>4, <2>1, <2>2, HookMoves DEF Inv, HistInv
<1>5. CASE WorkerAnswered(c) /\ Created(call[c].answer)
  <2>1. /\ hook' = [hook EXCEPT ![c].at = "log", ![c].ok = TRUE]
        /\ call' = [call EXCEPT ![c] = NoCall]
    <3>1. hook' = [hook EXCEPT ![c].at = IF Created(call[c].answer) THEN "log" ELSE "fallback",
                               ![c].ok = Created(call[c].answer)]
      BY <1>5 DEF WorkerAnswered
    <3>2. Created(call[c].answer) = TRUE
      BY <1>5 DEF Created
    <3> QED BY <1>5, <3>1, <3>2 DEF WorkerAnswered
  <2>2. CallInv' /\ \A q \in Caller \ {c} : call'[q] = call[q]
    BY <1>0, <2>1, NoCallLeft
  <2>3. call[c].answer \in {"201", "409"}
    BY <1>5 DEF Created
  <2> QED BY <1>4, <2>1, <2>2, <2>3
<1>6. CASE WorkerAnswered(c) /\ ~Created(call[c].answer)
  <2> DEFINE req == NewRequest(hook[c].aid, "team", hook[c].said)
  <2>1. /\ hook' = [hook EXCEPT ![c].at = "fallback", ![c].ok = FALSE]
        /\ call' = [call EXCEPT ![c] = Send("create", Cli, req)]
    <3>1. hook' = [hook EXCEPT ![c].at = IF Created(call[c].answer) THEN "log" ELSE "fallback",
                               ![c].ok = Created(call[c].answer)]
      BY <1>6 DEF WorkerAnswered
    <3>2. Created(call[c].answer) = FALSE
      BY <1>6 DEF Created
    <3> QED BY <1>6, <3>1, <3>2 DEF WorkerAnswered
  <2>2. /\ req.aid = hook[c].aid /\ req.vid = hook[c].aid /\ req.ref = hook[c].aid
        /\ req.body = hook[c].said /\ req.given
    BY DEF NewRequest
  <2> HIDE DEF req
  <2>3. /\ CallInv' /\ call'[c].step # "none" /\ call'[c].req = req
        /\ \A q \in Caller \ {c} : call'[q] = call[q]
    BY <1>0, <1>1, <2>1, <2>2, SendIsOk
  <2> QED BY <1>4, <2>1, <2>2, <2>3
<1>7. CASE FallbackAnswered(c)
  <2>1. PICK ok \in BOOLEAN : ok = (call[c].answer = "201")
    OBVIOUS
  <2>2. /\ hook' = [hook EXCEPT ![c].at = "log", ![c].ok = ok]
        /\ call' = [call EXCEPT ![c] = NoCall]
    BY <1>7, <2>1 DEF FallbackAnswered
  <2>3. CallInv' /\ \A q \in Caller \ {c} : call'[q] = call[q]
    BY <1>0, <2>2, NoCallLeft
  <2> QED BY <1>4, <2>1, <2>2, <2>3
<1> QED BY <1>5, <1>6, <1>7

LEMMA LogKeepsInv ==
    ASSUME Inv, NEW c \in Conv, UNCHANGED <<artifacts, versions, bodies, job, call>>,
           \/ ReadLog(c) /\ UNCHANGED hist
           \/ AppendLog(c)
           \/ ClearPending(c)
           \/ HookDies(c)
    PROVE  Inv'
<1>0. HookOk(c) /\ DOMAIN hook = Conv /\ c \in Caller
  BY WaitersDiffer DEF Inv, HookInv
<1>1. CASE ReadLog(c) /\ UNCHANGED hist
  <2>1. /\ hook[c].at = "log" /\ UNCHANGED failures
        /\ hook' = [hook EXCEPT ![c].at = IF hook[c].ok THEN "clear" ELSE "append", ![c].copy = failures]
    BY <1>1 DEF ReadLog
  <2>2. /\ DOMAIN hook' = Conv /\ \A d \in Conv \ {c} : hook'[d] = hook[d]
        /\ DOMAIN hook'[c] = HookFields /\ hook'[c].ok = hook[c].ok
        /\ hook'[c].at = IF hook[c].ok THEN "clear" ELSE "append"
        /\ hook'[c].aid = hook[c].aid /\ hook'[c].said = hook[c].said
    BY <1>0, <2>1 DEF HookOk, HookFields
  <2>3. HookOk(c)'
    BY <1>0, <1>1, <2>1, <2>2 DEF HookOk, IsCapture
  <2> QED BY <1>1, <2>1, <2>2, <2>3, HookMovesQuietly
<1>2. CASE AppendLog(c)
  <2>1. /\ hook[c].at = "append" /\ failures' = hook[c].copy \cup {hook[c].said}
        /\ hist' = [hist EXCEPT !.flaws = IF failures = hook[c].copy THEN @ ELSE @ \cup {"log"}]
        /\ hook' = [hook EXCEPT ![c].at = "clear"]
    BY <1>2 DEF AppendLog
  <2>2. /\ DOMAIN hook' = Conv /\ \A d \in Conv \ {c} : hook'[d] = hook[d]
        /\ DOMAIN hook'[c] = HookFields /\ hook'[c].ok = hook[c].ok /\ hook'[c].at = "clear"
        /\ hook'[c].aid = hook[c].aid /\ hook'[c].said = hook[c].said
    BY <1>0, <2>1 DEF HookOk, HookFields
  <2>3. /\ DOMAIN hist' = DOMAIN hist /\ hist'.said = hist.said /\ hist'.ended = hist.ended
        /\ hist'.flaws = IF failures = hook[c].copy THEN hist.flaws ELSE hist.flaws \cup {"log"}
        /\ hist'.bare = hist.bare
    BY <2>1 DEF Inv, HistInv
  <2>4. Growth
    BY <2>3 DEF Growth
  <2>5. failures \subseteq failures' \/ "log" \in hist'.flaws
    BY <2>1, <2>3
  <2>6. HookOk(c)'
    BY <1>0, <2>1, <2>2, <2>3 DEF HookOk, IsCapture
  <2>7. CallInv'
    BY <2>4, CallKept DEF Inv, CallInv
  <2>8. EndedInv'
    BY <2>3, <2>4, <2>5, EndedKept
  <2> QED BY <2>2, <2>3, <2>5, <2>6, <2>7, <2>8, HookMoves DEF Inv, HistInv
<1>3. CASE ClearPending(c)
  <2> DEFINE r == [aid |-> hook[c].aid, said |-> hook[c].said, ok |-> hook[c].ok]
  <2>1. /\ hook[c].at = "clear" /\ UNCHANGED failures
        /\ hist' = [hist EXCEPT !.ended = @ \cup {r}]
        /\ hook' = [hook EXCEPT ![c] = Idle(c)]
    BY <1>3 DEF ClearPending
  <2>2. r.aid = hook[c].aid /\ r.said = hook[c].said /\ r.ok = hook[c].ok
    OBVIOUS
  <2> HIDE DEF r
  <2>3. /\ DOMAIN hist' = DOMAIN hist /\ hist'.said = hist.said /\ hist'.flaws = hist.flaws
        /\ hist'.ended = hist.ended \cup {r} /\ hist'.bare = hist.bare
    BY <2>1 DEF Inv, HistInv
  <2>4. Growth
    BY <2>3 DEF Growth
  <2>5. EndedInv'
    <3>1. ASSUME NEW x \in hist'.ended
          PROVE  /\ x.ok \in BOOLEAN /\ IsCapture(x.aid) /\ <<x.aid, x.said>> \in hist.said
                 /\ x.ok => x.aid \in DOMAIN artifacts
                 /\ ~x.ok => x.said \in failures \/ "log" \in hist.flaws
      <4>1. CASE x = r
        BY <1>0, <2>1, <2>2, <4>1 DEF HookOk
      <4>2. CASE x \in hist.ended
        BY <4>2 DEF Inv, EndedInv
      <4> QED BY <2>3, <4>1, <4>2
    <3> QED BY <2>1, <2>3, <3>1 DEF EndedInv, IsCapture
  <2>6. CallInv'
    BY <2>4, CallKept DEF Inv, CallInv
  <2> QED BY <2>1, <2>3, <2>5, <2>6, IdleIsOk, HookMoves DEF Inv, HistInv
<1>4. CASE HookDies(c)
  <2>1. /\ hook' = [hook EXCEPT ![c] = Idle(c)]
        /\ \/ hist' = [hist EXCEPT !.flaws = @ \cup {"log"}]
           \/ UNCHANGED <<failures, hist>>
    BY <1>4 DEF HookDies
  <2>2. CASE hist' = [hist EXCEPT !.flaws = @ \cup {"log"}]
    <3>1. /\ DOMAIN hist' = DOMAIN hist /\ hist'.said = hist.said /\ hist'.ended = hist.ended
          /\ hist'.flaws = hist.flaws \cup {"log"} /\ hist'.bare = hist.bare
      BY <2>2 DEF Inv, HistInv
    <3>2. Growth
      BY <3>1 DEF Growth
    <3>3. CallInv' /\ EndedInv'
      BY <3>1, <3>2, CallKept, EndedKept DEF Inv, CallInv
    <3> QED BY <2>1, <3>1, <3>3, IdleIsOk, HookMoves DEF Inv, HistInv
  <2>3. CASE UNCHANGED <<failures, hist>>
    BY <2>1, <2>3, IdleIsOk, HookMovesQuietly
  <2> QED BY <2>1, <2>2, <2>3
<1> QED BY <1>1, <1>2, <1>3, <1>4

LEMMA HookStepKeepsInv ==
    ASSUME Inv, HookStep, UNCHANGED job
    PROVE  Inv'
<1>1. UNCHANGED <<artifacts, versions, bodies, job>>
  BY DEF HookStep
<1>2. PICK c \in Conv :
           \/ (\E stored \in BOOLEAN : Prompt(c, stored)) /\ UNCHANGED <<call, hist>>
           \/ (\E payload : Respond(c, payload)) /\ UNCHANGED <<call, hist>>
           \/ ReadTurn(c)
           \/ (WorkerAnswered(c) \/ FallbackAnswered(c)) /\ UNCHANGED hist
           \/ ReadLog(c) /\ UNCHANGED <<call, hist>>
           \/ (AppendLog(c) \/ ClearPending(c)) /\ UNCHANGED call
           \/ HookDies(c) /\ UNCHANGED call
  BY DEF HookStep, HookDies
<1> QED BY <1>1, <1>2, PromptKeepsInv, ReadTurnKeepsInv, AnsweredKeepsInv, LogKeepsInv

\* The queue of DoR events is no concern of the artifacts.
HistGrows ==
    /\ DOMAIN hist' = DOMAIN hist /\ hist'.said = hist.said /\ hist'.ended = hist.ended
    /\ hist'.bare = hist.bare /\ hist.flaws \subseteq hist'.flaws

LEMMA DorStepKeepsInv ==
    ASSUME Inv, DorStep, UNCHANGED <<api, hooks, job>>
    PROVE  Inv'
<1>1. HistGrows
  <2>0. DOMAIN hist = {"said", "ended", "flaws", "sent", "logged", "bare"}
    BY DEF Inv, HistInv
  <2>1. CASE UNCHANGED hist
    BY <2>1 DEF HistGrows
  <2>2. ASSUME NEW d \in Dor, DorAccepted(d) PROVE HistGrows
    BY <2>0, <2>2 DEF DorAccepted, HistGrows
  <2>3. ASSUME NEW d \in Dor, NEW taken \in BOOLEAN, DorFailed(d, taken) PROVE HistGrows
    BY <2>0, <2>3 DEF DorFailed, HistGrows
  <2>4. ASSUME NEW d \in Dor, DorRequeue(d) PROVE HistGrows
    BY <2>0, <2>4 DEF DorRequeue, HistGrows
  <2>5. ASSUME NEW d \in Dor, DorRewrite(d) PROVE HistGrows
    BY <2>0, <2>5 DEF DorRewrite, HistGrows
  <2>6. ASSUME NEW d \in Dor, DorDies(d) PROVE HistGrows
    BY <2>0, <2>6 DEF DorDies, HistGrows
  <2>7. PICK d \in Dor : \/ UNCHANGED hist
                       \/ DorAccepted(d)
                       \/ \E taken \in BOOLEAN : DorFailed(d, taken)
                       \/ DorRequeue(d)
                       \/ DorRewrite(d)
                       \/ DorDies(d)
    BY DEF DorStep
  <2> QED BY <2>1, <2>2, <2>3, <2>4, <2>5, <2>6, <2>7
<1>2. Growth
  BY <1>1 DEF Growth, HistGrows, api
<1>3. UNCHANGED <<artifacts, versions, bodies, call, failures, hook, job>>
  BY DEF api, hooks
<1>4. CallInv' /\ EndedInv' /\ RowsInv' /\ BodyInv' /\ VersionsAreOrdered'
  BY <1>1, <1>2, <1>3, CallKept, EndedKept, RowsKept DEF Inv, CallInv, HistGrows
<1>5. JobInv' /\ HookInv'
  BY <1>2, <1>3, JobKept, HookKept DEF Inv, HookInv
<1> QED BY <1>1, <1>3, <1>4, <1>5 DEF Inv, HistInv, HistGrows

LEMMA InvNext == Inv /\ [Next]_vars => Inv'
<1> SUFFICES ASSUME Inv, [Next]_vars PROVE Inv'
  OBVIOUS
<1>1. CASE UNCHANGED <<api, hooks, job, hist>>
  BY <1>1 DEF api, hooks, Inv, CallInv, CallOk, RowsInv, BodyInv, HistInv, JobInv, HookInv, HookOk,
              EndedInv, VersionsAreOrdered
<1>2. \/ UNCHANGED <<api, hooks, job, hist>>
      \/ ApiStep /\ UNCHANGED <<hooks, job>>
      \/ EditorStep /\ UNCHANGED <<hooks, job>>
      \/ JobStep /\ UNCHANGED hooks
      \/ HookStep /\ UNCHANGED job
      \/ DorStep /\ UNCHANGED <<api, hooks, job>>
  BY DEF Next, Tick, vars
<1> QED BY <1>1, <1>2, ApiStepKeepsInv, EditorStepKeepsInv, JobStepKeepsInv, HookStepKeepsInv,
           DorStepKeepsInv

-----------------------------------------------------------------------------
\* services/artifacts.py, worker and hooks: what is known of every row, body, request, job and
\* capture, wherever their steps interleave.
THEOREM RowsAreSound == Spec => []Inv
BY InvInit, InvNext, PTL DEF Spec

\* services/artifacts.py: versions are numbered in order, as long as no requests overlapped.
THEOREM NumbersInOrder == Spec => []VersionsAreOrdered
<1>1. Inv => VersionsAreOrdered
  BY DEF Inv
<1> QED BY <1>1, RowsAreSound, PTL

\* routers/artifacts.py: what the listing shows can be read, in every version.
THEOREM ListingIsReadable == Spec => []ShownCanBeRead
<1>1. Inv => ShownCanBeRead
  <2>1. SUFFICES ASSUME Inv, NEW actor \in Editor \cup {Cli}, NEW a \in Listed(artifacts, actor, <<>>)
                 PROVE  /\ \/ BodyAnswer(artifacts, versions, bodies, actor, a, {}) = "200"
                           \/ artifacts[a].current \in hist.bare
                        /\ \A v \in Versions(artifacts, versions, actor, a) :
                               \/ BodyAnswer(artifacts, versions, bodies, actor, a, {v.vid}) = "200"
                               \/ v.vid \in hist.bare
    BY DEF ShownCanBeRead
  <2>2. /\ a \in DOMAIN artifacts /\ InCompany(actor, artifacts[a])
        /\ CanAccess(actor, artifacts[a], "view")
    BY DEF Listed
  <2>3. PICK cur \in versions : cur.aid = a /\ cur.vid = artifacts[a].current
    BY <2>1, <2>2 DEF Inv, RowsInv
  <2>4. Found(artifacts, versions, a)
    BY <2>2, <2>3 DEF Found
  <2>5. ASSUME NEW asked, NEW wanted,
               {wanted} = IF asked = {} THEN {artifacts[a].current} ELSE asked,
               \E v \in versions : v.aid = a /\ v.vid = wanted
        PROVE  \/ BodyAnswer(artifacts, versions, bodies, actor, a, asked) = "200"
               \/ wanted \in hist.bare
    <3>1. PICK v \in VersionsOf(versions, a) : v.vid = wanted
      BY <2>5 DEF VersionsOf
    <3>2. v.ref \in DOMAIN bodies \/ wanted \in hist.bare
      BY <2>1, <3>1 DEF Inv, RowsInv, VersionsOf
    <3> QED BY <2>2, <2>4, <2>5, <3>1, <3>2 DEF BodyAnswer
  <2>6. \/ BodyAnswer(artifacts, versions, bodies, actor, a, {}) = "200"
        \/ artifacts[a].current \in hist.bare
    BY <2>3, <2>5
  <2>7. ASSUME NEW v \in Versions(artifacts, versions, actor, a)
        PROVE  \/ BodyAnswer(artifacts, versions, bodies, actor, a, {v.vid}) = "200"
               \/ v.vid \in hist.bare
    <3>1. v \in versions /\ v.aid = a
      BY DEF Versions, VersionsOf
    <3> QED BY <2>5, <3>1
  <2> QED BY <2>6, <2>7
<1> QED BY <1>1, RowsAreSound, PTL

\* knowledge_worker: a job that answers well has made every artifact of its request.
THEOREM JobsAreWhole == Spec => []AckedJobMadeAll
<1>1. Inv => AckedJobMadeAll
  <2>1. SUFFICES ASSUME Inv, job.acked, NEW i \in DOMAIN job.targets
                 PROVE  job.targets[i] \in DOMAIN artifacts
    BY DEF AckedJobMadeAll
  <2>2. job.todo = <<>> /\ job.todo \in Seq(Target)
    BY <2>1 DEF Inv, JobInv
  <2>3. DOMAIN job.todo = {}
    BY <2>2
  <2> QED BY <2>1, <2>3 DEF Inv, JobInv
<1> QED BY <1>1, RowsAreSound, PTL

\* capture_session: a capture that ends keeps its turn, in its artifact or in the log.
THEOREM CapturesKeepTurns == Spec => []TurnsAreKept
<1>1. Inv => TurnsAreKept
  <2>1. SUFFICES ASSUME Inv, NEW r \in hist.ended,
                        Cardinality({s \in hist.said : s[1] = r.aid}) = 1
                 PROVE  IF r.ok THEN r.aid \in DOMAIN artifacts /\ bodies[r.aid] = r.said
                        ELSE r.said \in failures \/ "log" \in hist.flaws
    BY DEF TurnsAreKept
  <2>2. /\ r.ok \in BOOLEAN /\ IsCapture(r.aid) /\ <<r.aid, r.said>> \in hist.said
        /\ r.ok => r.aid \in DOMAIN artifacts
        /\ ~r.ok => r.said \in failures \/ "log" \in hist.flaws
    BY <2>1 DEF Inv, EndedInv
  <2>3. CASE r.ok
    <3>1. r.aid \in DOMAIN artifacts /\ r.aid # Doc
      BY <2>2, <2>3 DEF IsCapture, Doc
    <3>2. r.aid \in DOMAIN bodies
      BY <2>1, <3>1 DEF Inv, RowsInv
    <3>3. <<r.aid, bodies[r.aid]>> \in hist.said
      BY <2>1, <2>2, <3>2 DEF Inv, BodyInv
    <3> DEFINE same == {s \in hist.said : s[1] = r.aid}
    <3>4. IsFiniteSet(same)
      BY <2>1, FS_Subset DEF Inv, HistInv
    <3>5. \E x : same = {x}
      BY <2>1, <3>4, FS_Singleton
    <3>6. <<r.aid, r.said>> \in same /\ <<r.aid, bodies[r.aid]>> \in same
      BY <2>2, <3>3
    <3> HIDE DEF same
    <3>7. <<r.aid, r.said>> = <<r.aid, bodies[r.aid]>>
      BY <3>5, <3>6
    <3> QED BY <2>3, <3>1, <3>7
  <2>4. CASE ~r.ok
    BY <2>2, <2>4
  <2> QED BY <2>2, <2>3, <2>4
<1> QED BY <1>1, RowsAreSound, PTL

-----------------------------------------------------------------------------
(* The queue of DoR events.  Every event that was logged is shipped or     *)
(* queued once; a flush that has shipped or queued a row again, and has    *)
(* not yet rewritten the file, has it twice until then.                    *)

Occ(s, e) == Cardinality({i \in DOMAIN s : s[i] = e})

\* The rows of value e that a flush is through with, and that are still in the file.
Through(x, e) == {i \in Nat : /\ x.flushing /\ i \in 1 .. (Len(x.start) - Len(x.rows))
                              /\ x.start[i] = e}
Twice(e) == {y \in Dor \X Nat : y[2] \in Through(dor[y[1]], e)}

DorRecord == [at : {"idle", "post", "requeue", "rewrite"}, event : Nat, start : Seq(Nat),
              rows : Seq(Nat), kept : Seq(Nat), copy : Seq(Nat), flushing : BOOLEAN]

\* Rows are shipped in the order of the file that was read.
InOrder(x) ==
    /\ x.at = "idle" => ~x.flushing
    /\ x.flushing =>
          /\ Len(x.rows) <= Len(x.start)
          /\ \A j \in 1 .. Len(x.rows) : x.rows[j] = x.start[Len(x.start) - Len(x.rows) + j]
    /\ x.at \in {"post", "requeue"} /\ x.flushing => x.rows # <<>>
    /\ x.at = "rewrite" => x.flushing /\ x.rows = <<>>

DorOk(d) ==
    /\ InOrder(dor[d])
    /\ dor[d].at # "idle" => dor[d].event < used.ops /\ dor[d].event \notin hist.logged

Balanced(e) ==
    LET have == Occ(hist.sent, e) + Occ(queue, e)
        due == Cardinality(Twice(e)) + (IF e \in hist.logged THEN 1 ELSE 0)
    IN IsFiniteSet(Twice(e)) /\ have >= due /\ ("lossy" \notin hist.flaws => have = due)

QueueTypes ==
    /\ used.ops \in Nat /\ DOMAIN used = {"ops", "kinds", "trouble"}
    /\ DOMAIN hist = {"said", "ended", "flaws", "sent", "logged", "bare"}
    /\ queue \in Seq(Nat) /\ hist.sent \in Seq(Nat)
    /\ dor \in [Dor -> DorRecord]
    /\ \A e \in hist.logged : e \in Nat /\ e < used.ops

EventsDiffer ==
    \A c, d \in Dor : dor[c].at # "idle" /\ dor[d].at # "idle" /\ dor[c].event = dor[d].event
                         => c = d

QueueInv ==
    /\ QueueTypes /\ EventsDiffer
    /\ \A d \in Dor : DorOk(d)
    /\ "queue" \notin hist.flaws => \A e \in Nat : Balanced(e)

LEMMA OccType ==
    ASSUME NEW s \in Seq(Nat), NEW e
    PROVE  IsFiniteSet({i \in DOMAIN s : s[i] = e}) /\ Occ(s, e) \in Nat
<1>1. DOMAIN s = 1 .. Len(s) /\ Len(s) \in Nat
  OBVIOUS
<1>2. IsFiniteSet(DOMAIN s)
  BY <1>1, FS_Interval
<1>3. {i \in DOMAIN s : s[i] = e} \in SUBSET DOMAIN s
  OBVIOUS
<1> QED BY <1>2, <1>3, FS_Subset, FS_CardinalityType DEF Occ

LEMMA OccAppend ==
    ASSUME NEW s \in Seq(Nat), NEW x \in Nat, NEW e
    PROVE  Occ(Append(s, x), e) = Occ(s, e) + (IF x = e THEN 1 ELSE 0)
<1> DEFINE n == Len(s) + 1
           at(t) == {i \in DOMAIN t : t[i] = e}
<1>1. at(Append(s, x)) = IF x = e THEN at(s) \cup {n} ELSE at(s)
  <2>1. /\ DOMAIN Append(s, x) = DOMAIN s \cup {n} /\ n \notin DOMAIN s
        /\ Append(s, x)[n] = x /\ \A i \in DOMAIN s : Append(s, x)[i] = s[i]
    OBVIOUS
  <2> QED BY <2>1
<1>2. n \notin at(s)
  OBVIOUS
<1>3. IsFiniteSet(at(s)) /\ Cardinality(at(s)) \in Nat
  BY OccType DEF Occ
<1> HIDE DEF at, n
<1>4. Cardinality(at(s) \cup {n}) = Cardinality(at(s)) + 1
  BY <1>2, <1>3, FS_AddElement
<1>5. Occ(Append(s, x), e) = Cardinality(at(Append(s, x))) /\ Occ(s, e) = Cardinality(at(s))
  BY DEF Occ, at
<1> QED BY <1>1, <1>3, <1>4, <1>5

LEMMA OccConcat ==
    ASSUME NEW s \in Seq(Nat), NEW t \in Seq(Nat), NEW e
    PROVE  Occ(s \o t, e) = Occ(s, e) + Occ(t, e)
<1> DEFINE L == Len(s)
           A == {i \in DOMAIN s : s[i] = e}
           B == {i \in DOMAIN t : t[i] = e}
           C == {i \in L + 1 .. L + Len(t) : t[i - L] = e}
<1>1. {i \in DOMAIN (s \o t) : (s \o t)[i] = e} = A \cup C
  <2>1. DOMAIN (s \o t) = 1 .. L + Len(t) /\ DOMAIN s = 1 .. L /\ L \in Nat /\ Len(t) \in Nat
    OBVIOUS
  <2>2. \A i \in 1 .. L + Len(t) : (s \o t)[i] = IF i <= L THEN s[i] ELSE t[i - L]
    OBVIOUS
  <2> QED BY <2>1, <2>2
<1>2. A \cap C = {}
  OBVIOUS
<1>3. IsFiniteSet(A) /\ IsFiniteSet(B) /\ Cardinality(A) \in Nat /\ Cardinality(B) \in Nat
  BY OccType DEF Occ
<1>4. ExistsBijection(B, C)
  <2> DEFINE f == [i \in B |-> i + L]
  <2>1. f \in [B -> C]
    OBVIOUS
  <2>2. \A i, j \in B : f[i] = f[j] => i = j
    OBVIOUS
  <2>3. \A k \in C : \E i \in B : f[i] = k
    <3> SUFFICES ASSUME NEW k \in C PROVE k - L \in B /\ f[k - L] = k
      OBVIOUS
    <3> QED OBVIOUS
  <2> HIDE DEF f, B, C
  <2> QED BY <2>1, <2>2, <2>3 DEF ExistsBijection, Bijection, Injection, IsInjective, Surjection
<1> HIDE DEF A, B, C
<1>5. IsFiniteSet(C) /\ Cardinality(C) = Cardinality(B)
  BY <1>3, <1>4, FS_Bijection
<1>6. Cardinality(A \cup C) = Cardinality(A) + Cardinality(C)
  <2>1. Cardinality(A \cup C) = Cardinality(A) + Cardinality(C) - Cardinality(A \cap C)
    BY <1>3, <1>5, FS_Union
  <2>2. Cardinality(A \cap C) = 0
    BY <1>2, FS_EmptySet
  <2> QED BY <1>3, <1>5, <2>1, <2>2
<1>7. Occ(s, e) = Cardinality(A) /\ Occ(t, e) = Cardinality(B)
      /\ Occ(s \o t, e) = Cardinality(A \cup C)
  BY <1>1 DEF Occ, A, B
<1> QED BY <1>3, <1>5, <1>6, <1>7

\* A step of one process, as far as the order of its rows and the events go.
LEMMA DorMoves ==
    ASSUME QueueTypes, EventsDiffer, \A c \in Dor : DorOk(c),
           NEW d \in Dor, NEW x \in DorRecord, dor' = [dor EXCEPT ![d] = x], InOrder(x),
           x.at # "idle" => dor[d].at # "idle" /\ x.event = dor[d].event,
           used'.ops = used.ops, DOMAIN used' = DOMAIN used, DOMAIN hist' = DOMAIN hist,
           queue' \in Seq(Nat), hist'.sent \in Seq(Nat),
           \/ hist'.logged = hist.logged
           \/ hist'.logged = hist.logged \cup {dor[d].event} /\ x.at = "idle" /\ dor[d].at # "idle"
    PROVE  QueueTypes' /\ EventsDiffer' /\ \A c \in Dor : DorOk(c)'
<1>1. dor'[d] = x /\ \A c \in Dor \ {d} : dor'[c] = dor[c]
  BY DEF QueueTypes
<1>2. dor[d].event \in Nat
  BY DEF QueueTypes, DorRecord
<1>3. QueueTypes'
  <2>1. \A e \in hist'.logged : e \in Nat /\ e < used.ops
    BY <1>2 DEF QueueTypes, DorOk
  <2> QED BY <2>1 DEF QueueTypes
<1>4. EventsDiffer'
  <2>1. \A c \in Dor : dor'[c].at # "idle" => dor[c].at # "idle" /\ dor'[c].event = dor[c].event
    BY <1>1
  <2> QED BY <2>1 DEF EventsDiffer
<1>5. ASSUME NEW c \in Dor PROVE DorOk(c)'
  <2>1. CASE c = d
    BY <1>1, <2>1 DEF DorOk
  <2>2. CASE c # d
    <3>1. dor'[c] = dor[c]
      BY <1>1, <2>2
    <3>2. dor[c].at # "idle" => dor[c].event \notin hist'.logged
      BY <2>2 DEF DorOk, EventsDiffer
    <3> QED BY <3>1, <3>2 DEF DorOk
  <2> QED BY <2>1, <2>2
<1> QED BY <1>3, <1>4, <1>5

\* What a step of one process does to the rows that are in the file twice.
LEMMA TwiceSame ==
    ASSUME QueueTypes, NEW d \in Dor, NEW x, dor' = [dor EXCEPT ![d] = x], NEW e,
           Through(x, e) = Through(dor[d], e)
    PROVE  Twice(e)' = Twice(e)
<1>1. dor'[d] = x /\ \A c \in Dor \ {d} : dor'[c] = dor[c]
  BY DEF QueueTypes
<1>2. Twice(e)' = {y \in Dor \X Nat : y[2] \in Through(dor'[y[1]], e)}
  BY DEF Twice, Through
<1>3. Through(dor[d], e) \subseteq Nat
  BY DEF Through
<1> QED BY <1>1, <1>2, <1>3 DEF Twice

LEMMA TwiceOver ==
    ASSUME QueueTypes, NEW d \in Dor, NEW x, dor' = [dor EXCEPT ![d] = x], NEW e,
           Through(x, e) = {}
    PROVE  /\ {d} \X Through(dor[d], e) \subseteq Twice(e)
           /\ Twice(e)' = Twice(e) \ ({d} \X Through(dor[d], e))
<1>1. dor'[d] = x /\ \A c \in Dor \ {d} : dor'[c] = dor[c]
  BY DEF QueueTypes
<1>2. Twice(e)' = {y \in Dor \X Nat : y[2] \in Through(dor'[y[1]], e)}
  BY DEF Twice, Through
<1>3. Through(dor[d], e) \subseteq Nat
  BY DEF Through
<1> QED BY <1>1, <1>2, <1>3 DEF Twice

LEMMA NoDorIsIdle ==
    NoDor \in DorRecord /\ NoDor.at = "idle" /\ InOrder(NoDor) /\ \A e : Through(NoDor, e) = {}
<1>1. NoDor \in DorRecord /\ NoDor.at = "idle" /\ ~NoDor.flushing
  BY DEF NoDor, DorRecord
<1> QED BY <1>1 DEF InOrder, Through

LEMMA QueueInit == Init => QueueInv
<1> SUFFICES ASSUME Init PROVE QueueInv
  OBVIOUS
<1>1. /\ queue = <<>> /\ dor = [d \in Dor |-> NoDor]
      /\ used = [ops |-> 0, kinds |-> {}, trouble |-> 0]
      /\ hist = [said |-> {}, ended |-> {}, flaws |-> {}, sent |-> <<>>, logged |-> {}, bare |-> {}]
  BY DEF Init
<1>2. QueueTypes
  BY <1>1, NoDorIsIdle DEF QueueTypes
<1>3. EventsDiffer /\ \A d \in Dor : DorOk(d)
  BY <1>1, NoDorIsIdle DEF EventsDiffer, DorOk
<1>4. ASSUME NEW e \in Nat PROVE Balanced(e)
  <2>1. Twice(e) = {}
    BY <1>1, NoDorIsIdle DEF Twice
  <2>2. hist.sent = <<>> /\ hist.logged = {}
    BY <1>1
  <2>3. {i \in DOMAIN <<>> : (<<>>)[i] = e} = {}
    OBVIOUS
  <2>4. Occ(hist.sent, e) = 0 /\ Occ(queue, e) = 0
    BY <1>1, <2>2, <2>3, FS_EmptySet DEF Occ
  <2> QED BY <2>1, <2>2, <2>4, FS_EmptySet DEF Balanced
<1> QED BY <1>2, <1>3, <1>4 DEF QueueInv

LEMMA DorStartOk ==
    ASSUME QueueInv, NEW d \in Dor, NEW flush \in BOOLEAN, DorStart(d, flush), UNCHANGED hist
    PROVE  QueueInv'
<1> DEFINE rows == IF flush THEN queue ELSE <<>>
           x == [at |-> "post", event |-> used.ops, start |-> rows, rows |-> rows,
                 kept |-> <<>>, copy |-> <<>>, flushing |-> rows # <<>>]
<1>1. /\ dor[d].at = "idle" /\ dor' = [dor EXCEPT ![d] = x] /\ queue' = queue
      /\ used'.ops = used.ops + 1 /\ DOMAIN used' = DOMAIN used
  BY DEF DorStart, Begin, QueueInv, QueueTypes
<1>2. rows \in Seq(Nat) /\ used.ops \in Nat
  BY DEF QueueInv, QueueTypes
<1>3. x \in DorRecord /\ InOrder(x) /\ x.at = "post" /\ x.event = used.ops
  <2>1. PICK b \in BOOLEAN : b = (rows # <<>>)
    OBVIOUS
  <2>2. x = [at |-> "post", event |-> used.ops, start |-> rows, rows |-> rows,
             kept |-> <<>>, copy |-> <<>>, flushing |-> b]
    BY <2>1
  <2> HIDE DEF x, rows
  <2>3. x \in DorRecord /\ x.at = "post" /\ x.event = used.ops
    BY <1>2, <2>2 DEF DorRecord
  <2>4. x.start = rows /\ x.rows = rows /\ x.flushing = (rows # <<>>)
    BY <2>1, <2>2
  <2>5. Len(rows) <= Len(rows) /\ \A j \in 1 .. Len(rows) : Len(rows) - Len(rows) + j = j
    BY <1>2
  <2> QED BY <2>3, <2>4, <2>5 DEF InOrder
<1>4. \A e : Through(x, e) = {}
  BY <1>2 DEF Through
<1> HIDE DEF x, rows
<1>5. dor'[d] = x /\ \A c \in Dor \ {d} : dor'[c] = dor[c]
  BY <1>1 DEF QueueInv, QueueTypes
<1>6. QueueTypes'
  BY <1>1, <1>2, <1>3 DEF QueueInv, QueueTypes
<1>7. EventsDiffer'
  <2>1. \A c \in Dor \ {d} : dor[c].at # "idle" => dor[c].event < used.ops
    BY DEF QueueInv, DorOk
  <2>2. \A c \in Dor \ {d} : dor[c].at # "idle" => dor[c].event # used.ops
    BY <1>2, <2>1
  <2> QED BY <1>3, <1>5, <2>2 DEF QueueInv, EventsDiffer
<1>8. ASSUME NEW c \in Dor PROVE DorOk(c)'
  <2>1. CASE c = d
    <3>1. used.ops \notin hist.logged
      BY <1>2 DEF QueueInv, QueueTypes
    <3>2. used.ops < used.ops + 1
      BY <1>2
    <3> QED BY <1>1, <1>3, <1>5, <2>1, <3>1, <3>2 DEF DorOk
  <2>2. CASE c # d
    <3>1. dor'[c] = dor[c]
      BY <1>5, <2>2
    <3>2. dor[c].event \in Nat
      BY DEF QueueInv, QueueTypes, DorRecord
    <3>3. dor[c].event < used.ops => dor[c].event < used'.ops
      BY <1>1, <1>2, <3>2
    <3> QED BY <3>1, <3>3 DEF QueueInv, DorOk
  <2> QED BY <2>1, <2>2
<1>9. ASSUME NEW e \in Nat, Balanced(e) PROVE Balanced(e)'
  <2>1. Through(dor[d], e) = {}
    BY <1>1 DEF QueueInv, DorOk, InOrder, Through
  <2>2. Twice(e)' = Twice(e)
    BY <1>1, <1>4, <2>1, TwiceSame DEF QueueInv
  <2> QED BY <1>1, <1>9, <2>2 DEF Balanced, Occ
<1> QED BY <1>6, <1>7, <1>8, <1>9 DEF QueueInv

\* One row, or the event itself, goes to the server or into the file: the process is
\* then one row further, or over.
LEMMA AfterEventOk ==
    ASSUME QueueInv, NEW d \in Dor, dor[d].at \in {"post", "requeue"}, NEW kept \in Seq(Nat)
    PROVE  /\ Shipping(d) \in Nat
           /\ AfterEvent(d, kept) \in DorRecord /\ InOrder(AfterEvent(d, kept))
           /\ AfterEvent(d, kept).at # "idle" => AfterEvent(d, kept).event = dor[d].event
           /\ \/ /\ dor[d].flushing /\ Ends(d) = {}
                 /\ \E i \in Nat :
                       /\ \A e : i \notin Through(dor[d], e)
                       /\ \A e : Through(AfterEvent(d, kept), e)
                                 = Through(dor[d], e) \cup (IF Shipping(d) = e THEN {i} ELSE {})
              \/ /\ ~dor[d].flushing /\ Ends(d) = {dor[d].event} /\ Shipping(d) = dor[d].event
                 /\ AfterEvent(d, kept) = NoDor
<1> DEFINE x == dor[d]
           y == AfterEvent(d, kept)
<1>1. x \in DorRecord /\ InOrder(x)
  BY DEF QueueInv, QueueTypes, DorOk
<1>2. CASE ~x.flushing
  <2>1. y = NoDor /\ Ends(d) = {x.event} /\ Shipping(d) = x.event /\ x.event \in Nat
    BY <1>1, <1>2 DEF AfterEvent, Ends, Shipping, DorRecord
  <2> QED BY <1>2, <2>1, NoDorIsIdle
<1>3. CASE x.flushing
  <2>1. /\ x.start \in Seq(Nat) /\ x.rows \in Seq(Nat) /\ x.rows # <<>>
        /\ Len(x.rows) <= Len(x.start)
        /\ \A j \in 1 .. Len(x.rows) : x.rows[j] = x.start[Len(x.start) - Len(x.rows) + j]
    BY <1>1, <1>3 DEF DorRecord, InOrder
  <2>2. y = [x EXCEPT !.rows = Tail(x.rows), !.kept = kept,
                      !.at = IF Tail(x.rows) = <<>> THEN "rewrite" ELSE "post"]
    BY <1>3 DEF AfterEvent
  <2>3. y \in DorRecord
    <3>1. Tail(x.rows) \in Seq(Nat)
      BY <2>1
    <3>2. PICK at \in {"post", "rewrite"} : at = IF Tail(x.rows) = <<>> THEN "rewrite" ELSE "post"
      OBVIOUS
    <3>3. y = [x EXCEPT !.rows = Tail(x.rows), !.kept = kept, !.at = at]
      BY <2>2, <3>2
    <3> HIDE DEF y
    <3> QED BY <1>1, <3>1, <3>3 DEF DorRecord
  <2>4. /\ y.start = x.start /\ y.rows = Tail(x.rows) /\ y.flushing = x.flushing
        /\ y.event = x.event /\ y.at = IF Tail(x.rows) = <<>> THEN "rewrite" ELSE "post"
    BY <1>1, <2>2 DEF DorRecord
  <2>12. PICK m \in Nat, n \in Nat : m = Len(x.start) /\ n = Len(x.rows) /\ n >= 1 /\ n <= m
    BY <2>1
  <2>5. Len(Tail(x.rows)) = Len(x.rows) - 1
        /\ \A j \in 1 .. Len(Tail(x.rows)) : Tail(x.rows)[j] = x.rows[j + 1]
    BY <2>1
  <2>6. InOrder(y)
    <3>1. Len(y.rows) <= Len(y.start)
      BY <2>1, <2>4, <2>5
    <3>2. \A j \in 1 .. Len(y.rows) : y.rows[j] = y.start[Len(y.start) - Len(y.rows) + j]
      <4> SUFFICES ASSUME NEW j \in 1 .. Len(y.rows)
                   PROVE  y.rows[j] = y.start[Len(y.start) - Len(y.rows) + j]
        OBVIOUS
      <4>1. j + 1 \in 1 .. Len(x.rows)
        BY <2>1, <2>4, <2>5
      <4>2. Len(x.start) - Len(x.rows) + (j + 1) = Len(x.start) - (Len(x.rows) - 1) + j
        <5>1. \A k \in Nat : m - n + (k + 1) = m - (n - 1) + k
          OBVIOUS
        <5>2. j \in Nat
          OBVIOUS
        <5> QED BY <2>12, <5>1, <5>2
      <4> QED BY <2>1, <2>4, <2>5, <4>1, <4>2
    <3> QED BY <1>3, <2>4, <3>1, <3>2 DEF InOrder
  <2> DEFINE i == Len(x.start) - Len(x.rows) + 1
  <2>7. i \in Nat /\ x.start[i] = Head(x.rows) /\ Shipping(d) = Head(x.rows)
        /\ Head(x.rows) \in Nat
    <3>1. i \in Nat /\ i = Len(x.start) - Len(x.rows) + 1
      BY <2>12
    <3>2. x.rows[1] = x.start[i]
      <4>1. 1 \in 1 .. Len(x.rows)
        BY <2>12
      <4> HIDE DEF x
      <4> QED BY <2>1, <4>1
    <3>3. x.rows[1] = Head(x.rows) /\ Head(x.rows) \in Nat
      BY <2>1
    <3> QED BY <1>3, <3>1, <3>2, <3>3 DEF Shipping
  <2>8. \A e : i \notin Through(x, e)
    <3>1. i \notin 1 .. (Len(x.start) - Len(x.rows))
      BY <2>12
    <3> HIDE DEF i
    <3> QED BY <3>1 DEF Through
  <2>9. ASSUME NEW e PROVE Through(y, e) = Through(x, e) \cup (IF Shipping(d) = e THEN {i} ELSE {})
    <3>1. Len(y.start) - Len(y.rows) = i
      <4>1. m - (n - 1) = m - n + 1
        OBVIOUS
      <4> QED BY <2>12, <2>4, <2>5, <4>1
    <3>2. \A k \in Nat : k \in 1 .. i <=> k \in 1 .. (Len(x.start) - Len(x.rows)) \/ k = i
      <4>1. m - n \in Nat
        BY <2>12
      <4> DEFINE q == m - n
      <4>2. q \in Nat /\ q = Len(x.start) - Len(x.rows)
        BY <2>12, <4>1
      <4> HIDE DEF q
      <4>3. \A k \in Nat : k \in 1 .. (q + 1) <=> k \in 1 .. q \/ k = q + 1
        BY <4>2
      <4> QED BY <4>2, <4>3
    <3> HIDE DEF i
    <3> QED BY <1>3, <2>4, <2>7, <3>1, <3>2 DEF Through
  <2> HIDE DEF i
  <2>10. Ends(d) = {}
    BY <1>3 DEF Ends
  <2>11. Shipping(d) \in Nat /\ y.event = x.event
    BY <2>4, <2>7
  <2> HIDE DEF y
  <2> QED BY <1>3, <2>3, <2>6, <2>7, <2>8, <2>9, <2>10, <2>11 DEF y
<1> QED BY <1>2, <1>3

\* A row or an event that went somewhere once more, and that is due once more.
LEMMA OneMoreIsBalanced ==
    ASSUME QueueInv, NEW d \in Dor, dor[d].at \in {"post", "requeue"}, NEW kept \in Seq(Nat),
           dor' = [dor EXCEPT ![d] = AfterEvent(d, kept)],
           UNCHANGED used, DOMAIN hist' = DOMAIN hist, hist'.logged = hist.logged \cup Ends(d),
           queue' \in Seq(Nat), hist'.sent \in Seq(Nat),
           hist.flaws \subseteq hist'.flaws,
           "lossy" \in hist.flaws <=> "lossy" \in hist'.flaws,
           "queue" \notin hist'.flaws =>
              \A e \in Nat : Occ(hist'.sent, e) + Occ(queue', e)
                             = Occ(hist.sent, e) + Occ(queue, e) + (IF Shipping(d) = e THEN 1 ELSE 0)
    PROVE  QueueInv'
<1> DEFINE y == AfterEvent(d, kept)
           s == Shipping(d)
<1>1. /\ y \in DorRecord /\ InOrder(y)
      /\ y.at # "idle" => y.event = dor[d].event
  BY AfterEventOk
<1>2. \/ /\ dor[d].flushing /\ Ends(d) = {}
         /\ \E i \in Nat : /\ \A e : i \notin Through(dor[d], e)
                         /\ \A e : Through(y, e)
                                   = Through(dor[d], e) \cup (IF s = e THEN {i} ELSE {})
      \/ /\ ~dor[d].flushing /\ Ends(d) = {dor[d].event} /\ s = dor[d].event
         /\ y = NoDor
  BY AfterEventOk
<1>3. dor' = [dor EXCEPT ![d] = y] /\ s \in Nat
  BY AfterEventOk
<1> HIDE DEF y, s
<1>4. QueueTypes' /\ EventsDiffer' /\ \A c \in Dor : DorOk(c)'
  <2>1. \/ hist'.logged = hist.logged
        \/ hist'.logged = hist.logged \cup {dor[d].event} /\ y.at = "idle" /\ dor[d].at # "idle"
    BY <1>2, NoDorIsIdle
  <2>2. QueueTypes /\ EventsDiffer /\ \A c \in Dor : DorOk(c)
    BY DEF QueueInv
  <2>3. used'.ops = used.ops /\ DOMAIN used' = DOMAIN used /\ dor[d].at # "idle"
    OBVIOUS
  <2> QED BY <1>1, <1>3, <2>1, <2>2, <2>3, DorMoves
<1>5. ASSUME NEW e \in Nat, "queue" \notin hist'.flaws PROVE Balanced(e)'
  <2>1. Balanced(e)
    BY <1>5 DEF QueueInv
  <2>2. Occ(hist'.sent, e) + Occ(queue', e)
        = Occ(hist.sent, e) + Occ(queue, e) + (IF s = e THEN 1 ELSE 0)
    BY <1>5 DEF s
  <2>3. QueueTypes
    BY DEF QueueInv
  <2>4. /\ IsFiniteSet(Twice(e)') /\ Cardinality(Twice(e)) \in Nat
        /\ Cardinality(Twice(e)') + (IF e \in hist'.logged THEN 1 ELSE 0)
           = Cardinality(Twice(e)) + (IF e \in hist.logged THEN 1 ELSE 0) + (IF s = e THEN 1 ELSE 0)
    <3>0. IsFiniteSet(Twice(e)) /\ Cardinality(Twice(e)) \in Nat
      BY <2>1, FS_CardinalityType DEF Balanced
    <3>1. CASE dor[d].flushing
      <4>1. hist'.logged = hist.logged
        BY <1>2, <3>1
      <4>2. PICK i \in Nat : /\ i \notin Through(dor[d], e)
                             /\ Through(y, e) = Through(dor[d], e) \cup (IF s = e THEN {i} ELSE {})
        BY <1>2, <3>1
      <4>3. CASE s = e
        <5>1. Twice(e)' = Twice(e) \cup {<<d, i>>}
          <6>1. dor'[d] = y /\ \A c \in Dor \ {d} : dor'[c] = dor[c]
            BY <1>3, <2>3 DEF QueueTypes
          <6>2. Twice(e)' = {z \in Dor \X Nat : z[2] \in Through(dor'[z[1]], e)}
            BY DEF Twice, Through
          <6>3. Through(y, e) = Through(dor[d], e) \cup {i}
            BY <4>2, <4>3
          <6> QED BY <6>1, <6>2, <6>3 DEF Twice
        <5>2. <<d, i>> \notin Twice(e)
          <6>1. <<d, i>> \in Twice(e) => i \in Through(dor[d], e)
            BY DEF Twice
          <6> QED BY <4>2, <6>1
        <5>3. IsFiniteSet(Twice(e)') /\ Cardinality(Twice(e)') = Cardinality(Twice(e)) + 1
          <6> DEFINE T == Twice(e)
                     p == <<d, i>>
          <6>1. IsFiniteSet(T) /\ p \notin T
            BY <3>0, <5>2
          <6> HIDE DEF T, p
          <6>2. IsFiniteSet(T \cup {p}) /\ Cardinality(T \cup {p}) = Cardinality(T) + 1
            BY <6>1, FS_AddElement
          <6> QED BY <5>1, <6>2 DEF T, p
        <5> QED BY <3>0, <4>1, <4>3, <5>3
      <4>4. CASE s # e
        <5>1. Twice(e)' = Twice(e)
          <6>1. Through(y, e) = Through(dor[d], e)
            BY <4>2, <4>4
          <6>3. dor' = [dor EXCEPT ![d] = y]
            BY <1>3
          <6> QED BY <2>3, <6>1, <6>3, TwiceSame
        <5> QED BY <3>0, <4>1, <4>4, <5>1
      <4> QED BY <4>3, <4>4
    <3>2. CASE ~dor[d].flushing
      <4>1. Through(dor[d], e) = Through(y, e)
        <5>1. Through(dor[d], e) = {}
          BY <3>2 DEF Through
        <5>2. Through(y, e) = {}
          BY <1>2, <3>2, NoDorIsIdle
        <5> QED BY <5>1, <5>2
      <4>2. Twice(e)' = Twice(e)
        BY <1>3, <2>3, <4>1, TwiceSame
      <4>3. s \notin hist.logged /\ hist'.logged = hist.logged \cup {s}
        BY <1>2, <3>2 DEF QueueInv, DorOk
      <4> QED BY <3>0, <4>2, <4>3
    <3> QED BY <3>1, <3>2
  <2>5. Occ(hist.sent, e) \in Nat /\ Occ(queue, e) \in Nat
    BY <2>3, OccType DEF QueueTypes
  <2> DEFINE have == Occ(hist.sent, e) + Occ(queue, e)
             due == Cardinality(Twice(e)) + (IF e \in hist.logged THEN 1 ELSE 0)
             more == IF s = e THEN 1 ELSE 0
             have2 == Occ(hist'.sent, e) + Occ(queue', e)
             due2 == Cardinality(Twice(e)') + (IF e \in hist'.logged THEN 1 ELSE 0)
  <2>6. have \in Nat /\ due \in Nat /\ more \in Nat /\ have2 = have + more /\ due2 = due + more
    BY <2>2, <2>4, <2>5
  <2>7. have >= due /\ ("lossy" \notin hist.flaws => have = due)
    BY <2>1 DEF Balanced
  <2>8. have2 = (Occ(hist.sent, e) + Occ(queue, e))' /\ IsFiniteSet(Twice(e)')
    BY <2>4 DEF Occ
  <2> HIDE DEF have, due, more, have2, due2
  <2>9. have2 >= due2 /\ ("lossy" \notin hist'.flaws => have2 = due2)
    BY <2>6, <2>7
  <2> QED BY <2>8, <2>9 DEF Balanced, due2
<1>6. "queue" \notin hist'.flaws => \A e \in Nat : Balanced(e)'
  BY <1>5
<1> QED BY <1>4, <1>6 DEF QueueInv

LEMMA DorAcceptedOk ==
    ASSUME QueueInv, NEW d \in Dor, DorAccepted(d), UNCHANGED used
    PROVE  QueueInv'
<1>1. /\ dor[d].at = "post" /\ dor' = [dor EXCEPT ![d] = AfterEvent(d, dor[d].kept)]
      /\ queue' = queue
      /\ hist' = [hist EXCEPT !.sent = Append(hist.sent, Shipping(d)),
                              !.logged = hist.logged \cup Ends(d)]
  BY DEF DorAccepted
<1>2. dor[d].kept \in Seq(Nat) /\ Shipping(d) \in Nat
      /\ hist.sent \in Seq(Nat) /\ queue \in Seq(Nat)
  BY <1>1, AfterEventOk DEF QueueInv, QueueTypes, DorRecord
<1>3. /\ DOMAIN hist' = DOMAIN hist /\ hist'.sent = Append(hist.sent, Shipping(d))
      /\ hist'.logged = hist.logged \cup Ends(d) /\ hist'.flaws = hist.flaws
  BY <1>1 DEF QueueInv, QueueTypes
<1>4. Append(hist.sent, Shipping(d)) \in Seq(Nat)
  BY <1>2
<1>5. ASSUME NEW e \in Nat
      PROVE  Occ(hist'.sent, e) + Occ(queue', e)
             = Occ(hist.sent, e) + Occ(queue, e) + (IF Shipping(d) = e THEN 1 ELSE 0)
  <2>1. Occ(hist'.sent, e) = Occ(hist.sent, e) + (IF Shipping(d) = e THEN 1 ELSE 0)
    BY <1>2, <1>3, OccAppend
  <2>2. Occ(queue', e) = Occ(queue, e)
    BY <1>1
  <2>3. Occ(hist.sent, e) \in Nat /\ Occ(queue, e) \in Nat
    BY <1>2, OccType
  <2> QED BY <2>1, <2>2, <2>3
<1> QED BY <1>1, <1>2, <1>3, <1>4, <1>5, OneMoreIsBalanced

LEMMA DorRequeueOk ==
    ASSUME QueueInv, NEW d \in Dor, DorRequeue(d), UNCHANGED used
    PROVE  QueueInv'
<1> DEFINE kept == Append(dor[d].kept, Shipping(d))
<1>1. /\ dor[d].at = "requeue" /\ dor' = [dor EXCEPT ![d] = AfterEvent(d, kept)]
      /\ queue' = Append(dor[d].copy, Shipping(d))
      /\ hist' = [hist EXCEPT !.logged = hist.logged \cup Ends(d),
                      !.flaws = IF queue = dor[d].copy THEN hist.flaws
                                ELSE hist.flaws \cup {"queue"}]
  BY DEF DorRequeue
<1>2. dor[d].kept \in Seq(Nat) /\ dor[d].copy \in Seq(Nat) /\ Shipping(d) \in Nat
      /\ hist.sent \in Seq(Nat) /\ queue \in Seq(Nat)
  BY <1>1, AfterEventOk DEF QueueInv, QueueTypes, DorRecord
<1>3. /\ DOMAIN hist' = DOMAIN hist /\ hist'.sent = hist.sent
      /\ hist'.logged = hist.logged \cup Ends(d)
      /\ hist'.flaws = IF queue = dor[d].copy THEN hist.flaws ELSE hist.flaws \cup {"queue"}
  BY <1>1 DEF QueueInv, QueueTypes
<1>4. kept \in Seq(Nat) /\ queue' \in Seq(Nat)
  BY <1>1, <1>2
<1> HIDE DEF kept
<1>5. ASSUME NEW e \in Nat, "queue" \notin hist'.flaws
      PROVE  Occ(hist'.sent, e) + Occ(queue', e)
             = Occ(hist.sent, e) + Occ(queue, e) + (IF Shipping(d) = e THEN 1 ELSE 0)
  <2>1. queue = dor[d].copy
    BY <1>3, <1>5
  <2>2. Occ(queue', e) = Occ(queue, e) + (IF Shipping(d) = e THEN 1 ELSE 0)
    BY <1>1, <1>2, <2>1, OccAppend
  <2>3. Occ(hist.sent, e) \in Nat /\ Occ(queue, e) \in Nat
    BY <1>2, OccType
  <2> QED BY <1>3, <2>2, <2>3
<1>6. hist.flaws \subseteq hist'.flaws /\ ("lossy" \in hist.flaws <=> "lossy" \in hist'.flaws)
  BY <1>3
<1>7. hist'.sent \in Seq(Nat) /\ dor[d].at \in {"post", "requeue"}
  BY <1>1, <1>2, <1>3
<1> QED BY <1>1, <1>3, <1>4, <1>5, <1>6, <1>7, OneMoreIsBalanced

LEMMA DorFailedOk ==
    ASSUME QueueInv, NEW d \in Dor, NEW taken \in BOOLEAN, DorFailed(d, taken)
    PROVE  QueueInv'
<1> DEFINE x == [dor[d] EXCEPT !.at = "requeue", !.copy = queue]
<1>1. /\ dor[d].at = "post" /\ queue' = queue
      /\ dor' = [dor EXCEPT ![d].at = "requeue", ![d].copy = queue]
      /\ hist' = IF taken THEN [hist EXCEPT !.sent = Append(hist.sent, Shipping(d)),
                                            !.flaws = hist.flaws \cup {"lossy"}]
                 ELSE hist
      /\ used'.ops = used.ops /\ DOMAIN used' = DOMAIN used
  BY DEF DorFailed, Trouble, QueueInv, QueueTypes
<1>2. dor[d] \in DorRecord /\ queue \in Seq(Nat) /\ hist.sent \in Seq(Nat) /\ Shipping(d) \in Nat
  BY <1>1, AfterEventOk DEF QueueInv, QueueTypes, DorRecord
<1>3. /\ DOMAIN hist' = DOMAIN hist /\ hist'.logged = hist.logged
      /\ hist'.sent = IF taken THEN Append(hist.sent, Shipping(d)) ELSE hist.sent
      /\ hist'.flaws = IF taken THEN hist.flaws \cup {"lossy"} ELSE hist.flaws
  BY <1>1 DEF QueueInv, QueueTypes
<1>4. x \in DorRecord /\ dor' = [dor EXCEPT ![d] = x]
  BY <1>1, <1>2 DEF DorRecord, QueueInv, QueueTypes
<1>5. /\ x.at = "requeue" /\ x.event = dor[d].event /\ x.flushing = dor[d].flushing
      /\ x.rows = dor[d].rows /\ x.start = dor[d].start
  BY <1>2 DEF DorRecord
<1> HIDE DEF x
<1>6. InOrder(x)
  BY <1>1, <1>5 DEF InOrder, QueueInv, DorOk
<1>7. hist'.sent \in Seq(Nat)
  BY <1>2, <1>3
<1>8. QueueTypes' /\ EventsDiffer' /\ \A c \in Dor : DorOk(c)'
  <2>1. QueueTypes /\ EventsDiffer /\ \A c \in Dor : DorOk(c)
    BY DEF QueueInv
  <2>2. x.at # "idle" => dor[d].at # "idle" /\ x.event = dor[d].event
    BY <1>1, <1>5
  <2> QED BY <1>1, <1>2, <1>3, <1>4, <1>6, <1>7, <2>1, <2>2, DorMoves
<1>9. ASSUME NEW e \in Nat, Balanced(e) PROVE Balanced(e)'
  <2>1. Through(x, e) = Through(dor[d], e)
    BY <1>5 DEF Through
  <2>2. Twice(e)' = Twice(e)
    BY <1>4, <2>1, TwiceSame DEF QueueInv
  <2>3. Occ(hist.sent, e) \in Nat /\ Occ(queue, e) \in Nat /\ Cardinality(Twice(e)) \in Nat
    BY <1>2, <1>9, OccType, FS_CardinalityType DEF Balanced
  <2>4. Occ(hist'.sent, e) = IF taken /\ Shipping(d) = e THEN Occ(hist.sent, e) + 1
                             ELSE Occ(hist.sent, e)
    BY <1>2, <1>3, <2>3, OccAppend
  <2>5. taken => "lossy" \in hist'.flaws
    BY <1>3
  <2>6. ~taken => hist'.flaws = hist.flaws
    BY <1>3
  <2> DEFINE a == Occ(hist.sent, e)
             b == Occ(queue, e)
             due == Cardinality(Twice(e)) + (IF e \in hist.logged THEN 1 ELSE 0)
  <2>7. a + b >= due /\ ("lossy" \notin hist.flaws => a + b = due) /\ due \in Nat
    BY <1>9, <2>3 DEF Balanced
  <2>8. a + b + 1 >= due
    <3> HIDE DEF due
    <3> QED BY <2>3, <2>7
  <2>9. /\ Occ(hist'.sent, e) + Occ(queue', e) >= due
        /\ "lossy" \notin hist'.flaws => Occ(hist'.sent, e) + Occ(queue', e) = due
    <3>1. CASE taken /\ Shipping(d) = e
      <4>1. Occ(hist'.sent, e) + Occ(queue', e) = a + b + 1
        BY <1>1, <2>3, <2>4, <3>1
      <4> QED BY <2>5, <2>8, <3>1, <4>1
    <3>2. CASE ~(taken /\ Shipping(d) = e)
      <4>1. Occ(hist'.sent, e) + Occ(queue', e) = a + b
        BY <1>1, <2>4, <3>2
      <4>2. "lossy" \notin hist'.flaws => "lossy" \notin hist.flaws
        BY <1>3
      <4> QED BY <2>7, <4>1, <4>2
    <3> QED BY <3>1, <3>2
  <2>10. IsFiniteSet(Twice(e)')
    BY <1>9, <2>2 DEF Balanced
  <2> HIDE DEF a, b
  <2> QED BY <1>3, <2>2, <2>9, <2>10 DEF Balanced
<1>10. "queue" \notin hist'.flaws => "queue" \notin hist.flaws
  BY <1>3
<1> QED BY <1>8, <1>9, <1>10 DEF QueueInv

LEMMA DorRewriteOk ==
    ASSUME QueueInv, NEW d \in Dor, DorRewrite(d), UNCHANGED used
    PROVE  QueueInv'
<1> DEFINE x == [dor[d] EXCEPT !.at = "post", !.flushing = FALSE]
           start == dor[d].start
           kept == dor[d].kept
<1>1. /\ dor[d].at = "rewrite" /\ queue' = kept
      /\ dor' = [dor EXCEPT ![d].at = "post", ![d].flushing = FALSE]
      /\ hist' = [hist EXCEPT !.flaws = IF queue = start \o kept THEN hist.flaws
                                        ELSE hist.flaws \cup {"queue"}]
  BY DEF DorRewrite
<1>2. /\ dor[d] \in DorRecord /\ queue \in Seq(Nat) /\ hist.sent \in Seq(Nat)
      /\ start \in Seq(Nat) /\ kept \in Seq(Nat)
  BY DEF QueueInv, QueueTypes, DorRecord
<1>3. /\ DOMAIN hist' = DOMAIN hist /\ hist'.logged = hist.logged /\ hist'.sent = hist.sent
      /\ hist'.flaws = IF queue = start \o kept THEN hist.flaws ELSE hist.flaws \cup {"queue"}
  BY <1>1 DEF QueueInv, QueueTypes
<1>4. x \in DorRecord /\ dor' = [dor EXCEPT ![d] = x]
  BY <1>1, <1>2 DEF DorRecord, QueueInv, QueueTypes
<1>5. x.at = "post" /\ x.event = dor[d].event /\ ~x.flushing
  BY <1>2 DEF DorRecord
<1>6. dor[d].flushing /\ dor[d].rows = <<>>
  BY <1>1 DEF QueueInv, DorOk, InOrder
<1> HIDE DEF x, start, kept
<1>7. InOrder(x) /\ \A e : Through(x, e) = {}
  BY <1>5 DEF InOrder, Through
<1>8. QueueTypes' /\ EventsDiffer' /\ \A c \in Dor : DorOk(c)'
  <2>1. QueueTypes /\ EventsDiffer /\ \A c \in Dor : DorOk(c)
    BY DEF QueueInv
  <2>2. x.at # "idle" => dor[d].at # "idle" /\ x.event = dor[d].event
    BY <1>1, <1>5
  <2>3. queue' \in Seq(Nat) /\ hist'.sent \in Seq(Nat)
    BY <1>1, <1>2, <1>3
  <2> QED BY <1>3, <1>4, <1>7, <2>1, <2>2, <2>3, DorMoves
<1>9. ASSUME NEW e \in Nat, "queue" \notin hist'.flaws PROVE Balanced(e)'
  <2>1. hist'.flaws = hist.flaws /\ queue = start \o kept
    BY <1>3, <1>9
  <2>2. Balanced(e)
    BY <1>9, <2>1 DEF QueueInv
  <2>3. /\ Occ(queue, e) = Occ(start, e) + Occ(kept, e)
        /\ Occ(start, e) \in Nat /\ Occ(kept, e) \in Nat /\ Occ(hist.sent, e) \in Nat
    BY <1>2, <2>1, OccConcat, OccType
  <2> DEFINE R == Through(dor[d], e)
             T == Twice(e)
             S == {d} \X R
  <2>4. IsFiniteSet(R) /\ Cardinality(R) = Occ(start, e)
    <3>1. R = {i \in DOMAIN start : start[i] = e}
      <4>1. Len(dor[d].start) - Len(dor[d].rows) = Len(start) /\ DOMAIN start = 1 .. Len(start)
        BY <1>2, <1>6 DEF start
      <4> QED BY <1>6, <4>1 DEF Through, start
    <3> QED BY <1>2, <3>1, OccType DEF Occ
  <2>5. S \subseteq T /\ Twice(e)' = T \ S
    BY <1>4, <1>7, TwiceOver DEF QueueInv
  <2>6. IsFiniteSet(T) /\ Cardinality(T) \in Nat
    BY <2>2, FS_CardinalityType DEF Balanced
  <2> HIDE DEF R, T
  <2>7. IsFiniteSet(S) /\ Cardinality(S) = 1 * Cardinality(R)
    <3> DEFINE D == {d}
    <3>1. IsFiniteSet(D) /\ Cardinality(D) = 1
      BY FS_Singleton
    <3> HIDE DEF D
    <3>2. IsFiniteSet(D \X R) /\ Cardinality(D \X R) = Cardinality(D) * Cardinality(R)
      BY <2>4, <3>1, FS_Product
    <3> QED BY <3>1, <3>2 DEF D
  <2> HIDE DEF S
  <2>8. T \cap S = S
    BY <2>5
  <2>9. IsFiniteSet(T \ S) /\ Cardinality(T \ S) = Cardinality(T) - Cardinality(S)
    BY <2>6, <2>8, FS_Difference
  <2>10. IsFiniteSet(Twice(e)') /\ Cardinality(Twice(e)') = Cardinality(T) - Occ(start, e)
    BY <2>3, <2>4, <2>5, <2>7, <2>9
  <2> DEFINE one == IF e \in hist.logged THEN 1 ELSE 0
             a == Occ(hist.sent, e)
             b == Occ(start, e)
             c == Occ(kept, e)
             t == Cardinality(T)
  <2>11. /\ a + (b + c) >= t + one
         /\ "lossy" \notin hist.flaws => a + (b + c) = t + one
    BY <2>2, <2>3 DEF Balanced, T
  <2>12. a \in Nat /\ b \in Nat /\ c \in Nat /\ t \in Nat /\ one \in Nat
    BY <2>3, <2>6
  <2>13. /\ Occ(hist'.sent, e) = a /\ Occ(queue', e) = c
         /\ (IF e \in hist'.logged THEN 1 ELSE 0) = one
         /\ Cardinality(Twice(e)') = t - b
    BY <1>1, <1>3, <2>10
  <2> HIDE DEF a, b, c, t, one
  <2>14. a + c >= (t - b) + one /\ ("lossy" \notin hist.flaws => a + c = (t - b) + one)
    BY <2>11, <2>12
  <2>15. /\ Occ(hist'.sent, e) + Occ(queue', e)
              >= Cardinality(Twice(e)') + (IF e \in hist'.logged THEN 1 ELSE 0)
         /\ "lossy" \notin hist'.flaws =>
              Occ(hist'.sent, e) + Occ(queue', e)
              = Cardinality(Twice(e)') + (IF e \in hist'.logged THEN 1 ELSE 0)
    BY <2>1, <2>13, <2>14
  <2> QED BY <2>10, <2>15 DEF Balanced
<1>10. "queue" \notin hist'.flaws => \A e \in Nat : Balanced(e)'
  BY <1>9
<1> QED BY <1>8, <1>10 DEF QueueInv

LEMMA DorDiesOk ==
    ASSUME QueueInv, NEW d \in Dor, DorDies(d)
    PROVE  QueueInv'
<1>1. /\ dor[d].at # "idle" /\ dor' = [dor EXCEPT ![d] = NoDor]
      /\ queue' \in {queue, <<>>}
      /\ hist' = [hist EXCEPT !.flaws = hist.flaws \cup {"lossy"}
                                        \cup (IF queue' = queue THEN {} ELSE {"queue"})]
      /\ used'.ops = used.ops /\ DOMAIN used' = DOMAIN used
  BY DEF DorDies, Trouble, QueueInv, QueueTypes
<1>2. queue \in Seq(Nat) /\ hist.sent \in Seq(Nat)
  BY DEF QueueInv, QueueTypes
<1>3. /\ DOMAIN hist' = DOMAIN hist /\ hist'.logged = hist.logged /\ hist'.sent = hist.sent
      /\ hist'.flaws = hist.flaws \cup {"lossy"}
                       \cup (IF queue' = queue THEN {} ELSE {"queue"})
  BY <1>1 DEF QueueInv, QueueTypes
<1>4. QueueTypes' /\ EventsDiffer' /\ \A c \in Dor : DorOk(c)'
  <2>1. QueueTypes /\ EventsDiffer /\ \A c \in Dor : DorOk(c)
    BY DEF QueueInv
  <2>2. queue' \in Seq(Nat) /\ hist'.sent \in Seq(Nat)
    <3>1. <<>> \in Seq(Nat)
      OBVIOUS
    <3>2. queue' = queue \/ queue' = <<>>
      BY <1>1
    <3> QED BY <1>2, <1>3, <3>1, <3>2
  <2> QED BY <1>1, <1>3, <2>1, <2>2, NoDorIsIdle, DorMoves
<1>5. ASSUME NEW e \in Nat, "queue" \notin hist'.flaws PROVE Balanced(e)'
  <2>1. queue' = queue /\ "queue" \notin hist.flaws /\ "lossy" \in hist'.flaws
    BY <1>3, <1>5
  <2>2. Balanced(e)
    BY <1>5, <2>1 DEF QueueInv
  <2>3. Twice(e)' \in SUBSET Twice(e)
    <3>1. Through(NoDor, e) = {}
      BY NoDorIsIdle
    <3>2. Twice(e)' = Twice(e) \ ({d} \X Through(dor[d], e))
      BY <1>1, <3>1, TwiceOver DEF QueueInv
    <3> QED BY <3>2
  <2>4. /\ IsFiniteSet(Twice(e)') /\ Cardinality(Twice(e)') <= Cardinality(Twice(e))
        /\ Cardinality(Twice(e)) \in Nat /\ Cardinality(Twice(e)') \in Nat
    <3> DEFINE T == Twice(e)
               S == Twice(e)'
    <3>1. IsFiniteSet(T) /\ S \in SUBSET T
      BY <2>2, <2>3 DEF Balanced
    <3> HIDE DEF T, S
    <3>2. IsFiniteSet(S) /\ Cardinality(S) <= Cardinality(T)
      BY <3>1, FS_Subset
    <3>3. Cardinality(T) \in Nat /\ Cardinality(S) \in Nat
      BY <3>1, <3>2, FS_CardinalityType
    <3> QED BY <3>2, <3>3 DEF T, S
  <2>5. Occ(hist.sent, e) \in Nat /\ Occ(queue, e) \in Nat
    BY <1>2, OccType
  <2>6. Occ(hist'.sent, e) + Occ(queue', e)
          >= Cardinality(Twice(e)') + (IF e \in hist'.logged THEN 1 ELSE 0)
    <3>1. Occ(hist.sent, e) + Occ(queue, e)
            >= Cardinality(Twice(e)) + (IF e \in hist.logged THEN 1 ELSE 0)
      BY <2>2 DEF Balanced
    <3> QED BY <1>3, <2>1, <2>4, <2>5, <3>1
  <2> QED BY <2>1, <2>4, <2>6 DEF Balanced
<1>6. "queue" \notin hist'.flaws => \A e \in Nat : Balanced(e)'
  BY <1>5
<1> QED BY <1>4, <1>6 DEF QueueInv

\* The other parts of the plane leave the queue alone.
LEMMA QueueKept ==
    ASSUME QueueInv, UNCHANGED <<queue, dor>>, used'.ops \in Nat, used'.ops >= used.ops,
           DOMAIN used' = DOMAIN used, DOMAIN hist' = DOMAIN hist,
           hist'.sent = hist.sent, hist'.logged = hist.logged,
           hist'.flaws \ {"overlap", "log"} = hist.flaws \ {"overlap", "log"}
    PROVE  QueueInv'
<1>1. used.ops \in Nat
  BY DEF QueueInv, QueueTypes
<1>2. QueueTypes'
  <2>1. \A e \in hist.logged : e \in Nat /\ e < used'.ops
    BY <1>1 DEF QueueInv, QueueTypes
  <2> QED BY <2>1 DEF QueueInv, QueueTypes
<1>3. EventsDiffer'
  BY DEF QueueInv, EventsDiffer
<1>4. ASSUME NEW d \in Dor PROVE DorOk(d)'
  <2>1. dor[d].event \in Nat
    BY DEF QueueInv, QueueTypes, DorRecord
  <2>2. dor[d].at # "idle" => dor[d].event < used'.ops
    BY <1>1, <2>1 DEF QueueInv, DorOk
  <2> QED BY <2>2 DEF QueueInv, DorOk
<1>5. ASSUME NEW e \in Nat, Balanced(e) PROVE Balanced(e)'
  <2>1. Twice(e)' = Twice(e)
    BY DEF Twice, Through
  <2>2. "lossy" \in hist'.flaws <=> "lossy" \in hist.flaws
    OBVIOUS
  <2> QED BY <1>5, <2>1, <2>2 DEF Balanced
<1>6. "queue" \in hist'.flaws <=> "queue" \in hist.flaws
  OBVIOUS
<1> QED BY <1>2, <1>3, <1>4, <1>5, <1>6 DEF QueueInv

LEMMA DorStepKeepsQueue ==
    ASSUME QueueInv, DorStep
    PROVE  QueueInv'
<1>1. PICK d \in Dor : \/ \E flush \in BOOLEAN : DorStart(d, flush) /\ UNCHANGED hist
                       \/ DorAccepted(d) /\ UNCHANGED used
                       \/ \E taken \in BOOLEAN : DorFailed(d, taken)
                       \/ (DorRequeue(d) \/ DorRewrite(d)) /\ UNCHANGED used
                       \/ DorDies(d)
  BY DEF DorStep
<1> QED BY <1>1, DorStartOk, DorAcceptedOk, DorFailedOk, DorRequeueOk, DorRewriteOk, DorDiesOk

\* What each step of the others does to the bounds ...
UsedGrows == used'.ops \in Nat /\ used'.ops >= used.ops /\ DOMAIN used' = DOMAIN used
\* ... and to the history.
QueueHistSame ==
    /\ DOMAIN hist' = DOMAIN hist /\ hist'.sent = hist.sent /\ hist'.logged = hist.logged
    /\ hist'.flaws \ {"overlap", "log"} = hist.flaws \ {"overlap", "log"}

LEMMA UsedIsKept ==
    ASSUME QueueInv
    PROVE  /\ UNCHANGED used => UsedGrows
           /\ Trouble => UsedGrows
           /\ \A kind : Begin(kind) => UsedGrows
<1>1. used.ops \in Nat /\ DOMAIN used = {"ops", "kinds", "trouble"}
  BY DEF QueueInv, QueueTypes
<1>2. Trouble => UsedGrows
  BY <1>1 DEF Trouble, UsedGrows
<1>3. ASSUME NEW kind, Begin(kind) PROVE UsedGrows
  BY <1>1, <1>3 DEF Begin, UsedGrows
<1>4. UNCHANGED used => UsedGrows
  BY <1>1 DEF UsedGrows
<1> QED BY <1>2, <1>3, <1>4

LEMMA ApiLeavesQueue ==
    ASSUME QueueInv, ApiStep
    PROVE  UsedGrows /\ QueueHistSame
<1>1. DOMAIN hist = {"said", "ended", "flaws", "sent", "logged", "bare"}
  BY DEF QueueInv, QueueTypes
<1>2. ASSUME NEW p \in Caller, Insert(p) PROVE QueueHistSame
  BY <1>1, <1>2 DEF Insert, QueueHistSame
<1>3. UNCHANGED hist => QueueHistSame
  BY DEF QueueHistSame
<1>4. ASSUME NEW p \in Caller, LoseCall(p) PROVE UsedGrows
  BY <1>4, UsedIsKept DEF LoseCall
<1>5. PICK p \in Caller : \/ UNCHANGED <<used, hist>>
                          \/ Insert(p) /\ UNCHANGED used
                          \/ LoseCall(p) /\ UNCHANGED hist
  BY DEF ApiStep
<1> QED BY <1>2, <1>3, <1>4, <1>5, UsedIsKept

LEMMA EditorLeavesQueue ==
    ASSUME QueueInv, EditorStep
    PROVE  UsedGrows /\ QueueHistSame
<1>1. UNCHANGED hist /\ Begin("request")
  BY DEF EditorStep, PostVersion, SetStatus
<1> QED BY <1>1, UsedIsKept DEF QueueHistSame

LEMMA JobLeavesQueue ==
    ASSUME QueueInv, JobStep
    PROVE  UsedGrows /\ QueueHistSame
<1>1. UNCHANGED hist /\ (Begin("job") \/ UNCHANGED used)
  BY DEF JobStep, StartJob
<1> QED BY <1>1, UsedIsKept DEF QueueHistSame

LEMMA HookLeavesQueue ==
    ASSUME QueueInv, HookStep
    PROVE  UsedGrows /\ QueueHistSame
<1>1. DOMAIN hist = {"said", "ended", "flaws", "sent", "logged", "bare"}
  BY DEF QueueInv, QueueTypes
<1>2. ASSUME NEW c \in Conv, ReadTurn(c) PROVE QueueHistSame
  BY <1>1, <1>2 DEF ReadTurn, QueueHistSame
<1>3. ASSUME NEW c \in Conv, AppendLog(c) PROVE QueueHistSame
  BY <1>1, <1>3 DEF AppendLog, QueueHistSame
<1>4. ASSUME NEW c \in Conv, ClearPending(c) PROVE QueueHistSame
  BY <1>1, <1>4 DEF ClearPending, QueueHistSame
<1>5. ASSUME NEW c \in Conv, HookDies(c) PROVE QueueHistSame /\ UsedGrows
  <2>1. QueueHistSame
    BY <1>1, <1>5 DEF HookDies, QueueHistSame
  <2>2. Trouble
    BY <1>5 DEF HookDies
  <2> QED BY <2>1, <2>2, UsedIsKept
<1>6. UNCHANGED hist => QueueHistSame
  BY DEF QueueHistSame
<1>7. PICK c \in Conv : \/ Begin("prompt") /\ UNCHANGED hist
                        \/ UNCHANGED <<used, hist>>
                        \/ (ReadTurn(c) \/ AppendLog(c) \/ ClearPending(c)) /\ UNCHANGED used
                        \/ HookDies(c)
  BY DEF HookStep
<1> QED BY <1>2, <1>3, <1>4, <1>5, <1>6, <1>7, UsedIsKept

LEMMA QueueNext == QueueInv /\ [Next]_vars => QueueInv'
<1> SUFFICES ASSUME QueueInv, [Next]_vars PROVE QueueInv'
  OBVIOUS
<1>1. CASE DorStep
  BY <1>1, DorStepKeepsQueue
<1>2. CASE UNCHANGED <<queue, dor>> /\ UsedGrows /\ QueueHistSame
  BY <1>2, QueueKept DEF UsedGrows, QueueHistSame
<1>3. UNCHANGED <<used, hist>> => UsedGrows /\ QueueHistSame
  BY UsedIsKept DEF QueueHistSame
<1>4. \/ DorStep
      \/ UNCHANGED <<queue, dor>>
         /\ (ApiStep \/ EditorStep \/ JobStep \/ HookStep \/ UNCHANGED <<used, hist>>)
  BY DEF Next, Tick, vars, queues
<1> QED BY <1>1, <1>2, <1>3, <1>4, ApiLeavesQueue, EditorLeavesQueue, JobLeavesQueue, HookLeavesQueue

\* dor_log.py: a DoR event whose process has ended is shipped or queued, exactly once without
\* a death or a lost answer, unless two processes rewrote the queue at a time.
THEOREM EventsAreAccountedFor == Spec => []EventsAreKept
<1>1. Spec => []QueueInv
  BY QueueInit, QueueNext, PTL DEF Spec
<1>2. QueueInv => EventsAreKept
  <2> SUFFICES ASSUME QueueInv, "queue" \notin hist.flaws, \A d \in Dor : dor[d].at = "idle",
                      NEW e \in hist.logged
               PROVE  /\ Occ(hist.sent, e) + Occ(queue, e) >= 1
                      /\ "lossy" \notin hist.flaws => Occ(hist.sent, e) + Occ(queue, e) = 1
    BY DEF EventsAreKept, Occ
  <2>1. e \in Nat
    BY DEF QueueInv, QueueTypes
  <2>2. Twice(e) = {}
    BY DEF Twice, Through, QueueInv, DorOk, InOrder
  <2>3. Cardinality(Twice(e)) = 0
    BY <2>2, FS_EmptySet
  <2> QED BY <2>1, <2>3 DEF QueueInv, Balanced
<1> QED BY <1>1, <1>2, PTL
=============================================================================
