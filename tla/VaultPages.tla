------------------------------ MODULE VaultPages ------------------------------
(***************************************************************************)
(* The projection of canonical events onto the pages of a vault: what the  *)
(* allowlist lets through (redaction.py), which pages an event appears on  *)
(* and in what order (generator.py), the two cutoff filters, and the order *)
(* in which canon synth show streams the pages.  Three places name the     *)
(* page of an event: /changes from the event as it came (PrimaryKey), the  *)
(* generator from what redaction left of it (GeneratedKey), and canon      *)
(* synth show from a list of file names (PhaseOrder).                      *)
(* Everything here is a function of its arguments.                         *)
(*                                                                         *)
(* A page is a tuple <<kind, ...>> that stands for its path.  What is on   *)
(* it is who wrote it, the cutoff it names, the events it cites in order,  *)
(* the tasks it lists and the timestamp in its front matter (0: none).     *)
(***************************************************************************)
EXTENDS Integers, Sequences, FiniteSets, SequencesExt

CONSTANT SeedNames  \* the files of .obsidian/ that are seeded

PhaseNames == {"scoper", "cursor-pilot", "implementer", "qa-gate", "release-orchestrator"}
PhaseOrder == <<"index", "scoper", "cursor-pilot", "implementer", "qa-gate",
                "release-orchestrator">>

\* The keys of the payload that may be shown, for each type of event.
SafeKeys(type) ==
    CASE type = "retrieval_breakdown"  -> {"phase", "agent", "sources"}
      [] type = "lease_stall_detected" -> {"diagnostic", "suggested_next_step"}
      [] type = "checkpoint_write"     -> {"phase", "state_version"}
      [] OTHER                         -> {}

\* An event of the log; times and ids are numbers, in the order of their strings.  The
\* phase is what str() makes of the payload's, which may be no scalar; then it is no
\* phase's name.
CanonicalEvent ==
    {e \in [id : Nat, ts : Nat, type : STRING, plan : STRING, task : Nat, agent : STRING,
            run : STRING, phase : STRING, scalar : BOOLEAN, keys : SUBSET STRING] :
        e.scalar \/ e.phase \notin PhaseNames}

\* What is left of the payload: the keys that may be shown, the phase only if it is a
\* scalar.
KeptKeys(e) == (e.keys \cap SafeKeys(e.type)) \ (IF e.scalar THEN {} ELSE {"phase"})

\* The company, the model and every other key of the payload are dropped; the
\* repository, the run and the actor survive as short hashes.
Safe(e) ==
    [id |-> e.id, type |-> e.type, plan |-> e.plan, task |-> e.task,
     agent |-> e.agent, run |-> e.run, ts |-> e.ts,
     phase |-> IF "phase" \in KeptKeys(e) THEN e.phase ELSE "",
     keys |-> KeptKeys(e)]

InScope(e, plan, task) == e.plan = plan /\ (task = "any" \/ e.task = task)

\* What an event source returns: the events of the scope strictly after the cutoff.
IterEvents(evs, plan, task, cutoff) ==
    {e \in evs : (plan = "any" \/ InScope(e, plan, task)) /\ e.ts > cutoff}

PhaseFile(phase) == IF phase \in PhaseNames THEN phase ELSE "implementer"

\* primary_vault_key, of the event as it is in the log.
PrimaryKey(e) ==
    CASE e.type = "retrieval_breakdown"  -> <<"retrieval", e.plan, e.task>>
      [] e.type = "lease_stall_detected" -> <<"stall", e.plan, e.task>>
      [] e.type = "checkpoint_write"     ->
            <<"phase", e.plan, e.task,
              IF "phase" \in e.keys THEN PhaseFile(e.phase) ELSE "implementer">>
      [] OTHER                           -> <<"opaque", e.id>>

IndexPages == {<<"by", "type">>, <<"by", "plan">>, <<"by", "agent">>}

\* Mutant: the page of a checkpoint goes by the name of its phase, whatever it is.
GeneratedKeyByName(s) ==
    CASE s.type = "retrieval_breakdown"  -> <<"retrieval", s.plan, s.task>>
      [] s.type = "lease_stall_detected" -> <<"stall", s.plan, s.task>>
      [] s.type = "checkpoint_write"     ->
            <<"phase", s.plan, s.task, IF "phase" \in s.keys THEN s.phase ELSE "implementer">>
      [] OTHER                           -> <<"opaque", s.id>>

\* The page that generate_vault writes the (safe) event s to.
GeneratedKey(s) ==
    CASE s.type = "retrieval_breakdown"  -> <<"retrieval", s.plan, s.task>>
      [] s.type = "lease_stall_detected" -> <<"stall", s.plan, s.task>>
      [] s.type = "checkpoint_write"     ->
            <<"phase", s.plan, s.task,
              PhaseFile(IF "phase" \in s.keys THEN s.phase ELSE "implementer")>>
      [] OTHER                           -> <<"opaque", s.id>>

\* Every page that shows s.
PagesOf(s) ==
    {<<"attachment", s.id>>, GeneratedKey(s), <<"run", s.agent, s.run>>,
     <<"phase", s.plan, s.task, "index">>, <<"plan", s.plan>>} \cup IndexPages

\* The elements of a set in an order, where upto[x] are those that x is not before.
Ranked(set, upto) ==
    [i \in 1 .. Cardinality(set) |-> CHOOSE x \in set : Cardinality(upto[x]) = i]

InOrder(evs) ==
    Ranked(evs, [e \in evs |-> {f \in evs : f.ts < e.ts \/ (f.ts = e.ts /\ f.id <= e.id)}])

\* Retrieval and stall pages are replaced by each later event of their task.
IsOverwritten(k) == k[1] \in {"retrieval", "stall"}
HasFrontmatter(k) == k[1] \notin {"attachment", "by", "seed", "readme"}

Readme == <<"readme">>
Seeds == {<<"seed", n>> : n \in SeedNames}

Blank(by, cutoff) == [by |-> by, cutoff |-> cutoff, events |-> <<>>, tasks |-> {}, ts |-> 0]

EventPage(k, safes) ==
    LET shown == InOrder({s \in safes : k \in PagesOf(s)})
        last  == shown[Len(shown)]
        cited == IF IsOverwritten(k) THEN <<last>> ELSE shown
    IN  [by |-> "generator", cutoff |-> 0,
         events |-> IF k[1] = "plan" THEN <<cited[1].id>>
                    ELSE [i \in DOMAIN cited |-> cited[i].id],
         tasks |-> IF k[1] = "plan" THEN {s.task : s \in {t \in safes : t.plan = k[2]}} ELSE {},
         ts |-> IF HasFrontmatter(k) THEN cited[1].ts ELSE 0]

UpToCutoff(evs, cutoff) == {e \in evs : e.ts <= cutoff}

GenerateVault(evs, cutoff) ==
    LET safes == {Safe(e) : e \in UpToCutoff(evs, cutoff)}
        pages == UNION {PagesOf(s) : s \in safes}
    IN  [k \in {Readme} \cup Seeds \cup pages |->
            IF k = Readme THEN Blank("generator", cutoff)
            ELSE IF k \in Seeds THEN Blank("generator", 0)
            ELSE EventPage(k, safes)]

\* canon synth publish: the same cutoff bounds the events from below and from above.
Bundle(evs, plan, cutoff) == GenerateVault(IterEvents(evs, plan, "any", cutoff), cutoff)

----------------------------------------------------------------------------
(* The synthesis service: GET /synth/vault/changes and GET /synth/show.    *)

Latest(evs) == Max({e.ts : e \in evs})

Changes(evs, since) ==
    LET new == IterEvents(evs, "any", "any", since)
    IN  {[key |-> PrimaryKey(e), id |-> e.id, ts |-> e.ts] : e \in new}

\* The vault that /changes and /show generate, for all events after since.
ServiceVault(evs, plan, task, since) ==
    LET new == IterEvents(evs, plan, task, since)
    IN  IF new = {} THEN <<>> ELSE GenerateVault(new, Latest(new))

ServicePage(evs, plan, task) ==
    LET vault == ServiceVault(evs, plan, task, 0)
        key   == IF task = "any" THEN <<"plan", plan>> ELSE <<"phase", plan, task, "index">>
    IN  IF key \in DOMAIN vault THEN <<vault[key]>> ELSE <<>>

----------------------------------------------------------------------------
(* canon synth show.                                                       *)

\* The pages of a plan or a task that are streamed: the plan's, and of each task those
\* with a name that canon synth show knows.
Streamed(pages, plan, task) ==
    {k \in pages : \/ k = <<"plan", plan>>
                   \/ /\ k[1] = "phase" /\ k[2] = plan /\ task \in {"any", k[3]}
                      /\ k[4] \in ToSet(PhaseOrder)}

\* In order: the plan's, then those of one task after the other.
StreamOrder(keys) ==
    LET at(name) == CHOOSE i \in 1 .. Len(PhaseOrder) : PhaseOrder[i] = name
        NotAfter(l, k) ==
            \/ l[1] = "plan"
            \/ k[1] = "phase" /\ l[3] < k[3]
            \/ k[1] = "phase" /\ l[3] = k[3] /\ at(l[4]) <= at(k[4])
    IN  Ranked(keys, [k \in keys |-> {l \in keys : NotAfter(l, k)}])

\* A page without a timestamp is always shown.
WithinCutoff(page, cutoff) == cutoff = 0 \/ page.ts = 0 \/ page.ts <= cutoff

\* What canon synth show does with a bucket that does not change while it reads: it
\* ends with not_found without an index page, and streams what the cutoff admits.
Show(pages, plan, task, cutoff) ==
    IF <<"plan", plan>> \notin DOMAIN pages THEN [exit |-> "not_found", slugs |-> <<>>]
    ELSE [exit  |-> "found",
          slugs |-> StreamOrder({k \in Streamed(DOMAIN pages, plan, task) :
                                    WithinCutoff(pages[k], cutoff)})]
=============================================================================
