# Canon Systems: verification project

TLA+ modules for the stateful core of Canon Systems, TLC configurations that check them on small
instances, and TLAPS proofs of all their safety properties for every value of the parameters
that the assumptions of section 4 allow. Paths are relative to the repository root;
`src/canon_systems` is the CLI package, `backend/*` are the services.

Run everything from this directory:

    tlc -config MCCheckpointPlane.cfg MCCheckpointPlane.tla
    tlapm CheckpointPlane_proofs.tla

Each component has its `MC` module with one or two configurations, and its `_proofs`
module.

## 1. Inventory

### Parts that are modelled

| Part | State | Operations | Interacts with |
| --- | --- | --- | --- |
| Checkpoint and lease plane: `backend/state-api/state_api/{leases,checkpoints,storage,models}.py`, `src/canon_systems/checkpoint_cli.py` | one DynamoDB item per (company, repository, plan, task, workstream): `state_version`, the checkpoint body, flat `lease_*` attributes; an append-only event log | acquire, renew, release, put, get; the table's TTL | agents, through the CLI; read by resume and watchdog |
| Resume engine and lanes: `resume_engine.py`, `task_thread_scheduler.py` | none of its own; reads the rows of a plan, prints an envelope | scan, target, lanes | rows above; the orchestrator acts on the envelope |
| Stall watchdog: `stall_watchdog.py` | the event log | scan: probe, classify, append | rows above |
| Task ledger: `tasks.py`, `tasks_cli.py`, `tasks_remote.py`, `tasks_automation.py`, `state_api/tasks.py` | two NDJSON ledgers per machine, event rows in the tasks table, one S3 object | create, comment, status, close, reopen, assign, the session hooks, sync | user commands and hooks share the ledgers without a lock; state-api is reached fail-open |
| Live plan: `live_plan.py`, `static/live_plan_panel/app.js`, `extensions/google-meet-companion/content.js` | a session document, two manifests, the files of finalize, one index, all JSON or Markdown files; in each client the panel it shows and the captions it has sent | some twenty commands and bridge routes: propose, confirm, raise and resolve hands, transcript, references, mode, Meet binding, batches, finalize | threads of the bridge and commands share the files without a lock; clients answer the panel they fetched last |
| Evidence of a task: `qa_validate.py`, `flow_audit.py`, `dor_telemetry.py`, `packet_archive*.py`, `run_ledger*.py`, `readiness*.py`, `state_api/{packet_archive,run_ledger}.py`, `canon_backend_shared/{packet_archive,run_ledger}.py` | the handoff files; archived objects and their events; ledger rows | validate, audit, archive, put a row, check | an operator runs them one after the other; agents rewrite the files meanwhile, other operators put rows in the same scope |
| Vault: `backend/synthesis/synthesis/*`, `synth_cli.py`, `release_publish.py`, `vault_sync.py`, `backend/synthesis-web/synthesis_web/*` | pages in S3, one sentinel per release, a mirror per user, a render cache | publish-on-pass with retries, publish, the daemon's tick, the feed of changes, synth show, a page request | all work on the bucket at the same time, object by object |
| Knowledge: `backend/knowledge-api` (artifacts), `backend/knowledge-worker`, `capture_session.py`, `store_pending_user.py`, `dor_log.py`, `knowledge_policy` | artifact and version rows, body objects; the pending prompt, the failure log, the DoR queue | create, version, publish, supersede, list, read; jobs; prompt and response hooks; dor-log and its flush | hooks of several conversations share files; the worker and, when it fails, the hook itself call the API |

What is hard in them, and what makes them correct:

* **Plane.** Handlers interleave between a read, a conditional update, a re-read and
  an emission; a caller may give up while its handler goes on; reads are eventually
  consistent; the clock is sampled once per handler. Correct means: writes are fenced
  by lease, versions are written once, a live lease is not taken, a dead token stays
  dead, the audit log reports only writes that happened.
* **Resume.** A scan reads rows one request at a time while agents write them, and is
  acted on later. Correct means: the merge gate opens only for a finished plan, the
  target skips no work, lanes respect dependencies, also when a read was stale.
* **Watchdog.** Probes race with renewals and releases, are answered by stale copies, and a
  renewal may be committed after the lease expired. Correct means: no alarm about an agent that
  asked for its renewal in time, and no silent scan over a lease that every copy showed expired.
* **Tasks.** Events are recorded first and pushed second; pushes and answers get lost;
  the cache is rewritten while other processes append; machines' clocks differ.
  Correct means: nothing that was recorded is lost, a sync that reports success
  reconciled, and every fold shows the latest status.
* **Live plan.** Every request loads the document, changes it and truncates and rewrites
  the file; side files follow; processes die in between; the reader answers an
  old panel. Correct means: a request that overlaps with no other loses nothing, an item
  is confirmed only in the wording somebody accepted, its hand stays up until then, the
  panel is never ahead of the session, a finalized session has its files.
* **Evidence.** Line-oriented parsing with state; calls that fail between two effects; retries
  against put-if-absent; queries with a limit; reads that miss the newest row. Correct means:
  the scanner credits no criterion with another's tests, "ready" rests on archived objects and
  on the newest row the query can reach, an acknowledged row stays, a conflict is a real one.
* **Vault.** Publisher, daemon and web server see each other's half-done work; attempts
  fail and are repeated; the daemon is killed and restarted with a torn file.
  Correct means: a sentinel stands for a complete publication, a quiet tick leaves an
  exact mirror and a quiet bucket is mirrored in the end, a tag names the page it came
  with, what is announced is shown.
* **Knowledge.** The body is stored before the rows are looked at; handlers die between the
  steps; retries take 409 for done; hooks read and rewrite shared files. Correct means: what is
  listed and came with a text can be read, versions are ordered, an acknowledged job is whole, a
  turn is in an artifact or in the log, an event is shipped or queued.

### Parts that are not modelled

| Part | Why |
| --- | --- |
| Knowledge API, runs (create, dispatch, transition, advance) | next in the plan; no run of the checks was left for it (section 7) |
| Context preload, hybrid ask | read-only fan-out and prompt assembly |
| Graph indexer, axon service | a parser and a query facade |
| Health, metrics, reports | read-only aggregation, formatting |
| Secrets, installation | one-shot local commands and a cloud SDK |

`PROJECT.json` lists every component with its files, and under `hazards` the lines
where the code is hard to test.

## 2. Modules

    LeaseRow ── CheckpointPlane ── MCCheckpointPlane
       │              ├── FencedRegister (by INSTANCE: the abstract specification)
       │              └── CheckpointPlane_proofs
       └── PlanRows ── ResumeScan ── MCResumeScan, ResumeScan_proofs
              └─────── StallWatchdog ── MCStallWatchdog, StallWatchdog_proofs
    TaskFold ── TaskPlane ── MCTaskPlane, TaskPlane_proofs
    LivePlanDoc ── LivePlan ── MCLivePlan, LivePlan_proofs
    GatePackets ┐
    LedgerRecords ── EvidencePlane ── MCEvidencePlane, EvidencePlane_proofs
    VaultPages ── VaultPlane ── MCVaultPlane, VaultPlane_proofs
    ArtifactRows ── KnowledgePlane ── MCKnowledgePlane, KnowledgePlane_proofs

The first module of each line holds the data and its pure operators, the second the
processes that work on it.

**LeaseRow** is one item and the conditional updates of `StateStore`: each `Can*` is a
ConditionExpression, each past participle (`Claimed`, `Extended`, `Released`,
`Written`) an UpdateExpression. A uuid4 token is the number of the grant that minted
it, since the code compares tokens for equality only. The body of a checkpoint is
identified by its version.

**CheckpointPlane** has a set of runs and of concurrent handlers. A handler is split at
every DynamoDB call, so each action below is what the code does between two calls:

| Code | Actions |
| --- | --- |
| `lease_acquire` | `AcquireRead`, then `AcquireExtend`, or `AcquireClaim` and on failure `AcquireRecheck` |
| `lease_renew` | `Renew`, on failure `RenewExplain` |
| `lease_release` | `Release` |
| `put_checkpoint` | `PutRead`, `PutWrite`, then `PutEmit`, or on failure `PutExplain` |
| `canon checkpoint …` | `SendAcquire`, `SendRenew`, `SendRelease`, `SendPut`, `Read`, `Timeout` |
| the surroundings | `Tick`, `Replicate` (an eventually consistent read catches up), `Purge` (the TTL deletes the item), `HandlerCrash`, `AgentRestart` |

`grants`, `writes`, `events`, `purges` and `sent` are history, read by properties and
bounds only, except that `Len(grants) + 1` is the fresh token.

**FencedRegister** is what the plane promises, without clock, handlers or messages:
leases in order, an ended lease never returns, every write is made by the lease in
force, register and lease may vanish together (the TTL). `CheckpointPlane` implements it
with `holder <- row.token`, `epoch <- Len(grants)`, `log <-` the tokens of the writes.

**PlanRows** has one row per manifest entry and the runs that work on them. Row
operations are single steps here: `CheckpointPlane` shows that interleaved handlers
amount to the register's atomic steps. The time in them is not that of the step: a handler
samples the clock before its update, so `Claim` and `Put` judge the lease by some time
since the run was last answered (`told`, `Sampled`), and a renewal is two steps,
`SendRenew` with its time and `Renew` whenever it is committed, if at all, also after the lease expired
or the run is gone. `images` are the checkpoints a row has held; `finished` is history.
**ResumeScan** adds `Start`, `Probe` (one GET, which is an eventually consistent read and
answers with any image the row has had, or fails) and `Conclude`, and the orchestrator's
`HandOut`. `FirstIncomplete`, `Target`, `CompleteTasks`, `RunnableOf`, `ActiveOf`, `BlockedOf`
are the functions of the two source files.
**StallWatchdog** adds the scan of `stall_watchdog.run`, with one clock sample,
probes, appends, failures of both, and kills. A probe may be answered by a copy of the row
that lags behind (`replica`, which `Replicate` brings up to date).

**TaskFold** is the event and its fold: `NewTask`, `FoldEvent`, `InStampOrder`,
`Materialize`. A stamp stands for timestamp and event id, both taken from the recording
machine's clock.
**TaskPlane** follows one task: `Create`, `Mutate` and `Promote` choose an event,
`Look` finds the ledger in the combined view, `Record` appends, `Push` posts.
`Sync`, `SyncPush`, `SyncFetch`, `SyncMerge` and `SyncWrite` are the server half of
`canon task sync`, `S3Get` to `S3Put` its fall-back. `SyncMerge` is the
second read of the cache together with the truncation that `write_text` begins with,
`SyncWrite` the write itself, so that appends fall between them. `mixed` records the
machines on which such an overlap, or a kill in between, has happened.

**LivePlanDoc** is the session document: items, hands, segments and references with the
ids `_next_id` gives them, and the function of each event on it. The words of an item
are a tag, so that it can be told who accepted which wording. **LivePlan** has users
with one request at a time. `Request` loads and applies; `StepsOf` is the order in which
each kind of request then truncates and writes its files, and `Truncate`, `WriteState`,
`WriteSide`, `Reload`, `IndexLoad`, `IndexTruncate`, `IndexWrite` and `Reply` are these
steps, so that other requests and `Kill` fall between them. A file is missing, torn,
garbled (a longer text was overwritten in part) or JSON. `Refresh` gives a client
its panel; `Answer` uses the ids on it. `clash` records the sessions where two requests
overlapped or one was killed in its rewrite: there the code promises nothing.

**GatePackets** has the line scanner of `qa_validate` over lines reduced to kind and
indentation, and the conditions of `flow_audit`. **LedgerRecords** has the archive key and
record, the validation and normal form of ledger rows, the scoped query, whose one page ends at
the limit or before it (`Pages`: after 1 MB, since `LastEvaluatedKey` is not followed), and the
readiness report. **EvidencePlane** is an operator who validates, audits, archives packet by
packet (`Archive`, `ArchiveFails`, `LeaveOut`, `ArchiveLater`), composes and puts a row
(`Compose`, `PutRow`) and checks (`CheckLatest`, `CheckRun`), while agents rewrite packets and
others put rows. `fresh` holds the rows that an eventually consistent read may miss.

**VaultPages** says which page an event is on, in which order, what redaction keeps, and what
`/changes`, `/show` and `canon synth show` make of it. Each of the three programs that name a
page has its own operator: `PrimaryKey` of the event in the log (`/changes`), `GeneratedKey` of
what redaction left of it (`generate_vault`), and the list of file names in `Streamed` (`canon
synth show`). A page is a tuple that stands for its path. **VaultPlane** composes the three
programs that meet in the bucket: publish-on-pass (`Begin`, `Load`, `HeadPage`, `PutPage`,
`Fail`, `WriteSentinel`, `KillJob`), the daemon (`List`, `Delete`, `Compare`, `Read`, `Write`,
`TickDone`, `SyncFault`, `KillSync`) and the web server (`Ask`, and `Get` in four: `GetPage`,
`ListPages`, `ScanPage` for each page of the vault, `Render`). Each action is one call to S3 or
one file operation, except that `Load` reads the whole log and that the work between two calls
belongs to one of them or, as `Render`, is a step of its own. The links that the scan is for are
not modelled, what can go wrong in it is: a listed page that has gone ends the request.

**ArtifactRows** is the access decision, the rows and the answers of the reading endpoints.
**KnowledgePlane** splits a create or version request into `OpenArtifact`, `PutBody`,
`CheckArtifact` or `CountVersions`, and `Insert` (flush and commit), with `LoseCall` between any
two. The body goes where the client says (`ref`), and only if the request brings one (`given`).
The module composes this with the worker (`StartJob`, `JobAnswered`), the hooks (`Prompt`,
`Respond`, `ReadTurn`, `WorkerAnswered`, `FallbackAnswered`, `ReadLog`, `AppendLog`,
`ClearPending`, `HookDies`), and has `canon dor-log` next to it (`DorStart` to `DorDies`).
`hist.flaws` names what has happened of which the code promises nothing: two version requests
overlapped, two processes rewrote one file at a time, a process died.

`MC*` modules only declare model values, symmetry and small instances. Operators whose
comment begins with "Mutant" are faulty variants of the definition next to them.

## 3. Runs

| Run | Question | Bounds | Result |
| --- | --- | --- | --- |
| `plane` | Do two runs that race through two handlers keep the row fenced, and is the plane a fenced register? | 4 requests, clock 0..2, ttl 1 | 1.75 million states, holds |
| `plane_stale` | Is every request answered, also when reads are stale? | 2 requests, clock 0..1, stale reads, fair handlers | holds |
| `resume_serial` | Are target and gate right when the scan races with an agent and reads old images? | 2 tasks, 2 phases, 1 agent, 2 leases, clock 0..1, 1 failed GET | 2.56 million states, holds |
| `resume_lanes` | Do two agents that take work from lane reports respect dependencies? | the same plan, 2 agents, no failed GET | 3.56 million states, holds |
| `watchdog` | Is every alarm true and every silence earned, with late renewals and stale reads? | 2 entries, 1 agent, 2 leases, 2 renewals, clock 0..2, 1 scan, 1 failure | 2.28 million states, holds |
| `tasks` | Is anything lost, and does a clean sync reconcile? | 2 processes on one machine, 1 on another, 2 events, 1 sync, 2 faults, a page of 1 row | 0.96 million states, holds |
| `live` | Do two users without a lock, one of whom may die, keep the document sound and their own work safe? | 1 session, 1 user of the bridge and 1 of the commands, 2 texts, 3 requests, 1 start, 1 kill | 2.47 million states, holds |
| `evidence` | Does a task that gets through have its evidence, and does "ready" rest on the archive and the newest row? | 155 texts of `qa-gate.md` in four layouts, 20 other directories, 1 failed call, 1 rewritten packet, 2 puts, 1 rival row, limit 2 or 3, pages of 2 rows or more | 0.53 million states, holds |
| `evidence_window` | The same when the scope has rows of two handoffs | 2 rival rows, limit 2 | violated, see section 5 |
| `vault` | Do publisher, daemon and web server keep their promises over one bucket? | 2 releases, 2 invocations of 2 attempts, 7 events of 2 plans, 2 failures, kills or edits | 1.28 million states, holds |
| `vault_cutoff` | Are the events after the cutoff published? | 1 invocation | violated, see section 5 |
| `knowledge` | Are artifacts readable and ordered, jobs whole, turns and events kept? | 2 conversations, 2 editors, 1 job, 2 dor-logs, 2 prompts, 3 operations, 2 failures, clock 0..1 | 0.84 million states, holds |

**What each passing run checks.**

* `plane`: `TypeOK`, `FencingOrder` (no write under an older lease after one under a newer),
  `OneWritePerVersion` (no lost update, no double application of a retry),
  `EventsFollowWrites`, `LeaseNotStolen` (nobody but its holder ends or shortens a live lease),
  `DeadTokensStayDead`, `ImplementsRegister`.
* `plane_stale`: `CallsReturn`: a handler that received a request leaves it.
* `resume_serial`: `GateIsSound`, `TargetSkipsNothing`. (That the target repeats nothing does not hold:
  section 5.)
* `resume_lanes`: `WorkFollowsDependencies`, `LanesLoseNothing`.
* `watchdog`: `AlertedLeaseIsDead` (unless a renewal had been sent before the reported expiry),
  `CleanScanMissesNothing` (for leases that had expired in every copy of the row).
* `tasks`: `NothingLost`, `SyncReconciles`, `FoldShowsLatest` (every text given with an event, except
  those of which section 5 says that the fold drops them).
* `live`: `HandsFollowItems` (ids tell entries apart and a waiting item has its hand),
  `AckedSurvives`, `FinalizedHasFiles`, `PanelTrails`, `PlanWasReadBack`.
* `evidence`: `PassMeansCovered` (in the prescribed layout the scanner never credits a criterion with
  another's tests: `LaidOut` and `Covered` are defined over the text and use nothing of the scanner),
  `ReadyMeansArchived`, `NewerIsOutOfReach` (what a ready report passes over is beyond a page that the
  client cannot tell from a full answer), `AckedRowStays`, `ConflictsAreReal`, `EventsFollowObjects`.
* `vault`: `OkTickIsMirror`, `SentinelMeansPublished`, `TagNamesThePage`, `ChangesAreShown` (a
  statement about the event log, which no step changes; what could be wrong in it are the three
  programs' names. `ShownLogs`, the logs it holds for, is a constant that TLC computes once,
  over every subset of the events: of a known phase, an unknown one, one that is no scalar, and
  none), and the liveness property `MirrorCatchesUp`.
* `knowledge`: `ShownCanBeRead` (of what came with a text), `VersionsAreOrdered`,
  `AckedJobMadeAll`, `TurnsAreKept`, `EventsAreKept`.

**Why the bounds are enough.** Four requests let a run acquire, lose its lease, and write late
after another run acquired and wrote: the shortest violation of fencing without its guard takes
four. Clock value 2 with a ttl of 1 lets a lease expire and its successor expire as well. Two
phases distinguish the first, a middle and the last successor in `_first_incomplete_phase`: 0, 1
and 2 of them done. Two leases, of one entry or of both, let an entry be claimed, lost and
claimed again, or both be worked on; a clock of 0..1 with ttl 1 lets a lease expire and its row
be purged, so that an old image shows work that is gone or less than was done. In `watchdog` two
renewals allow one in time and one that is committed after the expiry and after the probe, and
clock value 2 lets the lease so revived expire again. Renewals play no part in the two resume
runs. A page of one row with two events makes the server's answer incomplete; two faults allow a
lost push answer and a failing fetch, or a failing push followed by a failing `get_object`.

Three live-plan requests let two overlap and a third one meet what they left, with an answer to
an id that was given twice; the kinds of event are divided between the two users, except those
that both must send for the hazards (propose, confirm). In `evidence` the texts put each form of
a covering-tests line, and each way to end a block too early or too late, in front of a good
criterion and behind it; they are only validated, in a directory that then fails the audit,
while other directories go all the way with one fault. A limit of two rows fills the window, one
of three with pages of two leaves it short: that is the smallest page, since an item has 400 KB
at most and a page 1 MB. In `vault` two failures in one invocation use up its attempts, or kill
the daemon after a torn write and fail its next tick; the two releases publish the same keys,
one of them after somebody's edit. `MaxKinds = 1` in `knowledge` lets a behaviour be about
captures, or version requests, or jobs, or DoR events: these share no artifact id and no file,
so a mixture has no step that one kind alone does not have. Two prompts make two conversations
meet in the pending file, the log and the second; three operations let two version requests
overlap and a third count after them, or a job fail and be repeated twice.

Every property is also run against a mutated definition (`PROJECT.json`, `mutants`) and
found violated, so each can fail within its bounds.

**Symmetry** is used for safety only: runs, handlers, the two processes of a machine,
the conversations and the dor-logs occur in no constant other than the sets they form.
The runs with a liveness property do without.

**Deadlock** is checked in the plane and resume runs. In the others the system may
stop: all operations of the bounds are used up and nothing waits for an answer.

**Fairness.** In the plane `FairSpec` has weak fairness of `Serve(h)` for each handler and
of nothing else: handlers are threads of a running service, and no step of one waits for
another. In the vault `Spec` has weak fairness of the daemon's `Tick`: launchd, systemd and
the task scheduler keep the process running (a kill is followed by a restart) and its
loop ends only with the `OverflowError` beyond `MaxExp` failures in a row. Agents, time,
the TTL, replication, crashes, publishers and readers are never forced to happen, and
the faults and edits of `vault` are bounded, so that the bucket is left alone in the end.

## 4. Proofs

Each theorem is about `Spec` with any number of agents, users, processes, machines,
sessions, releases or conversations, any plan or directory, and any bounds; the runs
show the same properties on small instances.

| Module | Theorem | Property |
| --- | --- | --- |
| `CheckpointPlane_proofs` | `TypeCorrect` | `[]TypeOK` |
| | `FencingHolds` | `[]FencingOrder` |
| | `NoLostUpdate` | `[]OneWritePerVersion` |
| | `AuditIsTruthful` | `[]EventsFollowWrites` |
| | `LeasesAreNotStolen` | `LeaseNotStolen` |
| | `TokensDieOnce` | `DeadTokensStayDead` |
| | `PlaneImplementsRegister` | `ImplementsRegister` |
| `ResumeScan_proofs` | `ReportsAreTrue` | `[]Inv` |
| | `GateSound` | `[]GateIsSound` |
| | `TargetIsFirst` | `[]TargetSkipsNothing` |
| | `LanesAreComplete` | `[]LanesLoseNothing` |
| | `LanesFollowDependencies` | `[]WorkFollowsDependencies` |
| `StallWatchdog_proofs` | `AlertsAreTrue` | `[]AlertedLeaseIsDead` |
| | `CleanScansAreComplete` | `CleanScanMissesNothing` |
| `TaskPlane_proofs` | `NothingInvented` | `[]Inv` |
| | `CleanSyncReconciles` | `[]SyncReconciles` |
| | `EventsAreNotLost` | `[]NothingLost` |
| | `FoldsShowTheLatest` | `[]FoldShowsLatest` |
| `LivePlan_proofs` | `SessionsAgree` | `[]Inv` |
| | `HandsStayUp` | `[]HandsFollowItems` |
| | `FinalizedIsComplete` | `[]FinalizedHasFiles` |
| | `AcknowledgedStays` | `[]AckedSurvives` |
| | `PanelIsBehind` | `[]PanelTrails` |
| | `ConfirmedWasReadBack` | `[]PlanWasReadBack` |
| `EvidencePlane_proofs` | `LedgerStands` | `[]Inv` |
| | `AckedRowsStay` | `[]AckedRowStays` |
| | `ConflictsReal` | `[]ConflictsAreReal` |
| | `EventsHaveObjects` | `[]EventsFollowObjects` |
| | `PassesAreCovered` | `[]PassMeansCovered` |
| | `ReadyIsArchived` | `[]ReadyMeansArchived` |
| | `ReadyIsLatest` | `[]NewerIsOutOfReach` |
| `VaultPlane_proofs` | `WorkIsAccountedFor` | `[]Inv` |
| | `SentinelsAreTrue` | `[]SentinelMeansPublished` |
| | `CalmTicksMirror` | `[]OkTickIsMirror` |
| | `TagsAreTrue` | `[]TagNamesThePage` |
| | `ChangesShow` | `[]ChangesAreShown` |
| `KnowledgePlane_proofs` | `RowsAreSound` | `[]Inv` |
| | `NumbersInOrder` | `[]VersionsAreOrdered` |
| | `ListingIsReadable` | `[]ShownCanBeRead` |
| | `JobsAreWhole` | `[]AckedJobMadeAll` |
| | `CapturesKeepTurns` | `[]TurnsAreKept` |
| | `EventsAreAccountedFor` | `[]EventsAreKept` |

**Assumptions.** The constants satisfy the named assumption of their module: they are
disjoint where the code compares them, numbers are naturals, ttls are positive, what is
written in a manifest is finite, packets are sequences of lines,
events are records with a number for each id, time and task, a phase that is no scalar is no phase's
name, no path is called like a kind of evidence (`PathAssumption`). Some theorems assume more:

* `ResumeScan`: all five have `~Handoffs`, the manifest of a tasks file. With
  `--handoffs-dir` the gate is not sound (section 5). `LanesFollowDependencies` has `Lanes`:
  agents that take the serial target follow no dependencies.
* `ReadyIsArchived` has `HonestRecords`: references to required packets in the records that
  others put come from the archive's answers. The server does not look them up, so
  nothing else could be promised.

**The plane.**

1. `TypeInductive`: one step per action, with lemmas on the row operations.
2. `StepsHaveEffects`: whatever a step of the plane does to handlers and agents, to the row
   and its history it does one of `Effect`'s few things (nothing, a grant, an extension, a
   release, a write, a purge). The proof about the row then has as many cases as
   there are effects, not actions.
3. `PlaneInv = TypeOK /\ RowInv /\ CallInv /\ EventsFollowWrites` is inductive.
   `FencingOrder` alone is not: a new write must carry a token at least as large as
   all former ones, so `RowInv` adds that the token in force is the newest grant
   (`TokenIsNewest`), that no write carries a token never granted (`WritesWereGranted`),
   and that the row's version is beyond every version written in its incarnation
   (`RowIsAhead`), which carries `OneWritePerVersion`. `CallInv` says that what a handler
   holds between its steps is still meaningful: its sampled time is not in the future
   and the write it is about to report was applied. For `LeaseNotStolen`, `OwnerInv` adds that whoever
   names a token, a handler, an agent or the row, is the run it was granted to.
4. The action properties and the refinement follow from `PlaneInv` and `Effect`, step by step.

`plane` checks these properties without stale reads, the theorems cover them with stale
reads as well.

**Its readers.** Agents change the rows during a scan, so nothing that was read is still so, and
what a read shows may be older still. In `ResumeScan_proofs`, every image a row has ever had
claims at most what is finished by now (`RowInv`), and since `finished` never goes back
(`Progress`) that stays true of each image a scan has read (`ScanInv`) and of the report made of
them. That is why stale reads do no harm to the gate, the target's completeness and the lanes,
and why only the opposite, that nothing is repeated, is lost. `ReportIsTrue` then follows from
the first row that was not seen complete, which a least-element argument finds. In
`StallWatchdog_proofs`, `LeaseStep` is what a step may do to a lease: nothing, end it, replace
it, or move its expiry by a renewal sent before it ran out. `NoLater` says of an expiry that was
read, from whichever copy, that the lease has no later one now unless such a renewal had been
sent; `ScanInv` says so of each alert, and that each lease that was overdue at the start is
reported, or ahead of the scan, or was touched: no renewal that can still be committed moves it
(`ExpiredAtStart`).

**Tasks.** `TypeInv` says that nothing but what was recorded is anywhere, `RewriteInv` that
the cache is empty between truncation and write unless another process was there,
`PushInv` that what a sync saw no failure for is on the server or still to be pushed.
`EventsAreNotLost` adds that what the rewriting process holds in memory covers the cache it truncated.
`FoldsShowTheLatest` needs of the invariant only that stamps tell events apart. Then an event's
rank by stamp is a bijection from the set onto its positions (`StampOrder`), the fold takes the
events one by one (`FoldStep`), and after each of them the task `Shows` those taken so far.

**Live plan.** The first third is about the document: `Apply` keeps ids apart, keeps every
waiting item's hand up, keeps texts (`Grows`) for every kind of event, and a batch does
so event by event. The invariant has three parts that hold always: each document in
memory and each file that can be read is `DocOk`, the files of finalize are on disk or ahead
of the session file in the request's list of steps (`FilesFirst`), a
request's remaining steps are the end of the list of its kind (`EndOf`). The fourth, `Calm`,
holds in a session without a clash: one request at a time holds the document, the file is torn
exactly while it is written, and every document that may be read now or after the
write (`Current`) holds all that anybody was told or shown (`Agrees`). What a clash does to the
session is left open there; `HandsStayUp` and `FinalizedIsComplete` hold nevertheless.

**Evidence.** Stored rows are fixed points of validation (`NormalTwice`), so that comparing what
is stored with what is sent again is right, and rows never change. `ArchiveInv` counts objects
and events per key. `RefInv` follows references from the archive's answer into the row. A row
beyond the page has the whole page before it (`BeyondThePage`), and a page that was shorter than
its bound is all that was visible (`WindowIsAll`): so `LatestInv` holds when a report is made, and
rows that come later are not in `seen`.

`PassesAreCovered` is about a scanner that works line by line and a definition that quantifies
over lines. `ScanStep` turns the scanner's fold into a state after each line, `Counts` says what
the state after a line of a criterion stands for (`items` is not 0 only if some line before lists
an entry under a `covering_tests` that still goes on, `Credit`), and `EndIsEarned` that a
criterion whose end leaves no error had such a line. The end of the text is an end as well, and a
text without `acceptance_criteria` has no entries, which is an error of its own. This gives
`RegionCovered`, of the region as the scanner understands it (`CleanIsCovered`). `LayoutIsCovered`
then shows that in the prescribed layout that region runs from the header to the end of the
packet (`RegionIs`), that the scanner's criteria are all of the packet's, and that an entry it
accepts is `Evidence`.

**Vault.** A publisher's list and what is in the bucket together make up the bundle (`JobOk`);
what a tick has to delete and to compare is, while it is calm, the difference between mirror and
bucket (`SyncInv`); a cached page was in the bucket under its tag (`IsTrue`). These hold at each
call to S3, hence also when the process dies there. `ChangesShow` is about the three programs
that name pages: redaction keeps what the place of an event depends on (`SafeOk`), redaction
drops a phase only where its page would have been `implementer.md` all the same (`NamesAgree`),
the vault has the pages of each event and no others (`VaultPage`, `VaultNames`), and an order is
given by the set of those an element is not before, so that every event has its place on its
page and every page of a phase its place in the stream (`RankedOk`, `StreamLists`).

**Knowledge.** `RowsInv` and `BodyInv` give every row whose request brought a text a body at its
place before the row is there; `JobInv` says that what a job has not to make any more is made,
`HookOk` where a turn is at each step of the hook, `EndedInv` what is true when it ends. The DoR
queue is a matter of counting: `Balanced(e)` says that event `e` occurs in what was shipped and
in the queue together as often as it was logged, plus once for each row of it that a running
flush has shipped or queued again and has still in the file; if a process died or an answer was
lost it may be more often, never less.

**Only model-checked.**

* `CallsReturn` and `MirrorCatchesUp`: liveness under fairness and `ENABLED` are out of the
  prover's reach.

Every safety property of the passing runs is stated by a theorem, with the assumptions
given above.

Where a proof needs induction over a number or a sequence, it takes the least
counterexample instead (`LeastNatural`, from `NatLessThanWellFounded` and `WFMin`).

## 5. Where code and documents disagree

| Run | Document | Code |
| --- | --- | --- |
| `vault_cutoff` | `canon synth publish --cutoff`: "only events strictly after are included" (`src/canon_systems/synth_cli.py:129`), "Publish a deterministic Obsidian vault bundle to S3" (`README.md:300`) | the source keeps events after the cutoff, the generator those up to the same cutoff: no event passes both, and every bundle is README.md and the seeds |
| `evidence_window` | readiness warns that "newer rows may exist outside the window" (`readiness.py:220`) | the server filters by handoff after the limit, so a full window may come back short, and the older row is called ready without a warning |

The models reach these as well; no run is spent on them:

* The TTL on `lease.expires_at` "auto-expires stale leases" (`docs/MEMORY-PLATFORM-BACKLOG.md:86`):
  the lease is part of the checkpoint item, so the TTL deletes the checkpoint with it
  (`Purge`). Of two overlapping acquires by one run the later commit may carry the earlier time and
  moves the expiry back, against "bumped `expires_at`" (`backend/state-api/README.md:127`).
* `canon resume` prints "the first incomplete (task_id, phase) pair" (`README.md:298`): the GET
  behind it is eventually consistent, so that it may name a phase that was completed before the
  scan began. The work is then done twice; gate, order and lanes are not harmed (section 4).
* A null target that is not available means "all tasks fully completed"
  (`docs/runbooks/RESUME.md:79`): a degraded task is skipped in both. With `--handoffs-dir`
  the gate does not see a task that nobody opened (`Handoffs = TRUE`), against
  `.cursor/agents/release-orchestrator.md:302`.
* An unpushed task event "reconciles on the next reachable read/write" (`README.md:332`):
  `canon task sync` alone pushes old events. The comment of `canon task close --comment`
  (`.cursor/rules/canon-tasks.mdc:40`) is dropped by the fold.
* `qa-validate` is to refuse criteria without evidence (`--require-pass`): a header such as
  `GATE_RESULTS:` or `# GATE_RESULTS` opens the packet (`qa_validate.py:17`) but not the search
  for criteria (`:274`), whose check is then skipped (`:349-354`), and criteria at another
  indentation than the first block's are not seen. `PassMeansCovered` is about the layout of
  `.cursor/agents/qa-gate.md:77`.
* The readiness warning about a full window also stays out when the one page of the query was
  cut at 1 MB (`storage.py:68-74` does not follow `LastEvaluatedKey`), with a single handoff
  too: the client counts the rows. `NewerIsOutOfReach` says which rows can be passed over.
* Every material item is read back before it is confirmed (`docs/LIVE-MEETING-BOT.md:16-17`): two
  overlapping proposals get one id, and the answer to the lost one confirms the other;
  `PlanWasReadBack` therefore excludes sessions with a clash.
* Artifact versions are "immutable" (docstrings of `api/routers/artifacts.py:120` and `:140`): a
  create or a version that is refused, and a retry, have replaced the body of the existing
  version by then.
* The pending prompt is one file per repository: with two conversations a capture can pair
  one's prompt with the other's answer, and remove a prompt that came since; a payload
  with "text" makes the answer both halves of the turn; the prompt is removed after a
  failed capture too (`docs/CANON-CREDENTIAL-AND-OFFLINE-PLAYBOOK.md:58` says after a successful one).
* What the worker captures is visible to a project but has no groups, so that `can_access`
  lets nobody view it (`knowledge_policy/models.py:98`).
* The default URLs of `dor_log` cannot succeed: the agent-event endpoint does not exist and the
  artifact payload has no `body_ref` (`dor_log.py:63-135`). The model has the server that
  `CANON_DOR_LOG_URL` names.

Behaviour that no document denies:

* a handler that stops between the conditional update and `emit` leaves a write that no
  event reports; a stale read before the update can link an event to an older parent;
* a run that repeats an acquire it gave up on can be told `lease_held` by itself, because
  the re-read after a failed claim does not compare owners;
* a phase reported with a status other than `completed` (the backlog also names `pass`)
  counts as unfinished; one complete workstream releases the dependents of its task; an
  entry whose agent crashed stays active and blocks its dependents until an operator acts;
* a sync that rewrites the company cache loses what a hook appended meanwhile, unless it
  was pushed (`mixed` in `NothingLost`); a failing `get_object` makes the put that
  follows replace the object with one machine's events;
* a hook that saw a task open sets it in progress although it was closed since; two
  concurrent `assign` commands keep one list; a creation stamped by a slow clock after
  an update resets the status to open;
* `start` replaces an existing live-plan session; a caption is marked as sent before the
  request that carries it succeeded; concurrent finalizes lose an index entry;
* a release that is killed between the publish and its sentinel is published again; the
  daemon deletes files of the user in its mirror, mixes two publications until a quiet
  tick, and ends for good after 1024 failures in a row; backlinks in the render cache are
  those of the time of rendering (and are not modelled);
* an artifact request without `body_text` (it is optional,
  `backend/knowledge-api/README.md:46-47`) commits and lists a version whose body endpoint
  fails, until somebody puts a text at the place the client named; of two overlapping version
  requests both may get one number, and the later commit is current;
* two captures of one actor in one second share an artifact id, and one turn is lost; hooks that
  rewrite the failure log, or a flush and an append to the DoR queue, at the same time may lose
  a line;
* a renewal that is committed after its lease expired revives it, if nobody has claimed it, also
  after the watchdog reported it;
* a page that is removed while the web server collects the links of the vault ends the request
  in an unhandled error (`synthesis_web/main.py:56-64`); a page rewritten between its HEAD and
  its GET is cached under the old tag;
* a ledger row without `updated_at` sorts before every row with one; a reference whose status
  passes hides an outcome that does not.

## 6. What the models leave out

* One row in `CheckpointPlane`: keys share nothing. One clock for all handlers of the
  service; skew between containers is not modelled there (machines' skew is, in
  `TaskPlane`).
* Authentication, validation of request bodies (a 4xx before any state is read), the
  reporting of `ClientError`s other than failed conditions (a handler crash in the model).
* `PlanRows` keeps phase and status of a checkpoint, and one ttl, and leaves out that a run may
  acquire its own live lease again. The orchestrator and agents are external: they act on
  reports as the agent documents say, or crash.
* `TaskPlane` follows one task and its status and comments. Titles, assignees, labels,
  priorities, `--scan-localwork`, the active-task file and the memory mirror are left
  out; the create command's validation as well.
* `LivePlan` leaves out the calls to Google and to the speech and answering services, and what
  the Markdown files look like. One session: sessions share the index only, whose rewrite is
  modelled.
* `EvidencePlane` has one scope; dry runs, and records that were edited by hand, are left out.
* `VaultPlane`: the installation of the daemon as a service, `--dry-run` of the daemon,
  the text of pages and HTML, ETag syntax. Page names that differ only in what a short
  hash drops are distinct.
* `KnowledgePlane`: the database serializes commits and its reads see committed rows;
  embedding, search and projections of memory are an abstract text. The runs of the
  knowledge API (`services/runs.py`) are not modelled.

## 7. Plan

Done, in this order: the plane (the only coordination between agents), its proofs, the
readers of the plane, the task plane, the live plan, the evidence of a task, the vault,
the knowledge plane. The number of runs is kept to twelve, one per question: further
components share a run with those they interact with.

The readers, the task plane, the live plan, the evidence, the vault and the knowledge
plane have their proofs as well. Next are the knowledge API's runs: one claimer per claim,
stage and status that agree, terminal runs, and a lifecycle automaton that the
compare-and-set half implements.
