------------------------------ MODULE VaultPlane ------------------------------
(***************************************************************************)
(* From a release to the mirror in a user's repository.  canon release     *)
(* publish-on-pass runs canon synth publish, with retries, and leaves a    *)
(* sentinel; synth publish writes the pages of the bundle to the bucket,   *)
(* one by one, unless they are there already; canon vault sync lists the   *)
(* bucket, deletes what is not in it and pulls what differs, one file at a *)
(* time; synthesis-web renders single pages and caches them.  Nothing      *)
(* locks the bucket: all of them see each other's half-done work.          *)
(***************************************************************************)
EXTENDS VaultPages

CONSTANTS
    Releaser,   \* processes that run publish-on-pass
    Release,    \* release ids, all of plan Plan
    Plan,
    Elsewhere,  \* pages that somebody else puts into the bucket, or removes
    Retries,    \* CANON_PUBLISH_RETRIES
    SetCutoff,  \* CANON_PUBLISH_CUTOFF, where it is set; otherwise the clock is read
    Event,      \* the events there may be, in order: the file is empty or holds them
    Note,       \* a file that only the user of the mirror has
    MaxExp,     \* the largest k such that 2^k is a Python float
    CacheSize,  \* pages in the cache of synthesis-web
    MaxRuns,    \* bound: invocations of publish-on-pass
    MaxTrouble  \* bound: failed calls, kills, edits of others, requests to synthesis-web

ASSUME VaultAssumption ==
    /\ Retries \in Nat \ {0} /\ MaxExp \in Nat /\ CacheSize \in Nat
    /\ Elsewhere \cap (Seeds \cup {Readme}) \subseteq Seeds
    /\ IsFiniteSet(SeedNames) /\ Event \in Seq(CanonicalEvent)

VARIABLES
    log,       \* the events file, exported before it is published
    bucket,    \* bucket[k]: the object of page k, for the keys there are
    job,       \* job[p]: the invocation of publish-on-pass p is in
    sentinel,  \* sentinel[r]: the pages published for r, if its file exists
    local,     \* local[k]: the files of the mirror
    sync,      \* the daemon canon vault sync
    web,       \* a request to synthesis-web
    cache,     \* its render cache, the least recently used entry first
    answer,    \* the last page it answered with
    used,      \* how much of each bound is used up
    removed    \* history: pages somebody else has removed

vars == <<log, bucket, job, sentinel, local, sync, web, cache, answer,
          used, removed>>

Now == Cardinality(log)
Spend(what) == used' = [used EXCEPT ![what] = @ + 1]
Put(f, k, page) == [x \in DOMAIN f \cup {k} |-> IF x = k THEN page ELSE f[x]]
Drop(f, k) == [x \in DOMAIN f \ {k} |-> f[x]]
Torn == Blank("torn", 0)

\* Names in the order of Python's sorted(): .obsidian/, README.md, the rest.
Rank(k) == CASE k[1] = "seed" -> 0 [] k = Readme -> 1 [] OTHER -> 2
Sorted(keys) ==
    LET of(rank) == SetToSeq({k \in keys : Rank(k) = rank})
    IN  (of(0) \o of(1)) \o of(2)

NoJob == [at |-> "idle", r |-> "", dry |-> FALSE, cutoff |-> 0, bundle |-> <<>>,
          todo |-> <<>>, tries |-> 0]
NoSync == [at |-> "idle", gone |-> {}, todo |-> <<>>, page |-> <<>>,
           fail |-> 0, up |-> TRUE, calm |-> TRUE]
NoWeb == [at |-> "idle", key |-> Readme, tag |-> <<>>, moved |-> FALSE, page |-> <<>>,
          todo |-> <<>>]

Logs == {{[Event[i] EXCEPT !.id = i, !.ts = i] : i \in 1 .. n} : n \in {0, Len(Event)}}

Init ==
    /\ log \in Logs
    /\ bucket = <<>>
    /\ job = [p \in Releaser |-> NoJob]
    /\ sentinel = [r \in Release |-> {}]
    /\ local = <<>> /\ sync = NoSync
    /\ web = NoWeb /\ cache = <<>> /\ answer = <<>>
    /\ used = [b \in {"runs", "trouble"} |-> 0]
    /\ removed = {}

----------------------------------------------------------------------------
(* canon release publish-on-pass, and the canon synth publish it runs.     *)

\* A release that did not pass every gate, or has its sentinel, is skipped.
Begin(p, r, dry, cutoff) ==
    /\ job[p].at = "idle" /\ used["runs"] < MaxRuns
    /\ sentinel[r] = {}
    /\ job' = [job EXCEPT ![p] = [NoJob EXCEPT !.at = "load", !.r = r, !.dry = dry,
                                               !.cutoff = cutoff]]
    /\ Spend("runs")
    /\ UNCHANGED <<log, bucket, sentinel, local, sync, web, cache, answer, removed>>

\* One attempt: the subprocess reads the events file and renders the bundle.
Load(p) ==
    /\ job[p].at = "load"
    /\ LET bundle == Bundle(log, Plan, job[p].cutoff)
       IN  job' = [job EXCEPT ![p] =
                      [@ EXCEPT !.bundle = bundle,
                                !.at = "page",
                                !.todo = IF job[p].dry THEN <<>> ELSE Sorted(DOMAIN bundle)]]
    /\ UNCHANGED <<log, bucket, sentinel, local, sync, web, cache, answer, used, removed>>

\* HEAD: a seed that exists is kept, another page is kept if its hash is the same.
Skips(k, page) == k \in DOMAIN bucket /\ (k \in Seeds \/ bucket[k] = page)

PageDone(j) == [j EXCEPT !.at = "page", !.todo = Tail(@)]

HeadPage(p) ==
    /\ job[p].at = "page" /\ job[p].todo # <<>>
    /\ LET k == Head(job[p].todo)
       IN  job' = [job EXCEPT ![p] = IF Skips(k, job[p].bundle[k])
                                     THEN PageDone(@)
                                     ELSE [@ EXCEPT !.at = "put"]]
    /\ UNCHANGED <<log, bucket, sentinel, local, sync, web, cache, answer, used, removed>>

\* Somebody changed the object of k under the daemon, or under a web request that has its
\* tag and not its page.
Disturb(k) ==
    /\ sync' = [sync EXCEPT !.calm = FALSE]
    /\ web' = [web EXCEPT !.moved = @ \/ (web.at = "get" /\ web.key = k)]

PutPage(p) ==
    /\ job[p].at = "put"
    /\ LET k == Head(job[p].todo)
       IN  /\ bucket' = Put(bucket, k, job[p].bundle[k])
           /\ job' = [job EXCEPT ![p] = PageDone(@)]
           /\ Disturb(k)
    /\ UNCHANGED <<log, sentinel, local, cache, answer, used, removed>>

\* Mutant: the last attempt that failed counts as published.
AfterFailureGivesUp(j) ==
    IF j.tries + 1 >= Retries THEN [j EXCEPT !.at = "page", !.todo = <<>>]
    ELSE [j EXCEPT !.at = "load", !.tries = @ + 1]

\* The attempt is repeated after a pause, up to Retries times; then the failure is
\* recorded in the event log and publish-on-pass ends with an error.
AfterFailure(j) ==
    IF j.tries + 1 >= Retries THEN NoJob ELSE [j EXCEPT !.at = "load", !.tries = @ + 1]

\* The events file cannot be read, S3 answers with an error, or the process dies.
Fail(p) ==
    /\ job[p].at \in {"load", "page", "put"} /\ used["trouble"] < MaxTrouble
    /\ job' = [job EXCEPT ![p] = AfterFailure(@)]
    /\ Spend("trouble")
    /\ UNCHANGED <<log, bucket, sentinel, local, sync, web, cache, answer, removed>>

\* After the last page the event synth_publish goes to the event log and the
\* sentinel is written; the notifier is told whatever comes of it.
WriteSentinel(p) ==
    /\ job[p].at = "page" /\ job[p].todo = <<>>
    /\ sentinel' = IF job[p].dry THEN sentinel
                   ELSE [sentinel EXCEPT ![job[p].r] = DOMAIN job[p].bundle]
    /\ job' = [job EXCEPT ![p] = NoJob]
    /\ UNCHANGED <<log, bucket, local, sync, web, cache, answer, used, removed>>

KillJob(p) ==
    /\ job[p].at # "idle" /\ used["trouble"] < MaxTrouble
    /\ job' = [job EXCEPT ![p] = NoJob]
    /\ Spend("trouble")
    /\ UNCHANGED <<log, bucket, sentinel, local, sync, web, cache, answer, removed>>

----------------------------------------------------------------------------
(* canon vault sync.                                                       *)

\* A tick lists the bucket, then the files of the mirror.
List ==
    /\ sync.at = "idle" /\ sync.up
    /\ sync' = [sync EXCEPT !.at = "tick",
                            !.gone = DOMAIN local \ DOMAIN bucket,
                            !.todo = Sorted(DOMAIN bucket), !.calm = TRUE]
    /\ UNCHANGED <<log, bucket, job, sentinel, local, web, cache, answer, used, removed>>

Delete ==
    /\ sync.at = "tick" /\ sync.gone # {}
    /\ LET k == CHOOSE x \in sync.gone : TRUE
       IN  /\ local' = Drop(local, k)
           /\ sync' = [sync EXCEPT !.gone = @ \ {k}]
    /\ UNCHANGED <<log, bucket, job, sentinel, web, cache, answer, used, removed>>

\* Mutant: a file that is there is taken to be current.
SameFileByName(k) == k \in DOMAIN local

\* An object that has gone since the listing has no hash, and is pulled.
SameFile(k) == k \in DOMAIN local /\ k \in DOMAIN bucket /\ local[k] = bucket[k]

Compare ==
    /\ sync.at = "tick" /\ sync.gone = {} /\ sync.todo # <<>>
    /\ sync' = IF SameFile(Head(sync.todo)) THEN [sync EXCEPT !.todo = Tail(@)]
               ELSE [sync EXCEPT !.at = "read"]
    /\ UNCHANGED <<log, bucket, job, sentinel, local, web, cache, answer, used, removed>>

\* Mutant: the first error ends the daemon.
TickFailedForGood(s) == [NoSync EXCEPT !.fail = s.fail + 1, !.up = FALSE]

\* The seconds to wait are min(2^(fail - 1), 60): beyond MaxExp the power does not
\* fit in a float, the daemon ends with an OverflowError.
TickFailed(s) ==
    [NoSync EXCEPT !.fail = s.fail + 1, !.up = s.fail <= MaxExp]

Read ==
    /\ sync.at = "read"
    /\ LET k == Head(sync.todo)
       IN  sync' = IF k \in DOMAIN bucket
                   THEN [sync EXCEPT !.at = "write", !.page = <<bucket[k]>>]
                   ELSE TickFailed(sync)
    /\ UNCHANGED <<log, bucket, job, sentinel, local, web, cache, answer, used, removed>>

Write ==
    /\ sync.at = "write"
    /\ local' = Put(local, Head(sync.todo), sync.page[1])
    /\ sync' = [sync EXCEPT !.at = "tick", !.todo = Tail(@), !.page = <<>>]
    /\ UNCHANGED <<log, bucket, job, sentinel, web, cache, answer, used, removed>>

\* The event vault_sync is emitted, and the daemon sleeps for its interval.
TickDone ==
    /\ sync.at = "tick" /\ sync.gone = {} /\ sync.todo = <<>>
    /\ sync' = NoSync
    /\ UNCHANGED <<log, bucket, job, sentinel, local, web, cache, answer, used, removed>>

\* The network or S3 fails a call; the rest of the tick is left out.
SyncFault ==
    /\ sync.up /\ sync.at \in {"idle", "tick", "read"} /\ used["trouble"] < MaxTrouble
    /\ sync' = TickFailed(sync)
    /\ Spend("trouble")
    /\ UNCHANGED <<log, bucket, job, sentinel, local, web, cache, answer, removed>>

\* launchd and systemd start the daemon again.  A file it was writing is cut off.
KillSync ==
    /\ sync.up /\ sync.at # "idle" /\ used["trouble"] < MaxTrouble
    /\ local' \in IF sync.at = "write" THEN {local, Put(local, Head(sync.todo), Torn)}
                  ELSE {local}
    /\ sync' = NoSync
    /\ Spend("trouble")
    /\ UNCHANGED <<log, bucket, job, sentinel, web, cache, answer, removed>>

Tick == List \/ Delete \/ Compare \/ Read \/ Write \/ TickDone

----------------------------------------------------------------------------
(* synthesis-web: GET of a page, with or without If-None-Match.  The tag   *)
(* is read first; what is not in the cache under it is read, and rendered  *)
(* with the links of the whole vault, every page of which is read in turn. *)

\* Mutant: the cache goes by the name of the page.
HitsByName(k, tag) == {i \in DOMAIN cache : cache[i].key = k}

Hits(k, tag) == {i \in DOMAIN cache : cache[i].key = k /\ cache[i].tag = tag}

Without(i) == SubSeq(cache, 1, i - 1) \o SubSeq(cache, i + 1, Len(cache))

Ask(k, matches) ==
    /\ web.at = "idle" /\ used["trouble"] < MaxTrouble
    /\ Spend("trouble")
    /\ IF k \notin DOMAIN bucket \/ matches
       THEN UNCHANGED <<web, cache, answer>>
       ELSE LET hits == Hits(k, bucket[k])
            IN  IF hits = {}
                THEN /\ web' = [NoWeb EXCEPT !.at = "get", !.key = k, !.tag = bucket[k]]
                     /\ UNCHANGED <<cache, answer>>
                ELSE LET i == CHOOSE j \in hits : TRUE
                     IN  /\ cache' = Append(Without(i), cache[i])
                         /\ answer' = <<[cache[i] EXCEPT !.tag = bucket[k]]>>
                         /\ UNCHANGED web
    /\ UNCHANGED <<log, bucket, job, sentinel, local, sync, removed>>

GetPage ==
    /\ web.at = "get"
    /\ web' = IF web.key \in DOMAIN bucket
              THEN [web EXCEPT !.at = "list", !.page = <<bucket[web.key]>>]
              ELSE NoWeb
    /\ UNCHANGED <<log, bucket, job, sentinel, local, sync, cache, answer, used, removed>>

ListPages ==
    /\ web.at = "list"
    /\ web' = [web EXCEPT !.at = "scan", !.todo = Sorted(DOMAIN bucket)]
    /\ UNCHANGED <<log, bucket, job, sentinel, local, sync, cache, answer, used, removed>>

\* A page that has gone since the listing is an error that nobody handles.
ScanPage ==
    /\ web.at = "scan" /\ web.todo # <<>>
    /\ web' = IF Head(web.todo) \in DOMAIN bucket THEN [web EXCEPT !.todo = Tail(@)] ELSE NoWeb
    /\ UNCHANGED <<log, bucket, job, sentinel, local, sync, cache, answer, used, removed>>

Render ==
    /\ web.at = "scan" /\ web.todo = <<>>
    /\ web' = NoWeb
    /\ LET entry == [key |-> web.key, tag |-> web.tag, moved |-> web.moved,
                     page |-> web.page[1]]
           grown == Append(cache, entry)
       IN  /\ cache' = IF Len(grown) > CacheSize THEN Tail(grown) ELSE grown
           /\ answer' = <<entry>>
    /\ UNCHANGED <<log, bucket, job, sentinel, local, sync, used, removed>>

Get == GetPage \/ ListPages \/ ScanPage \/ Render

----------------------------------------------------------------------------
(* The surroundings.                                                       *)

PutElsewhere(k) ==
    /\ used["trouble"] < MaxTrouble
    /\ bucket' = Put(bucket, k, Blank("someone", 0))
    /\ Disturb(k) /\ Spend("trouble")
    /\ UNCHANGED <<log, job, sentinel, local, cache, answer, removed>>

RemoveElsewhere(k) ==
    /\ used["trouble"] < MaxTrouble /\ k \in DOMAIN bucket
    /\ bucket' = Drop(bucket, k)
    /\ removed' = removed \cup {k}
    /\ Disturb(k) /\ Spend("trouble")
    /\ UNCHANGED <<log, job, sentinel, local, cache, answer>>

\* Obsidian rewrites its settings; the user writes a note of their own.
EditLocal(k) ==
    /\ used["trouble"] < MaxTrouble
    /\ local' = Put(local, k, Blank("user", 0))
    /\ sync' = [sync EXCEPT !.calm = FALSE]
    /\ Spend("trouble")
    /\ UNCHANGED <<log, bucket, job, sentinel, web, cache, answer, removed>>

ReleaseStep(p) ==
    \/ \E r \in Release, dry \in BOOLEAN, cutoff \in {Now, SetCutoff} : Begin(p, r, dry, cutoff)
    \/ Load(p) \/ HeadPage(p) \/ PutPage(p) \/ Fail(p) \/ WriteSentinel(p) \/ KillJob(p)

Next ==
    \/ \E p \in Releaser : ReleaseStep(p)
    \/ Tick \/ SyncFault \/ KillSync
    \/ \E k \in Elsewhere \cup {Readme}, matches \in BOOLEAN : Ask(k, matches)
    \/ Get
    \/ \E k \in Elsewhere : PutElsewhere(k) \/ RemoveElsewhere(k)
    \/ \E k \in Seeds \cup {Note} : EditLocal(k)

\* The service manager keeps the daemon running and it repeats its ticks; nobody
\* promises that a release is published or a page asked for.
Spec == Init /\ [][Next]_vars /\ WF_vars(Tick)

----------------------------------------------------------------------------
(* Properties.                                                             *)

\* A tick of canon vault sync that ends without error, while nobody touched the
\* bucket or the mirror, leaves a mirror that is equal to the bucket, whatever
\* faults, kills and torn files there were before (vault_sync.py:_sync_once).
OkTickIsMirror ==
    sync.at = "tick" /\ sync.gone = {} /\ sync.todo = <<>> /\ sync.calm => local = bucket

\* A release has its sentinel only when every page of its bundle is in the bucket,
\* or somebody has removed it since: no retry, fault or kill skips a page
\* (release_publish.py: the sentinel follows the publish that succeeded).
SentinelMeansPublished ==
    \A r \in Release : sentinel[r] \subseteq DOMAIN bucket \cup removed

\* What the web answers under a tag is the page with that tag, unless the page was
\* rewritten between the HEAD and the GET of the request that rendered it
\* (synthesis_web/main.py:173, :185).
TagNamesThePage ==
    answer # <<>> => answer[1].page = answer[1].tag \/ answer[1].moved

\* A change of a plan is shown when it names a page of the vault that the service
\* generates, that page cites the event or a later one that replaced it, and canon
\* synth show, given that vault, streams the page if it is a checkpoint's.
IsShown(c, plan, evs, vault) ==
    LET Cites(id) == \E i \in DOMAIN vault[c.key].events : vault[c.key].events[i] = id
        shown     == Show(vault, plan, "any", 0)
    IN  /\ c.key \in DOMAIN vault
        /\ \/ Cites(c.id)
           \/ IsOverwritten(c.key) /\ \E e \in evs : e.id > c.id /\ Cites(e.id)
        /\ c.key[1] = "phase" => /\ shown.exit = "found"
                                 /\ \E i \in DOMAIN shown.slugs : shown.slugs[i] = c.key
        /\ ServicePage(evs, plan, "any") # <<>>

\* The logs of which every change is shown, whichever of their events there are and
\* whatever the cutoff.
ShownLogs ==
    {evs \in Logs : \A part \in SUBSET evs : \A since \in 0 .. Cardinality(evs) :
        LET vault == ServiceVault(part, "any", "any", since)
        IN  \A c \in Changes(part, since) :
                \E e \in part : e.id = c.id /\ IsShown(c, e.plan, part, vault)}

\* Every change that the synthesis service announces is shown, whatever the phase of
\* its checkpoint is or is called and whatever replaced it: /changes names its page from
\* the event in the log (generator.py:81), the generator from what redaction left of it
\* (:287), and canon synth show looks for six names (synth_cli.py:163).
ChangesAreShown == log \in ShownLogs

\* Once the bucket and the mirror are left alone, the mirror becomes and stays
\* equal to the bucket (edits and faults are bounded, kills are followed by a restart).
MirrorCatchesUp == <>[](local = bucket)

\* The help of canon synth publish says that the events strictly after the cutoff
\* are included (synth_cli.py:129): the page of each is in the bundle.
EventsAfterCutoffAreIncluded ==
    \A p \in Releaser : job[p].at = "page" /\ job[p].todo = <<>> =>
        \A e \in IterEvents(log, Plan, "any", job[p].cutoff) :
            PrimaryKey(e) \in DOMAIN job[p].bundle
=============================================================================
