-------------------------- MODULE VaultPlane_proofs --------------------------
(***************************************************************************)
(* Proofs about VaultPlane, for any publishers, releases, retries, events, *)
(* seeds and edits of others.  What is on a page plays no part until the   *)
(* last section: the order in which pages are written and mirrored does.   *)
(***************************************************************************)
EXTENDS VaultPlane, FiniteSetTheorems, TLAPS

Lists(todo, k) == \E i \in 1 .. Len(todo) : todo[i] = k

LEMMA ImageIsFinite ==
    ASSUME NEW f, IsFiniteSet(DOMAIN f)
    PROVE  IsFiniteSet({f[x] : x \in DOMAIN f})
<1> DEFINE T == {f[x] : x \in DOMAIN f}
           g == [x \in DOMAIN f |-> f[x]]
<1>1. g \in Surjection(DOMAIN f, T)
  BY DEF Surjection
<1> QED BY <1>1, FS_Surjection

LEMMA SetToSeqLists ==
    ASSUME NEW S, IsFiniteSet(S)
    PROVE  /\ SetToSeq(S) \in Seq(S)
           /\ \A k \in S : Lists(SetToSeq(S), k)
<1> DEFINE n == Cardinality(S)
           f == SetToSeq(S)
<1>1. n \in Nat /\ ExistsBijection(1 .. n, S)
  BY FS_CardinalityType
<1>2. \E g \in [1 .. n -> S] : IsInjective(g)
  BY <1>1 DEF ExistsBijection, Bijection, Injection, IsInjective
<1>3. f \in [1 .. n -> S] /\ IsInjective(f)
  BY <1>2 DEF SetToSeq
<1> HIDE DEF f
<1>4. f \in Injection(1 .. n, S)
  BY <1>3 DEF Injection, IsInjective
<1>5. Cardinality(1 .. n) = n
  BY <1>1, FS_Interval
<1>6. f \in Surjection(1 .. n, S)
  BY <1>4, <1>5, FS_Injection
<1>7. \A k \in S : \E i \in 1 .. n : f[i] = k
  BY <1>6 DEF Surjection
<1>8. f \in Seq(S) /\ Len(f) = n
  BY <1>1, <1>3
<1> QED BY <1>7, <1>8 DEF Lists, f

LEMMA ConcatLists ==
    ASSUME NEW S, NEW s \in Seq(S), NEW t \in Seq(S), NEW k, Lists(s, k) \/ Lists(t, k)
    PROVE  Lists(s \o t, k)
<1>1. CASE Lists(s, k)
  BY <1>1 DEF Lists
<1>2. CASE Lists(t, k)
  <2>1. PICK i \in 1 .. Len(t) : t[i] = k
    BY <1>2 DEF Lists
  <2>2. Len(s) + i \in 1 .. Len(s \o t) /\ (s \o t)[Len(s) + i] = k
    BY <2>1
  <2> QED BY <2>2 DEF Lists
<1> QED BY <1>1, <1>2

\* A list of work holds every key, and nothing else.
LEMMA SortedLists ==
    ASSUME NEW S, IsFiniteSet(S)
    PROVE  /\ Sorted(S) \in Seq(S)
           /\ \A k \in S : Lists(Sorted(S), k)
<1> DEFINE of(rank) == {k \in S : Rank(k) = rank}
           s(rank) == SetToSeq(of(rank))
<1>1. ASSUME NEW rank
      PROVE  s(rank) \in Seq(S) /\ \A k \in of(rank) : Lists(s(rank), k)
  <2>1. IsFiniteSet(of(rank))
    BY FS_Subset
  <2>2. s(rank) \in Seq(of(rank)) /\ \A k \in of(rank) : Lists(s(rank), k)
    BY <2>1, SetToSeqLists
  <2> QED BY <2>2
<1>2. \A k \in S : Rank(k) \in {0, 1, 2}
  BY DEF Rank
<1>3. \A k \in S : Lists(s(0), k) \/ Lists(s(1), k) \/ Lists(s(2), k)
  BY <1>1, <1>2
<1> HIDE DEF s
<1>4. s(0) \in Seq(S) /\ s(1) \in Seq(S) /\ s(2) \in Seq(S)
  BY <1>1
<1>5. s(0) \o s(1) \in Seq(S)
  BY <1>4
<1>6. \A k \in S : Lists((s(0) \o s(1)) \o s(2), k)
  BY <1>3, <1>4, <1>5, ConcatLists
<1>7. (s(0) \o s(1)) \o s(2) \in Seq(S)
  BY <1>4, <1>5
<1> QED BY <1>6, <1>7 DEF Sorted, s

\* Once the head of a list is dealt with, the tail lists the rest.
LEMMA TailLists ==
    ASSUME NEW S, NEW todo \in Seq(S), todo # << >>
    PROVE  /\ Head(todo) \in S /\ Tail(todo) \in Seq(S)
           /\ \A k : Lists(todo, k) => k = Head(todo) \/ Lists(Tail(todo), k)
<1>1. ASSUME NEW k, Lists(todo, k), k # Head(todo)
      PROVE  Lists(Tail(todo), k)
  <2>1. PICK i \in 1 .. Len(todo) : todo[i] = k
    BY <1>1 DEF Lists
  <2>2. i # 1
    BY <1>1, <2>1
  <2>3. i - 1 \in 1 .. Len(Tail(todo)) /\ Tail(todo)[i - 1] = k
    BY <2>1, <2>2
  <2> QED BY <2>3 DEF Lists
<1> QED BY <1>1

LEMMA PagesAreFinite ==
    ASSUME NEW s
    PROVE  IsFiniteSet(PagesOf(s))
<1>1. ASSUME NEW a, NEW b PROVE IsFiniteSet({a, b})
  <2>1. IsFiniteSet({a})
    BY FS_Singleton
  <2>2. IsFiniteSet({a} \cup {b})
    BY <2>1, FS_AddElement
  <2> QED BY <2>2, {a, b} = {a} \cup {b}
<1>2. IsFiniteSet({<<"by", "type">>, <<"by", "plan">>} \cup {<<"by", "agent">>})
  BY <1>1, FS_AddElement
<1>3. IsFiniteSet(IndexPages)
  BY <1>2, IndexPages = {<<"by", "type">>, <<"by", "plan">>} \cup {<<"by", "agent">>}
     DEF IndexPages
<1> DEFINE a == <<"attachment", s.id>>
           b == GeneratedKey(s)
           c == <<"run", s.agent, s.run>>
           d == <<"phase", s.plan, s.task, "index">>
           e == <<"plan", s.plan>>
<1>4. PagesOf(s) = ((({a, b} \cup {c, d}) \cup {e}) \cup IndexPages)
  BY DEF PagesOf
<1> HIDE DEF a, b, c, d, e
<1>5. IsFiniteSet({a, b} \cup {c, d})
  BY <1>1, FS_Union
<1>6. IsFiniteSet(({a, b} \cup {c, d}) \cup {e})
  BY <1>5, FS_AddElement
<1> QED BY <1>3, <1>4, <1>6, FS_Union

\* The vault of finitely many events has finitely many pages.
LEMMA VaultIsFinite ==
    ASSUME NEW evs, IsFiniteSet(evs), NEW cutoff
    PROVE  IsFiniteSet(DOMAIN GenerateVault(evs, cutoff))
<1> DEFINE new == UpToCutoff(evs, cutoff)
           f == [e \in new |-> Safe(e)]
           safes == {Safe(e) : e \in new}
           g == [s \in safes |-> PagesOf(s)]
           pages == UNION {PagesOf(s) : s \in safes}
<1>1. new \subseteq evs
  BY DEF UpToCutoff
<1>2. IsFiniteSet(new)
  BY <1>1, FS_Subset
<1>3. IsFiniteSet(safes)
  <2>1. DOMAIN f = new /\ safes = {f[x] : x \in DOMAIN f}
    OBVIOUS
  <2> HIDE DEF f, safes, new
  <2> QED BY <2>1, <1>2, ImageIsFinite
<1> HIDE DEF safes
<1>4. IsFiniteSet({PagesOf(s) : s \in safes})
  <2>1. DOMAIN g = safes /\ {PagesOf(s) : s \in safes} = {g[x] : x \in DOMAIN g}
    OBVIOUS
  <2> HIDE DEF g
  <2> QED BY <2>1, <1>3, ImageIsFinite
<1>5. IsFiniteSet(pages)
  BY <1>4, FS_UNION, PagesAreFinite
<1>6. IsFiniteSet(Seeds)
  <2> DEFINE h == [n \in SeedNames |-> <<"seed", n>>]
  <2>1. DOMAIN h = SeedNames /\ Seeds = {h[x] : x \in DOMAIN h}
    BY DEF Seeds
  <2> HIDE DEF h
  <2> QED BY <2>1, VaultAssumption, ImageIsFinite
<1>7. IsFiniteSet({Readme} \cup Seeds)
  BY <1>6, FS_AddElement, {Readme} \cup Seeds = Seeds \cup {Readme}
<1>8. DOMAIN GenerateVault(evs, cutoff) = ({Readme} \cup Seeds) \cup pages
  BY DEF GenerateVault, safes
<1> HIDE DEF pages
<1> QED BY <1>5, <1>7, <1>8, FS_Union

LEMMA BundleIsFinite ==
    ASSUME NEW evs, IsFiniteSet(evs), NEW cutoff
    PROVE  IsFiniteSet(DOMAIN Bundle(evs, Plan, cutoff))
<1>1. IsFiniteSet(IterEvents(evs, Plan, "any", cutoff))
  BY FS_Subset DEF IterEvents
<1> QED BY <1>1, VaultIsFinite DEF Bundle

----------------------------------------------------------------------------
(* The invariant.                                                          *)

IsMap(f) == f = [k \in DOMAIN f |-> f[k]]

JobFields == {"at", "r", "dry", "cutoff", "bundle", "todo", "tries"}
SyncFields == {"at", "gone", "todo", "page", "fail", "up", "calm"}
WebFields == {"at", "key", "tag", "moved", "page", "todo"}

\* The stores are functions with finitely many pages; the processes are where their
\* code can be.
TypeInv ==
    /\ IsFiniteSet(log)
    /\ IsMap(bucket) /\ IsFiniteSet(DOMAIN bucket)
    /\ IsMap(local)
    /\ DOMAIN job = Releaser
    /\ \A p \in Releaser : /\ DOMAIN job[p] = JobFields
                           /\ job[p].at \in {"idle", "load", "page", "put"}
    /\ DOMAIN sentinel = Release
    /\ DOMAIN sync = SyncFields /\ sync.at \in {"idle", "tick", "read", "write"}
    /\ DOMAIN web = WebFields /\ web.moved \in BOOLEAN

\* A page of the bundle that a publisher does not have to write is in the bucket, or
\* somebody has removed it.
JobOk(p) ==
    job[p].at \in {"page", "put"} =>
        /\ job[p].todo \in Seq(DOMAIN job[p].bundle)
        /\ job[p].at = "put" => job[p].todo # << >>
        /\ job[p].dry => job[p].todo = << >>
        /\ ~job[p].dry => \A k \in DOMAIN job[p].bundle :
                             k \in DOMAIN bucket \cup removed \/ Lists(job[p].todo, k)

PublishInv == (\A p \in Releaser : JobOk(p)) /\ SentinelMeansPublished

\* What a tick does not have to delete or compare any more is as in the bucket, as
\* long as nobody changes the bucket or the mirror under it.
SyncInv ==
    sync.calm /\ sync.at # "idle" =>
        /\ DOMAIN local \ DOMAIN bucket \subseteq sync.gone
        /\ sync.gone \cap DOMAIN bucket = {}
        /\ sync.todo \in Seq(DOMAIN bucket)
        /\ \A k \in DOMAIN bucket : SameFile(k) \/ Lists(sync.todo, k)
        /\ sync.at \in {"read", "write"} => sync.gone = {} /\ sync.todo # << >>
        /\ sync.at = "write" => sync.page[1] = bucket[Head(sync.todo)]

IsTrue(entry) ==
    /\ DOMAIN entry = {"key", "tag", "moved", "page"}
    /\ entry.page = entry.tag \/ entry.moved
Cached == {cache[i] : i \in DOMAIN cache}

\* The tag a request got is still that of its page until it reads it, unless the page was
\* rewritten meanwhile; it is that of the page it read, and everything that was rendered
\* under a tag has it.
WebInv ==
    /\ web.at = "get" /\ ~web.moved /\ web.key \in DOMAIN bucket => bucket[web.key] = web.tag
    /\ web.at \in {"list", "scan"} /\ ~web.moved => web.page[1] = web.tag
    /\ cache \in Seq(Cached)
    /\ \A entry \in Cached : IsTrue(entry)
    /\ TagNamesThePage

Inv == TypeInv /\ PublishInv /\ SyncInv /\ WebInv
----------------------------------------------------------------------------
(* What leaves a part of the invariant alone.                              *)

LEMMA EmptyFunction == IsMap(<< >>) /\ DOMAIN << >> = {}
<1>1. << >> \in Seq({}) /\ Len(<< >>) = 0
  OBVIOUS
<1> QED BY <1>1 DEF IsMap

\* No page that was in the bucket is forgotten.
Kept == DOMAIN bucket \cup removed \subseteq DOMAIN bucket' \cup removed'

LEMMA PublishStays ==
    ASSUME PublishInv, Kept, UNCHANGED <<job, sentinel>>
    PROVE  PublishInv'
<1>1. ASSUME NEW p \in Releaser PROVE JobOk(p)'
  BY DEF PublishInv, JobOk, Kept
<1>2. SentinelMeansPublished'
  BY DEF PublishInv, SentinelMeansPublished, Kept
<1> QED BY <1>1, <1>2 DEF PublishInv

LEMMA SyncStays ==
    ASSUME SyncInv, UNCHANGED <<bucket, local, sync>>
    PROVE  SyncInv'
BY DEF SyncInv, SameFile

LEMMA WebStays ==
    ASSUME WebInv, UNCHANGED <<bucket, web, cache, answer>>
    PROVE  WebInv'
BY DEF WebInv, Cached, IsTrue, TagNamesThePage

\* A publisher that goes on to j.
LEMMA JobSteps ==
    ASSUME TypeInv, PublishInv, NEW p \in Releaser, NEW j,
           job' = [job EXCEPT ![p] = j], Kept,
           DOMAIN j = JobFields, j.at \in {"idle", "load", "page", "put"},
           j.at \in {"page", "put"} =>
             /\ j.todo \in Seq(DOMAIN j.bundle)
             /\ j.at = "put" => j.todo # << >>
             /\ j.dry => j.todo = << >>
             /\ ~j.dry => \A k \in DOMAIN j.bundle :
                            k \in DOMAIN bucket' \cup removed' \/ Lists(j.todo, k)
    PROVE  /\ \A q \in Releaser : JobOk(q)'
           /\ DOMAIN job' = Releaser
           /\ \A q \in Releaser : /\ DOMAIN job'[q] = JobFields
                                  /\ job'[q].at \in {"idle", "load", "page", "put"}
<1>1. /\ job'[p] = j /\ DOMAIN job' = Releaser
      /\ \A q \in Releaser \ {p} : job'[q] = job[q]
  BY DEF TypeInv
<1>2. ASSUME NEW q \in Releaser, q # p PROVE JobOk(q)'
  BY <1>1, <1>2 DEF PublishInv, JobOk, Kept
<1>3. JobOk(p)'
  BY <1>1 DEF JobOk
<1>4. \A q \in Releaser : /\ DOMAIN job'[q] = JobFields
                          /\ job'[q].at \in {"idle", "load", "page", "put"}
  BY <1>1 DEF TypeInv
<1> QED BY <1>1, <1>2, <1>3, <1>4

----------------------------------------------------------------------------
(* The initial states.                                                     *)

LEMMA InitOk == Init => Inv
<1> SUFFICES ASSUME Init PROVE Inv
  OBVIOUS
<1>1. IsFiniteSet(log)
  <2>1. PICK n \in {0, Len(Event)} : log = {[Event[i] EXCEPT !.id = i, !.ts = i] : i \in 1 .. n}
    BY DEF Init, Logs
  <2> DEFINE f == [i \in 1 .. n |-> [Event[i] EXCEPT !.id = i, !.ts = i]]
  <2>2. log = {f[x] : x \in DOMAIN f} /\ DOMAIN f = 1 .. n
    BY <2>1
  <2>3. n \in Int
    BY VaultAssumption
  <2>4. IsFiniteSet(1 .. n)
    BY <2>3, FS_Interval
  <2> HIDE DEF f
  <2> QED BY <2>2, <2>4, ImageIsFinite
<1>2. TypeInv
  BY <1>1, EmptyFunction, FS_EmptySet
     DEF Init, TypeInv, NoJob, NoSync, NoWeb, JobFields, SyncFields, WebFields
<1>3. PublishInv
  <2>1. ASSUME NEW p \in Releaser PROVE job[p].at = "idle"
    BY DEF Init, NoJob
  <2>2. \A p \in Releaser : JobOk(p)
    BY <2>1 DEF JobOk
  <2>3. SentinelMeansPublished
    BY DEF Init, SentinelMeansPublished
  <2> QED BY <2>2, <2>3 DEF PublishInv
<1>4. SyncInv
  BY DEF Init, SyncInv, NoSync
<1>5. WebInv
  <2>1. cache = << >> /\ DOMAIN cache = {} /\ answer = << >> /\ web.at = "idle"
    BY EmptyFunction DEF Init, NoWeb
  <2>2. Cached = {}
    BY <2>1 DEF Cached
  <2> QED BY <2>1, <2>2 DEF WebInv, TagNamesThePage
<1> QED BY <1>2, <1>3, <1>4, <1>5 DEF Inv
----------------------------------------------------------------------------
(* The steps of a release.                                                 *)

\* What a step of a publisher that writes no page leaves alone.
Others == <<log, bucket, local, sync, web, cache, answer, removed>>

LEMMA ReleaserStays ==
    ASSUME Inv, UNCHANGED Others, UNCHANGED sentinel,
           NEW p \in Releaser, NEW j, job' = [job EXCEPT ![p] = j],
           DOMAIN j = JobFields, j.at \in {"idle", "load", "page", "put"},
           j.at \in {"page", "put"} =>
             /\ j.todo \in Seq(DOMAIN j.bundle)
             /\ j.at = "put" => j.todo # << >>
             /\ j.dry => j.todo = << >>
             /\ ~j.dry => \A k \in DOMAIN j.bundle :
                            k \in DOMAIN bucket \cup removed \/ Lists(j.todo, k)
    PROVE  Inv'
<1>1. Kept /\ bucket' = bucket /\ removed' = removed
  BY DEF Kept, Others
<1>2. /\ \A q \in Releaser : JobOk(q)'
      /\ DOMAIN job' = Releaser
      /\ \A q \in Releaser : /\ DOMAIN job'[q] = JobFields
                             /\ job'[q].at \in {"idle", "load", "page", "put"}
  BY <1>1, JobSteps DEF Inv
<1>3. TypeInv'
  BY <1>2 DEF Inv, TypeInv, Others
<1>4. PublishInv'
  BY <1>1, <1>2 DEF Inv, PublishInv, SentinelMeansPublished
<1>5. SyncInv' /\ WebInv'
  BY SyncStays, WebStays DEF Inv, Others
<1> QED BY <1>3, <1>4, <1>5 DEF Inv

LEMMA IdleJobIsOk == DOMAIN NoJob = JobFields /\ NoJob.at = "idle"
BY DEF NoJob, JobFields

LEMMA BeginStep ==
    ASSUME Inv, NEW p \in Releaser, NEW r, NEW dry, NEW cutoff, Begin(p, r, dry, cutoff)
    PROVE  Inv'
<1> DEFINE j == [NoJob EXCEPT !.at = "load", !.r = r, !.dry = dry, !.cutoff = cutoff]
<1>1. DOMAIN j = JobFields /\ j.at = "load"
  BY DEF NoJob, JobFields
<1>2. job' = [job EXCEPT ![p] = j] /\ UNCHANGED Others /\ UNCHANGED sentinel
  BY DEF Begin, Others
<1> HIDE DEF j
<1> QED BY <1>1, <1>2, ReleaserStays

LEMMA LoadStep ==
    ASSUME Inv, NEW p \in Releaser, Load(p)
    PROVE  Inv'
<1> DEFINE b == Bundle(log, Plan, job[p].cutoff)
           t == IF job[p].dry THEN << >> ELSE Sorted(DOMAIN b)
           j == [job[p] EXCEPT !.bundle = b, !.at = "page", !.todo = t]
<1>1. IsFiniteSet(DOMAIN b)
  BY BundleIsFinite DEF Inv, TypeInv
<1> HIDE DEF b
<1>2. /\ t \in Seq(DOMAIN b)
      /\ job[p].dry => t = << >>
      /\ ~job[p].dry => \A k \in DOMAIN b : Lists(t, k)
  <2>1. /\ Sorted(DOMAIN b) \in Seq(DOMAIN b)
        /\ \A k \in DOMAIN b : Lists(Sorted(DOMAIN b), k)
    BY <1>1, SortedLists
  <2>2. << >> \in Seq(DOMAIN b)
    OBVIOUS
  <2> QED BY <2>1, <2>2
<1> HIDE DEF t
<1>3. DOMAIN job[p] = JobFields
  BY DEF Inv, TypeInv
<1>4. /\ DOMAIN j = JobFields /\ j.at = "page"
      /\ j.bundle = b /\ j.todo = t /\ j.dry = job[p].dry
  BY <1>3 DEF JobFields
<1>5. job' = [job EXCEPT ![p] = j] /\ UNCHANGED Others /\ UNCHANGED sentinel
  BY <1>3 DEF Load, Others, b, t
<1> HIDE DEF j
<1> QED BY <1>2, <1>4, <1>5, ReleaserStays

LEMMA HeadPageStep ==
    ASSUME Inv, NEW p \in Releaser, HeadPage(p)
    PROVE  Inv'
<1>1. /\ DOMAIN job[p] = JobFields /\ job[p].at = "page" /\ job[p].todo # << >>
      /\ JobOk(p)
  BY DEF Inv, TypeInv, PublishInv, HeadPage
<1>2. /\ job[p].todo \in Seq(DOMAIN job[p].bundle) /\ ~job[p].dry
      /\ \A k \in DOMAIN job[p].bundle :
            k \in DOMAIN bucket \cup removed \/ Lists(job[p].todo, k)
  BY <1>1 DEF JobOk
<1>3. UNCHANGED Others /\ UNCHANGED sentinel
  BY DEF HeadPage, Others
<1> DEFINE k == Head(job[p].todo)
           skip == Skips(k, job[p].bundle[k])
<1>4. CASE skip
  <2> DEFINE j == PageDone(job[p])
  <2>1. /\ DOMAIN j = JobFields /\ j.at = "page" /\ j.dry = job[p].dry
        /\ j.bundle = job[p].bundle /\ j.todo = Tail(job[p].todo)
    BY <1>1 DEF JobFields, PageDone
  <2>2. job' = [job EXCEPT ![p] = j]
    BY <1>1, <1>4 DEF HeadPage
  <2>3. k \in DOMAIN bucket
    BY <1>4 DEF Skips
  <2>4. /\ Tail(job[p].todo) \in Seq(DOMAIN job[p].bundle)
        /\ \A x : Lists(job[p].todo, x) => x = k \/ Lists(Tail(job[p].todo), x)
    BY <1>1, <1>2, TailLists
  <2> HIDE DEF j, k
  <2> QED BY <1>2, <1>3, <2>1, <2>2, <2>3, <2>4, ReleaserStays
<1>5. CASE ~skip
  <2> DEFINE j == [job[p] EXCEPT !.at = "put"]
  <2>1. /\ DOMAIN j = JobFields /\ j.at = "put" /\ j.dry = job[p].dry
        /\ j.bundle = job[p].bundle /\ j.todo = job[p].todo
    BY <1>1 DEF JobFields
  <2>2. job' = [job EXCEPT ![p] = j]
    BY <1>1, <1>5 DEF HeadPage
  <2> HIDE DEF j
  <2> QED BY <1>1, <1>2, <1>3, <2>1, <2>2, ReleaserStays
<1> QED BY <1>4, <1>5

LEMMA FailStep ==
    ASSUME Inv, NEW p \in Releaser, Fail(p)
    PROVE  Inv'
<1> DEFINE j == AfterFailure(job[p])
<1>1. DOMAIN job[p] = JobFields
  BY DEF Inv, TypeInv
<1>2. DOMAIN j = JobFields /\ j.at \in {"idle", "load"}
  <2>1. CASE job[p].tries + 1 >= Retries
    BY <2>1, IdleJobIsOk DEF AfterFailure
  <2>2. CASE ~(job[p].tries + 1 >= Retries)
    <3>1. j = [job[p] EXCEPT !.at = "load", !.tries = @ + 1]
      BY <2>2 DEF AfterFailure
    <3> HIDE DEF j
    <3> QED BY <1>1, <3>1 DEF JobFields
  <2> QED BY <2>1, <2>2
<1>3. job' = [job EXCEPT ![p] = j] /\ UNCHANGED Others /\ UNCHANGED sentinel
  BY <1>1 DEF Fail, Others, Inv, TypeInv
<1> HIDE DEF j
<1> QED BY <1>2, <1>3, ReleaserStays

LEMMA KillJobStep ==
    ASSUME Inv, NEW p \in Releaser, KillJob(p)
    PROVE  Inv'
<1>1. job' = [job EXCEPT ![p] = NoJob] /\ UNCHANGED Others /\ UNCHANGED sentinel
  BY DEF KillJob, Others
<1> QED BY <1>1, IdleJobIsOk, ReleaserStays

LEMMA WriteSentinelStep ==
    ASSUME Inv, NEW p \in Releaser, WriteSentinel(p)
    PROVE  Inv'
<1>1. job' = [job EXCEPT ![p] = NoJob] /\ UNCHANGED Others /\ Kept
  BY DEF WriteSentinel, Others, Kept
<1>2. /\ \A q \in Releaser : JobOk(q)'
      /\ DOMAIN job' = Releaser
      /\ \A q \in Releaser : /\ DOMAIN job'[q] = JobFields
                             /\ job'[q].at \in {"idle", "load", "page", "put"}
  BY <1>1, IdleJobIsOk, JobSteps DEF Inv
<1>3. DOMAIN sentinel' = Release
  BY DEF WriteSentinel, Inv, TypeInv
<1>4. SentinelMeansPublished'
  <2>1. bucket' = bucket /\ removed' = removed /\ SentinelMeansPublished
    BY <1>1 DEF Others, Inv, PublishInv
  <2>2. CASE job[p].dry
    BY <2>1, <2>2 DEF WriteSentinel, SentinelMeansPublished
  <2>3. CASE ~job[p].dry
    <3>1. ASSUME NEW k \in DOMAIN job[p].bundle PROVE k \in DOMAIN bucket \cup removed
      <4>1. k \in DOMAIN bucket \cup removed \/ Lists(job[p].todo, k)
        BY <2>3 DEF WriteSentinel, Inv, PublishInv, JobOk
      <4>2. ~Lists(job[p].todo, k)
        BY DEF Lists, WriteSentinel
      <4> QED BY <4>1, <4>2
    <3>2. sentinel' = [sentinel EXCEPT ![job[p].r] = DOMAIN job[p].bundle]
      BY <2>3 DEF WriteSentinel
    <3>3. ASSUME NEW r \in Release PROVE sentinel'[r] \subseteq DOMAIN bucket \cup removed
      BY <2>1, <3>1, <3>2 DEF Inv, TypeInv, SentinelMeansPublished
    <3> QED BY <2>1, <3>3 DEF SentinelMeansPublished
  <2> QED BY <2>2, <2>3
<1>5. TypeInv'
  BY <1>1, <1>2, <1>3 DEF Inv, TypeInv, Others
<1>6. PublishInv' /\ SyncInv' /\ WebInv'
  BY <1>1, <1>2, <1>4, SyncStays, WebStays DEF Inv, PublishInv, Others
<1> QED BY <1>5, <1>6 DEF Inv
----------------------------------------------------------------------------
(* Whoever changes the object of k disturbs the daemon and the web server. *)

LEMMA DisturbKeeps ==
    ASSUME Inv, NEW k, Disturb(k), UNCHANGED <<cache, answer>>,
           \A x : x # k => /\ x \in DOMAIN bucket' <=> x \in DOMAIN bucket
                           /\ x \in DOMAIN bucket => bucket'[x] = bucket[x]
    PROVE  /\ SyncInv' /\ WebInv'
           /\ DOMAIN sync' = SyncFields /\ sync'.at \in {"idle", "tick", "read", "write"}
           /\ DOMAIN web' = WebFields /\ web'.moved \in BOOLEAN
<1>1. /\ DOMAIN sync = SyncFields /\ DOMAIN web = WebFields
      /\ sync.at \in {"idle", "tick", "read", "write"} /\ web.moved \in BOOLEAN
  BY DEF Inv, TypeInv
<1>2. /\ DOMAIN sync' = SyncFields /\ sync'.at \in {"idle", "tick", "read", "write"}
      /\ sync'.calm = FALSE
  BY <1>1 DEF Disturb, SyncFields
<1>3. SyncInv'
  BY <1>2 DEF SyncInv
<1>4. PICK b \in BOOLEAN : b = (web.moved \/ (web.at = "get" /\ web.key = k))
  OBVIOUS
<1>5. web' = [web EXCEPT !.moved = b]
  BY <1>4 DEF Disturb
<1>6. /\ DOMAIN web' = WebFields /\ web'.moved = b
      /\ web'.at = web.at /\ web'.key = web.key /\ web'.tag = web.tag /\ web'.page = web.page
  BY <1>1, <1>5 DEF WebFields
<1>7. /\ web'.at = "get" /\ ~web'.moved /\ web'.key \in DOMAIN bucket' =>
             bucket'[web'.key] = web'.tag
      /\ web'.at \in {"list", "scan"} /\ ~web'.moved => web'.page[1] = web'.tag
  BY <1>1, <1>4, <1>6 DEF Inv, WebInv
<1>8. WebInv'
  BY <1>7 DEF Inv, WebInv, Cached, IsTrue, TagNamesThePage
<1> QED BY <1>2, <1>3, <1>4, <1>6, <1>8

LEMMA PutPageStep ==
    ASSUME Inv, NEW p \in Releaser, PutPage(p)
    PROVE  Inv'
<1> DEFINE k == Head(job[p].todo)
           page == job[p].bundle[k]
           j == PageDone(job[p])
<1>1. /\ DOMAIN job[p] = JobFields /\ job[p].at = "put" /\ job[p].todo # << >>
      /\ job[p].todo \in Seq(DOMAIN job[p].bundle) /\ ~job[p].dry
      /\ \A x \in DOMAIN job[p].bundle :
            x \in DOMAIN bucket \cup removed \/ Lists(job[p].todo, x)
  BY DEF Inv, TypeInv, PublishInv, PutPage, JobOk
<1>2. /\ Tail(job[p].todo) \in Seq(DOMAIN job[p].bundle)
      /\ \A x : Lists(job[p].todo, x) => x = k \/ Lists(Tail(job[p].todo), x)
  BY <1>1, TailLists
<1>3. /\ DOMAIN j = JobFields /\ j.at = "page" /\ j.dry = job[p].dry
      /\ j.bundle = job[p].bundle /\ j.todo = Tail(job[p].todo)
  BY <1>1 DEF JobFields, PageDone
<1>4. /\ bucket' = Put(bucket, k, page) /\ job' = [job EXCEPT ![p] = j] /\ Disturb(k)
      /\ UNCHANGED <<log, sentinel, local, cache, answer, removed>>
  BY DEF PutPage
<1> HIDE DEF k, page, j
<1>5. /\ DOMAIN bucket' = DOMAIN bucket \cup {k}
      /\ IsMap(bucket')
      /\ \A x \in DOMAIN bucket : x # k => bucket'[x] = bucket[x]
  BY <1>4 DEF Put, IsMap
<1>6. Kept
  BY <1>4, <1>5 DEF Kept
<1>7. /\ \A q \in Releaser : JobOk(q)'
      /\ DOMAIN job' = Releaser
      /\ \A q \in Releaser : /\ DOMAIN job'[q] = JobFields
                             /\ job'[q].at \in {"idle", "load", "page", "put"}
  BY <1>1, <1>2, <1>3, <1>4, <1>5, <1>6, JobSteps DEF Inv
<1>8. /\ SyncInv' /\ WebInv'
      /\ DOMAIN sync' = SyncFields /\ sync'.at \in {"idle", "tick", "read", "write"}
      /\ DOMAIN web' = WebFields /\ web'.moved \in BOOLEAN
  BY <1>4, <1>5, DisturbKeeps
<1>9. IsFiniteSet(DOMAIN bucket')
  <2>1. IsFiniteSet(DOMAIN bucket)
    BY DEF Inv, TypeInv
  <2> QED BY <1>5, <2>1, FS_AddElement
<1>10. TypeInv'
  BY <1>4, <1>5, <1>7, <1>8, <1>9 DEF Inv, TypeInv
<1>11. PublishInv'
  BY <1>4, <1>6, <1>7 DEF Inv, PublishInv, SentinelMeansPublished, Kept
<1> QED BY <1>8, <1>10, <1>11 DEF Inv

LEMMA PutElsewhereStep ==
    ASSUME Inv, NEW k, PutElsewhere(k)
    PROVE  Inv'
<1>1. /\ bucket' = Put(bucket, k, Blank("someone", 0)) /\ Disturb(k)
      /\ UNCHANGED <<log, job, sentinel, local, cache, answer, removed>>
  BY DEF PutElsewhere
<1>2. /\ DOMAIN bucket' = DOMAIN bucket \cup {k}
      /\ IsMap(bucket')
      /\ \A x \in DOMAIN bucket : x # k => bucket'[x] = bucket[x]
  BY <1>1 DEF Put, IsMap
<1>3. /\ SyncInv' /\ WebInv'
      /\ DOMAIN sync' = SyncFields /\ sync'.at \in {"idle", "tick", "read", "write"}
      /\ DOMAIN web' = WebFields /\ web'.moved \in BOOLEAN
  BY <1>1, <1>2, DisturbKeeps
<1>4. IsFiniteSet(DOMAIN bucket')
  <2>1. IsFiniteSet(DOMAIN bucket)
    BY DEF Inv, TypeInv
  <2> QED BY <1>2, <2>1, FS_AddElement
<1>5. TypeInv'
  BY <1>1, <1>2, <1>3, <1>4 DEF Inv, TypeInv
<1>6. PublishInv'
  <2>1. Kept
    BY <1>1, <1>2 DEF Kept
  <2> QED BY <1>1, <2>1, PublishStays DEF Inv
<1> QED BY <1>3, <1>5, <1>6 DEF Inv

LEMMA RemoveElsewhereStep ==
    ASSUME Inv, NEW k, RemoveElsewhere(k)
    PROVE  Inv'
<1>1. /\ bucket' = Drop(bucket, k) /\ Disturb(k) /\ removed' = removed \cup {k}
      /\ UNCHANGED <<log, job, sentinel, local, cache, answer>>
  BY DEF RemoveElsewhere
<1>2. /\ DOMAIN bucket' = DOMAIN bucket \ {k}
      /\ IsMap(bucket')
      /\ \A x \in DOMAIN bucket : x # k => bucket'[x] = bucket[x]
  BY <1>1 DEF Drop, IsMap
<1>3. /\ SyncInv' /\ WebInv'
      /\ DOMAIN sync' = SyncFields /\ sync'.at \in {"idle", "tick", "read", "write"}
      /\ DOMAIN web' = WebFields /\ web'.moved \in BOOLEAN
  BY <1>1, <1>2, DisturbKeeps
<1>4. IsFiniteSet(DOMAIN bucket')
  <2>1. IsFiniteSet(DOMAIN bucket)
    BY DEF Inv, TypeInv
  <2> QED BY <1>2, <2>1, FS_Subset
<1>5. TypeInv'
  BY <1>1, <1>2, <1>3, <1>4 DEF Inv, TypeInv
<1>6. PublishInv'
  <2>1. Kept
    BY <1>1, <1>2 DEF Kept
  <2> QED BY <1>1, <2>1, PublishStays DEF Inv
<1> QED BY <1>3, <1>5, <1>6 DEF Inv
----------------------------------------------------------------------------
(* The steps of the daemon.                                                *)

LEMMA DaemonStays ==
    ASSUME Inv, UNCHANGED <<log, bucket, job, sentinel, web, cache, answer, removed>>,
           IsMap(local'), SyncInv',
           DOMAIN sync' = SyncFields, sync'.at \in {"idle", "tick", "read", "write"}
    PROVE  Inv'
<1>1. TypeInv'
  BY DEF Inv, TypeInv
<1>2. PublishInv'
  <2>1. Kept
    BY DEF Kept
  <2> QED BY <2>1, PublishStays DEF Inv
<1>3. WebInv'
  BY WebStays DEF Inv
<1> QED BY <1>1, <1>2, <1>3 DEF Inv

LEMMA ListStep ==
    ASSUME Inv, List
    PROVE  Inv'
<1> DEFINE todo == Sorted(DOMAIN bucket)
<1>1. todo \in Seq(DOMAIN bucket) /\ \A k \in DOMAIN bucket : Lists(todo, k)
  BY SortedLists DEF Inv, TypeInv
<1>2. /\ DOMAIN sync = SyncFields
      /\ UNCHANGED <<log, bucket, job, sentinel, local, web, cache, answer, removed>>
      /\ sync' = [sync EXCEPT !.at = "tick", !.gone = DOMAIN local \ DOMAIN bucket,
                              !.todo = todo, !.calm = TRUE]
  BY DEF List, Inv, TypeInv
<1> HIDE DEF todo
<1>3. /\ DOMAIN sync' = SyncFields /\ sync'.at = "tick" /\ sync'.todo = todo
      /\ sync'.gone = DOMAIN local \ DOMAIN bucket
  BY <1>2 DEF SyncFields
<1>4. SyncInv'
  BY <1>1, <1>2, <1>3 DEF SyncInv
<1>5. IsMap(local')
  BY <1>2 DEF Inv, TypeInv
<1> QED BY <1>2, <1>3, <1>4, <1>5, DaemonStays

LEMMA DeleteStep ==
    ASSUME Inv, Delete
    PROVE  Inv'
<1>1. PICK k \in sync.gone : /\ local' = Drop(local, k)
                             /\ sync' = [sync EXCEPT !.gone = @ \ {k}]
  BY DEF Delete
<1>2. /\ DOMAIN sync = SyncFields /\ sync.at = "tick" /\ SyncInv
      /\ UNCHANGED <<log, bucket, job, sentinel, web, cache, answer, removed>>
  BY DEF Delete, Inv, TypeInv
<1>3. /\ DOMAIN sync' = SyncFields /\ sync'.at = "tick" /\ sync'.calm = sync.calm
      /\ sync'.gone = sync.gone \ {k} /\ sync'.todo = sync.todo
  BY <1>1, <1>2 DEF SyncFields
<1>4. /\ DOMAIN local' = DOMAIN local \ {k} /\ IsMap(local')
      /\ \A x \in DOMAIN local : x # k => local'[x] = local[x]
  BY <1>1 DEF Drop, IsMap
<1>5. SyncInv'
  <2> SUFFICES ASSUME sync.calm
               PROVE  /\ DOMAIN local' \ DOMAIN bucket' \subseteq sync'.gone
                      /\ sync'.gone \cap DOMAIN bucket' = {}
                      /\ sync'.todo \in Seq(DOMAIN bucket')
                      /\ \A x \in DOMAIN bucket' : SameFile(x)' \/ Lists(sync'.todo, x)
    BY <1>3 DEF SyncInv
  <2>1. /\ DOMAIN local \ DOMAIN bucket \subseteq sync.gone
        /\ sync.gone \cap DOMAIN bucket = {}
        /\ sync.todo \in Seq(DOMAIN bucket)
        /\ \A x \in DOMAIN bucket : SameFile(x) \/ Lists(sync.todo, x)
    BY <1>2 DEF SyncInv
  <2>2. \A x \in DOMAIN bucket : SameFile(x) => SameFile(x)'
    BY <1>2, <1>4, <2>1 DEF SameFile
  <2> QED BY <1>2, <1>3, <1>4, <2>1, <2>2
<1> QED BY <1>2, <1>3, <1>4, <1>5, DaemonStays

LEMMA CompareStep ==
    ASSUME Inv, Compare
    PROVE  Inv'
<1>1. /\ DOMAIN sync = SyncFields /\ sync.at = "tick" /\ SyncInv
      /\ sync.gone = {} /\ sync.todo # << >>
      /\ UNCHANGED <<log, bucket, job, sentinel, local, web, cache, answer, removed>>
  BY DEF Compare, Inv, TypeInv
<1>2. IsMap(local')
  BY <1>1 DEF Inv, TypeInv
<1>3. CASE SameFile(Head(sync.todo))
  <2>1. sync' = [sync EXCEPT !.todo = Tail(@)]
    BY <1>3 DEF Compare
  <2>2. /\ DOMAIN sync' = SyncFields /\ sync'.at = "tick" /\ sync'.calm = sync.calm
        /\ sync'.gone = sync.gone /\ sync'.todo = Tail(sync.todo)
    BY <1>1, <2>1 DEF SyncFields
  <2>3. SyncInv'
    <3>1. CASE ~sync.calm
      BY <2>2, <3>1 DEF SyncInv
    <3>2. CASE sync.calm
      <4>1. /\ DOMAIN local \ DOMAIN bucket \subseteq sync.gone
            /\ sync.gone \cap DOMAIN bucket = {}
            /\ sync.todo \in Seq(DOMAIN bucket)
            /\ \A x \in DOMAIN bucket : SameFile(x) \/ Lists(sync.todo, x)
        BY <1>1, <3>2 DEF SyncInv
      <4>2. /\ Tail(sync.todo) \in Seq(DOMAIN bucket)
            /\ \A x : Lists(sync.todo, x) =>
                        x = Head(sync.todo) \/ Lists(Tail(sync.todo), x)
        BY <1>1, <4>1, TailLists
      <4>3. \A x \in DOMAIN bucket : SameFile(x) \/ Lists(Tail(sync.todo), x)
        BY <1>3, <4>1, <4>2
      <4>4. \A x : SameFile(x)' <=> SameFile(x)
        BY <1>1 DEF SameFile
      <4> QED BY <1>1, <2>2, <4>1, <4>2, <4>3, <4>4 DEF SyncInv
    <3> QED BY <3>1, <3>2
  <2> QED BY <1>1, <1>2, <2>2, <2>3, DaemonStays
<1>4. CASE ~SameFile(Head(sync.todo))
  <2>1. sync' = [sync EXCEPT !.at = "read"]
    BY <1>4 DEF Compare
  <2>2. /\ DOMAIN sync' = SyncFields /\ sync'.at = "read" /\ sync'.calm = sync.calm
        /\ sync'.gone = sync.gone /\ sync'.todo = sync.todo
    BY <1>1, <2>1 DEF SyncFields
  <2>3. SyncInv'
    BY <1>1, <2>2 DEF SyncInv, SameFile
  <2> QED BY <1>1, <1>2, <2>2, <2>3, DaemonStays
<1> QED BY <1>3, <1>4

LEMMA IdleDaemonIsOk ==
    ASSUME Inv, UNCHANGED <<log, bucket, job, sentinel, web, cache, answer, removed>>,
           IsMap(local'), DOMAIN sync' = SyncFields, sync'.at = "idle"
    PROVE  Inv'
<1>1. SyncInv'
  BY DEF SyncInv
<1> QED BY <1>1, DaemonStays

LEMMA ReadStep ==
    ASSUME Inv, Read
    PROVE  Inv'
<1> DEFINE k == Head(sync.todo)
<1>1. /\ DOMAIN sync = SyncFields /\ sync.at = "read" /\ SyncInv
      /\ UNCHANGED <<log, bucket, job, sentinel, local, web, cache, answer, removed>>
  BY DEF Read, Inv, TypeInv
<1>2. IsMap(local')
  BY <1>1 DEF Inv, TypeInv
<1>3. CASE k \in DOMAIN bucket
  <2>1. sync' = [sync EXCEPT !.at = "write", !.page = <<bucket[k]>>]
    BY <1>3 DEF Read
  <2>2. /\ DOMAIN sync' = SyncFields /\ sync'.at = "write" /\ sync'.calm = sync.calm
        /\ sync'.gone = sync.gone /\ sync'.todo = sync.todo
        /\ sync'.page = <<bucket[k]>>
    BY <1>1, <2>1 DEF SyncFields
  <2>3. sync'.page[1] = bucket[k]
    BY <2>2
  <2>4. SyncInv'
    BY <1>1, <2>2, <2>3 DEF SyncInv, SameFile
  <2> QED BY <1>1, <1>2, <2>2, <2>4, DaemonStays
<1>4. CASE k \notin DOMAIN bucket
  <2>1. sync' = TickFailed(sync)
    BY <1>4 DEF Read
  <2>2. DOMAIN sync' = SyncFields /\ sync'.at = "idle"
    BY <2>1 DEF TickFailed, NoSync, SyncFields
  <2> QED BY <1>1, <1>2, <2>2, IdleDaemonIsOk
<1> QED BY <1>3, <1>4

LEMMA WriteStep ==
    ASSUME Inv, Write
    PROVE  Inv'
<1>0. PICK k : k = Head(sync.todo)
  OBVIOUS
<1>1. /\ DOMAIN sync = SyncFields /\ sync.at = "write" /\ SyncInv
      /\ UNCHANGED <<log, bucket, job, sentinel, web, cache, answer, removed>>
      /\ local' = Put(local, k, sync.page[1])
      /\ sync' = [sync EXCEPT !.at = "tick", !.todo = Tail(@), !.page = << >>]
  BY <1>0 DEF Write, Inv, TypeInv
<1>2. /\ DOMAIN local' = DOMAIN local \cup {k} /\ IsMap(local')
      /\ local'[k] = sync.page[1] /\ \A x \in DOMAIN local : x # k => local'[x] = local[x]
  BY <1>1 DEF Put, IsMap
<1>3. /\ DOMAIN sync' = SyncFields /\ sync'.at = "tick" /\ sync'.calm = sync.calm
      /\ sync'.gone = sync.gone /\ sync'.todo = Tail(sync.todo)
  BY <1>1 DEF SyncFields
<1>4. SyncInv'
  <2>1. CASE ~sync.calm
    BY <1>3, <2>1 DEF SyncInv
  <2>2. CASE sync.calm
    <3>1. /\ DOMAIN local \ DOMAIN bucket \subseteq sync.gone
          /\ sync.todo \in Seq(DOMAIN bucket)
          /\ \A x \in DOMAIN bucket : SameFile(x) \/ Lists(sync.todo, x)
          /\ sync.gone = {} /\ sync.todo # << >>
          /\ sync.page[1] = bucket[k]
      BY <1>0, <1>1, <2>2 DEF SyncInv
    <3>2. /\ k \in DOMAIN bucket /\ Tail(sync.todo) \in Seq(DOMAIN bucket)
          /\ \A x : Lists(sync.todo, x) => x = k \/ Lists(Tail(sync.todo), x)
      BY <1>0, <3>1, TailLists
    <3>3. SameFile(k)' /\ \A x \in DOMAIN bucket : SameFile(x) => SameFile(x)'
      BY <1>1, <1>2, <3>1, <3>2 DEF SameFile
    <3> QED BY <1>1, <1>2, <1>3, <3>1, <3>2, <3>3 DEF SyncInv
  <2> QED BY <2>1, <2>2
<1> QED BY <1>1, <1>2, <1>3, <1>4, DaemonStays

LEMMA TickEnds ==
    ASSUME Inv, TickDone \/ SyncFault \/ KillSync
    PROVE  Inv'
<1>1. UNCHANGED <<log, bucket, job, sentinel, web, cache, answer, removed>>
  BY DEF TickDone, SyncFault, KillSync
<1>2. DOMAIN sync' = SyncFields /\ sync'.at = "idle"
  <2>1. sync' = NoSync \/ sync' = TickFailed(sync)
    BY DEF TickDone, SyncFault, KillSync
  <2>2. DOMAIN NoSync = SyncFields /\ NoSync.at = "idle"
    BY DEF NoSync, SyncFields
  <2>3. DOMAIN TickFailed(sync) = SyncFields /\ TickFailed(sync).at = "idle"
    BY DEF TickFailed, NoSync, SyncFields
  <2> QED BY <2>1, <2>2, <2>3
<1>3. local' = local \/ local' = Put(local, Head(sync.todo), Torn)
  BY DEF TickDone, SyncFault, KillSync
<1>4. IsMap(local')
  BY <1>3 DEF Put, IsMap, Inv, TypeInv
<1> QED BY <1>1, <1>2, <1>4, IdleDaemonIsOk
----------------------------------------------------------------------------
(* The steps of the web server, and of the user of the mirror.             *)

LEMMA ServerStays ==
    ASSUME Inv, UNCHANGED <<log, bucket, job, sentinel, local, sync, removed>>, WebInv',
           DOMAIN web' = WebFields, web'.moved \in BOOLEAN
    PROVE  Inv'
<1>1. TypeInv'
  BY DEF Inv, TypeInv
<1>2. PublishInv'
  <2>1. Kept
    BY DEF Kept
  <2> QED BY <2>1, PublishStays DEF Inv
<1>3. SyncInv'
  BY SyncStays DEF Inv
<1> QED BY <1>1, <1>2, <1>3 DEF Inv

\* A cache that is made of true entries holds true entries.
LEMMA CacheIsTrue ==
    ASSUME NEW S, \A entry \in S : IsTrue(entry), cache' \in Seq(S)
    PROVE  cache' \in Seq(Cached') /\ \A entry \in Cached' : IsTrue(entry)
<1>1. \A i \in DOMAIN cache' : cache'[i] \in S
  OBVIOUS
<1>2. \A entry \in Cached' : IsTrue(entry)
  BY <1>1 DEF Cached
<1>3. cache' \in Seq(Cached')
  BY DEF Cached
<1> QED BY <1>2, <1>3

LEMMA AskStep ==
    ASSUME Inv, NEW k, NEW matches \in BOOLEAN, Ask(k, matches)
    PROVE  Inv'
<1>1. /\ UNCHANGED <<log, bucket, job, sentinel, local, sync, removed>>
      /\ WebInv /\ DOMAIN web = WebFields /\ web.moved \in BOOLEAN /\ web.at = "idle"
  BY DEF Ask, Inv, TypeInv
<1>2. CASE k \notin DOMAIN bucket \/ matches
  <2>1. UNCHANGED <<web, cache, answer>>
    BY <1>2 DEF Ask
  <2> QED BY <1>1, <2>1, WebStays, ServerStays
<1>3. CASE ~(k \notin DOMAIN bucket \/ matches)
  <2> DEFINE hits == Hits(k, bucket[k])
  <2>1. CASE hits = {}
    <3>1. /\ web' = [NoWeb EXCEPT !.at = "get", !.key = k, !.tag = bucket[k]]
          /\ UNCHANGED <<cache, answer>>
      BY <1>3, <2>1 DEF Ask
    <3>2. /\ DOMAIN web' = WebFields /\ web'.moved \in BOOLEAN
          /\ web'.at = "get" /\ web'.key = k /\ web'.tag = bucket[k]
      BY <3>1 DEF NoWeb, WebFields
    <3>3. WebInv'
      BY <1>1, <3>1, <3>2 DEF WebInv, Cached, IsTrue, TagNamesThePage
    <3> QED BY <1>1, <3>2, <3>3, ServerStays
  <2>2. CASE hits # {}
    <3>1. PICK i \in hits : /\ cache' = Append(Without(i), cache[i])
                            /\ answer' = <<[cache[i] EXCEPT !.tag = bucket[k]]>>
                            /\ UNCHANGED web
      <4> DEFINE j == CHOOSE x \in hits : TRUE
      <4>1. j \in hits
        BY <2>2
      <4>2. /\ cache' = Append(Without(j), cache[j])
            /\ answer' = <<[cache[j] EXCEPT !.tag = bucket[k]]>>
            /\ UNCHANGED web
        BY <1>3, <2>2 DEF Ask
      <4> HIDE DEF j, hits
      <4> QED BY <4>1, <4>2
    <3>2. /\ i \in DOMAIN cache /\ cache[i].tag = bucket[k]
          /\ cache \in Seq(Cached) /\ \A entry \in Cached : IsTrue(entry)
      BY <1>1 DEF Hits, WebInv
    <3>3. cache[i] \in Cached /\ i \in 1 .. Len(cache)
      BY <3>2 DEF Cached
    <3>4. Without(i) \in Seq(Cached)
      <4>1. /\ SubSeq(cache, 1, i - 1) \in Seq(Cached)
            /\ SubSeq(cache, i + 1, Len(cache)) \in Seq(Cached)
        BY <3>2, <3>3
      <4> QED BY <4>1 DEF Without
    <3>5. cache' \in Seq(Cached)
      BY <3>1, <3>3, <3>4
    <3>6. TagNamesThePage'
      <4>1. IsTrue(cache[i])
        BY <3>2, <3>3
      <4> DEFINE a == [cache[i] EXCEPT !.tag = bucket[k]]
      <4>2. a.page = cache[i].page /\ a.tag = cache[i].tag /\ a.moved = cache[i].moved
        BY <3>2, <4>1 DEF IsTrue
      <4>3. answer'[1] = a
        BY <3>1
      <4> HIDE DEF a
      <4> QED BY <4>1, <4>2, <4>3 DEF IsTrue, TagNamesThePage
    <3>7. WebInv'
      <4>1. cache' \in Seq(Cached') /\ \A entry \in Cached' : IsTrue(entry)
        BY <3>2, <3>5, CacheIsTrue
      <4> QED BY <1>1, <3>1, <3>6, <4>1 DEF WebInv, IsTrue
    <3> QED BY <1>1, <3>1, <3>7, ServerStays
  <2> QED BY <2>1, <2>2
<1> QED BY <1>2, <1>3

\* What the steps of a request that is not answered yet leave alone.
Unanswered == <<log, bucket, job, sentinel, local, sync, removed, cache, answer>>

LEMMA RequestGoesOn ==
    ASSUME Inv, UNCHANGED Unanswered, DOMAIN web' = WebFields, web'.moved \in BOOLEAN,
           web'.at # "get",
           web'.at \in {"list", "scan"} /\ ~web'.moved => web'.page[1] = web'.tag
    PROVE  Inv'
<1>1. WebInv'
  BY DEF Inv, WebInv, Unanswered, Cached, IsTrue, TagNamesThePage
<1> QED BY <1>1, ServerStays DEF Unanswered

LEMMA RequestEnds ==
    ASSUME Inv, UNCHANGED Unanswered, web' = NoWeb
    PROVE  Inv'
<1>1. DOMAIN web' = WebFields /\ web'.moved \in BOOLEAN /\ web'.at = "idle"
  BY DEF NoWeb, WebFields
<1> QED BY <1>1, RequestGoesOn

LEMMA GetPageStep ==
    ASSUME Inv, GetPage
    PROVE  Inv'
<1>1. /\ WebInv /\ DOMAIN web = WebFields /\ web.moved \in BOOLEAN /\ web.at = "get"
      /\ UNCHANGED Unanswered
  BY DEF GetPage, Inv, TypeInv, Unanswered
<1>2. CASE web.key \notin DOMAIN bucket
  BY <1>1, <1>2, RequestEnds DEF GetPage
<1>3. CASE web.key \in DOMAIN bucket
  <2>1. web' = [web EXCEPT !.at = "list", !.page = <<bucket[web.key]>>]
    BY <1>3 DEF GetPage
  <2>2. /\ DOMAIN web' = WebFields /\ web'.moved = web.moved /\ web'.at = "list"
        /\ web'.tag = web.tag /\ web'.page = <<bucket[web.key]>>
    BY <1>1, <2>1 DEF WebFields
  <2>3. web'.page[1] = bucket[web.key]
    BY <2>2
  <2> QED BY <1>1, <1>3, <2>2, <2>3, RequestGoesOn DEF WebInv
<1> QED BY <1>2, <1>3

LEMMA ScanStep ==
    ASSUME Inv, ListPages \/ ScanPage
    PROVE  Inv'
<1>1. /\ WebInv /\ DOMAIN web = WebFields /\ web.moved \in BOOLEAN
      /\ web.at \in {"list", "scan"} /\ UNCHANGED Unanswered
  BY DEF ListPages, ScanPage, Inv, TypeInv, Unanswered
<1>2. \/ web' = NoWeb
      \/ web' = [web EXCEPT !.at = "scan", !.todo = Sorted(DOMAIN bucket)]
      \/ web' = [web EXCEPT !.todo = Tail(@)]
  BY DEF ListPages, ScanPage
<1>3. CASE web' # NoWeb
  <2>1. /\ DOMAIN web' = WebFields /\ web'.moved = web.moved /\ web'.at \in {"list", "scan"}
        /\ web'.tag = web.tag /\ web'.page = web.page
    BY <1>1, <1>2, <1>3 DEF WebFields
  <2> QED BY <1>1, <2>1, RequestGoesOn DEF WebInv
<1> QED BY <1>1, <1>3, RequestEnds

LEMMA RenderStep ==
    ASSUME Inv, Render
    PROVE  Inv'
<1>1. /\ UNCHANGED <<log, bucket, job, sentinel, local, sync, removed>>
      /\ WebInv /\ web.at = "scan" /\ web' = NoWeb
  BY DEF Render, Inv
<1>2. DOMAIN web' = WebFields /\ web'.moved \in BOOLEAN /\ web'.at = "idle"
  BY <1>1 DEF NoWeb, WebFields
<1>3. PICK entry : entry = [key |-> web.key, tag |-> web.tag, moved |-> web.moved,
                            page |-> web.page[1]]
  OBVIOUS
<1>4. PICK grown : grown = Append(cache, entry)
  OBVIOUS
<1>5. /\ cache' = (IF Len(grown) > CacheSize THEN Tail(grown) ELSE grown)
      /\ answer' = <<entry>>
  BY <1>3, <1>4 DEF Render
<1>6. IsTrue(entry)
  <2>1. /\ entry.page = web.page[1] /\ entry.tag = web.tag /\ entry.moved = web.moved
        /\ DOMAIN entry = {"key", "tag", "moved", "page"}
    BY <1>3
  <2> QED BY <1>1, <2>1 DEF IsTrue, WebInv
<1> DEFINE S == Cached \cup {entry}
<1>7. cache \in Seq(Cached) /\ \A e \in S : IsTrue(e)
  BY <1>1, <1>6 DEF WebInv
<1>8. grown \in Seq(S) /\ grown # << >>
  BY <1>4, <1>7
<1>9. cache' \in Seq(S)
  BY <1>5, <1>8
<1> HIDE DEF S
<1>10. cache' \in Seq(Cached') /\ \A e \in Cached' : IsTrue(e)
  BY <1>7, <1>9, CacheIsTrue
<1>11. TagNamesThePage'
  BY <1>5, <1>6 DEF IsTrue, TagNamesThePage
<1>12. WebInv'
  BY <1>2, <1>10, <1>11 DEF WebInv, IsTrue
<1> QED BY <1>1, <1>2, <1>12, ServerStays

LEMMA EditLocalStep ==
    ASSUME Inv, NEW k, EditLocal(k)
    PROVE  Inv'
<1>1. /\ UNCHANGED <<log, bucket, job, sentinel, web, cache, answer, removed>>
      /\ local' = Put(local, k, Blank("user", 0)) /\ sync' = [sync EXCEPT !.calm = FALSE]
      /\ DOMAIN sync = SyncFields /\ sync.at \in {"idle", "tick", "read", "write"}
  BY DEF EditLocal, Inv, TypeInv
<1>2. IsMap(local')
  BY <1>1 DEF Put, IsMap
<1>3. /\ DOMAIN sync' = SyncFields /\ sync'.at \in {"idle", "tick", "read", "write"}
      /\ sync'.calm = FALSE
  BY <1>1 DEF SyncFields
<1>4. SyncInv'
  BY <1>3 DEF SyncInv
<1> QED BY <1>1, <1>2, <1>3, <1>4, DaemonStays

LEMMA NextStep ==
    ASSUME Inv, [Next]_vars
    PROVE  Inv'
<1>1. CASE UNCHANGED vars
  <2>1. TypeInv' /\ Kept
    BY <1>1 DEF vars, Inv, TypeInv, Kept
  <2>2. PublishInv' /\ SyncInv' /\ WebInv'
    BY <1>1, <2>1, PublishStays, SyncStays, WebStays DEF vars, Inv
  <2> QED BY <2>1, <2>2 DEF Inv
<1>2. ASSUME NEW p \in Releaser, ReleaseStep(p) PROVE Inv'
  BY <1>2, BeginStep, LoadStep, HeadPageStep, PutPageStep, FailStep, WriteSentinelStep,
     KillJobStep DEF ReleaseStep
<1>3. CASE Tick
  BY <1>3, ListStep, DeleteStep, CompareStep, ReadStep, WriteStep, TickEnds DEF Tick
<1>4. CASE SyncFault \/ KillSync
  BY <1>4, TickEnds
<1>5. ASSUME NEW k, NEW matches \in BOOLEAN, Ask(k, matches) PROVE Inv'
  BY <1>5, AskStep
<1>6. CASE Get
  BY <1>6, GetPageStep, ScanStep, RenderStep DEF Get
<1>7. ASSUME NEW k, PutElsewhere(k) \/ RemoveElsewhere(k) \/ EditLocal(k) PROVE Inv'
  BY <1>7, PutElsewhereStep, RemoveElsewhereStep, EditLocalStep
<1> QED BY <1>1, <1>2, <1>3, <1>4, <1>5, <1>6, <1>7 DEF Next

----------------------------------------------------------------------------
(* The theorems.                                                           *)

\* In every reachable state what a publisher, a tick of the daemon and a request have
\* still to do makes up, with what is done, the bundle, the listing and a true entry.
THEOREM WorkIsAccountedFor == Spec => []Inv
<1>1. Inv /\ [Next]_vars => Inv'
  BY NextStep
<1> QED BY <1>1, InitOk, PTL DEF Spec

\* A release has its sentinel only when all pages of its bundle were written and are
\* still there, or somebody removed them: for any number of publishers, retries,
\* failures and kills (release_publish.py).
THEOREM SentinelsAreTrue == Spec => []SentinelMeansPublished
<1>1. Inv => SentinelMeansPublished
  BY DEF Inv, PublishInv
<1> QED BY <1>1, WorkIsAccountedFor, PTL

\* A tick that ends well, and that nobody disturbed, leaves a mirror equal to the
\* bucket, whatever was torn, failed or killed before (vault_sync.py).
THEOREM CalmTicksMirror == Spec => []OkTickIsMirror
<1>1. Inv => OkTickIsMirror
  <2> SUFFICES ASSUME Inv, sync.at = "tick", sync.gone = {}, sync.todo = << >>, sync.calm
               PROVE  local = bucket
    BY DEF OkTickIsMirror
  <2>1. /\ DOMAIN local \subseteq DOMAIN bucket
        /\ \A k \in DOMAIN bucket : SameFile(k) \/ Lists(sync.todo, k)
    BY DEF Inv, SyncInv
  <2>2. \A k : ~Lists(sync.todo, k)
    BY DEF Lists
  <2>3. DOMAIN local = DOMAIN bucket /\ \A k \in DOMAIN bucket : local[k] = bucket[k]
    BY <2>1, <2>2 DEF SameFile
  <2>4. IsMap(local) /\ IsMap(bucket)
    BY DEF Inv, TypeInv
  <2> QED BY <2>3, <2>4 DEF IsMap
<1> QED BY <1>1, WorkIsAccountedFor, PTL

\* The web server answers under a tag with the page of that tag, also from its cache,
\* unless the page was rewritten while it was rendered (synthesis_web/main.py).
THEOREM TagsAreTrue == Spec => []TagNamesThePage
<1>1. Inv => TagNamesThePage
  BY DEF Inv, WebInv
<1> QED BY <1>1, WorkIsAccountedFor, PTL

-----------------------------------------------------------------------------
(* What the vault shows of a set of events.                                *)

\* Every element has its place, and each place those that go up to it.
LEMMA RankedOk ==
    ASSUME NEW S, IsFiniteSet(S), NEW upto,
           \A x \in S : upto[x] \subseteq S /\ x \in upto[x],
           \A x, y \in S : upto[x] \subseteq upto[y] \/ upto[y] \subseteq upto[x],
           \A x, y \in S : upto[x] = upto[y] => x = y
    PROVE  LET g == Ranked(S, upto)
               n == Cardinality(S)
           IN  /\ n \in Nat /\ DOMAIN g = 1 .. n /\ g \in Seq(S) /\ Len(g) = n
               /\ \A x \in S : \E i \in 1 .. n : g[i] = x
               /\ n # 0 => g[n] \in S /\ \A x \in S : x \in upto[g[n]]
<1> DEFINE n == Cardinality(S)
           g == Ranked(S, upto)
           rank == [x \in S |-> Cardinality(upto[x])]
<1>1. n \in Nat
  BY FS_CardinalityType
<1>2. ASSUME NEW x \in S
      PROVE  IsFiniteSet(upto[x]) /\ rank[x] \in 1 .. n
  <2>1. IsFiniteSet(upto[x]) /\ Cardinality(upto[x]) <= n
    BY FS_Subset
  <2>2. Cardinality(upto[x]) \in Nat /\ Cardinality(upto[x]) # 0
    BY <2>1, FS_CardinalityType, FS_EmptySet
  <2>3. rank[x] = Cardinality(upto[x])
    OBVIOUS
  <2> HIDE DEF n, rank
  <2> QED BY <1>1, <2>1, <2>2, <2>3
<1>3. ASSUME NEW x \in S, NEW y \in S, rank[x] = rank[y] PROVE x = y
  <2>1. Cardinality(upto[x]) = Cardinality(upto[y])
    BY <1>3
  <2> HIDE DEF n, rank
  <2>2. upto[x] = upto[y]
    BY <1>2, <2>1, FS_Subset
  <2> QED BY <2>2
<1>4. rank \in Injection(S, 1 .. n)
  <2>1. rank = [x \in S |-> rank[x]]
    OBVIOUS
  <2> HIDE DEF rank, n
  <2>2. rank \in [S -> 1 .. n]
    BY <1>2, <2>1
  <2> QED BY <1>3, <2>2 DEF Injection, IsInjective
<1>5. rank \in Surjection(S, 1 .. n)
  <2>1. IsFiniteSet(1 .. n) /\ Cardinality(1 .. n) = n
    BY <1>1, FS_Interval
  <2> HIDE DEF rank
  <2> QED BY <1>4, <2>1, FS_Injection
<1>6. ASSUME NEW i \in 1 .. n PROVE g[i] \in S /\ rank[g[i]] = i
  <2>1. \E x \in S : rank[x] = i
    <3> HIDE DEF rank, n
    <3> QED BY <1>5 DEF Surjection
  <2>2. \E x \in S : Cardinality(upto[x]) = i
    BY <2>1
  <2>3. g[i] = CHOOSE x \in S : Cardinality(upto[x]) = i
    BY DEF Ranked
  <2> HIDE DEF g
  <2> QED BY <2>2, <2>3
<1>7. DOMAIN g = 1 .. n /\ g = [i \in 1 .. n |-> g[i]]
  BY DEF Ranked
<1> HIDE DEF g, rank, n
<1>8. g \in Seq(S) /\ Len(g) = n
  BY <1>1, <1>6, <1>7
<1>9. ASSUME NEW x \in S PROVE \E i \in 1 .. n : g[i] = x
  <2>1. rank[x] \in 1 .. n
    BY <1>2
  <2>2. g[rank[x]] \in S /\ rank[g[rank[x]]] = rank[x]
    BY <1>6, <2>1
  <2> QED BY <1>3, <2>1, <2>2
<1>10. ASSUME n # 0 PROVE g[n] \in S /\ \A x \in S : x \in upto[g[n]]
  <2>1. g[n] \in S /\ rank[g[n]] = n
    BY <1>1, <1>6, <1>10
  <2>2. Cardinality(upto[g[n]]) = Cardinality(S)
    BY <2>1 DEF rank, n
  <2>3. upto[g[n]] = S
    BY <2>1, <2>2, FS_Subset
  <2> QED BY <2>1, <2>3
<1> QED BY <1>1, <1>7, <1>8, <1>9, <1>10 DEF g, n

\* Finitely many events that their ids tell apart, recorded in the order of their ids.
Good(S) ==
    /\ IsFiniteSet(S)
    /\ \A e \in S : e.id \in Nat /\ e.ts \in Nat /\ e.task \in Nat
    /\ \A e, f \in S : e.id = f.id => e = f
    /\ \A e \in S : e.ts = e.id

LEMMA Part ==
    ASSUME NEW S, Good(S), NEW T, T \subseteq S
    PROVE  Good(T)
<1>1. IsFiniteSet(T)
  BY FS_Subset DEF Good
<1> QED BY <1>1 DEF Good

\* A phase that is no scalar is nobody's name.
Sound(e) == e.scalar \/ e.phase \notin PhaseNames

LEMMA LogsAreGood ==
    ASSUME NEW evs \in Logs
    PROVE  Good(evs) /\ \A e \in evs : Sound(e)
<1> DEFINE at(i) == [Event[i] EXCEPT !.id = i, !.ts = i]
<1>1. PICK n \in {0, Len(Event)} : evs = {at(i) : i \in 1 .. n}
  BY DEF Logs
<1>2. n \in Nat /\ \A i \in 1 .. n : Event[i] \in CanonicalEvent
  BY VaultAssumption
<1>3. ASSUME NEW i \in 1 .. n
      PROVE  at(i).id = i /\ at(i).ts = i /\ at(i).task \in Nat /\ Sound(at(i))
  <2>1. Event[i] \in CanonicalEvent /\ i \in Nat
    BY <1>2
  <2> QED BY <2>1 DEF CanonicalEvent, Sound
<1>4. IsFiniteSet(evs)
  <2> DEFINE f == [i \in 1 .. n |-> at(i)]
  <2>1. evs = {f[x] : x \in DOMAIN f} /\ DOMAIN f = 1 .. n
    BY <1>1
  <2>2. IsFiniteSet(1 .. n)
    BY <1>2, FS_Interval
  <2> HIDE DEF f
  <2> QED BY <2>1, <2>2, ImageIsFinite
<1> HIDE DEF at
<1> QED BY <1>1, <1>2, <1>3, <1>4 DEF Good

\* Events in the order of their time: all are there, and the last one is the last.
LEMMA OrderOk ==
    ASSUME NEW S, Good(S)
    PROVE  LET g == InOrder(S)
           IN  /\ g \in Seq(S)
               /\ \A e \in S : \E i \in 1 .. Len(g) : g[i] = e
               /\ S # {} => Len(g) # 0 /\ g[Len(g)] \in S /\ \A e \in S : e.id <= g[Len(g)].id
<1> DEFINE upto == [e \in S |-> {f \in S : f.ts < e.ts \/ (f.ts = e.ts /\ f.id <= e.id)}]
           n == Cardinality(S)
<1>1. IsFiniteSet(S) /\ \A e \in S : e.id \in Nat /\ e.ts = e.id
  BY DEF Good
<1>2. \A e, f \in S : f \in upto[e] <=> f.id <= e.id
  BY <1>1
<1>3. \A e \in S : upto[e] \subseteq S
  OBVIOUS
<1>4. InOrder(S) = Ranked(S, upto)
  BY DEF InOrder
<1> HIDE DEF upto
<1>5. \A e \in S : upto[e] \subseteq S /\ e \in upto[e]
  BY <1>1, <1>2, <1>3
<1>6. ASSUME NEW e \in S, NEW f \in S, e.id <= f.id PROVE upto[e] \subseteq upto[f]
  <2>1. ASSUME NEW d \in upto[e] PROVE d \in upto[f]
    <3>1. d \in S
      BY <1>3
    <3>2. d.id <= e.id
      BY <1>2, <3>1
    <3>3. d.id \in Nat /\ e.id \in Nat /\ f.id \in Nat
      BY <1>1, <3>1
    <3>4. d.id <= f.id
      BY <1>6, <3>2, <3>3
    <3> QED BY <1>2, <3>1, <3>4
  <2> QED BY <2>1
<1>7. \A e, f \in S : upto[e] \subseteq upto[f] \/ upto[f] \subseteq upto[e]
  <2>1. ASSUME NEW e \in S, NEW f \in S PROVE e.id <= f.id \/ f.id <= e.id
    BY <1>1
  <2> QED BY <1>6, <2>1
<1>8. ASSUME NEW e \in S, NEW f \in S, upto[e] = upto[f] PROVE e = f
  <2>1. e.id <= f.id /\ f.id <= e.id
    BY <1>2, <1>5, <1>8
  <2>2. e.id = f.id
    BY <1>1, <2>1
  <2> QED BY <2>2 DEF Good
<1>9. LET g == Ranked(S, upto)
      IN  /\ n \in Nat /\ DOMAIN g = 1 .. n /\ g \in Seq(S) /\ Len(g) = n
          /\ \A x \in S : \E i \in 1 .. n : g[i] = x
          /\ n # 0 => g[n] \in S /\ \A x \in S : x \in upto[g[n]]
  BY <1>1, <1>5, <1>7, <1>8, RankedOk
<1>10. S # {} => n # 0
  BY <1>1, FS_EmptySet
<1> DEFINE g == InOrder(S)
<1> HIDE DEF n, g
<1>11. /\ n \in Nat /\ DOMAIN g = 1 .. n /\ g \in Seq(S) /\ Len(g) = n
       /\ \A x \in S : \E i \in 1 .. n : g[i] = x
       /\ n # 0 => g[n] \in S /\ \A x \in S : x \in upto[g[n]]
  BY <1>4, <1>9 DEF g
<1>12. S # {} => Len(g) # 0 /\ g[Len(g)] \in S /\ \A e \in S : e.id <= g[Len(g)].id
  BY <1>2, <1>10, <1>11
<1> QED BY <1>11, <1>12 DEF g

LEMMA LatestOk ==
    ASSUME NEW S, Good(S), S # {}
    PROVE  \A e \in S : e.ts <= Latest(S)
<1> DEFINE T == {e.ts : e \in S}
           last == InOrder(S)[Len(InOrder(S))]
<1>1. last \in S /\ \A e \in S : e.id <= last.id
  BY OrderOk
<1>2. \A e \in S : e.id \in Nat /\ e.ts = e.id
  BY DEF Good
<1> HIDE DEF last
<1>3. last.ts \in T /\ \A t \in T : last.ts >= t
  BY <1>1, <1>2
<1>4. \A t \in T : Max(T) >= t
  BY <1>3 DEF Max
<1>5. Latest(S) = Max(T) /\ Max(T) \in T
  BY <1>3 DEF Max, Latest
<1>6. Max(T) \in Nat
  BY <1>2, <1>5
<1> HIDE DEF T
<1>7. \A e \in S : e.ts \in T
  BY DEF T
<1> QED BY <1>2, <1>4, <1>5, <1>6, <1>7

\* Redaction leaves the name of an event alone, and what its place depends on.
LEMMA SafeOk ==
    ASSUME NEW e
    PROVE  /\ Safe(e).id = e.id /\ Safe(e).ts = e.ts /\ Safe(e).type = e.type
           /\ Safe(e).plan = e.plan /\ Safe(e).task = e.task
BY DEF Safe

\* The page that the generator names from the redacted event is the one that /changes
\* names from the event: where redaction drops a phase that is there, its name was none.
LEMMA NamesAgree ==
    ASSUME NEW e, Sound(e)
    PROVE  GeneratedKey(Safe(e)) = PrimaryKey(e)
<1> DEFINE s == Safe(e)
           keys == KeptKeys(e)
           phase == IF "phase" \in keys THEN e.phase ELSE ""
<1>1. s = [id |-> e.id, type |-> e.type, plan |-> e.plan, task |-> e.task, agent |-> e.agent,
           run |-> e.run, ts |-> e.ts, phase |-> phase, keys |-> keys]
  BY DEF Safe
<1>2. e.type = "checkpoint_write" => ("phase" \in keys <=> "phase" \in e.keys /\ e.scalar)
  BY DEF SafeKeys, KeptKeys
<1> HIDE DEF keys, s
<1>3. /\ s.id = e.id /\ s.plan = e.plan /\ s.task = e.task /\ s.type = e.type
      /\ s.keys = keys /\ s.phase = phase
  BY <1>1
<1>4. CASE e.type = "checkpoint_write"
  <2> DEFINE raw == IF "phase" \in e.keys THEN PhaseFile(e.phase) ELSE "implementer"
             redacted == PhaseFile(IF "phase" \in s.keys THEN s.phase ELSE "implementer")
  <2>1. PhaseFile("implementer") = "implementer"
    BY DEF PhaseFile
  <2>2. ASSUME "phase" \notin e.keys PROVE raw = redacted
    BY <1>2, <1>3, <1>4, <2>1, <2>2
  <2>3. ASSUME "phase" \in e.keys, e.scalar PROVE raw = redacted
    <3>1. "phase" \in s.keys /\ s.phase = e.phase
      BY <1>2, <1>3, <1>4, <2>3
    <3> QED BY <2>3, <3>1
  <2>4. ASSUME "phase" \in e.keys, ~e.scalar PROVE raw = redacted
    <3>1. PhaseFile(e.phase) = "implementer"
      BY <2>4 DEF Sound, PhaseFile
    <3>2. "phase" \notin s.keys
      BY <1>2, <1>3, <1>4, <2>4
    <3> QED BY <2>1, <2>4, <3>1, <3>2
  <2>5. raw = redacted
    <3> HIDE DEF raw, redacted
    <3> QED BY <2>2, <2>3, <2>4
  <2> HIDE DEF raw, redacted
  <2>6. PrimaryKey(e) = <<"phase", e.plan, e.task, raw>>
    BY <1>4 DEF PrimaryKey, raw
  <2>7. GeneratedKey(s) = <<"phase", s.plan, s.task, redacted>>
    BY <1>3, <1>4 DEF GeneratedKey, redacted
  <2> QED BY <1>3, <2>5, <2>6, <2>7 DEF s
<1>5. CASE e.type = "retrieval_breakdown"
  BY <1>3, <1>5 DEF PrimaryKey, GeneratedKey, s
<1>6. CASE e.type = "lease_stall_detected"
  BY <1>3, <1>6 DEF PrimaryKey, GeneratedKey, s
<1>7. CASE e.type \notin {"retrieval_breakdown", "lease_stall_detected", "checkpoint_write"}
  BY <1>3, <1>7 DEF PrimaryKey, GeneratedKey, s
<1> QED BY <1>4, <1>5, <1>6, <1>7

LEMMA SafesAreGood ==
    ASSUME NEW S, Good(S)
    PROVE  Good({Safe(e) : e \in S})
<1> DEFINE T == {Safe(e) : e \in S}
           f == [e \in S |-> Safe(e)]
<1>1. DOMAIN f = S /\ T = {f[x] : x \in DOMAIN f}
  OBVIOUS
<1>2. IsFiniteSet(T)
  <2> HIDE DEF f, T
  <2> QED BY <1>1, ImageIsFinite DEF Good
<1>3. \A e \in S : Safe(e).id = e.id /\ Safe(e).ts = e.ts /\ Safe(e).task = e.task
  BY SafeOk
<1> QED BY <1>2, <1>3 DEF Good

\* A page cites the events it shows, or, if it is replaced each time, the last of them.
LEMMA PageCites ==
    ASSUME NEW T, Good(T), NEW s \in T, NEW k \in PagesOf(s), k[1] # "plan"
    PROVE  LET page == EventPage(k, T)
               Cites(id) == \E i \in DOMAIN page.events : page.events[i] = id
           IN  Cites(s.id) \/ (IsOverwritten(k) /\ \E t \in T : t.id > s.id /\ Cites(t.id))
<1> DEFINE on == {t \in T : k \in PagesOf(t)}
           shown == InOrder(on)
           last == shown[Len(shown)]
           cited == IF IsOverwritten(k) THEN <<last>> ELSE shown
           page == EventPage(k, T)
           Cites(id) == \E i \in DOMAIN page.events : page.events[i] = id
<1>1. Good(on) /\ s \in on /\ on \subseteq T
  BY Part
<1>2. page.events = [i \in DOMAIN cited |-> cited[i].id]
  BY DEF EventPage
<1> HIDE DEF on, page
<1>3. /\ shown \in Seq(on) /\ \E i \in 1 .. Len(shown) : shown[i] = s
      /\ last \in on /\ s.id <= last.id
  BY <1>1, OrderOk
<1>4. CASE ~IsOverwritten(k)
  <2>1. PICK i \in 1 .. Len(shown) : shown[i] = s
    BY <1>3
  <2>2. i \in DOMAIN shown
    BY <1>3, <2>1
  <2>3. i \in DOMAIN page.events /\ page.events[i] = s.id
    BY <1>2, <1>4, <2>1, <2>2
  <2> QED BY <2>3 DEF page
<1>5. CASE IsOverwritten(k)
  <2>1. 1 \in DOMAIN <<last>> /\ <<last>>[1] = last
    OBVIOUS
  <2> HIDE DEF last
  <2>2. page.events = [i \in DOMAIN <<last>> |-> <<last>>[i].id]
    BY <1>2, <1>5
  <2>3. 1 \in DOMAIN page.events /\ page.events[1] = last.id
    BY <2>1, <2>2
  <2>4. s.id \in Nat /\ last.id \in Nat
    BY <1>1, <1>3 DEF Good
  <2>5. last.id = s.id \/ last.id > s.id
    BY <1>3, <2>4
  <2>6. last \in T /\ Cites(last.id)
    BY <1>1, <1>3, <2>3
  <2> HIDE DEF Cites
  <2>7. Cites(s.id) \/ \E t \in T : t.id > s.id /\ Cites(t.id)
    BY <2>5, <2>6
  <2> QED BY <1>5, <2>7 DEF Cites, page
<1> QED BY <1>4, <1>5

\* The pages of an event.
LEMMA PageNames ==
    ASSUME NEW s, NEW k \in PagesOf(s)
    PROVE  /\ k # Readme /\ k \notin Seeds
           /\ k[1] = "phase" => \E x \in PhaseNames \cup {"index"} : k = <<"phase", s.plan, s.task, x>>
           /\ k[1] = "plan" => k = <<"plan", s.plan>>
<1> DEFINE name == PhaseFile(IF "phase" \in s.keys THEN s.phase ELSE "implementer")
<1>1. name \in PhaseNames
  BY DEF PhaseFile, PhaseNames
<1> HIDE DEF name
<1>2. GeneratedKey(s) \in {<<"retrieval", s.plan, s.task>>, <<"stall", s.plan, s.task>>,
                         <<"phase", s.plan, s.task, name>>, <<"opaque", s.id>>}
  BY DEF GeneratedKey, name
<1>3. k \in {<<"attachment", s.id>>, <<"retrieval", s.plan, s.task>>, <<"stall", s.plan, s.task>>,
             <<"phase", s.plan, s.task, name>>, <<"opaque", s.id>>, <<"run", s.agent, s.run>>,
             <<"phase", s.plan, s.task, "index">>, <<"plan", s.plan>>,
             <<"by", "type">>, <<"by", "plan">>, <<"by", "agent">>}
  BY <1>2 DEF PagesOf, IndexPages
<1>4. k[1] \in {"attachment", "retrieval", "stall", "phase", "opaque", "run", "plan", "by"}
  BY <1>3
<1>5. Readme[1] = "readme" /\ \A q \in Seeds : q[1] = "seed"
  BY DEF Readme, Seeds
<1>6. k[1] = "phase" => k \in {<<"phase", s.plan, s.task, name>>, <<"phase", s.plan, s.task, "index">>}
  BY <1>3
<1>7. k[1] = "plan" => k = <<"plan", s.plan>>
  BY <1>3
<1> QED BY <1>1, <1>4, <1>5, <1>6, <1>7

\* canon synth show looks for every name that the generator gives.
LEMMA NamesAreKnown == PhaseNames \cup {"index"} \subseteq ToSet(PhaseOrder)
<1>1. DOMAIN PhaseOrder = 1 .. 6
  BY DEF PhaseOrder
<1>2. /\ PhaseOrder[1] = "index" /\ PhaseOrder[2] = "scoper"
      /\ PhaseOrder[3] = "cursor-pilot" /\ PhaseOrder[4] = "implementer"
      /\ PhaseOrder[5] = "qa-gate" /\ PhaseOrder[6] = "release-orchestrator"
  BY DEF PhaseOrder
<1>3. {1, 2, 3, 4, 5, 6} \subseteq 1 .. 6
  OBVIOUS
<1> QED BY <1>1, <1>2, <1>3 DEF PhaseNames, ToSet

\* In the stream of a plan, each page has its place.
LEMMA StreamLists ==
    ASSUME NEW K, IsFiniteSet(K), NEW p,
           \A k \in K : \/ k = <<"plan", p>>
                        \/ \E t \in Nat, x \in PhaseNames \cup {"index"} : k = <<"phase", p, t, x>>
    PROVE  \A k \in K : \E i \in DOMAIN StreamOrder(K) : StreamOrder(K)[i] = k
<1> DEFINE at(name) == CHOOSE i \in 1 .. Len(PhaseOrder) : PhaseOrder[i] = name
           NotAfter(l, k) ==
             \/ l[1] = "plan"
             \/ k[1] = "phase" /\ l[3] < k[3]
             \/ k[1] = "phase" /\ l[3] = k[3] /\ at(l[4]) <= at(k[4])
           upto == [k \in K |-> {l \in K : NotAfter(l, k)}]
           Names == PhaseNames \cup {"index"}
<1>1. \A x \in Names : at(x) \in 1 .. Len(PhaseOrder) /\ PhaseOrder[at(x)] = x
  <2>1. ASSUME NEW x \in Names PROVE \E i \in 1 .. Len(PhaseOrder) : PhaseOrder[i] = x
    <3>1. /\ Len(PhaseOrder) = 6 /\ PhaseOrder[1] = "index" /\ PhaseOrder[2] = "scoper"
          /\ PhaseOrder[3] = "cursor-pilot" /\ PhaseOrder[4] = "implementer"
          /\ PhaseOrder[5] = "qa-gate" /\ PhaseOrder[6] = "release-orchestrator"
      BY DEF PhaseOrder
    <3>2. x \in {"index", "scoper", "cursor-pilot", "implementer", "qa-gate",
                 "release-orchestrator"}
      BY DEF PhaseNames
    <3>3. 1 \in 1 .. 6 /\ 2 \in 1 .. 6 /\ 3 \in 1 .. 6 /\ 4 \in 1 .. 6 /\ 5 \in 1 .. 6 /\ 6 \in 1 .. 6
      OBVIOUS
    <3> QED BY <3>1, <3>2, <3>3
  <2> QED BY <2>1
<1>2. \A x \in Names : at(x) \in Nat
  <2>1. Len(PhaseOrder) \in Nat
    BY DEF PhaseOrder
  <2> HIDE DEF at
  <2> QED BY <1>1, <2>1
<1>3. StreamOrder(K) = Ranked(K, upto)
  BY DEF StreamOrder
<1>4. \A k, l \in K : l \in upto[k] <=> NotAfter(l, k)
  OBVIOUS
<1>5. \A k \in K : upto[k] \subseteq K
  OBVIOUS
<1> HIDE DEF upto, at
<1> DEFINE Plain(k) == k = <<"plan", p>>
           Phase(k) == /\ k[1] = "phase" /\ k[3] \in Nat /\ k[4] \in Names /\ at(k[4]) \in Nat
                       /\ k = <<"phase", p, k[3], k[4]>>
<1>6. ASSUME NEW k \in K PROVE Plain(k) \/ Phase(k)
  <2>1. CASE ~Plain(k)
    <3>1. PICK t \in Nat, x \in Names : k = <<"phase", p, t, x>>
      BY <2>1
    <3>2. k[1] = "phase" /\ k[3] = t /\ k[4] = x
      BY <3>1
    <3> QED BY <1>2, <3>1, <3>2
  <2> QED BY <2>1
<1>7. \A k : Plain(k) => k[1] = "plan"
  OBVIOUS
<1>8. \A k, l \in K : NotAfter(l, k) <=>
          \/ Plain(l)
          \/ /\ Phase(k) /\ Phase(l)
             /\ l[3] < k[3] \/ (l[3] = k[3] /\ at(l[4]) <= at(k[4]))
  BY <1>6, <1>7
<1> HIDE DEF NotAfter
<1>9. \A k \in K : NotAfter(k, k)
  BY <1>6, <1>8
<1>10. ASSUME NEW j \in K, NEW k \in K, NEW l \in K, NotAfter(j, k), NotAfter(k, l)
       PROVE  NotAfter(j, l)
  <2>1. CASE Plain(j)
    BY <1>8, <2>1
  <2>2. CASE ~Plain(j)
    <3>1. Phase(j) /\ Phase(k) /\ (j[3] < k[3] \/ (j[3] = k[3] /\ at(j[4]) <= at(k[4])))
      BY <1>8, <1>10, <2>2
    <3>2. ~Plain(k)
      BY <1>7, <3>1
    <3>3. Phase(l) /\ (k[3] < l[3] \/ (k[3] = l[3] /\ at(k[4]) <= at(l[4])))
      BY <1>8, <1>10, <3>2
    <3>4. /\ j[3] \in Nat /\ k[3] \in Nat /\ l[3] \in Nat
          /\ at(j[4]) \in Nat /\ at(k[4]) \in Nat /\ at(l[4]) \in Nat
      BY <3>1, <3>3
    <3>5. j[3] < l[3] \/ (j[3] = l[3] /\ at(j[4]) <= at(l[4]))
      BY <3>1, <3>3, <3>4
    <3> QED BY <1>8, <3>1, <3>3, <3>5
  <2> QED BY <2>1, <2>2
<1>11. ASSUME NEW k \in K, NEW l \in K PROVE NotAfter(k, l) \/ NotAfter(l, k)
  <2>1. CASE Plain(k) \/ Plain(l)
    BY <1>8, <2>1
  <2>2. CASE Phase(k) /\ Phase(l)
    <3>1. k[3] \in Nat /\ l[3] \in Nat /\ at(k[4]) \in Nat /\ at(l[4]) \in Nat
      BY <2>2
    <3>2. \/ k[3] < l[3] \/ (k[3] = l[3] /\ at(k[4]) <= at(l[4]))
          \/ l[3] < k[3] \/ (l[3] = k[3] /\ at(l[4]) <= at(k[4]))
      BY <3>1
    <3> QED BY <1>8, <2>2, <3>2
  <2> QED BY <1>6, <2>1, <2>2
<1>12. ASSUME NEW k \in K, NEW l \in K, NotAfter(k, l), NotAfter(l, k) PROVE k = l
  <2>1. CASE Plain(k)
    <3>1. ~Phase(k)
      BY <1>7, <2>1
    <3>2. Plain(l)
      BY <1>8, <1>12, <3>1
    <3> QED BY <2>1, <3>2
  <2>2. CASE ~Plain(k)
    <3>1. /\ Phase(k) /\ Phase(l)
          /\ k[3] < l[3] \/ (k[3] = l[3] /\ at(k[4]) <= at(l[4]))
      BY <1>8, <1>12, <2>2
    <3>2. ~Plain(l)
      BY <1>7, <3>1
    <3>3. l[3] < k[3] \/ (l[3] = k[3] /\ at(l[4]) <= at(k[4]))
      BY <1>8, <1>12, <3>2
    <3>4. k[3] \in Nat /\ l[3] \in Nat /\ at(k[4]) \in Nat /\ at(l[4]) \in Nat
      BY <3>1
    <3>5. k[3] = l[3] /\ at(k[4]) = at(l[4])
      BY <3>1, <3>3, <3>4
    <3>6. k[4] = l[4]
      BY <1>1, <3>1, <3>5
    <3> QED BY <3>1, <3>5, <3>6
  <2> QED BY <2>1, <2>2
<1> HIDE DEF Plain, Phase
<1>13. \A k \in K : upto[k] \subseteq K /\ k \in upto[k]
  BY <1>4, <1>5, <1>9
<1>14. ASSUME NEW k \in K, NEW l \in K, NotAfter(k, l) PROVE upto[k] \subseteq upto[l]
  BY <1>4, <1>5, <1>10, <1>14
<1>15. \A k, l \in K : upto[k] \subseteq upto[l] \/ upto[l] \subseteq upto[k]
  BY <1>11, <1>14
<1>16. \A k, l \in K : upto[k] = upto[l] => k = l
  BY <1>4, <1>12, <1>13
<1> DEFINE n == Cardinality(K)
           g == Ranked(K, upto)
<1>17. /\ DOMAIN g = 1 .. n
       /\ \A k \in K : \E i \in 1 .. n : g[i] = k
  BY <1>13, <1>15, <1>16, RankedOk
<1> QED BY <1>3, <1>17

\* The vault of a set of events has the pages of each, and no others.
LEMMA VaultPage ==
    ASSUME NEW S, NEW cutoff, \A e \in S : e.ts <= cutoff,
           NEW e \in S, NEW k \in PagesOf(Safe(e))
    PROVE  LET vault == GenerateVault(S, cutoff)
           IN  k \in DOMAIN vault /\ vault[k] = EventPage(k, {Safe(f) : f \in S})
<1> DEFINE safes == {Safe(f) : f \in UpToCutoff(S, cutoff)}
           pages == UNION {PagesOf(s) : s \in safes}
<1>1. UpToCutoff(S, cutoff) = S
  BY DEF UpToCutoff
<1>2. Safe(e) \in safes /\ safes = {Safe(f) : f \in S}
  BY <1>1
<1>3. k \in pages
  BY <1>2
<1>4. k # Readme /\ k \notin Seeds
  BY PageNames
<1> HIDE DEF safes
<1>5. GenerateVault(S, cutoff) = [q \in {Readme} \cup Seeds \cup pages |->
                                     IF q = Readme THEN Blank("generator", cutoff)
                                     ELSE IF q \in Seeds THEN Blank("generator", 0)
                                     ELSE EventPage(q, safes)]
  BY DEF GenerateVault, safes
<1> HIDE DEF pages
<1> QED BY <1>2, <1>3, <1>4, <1>5

LEMMA VaultNames ==
    ASSUME NEW S, NEW cutoff, NEW k \in DOMAIN GenerateVault(S, cutoff),
           k # Readme, k \notin Seeds
    PROVE  \E e \in S : k \in PagesOf(Safe(e))
<1>1. PICK e \in UpToCutoff(S, cutoff) : k \in PagesOf(Safe(e))
  BY DEF GenerateVault
<1> QED BY <1>1 DEF UpToCutoff

\* canon synth show streams every page of a phase.
LEMMA PhasesAreStreamed ==
    ASSUME NEW S, Good(S), NEW cutoff, \A e \in S : e.ts <= cutoff,
           NEW e \in S, NEW k \in PagesOf(Safe(e)), k[1] = "phase"
    PROVE  LET shown == Show(GenerateVault(S, cutoff), e.plan, "any", 0)
           IN  shown.exit = "found" /\ \E i \in DOMAIN shown.slugs : shown.slugs[i] = k
<1> DEFINE vault == GenerateVault(S, cutoff)
           p == e.plan
           K == {q \in Streamed(DOMAIN vault, p, "any") : WithinCutoff(vault[q], 0)}
<1>1. <<"plan", p>> \in DOMAIN vault
  <2>1. <<"plan", p>> \in PagesOf(Safe(e))
    BY SafeOk DEF PagesOf
  <2> QED BY <2>1, VaultPage
<1>2. k \in DOMAIN vault
  BY VaultPage
<1>3. k[2] = p /\ k[4] \in PhaseNames \cup {"index"}
  <2>1. \E x \in PhaseNames \cup {"index"} : k = <<"phase", p, Safe(e).task, x>>
    BY PageNames, SafeOk
  <2> QED BY <2>1
<1>4. K = {q \in DOMAIN vault : \/ q = <<"plan", p>>
                                \/ q[1] = "phase" /\ q[2] = p /\ q[4] \in ToSet(PhaseOrder)}
  BY DEF Streamed, WithinCutoff
<1>5. IsFiniteSet(K)
  <2>1. IsFiniteSet(DOMAIN vault)
    BY VaultIsFinite DEF Good
  <2>2. K \subseteq DOMAIN vault
    BY <1>4
  <2> HIDE DEF vault, K
  <2> QED BY <2>1, <2>2, FS_Subset
<1>6. Show(vault, p, "any", 0) = [exit |-> "found", slugs |-> StreamOrder(K)]
  BY <1>1 DEF Show
<1>7. ASSUME NEW q \in K, q # <<"plan", p>>
      PROVE  \E t \in Nat, x \in PhaseNames \cup {"index"} : q = <<"phase", p, t, x>>
  <2>1. q \in DOMAIN vault /\ q[1] = "phase" /\ q[2] = p
    BY <1>4, <1>7
  <2>2. q # Readme /\ q \notin Seeds
    BY <2>1 DEF Readme, Seeds
  <2>3. PICK d \in S : q \in PagesOf(Safe(d))
    BY <2>1, <2>2, VaultNames
  <2>4. PICK x \in PhaseNames \cup {"index"} : q = <<"phase", Safe(d).plan, Safe(d).task, x>>
    BY <2>1, <2>3, PageNames
  <2>5. Safe(d).task \in Nat
    BY SafeOk DEF Good
  <2>6. Safe(d).plan = p
    BY <2>1, <2>4
  <2> QED BY <2>4, <2>5, <2>6
<1>8. k \in K
  BY <1>2, <1>3, <1>4, NamesAreKnown
<1> HIDE DEF K, vault
<1>9. \E i \in DOMAIN StreamOrder(K) : StreamOrder(K)[i] = k
  BY <1>5, <1>7, <1>8, StreamLists
<1> QED BY <1>6, <1>9 DEF vault

\* The service finds the page of the plan of every event.
LEMMA PlansAreServed ==
    ASSUME NEW S, Good(S), NEW e \in S, e.ts > 0
    PROVE  ServicePage(S, e.plan, "any") # << >>
<1> DEFINE new == IterEvents(S, e.plan, "any", 0)
           key == <<"plan", e.plan>>
           vault == ServiceVault(S, e.plan, "any", 0)
<1>1. e \in new /\ new \subseteq S
  BY DEF IterEvents, InScope
<1>2. Good(new)
  BY <1>1, Part
<1>3. vault = GenerateVault(new, Latest(new))
  BY <1>1 DEF ServiceVault
<1>4. key \in PagesOf(Safe(e))
  BY SafeOk DEF PagesOf
<1> HIDE DEF new
<1>5. key \in DOMAIN GenerateVault(new, Latest(new))
  BY <1>1, <1>2, <1>4, LatestOk, VaultPage
<1>6. ServicePage(S, e.plan, "any") = <<vault[key]>>
  BY <1>3, <1>5 DEF ServicePage
<1>7. \A page : <<page>> # << >>
  <2>1. \A page : Len(<<page>>) = 1
    OBVIOUS
  <2>2. Len(<< >>) = 0
    OBVIOUS
  <2> QED BY <2>1, <2>2
<1> QED BY <1>6, <1>7

\* Every change that is announced is shown, for any events, whichever of them there are,
\* and any cutoff: /changes, the generator and canon synth show agree on the names of the
\* pages, also where redaction takes the phase out of an event.
THEOREM ChangesShow == Spec => []ChangesAreShown
<1>1. ASSUME NEW all \in Logs, NEW evs \in SUBSET all, NEW since \in 0 .. Cardinality(all),
             NEW c \in Changes(evs, since)
      PROVE  \E e \in evs :
                e.id = c.id /\ IsShown(c, e.plan, evs, ServiceVault(evs, "any", "any", since))
  <2> DEFINE new == IterEvents(evs, "any", "any", since)
             safes == {Safe(e) : e \in new}
             vault == ServiceVault(evs, "any", "any", since)
             shown(p) == Show(vault, p, "any", 0)
  <2>1. PICK e \in new : c = [key |-> PrimaryKey(e), id |-> e.id, ts |-> e.ts]
    BY DEF Changes
  <2>2. e \in evs /\ new \subseteq evs /\ e.ts > since
    BY DEF IterEvents
  <2>3. Good(evs) /\ Good(new) /\ Good(safes) /\ Sound(e)
    BY <2>2, LogsAreGood, Part, SafesAreGood
  <2>4. vault = GenerateVault(new, Latest(new)) /\ \A f \in new : f.ts <= Latest(new)
    BY <2>3, LatestOk DEF ServiceVault
  <2>5. c.key = PrimaryKey(e) /\ c.id = e.id /\ Safe(e).id = e.id
    BY <2>1, SafeOk
  <2>6. c.key \in PagesOf(Safe(e))
    BY <2>3, <2>5, NamesAgree DEF PagesOf
  <2>7. c.key[1] # "plan"
    BY <2>5 DEF PrimaryKey
  <2>8. Safe(e) \in safes /\ \A t \in safes : \E f \in evs : f.id = t.id
    BY <2>2, SafeOk
  <2> HIDE DEF new, safes, vault
  <2> DEFINE page == vault[c.key]
             Cites(id) == \E i \in DOMAIN page.events : page.events[i] = id
  <2>9. c.key \in DOMAIN vault /\ page = EventPage(c.key, safes)
    BY <2>4, <2>6, VaultPage DEF safes
  <2>10. Cites(c.id) \/ (IsOverwritten(c.key) /\ \E t \in safes : t.id > c.id /\ Cites(t.id))
    BY <2>3, <2>5, <2>6, <2>7, <2>8, <2>9, PageCites
  <2>11. Cites(c.id) \/ (IsOverwritten(c.key) /\ \E f \in evs : f.id > c.id /\ Cites(f.id))
    <3> HIDE DEF Cites
    <3> QED BY <2>8, <2>10
  <2>12. c.key[1] = "phase" => /\ shown(e.plan).exit = "found"
                               /\ \E i \in DOMAIN shown(e.plan).slugs : shown(e.plan).slugs[i] = c.key
    BY <2>3, <2>4, <2>6, PhasesAreStreamed
  <2>13. ServicePage(evs, e.plan, "any") # << >>
    <3>1. e.ts > 0
      BY <2>2, <2>3 DEF Good
    <3> QED BY <2>2, <2>3, <3>1, PlansAreServed
  <2>14. IsShown(c, e.plan, evs, vault)
    BY <2>9, <2>11, <2>12, <2>13 DEF IsShown
  <2> QED BY <2>2, <2>5, <2>14 DEF vault
<1>2. \A all \in Logs : all \in ShownLogs
  BY <1>1 DEF ShownLogs
<1>3. Init => log \in Logs
  BY DEF Init
<1>4. log \in Logs /\ [Next]_vars => (log \in Logs)'
  <2> SUFFICES ASSUME [Next]_vars PROVE UNCHANGED log
    OBVIOUS
  <2>1. \A p \in Releaser : ReleaseStep(p) => UNCHANGED log
    BY DEF ReleaseStep, Begin, Load, HeadPage, PutPage, Fail, WriteSentinel, KillJob
  <2>2. Tick \/ SyncFault \/ KillSync => UNCHANGED log
    BY DEF Tick, List, Delete, Compare, Read, Write, TickDone, SyncFault, KillSync
  <2>3. \A k, matches : Ask(k, matches) => UNCHANGED log
    BY DEF Ask
  <2>4. Get => UNCHANGED log
    BY DEF Get, GetPage, ListPages, ScanPage, Render
  <2>5. \A k : PutElsewhere(k) \/ RemoveElsewhere(k) \/ EditLocal(k) => UNCHANGED log
    BY DEF PutElsewhere, RemoveElsewhere, EditLocal
  <2>6. UNCHANGED vars => UNCHANGED log
    BY DEF vars
  <2> QED BY <2>1, <2>2, <2>3, <2>4, <2>5, <2>6 DEF Next
<1>5. log \in Logs => ChangesAreShown
  BY <1>2 DEF ChangesAreShown
<1> QED BY <1>3, <1>4, <1>5, PTL DEF Spec
=============================================================================
