--------------------------- MODULE LivePlan_proofs ---------------------------
(***************************************************************************)
(* Proofs about LivePlan, for any users, sessions, captions and bounds.    *)
(* First what the events do to a document, then what interleaved requests  *)
(* do to the files.                                                        *)
(***************************************************************************)
EXTENDS LivePlan, FiniteSetTheorems, WellFoundedInduction, TLAPS

----------------------------------------------------------------------------
(* Numbers and ids.                                                        *)

LEMMA LeastNatural ==
    ASSUME NEW S \in SUBSET Nat, S # {}
    PROVE  Least(S) \in S /\ \A n \in S : Least(S) <= n
<1> DEFINE Less == {pair \in Nat \X Nat : pair[1] < pair[2]}
<1>1. IsWellFoundedOn(Less, Nat)
  BY NatLessThanWellFounded DEF OpToRel
<1>2. PICK m \in S : \A n \in S : <<n, m>> \notin Less
  BY <1>1, WFMin
<1>3. ASSUME NEW n \in S PROVE m <= n
  <2>1. <<n, m>> \notin Less
    BY <1>2
  <2> QED BY <2>1
<1> QED BY <1>3 DEF Least

\* Among one more number than the list has entries there is one that no entry has.
LEMMA NextIdIsNew ==
    ASSUME NEW S, NEW list \in Seq(S)
    PROVE  NextId(list) \in Nat /\ \A i \in DOMAIN list : list[i].id # NextId(list)
<1> DEFINE L == Len(list)
           R == L + 1 .. 2 * L + 1
           free == {n \in R : \A i \in DOMAIN list : list[i].id # n}
<1>1. L \in Nat /\ DOMAIN list = 1 .. L
  OBVIOUS
<1>2. free # {}
  <2> SUFFICES ASSUME free = {} PROVE FALSE
    OBVIOUS
  <2>1. \A n \in R : \E i \in 1 .. L : list[i].id = n
    BY <1>1
  <2> DEFINE f == [n \in R |-> CHOOSE i \in 1 .. L : list[i].id = n]
  <2>2. f \in [R -> 1 .. L] /\ \A n \in R : list[f[n]].id = n
    BY <2>1
  <2>3. IsFiniteSet(R) /\ Cardinality(R) = L + 1
    <3>1. L + 1 \in Int /\ 2 * L + 1 \in Int /\ ~(L + 1 > 2 * L + 1)
          /\ (2 * L + 1) - (L + 1) + 1 = L + 1
      BY <1>1
    <3> QED BY <3>1, FS_Interval
  <2>4. IsFiniteSet(1 .. L) /\ Cardinality(1 .. L) = L
    BY <1>1, FS_Interval
  <2> HIDE DEF f, R
  <2>5. Cardinality(1 .. L) < Cardinality(R)
    BY <1>1, <2>3, <2>4
  <2>6. \E x, y \in R : x # y /\ f[x] = f[y]
    BY <2>2, <2>3, <2>4, <2>5, FS_PigeonHole
  <2> QED BY <2>2, <2>6
<1>3. free \in SUBSET Nat
  BY <1>1
<1>4. NextId(list) = Least(free)
  BY DEF NextId
<1> QED BY <1>2, <1>3, <1>4, LeastNatural

----------------------------------------------------------------------------
(* Batches.                                                                *)

LEMMA BatchOfOne ==
    ASSUME NEW doc, NEW e
    PROVE  AfterBatch(doc, <<e>>) = AfterEvent([ok |-> TRUE, doc |-> doc], e)
<1> DEFINE r == [ok |-> TRUE, doc |-> doc]
           IsAfter(f) == f = [n \in 0 .. 1 |-> IF n = 0 THEN r ELSE AfterEvent(f[n-1], <<e>>[n])]
           g == [n \in 0 .. 1 |-> IF n = 0 THEN r ELSE AfterEvent(r, e)]
<1>1. Len(<<e>>) = 1 /\ <<e>>[1] = e
  OBVIOUS
<1>2. IsAfter(g)
  <2>1. g[0] = r
    OBVIOUS
  <2>2. \A n \in 0 .. 1 : (IF n = 0 THEN r ELSE AfterEvent(g[n-1], <<e>>[n]))
                            = (IF n = 0 THEN r ELSE AfterEvent(r, e))
    BY <1>1, <2>1
  <2> QED BY <2>2
<1> DEFINE after == CHOOSE f : IsAfter(f)
<1>3. IsAfter(after)
  BY <1>2
<1>4. AfterBatch(doc, <<e>>) = after[1]
  BY <1>1 DEF AfterBatch
<1> HIDE DEF after, r
<1>5. after[0] = r
  BY <1>3
<1>6. after[1] = AfterEvent(r, e)
  BY <1>1, <1>3, <1>5
<1> QED BY <1>4, <1>6 DEF r

\* A batch with an event that the bridge refuses is refused.
LEMMA BatchRefused ==
    ASSUME NEW doc, NEW e, NEW x, \A d : ~Accepts(d, x)
    PROVE  ~AfterBatch(doc, <<e, x>>).ok
<1> DEFINE r == [ok |-> TRUE, doc |-> doc]
           b == <<e, x>>
           IsAfter(f) == f = [n \in 0 .. 2 |-> IF n = 0 THEN r ELSE AfterEvent(f[n-1], b[n])]
           r1 == AfterEvent(r, e)
           g == [n \in 0 .. 2 |-> IF n = 0 THEN r ELSE IF n = 1 THEN r1 ELSE AfterEvent(r1, x)]
<1>1. Len(b) = 2 /\ b[1] = e /\ b[2] = x
  OBVIOUS
<1>2. IsAfter(g)
  <2> HIDE DEF b, r
  <2>1. g[0] = r /\ g[1] = r1
    OBVIOUS
  <2>2. \A n \in 0 .. 2 : (IF n = 0 THEN r ELSE AfterEvent(g[n-1], b[n])) = g[n]
    BY <1>1, <2>1
  <2> QED BY <2>2
<1> DEFINE after == CHOOSE f : IsAfter(f)
<1>3. IsAfter(after)
  BY <1>2
<1>4. AfterBatch(doc, b) = after[2]
  BY <1>1 DEF AfterBatch
<1> HIDE DEF after, r, b
<1>5. \E r2 : after[2] = AfterEvent(r2, x)
  BY <1>1, <1>3
<1> QED BY <1>4, <1>5 DEF AfterEvent, b

----------------------------------------------------------------------------
(* Documents.                                                              *)

Item == [id : Nat, tag : Nat, status : ItemStatus]
Hand == [id : Nat, item : Nat, status : {"pending", "approved", "dismissed"},
         by : {"", "answer", "resolve"}]
Line == [id : Nat, tag : Nat]
Doc == [status : {"active", "finalized"}, mode : {"prompted", "independent-hand-raise"},
        meet : {"none", "bound"}, items : Seq(Item), hands : Seq(Hand),
        segs : Seq(Line), refs : Seq(Line)]

Distinct(list) == \A i, j \in DOMAIN list : list[i].id = list[j].id => i = j

HandIsUp(doc, id) ==
    \E h \in DOMAIN doc.hands :
        doc.hands[h].item = id /\ (doc.hands[h].status = "pending" \/ doc.hands[h].by = "resolve")

HandsUp(doc) ==
    \A i \in DOMAIN doc.items :
        doc.items[i].status = "read_back_pending" => HandIsUp(doc, doc.items[i].id)

\* What HandsFollowItems says of a session file holds of a document.
Sound(doc) ==
    /\ doc \in Doc
    /\ Distinct(doc.items) /\ Distinct(doc.hands) /\ Distinct(doc.segs) /\ Distinct(doc.refs)
DocOk(doc) == Sound(doc) /\ HandsUp(doc)

\* The events that users send, with the statuses they send.
EventTypes == {"reference.add", "transcript.segment", "item.propose", "item.confirm",
               "hand.raise", "hand.resolve", "mode.set", "meet.set"}
AnyEvent == [type : EventTypes, tag : Nat, id : Nat,
             status : ItemStatus \cup {"", "approved", "dismissed", "independent-hand-raise",
                                      "bound"}]
IsEvent(e) ==
    /\ e \in AnyEvent
    /\ e.type = "item.propose" => e.status \in {"draft", "read_back_pending"}
    /\ e.type = "item.confirm" => e.status \in Verified \cup {"rejected"}
    /\ e.type = "hand.resolve" => e.status \in {"approved", "dismissed"}
    /\ e.type = "mode.set" => e.status = "independent-hand-raise"
    /\ e.type = "meet.set" => e.status = "bound"

LEMMA AppendDistinct ==
    ASSUME NEW S, NEW list \in Seq(S), Distinct(list), NEW new, new.id = NextId(list)
    PROVE  Distinct(Append(list, new))
<1> DEFINE L == Len(list)
<1>1. \A i \in 1 .. L : list[i].id # NextId(list)
  BY NextIdIsNew
<1>2. /\ DOMAIN Append(list, new) = 1 .. L + 1
      /\ \A i \in 1 .. L : Append(list, new)[i] = list[i]
      /\ Append(list, new)[L + 1] = new
  OBVIOUS
<1> SUFFICES ASSUME NEW i \in 1 .. L + 1, NEW j \in 1 .. L + 1,
                    Append(list, new)[i].id = Append(list, new)[j].id
             PROVE  i = j
  BY <1>2 DEF Distinct
<1>3. CASE i \in 1 .. L /\ j \in 1 .. L
  BY <1>2, <1>3 DEF Distinct
<1>4. CASE i = L + 1 \/ j = L + 1
  BY <1>1, <1>2, <1>4
<1> QED BY <1>3, <1>4

LEMMA BlankIsOk == DocOk(Blank)
<1>1. << >> \in Seq(Item) /\ << >> \in Seq(Hand) /\ << >> \in Seq(Line)
  OBVIOUS
<1>2. DOMAIN << >> = {}
  <2>1. << >> \in Seq({}) /\ Len(<< >>) = 0
    OBVIOUS
  <2> QED BY <2>1
<1> QED BY <1>1, <1>2 DEF Blank, DocOk, Sound, Doc, Distinct, HandsUp
LEMMA DocFields ==
    ASSUME NEW doc \in Doc
    PROVE  /\ doc.items \in Seq(Item) /\ doc.hands \in Seq(Hand)
           /\ doc.segs \in Seq(Line) /\ doc.refs \in Seq(Line)
           /\ doc.status \in {"active", "finalized"} /\ doc.meet \in {"none", "bound"}
           /\ doc.mode \in {"prompted", "independent-hand-raise"}
BY DEF Doc

\* A document with another list of hands.
LEMMA HandsReplaced ==
    ASSUME NEW doc, Sound(doc), NEW hands \in Seq(Hand), Distinct(hands), NEW new,
           new = [doc EXCEPT !.hands = hands]
    PROVE  /\ Sound(new) /\ new.hands = hands /\ new.items = doc.items
           /\ new.segs = doc.segs /\ new.refs = doc.refs /\ new.status = doc.status
<1>1. doc \in Doc
  BY DEF Sound
<1>2. /\ new \in Doc /\ new.hands = hands /\ new.items = doc.items
      /\ new.segs = doc.segs /\ new.refs = doc.refs /\ new.status = doc.status
  BY <1>1 DEF Doc
<1> QED BY <1>2 DEF Sound

LEMMA ItemsReplaced ==
    ASSUME NEW doc, Sound(doc), NEW items \in Seq(Item), Distinct(items), NEW new,
           new = [doc EXCEPT !.items = items]
    PROVE  /\ Sound(new) /\ new.items = items /\ new.hands = doc.hands
           /\ new.segs = doc.segs /\ new.refs = doc.refs /\ new.status = doc.status
<1>1. doc \in Doc
  BY DEF Sound
<1>2. /\ new \in Doc /\ new.items = items /\ new.hands = doc.hands
      /\ new.segs = doc.segs /\ new.refs = doc.refs /\ new.status = doc.status
  BY <1>1 DEF Doc
<1> QED BY <1>2 DEF Sound

LEMMA RaiseHandOk ==
    ASSUME NEW doc, Sound(doc), NEW item \in Nat, NEW new, new = RaiseHand(doc, item)
    PROVE  /\ Sound(new) /\ new.items = doc.items /\ new.segs = doc.segs
           /\ new.refs = doc.refs /\ new.status = doc.status
           /\ \A id : HandIsUp(doc, id) => HandIsUp(new, id)
           /\ HandIsUp(new, item)
<1> DEFINE hand == [id |-> NextId(doc.hands), item |-> item, status |-> "pending", by |-> ""]
           hands == Append(doc.hands, hand)
<1>1. doc.hands \in Seq(Hand) /\ Distinct(doc.hands)
  BY DocFields DEF Sound
<1>2. hand \in Hand
  BY <1>1, NextIdIsNew DEF Hand
<1>4. hand.id = NextId(doc.hands) /\ hand.item = item /\ hand.status = "pending"
  OBVIOUS
<1>5. new = [doc EXCEPT !.hands = hands]
  BY DEF RaiseHand
<1> HIDE DEF hand
<1>3. hands \in Seq(Hand)
  BY <1>1, <1>2
<1>6. Distinct(hands)
  BY <1>1, <1>4, AppendDistinct
<1>7. /\ DOMAIN hands = 1 .. Len(doc.hands) + 1 /\ DOMAIN doc.hands = 1 .. Len(doc.hands)
      /\ \A h \in DOMAIN doc.hands : hands[h] = doc.hands[h]
      /\ hands[Len(doc.hands) + 1] = hand /\ Len(doc.hands) \in Nat
  BY <1>1
<1> HIDE DEF hands
<1>8. /\ Sound(new) /\ new.hands = hands /\ new.items = doc.items
      /\ new.segs = doc.segs /\ new.refs = doc.refs /\ new.status = doc.status
  BY <1>3, <1>5, <1>6, HandsReplaced
<1>9. \A id : HandIsUp(doc, id) => HandIsUp(new, id)
  BY <1>7, <1>8 DEF HandIsUp
<1>10. HandIsUp(new, item)
  BY <1>4, <1>7, <1>8 DEF HandIsUp
<1> QED BY <1>8, <1>9, <1>10

\* A hand that is closed.
Closes(doc, new, at, status, by) ==
    new = [doc EXCEPT !.hands = [doc.hands EXCEPT ![at] =
              [doc.hands[at] EXCEPT !.status = status, !.by = by]]]

LEMMA HandClosed ==
    ASSUME NEW doc, Sound(doc), NEW at \in DOMAIN doc.hands,
           NEW status \in {"approved", "dismissed"}, NEW by \in {"answer", "resolve"},
           NEW new, Closes(doc, new, at, status, by)
    PROVE  /\ Sound(new) /\ new.items = doc.items /\ new.segs = doc.segs
           /\ new.refs = doc.refs /\ new.status = doc.status
           /\ \A id : HandIsUp(doc, id) /\ (doc.hands[at].item # id \/ by = "resolve")
                 => HandIsUp(new, id)
<1> DEFINE hand == [doc.hands[at] EXCEPT !.status = status, !.by = by]
           hands == [doc.hands EXCEPT ![at] = hand]
<1>1. doc.hands \in Seq(Hand) /\ Distinct(doc.hands) /\ doc.hands[at] \in Hand
  <2>1. doc.hands \in Seq(Hand) /\ Distinct(doc.hands)
    BY DocFields DEF Sound
  <2> QED BY <2>1
<1>2. /\ hand \in Hand /\ hand.id = doc.hands[at].id /\ hand.item = doc.hands[at].item
      /\ hand.by = by
  BY <1>1 DEF Hand
<1>3. /\ hands \in Seq(Hand) /\ DOMAIN hands = DOMAIN doc.hands /\ hands[at] = hand
      /\ \A h \in DOMAIN doc.hands : h # at => hands[h] = doc.hands[h]
  BY <1>1, <1>2
<1>4. new = [doc EXCEPT !.hands = hands]
  BY DEF Closes
<1> HIDE DEF hands, hand
<1>5. Distinct(hands)
  <2>1. \A h \in DOMAIN doc.hands : hands[h].id = doc.hands[h].id
    BY <1>2, <1>3
  <2> QED BY <1>1, <1>3, <2>1 DEF Distinct
<1>6. /\ Sound(new) /\ new.hands = hands /\ new.items = doc.items
      /\ new.segs = doc.segs /\ new.refs = doc.refs /\ new.status = doc.status
  BY <1>3, <1>4, <1>5, HandsReplaced
<1>7. ASSUME NEW id, HandIsUp(doc, id), doc.hands[at].item # id \/ by = "resolve"
      PROVE  HandIsUp(new, id)
  <2>1. PICK h \in DOMAIN doc.hands :
            /\ doc.hands[h].item = id
            /\ doc.hands[h].status = "pending" \/ doc.hands[h].by = "resolve"
    BY <1>7 DEF HandIsUp
  <2>2. hands[h].item = id /\ (hands[h].status = "pending" \/ hands[h].by = "resolve")
    BY <1>2, <1>3, <1>7, <2>1
  <2> QED BY <1>3, <1>6, <2>2 DEF HandIsUp
<1> QED BY <1>6, <1>7

LEMMA ResolvePendingHandOk ==
    ASSUME NEW doc, Sound(doc), NEW item, NEW status \in {"approved", "dismissed"},
           NEW new, new = ResolvePendingHand(doc, item, status)
    PROVE  /\ Sound(new) /\ new.items = doc.items /\ new.segs = doc.segs
           /\ new.refs = doc.refs /\ new.status = doc.status
           /\ \A id : id # item /\ HandIsUp(doc, id) => HandIsUp(new, id)
<1> DEFINE open == {i \in DOMAIN doc.hands :
                       doc.hands[i].item = item /\ doc.hands[i].status = "pending"}
<1>1. CASE open = {}
  BY <1>1 DEF ResolvePendingHand
<1>2. CASE open # {}
  <2> DEFINE at == Least(open)
  <2>1. open \in SUBSET Nat
    BY DocFields DEF Sound
  <2>2. at \in open
    BY <1>2, <2>1, LeastNatural
  <2>3. Closes(doc, new, at, status, "answer")
    BY <1>2 DEF ResolvePendingHand, Closes
  <2>4. at \in DOMAIN doc.hands /\ doc.hands[at].item = item
    BY <2>2
  <2> HIDE DEF at, open
  <2>6. /\ Sound(new) /\ new.items = doc.items /\ new.segs = doc.segs
        /\ new.refs = doc.refs /\ new.status = doc.status
        /\ \A id : HandIsUp(doc, id) /\ doc.hands[at].item # id => HandIsUp(new, id)
    BY <2>3, <2>4, HandClosed
  <2> QED BY <2>4, <2>6
<1> QED BY <1>1, <1>2

LEMMA ResolveHandOk ==
    ASSUME NEW doc, Sound(doc), NEW e, e.id \in IdsOf(doc.hands),
           e.status \in {"approved", "dismissed"}, NEW new, new = ResolveHand(doc, e)
    PROVE  /\ Sound(new) /\ new.items = doc.items /\ new.segs = doc.segs
           /\ new.refs = doc.refs /\ new.status = doc.status
           /\ \A id : HandIsUp(doc, id) => HandIsUp(new, id)
<1> DEFINE own == {i \in DOMAIN doc.hands : doc.hands[i].id = e.id}
           at == Least(own)
<1>1. own \in SUBSET Nat /\ own # {}
  BY DocFields DEF Sound, IdsOf
<1>2. at \in own
  BY <1>1, LeastNatural
<1>3. Closes(doc, new, at, e.status, "resolve")
  BY DEF ResolveHand, Closes
<1>4. at \in DOMAIN doc.hands
  BY <1>2
<1> HIDE DEF at, own
<1> QED BY <1>3, <1>4, HandClosed

\* What a document held it holds: entries stay at their place, with their id and words.
Grows(doc, new) ==
    /\ \A i \in DOMAIN doc.items :
          /\ i \in DOMAIN new.items
          /\ new.items[i].id = doc.items[i].id /\ new.items[i].tag = doc.items[i].tag
    /\ \A i \in DOMAIN doc.segs : i \in DOMAIN new.segs /\ new.segs[i] = doc.segs[i]
    /\ \A i \in DOMAIN doc.refs : i \in DOMAIN new.refs /\ new.refs[i] = doc.refs[i]

\* The confirmed items of a document were read back, if R is what was read back.
ReadBy(doc, R) ==
    \A i \in DOMAIN doc.items : doc.items[i].status \in Verified => doc.items[i].tag \in R

\* The wording of an answer is that of the item it answers.
TagFits(doc, e) ==
    e.type = "item.confirm" =>
        \A i \in DOMAIN doc.items : doc.items[i].id = e.id => e.tag \in {0, doc.items[i].tag}
AnswerRead(doc, e, R) ==
    e.type = "item.confirm" /\ e.status \in Verified =>
        \A i \in DOMAIN doc.items : doc.items[i].id = e.id => doc.items[i].tag \in R

BringsText == {"item.propose", "transcript.segment", "reference.add"}

LEMMA AppendReferenceOk ==
    ASSUME NEW doc, DocOk(doc), NEW e, IsEvent(e), NEW new, new = AppendReference(doc, e)
    PROVE  /\ DocOk(new) /\ new.status = doc.status /\ Grows(doc, new)
           /\ new.items = doc.items /\ e.tag \in Texts(new)
<1> DEFINE line == [id |-> NextId(doc.refs), tag |-> e.tag]
           refs == Append(doc.refs, line)
<1>1. doc \in Doc /\ doc.refs \in Seq(Line) /\ Distinct(doc.refs)
  BY DocFields DEF DocOk, Sound
<1>2. line \in Line /\ line.id = NextId(doc.refs) /\ line.tag = e.tag
  BY <1>1, NextIdIsNew DEF Line, IsEvent, AnyEvent
<1>3. new = [doc EXCEPT !.refs = refs]
  BY DEF AppendReference
<1> HIDE DEF line
<1>4. /\ refs \in Seq(Line) /\ Len(doc.refs) \in Nat
      /\ DOMAIN refs = 1 .. Len(doc.refs) + 1 /\ DOMAIN doc.refs = 1 .. Len(doc.refs)
      /\ \A i \in DOMAIN doc.refs : refs[i] = doc.refs[i]
      /\ refs[Len(doc.refs) + 1] = line
  BY <1>1, <1>2
<1>5. Distinct(refs)
  BY <1>1, <1>2, AppendDistinct
<1> HIDE DEF refs
<1>6. /\ new \in Doc /\ new.refs = refs /\ new.items = doc.items /\ new.hands = doc.hands
      /\ new.segs = doc.segs /\ new.status = doc.status
  BY <1>1, <1>3, <1>4 DEF Doc
<1>7. DocOk(new)
  BY <1>5, <1>6 DEF DocOk, Sound, HandsUp, HandIsUp
<1>8. Grows(doc, new)
  BY <1>4, <1>6 DEF Grows
<1>9. e.tag \in TagsOf(new.refs)
  BY <1>2, <1>4, <1>6 DEF TagsOf
<1> QED BY <1>6, <1>7, <1>8, <1>9 DEF Texts

LEMMA AppendTranscriptOk ==
    ASSUME NEW doc, DocOk(doc), NEW e, IsEvent(e), NEW new, new = AppendTranscript(doc, e)
    PROVE  /\ DocOk(new) /\ new.status = doc.status /\ Grows(doc, new)
           /\ new.items = doc.items /\ e.tag \in Texts(new)
<1> DEFINE line == [id |-> NextId(doc.segs), tag |-> e.tag]
           segs == Append(doc.segs, line)
<1>1. doc \in Doc /\ doc.segs \in Seq(Line) /\ Distinct(doc.segs)
  BY DocFields DEF DocOk, Sound
<1>2. line \in Line /\ line.id = NextId(doc.segs) /\ line.tag = e.tag
  BY <1>1, NextIdIsNew DEF Line, IsEvent, AnyEvent
<1>3. new = [doc EXCEPT !.segs = segs]
  BY DEF AppendTranscript
<1> HIDE DEF line
<1>4. /\ segs \in Seq(Line) /\ Len(doc.segs) \in Nat
      /\ DOMAIN segs = 1 .. Len(doc.segs) + 1 /\ DOMAIN doc.segs = 1 .. Len(doc.segs)
      /\ \A i \in DOMAIN doc.segs : segs[i] = doc.segs[i]
      /\ segs[Len(doc.segs) + 1] = line
  BY <1>1, <1>2
<1>5. Distinct(segs)
  BY <1>1, <1>2, AppendDistinct
<1> HIDE DEF segs
<1>6. /\ new \in Doc /\ new.segs = segs /\ new.items = doc.items /\ new.hands = doc.hands
      /\ new.refs = doc.refs /\ new.status = doc.status
  BY <1>1, <1>3, <1>4 DEF Doc
<1>7. DocOk(new)
  BY <1>5, <1>6 DEF DocOk, Sound, HandsUp, HandIsUp
<1>8. Grows(doc, new)
  BY <1>4, <1>6 DEF Grows
<1>9. e.tag \in TagsOf(new.segs)
  BY <1>2, <1>4, <1>6 DEF TagsOf
<1> QED BY <1>6, <1>7, <1>8, <1>9 DEF Texts

LEMMA AppendPlanItemOk ==
    ASSUME NEW doc, DocOk(doc), NEW e, IsEvent(e), e.type = "item.propose",
           NEW new, new = AppendPlanItem(doc, e)
    PROVE  /\ DocOk(new) /\ new.status = doc.status /\ Grows(doc, new)
           /\ e.tag \in Texts(new) /\ \A R : ReadBy(doc, R) => ReadBy(new, R)
<1> DEFINE id == NextId(doc.items)
           item == [id |-> id, tag |-> e.tag, status |-> e.status]
           items == Append(doc.items, item)
           added == [doc EXCEPT !.items = items]
<1>1. doc \in Doc /\ doc.items \in Seq(Item) /\ Distinct(doc.items)
  BY DocFields DEF DocOk, Sound
<1>2. /\ id \in Nat /\ item \in Item /\ item.id = id /\ item.tag = e.tag
      /\ item.status = e.status /\ e.status \in {"draft", "read_back_pending"}
  BY <1>1, NextIdIsNew DEF Item, ItemStatus, IsEvent, AnyEvent
<1>3. new = IF e.status = "read_back_pending" THEN RaiseHand(added, id) ELSE added
  BY DEF AppendPlanItem
<1>4. item.id = NextId(doc.items)
  OBVIOUS
<1> HIDE DEF item, id
<1>5. /\ items \in Seq(Item) /\ Len(doc.items) \in Nat
      /\ DOMAIN items = 1 .. Len(doc.items) + 1 /\ DOMAIN doc.items = 1 .. Len(doc.items)
      /\ \A i \in DOMAIN doc.items : items[i] = doc.items[i]
      /\ items[Len(doc.items) + 1] = item
  BY <1>1, <1>2
<1>6. Distinct(items)
  BY <1>1, <1>4, AppendDistinct
<1> HIDE DEF items
<1>7. /\ Sound(added) /\ added.items = items /\ added.hands = doc.hands
      /\ added.segs = doc.segs /\ added.refs = doc.refs /\ added.status = doc.status
  <2>1. added = [doc EXCEPT !.items = items]
    OBVIOUS
  <2> HIDE DEF added
  <2> QED BY <1>5, <1>6, <2>1, ItemsReplaced DEF DocOk
<1> HIDE DEF added
<1>8. /\ Sound(new) /\ new.items = items /\ new.segs = doc.segs /\ new.refs = doc.refs
      /\ new.status = doc.status
      /\ \A x : HandIsUp(doc, x) => HandIsUp(new, x)
      /\ e.status = "read_back_pending" => HandIsUp(new, id)
  <2>1. \A x : HandIsUp(doc, x) => HandIsUp(added, x)
    BY <1>7 DEF HandIsUp
  <2>2. CASE e.status = "read_back_pending"
    <3>1. new = RaiseHand(added, id)
      BY <1>3, <2>2
    <3>2. /\ Sound(new) /\ new.items = added.items /\ new.segs = added.segs
          /\ new.refs = added.refs /\ new.status = added.status
          /\ \A x : HandIsUp(added, x) => HandIsUp(new, x)
          /\ HandIsUp(new, id)
      BY <1>2, <1>7, <3>1, RaiseHandOk
    <3> QED BY <1>7, <2>1, <3>2
  <2>3. CASE e.status # "read_back_pending"
    BY <1>3, <1>7, <2>1, <2>3
  <2> QED BY <2>2, <2>3
<1>9. HandsUp(new)
  <2> SUFFICES ASSUME NEW i \in DOMAIN items, items[i].status = "read_back_pending"
               PROVE  HandIsUp(new, items[i].id)
    BY <1>8 DEF HandsUp
  <2>1. CASE i \in DOMAIN doc.items
    BY <1>5, <1>8, <2>1 DEF DocOk, HandsUp
  <2>2. CASE i = Len(doc.items) + 1
    BY <1>2, <1>5, <1>8, <2>2
  <2> QED BY <1>5, <2>1, <2>2
<1>10. Grows(doc, new)
  BY <1>5, <1>8 DEF Grows
<1>11. e.tag \in TagsOf(new.items)
  BY <1>2, <1>5, <1>8 DEF TagsOf
<1>12. ASSUME NEW R, ReadBy(doc, R) PROVE ReadBy(new, R)
  <2> SUFFICES ASSUME NEW i \in DOMAIN items, items[i].status \in Verified
               PROVE  items[i].tag \in R
    BY <1>8 DEF ReadBy
  <2>1. items[Len(doc.items) + 1].status \notin Verified
    BY <1>2, <1>5 DEF Verified
  <2>2. i \in DOMAIN doc.items
    BY <1>5, <2>1
  <2> QED BY <1>5, <1>12, <2>2 DEF ReadBy
<1> QED BY <1>8, <1>9, <1>10, <1>11, <1>12 DEF DocOk, Texts

LEMMA ConfirmPlanItemOk ==
    ASSUME NEW doc, DocOk(doc), NEW e, IsEvent(e), e.type = "item.confirm",
           e.id \in IdsOf(doc.items), NEW new, new = ConfirmPlanItem(doc, e)
    PROVE  /\ DocOk(new) /\ new.status = doc.status
           /\ TagFits(doc, e) =>
                /\ Grows(doc, new)
                /\ \A R : ReadBy(doc, R) /\ AnswerRead(doc, e, R) => ReadBy(new, R)
<1> DEFINE own == {i \in DOMAIN doc.items : doc.items[i].id = e.id}
           at == Least(own)
           item == Answered(doc.items[at], e)
           items == [doc.items EXCEPT ![at] = item]
           answered == [doc EXCEPT !.items = items]
           how == IF e.status \in Verified THEN "approved" ELSE "dismissed"
<1>1. doc \in Doc /\ doc.items \in Seq(Item) /\ Distinct(doc.items)
  BY DocFields DEF DocOk, Sound
<1>2. at \in own
  <2>1. own \in SUBSET Nat /\ own # {}
    BY <1>1 DEF IdsOf
  <2> QED BY <2>1, LeastNatural
<1>3. at \in DOMAIN doc.items /\ doc.items[at].id = e.id /\ doc.items[at] \in Item
  <2> HIDE DEF at
  <2>1. at \in DOMAIN doc.items /\ doc.items[at].id = e.id
    BY <1>2
  <2> QED BY <1>1, <2>1
<1>4. new = ResolvePendingHand(answered, e.id, how)
  BY DEF ConfirmPlanItem
<1> HIDE DEF at, own
<1>5. /\ item \in Item /\ item.id = e.id /\ item.status = e.status
      /\ item.tag = IF e.tag = 0 THEN doc.items[at].tag ELSE e.tag
      /\ e.status \in Verified \cup {"rejected"}
  BY <1>3 DEF Answered, Item, IsEvent, AnyEvent, ItemStatus
<1> HIDE DEF item
<1>6. /\ items \in Seq(Item) /\ DOMAIN items = DOMAIN doc.items /\ items[at] = item
      /\ \A i \in DOMAIN doc.items : i # at => items[i] = doc.items[i]
  BY <1>1, <1>3, <1>5
<1> HIDE DEF items
<1>7. Distinct(items)
  <2>1. \A i \in DOMAIN doc.items : items[i].id = doc.items[i].id
    BY <1>3, <1>5, <1>6
  <2> QED BY <1>1, <1>6, <2>1 DEF Distinct
<1>8. /\ Sound(answered) /\ answered.items = items /\ answered.hands = doc.hands
      /\ answered.segs = doc.segs /\ answered.refs = doc.refs
      /\ answered.status = doc.status
  <2>1. answered = [doc EXCEPT !.items = items]
    OBVIOUS
  <2> HIDE DEF answered
  <2> QED BY <1>6, <1>7, <2>1, ItemsReplaced DEF DocOk
<1>9. how \in {"approved", "dismissed"}
  OBVIOUS
<1> HIDE DEF answered, how
<1>10. /\ Sound(new) /\ new.items = items /\ new.segs = doc.segs
       /\ new.refs = doc.refs /\ new.status = doc.status
       /\ \A id : id # e.id /\ HandIsUp(answered, id) => HandIsUp(new, id)
  BY <1>4, <1>8, <1>9, ResolvePendingHandOk
<1>11. HandsUp(new)
  <2> SUFFICES ASSUME NEW i \in DOMAIN items, items[i].status = "read_back_pending"
               PROVE  HandIsUp(new, items[i].id)
    BY <1>10 DEF HandsUp
  <2>1. i # at
    BY <1>5, <1>6 DEF Verified
  <2>2. i \in DOMAIN doc.items /\ items[i] = doc.items[i]
    BY <1>6, <2>1
  <2>3. items[i].id # e.id
    BY <1>1, <1>3, <2>1, <2>2 DEF Distinct
  <2>4. HandIsUp(doc, items[i].id)
    BY <2>2 DEF DocOk, HandsUp
  <2>5. HandIsUp(answered, items[i].id)
    BY <1>8, <2>4 DEF HandIsUp
  <2> QED BY <1>10, <2>3, <2>5
<1>12. ASSUME TagFits(doc, e)
       PROVE  /\ Grows(doc, new)
              /\ \A R : ReadBy(doc, R) /\ AnswerRead(doc, e, R) => ReadBy(new, R)
  <2>1. item.tag = doc.items[at].tag
    BY <1>3, <1>5, <1>12 DEF TagFits
  <2>2. \A i \in DOMAIN doc.items :
           items[i].id = doc.items[i].id /\ items[i].tag = doc.items[i].tag
    BY <1>3, <1>5, <1>6, <2>1
  <2>3. Grows(doc, new)
    BY <1>6, <1>10, <2>2 DEF Grows
  <2>4. ASSUME NEW R, ReadBy(doc, R), AnswerRead(doc, e, R) PROVE ReadBy(new, R)
    <3> SUFFICES ASSUME NEW i \in DOMAIN items, items[i].status \in Verified
                 PROVE  items[i].tag \in R
      BY <1>10 DEF ReadBy
    <3>1. CASE i = at
      BY <1>3, <1>5, <1>6, <2>2, <2>4, <3>1 DEF AnswerRead
    <3>2. CASE i # at
      BY <1>6, <2>4, <3>2 DEF ReadBy
    <3> QED BY <3>1, <3>2
  <2> QED BY <2>3, <2>4
<1> QED BY <1>10, <1>11, <1>12 DEF DocOk

LEMMA ApplyOk ==
    ASSUME NEW doc, DocOk(doc), NEW e, IsEvent(e), Accepts(doc, e),
           NEW new, new = Apply(doc, e)
    PROVE  /\ DocOk(new) /\ new.status = doc.status
           /\ e.type \in BringsText => e.tag \in Texts(new)
           /\ TagFits(doc, e) =>
                /\ Grows(doc, new)
                /\ \A R : ReadBy(doc, R) /\ AnswerRead(doc, e, R) => ReadBy(new, R)
<1>1. CASE e.type = "reference.add"
  BY <1>1, AppendReferenceOk DEF Apply, ReadBy
<1>2. CASE e.type = "transcript.segment"
  BY <1>2, AppendTranscriptOk DEF Apply, ReadBy
<1>3. CASE e.type = "item.propose"
  BY <1>3, AppendPlanItemOk DEF Apply
<1>4. CASE e.type = "item.confirm"
  BY <1>4, ConfirmPlanItemOk DEF Apply, Accepts, BringsText
<1>5. ASSUME Sound(new), new.items = doc.items, new.segs = doc.segs,
             new.refs = doc.refs, new.status = doc.status, e.type \notin BringsText,
             \A id : HandIsUp(doc, id) => HandIsUp(new, id)
      PROVE  /\ DocOk(new) /\ new.status = doc.status
             /\ e.type \in BringsText => e.tag \in Texts(new)
             /\ TagFits(doc, e) =>
                  /\ Grows(doc, new)
                  /\ \A R : ReadBy(doc, R) /\ AnswerRead(doc, e, R) => ReadBy(new, R)
  BY <1>5 DEF DocOk, HandsUp, Grows, ReadBy
<1>6. CASE e.type = "hand.raise"
  <2>1. new = RaiseHand(doc, e.id) /\ e.id \in Nat /\ e.type \notin BringsText
    BY <1>6 DEF Apply, IsEvent, AnyEvent, BringsText
  <2> QED BY <1>5, <2>1, RaiseHandOk DEF DocOk
<1>7. CASE e.type = "hand.resolve"
  <2>1. /\ new = ResolveHand(doc, e) /\ e.id \in IdsOf(doc.hands)
        /\ e.status \in {"approved", "dismissed"} /\ e.type \notin BringsText
    BY <1>7 DEF Apply, Accepts, IsEvent, BringsText
  <2> QED BY <1>5, <2>1, ResolveHandOk DEF DocOk
<1>8. CASE e.type \in {"mode.set", "meet.set"}
  <2>1. /\ new = [doc EXCEPT !.mode = "independent-hand-raise"]
              \/ new = [doc EXCEPT !.meet = "bound"]
        /\ doc \in Doc /\ e.type \notin BringsText
    BY <1>8 DEF Apply, SetMode, SetMeet, IsEvent, BringsText, DocOk, Sound
  <2>2. /\ new \in Doc /\ new.items = doc.items /\ new.segs = doc.segs
        /\ new.refs = doc.refs /\ new.status = doc.status /\ new.hands = doc.hands
    BY <2>1 DEF Doc
  <2> QED BY <1>5, <2>1, <2>2 DEF DocOk, Sound, HandIsUp
<1> QED BY <1>1, <1>2, <1>3, <1>4, <1>6, <1>7, <1>8 DEF IsEvent, AnyEvent, EventTypes

----------------------------------------------------------------------------
(* The steps that are left of a request are the end of the list of its job. *)

Pends(c, step) == \E i \in DOMAIN c.todo : c.todo[i] = step

EndOf(steps, todo) ==
    /\ Len(todo) <= Len(steps)
    /\ \A i \in DOMAIN todo : todo[i] = steps[Len(steps) - Len(todo) + i]

Jobs == {"event", "command", "meet", "start", "finalize"}
StepName == {"truncate", "write", "reload", "index_load", "index_truncate", "index_write",
             "answer", "runtime", "panel", "plan", "handoff"}
Call == [todo : Seq(StepName), s : Session \cup {""}, job : Jobs \cup {""},
         batch : Seq(AnyEvent), doc : Doc,
         idx : Seq([Session -> {"", "active", "finalized"}])]

CallOk(c) ==
    /\ c \in Call /\ DocOk(c.doc)
    /\ c.todo # <<>> => c.s \in Session /\ c.job \in Jobs /\ EndOf(StepsOf(c.job), c.todo)
    /\ c.todo # <<>> /\ Head(c.todo) \in {"index_truncate", "index_write"} => c.idx # <<>>

----------------------------------------------------------------------------
(* The inductive invariant.                                                *)

FileOf(S) == {NoFile, Torn, Garbled} \cup {Holds(x) : x \in S}
View == [of : Session \cup {""}, queue : [items : SUBSET Item, hands : SUBSET Nat]]
Rendered == {<<>>} \cup {<<Render(f, doc)>> : f \in SideFile, doc \in Doc}

TypeOk ==
    /\ session \in [Session -> FileOf(Doc)]
    /\ files \in [Session -> [SideFile -> Rendered]]
    /\ index \in FileOf([Session -> {"", "active", "finalized"}])
    /\ pc \in [Proc -> Call]
    /\ view \in [Proc -> View]
    /\ DOMAIN heard = Proc /\ texts \in Nat
    /\ acked \in [Session -> SUBSET Nat]

PanelOk(panel) == panel # <<>> => \E doc \in Doc : panel = <<Panel(doc)>>

DocsOk ==
    /\ \A p \in Proc : CallOk(pc[p])
    /\ \A s \in Session : Readable(session[s]) => DocOk(Content(session[s]))
    /\ \A s \in Session : PanelOk(files[s]["panel"])

\* The files of a session that somebody calls finalized are there, or he is going
\* to write them before he writes the session file.
OnDisk(s) == \A i \in DOMAIN FinalFiles : files[s][FinalFiles[i]] # <<>>

FilesFirst ==
    /\ FinalizedHasFiles
    /\ \A p \in Proc : Busy(p) /\ pc[p].doc.status = "finalized" =>
          \A i \in DOMAIN FinalFiles :
              files[pc[p].s][FinalFiles[i]] # <<>> \/ Pends(pc[p], FinalFiles[i])
    /\ \A p \in Proc : pc[p].idx # <<>> =>
          \A s \in Session : pc[p].idx[1][s] = "finalized" => OnDisk(s)

\* The documents of s that may be read, now or once they are written.
Current(s, doc) ==
    \/ Readable(session[s]) /\ doc = Content(session[s])
    \/ session[s].kind = "missing" /\ doc = Blank
    \/ \E p \in Proc : Holding(p, s) /\ doc = pc[p].doc

ViewFits(queue, doc) ==
    \A item \in queue.items :
        \E i \in DOMAIN doc.items :
            doc.items[i].id = item.id /\ doc.items[i].tag = item.tag

PanelFits(panel, doc) ==
    panel # <<>> =>
        /\ panel[1].segs <= Len(doc.segs)
        /\ panel[1].refs <= Len(doc.refs)
        /\ \A item \in panel[1].queue.items : item.id \in IdsOf(doc.items)

\* A document of s that holds all that anybody was told, or was shown, of s.
Agrees(s, doc) ==
    /\ acked[s] \subseteq Texts(doc)
    /\ ReadBy(doc, readback)
    /\ Readable(session[s]) => Grows(Content(session[s]), doc)
    /\ \A p \in Proc : Busy(p) /\ pc[p].s = s /\ ~Holding(p, s) =>
          NewTexts(pc[p].batch) \subseteq Texts(doc) /\ Grows(pc[p].doc, doc)
    /\ \A p \in Proc : view[p].of = s => ViewFits(view[p].queue, doc)
    /\ PanelFits(files[s]["panel"], doc)

\* A session where no two requests clashed.
Calm(s) ==
    /\ \A p, q \in Proc : Holding(p, s) /\ Holding(q, s) => p = q
    /\ \A p \in Proc : Holding(p, s) => NewTexts(pc[p].batch) \subseteq Texts(pc[p].doc)
    /\ \A p \in Proc : At(p, "write") /\ pc[p].s = s => session[s] = Torn
    /\ session[s] = Torn => \E p \in Proc : At(p, "write") /\ pc[p].s = s
    /\ session[s] # Garbled
    /\ \A doc : Current(s, doc) => Agrees(s, doc)
    /\ files[s]["plan"] # <<>> =>
          \A item \in files[s]["plan"][1].confirmed : item.tag \in readback

Inv ==
    /\ TypeOk /\ DocsOk /\ FilesFirst
    /\ \A s \in Session \ clash : Calm(s)

LEMMA EmptyIsEmpty == Len(<<>>) = 0 /\ DOMAIN <<>> = {}
<1>1. <<>> \in Seq({}) /\ Len(<<>>) = 0
  OBVIOUS
<1> QED BY <1>1

IsCat(c, a, b) == c = a \o b

LEMMA CatIs ==
    ASSUME NEW S, NEW a \in Seq(S), NEW b \in Seq(S), NEW c, IsCat(c, a, b)
    PROVE  /\ c \in Seq(S) /\ Len(c) = Len(a) + Len(b)
           /\ \A i \in 1 .. Len(a) : c[i] = a[i]
           /\ \A i \in 1 .. Len(b) : c[Len(a) + i] = b[i]
<1>1. /\ a \o b \in Seq(S) /\ Len(a \o b) = Len(a) + Len(b)
      /\ \A i \in 1 .. Len(a) : (a \o b)[i] = a[i]
      /\ \A i \in 1 .. Len(b) : (a \o b)[Len(a) + i] = b[i]
  OBVIOUS
<1>2. c = a \o b
  BY DEF IsCat
<1> QED BY <1>1, <1>2, Zenon

\* The order of the steps that the invariant rests on.
OnceEach(steps) ==
    steps \in Seq(StepName) /\ \A i, j \in 1 .. Len(steps) : steps[i] = steps[j] => i = j
WritesOnce(steps) ==
    /\ \A i \in 1 .. Len(steps) :
          steps[i] = "truncate" => i < Len(steps) /\ steps[i + 1] = "write"
    /\ \A i \in 1 .. Len(steps) - 1 : steps[i + 1] = "write" => steps[i] = "truncate"
AnswersLast(steps) ==
    \A i, j \in 1 .. Len(steps) :
        steps[i] \in {"panel", "reload", "answer"} /\ i <= j => steps[j] # "write"
PlansFirst(steps) ==
    /\ \A i \in 1 .. Len(steps) :
          steps[i] = "plan" => \E j \in i .. Len(steps) : steps[j] = "write"
    /\ \A i, j \in 1 .. Len(steps) :
          /\ steps[i] \in {"write", "reload", "index_load", "index_truncate", "index_write"}
          /\ i <= j
          => steps[j] # "plan" /\ steps[j] # "handoff"
IndexLoadsFirst(steps) ==
    \A i \in 1 .. Len(steps) - 1 :
        steps[i + 1] \in {"index_truncate", "index_write"} =>
            steps[i] \in {"index_load", "index_truncate"}
Orderly(steps) ==
    /\ OnceEach(steps) /\ WritesOnce(steps) /\ AnswersLast(steps) /\ PlansFirst(steps)
    /\ IndexLoadsFirst(steps)

Begins(steps) ==
    /\ steps # <<>> /\ Head(steps) \notin {"write", "index_truncate", "index_write"}
    /\ \E i \in 1 .. Len(steps) : steps[i] = "write"
Finals(steps) ==
    \A i \in DOMAIN FinalFiles : \E j \in 1 .. Len(steps) : steps[j] = FinalFiles[i]

LEMMA StepsAreOrderly ==
    \A job \in Jobs : /\ Orderly(StepsOf(job)) /\ Begins(StepsOf(job))
                      /\ job = "finalize" => Finals(StepsOf(job))
<1>1. Orderly(StepsOf("event")) /\ Begins(StepsOf("event"))
  <2> DEFINE steps == StepsOf("event")
  <2>1. steps = <<"truncate", "write", "runtime", "panel", "answer">>
    BY DEF StepsOf
  <2> HIDE DEF steps
  <2>2. /\ steps \in Seq(StepName) /\ Len(steps) = 5
        /\ steps[1] = "truncate" /\ steps[2] = "write" /\ steps[3] = "runtime"
        /\ steps[4] = "panel" /\ steps[5] = "answer"
    BY <2>1 DEF StepName
  <2>3. OnceEach(steps)
    BY <2>2 DEF OnceEach
  <2>4. WritesOnce(steps)
    BY <2>2 DEF WritesOnce
  <2>5. AnswersLast(steps)
    BY <2>2 DEF AnswersLast
  <2>6. PlansFirst(steps)
    BY <2>2 DEF PlansFirst
  <2>7. IndexLoadsFirst(steps)
    BY <2>2 DEF IndexLoadsFirst
  <2>8. Begins(steps)
    BY <2>2, EmptyIsEmpty DEF Begins
  <2> QED BY <2>3, <2>4, <2>5, <2>6, <2>7, <2>8 DEF Orderly, steps
<1>2. Orderly(StepsOf("command")) /\ Begins(StepsOf("command"))
  <2> DEFINE steps == StepsOf("command")
  <2>1. steps = <<"truncate", "write", "answer">>
    BY DEF StepsOf
  <2> HIDE DEF steps
  <2>2. /\ steps \in Seq(StepName) /\ Len(steps) = 3
        /\ steps[1] = "truncate" /\ steps[2] = "write" /\ steps[3] = "answer"
    BY <2>1 DEF StepName
  <2>3. OnceEach(steps)
    BY <2>2 DEF OnceEach
  <2>4. WritesOnce(steps)
    BY <2>2 DEF WritesOnce
  <2>5. AnswersLast(steps)
    BY <2>2 DEF AnswersLast
  <2>6. PlansFirst(steps)
    BY <2>2 DEF PlansFirst
  <2>7. IndexLoadsFirst(steps)
    BY <2>2 DEF IndexLoadsFirst
  <2>8. Begins(steps)
    BY <2>2, EmptyIsEmpty DEF Begins
  <2> QED BY <2>3, <2>4, <2>5, <2>6, <2>7, <2>8 DEF Orderly, steps
<1>3. Orderly(StepsOf("meet")) /\ Begins(StepsOf("meet"))
  <2> DEFINE steps == StepsOf("meet")
  <2>1. steps = <<"truncate", "write", "runtime", "answer">>
    BY DEF StepsOf
  <2> HIDE DEF steps
  <2>2. /\ steps \in Seq(StepName) /\ Len(steps) = 4
        /\ steps[1] = "truncate" /\ steps[2] = "write" /\ steps[3] = "runtime"
        /\ steps[4] = "answer"
    BY <2>1 DEF StepName
  <2>3. OnceEach(steps)
    BY <2>2 DEF OnceEach
  <2>4. WritesOnce(steps)
    BY <2>2 DEF WritesOnce
  <2>5. AnswersLast(steps)
    BY <2>2 DEF AnswersLast
  <2>6. PlansFirst(steps)
    BY <2>2 DEF PlansFirst
  <2>7. IndexLoadsFirst(steps)
    BY <2>2 DEF IndexLoadsFirst
  <2>8. Begins(steps)
    BY <2>2, EmptyIsEmpty DEF Begins
  <2> QED BY <2>3, <2>4, <2>5, <2>6, <2>7, <2>8 DEF Orderly, steps
<1>4. Orderly(StepsOf("start")) /\ Begins(StepsOf("start"))
  <2> DEFINE steps == StepsOf("start")
             file == <<"truncate", "write">>
             five == file \o IndexSteps
  <2>1. steps = five \o <<"answer">>
    BY DEF StepsOf
  <2> HIDE DEF steps, five, file
  <2>2. /\ file \in Seq(StepName) /\ Len(file) = 2
        /\ file[1] = "truncate" /\ file[2] = "write"
    BY DEF file, StepName
  <2>3. /\ IndexSteps \in Seq(StepName) /\ Len(IndexSteps) = 3 /\ IndexSteps[1] = "index_load"
        /\ IndexSteps[2] = "index_truncate" /\ IndexSteps[3] = "index_write"
    BY DEF IndexSteps, StepName
  <2>4. /\ five \in Seq(StepName) /\ Len(five) = 5
        /\ five[1] = "truncate" /\ five[2] = "write" /\ five[3] = "index_load"
        /\ five[4] = "index_truncate" /\ five[5] = "index_write"
    <3>1. /\ five \in Seq(StepName) /\ Len(five) = 2 + 3
          /\ \A i \in 1 .. 2 : five[i] = file[i]
          /\ \A i \in 1 .. 3 : five[2 + i] = IndexSteps[i]
      <4>1. IsCat(five, file, IndexSteps)
        BY DEF five, IsCat
      <4>2. file \in Seq(StepName) /\ IndexSteps \in Seq(StepName)
        BY <2>2, <2>3
      <4>3. /\ five \in Seq(StepName) /\ Len(five) = Len(file) + Len(IndexSteps)
            /\ \A i \in 1 .. Len(file) : five[i] = file[i]
            /\ \A i \in 1 .. Len(IndexSteps) : five[Len(file) + i] = IndexSteps[i]
        BY <4>1, <4>2, CatIs
      <4> QED BY <2>2, <2>3, <4>3
    <3>2. five[2 + 1] = IndexSteps[1] /\ five[2 + 2] = IndexSteps[2] /\ five[2 + 3] = IndexSteps[3]
      BY <3>1
    <3> QED BY <2>2, <2>3, <3>1, <3>2
  <2>5. /\ steps \in Seq(StepName) /\ Len(steps) = 6
        /\ (\A i \in 1 .. 5 : steps[i] = five[i]) /\ steps[6] = "answer"
    <3> DEFINE last == <<"answer">>
    <3>1. last \in Seq(StepName) /\ Len(last) = 1 /\ last[1] = "answer"
      BY DEF StepName
    <3>2. /\ steps \in Seq(StepName) /\ Len(steps) = 5 + 1
          /\ (\A i \in 1 .. 5 : steps[i] = five[i])
          /\ \A i \in 1 .. 1 : steps[5 + i] = last[i]
      <4>1. IsCat(steps, five, last)
        BY <2>1 DEF IsCat
      <4> HIDE DEF last
      <4>2. five \in Seq(StepName) /\ last \in Seq(StepName)
        BY <2>4, <3>1
      <4>3. /\ steps \in Seq(StepName) /\ Len(steps) = Len(five) + Len(last)
            /\ \A i \in 1 .. Len(five) : steps[i] = five[i]
            /\ \A i \in 1 .. Len(last) : steps[Len(five) + i] = last[i]
        BY <4>1, <4>2, CatIs
      <4> QED BY <2>4, <3>1, <4>3
    <3> HIDE DEF last
    <3>3. steps[5 + 1] = last[1]
      BY <3>2
    <3> QED BY <3>1, <3>2, <3>3
  <2>6. /\ steps[1] = "truncate" /\ steps[2] = "write" /\ steps[3] = "index_load"
        /\ steps[4] = "index_truncate" /\ steps[5] = "index_write" /\ steps[6] = "answer"
    BY <2>4, <2>5
  <2>7. OnceEach(steps)
    BY <2>5, <2>6 DEF OnceEach
  <2>8. WritesOnce(steps)
    BY <2>5, <2>6 DEF WritesOnce
  <2>9. AnswersLast(steps)
    BY <2>5, <2>6 DEF AnswersLast
  <2>10. PlansFirst(steps)
    BY <2>5, <2>6 DEF PlansFirst
  <2>11. IndexLoadsFirst(steps)
    BY <2>5, <2>6 DEF IndexLoadsFirst
  <2>12. Begins(steps)
    <3>1. /\ Len(steps) = 6 /\ steps \in Seq(StepName)
          /\ steps[1] = "truncate" /\ steps[2] = "write"
      BY <2>5, <2>6
    <3>2. steps # <<>> /\ Head(steps) = "truncate"
      BY <3>1, EmptyIsEmpty
    <3>3. 2 \in 1 .. Len(steps)
      BY <3>1
    <3> QED BY <3>1, <3>2, <3>3 DEF Begins
  <2> QED BY <2>7, <2>8, <2>9, <2>10, <2>11, <2>12 DEF Orderly, steps
<1>5. Orderly(StepsOf("finalize")) /\ Begins(StepsOf("finalize")) /\ Finals(StepsOf("finalize"))
  <2> DEFINE steps == StepsOf("finalize")
             file == <<"runtime", "truncate", "write", "reload">>
             six == FinalFiles \o file
             nine == six \o IndexSteps
  <2>1. steps = nine \o <<"answer">>
    BY DEF StepsOf
  <2> HIDE DEF steps, six, nine, file
  <2>2. /\ file \in Seq(StepName) /\ Len(file) = 4 /\ file[1] = "runtime"
        /\ file[2] = "truncate" /\ file[3] = "write" /\ file[4] = "reload"
    BY DEF file, StepName
  <2>3. /\ IndexSteps \in Seq(StepName) /\ Len(IndexSteps) = 3 /\ IndexSteps[1] = "index_load"
        /\ IndexSteps[2] = "index_truncate" /\ IndexSteps[3] = "index_write"
    BY DEF IndexSteps, StepName
  <2>4. /\ FinalFiles \in Seq(StepName) /\ Len(FinalFiles) = 2
        /\ FinalFiles[1] = "plan" /\ FinalFiles[2] = "handoff"
    BY DEF FinalFiles, StepName
  <2>5. /\ six \in Seq(StepName) /\ Len(six) = 6
        /\ six[1] = "plan" /\ six[2] = "handoff" /\ six[3] = "runtime"
        /\ six[4] = "truncate" /\ six[5] = "write" /\ six[6] = "reload"
    <3>1. /\ six \in Seq(StepName) /\ Len(six) = 2 + 4
          /\ \A i \in 1 .. 2 : six[i] = FinalFiles[i]
          /\ \A i \in 1 .. 4 : six[2 + i] = file[i]
      <4>1. IsCat(six, FinalFiles, file)
        BY DEF six, IsCat
      <4>2. FinalFiles \in Seq(StepName) /\ file \in Seq(StepName)
        BY <2>2, <2>4
      <4>3. /\ six \in Seq(StepName) /\ Len(six) = Len(FinalFiles) + Len(file)
            /\ \A i \in 1 .. Len(FinalFiles) : six[i] = FinalFiles[i]
            /\ \A i \in 1 .. Len(file) : six[Len(FinalFiles) + i] = file[i]
        BY <4>1, <4>2, CatIs
      <4> QED BY <2>2, <2>4, <4>3
    <3>2. /\ six[2 + 1] = file[1] /\ six[2 + 2] = file[2]
          /\ six[2 + 3] = file[3] /\ six[2 + 4] = file[4]
      BY <3>1
    <3> QED BY <2>2, <2>4, <3>1, <3>2
  <2>6. /\ nine \in Seq(StepName) /\ Len(nine) = 9
        /\ \A i \in 1 .. 6 : nine[i] = six[i]
        /\ nine[7] = "index_load" /\ nine[8] = "index_truncate" /\ nine[9] = "index_write"
    <3>1. /\ nine \in Seq(StepName) /\ Len(nine) = 6 + 3
          /\ \A i \in 1 .. 6 : nine[i] = six[i]
          /\ \A i \in 1 .. 3 : nine[6 + i] = IndexSteps[i]
      <4>1. IsCat(nine, six, IndexSteps)
        BY DEF nine, IsCat
      <4>2. six \in Seq(StepName) /\ IndexSteps \in Seq(StepName)
        BY <2>3, <2>5
      <4>3. /\ nine \in Seq(StepName) /\ Len(nine) = Len(six) + Len(IndexSteps)
            /\ \A i \in 1 .. Len(six) : nine[i] = six[i]
            /\ \A i \in 1 .. Len(IndexSteps) : nine[Len(six) + i] = IndexSteps[i]
        BY <4>1, <4>2, CatIs
      <4> QED BY <2>3, <2>5, <4>3
    <3>2. /\ nine[6 + 1] = IndexSteps[1] /\ nine[6 + 2] = IndexSteps[2]
          /\ nine[6 + 3] = IndexSteps[3]
      BY <3>1
    <3> QED BY <2>3, <3>1, <3>2
  <2>7. /\ steps \in Seq(StepName) /\ Len(steps) = 10
        /\ (\A i \in 1 .. 9 : steps[i] = nine[i]) /\ steps[10] = "answer"
    <3> DEFINE last == <<"answer">>
    <3>1. last \in Seq(StepName) /\ Len(last) = 1 /\ last[1] = "answer"
      BY DEF StepName
    <3>2. /\ steps \in Seq(StepName) /\ Len(steps) = 9 + 1
          /\ (\A i \in 1 .. 9 : steps[i] = nine[i])
          /\ \A i \in 1 .. 1 : steps[9 + i] = last[i]
      <4>1. IsCat(steps, nine, last)
        BY <2>1 DEF IsCat
      <4> HIDE DEF last
      <4>2. nine \in Seq(StepName) /\ last \in Seq(StepName)
        BY <2>6, <3>1
      <4>3. /\ steps \in Seq(StepName) /\ Len(steps) = Len(nine) + Len(last)
            /\ \A i \in 1 .. Len(nine) : steps[i] = nine[i]
            /\ \A i \in 1 .. Len(last) : steps[Len(nine) + i] = last[i]
        BY <4>1, <4>2, CatIs
      <4> QED BY <2>6, <3>1, <4>3
    <3> HIDE DEF last
    <3>3. steps[9 + 1] = last[1]
      BY <3>2
    <3> QED BY <3>1, <3>2, <3>3
  <2>8. /\ steps[1] = "plan" /\ steps[2] = "handoff" /\ steps[3] = "runtime"
        /\ steps[4] = "truncate" /\ steps[5] = "write" /\ steps[6] = "reload"
        /\ steps[7] = "index_load" /\ steps[8] = "index_truncate" /\ steps[9] = "index_write"
        /\ steps[10] = "answer"
    BY <2>5, <2>6, <2>7
  <2>9. OnceEach(steps)
    BY <2>7, <2>8 DEF OnceEach
  <2>10. WritesOnce(steps)
    BY <2>7, <2>8 DEF WritesOnce
  <2>11. AnswersLast(steps)
    BY <2>7, <2>8 DEF AnswersLast
  <2>12. PlansFirst(steps)
    BY <2>7, <2>8 DEF PlansFirst
  <2>13. IndexLoadsFirst(steps)
    BY <2>7, <2>8 DEF IndexLoadsFirst
  <2>14. Begins(steps) /\ Finals(steps)
    <3>1. /\ Len(steps) = 10 /\ steps \in Seq(StepName)
          /\ steps[1] = "plan" /\ steps[2] = "handoff" /\ steps[5] = "write"
      BY <2>7, <2>8
    <3>2. Begins(steps)
      <4>1. steps # <<>> /\ Head(steps) = "plan"
        BY <3>1, EmptyIsEmpty
      <4>2. 5 \in 1 .. Len(steps)
        BY <3>1
      <4> QED BY <3>1, <4>1, <4>2 DEF Begins
    <3>3. DOMAIN FinalFiles = 1 .. 2 /\ FinalFiles[1] = "plan" /\ FinalFiles[2] = "handoff"
      BY <2>4
    <3>4. Finals(steps)
      BY <3>1, <3>3 DEF Finals
    <3> QED BY <3>2, <3>4
  <2> QED BY <2>9, <2>10, <2>11, <2>12, <2>13, <2>14 DEF Orderly, steps
<1> QED BY <1>1, <1>2, <1>3, <1>4, <1>5 DEF Jobs

\* The k-th step is next.
LEMMA EndHasPlace ==
    ASSUME NEW steps \in Seq(StepName), NEW todo \in Seq(StepName), EndOf(steps, todo),
           todo # <<>>
    PROVE  \E k \in 1 .. Len(steps) :
              /\ Head(todo) = steps[k]
              /\ EndOf(steps, Tail(todo)) /\ Tail(todo) \in Seq(StepName)
              /\ Tail(todo) # <<>> => k < Len(steps) /\ Head(Tail(todo)) = steps[k + 1]
              /\ Tail(todo) = <<>> => k = Len(steps)
              /\ \A x : (\E i \in DOMAIN todo : todo[i] = x)
                           <=> \E j \in k .. Len(steps) : steps[j] = x
              /\ \A x : (\E i \in DOMAIN Tail(todo) : Tail(todo)[i] = x)
                           <=> \E j \in k + 1 .. Len(steps) : steps[j] = x
<1> DEFINE N == Len(steps)
           L == Len(todo)
           k == N - L + 1
           tail == Tail(todo)
<1>1. /\ N \in Nat /\ L \in Nat /\ L >= 1 /\ L <= N /\ DOMAIN todo = 1 .. L
      /\ tail \in Seq(StepName) /\ Len(tail) = L - 1 /\ DOMAIN tail = 1 .. L - 1
      /\ \A i \in 1 .. L - 1 : tail[i] = todo[i + 1]
      /\ Head(todo) = todo[1]
  BY DEF EndOf
<1>2. \A i \in 1 .. L : todo[i] = steps[N - L + i]
  BY <1>1 DEF EndOf
<1> HIDE DEF N, L, tail
<1>3. ASSUME NEW i \in 1 .. L - 1 PROVE tail[i] = steps[N - (L - 1) + i]
  <2>1. i + 1 \in 1 .. L /\ N - L + (i + 1) = N - (L - 1) + i
    BY <1>1
  <2> QED BY <1>1, <1>2, <2>1
<1>4. k \in 1 .. N /\ Head(todo) = steps[k]
  BY <1>1, <1>2
<1>5. EndOf(steps, tail)
  BY <1>1, <1>3 DEF EndOf, N
<1>6. tail # <<>> => k < N /\ Head(tail) = steps[k + 1]
  <2> SUFFICES ASSUME tail # <<>> PROVE k < N /\ Head(tail) = steps[k + 1]
    OBVIOUS
  <2>1. Len(tail) >= 1 /\ Head(tail) = tail[1]
    BY <1>1
  <2> QED BY <1>1, <1>3, <2>1
<1>7. tail = <<>> => k = N
  <2>1. Len(<<>>) = 0
    OBVIOUS
  <2> QED BY <1>1, <2>1
<1>8. ASSUME NEW x PROVE (\E i \in 1 .. L : todo[i] = x) <=> \E j \in k .. N : steps[j] = x
  <2>1. ASSUME NEW i \in 1 .. L, todo[i] = x PROVE \E j \in k .. N : steps[j] = x
    <3>1. N - L + i \in k .. N
      BY <1>1
    <3> QED BY <1>2, <2>1, <3>1
  <2>2. ASSUME NEW j \in k .. N, steps[j] = x PROVE \E i \in 1 .. L : todo[i] = x
    <3>1. j - k + 1 \in 1 .. L /\ N - L + (j - k + 1) = j
      BY <1>1
    <3> QED BY <1>2, <2>2, <3>1
  <2> QED BY <2>1, <2>2
<1>9. ASSUME NEW x
      PROVE  (\E i \in 1 .. L - 1 : tail[i] = x) <=> \E j \in k + 1 .. N : steps[j] = x
  <2>1. ASSUME NEW i \in 1 .. L - 1, tail[i] = x PROVE \E j \in k + 1 .. N : steps[j] = x
    <3>1. N - (L - 1) + i \in k + 1 .. N
      BY <1>1
    <3> QED BY <1>3, <2>1, <3>1
  <2>2. ASSUME NEW j \in k + 1 .. N, steps[j] = x PROVE \E i \in 1 .. L - 1 : tail[i] = x
    <3>1. j - k \in 1 .. L - 1 /\ N - (L - 1) + (j - k) = j
      BY <1>1
    <3> QED BY <1>3, <2>2, <3>1
  <2> QED BY <2>1, <2>2
<1> HIDE DEF k
<1>10. k \in 1 .. Len(steps)
  BY <1>4 DEF N
<1> WITNESS k \in 1 .. Len(steps)
<1> QED BY <1>1, <1>4, <1>5, <1>6, <1>7, <1>8, <1>9 DEF N, tail

\* What the next step says of the others.
LEMMA StepsInOrder ==
    ASSUME NEW c, CallOk(c), c.todo # <<>>
    PROVE  LET step == Head(c.todo)
               next == Onward(c)
           IN  /\ Pends(c, step)
               /\ \A x : Pends(next, x) <=> Pends(c, x) /\ x # step
               /\ step = "truncate" => next.todo # <<>> /\ Head(next.todo) = "write"
               /\ step = "plan" => Pends(c, "write")
               /\ step \in {"panel", "reload", "answer"} => ~Pends(c, "write")
               /\ step \in {"write", "reload", "index_load", "index_truncate", "index_write"} =>
                      ~Pends(c, "plan") /\ ~Pends(c, "handoff")
               /\ next.todo # <<>> /\ Head(next.todo) = "write" => step = "truncate"
               /\ next.todo # <<>> /\ Head(next.todo) \in {"index_truncate", "index_write"} =>
                      step \in {"index_load", "index_truncate"}
               /\ EndOf(StepsOf(c.job), next.todo) /\ next \in Call
               /\ next.s = c.s /\ next.doc = c.doc /\ next.job = c.job
               /\ next.batch = c.batch /\ next.idx = c.idx
<1> DEFINE steps == StepsOf(c.job)
           todo == c.todo
           tail == Tail(todo)
           next == Onward(c)
<1>1. c \in Call /\ c.job \in Jobs /\ EndOf(steps, todo) /\ todo \in Seq(StepName)
  BY DEF CallOk, Call
<1>2. Orderly(steps)
  BY <1>1, StepsAreOrderly
<1> HIDE DEF steps
<1>3. PICK k \in 1 .. Len(steps) :
              /\ Head(todo) = steps[k]
              /\ EndOf(steps, tail) /\ tail \in Seq(StepName)
              /\ tail # <<>> => k < Len(steps) /\ Head(tail) = steps[k + 1]
              /\ tail = <<>> => k = Len(steps)
              /\ \A x : (\E i \in DOMAIN todo : todo[i] = x)
                           <=> \E j \in k .. Len(steps) : steps[j] = x
              /\ \A x : (\E i \in DOMAIN tail : tail[i] = x)
                           <=> \E j \in k + 1 .. Len(steps) : steps[j] = x
  <2>1. steps \in Seq(StepName)
    BY <1>2 DEF Orderly, OnceEach
  <2> QED BY <1>1, <2>1, EndHasPlace
<1>4. /\ next.todo = tail /\ next \in Call
      /\ next.s = c.s /\ next.doc = c.doc /\ next.job = c.job
      /\ next.batch = c.batch /\ next.idx = c.idx
  BY <1>1, <1>3 DEF Onward, Call
<1> HIDE DEF next, tail
<1>5. \A x : Pends(c, x) <=> \E j \in k .. Len(steps) : steps[j] = x
  BY <1>3 DEF Pends
<1>6. \A x : Pends(next, x) <=> \E j \in k + 1 .. Len(steps) : steps[j] = x
  BY <1>3, <1>4 DEF Pends
<1> HIDE DEF todo
<1>7. Len(steps) \in Nat
  BY <1>2 DEF Orderly, OnceEach
<1>8. \A x : Pends(next, x) <=> Pends(c, x) /\ x # Head(todo)
  BY <1>2, <1>3, <1>5, <1>6, <1>7 DEF Orderly, OnceEach
<1>9. /\ Head(todo) = "truncate" => tail # <<>> /\ Head(tail) = "write"
      /\ tail # <<>> /\ Head(tail) = "write" => Head(todo) = "truncate"
  <2>1. Head(todo) = "truncate" => k # Len(steps) /\ steps[k + 1] = "write"
    BY <1>2, <1>3, <1>7 DEF Orderly, WritesOnce
  <2>2. k < Len(steps) /\ steps[k + 1] = "write" => Head(todo) = "truncate"
    BY <1>2, <1>3, <1>7 DEF Orderly, WritesOnce
  <2> QED BY <1>3, <2>1, <2>2
<1>10. tail # <<>> /\ Head(tail) \in {"index_truncate", "index_write"} =>
          Head(todo) \in {"index_load", "index_truncate"}
  BY <1>2, <1>3, <1>7 DEF Orderly, IndexLoadsFirst
<1>11. /\ Head(todo) = "plan" => Pends(c, "write")
       /\ Head(todo) \in {"write", "reload", "index_load", "index_truncate", "index_write"} =>
                      ~Pends(c, "plan") /\ ~Pends(c, "handoff")
  BY <1>2, <1>3, <1>5, <1>7 DEF Orderly, PlansFirst
<1>12. Head(todo) \in {"panel", "reload", "answer"} => ~Pends(c, "write")
  BY <1>2, <1>3, <1>5, <1>7 DEF Orderly, AnswersLast
<1>13. Pends(c, Head(todo))
  BY <1>3, <1>5, <1>7
<1> QED BY <1>3, <1>4, <1>8, <1>9, <1>10, <1>11, <1>12, <1>13 DEF steps, todo, next

----------------------------------------------------------------------------
(* What a document that grew has kept.                                     *)

LEMMA GrowsReflexive == \A doc : Grows(doc, doc)
BY DEF Grows

LEMMA GrowsTransitive ==
    ASSUME NEW a, NEW b, NEW c, Grows(a, b), Grows(b, c) PROVE Grows(a, c)
BY DEF Grows

LEMMA GrownKeepsTexts ==
    ASSUME NEW doc, NEW new, Grows(doc, new) PROVE Texts(doc) \subseteq Texts(new)
<1>1. TagsOf(doc.items) \subseteq TagsOf(new.items)
  BY DEF Grows, TagsOf
<1>2. TagsOf(doc.segs) \subseteq TagsOf(new.segs)
  BY DEF Grows, TagsOf
<1>3. TagsOf(doc.refs) \subseteq TagsOf(new.refs)
  BY DEF Grows, TagsOf
<1> QED BY <1>1, <1>2, <1>3 DEF Texts

LEMMA GrownFitsView ==
    ASSUME NEW doc, NEW new, Grows(doc, new), NEW queue, ViewFits(queue, doc)
    PROVE  ViewFits(queue, new)
BY DEF Grows, ViewFits

LEMMA LongerList ==
    ASSUME NEW S, NEW a \in Seq(S), NEW b \in Seq(S), \A i \in DOMAIN a : i \in DOMAIN b
    PROVE  Len(a) <= Len(b)
<1>1. /\ Len(a) \in Nat /\ DOMAIN a = 1 .. Len(a)
      /\ Len(b) \in Nat /\ DOMAIN b = 1 .. Len(b)
  OBVIOUS
<1>2. CASE Len(a) = 0
  BY <1>1, <1>2
<1>3. CASE Len(a) # 0
  <2>1. Len(a) \in DOMAIN a
    BY <1>1, <1>3
  <2>2. Len(a) \in 1 .. Len(b)
    BY <1>1, <2>1
  <2> QED BY <1>1, <2>2
<1> QED BY <1>2, <1>3

LEMMA GrownIsLonger ==
    ASSUME NEW doc \in Doc, NEW new \in Doc, Grows(doc, new)
    PROVE  /\ Len(doc.segs) \in Nat /\ Len(new.segs) \in Nat /\ Len(doc.segs) <= Len(new.segs)
           /\ Len(doc.refs) \in Nat /\ Len(new.refs) \in Nat /\ Len(doc.refs) <= Len(new.refs)
           /\ IdsOf(doc.items) \subseteq IdsOf(new.items)
<1>1. /\ doc.segs \in Seq(Line) /\ new.segs \in Seq(Line)
      /\ doc.refs \in Seq(Line) /\ new.refs \in Seq(Line)
  BY DocFields
<1>2. \A i \in DOMAIN doc.segs : i \in DOMAIN new.segs
  BY DEF Grows
<1>3. \A i \in DOMAIN doc.refs : i \in DOMAIN new.refs
  BY DEF Grows
<1>4. IdsOf(doc.items) \subseteq IdsOf(new.items)
  BY DEF Grows, IdsOf
<1>5. Len(doc.segs) <= Len(new.segs)
  BY <1>1, <1>2, LongerList
<1>6. Len(doc.refs) <= Len(new.refs)
  BY <1>1, <1>3, LongerList
<1> QED BY <1>1, <1>4, <1>5, <1>6

\* A panel that was made from a document fits what the document becomes.
LEMMA PanelOfFits ==
    ASSUME NEW doc \in Doc, NEW new \in Doc, Grows(doc, new)
    PROVE  PanelFits(<<Panel(doc)>>, new)
<1>1. /\ Panel(doc).segs = Len(doc.segs) /\ Panel(doc).refs = Len(doc.refs)
      /\ Panel(doc).queue = Queue(doc)
  BY DEF Panel
<1>2. \A item \in Queue(doc).items : item.id \in IdsOf(doc.items)
  BY DEF Queue, ItemsWith, IdsOf
<1> QED BY <1>1, <1>2, GrownIsLonger DEF PanelFits

LEMMA GrownFitsPanel ==
    ASSUME NEW doc \in Doc, NEW new \in Doc, Grows(doc, new), NEW panel, PanelOk(panel),
           PanelFits(panel, doc)
    PROVE  PanelFits(panel, new)
<1> SUFFICES ASSUME panel # <<>> PROVE PanelFits(panel, new)
  BY DEF PanelFits
<1>1. PICK shown \in Doc : panel = <<Panel(shown)>>
  BY DEF PanelOk
<1>2. panel[1].segs = Len(shown.segs) /\ panel[1].refs = Len(shown.refs)
  BY <1>1 DEF Panel
<1>3. panel[1].segs \in Nat /\ panel[1].refs \in Nat
  BY <1>2, DocFields
<1>4. /\ panel[1].segs <= Len(doc.segs) /\ panel[1].refs <= Len(doc.refs)
      /\ \A item \in panel[1].queue.items : item.id \in IdsOf(doc.items)
  BY DEF PanelFits
<1>5. panel[1].segs <= Len(new.segs) /\ panel[1].refs <= Len(new.refs)
  BY <1>3, <1>4, GrownIsLonger
<1>6. \A item \in panel[1].queue.items : item.id \in IdsOf(new.items)
  BY <1>4, GrownIsLonger
<1> QED BY <1>5, <1>6 DEF PanelFits

LEMMA QueueFits ==
    ASSUME NEW doc \in Doc, NEW new, Grows(doc, new)
    PROVE  /\ Queue(doc) \in [items : SUBSET Item, hands : SUBSET Nat]
           /\ ViewFits(Queue(doc), new)
<1>1. doc.items \in Seq(Item) /\ doc.hands \in Seq(Hand)
  BY DocFields
<1>2. \A i \in DOMAIN doc.items : doc.items[i] \in Item
  BY <1>1
<1>3. \A i \in DOMAIN doc.hands : doc.hands[i].id \in Nat
  <2>1. \A i \in DOMAIN doc.hands : doc.hands[i] \in Hand
    BY <1>1
  <2> QED BY <2>1 DEF Hand
<1>4. Queue(doc) \in [items : SUBSET Item, hands : SUBSET Nat]
  BY <1>2, <1>3 DEF Queue, ItemsWith
<1>5. \A item \in Queue(doc).items : \E i \in DOMAIN doc.items : item = doc.items[i]
  BY DEF Queue, ItemsWith
<1>6. ViewFits(Queue(doc), new)
  BY <1>5 DEF ViewFits, Grows
<1> QED BY <1>4, <1>6

----------------------------------------------------------------------------
(* Every step keeps the invariant.                                         *)

LEMMA CallReplaced ==
    ASSUME pc \in [Proc -> Call], NEW p \in Proc, NEW c \in Call,
           pc' = [pc EXCEPT ![p] = c]
    PROVE  /\ pc' \in [Proc -> Call] /\ pc'[p] = c
           /\ \A q \in Proc : q # p => pc'[q] = pc[q]
OBVIOUS

LEMMA IdleIsOk == CallOk(Idle) /\ Idle \in Call /\ Idle.todo = <<>> /\ Idle.idx = <<>>
<1>1. << >> \in Seq(StepName) /\ << >> \in Seq(AnyEvent)
      /\ << >> \in Seq([Session -> {"", "active", "finalized"}])
  OBVIOUS
<1>2. Blank \in Doc
  BY BlankIsOk DEF DocOk, Sound
<1>3. Idle \in Call /\ Idle.todo = <<>> /\ Idle.idx = <<>> /\ Idle.doc = Blank
  BY <1>1, <1>2 DEF Idle, Call
<1> QED BY <1>3, BlankIsOk DEF CallOk

\* What is only counted or remembered.
LEMMA NothingDone ==
    ASSUME Inv, UNCHANGED <<session, files, index, pc, view, acked, clash>>,
           DOMAIN heard' = Proc, texts' \in Nat, readback \subseteq readback'
    PROVE  Inv'
<1>1. TypeOk' /\ DocsOk' /\ FilesFirst'
  BY DEF Inv, TypeOk, DocsOk, FilesFirst, FinalizedHasFiles, OnDisk, Busy, Pends
<1>2. ASSUME NEW s \in Session, s \notin clash' PROVE Calm(s)'
  <2>1. Calm(s)
    BY <1>2 DEF Inv
  <2>2. \A doc : ReadBy(doc, readback) => ReadBy(doc, readback')
    BY DEF ReadBy
  <2>3. \A doc : Current(s, doc)' => Current(s, doc)
    BY DEF Current, Holding
  <2>4. \A doc : Agrees(s, doc) => Agrees(s, doc)'
    BY <2>2 DEF Agrees, Busy, Holding
  <2> QED BY <2>1, <2>3, <2>4 DEF Calm, At, Busy, Holding
<1> QED BY <1>1, <1>2 DEF Inv

\* A request that begins, with a document that has all that the session had.
LEMMA BeginOk ==
    ASSUME Inv, NEW p \in Proc, ~Busy(p), NEW c, CallOk(c), c.s \in Session,
           c.job \in Jobs, c.todo = StepsOf(c.job), c.idx = <<>>,
           c.doc.status = "finalized" => OnDisk(c.s) \/ c.job = "finalize",
           pc' = [pc EXCEPT ![p] = c],
           UNCHANGED <<session, files, index, view, acked>>,
           DOMAIN heard' = Proc, texts' \in Nat, readback \subseteq readback',
           clash \subseteq clash',
           c.s \notin clash' =>
              /\ \A q \in Proc \ {p} : ~Holding(q, c.s)
              /\ NewTexts(c.batch) \subseteq Texts(c.doc)
              /\ ReadBy(c.doc, readback')
              /\ \E doc : Current(c.s, doc) /\ DocOk(doc) /\ Grows(doc, c.doc)
    PROVE  Inv'
<1>1. Begins(c.todo) /\ (c.job = "finalize" => Finals(c.todo)) /\ c.todo \in Seq(StepName)
  BY StepsAreOrderly DEF Orderly, OnceEach
<1>2. /\ c.todo # <<>> /\ Head(c.todo) \notin {"write", "index_truncate", "index_write"}
      /\ Pends(c, "write")
      /\ c.job = "finalize" => \A i \in DOMAIN FinalFiles : Pends(c, FinalFiles[i])
  <2>1. DOMAIN c.todo = 1 .. Len(c.todo)
    BY <1>1
  <2> QED BY <1>1, <2>1 DEF Begins, Finals, Pends
<1>3. c \in Call
  BY DEF CallOk
<1>4. /\ pc' \in [Proc -> Call] /\ pc'[p] = c
      /\ \A q \in Proc : q # p => pc'[q] = pc[q]
  BY <1>3, CallReplaced DEF Inv, TypeOk
<1>5. TypeOk'
  BY <1>4 DEF Inv, TypeOk
<1>6. DocsOk'
  BY <1>4 DEF Inv, DocsOk
<1>7. FilesFirst'
  <2>1. FilesFirst
    BY DEF Inv
  <2>2. FinalizedHasFiles'
    BY <2>1 DEF FilesFirst, FinalizedHasFiles
  <2>3. \A s \in Session : OnDisk(s) => OnDisk(s)'
    BY DEF OnDisk
  <2>4. ASSUME NEW q \in Proc, Busy(q)', pc'[q].doc.status = "finalized",
               NEW i \in DOMAIN FinalFiles
        PROVE  files'[pc'[q].s][FinalFiles[i]] # <<>> \/ Pends(pc'[q], FinalFiles[i])
    <3>1. CASE q = p
      BY <1>2, <1>4, <2>4, <3>1 DEF OnDisk
    <3>2. CASE q # p
      <4>1. pc'[q] = pc[q] /\ Busy(q)
        BY <1>4, <2>4, <3>2 DEF Busy
      <4> QED BY <2>1, <2>4, <4>1 DEF FilesFirst
    <3> QED BY <3>1, <3>2
  <2>5. ASSUME NEW q \in Proc, pc'[q].idx # <<>>, NEW s \in Session,
               pc'[q].idx[1][s] = "finalized"
        PROVE  OnDisk(s)'
    <3>1. q # p /\ pc'[q] = pc[q]
      BY <1>4, <2>5
    <3> QED BY <2>1, <2>3, <2>5, <3>1 DEF FilesFirst
  <2> QED BY <2>2, <2>4, <2>5 DEF FilesFirst
<1>8. ASSUME NEW s \in Session, s \notin clash' PROVE Calm(s)'
  <2>1. Calm(s)
    BY <1>8 DEF Inv
  <2>2. /\ \A q \in Proc : q # p => /\ Holding(q, s)' <=> Holding(q, s)
                                    /\ Busy(q)' <=> Busy(q)
                                    /\ At(q, "write")' <=> At(q, "write")
        /\ Busy(p)' /\ ~At(p, "write")' /\ ~At(p, "write") /\ ~Holding(p, s)
        /\ Holding(p, s)' <=> c.s = s
    <3>1. ~Holding(p, s) /\ ~At(p, "write")
      BY EmptyIsEmpty DEF Busy, At, Holding
    <3> QED BY <1>2, <1>4, <3>1 DEF Busy, At, Holding, Pends
  <2>3. ASSUME NEW doc, Agrees(s, doc) PROVE Agrees(s, doc)'
    <3>1. ReadBy(doc, readback')
      BY <2>3 DEF Agrees, ReadBy
    <3>2. ASSUME NEW q \in Proc, Busy(q)', pc'[q].s = s, ~Holding(q, s)'
          PROVE  NewTexts(pc'[q].batch) \subseteq Texts(doc) /\ Grows(pc'[q].doc, doc)
      <4>1. q # p
        BY <1>4, <2>2, <3>2
      <4> QED BY <1>4, <2>2, <2>3, <3>2, <4>1 DEF Agrees
    <3> QED BY <2>3, <3>1, <3>2 DEF Agrees
  <2>4. ASSUME c.s = s PROVE Agrees(s, c.doc)'
    <3>1. PICK doc : Current(s, doc) /\ DocOk(doc) /\ Grows(doc, c.doc)
      BY <1>8, <2>4
    <3>2. Agrees(s, doc)
      BY <2>1, <3>1 DEF Calm
    <3>3. acked[s] \subseteq Texts(c.doc)
      BY <3>1, <3>2, GrownKeepsTexts DEF Agrees
    <3>4. ReadBy(c.doc, readback')
      BY <1>8, <2>4
    <3>5. Readable(session[s]) => Grows(Content(session[s]), c.doc)
      BY <3>1, <3>2, GrowsTransitive DEF Agrees
    <3>6. ASSUME NEW q \in Proc, Busy(q)', pc'[q].s = s, ~Holding(q, s)'
          PROVE  NewTexts(pc'[q].batch) \subseteq Texts(c.doc) /\ Grows(pc'[q].doc, c.doc)
      <4>1. q # p
        BY <2>2, <2>4, <3>6
      <4>2. NewTexts(pc[q].batch) \subseteq Texts(doc) /\ Grows(pc[q].doc, doc)
        BY <1>4, <2>2, <3>2, <3>6, <4>1 DEF Agrees
      <4> QED BY <1>4, <3>1, <4>1, <4>2, GrownKeepsTexts, GrowsTransitive
    <3>7. \A q \in Proc : view[q].of = s => ViewFits(view[q].queue, c.doc)
      BY <3>1, <3>2, GrownFitsView DEF Agrees
    <3>8. PanelFits(files[s]["panel"], c.doc)
      <4>1. doc \in Doc /\ c.doc \in Doc /\ PanelOk(files[s]["panel"])
        BY <3>1 DEF CallOk, DocOk, Sound, Inv, DocsOk
      <4> QED BY <3>1, <3>2, <4>1, GrownFitsPanel DEF Agrees
    <3> QED BY <3>3, <3>4, <3>5, <3>6, <3>7, <3>8 DEF Agrees
  <2>5. ASSUME NEW doc, Current(s, doc)' PROVE Agrees(s, doc)'
    <3>1. Current(s, doc) \/ (c.s = s /\ doc = c.doc)
      <4>1. CASE \E q \in Proc : Holding(q, s)' /\ doc = pc'[q].doc
        <5>1. PICK q \in Proc : Holding(q, s)' /\ doc = pc'[q].doc
          BY <4>1
        <5>2. CASE q = p
          BY <1>4, <2>2, <5>1, <5>2
        <5>3. CASE q # p
          <6>1. Holding(q, s) /\ doc = pc[q].doc
            BY <1>4, <2>2, <5>1, <5>3
          <6> QED BY <6>1 DEF Current
        <5> QED BY <5>2, <5>3
      <4>2. CASE ~\E q \in Proc : Holding(q, s)' /\ doc = pc'[q].doc
        <5>1. \/ Readable(session'[s]) /\ doc = Content(session'[s])
              \/ session'[s].kind = "missing" /\ doc = Blank
          BY <2>5, <4>2 DEF Current
        <5>2. session' = session
          OBVIOUS
        <5> QED BY <5>1, <5>2 DEF Current
      <4> QED BY <4>1, <4>2
    <3> QED BY <2>1, <2>3, <2>4, <3>1 DEF Calm
  <2>6. \A q, r \in Proc : Holding(q, s)' /\ Holding(r, s)' => q = r
    BY <1>8, <2>1, <2>2 DEF Calm
  <2>7. \A q \in Proc : Holding(q, s)' => NewTexts(pc'[q].batch) \subseteq Texts(pc'[q].doc)
    BY <1>4, <1>8, <2>1, <2>2 DEF Calm
  <2>8. \A q \in Proc : At(q, "write")' /\ pc'[q].s = s => session'[s] = Torn
    BY <1>4, <2>1, <2>2 DEF Calm
  <2>9. session'[s] = Torn => \E q \in Proc : At(q, "write")' /\ pc'[q].s = s
    BY <1>4, <2>1, <2>2 DEF Calm
  <2> QED BY <2>1, <2>5, <2>6, <2>7, <2>8, <2>9 DEF Calm
<1> QED BY <1>5, <1>6, <1>7, <1>8 DEF Inv

LEMMA NewCall ==
    ASSUME NEW c \in Call, c.s \in Session, c.job \in Jobs, c.todo = StepsOf(c.job),
           DocOk(c.doc)
    PROVE  CallOk(c)
<1>1. /\ StepsOf(c.job) \in Seq(StepName) /\ StepsOf(c.job) # <<>>
      /\ Head(StepsOf(c.job)) \notin {"index_truncate", "index_write"}
  BY StepsAreOrderly DEF Orderly, OnceEach, Begins
<1>2. EndOf(StepsOf(c.job), c.todo)
  BY <1>1 DEF EndOf
<1> QED BY <1>1, <1>2 DEF CallOk

LEMMA SessionFile ==
    ASSUME Inv, NEW s \in Session, Readable(session[s])
    PROVE  DocOk(Content(session[s])) /\ Content(session[s]) \in Doc
BY DEF Inv, DocsOk, DocOk, Sound

\* A request with an event whose wording, if it has one, is that of the item.
LEMMA RequestOk ==
    ASSUME Inv, NEW p \in Proc, NEW s \in Session, NEW job \in {"event", "command", "meet"},
           NEW e, IsEvent(e), Request(p, s, job, <<e>>),
           DOMAIN heard' = Proc, texts' \in Nat, readback \subseteq readback',
           s \notin clash /\ Readable(session[s]) =>
              /\ TagFits(Content(session[s]), e)
              /\ AnswerRead(Content(session[s]), e, readback')
    PROVE  Inv'
<1> DEFINE doc == Content(session[s])
           after == AfterBatch(doc, <<e>>)
           c == [Idle EXCEPT !.todo = StepsOf(job), !.s = s, !.job = job, !.batch = <<e>>,
                             !.doc = after.doc]
<1>1. /\ ~Busy(p) /\ session[s].kind # "missing"
      /\ UNCHANGED <<session, files, index, view, acked>>
      /\ IF Readable(session[s]) /\ after.ok
         THEN pc' = [pc EXCEPT ![p] = c] /\ clash' = MarkOverlap(p, s)
         ELSE UNCHANGED <<pc, clash>>
  BY DEF Request
<1>2. CASE ~(Readable(session[s]) /\ after.ok)
  BY <1>1, <1>2, NothingDone
<1>3. CASE Readable(session[s]) /\ after.ok
  <2> DEFINE start == [ok |-> TRUE, doc |-> doc]
             new == Apply(doc, e)
  <2>1. DocOk(doc)
    BY <1>3, SessionFile
  <2>2. after = AfterEvent(start, e)
    BY BatchOfOne
  <2>3. Accepts(doc, e) /\ after.doc = new
    BY <1>3, <2>2 DEF AfterEvent
  <2> HIDE DEF after, new
  <2>4. /\ DocOk(new) /\ new.status = doc.status
        /\ e.type \in BringsText => e.tag \in Texts(new)
        /\ TagFits(doc, e) =>
             /\ Grows(doc, new)
             /\ \A R : ReadBy(doc, R) /\ AnswerRead(doc, e, R) => ReadBy(new, R)
    <3>1. new = Apply(doc, e)
      BY DEF new
    <3> HIDE DEF doc
    <3> QED BY <2>1, <2>3, <3>1, ApplyOk
  <2>5. job \in Jobs /\ job # "finalize"
    BY DEF Jobs
  <2>6. <<e>> \in Seq(AnyEvent)
    BY DEF IsEvent
  <2> DEFINE batch == <<e>>
  <2>7. /\ CallOk(c) /\ c.s = s /\ c.job = job /\ c.todo = StepsOf(job) /\ c.idx = <<>>
        /\ c.doc = new /\ c.batch = batch
    <3>1. /\ StepsOf(job) \in Seq(StepName) /\ new \in Doc
      BY <2>4, <2>5, StepsAreOrderly DEF Orderly, OnceEach, DocOk, Sound
    <3>2. /\ c \in Call /\ c.s = s /\ c.job = job /\ c.todo = StepsOf(job) /\ c.idx = <<>>
          /\ c.doc = new /\ c.batch = batch
      BY <2>3, <2>5, <2>6, <3>1, IdleIsOk DEF Call
    <3> HIDE DEF c, batch
    <3> QED BY <2>4, <2>5, <3>2, NewCall
  <2>8. pc' = [pc EXCEPT ![p] = c]
    BY <1>1, <1>3
  <2> HIDE DEF c
  <2>9. NewTexts(batch) \subseteq Texts(new)
    <3>1. Len(batch) = 1 /\ batch[1] = e /\ DOMAIN batch = {1}
      OBVIOUS
    <3> HIDE DEF batch
    <3>2. NewTexts(batch) \subseteq IF e.type \in BringsText THEN {e.tag} ELSE {}
      BY <3>1 DEF NewTexts, BringsText
    <3> QED BY <2>4, <3>2
  <2>10. new.status = "finalized" => OnDisk(s)
    <3>1. Readable(session[s]) /\ doc.status = "finalized" => OnDisk(s)
      BY DEF Inv, FilesFirst, FinalizedHasFiles, OnDisk
    <3> QED BY <1>3, <2>4, <3>1
  <2>11. clash' = MarkOverlap(p, s)
    BY <1>1, <1>3
  <2>12. clash \subseteq clash' /\ (s \notin clash' => \A q \in Proc \ {p} : ~Holding(q, s))
    BY <2>11 DEF MarkOverlap
  <2>13. ASSUME s \notin clash'
         PROVE  Current(s, doc) /\ Grows(doc, new) /\ ReadBy(new, readback')
    <3>1. s \notin clash
      BY <2>12, <2>13
    <3>2. Current(s, doc)
      BY <1>3 DEF Current
    <3>3. Agrees(s, doc)
      BY <3>1, <3>2 DEF Inv, Calm
    <3>4. ReadBy(doc, readback')
      BY <3>3 DEF Agrees, ReadBy
    <3>5. TagFits(doc, e) /\ AnswerRead(doc, e, readback')
      BY <1>3, <3>1
    <3> QED BY <2>4, <3>2, <3>4, <3>5
  <2> HIDE DEF doc, batch
  <2> QED BY <1>1, <2>1, <2>5, <2>7, <2>8, <2>9, <2>10, <2>12, <2>13, BeginOk
<1> QED BY <1>2, <1>3

LEMMA RefusedOk ==
    ASSUME Inv, NEW p \in Proc, NEW s \in Session, NEW job, NEW e,
           Request(p, s, job, <<e, Event("unsupported")>>),
           DOMAIN heard' = Proc, texts' \in Nat, readback \subseteq readback'
    PROVE  Inv'
<1> DEFINE x == Event("unsupported")
           after == AfterBatch(Content(session[s]), <<e, x>>)
<1>1. x.type = "unsupported"
  BY DEF Event
<1>2. \A doc : ~Accepts(doc, x)
  BY <1>1 DEF Accepts
<1>3. ~after.ok
  <2> HIDE DEF x
  <2> QED BY <1>2, BatchRefused
<1>4. UNCHANGED <<session, files, index, view, acked>> /\ UNCHANGED <<pc, clash>>
  BY <1>3 DEF Request
<1> QED BY <1>4, NothingDone

LEMMA StartOk ==
    ASSUME Inv, NEW p \in Proc, NEW s \in Session, Start(p, s)
    PROVE  Inv'
<1> DEFINE c == [Idle EXCEPT !.todo = StepsOf("start"), !.s = s, !.job = "start"]
           none == <<>>
<1>1. /\ ~Busy(p) /\ UNCHANGED <<session, files, index, view, acked, heard, texts, readback>>
      /\ pc' = [pc EXCEPT ![p] = c]
      /\ clash' = IF session[s].kind # "missing" THEN clash \cup {s} ELSE MarkOverlap(p, s)
  BY DEF Start
<1>2. /\ CallOk(c) /\ c.s = s /\ c.job = "start" /\ c.todo = StepsOf("start")
      /\ c.idx = <<>> /\ c.doc = Blank /\ c.batch = none
  <2>1. "start" \in Jobs /\ StepsOf("start") \in Seq(StepName)
    BY StepsAreOrderly DEF Jobs, Orderly, OnceEach
  <2>2. /\ c \in Call /\ c.s = s /\ c.job = "start" /\ c.todo = StepsOf("start")
        /\ c.idx = Idle.idx /\ c.doc = Idle.doc /\ c.batch = Idle.batch
    BY <2>1, IdleIsOk DEF Call
  <2>3. Idle.doc = Blank /\ Idle.batch = none
    BY DEF Idle
  <2> HIDE DEF c, none
  <2> QED BY <2>1, <2>2, <2>3, IdleIsOk, BlankIsOk, NewCall
<1> HIDE DEF c
<1>3. NewTexts(none) = {}
  BY EmptyIsEmpty DEF NewTexts
<1>4. Blank.status = "active" /\ Blank.items = <<>>
  BY DEF Blank
<1>5. \A R : ReadBy(Blank, R)
  BY <1>4, EmptyIsEmpty DEF ReadBy
<1>6. clash \subseteq clash' /\ (s \notin clash' =>
           session[s].kind = "missing" /\ \A q \in Proc \ {p} : ~Holding(q, s))
  BY <1>1 DEF MarkOverlap
<1>7. s \notin clash' => Current(s, Blank)
  BY <1>6 DEF Current
<1>8. "start" \in Jobs /\ DOMAIN heard = Proc /\ texts \in Nat
  BY DEF Jobs, Inv, TypeOk
<1> HIDE DEF none
<1> QED BY <1>1, <1>2, <1>3, <1>4, <1>5, <1>6, <1>7, <1>8, BlankIsOk, GrowsReflexive, BeginOk

LEMMA FinalizeOk ==
    ASSUME Inv, NEW p \in Proc, NEW s \in Session, Finalize(p, s)
    PROVE  Inv'
<1> DEFINE doc == Content(session[s])
           new == [doc EXCEPT !.status = "finalized"]
           c == [Idle EXCEPT !.todo = StepsOf("finalize"), !.s = s, !.job = "finalize",
                             !.doc = new]
           none == <<>>
<1>1. /\ ~Busy(p) /\ UNCHANGED <<session, files, index, view, acked, heard, texts, readback>>
      /\ pc' = [pc EXCEPT ![p] = c] /\ Readable(session[s])
      /\ clash' = MarkOverlap(p, s)
  BY DEF Finalize
<1>2. DocOk(doc) /\ doc \in Doc
  BY <1>1, SessionFile
<1>3. DocOk(new) /\ Grows(doc, new) /\ \A R : ReadBy(doc, R) => ReadBy(new, R)
  <2> HIDE DEF doc
  <2>1. /\ new \in Doc /\ new.items = doc.items /\ new.hands = doc.hands
        /\ new.segs = doc.segs /\ new.refs = doc.refs
    BY <1>2 DEF Doc
  <2> HIDE DEF new
  <2>2. DocOk(new)
    BY <1>2, <2>1 DEF DocOk, Sound, HandsUp, HandIsUp
  <2>3. Grows(doc, new)
    BY <2>1 DEF Grows
  <2> QED BY <2>1, <2>2, <2>3 DEF ReadBy
<1> HIDE DEF new
<1>4. /\ CallOk(c) /\ c.s = s /\ c.job = "finalize" /\ c.todo = StepsOf("finalize")
      /\ c.idx = <<>> /\ c.doc = new /\ c.batch = none
  <2>1. /\ "finalize" \in Jobs /\ StepsOf("finalize") \in Seq(StepName) /\ new \in Doc
    BY <1>3, StepsAreOrderly DEF Jobs, Orderly, OnceEach, DocOk, Sound
  <2>2. /\ c \in Call /\ c.s = s /\ c.job = "finalize" /\ c.todo = StepsOf("finalize")
        /\ c.idx = Idle.idx /\ c.doc = new /\ c.batch = Idle.batch
    BY <2>1, IdleIsOk DEF Call
  <2>3. Idle.batch = none
    BY DEF Idle
  <2> HIDE DEF c, none
  <2> QED BY <1>3, <2>1, <2>2, <2>3, IdleIsOk, NewCall
<1> HIDE DEF c
<1>5. NewTexts(none) = {}
  BY EmptyIsEmpty DEF NewTexts
<1>6. clash \subseteq clash' /\ (s \notin clash' => \A q \in Proc \ {p} : ~Holding(q, s))
  BY <1>1 DEF MarkOverlap
<1>7. Current(s, doc)
  BY <1>1 DEF Current
<1>8. s \notin clash' => ReadBy(new, readback)
  BY <1>3, <1>6, <1>7 DEF Inv, Calm, Agrees
<1>9. "finalize" \in Jobs /\ DOMAIN heard = Proc /\ texts \in Nat
  BY DEF Jobs, Inv, TypeOk
<1> HIDE DEF none, doc
<1> QED BY <1>1, <1>2, <1>3, <1>4, <1>5, <1>6, <1>7, <1>8, <1>9, BeginOk

LEMMA OtherFits ==
    ASSUME NEW e, e.type # "item.confirm"
    PROVE  \A doc, R : TagFits(doc, e) /\ AnswerRead(doc, e, R)
BY DEF TagFits, AnswerRead

LEMMA JobOfIs == \A p : JobOf(p) \in {"event", "command", "meet"}
BY DEF JobOf

LEMMA NewTextOk ==
    ASSUME Inv, NEW p \in Proc, NEW s \in Session, NewText(p, s)
    PROVE  Inv'
<1>1. PICK e \in {[Event("item.propose") EXCEPT !.status = "read_back_pending"],
                  [Event("item.propose") EXCEPT !.status = "draft"],
                  Event("reference.add")} :
          LET new == [e EXCEPT !.tag = texts + 1]
          IN  \/ Request(p, s, JobOf(p), <<new>>)
              \/ /\ p \in Bridge /\ e.status = "draft"
                 /\ Request(p, s, "event", <<new, Event("unsupported")>>)
  BY DEF NewText
<1> DEFINE new == [e EXCEPT !.tag = texts + 1]
<1>2. texts \in Nat /\ DOMAIN heard = Proc
  BY DEF Inv, TypeOk
<1>3. texts' = texts + 1 /\ UNCHANGED <<heard, readback>>
  BY DEF NewText
<1>4. IsEvent(new) /\ new.type # "item.confirm"
  <2>1. texts + 1 \in Nat
    BY <1>2
  <2>2. CASE e = [Event("item.propose") EXCEPT !.status = "read_back_pending"]
    BY <2>1, <2>2 DEF Event, IsEvent, AnyEvent, EventTypes, ItemStatus
  <2>3. CASE e = [Event("item.propose") EXCEPT !.status = "draft"]
    BY <2>1, <2>3 DEF Event, IsEvent, AnyEvent, EventTypes, ItemStatus
  <2>4. CASE e = Event("reference.add")
    BY <2>1, <2>4 DEF Event, IsEvent, AnyEvent, EventTypes, ItemStatus
  <2> QED BY <2>2, <2>3, <2>4
<1> HIDE DEF new
<1>5. CASE Request(p, s, JobOf(p), <<new>>)
  BY <1>2, <1>3, <1>4, <1>5, OtherFits, JobOfIs, RequestOk
<1>6. CASE Request(p, s, "event", <<new, Event("unsupported")>>)
  BY <1>2, <1>3, <1>6, RefusedOk
<1> QED BY <1>1, <1>5, <1>6 DEF new

LEMMA CaptureOk ==
    ASSUME Inv, NEW p \in Proc, NEW s \in Session, Capture(p, s)
    PROVE  Inv'
<1> DEFINE e == [Event("transcript.segment") EXCEPT !.tag = texts + 1]
<1>1. texts \in Nat /\ DOMAIN heard = Proc
  BY DEF Inv, TypeOk
<1>2. /\ texts' = texts + 1 /\ DOMAIN heard' = DOMAIN heard /\ readback' = readback
      /\ Request(p, s, "event", <<e>>)
  BY DEF Capture
<1>3. IsEvent(e) /\ e.type # "item.confirm"
  <2>1. texts + 1 \in Nat
    BY <1>1
  <2> QED BY <2>1 DEF Event, IsEvent, AnyEvent, EventTypes, ItemStatus
<1> HIDE DEF e
<1> QED BY <1>1, <1>2, <1>3, OtherFits, RequestOk

LEMMA AnswerOk ==
    ASSUME Inv, NEW p \in Proc, NEW s \in Session, Answer(p, s)
    PROVE  Inv'
<1>1. PICK item \in view[p].queue.items, status \in Verified \cup {"rejected"} :
        /\ Request(p, s, JobOf(p),
                   <<[type |-> "item.confirm", id |-> item.id, status |-> status,
                      tag |-> IF status = "amended" THEN item.tag ELSE 0]>>)
        /\ readback' = IF status \in Verified THEN readback \cup {item.tag} ELSE readback
  BY DEF Answer
<1> DEFINE e == [type |-> "item.confirm", id |-> item.id, status |-> status,
                 tag |-> IF status = "amended" THEN item.tag ELSE 0]
<1>2. /\ view[p].of = s /\ UNCHANGED <<texts, heard>> /\ readback \subseteq readback'
      /\ status \in Verified => item.tag \in readback'
  BY <1>1 DEF Answer
<1>3. texts \in Nat /\ DOMAIN heard = Proc /\ item \in Item
  BY DEF Inv, TypeOk, View
<1>4. IsEvent(e)
  <2>1. item.id \in Nat /\ e.tag \in Nat
    BY <1>3 DEF Item
  <2> QED BY <2>1 DEF IsEvent, AnyEvent, EventTypes, ItemStatus, Verified
<1>5. e.id = item.id /\ e.tag \in {0, item.tag} /\ e.status = status
  OBVIOUS
<1>6. Request(p, s, JobOf(p), <<e>>)
  BY <1>1
<1> HIDE DEF e
<1>7. ASSUME s \notin clash, Readable(session[s])
      PROVE  /\ TagFits(Content(session[s]), e)
             /\ AnswerRead(Content(session[s]), e, readback')
  <2> DEFINE doc == Content(session[s])
  <2>1. Current(s, doc)
    BY <1>7 DEF Current
  <2>2. Agrees(s, doc)
    BY <1>7, <2>1 DEF Inv, Calm
  <2>3. PICK i \in DOMAIN doc.items : doc.items[i].id = item.id /\ doc.items[i].tag = item.tag
    BY <1>2, <2>2 DEF Agrees, ViewFits
  <2>4. Distinct(doc.items)
    BY <1>7, SessionFile DEF DocOk, Sound
  <2> HIDE DEF doc
  <2>5. \A k \in DOMAIN doc.items : doc.items[k].id = e.id => doc.items[k].tag = item.tag
    BY <1>5, <2>3, <2>4 DEF Distinct
  <2> QED BY <1>2, <1>5, <2>5 DEF TagFits, AnswerRead, doc
<1> QED BY <1>2, <1>3, <1>4, <1>6, <1>7, JobOfIs, RequestOk

LEMMA HandOrModeOk ==
    ASSUME Inv, NEW p \in Proc, NEW s \in Session, HandOrMode(p, s)
    PROVE  Inv'
<1>1. texts \in Nat /\ DOMAIN heard = Proc /\ UNCHANGED <<texts, heard, readback>>
  BY DEF HandOrMode, Inv, TypeOk
<1>2. ASSUME NEW e, IsEvent(e), e.type # "item.confirm", Request(p, s, JobOf(p), <<e>>)
      PROVE  Inv'
  BY <1>1, <1>2, OtherFits, JobOfIs, RequestOk
<1>3. CASE Request(p, s, JobOf(p), <<[Event("hand.raise") EXCEPT !.id = 1]>>)
  <2> DEFINE e == [Event("hand.raise") EXCEPT !.id = 1]
  <2>1. IsEvent(e) /\ e.type # "item.confirm"
    BY DEF Event, IsEvent, AnyEvent, EventTypes, ItemStatus
  <2> HIDE DEF e
  <2> QED BY <1>2, <1>3, <2>1 DEF e
<1>4. CASE view[p].of = s
           /\ \E h \in view[p].queue.hands, status \in {"approved", "dismissed"} :
                Request(p, s, JobOf(p),
                    <<[Event("hand.resolve") EXCEPT !.id = h, !.status = status]>>)
  <2>1. PICK h \in view[p].queue.hands, status \in {"approved", "dismissed"} :
                Request(p, s, JobOf(p),
                    <<[Event("hand.resolve") EXCEPT !.id = h, !.status = status]>>)
    BY <1>4
  <2> DEFINE e == [Event("hand.resolve") EXCEPT !.id = h, !.status = status]
  <2>2. h \in Nat
    BY DEF Inv, TypeOk, View
  <2>3. IsEvent(e) /\ e.type # "item.confirm"
    BY <2>2 DEF Event, IsEvent, AnyEvent, EventTypes, ItemStatus
  <2> HIDE DEF e
  <2> QED BY <1>2, <2>1, <2>3 DEF e
<1>5. CASE Request(p, s, JobOf(p),
               <<[Event("mode.set") EXCEPT !.status = "independent-hand-raise"]>>)
  <2> DEFINE e == [Event("mode.set") EXCEPT !.status = "independent-hand-raise"]
  <2>1. IsEvent(e) /\ e.type # "item.confirm"
    BY DEF Event, IsEvent, AnyEvent, EventTypes, ItemStatus
  <2> HIDE DEF e
  <2> QED BY <1>2, <1>5, <2>1 DEF e
<1> QED BY <1>3, <1>4, <1>5 DEF HandOrMode

LEMMA BindSpaceOk ==
    ASSUME Inv, NEW p \in Proc, NEW s \in Session, BindSpace(p, s)
    PROVE  Inv'
<1> DEFINE e == [Event("meet.set") EXCEPT !.status = "bound"]
<1>1. texts \in Nat /\ DOMAIN heard = Proc /\ UNCHANGED <<texts, heard, readback>>
  BY DEF BindSpace, Inv, TypeOk
<1>2. IsEvent(e) /\ e.type # "item.confirm"
  BY DEF Event, IsEvent, AnyEvent, EventTypes, ItemStatus
<1>3. Request(p, s, "meet", <<e>>)
  BY DEF BindSpace
<1> HIDE DEF e
<1> QED BY <1>1, <1>2, <1>3, OtherFits, RequestOk

\* Final files are never removed: it is enough to look at what changed.
LEMMA FilesKept ==
    ASSUME Inv, NEW p \in Proc, NEW n \in Call, pc' = [pc EXCEPT ![p] = n],
           \A s \in Session : OnDisk(s) => OnDisk(s)',
           \A s \in Session, i \in DOMAIN FinalFiles :
              files[s][FinalFiles[i]] # <<>> => files'[s][FinalFiles[i]] # <<>>,
           \A s \in Session : Readable(session'[s]) /\ Content(session'[s]).status = "finalized"
              => OnDisk(s)',
           \A s \in Session : Readable(index') /\ Content(index')[s] = "finalized" => OnDisk(s)',
           n.todo # <<>> /\ n.doc.status = "finalized" =>
              \A i \in DOMAIN FinalFiles :
                  files'[n.s][FinalFiles[i]] # <<>> \/ Pends(n, FinalFiles[i]),
           n.idx # <<>> => \A s \in Session : n.idx[1][s] = "finalized" => OnDisk(s)'
    PROVE  FilesFirst'
<1>1. /\ pc' \in [Proc -> Call] /\ pc'[p] = n
      /\ \A q \in Proc : q # p => pc'[q] = pc[q]
  BY CallReplaced DEF Inv, TypeOk
<1>2. FinalizedHasFiles'
  BY DEF FinalizedHasFiles, OnDisk
<1>3. ASSUME NEW q \in Proc, Busy(q)', pc'[q].doc.status = "finalized",
             NEW i \in DOMAIN FinalFiles
      PROVE  files'[pc'[q].s][FinalFiles[i]] # <<>> \/ Pends(pc'[q], FinalFiles[i])
  <2>1. CASE q = p
    BY <1>1, <1>3, <2>1 DEF Busy
  <2>2. CASE q # p
    <3>1. pc'[q] = pc[q] /\ Busy(q)
      BY <1>1, <1>3, <2>2 DEF Busy
    <3>2. pc[q].s \in Session
      BY <3>1 DEF Inv, DocsOk, CallOk, Busy
    <3>3. files[pc[q].s][FinalFiles[i]] # <<>> \/ Pends(pc[q], FinalFiles[i])
      BY <1>3, <3>1 DEF Inv, FilesFirst
    <3> QED BY <3>1, <3>2, <3>3
  <2> QED BY <2>1, <2>2
<1>4. ASSUME NEW q \in Proc, pc'[q].idx # <<>>, NEW s \in Session,
             pc'[q].idx[1][s] = "finalized"
      PROVE  OnDisk(s)'
  <2>1. CASE q = p
    BY <1>1, <1>4, <2>1
  <2>2. CASE q # p
    <3>1. pc'[q] = pc[q]
      BY <1>1, <2>2
    <3>2. OnDisk(s)
      BY <1>4, <3>1 DEF Inv, FilesFirst
    <3> QED BY <3>2
  <2> QED BY <2>1, <2>2
<1> QED BY <1>2, <1>3, <1>4 DEF FilesFirst

LEMMA CallHasIdx ==
    ASSUME Inv, NEW p \in Proc, pc[p].idx # <<>>
    PROVE  \A s \in Session : pc[p].idx[1][s] = "finalized" => OnDisk(s)
BY DEF Inv, FilesFirst

\* A step that leaves the session file alone, and may be the last of its request.
LEMMA StaysCalm ==
    ASSUME Inv, NEW p \in Proc, Busy(p), NEW n, CallOk(n), pc' = [pc EXCEPT ![p] = n],
           Head(pc[p].todo) # "write" \/ pc[p].s \in clash',
           n.todo # <<>> =>
              /\ n.s = pc[p].s /\ n.batch = pc[p].batch /\ Head(n.todo) # "write"
              /\ Pends(n, "write") <=> Pends(pc[p], "write")
              /\ \/ n.doc = pc[p].doc
                 \/ /\ ~Pends(n, "write") /\ Readable(session[n.s])
                    /\ n.doc = Content(session[n.s]),
           UNCHANGED <<session, view, readback>>, clash \subseteq clash',
           \A s \in Session : acked'[s] \subseteq
              acked[s] \cup (IF s = pc[p].s /\ ~Pends(pc[p], "write")
                             THEN NewTexts(pc[p].batch) ELSE {}),
           \A s \in Session : files'[s]["panel"] # files[s]["panel"] =>
              /\ s = pc[p].s /\ ~Pends(pc[p], "write")
              /\ files'[s]["panel"] = <<Panel(pc[p].doc)>>,
           \A s \in Session : files'[s]["plan"] # files[s]["plan"] =>
              /\ s = pc[p].s /\ Pends(pc[p], "write")
              /\ files'[s]["plan"] = <<Plan(pc[p].doc)>>
    PROVE  \A s \in Session \ clash' : Calm(s)'
<1>1. n \in Call
  BY DEF CallOk
<1>2. /\ pc' \in [Proc -> Call] /\ pc'[p] = n
      /\ \A q \in Proc : q # p => pc'[q] = pc[q]
  BY <1>1, CallReplaced DEF Inv, TypeOk
<1>3. CallOk(pc[p]) /\ pc[p].todo # <<>>
  BY DEF Inv, DocsOk, Busy
<1> SUFFICES ASSUME NEW s \in Session, s \notin clash' PROVE Calm(s)'
  OBVIOUS
<1>4. Calm(s)
  BY DEF Inv
<1>5. /\ \A q \in Proc : q # p => /\ Holding(q, s)' <=> Holding(q, s)
                                  /\ Busy(q)' <=> Busy(q)
                                  /\ At(q, "write")' <=> At(q, "write")
  BY <1>2 DEF Busy, At, Holding
<1>6. /\ Holding(p, s)' => Holding(p, s) /\ n.doc = pc[p].doc /\ n.batch = pc[p].batch
      /\ At(p, "write")' => n.s # s
      /\ At(p, "write") => pc[p].s # s
  <2>1. Holding(p, s)' => n.todo # <<>> /\ Pends(n, "write") /\ n.s = s
    BY <1>2, EmptyIsEmpty DEF Holding, Pends
  <2>2. ~At(p, "write")'
    BY <1>2 DEF At, Busy
  <2>3. At(p, "write") => pc[p].s # s
    BY DEF At
  <2>4. pc[p].s = s /\ Pends(pc[p], "write") => Holding(p, s)
    BY DEF Holding, Pends
  <2> QED BY <2>1, <2>2, <2>3, <2>4
<1>7. ASSUME NEW doc, Current(s, doc)' PROVE Current(s, doc)
  <2>1. CASE \E q \in Proc : Holding(q, s)' /\ doc = pc'[q].doc
    <3>1. PICK q \in Proc : Holding(q, s)' /\ doc = pc'[q].doc
      BY <2>1
    <3>2. Holding(q, s) /\ doc = pc[q].doc
      BY <1>2, <1>5, <1>6, <3>1
    <3> QED BY <3>2 DEF Current
  <2>2. CASE ~\E q \in Proc : Holding(q, s)' /\ doc = pc'[q].doc
    <3>1. \/ Readable(session'[s]) /\ doc = Content(session'[s])
          \/ session'[s].kind = "missing" /\ doc = Blank
      BY <1>7, <2>2 DEF Current
    <3>2. session' = session
      OBVIOUS
    <3> QED BY <3>1, <3>2 DEF Current
  <2> QED BY <2>1, <2>2
<1>8. ASSUME NEW doc, Current(s, doc) PROVE Agrees(s, doc)'
  <2>1. Agrees(s, doc)
    BY <1>4, <1>8 DEF Calm
  <2>2. pc[p].s = s /\ ~Pends(pc[p], "write") =>
           NewTexts(pc[p].batch) \subseteq Texts(doc) /\ Grows(pc[p].doc, doc)
    BY <2>1 DEF Agrees, Holding, Pends
  <2>3. acked'[s] \subseteq Texts(doc)
    BY <2>1, <2>2 DEF Agrees
  <2>4. Readable(session[s]) => Grows(Content(session[s]), doc)
    BY <2>1 DEF Agrees
  <2>5. ASSUME NEW q \in Proc, Busy(q)', pc'[q].s = s, ~Holding(q, s)'
        PROVE  NewTexts(pc'[q].batch) \subseteq Texts(doc) /\ Grows(pc'[q].doc, doc)
    <3>1. CASE q # p
      BY <1>2, <1>5, <2>1, <2>5, <3>1 DEF Agrees
    <3>2. CASE q = p
      <4>1. n.todo # <<>> /\ n.s = s
        BY <1>2, <2>5, <3>2 DEF Busy
      <4>2. ~Pends(n, "write")
        BY <1>2, <2>5, <3>2, <4>1 DEF Holding, Pends
      <4>3. NewTexts(n.batch) \subseteq Texts(doc) /\ Grows(pc[p].doc, doc)
        BY <2>2, <4>1, <4>2
      <4>4. Grows(n.doc, doc)
        BY <2>4, <4>1, <4>3
      <4> QED BY <1>2, <3>2, <4>3, <4>4
    <3> QED BY <3>1, <3>2
  <2>6. DocOk(doc)
    <3>1. ASSUME NEW q \in Proc PROVE DocOk(pc[q].doc)
      BY DEF Inv, DocsOk, CallOk
    <3> QED BY <1>8, <3>1, BlankIsOk, SessionFile DEF Current
  <2>7. PanelFits(files'[s]["panel"], doc)
    <3>1. CASE files'[s]["panel"] = files[s]["panel"]
      BY <2>1, <3>1 DEF Agrees
    <3>2. CASE files'[s]["panel"] # files[s]["panel"]
      <4>1. Grows(pc[p].doc, doc) /\ files'[s]["panel"] = <<Panel(pc[p].doc)>>
        BY <2>2, <3>2
      <4>2. pc[p].doc \in Doc /\ doc \in Doc
        BY <1>3, <2>6 DEF CallOk, DocOk, Sound
      <4>3. PanelFits(<<Panel(pc[p].doc)>>, doc)
        BY <4>1, <4>2, PanelOfFits
      <4> QED BY <4>1, <4>3
    <3> QED BY <3>1, <3>2
  <2>8. ReadBy(doc, readback) /\ \A q \in Proc : view[q].of = s => ViewFits(view[q].queue, doc)
    BY <2>1 DEF Agrees
  <2> QED BY <2>3, <2>4, <2>5, <2>7, <2>8 DEF Agrees
<1>9. files'[s]["plan"] # <<>> =>
          \A item \in files'[s]["plan"][1].confirmed : item.tag \in readback
  <2>1. CASE files'[s]["plan"] = files[s]["plan"]
    BY <1>4, <2>1 DEF Calm
  <2>2. CASE files'[s]["plan"] # files[s]["plan"]
    <3>1. Holding(p, s) /\ files'[s]["plan"] = <<Plan(pc[p].doc)>>
      BY <2>2 DEF Holding, Pends
    <3>2. Current(s, pc[p].doc)
      BY <3>1 DEF Current
    <3>3. ReadBy(pc[p].doc, readback)
      BY <1>4, <3>2 DEF Calm, Agrees
    <3>4. files'[s]["plan"][1].confirmed = ItemsWith(pc[p].doc, Verified)
      BY <3>1 DEF Plan
    <3> QED BY <3>3, <3>4 DEF ItemsWith, ReadBy
  <2> QED BY <2>1, <2>2
<1>10. \A q, r \in Proc : Holding(q, s)' /\ Holding(r, s)' => q = r
  BY <1>4, <1>5, <1>6 DEF Calm
<1>11. \A q \in Proc : Holding(q, s)' => NewTexts(pc'[q].batch) \subseteq Texts(pc'[q].doc)
  BY <1>2, <1>4, <1>5, <1>6 DEF Calm
<1>12. \A q \in Proc : At(q, "write")' /\ pc'[q].s = s => session'[s] = Torn
  BY <1>2, <1>4, <1>5, <1>6 DEF Calm
<1>13. session'[s] = Torn => \E q \in Proc : At(q, "write")' /\ pc'[q].s = s
  BY <1>2, <1>4, <1>5, <1>6 DEF Calm
<1> QED BY <1>4, <1>7, <1>8, <1>9, <1>10, <1>11, <1>12, <1>13 DEF Calm

LEMMA FinalFilesAre ==
    DOMAIN FinalFiles = 1 .. 2 /\ FinalFiles[1] = "plan" /\ FinalFiles[2] = "handoff"
BY DEF FinalFiles

LEMMA SideFilesAre == SideFile = {"runtime", "panel", "plan", "handoff"}
BY FinalFilesAre DEF SideFile

\* The call after a step.
LEMMA StepTaken ==
    ASSUME Inv, NEW p \in Proc, Busy(p), NEW n, n = Onward(pc[p])
    PROVE  /\ CallOk(pc[p]) /\ pc[p].todo # <<>> /\ pc[p].s \in Session /\ n \in Call
           /\ n.s = pc[p].s /\ n.doc = pc[p].doc /\ n.batch = pc[p].batch
           /\ n.job = pc[p].job /\ n.idx = pc[p].idx
           /\ EndOf(StepsOf(n.job), n.todo)
           /\ Pends(pc[p], Head(pc[p].todo))
           /\ \A x : Pends(n, x) <=> (Pends(pc[p], x) /\ x # Head(pc[p].todo))
           /\ Head(pc[p].todo) = "truncate" => n.todo # <<>> /\ Head(n.todo) = "write"
           /\ Head(pc[p].todo) = "plan" => Pends(pc[p], "write")
           /\ Head(pc[p].todo) \in {"panel", "reload", "answer"} => ~Pends(pc[p], "write")
           /\ Head(pc[p].todo) \in {"write", "reload", "index_load", "index_truncate",
                                    "index_write"} =>
                 ~Pends(pc[p], "plan") /\ ~Pends(pc[p], "handoff")
           /\ n.todo # <<>> /\ Head(pc[p].todo) # "truncate" => Head(n.todo) # "write"
           /\ Head(pc[p].todo) # "index_load" => CallOk(n)
<1>1. CallOk(pc[p]) /\ pc[p].todo # <<>>
  BY DEF Inv, DocsOk, Busy
<1>2. pc[p].s \in Session /\ pc[p].job \in Jobs
  BY <1>1 DEF CallOk
<1> DEFINE c == pc[p]
           step == Head(c.todo)
<1>3. /\ Pends(c, step)
      /\ \A x : Pends(n, x) <=> (Pends(c, x) /\ x # step)
      /\ step = "truncate" => n.todo # <<>> /\ Head(n.todo) = "write"
      /\ step = "plan" => Pends(c, "write")
      /\ step \in {"panel", "reload", "answer"} => ~Pends(c, "write")
      /\ step \in {"write", "reload", "index_load", "index_truncate", "index_write"} =>
             ~Pends(c, "plan") /\ ~Pends(c, "handoff")
      /\ n.todo # <<>> /\ Head(n.todo) = "write" => step = "truncate"
      /\ n.todo # <<>> /\ Head(n.todo) \in {"index_truncate", "index_write"} =>
             step \in {"index_load", "index_truncate"}
      /\ EndOf(StepsOf(c.job), n.todo) /\ n \in Call
      /\ n.s = c.s /\ n.doc = c.doc /\ n.job = c.job
      /\ n.batch = c.batch /\ n.idx = c.idx
  <2> HIDE DEF c
  <2>1. n = Onward(c) /\ CallOk(c) /\ c.todo # <<>>
    BY <1>1 DEF c
  <2> QED BY <2>1, StepsInOrder
<1>4. ASSUME step # "index_load" PROVE CallOk(n)
  <2>1. n.todo # <<>> /\ Head(n.todo) \in {"index_truncate", "index_write"} => n.idx # <<>>
    BY <1>1, <1>3, <1>4 DEF CallOk
  <2>2. DocOk(n.doc)
    BY <1>1, <1>3 DEF CallOk
  <2> QED BY <1>2, <1>3, <2>1, <2>2 DEF CallOk
<1> QED BY <1>1, <1>2, <1>3, <1>4

LEMMA DocsStayOk ==
    ASSUME Inv, NEW p \in Proc, NEW n, CallOk(n), pc' = [pc EXCEPT ![p] = n],
           \A s \in Session : Readable(session'[s]) => DocOk(Content(session'[s])),
           \A s \in Session : PanelOk(files'[s]["panel"])
    PROVE  DocsOk'
<1>1. n \in Call
  BY DEF CallOk
<1>2. /\ pc'[p] = n
      /\ \A q \in Proc : q # p => pc'[q] = pc[q]
  BY <1>1, CallReplaced DEF Inv, TypeOk
<1> QED BY <1>2 DEF Inv, DocsOk

\* A call of a finalized document whose steps do not change what its files need.
LEMMA CallFiles ==
    ASSUME Inv, NEW p \in Proc, Busy(p), pc[p].doc.status = "finalized",
           NEW i \in DOMAIN FinalFiles
    PROVE  files[pc[p].s][FinalFiles[i]] # <<>> \/ Pends(pc[p], FinalFiles[i])
BY DEF Inv, FilesFirst

LEMMA SessionFinal ==
    ASSUME Inv, NEW s \in Session
    PROVE  /\ Readable(session[s]) /\ Content(session[s]).status = "finalized" => OnDisk(s)
           /\ Readable(index) /\ Content(index)[s] = "finalized" => OnDisk(s)
BY DEF Inv, FilesFirst, FinalizedHasFiles, OnDisk

LEMMA TornIsNotReadable ==
    /\ ~Readable(Torn) /\ ~Readable(NoFile) /\ ~Readable(Garbled)
    /\ Torn.kind # "missing" /\ Garbled.kind # "missing" /\ Torn # Garbled
    /\ \A x : /\ Readable(Holds(x)) /\ Content(Holds(x)) = x /\ Holds(x).kind # "missing"
              /\ Holds(x) # Torn /\ Holds(x) # Garbled
BY DEF Readable, Content, Torn, NoFile, Garbled, Holds, File

LEMMA WrittenIs ==
    ASSUME NEW file, NEW x, NEW f \in Written(file, x)
    PROVE  (f = Holds(x) \/ f = Garbled) /\ (file = Torn => f = Holds(x))
BY TornIsNotReadable DEF Written, Torn, File

LEMMA TruncateOk ==
    ASSUME Inv, NEW p \in Proc, Truncate(p)
    PROVE  Inv'
<1> DEFINE t == pc[p].s
           n == Onward(pc[p])
<1>1. /\ Busy(p) /\ Head(pc[p].todo) = "truncate" /\ session' = [session EXCEPT ![t] = Torn]
      /\ pc' = [pc EXCEPT ![p] = n]
      /\ UNCHANGED <<files, index, view, heard, texts, acked, readback, clash>>
  BY DEF Truncate, At, Proceed
<1>2. /\ CallOk(pc[p]) /\ pc[p].todo # <<>> /\ t \in Session /\ n \in Call /\ CallOk(n)
      /\ n.s = t /\ n.doc = pc[p].doc /\ n.batch = pc[p].batch /\ n.idx = pc[p].idx
      /\ Pends(pc[p], "truncate")
      /\ \A x : Pends(n, x) <=> (Pends(pc[p], x) /\ x # "truncate")
      /\ n.todo # <<>> /\ Head(n.todo) = "write"
  BY <1>1, StepTaken
<1> HIDE DEF n, t
<1>3. /\ pc' \in [Proc -> Call] /\ pc'[p] = n
      /\ \A q \in Proc : q # p => pc'[q] = pc[q]
  BY <1>1, <1>2, CallReplaced DEF Inv, TypeOk
<1>4. session' \in [Session -> FileOf(Doc)] /\ session'[t] = Torn
      /\ \A s \in Session : s # t => session'[s] = session[s]
  <2>1. session \in [Session -> FileOf(Doc)] /\ Torn \in FileOf(Doc)
    BY DEF Inv, TypeOk, FileOf
  <2> QED BY <1>1, <1>2, <2>1
<1>5. TypeOk'
  BY <1>1, <1>3, <1>4 DEF Inv, TypeOk
<1>6. DocsOk'
  <2>1. \A s \in Session : Readable(session'[s]) => DocOk(Content(session'[s]))
    BY <1>4, SessionFile, TornIsNotReadable
  <2>2. \A s \in Session : PanelOk(files'[s]["panel"])
    BY <1>1 DEF Inv, DocsOk
  <2> QED BY <1>1, <1>2, <2>1, <2>2, DocsStayOk
<1>7. FilesFirst'
  <2>1. \A s \in Session : OnDisk(s)' <=> OnDisk(s)
    BY <1>1 DEF OnDisk
  <2>2. \A s \in Session : Readable(session'[s]) /\ Content(session'[s]).status = "finalized"
              => OnDisk(s)'
    BY <1>4, <2>1, SessionFinal, TornIsNotReadable
  <2>3. \A s \in Session : Readable(index') /\ Content(index')[s] = "finalized" => OnDisk(s)'
    BY <1>1, <2>1, SessionFinal
  <2>4. ASSUME n.doc.status = "finalized", NEW i \in DOMAIN FinalFiles
        PROVE  files'[n.s][FinalFiles[i]] # <<>> \/ Pends(n, FinalFiles[i])
    <3>1. FinalFiles[i] # "truncate"
      BY FinalFilesAre
    <3> QED BY <1>1, <1>2, <2>4, <3>1, CallFiles DEF t
  <2>5. n.idx # <<>> => \A s \in Session : n.idx[1][s] = "finalized" => OnDisk(s)'
    BY <1>2, <2>1, CallHasIdx
  <2> QED BY <1>1, <1>2, <2>1, <2>2, <2>3, <2>4, <2>5, FilesKept
<1>8. ASSUME NEW s \in Session, s \notin clash' PROVE Calm(s)'
  <2>1. Calm(s)
    BY <1>1, <1>8 DEF Inv
  <2>2. \A q \in Proc : q # p => /\ Holding(q, s)' <=> Holding(q, s)
                                 /\ Busy(q)' <=> Busy(q)
                                 /\ At(q, "write")' <=> At(q, "write")
    BY <1>3 DEF Busy, At, Holding
  <2>3. /\ At(p, "write")' /\ ~At(p, "write") /\ Busy(p)'
        /\ Holding(p, s)' <=> s = t
        /\ Holding(p, s) <=> s = t
    <3>1. At(p, "write")' /\ ~At(p, "write") /\ Busy(p)'
      BY <1>1, <1>2, <1>3 DEF At, Busy
    <3>2. Pends(n, "write")
      <4>1. n.todo \in Seq(StepName)
        BY <1>2 DEF Call
      <4>2. 1 \in DOMAIN n.todo /\ n.todo[1] = "write"
        BY <1>2, <4>1
      <4> QED BY <4>2 DEF Pends
    <3>3. Pends(pc[p], "write")
      BY <1>2, <3>2
    <3> QED BY <1>2, <1>3, <3>1, <3>2, <3>3 DEF Holding, Pends, t
  <2>4. ASSUME NEW doc, Current(s, doc)' PROVE Current(s, doc)
    <3>1. CASE \E q \in Proc : Holding(q, s)' /\ doc = pc'[q].doc
      <4>1. PICK q \in Proc : Holding(q, s)' /\ doc = pc'[q].doc
        BY <3>1
      <4>2. Holding(q, s) /\ doc = pc[q].doc
        BY <1>2, <1>3, <2>2, <2>3, <4>1
      <4> QED BY <4>2 DEF Current
    <3>2. CASE ~\E q \in Proc : Holding(q, s)' /\ doc = pc'[q].doc
      <4>1. \/ Readable(session'[s]) /\ doc = Content(session'[s])
            \/ session'[s].kind = "missing" /\ doc = Blank
        BY <2>4, <3>2 DEF Current
      <4>2. s # t
        BY <1>4, <4>1, TornIsNotReadable
      <4> QED BY <1>4, <4>1, <4>2 DEF Current
    <3> QED BY <3>1, <3>2
  <2>5. ASSUME NEW doc, Agrees(s, doc) PROVE Agrees(s, doc)'
    <3>1. Readable(session'[s]) => Grows(Content(session'[s]), doc)
      BY <1>4, <2>5, TornIsNotReadable DEF Agrees
    <3>2. ASSUME NEW q \in Proc, Busy(q)', pc'[q].s = s, ~Holding(q, s)'
          PROVE  NewTexts(pc'[q].batch) \subseteq Texts(doc) /\ Grows(pc'[q].doc, doc)
      <4>1. q # p
        BY <1>2, <1>3, <2>3, <3>2
      <4> QED BY <1>3, <2>2, <2>5, <3>2, <4>1 DEF Agrees
    <3> QED BY <1>1, <2>5, <3>1, <3>2 DEF Agrees
  <2>6. \A q, r \in Proc : Holding(q, s)' /\ Holding(r, s)' => q = r
    BY <2>1, <2>2, <2>3 DEF Calm
  <2>7. \A q \in Proc : Holding(q, s)' => NewTexts(pc'[q].batch) \subseteq Texts(pc'[q].doc)
    BY <1>2, <1>3, <2>1, <2>2, <2>3 DEF Calm
  <2>8. \A q \in Proc : At(q, "write")' /\ pc'[q].s = s => session'[s] = Torn
    BY <1>2, <1>3, <1>4, <2>1, <2>2 DEF Calm
  <2>9. session'[s] = Torn => \E q \in Proc : At(q, "write")' /\ pc'[q].s = s
    <3>1. CASE s = t
      BY <1>2, <1>3, <2>3, <3>1
    <3>2. CASE s # t
      <4>1. session'[s] = session[s]
        BY <1>4, <3>2
      <4> QED BY <1>3, <2>1, <2>2, <2>3, <4>1 DEF Calm
    <3> QED BY <3>1, <3>2
  <2>10. session'[s] # Garbled
    BY <1>4, <2>1, TornIsNotReadable DEF Calm
  <2> QED BY <1>1, <2>1, <2>4, <2>5, <2>6, <2>7, <2>8, <2>9, <2>10 DEF Calm
<1> QED BY <1>5, <1>6, <1>7, <1>8 DEF Inv

LEMMA WriteStateOk ==
    ASSUME Inv, NEW p \in Proc, WriteState(p)
    PROVE  Inv'
<1> DEFINE t == pc[p].s
           d == pc[p].doc
           n == Onward(pc[p])
<1>1. /\ Busy(p) /\ Head(pc[p].todo) = "write" /\ At(p, "write")
      /\ pc' = [pc EXCEPT ![p] = n]
      /\ UNCHANGED <<files, index, view, heard, texts, acked, readback, clash>>
  BY DEF WriteState, At, Proceed
<1>2. /\ CallOk(pc[p]) /\ pc[p].todo # <<>> /\ t \in Session /\ n \in Call /\ CallOk(n)
      /\ n.s = t /\ n.doc = d /\ n.batch = pc[p].batch /\ n.idx = pc[p].idx
      /\ Pends(pc[p], "write") /\ ~Pends(pc[p], "plan") /\ ~Pends(pc[p], "handoff")
      /\ \A x : Pends(n, x) <=> (Pends(pc[p], x) /\ x # "write")
      /\ n.todo # <<>> => Head(n.todo) # "write"
  BY <1>1, StepTaken
<1>3. PICK f \in Written(session[t], d) : session' = [session EXCEPT ![t] = f]
  BY DEF WriteState
<1>4. DocOk(d) /\ d \in Doc
  BY <1>2 DEF CallOk, DocOk, Sound
<1> HIDE DEF n, t, d
<1>5. /\ pc' \in [Proc -> Call] /\ pc'[p] = n
      /\ \A q \in Proc : q # p => pc'[q] = pc[q]
  BY <1>1, <1>2, CallReplaced DEF Inv, TypeOk
<1>6. (f = Holds(d) \/ f = Garbled) /\ (session[t] = Torn => f = Holds(d))
  BY <1>3, WrittenIs
<1>7. session' \in [Session -> FileOf(Doc)] /\ session'[t] = f
      /\ \A s \in Session : s # t => session'[s] = session[s]
  <2>1. session \in [Session -> FileOf(Doc)] /\ f \in FileOf(Doc)
    BY <1>4, <1>6 DEF Inv, TypeOk, FileOf
  <2> QED BY <1>2, <1>3, <2>1
<1>8. TypeOk'
  BY <1>1, <1>5, <1>7 DEF Inv, TypeOk
<1>9. DocsOk'
  <2>1. \A s \in Session : Readable(session'[s]) => DocOk(Content(session'[s]))
    BY <1>4, <1>6, <1>7, SessionFile, TornIsNotReadable
  <2>2. \A s \in Session : PanelOk(files'[s]["panel"])
    BY <1>1 DEF Inv, DocsOk
  <2> QED BY <1>1, <1>2, <2>1, <2>2, DocsStayOk
<1>10. FilesFirst'
  <2>1. \A s \in Session : OnDisk(s)' <=> OnDisk(s)
    BY <1>1 DEF OnDisk
  <2>2. d.status = "finalized" => OnDisk(t)
    <3>1. ASSUME d.status = "finalized", NEW i \in DOMAIN FinalFiles
          PROVE  files[t][FinalFiles[i]] # <<>>
      <4>1. FinalFiles[i] \in {"plan", "handoff"}
        BY FinalFilesAre
      <4>2. files[t][FinalFiles[i]] # <<>> \/ Pends(pc[p], FinalFiles[i])
        BY <1>1, <3>1, CallFiles DEF t, d
      <4> QED BY <1>2, <4>1, <4>2
    <3> QED BY <3>1 DEF OnDisk
  <2>3. \A s \in Session : Readable(session'[s]) /\ Content(session'[s]).status = "finalized"
              => OnDisk(s)'
    BY <1>6, <1>7, <2>1, <2>2, SessionFinal, TornIsNotReadable
  <2>4. \A s \in Session : Readable(index') /\ Content(index')[s] = "finalized" => OnDisk(s)'
    BY <1>1, <2>1, SessionFinal
  <2>5. n.doc.status = "finalized" => \A i \in DOMAIN FinalFiles : files'[n.s][FinalFiles[i]] # <<>>
    BY <1>1, <1>2, <2>2 DEF OnDisk
  <2>6. n.idx # <<>> => \A s \in Session : n.idx[1][s] = "finalized" => OnDisk(s)'
    BY <1>2, <2>1, CallHasIdx
  <2> QED BY <1>1, <1>2, <2>1, <2>3, <2>4, <2>5, <2>6, FilesKept
<1>11. ASSUME NEW s \in Session, s \notin clash' PROVE Calm(s)'
  <2>1. Calm(s)
    BY <1>1, <1>11 DEF Inv
  <2>2. \A q \in Proc : q # p => /\ Holding(q, s)' <=> Holding(q, s)
                                 /\ Busy(q)' <=> Busy(q)
                                 /\ At(q, "write")' <=> At(q, "write")
    BY <1>5 DEF Busy, At, Holding
  <2>3. /\ ~At(p, "write")' /\ ~Holding(p, s)'
        /\ Holding(p, s) <=> s = t
    BY <1>2, <1>5 DEF Holding, Pends, At, Busy, t
  <2>4. \A q \in Proc : Holding(q, s)' => q # p /\ Holding(q, s) /\ s # t
    <3>1. \A q \in Proc : Holding(q, s) /\ Holding(p, s) => q = p
      BY <2>1 DEF Calm
    <3> QED BY <2>2, <2>3, <3>1
  <2>5. s = t => session'[s] = Holds(d)
    <3>1. s = t => session[s] = Torn
      BY <1>1, <2>1 DEF Calm, t
    <3> QED BY <1>6, <1>7, <3>1
  <2>6. ASSUME NEW doc, Current(s, doc)' PROVE Current(s, doc)
    <3>1. CASE \E q \in Proc : Holding(q, s)' /\ doc = pc'[q].doc
      <4>1. PICK q \in Proc : Holding(q, s)' /\ doc = pc'[q].doc
        BY <3>1
      <4>2. Holding(q, s) /\ doc = pc[q].doc
        BY <1>5, <2>4, <4>1
      <4> QED BY <4>2 DEF Current
    <3>2. CASE ~\E q \in Proc : Holding(q, s)' /\ doc = pc'[q].doc
      <4>1. \/ Readable(session'[s]) /\ doc = Content(session'[s])
            \/ session'[s].kind = "missing" /\ doc = Blank
        BY <2>6, <3>2 DEF Current
      <4>2. CASE s = t
        <5>1. doc = d
          BY <2>5, <4>1, <4>2, TornIsNotReadable
        <5> QED BY <2>3, <4>2, <5>1 DEF Current, d
      <4>3. CASE s # t
        BY <1>7, <4>1, <4>3 DEF Current
      <4> QED BY <4>2, <4>3
    <3> QED BY <3>1, <3>2
  <2>7. ASSUME NEW doc, Current(s, doc)' PROVE Agrees(s, doc)'
    <3>1. Agrees(s, doc)
      BY <2>1, <2>6, <2>7 DEF Calm
    <3>2. s = t => doc = d
      <4>1. ASSUME s = t PROVE ~\E q \in Proc : Holding(q, s)' /\ doc = pc'[q].doc
        BY <2>4, <4>1
      <4> QED BY <2>5, <2>7, <4>1, TornIsNotReadable DEF Current
    <3>3. Readable(session'[s]) => Grows(Content(session'[s]), doc)
      BY <1>7, <2>5, <3>1, <3>2, TornIsNotReadable, GrowsReflexive DEF Agrees
    <3>4. ASSUME NEW q \in Proc, Busy(q)', pc'[q].s = s, ~Holding(q, s)'
          PROVE  NewTexts(pc'[q].batch) \subseteq Texts(doc) /\ Grows(pc'[q].doc, doc)
      <4>1. CASE q = p
        <5>1. s = t /\ doc = d
          BY <1>2, <1>5, <3>2, <3>4, <4>1
        <5>2. NewTexts(pc[p].batch) \subseteq Texts(d)
          BY <2>1, <2>3, <5>1 DEF Calm, d
        <5> QED BY <1>2, <1>5, <4>1, <5>1, <5>2, GrowsReflexive
      <4>2. CASE q # p
        BY <1>5, <2>2, <3>1, <3>4, <4>2 DEF Agrees
      <4> QED BY <4>1, <4>2
    <3> QED BY <1>1, <3>1, <3>3, <3>4 DEF Agrees
  <2>8. \A q, r \in Proc : Holding(q, s)' /\ Holding(r, s)' => q = r
    BY <2>1, <2>4 DEF Calm
  <2>9. \A q \in Proc : Holding(q, s)' => NewTexts(pc'[q].batch) \subseteq Texts(pc'[q].doc)
    BY <1>5, <2>1, <2>4 DEF Calm
  <2>10. \A q \in Proc : At(q, "write") => Holding(q, pc[q].s)
    <3>1. ASSUME NEW q \in Proc, At(q, "write") PROVE Holding(q, pc[q].s)
      <4>1. pc[q].todo \in Seq(StepName) /\ pc[q].todo # <<>> /\ Head(pc[q].todo) = "write"
        BY <3>1 DEF Inv, TypeOk, Call, At, Busy
      <4>2. 1 \in DOMAIN pc[q].todo /\ pc[q].todo[1] = "write"
        BY <4>1
      <4> QED BY <4>2 DEF Holding
    <3> QED BY <3>1
  <2>11. ASSUME NEW q \in Proc, At(q, "write")', pc'[q].s = s PROVE session'[s] = Torn
    <3>1. q # p /\ At(q, "write") /\ pc[q].s = s
      BY <1>5, <2>2, <2>3, <2>11
    <3>2. Holding(q, s)
      BY <2>10, <3>1
    <3>3. s # t
      BY <2>2, <2>4, <3>1, <3>2
    <3> QED BY <1>7, <2>1, <3>1, <3>3 DEF Calm
  <2>12. ASSUME session'[s] = Torn PROVE \E q \in Proc : At(q, "write")' /\ pc'[q].s = s
    <3>1. s # t /\ session[s] = Torn
      BY <1>7, <2>5, <2>12, TornIsNotReadable
    <3>2. PICK q \in Proc : At(q, "write") /\ pc[q].s = s
      BY <2>1, <3>1 DEF Calm
    <3>3. q # p
      BY <3>1, <3>2 DEF t
    <3> QED BY <1>5, <2>2, <3>2, <3>3
  <2>13. session'[s] # Garbled
    BY <1>7, <2>1, <2>5, TornIsNotReadable DEF Calm
  <2> QED BY <1>1, <2>1, <2>7, <2>8, <2>9, <2>11, <2>12, <2>13 DEF Calm
<1> QED BY <1>8, <1>9, <1>10, <1>11 DEF Inv

LEMMA OneIsNotEmpty == \A x : <<x>> # <<>> /\ <<x>>[1] = x
<1>1. \A x : Len(<<x>>) = 1 /\ <<x>>[1] = x
  OBVIOUS
<1> QED BY <1>1, EmptyIsEmpty

LEMMA WriteSideOk ==
    ASSUME Inv, NEW p \in Proc, WriteSide(p)
    PROVE  Inv'
<1> DEFINE t == pc[p].s
           d == pc[p].doc
           n == Onward(pc[p])
<1>1. PICK f \in SideFile : At(p, f) /\ files' = [files EXCEPT ![t][f] = <<Render(f, d)>>]
  BY DEF WriteSide
<1>2. /\ Busy(p) /\ Head(pc[p].todo) = f /\ pc' = [pc EXCEPT ![p] = n]
      /\ UNCHANGED <<session, index, view, heard, texts, acked, readback, clash>>
  BY <1>1 DEF WriteSide, At, Proceed
<1>3. f \in {"runtime", "panel", "plan", "handoff"}
  BY SideFilesAre
<1>4. /\ CallOk(pc[p]) /\ pc[p].todo # <<>> /\ t \in Session /\ n \in Call /\ CallOk(n)
      /\ n.s = t /\ n.doc = d /\ n.batch = pc[p].batch /\ n.idx = pc[p].idx
      /\ \A x : Pends(n, x) <=> (Pends(pc[p], x) /\ x # f)
      /\ n.todo # <<>> => Head(n.todo) # "write"
      /\ f = "panel" => ~Pends(pc[p], "write")
      /\ f = "plan" => Pends(pc[p], "write")
  BY <1>2, <1>3, StepTaken
<1>5. DocOk(d) /\ d \in Doc
  BY <1>4 DEF CallOk, DocOk, Sound
<1> HIDE DEF n, t, d
<1>6. /\ pc' \in [Proc -> Call] /\ pc'[p] = n
      /\ \A q \in Proc : q # p => pc'[q] = pc[q]
  BY <1>2, <1>4, CallReplaced DEF Inv, TypeOk
<1> DEFINE new == <<Render(f, d)>>
<1>7. new \in Rendered /\ new # <<>>
  BY <1>5, OneIsNotEmpty DEF Rendered
<1>8. files' = [files EXCEPT ![t][f] = new]
  BY <1>1
<1>9. /\ f = "panel" => new = <<Panel(d)>>
      /\ f = "plan" => new = <<Plan(d)>>
  BY DEF Render
<1> HIDE DEF new
<1>10. /\ files' \in [Session -> [SideFile -> Rendered]] /\ files'[t][f] = new
       /\ \A s \in Session, g \in SideFile : ~(s = t /\ g = f) => files'[s][g] = files[s][g]
  <2>1. files \in [Session -> [SideFile -> Rendered]]
    BY DEF Inv, TypeOk
  <2> QED BY <1>4, <1>7, <1>8, <2>1
<1>11. TypeOk'
  BY <1>2, <1>6, <1>10 DEF Inv, TypeOk
<1>12. "panel" \in SideFile /\ "plan" \in SideFile
  BY SideFilesAre
<1>13. DocsOk'
  <2>1. \A s \in Session : Readable(session'[s]) => DocOk(Content(session'[s]))
    BY <1>2, SessionFile
  <2>2. \A s \in Session : PanelOk(files'[s]["panel"])
    <3>1. ASSUME NEW s \in Session PROVE PanelOk(files'[s]["panel"])
      <4>1. CASE files'[s]["panel"] = files[s]["panel"]
        BY <4>1 DEF Inv, DocsOk
      <4>2. CASE files'[s]["panel"] # files[s]["panel"]
        <5>1. files'[s]["panel"] = <<Panel(d)>>
          BY <1>9, <1>10, <1>12, <4>2
        <5> QED BY <1>5, <5>1 DEF PanelOk
      <4> QED BY <4>1, <4>2
    <3> QED BY <3>1
  <2> QED BY <1>2, <1>4, <2>1, <2>2, DocsStayOk
<1>14. FilesFirst'
  <2>1. \A i \in DOMAIN FinalFiles : FinalFiles[i] \in SideFile
    BY FinalFilesAre, SideFilesAre
  <2>2. \A s \in Session, i \in DOMAIN FinalFiles :
           files[s][FinalFiles[i]] # <<>> => files'[s][FinalFiles[i]] # <<>>
    BY <1>7, <1>10, <2>1
  <2>3. \A s \in Session : OnDisk(s) => OnDisk(s)'
    BY <2>2 DEF OnDisk
  <2>4. \A s \in Session : Readable(session'[s]) /\ Content(session'[s]).status = "finalized"
              => OnDisk(s)'
    BY <1>2, <2>3, SessionFinal
  <2>5. \A s \in Session : Readable(index') /\ Content(index')[s] = "finalized" => OnDisk(s)'
    BY <1>2, <2>3, SessionFinal
  <2>6. ASSUME n.doc.status = "finalized", NEW i \in DOMAIN FinalFiles
        PROVE  files'[n.s][FinalFiles[i]] # <<>> \/ Pends(n, FinalFiles[i])
    <3>1. files[t][FinalFiles[i]] # <<>> \/ Pends(pc[p], FinalFiles[i])
      BY <1>2, <1>4, <2>6, CallFiles DEF t, d
    <3>2. FinalFiles[i] = f => files'[t][FinalFiles[i]] # <<>>
      BY <1>7, <1>10
    <3> QED BY <1>4, <2>2, <3>1, <3>2
  <2>7. n.idx # <<>> => \A s \in Session : n.idx[1][s] = "finalized" => OnDisk(s)'
    BY <1>4, <2>3, CallHasIdx
  <2> QED BY <1>2, <1>4, <2>2, <2>3, <2>4, <2>5, <2>6, <2>7, FilesKept
<1>15. \A s \in Session \ clash' : Calm(s)'
  <2>1. \A s \in Session : files'[s]["panel"] # files[s]["panel"] =>
              /\ s = t /\ ~Pends(pc[p], "write") /\ files'[s]["panel"] = <<Panel(d)>>
    BY <1>4, <1>9, <1>10, <1>12
  <2>2. \A s \in Session : files'[s]["plan"] # files[s]["plan"] =>
              /\ s = t /\ Pends(pc[p], "write") /\ files'[s]["plan"] = <<Plan(d)>>
    BY <1>4, <1>9, <1>10, <1>12
  <2> QED BY <1>2, <1>3, <1>4, <2>1, <2>2, StaysCalm DEF t, d
<1> QED BY <1>11, <1>13, <1>14, <1>15 DEF Inv

LEMMA ReloadOk ==
    ASSUME Inv, NEW p \in Proc, Reload(p)
    PROVE  Inv'
<1> DEFINE t == pc[p].s
           file == session[t]
           o == Onward(pc[p])
           r == [o EXCEPT !.doc = Content(file)]
           n == IF Readable(file) THEN r ELSE Idle
<1>1. /\ Busy(p) /\ Head(pc[p].todo) = "reload" /\ pc' = [pc EXCEPT ![p] = n]
      /\ UNCHANGED <<session, files, index, view, heard, texts, acked, readback, clash>>
  BY DEF Reload, At
<1>2. /\ CallOk(pc[p]) /\ pc[p].todo # <<>> /\ t \in Session /\ o \in Call /\ CallOk(o)
      /\ o.s = t /\ o.batch = pc[p].batch /\ o.idx = pc[p].idx
      /\ \A x : Pends(o, x) <=> (Pends(pc[p], x) /\ x # "reload")
      /\ o.todo # <<>> => Head(o.todo) # "write"
      /\ ~Pends(pc[p], "write")
  BY <1>1, StepTaken
<1>3. Readable(file) => /\ CallOk(r) /\ r.s = t /\ r.batch = pc[p].batch /\ r.idx = pc[p].idx
                        /\ r.todo = o.todo /\ r.doc = Content(file)
  <2> SUFFICES ASSUME Readable(file)
               PROVE  /\ CallOk(r) /\ r.s = t /\ r.batch = pc[p].batch /\ r.idx = pc[p].idx
                      /\ r.todo = o.todo /\ r.doc = Content(file)
    OBVIOUS
  <2>1. DocOk(Content(file)) /\ Content(file) \in Doc
    BY <1>2, SessionFile
  <2> HIDE DEF o, file, t
  <2>2. /\ r \in Call /\ r.s = o.s /\ r.batch = o.batch /\ r.idx = o.idx /\ r.job = o.job
        /\ r.todo = o.todo /\ r.doc = Content(file)
    BY <1>2, <2>1 DEF Call
  <2> HIDE DEF r
  <2> QED BY <1>2, <2>1, <2>2 DEF CallOk
<1>4. CallOk(n) /\ n \in Call
  BY <1>3, IdleIsOk DEF CallOk
<1>5. n.todo # <<>> => /\ Readable(file) /\ n.s = t /\ n.batch = pc[p].batch
                       /\ n.doc = Content(file) /\ n.todo = o.todo
  BY <1>3, IdleIsOk
<1>6. n.idx # <<>> => n.idx = pc[p].idx
  BY <1>3, IdleIsOk
<1> HIDE DEF n, r, o
<1>7. /\ pc' \in [Proc -> Call] /\ pc'[p] = n
      /\ \A q \in Proc : q # p => pc'[q] = pc[q]
  BY <1>1, <1>4, CallReplaced DEF Inv, TypeOk
<1>8. TypeOk'
  BY <1>1, <1>7 DEF Inv, TypeOk
<1>9. DocsOk'
  <2>1. \A s \in Session : Readable(session'[s]) => DocOk(Content(session'[s]))
    BY <1>1, SessionFile
  <2>2. \A s \in Session : PanelOk(files'[s]["panel"])
    BY <1>1 DEF Inv, DocsOk
  <2> QED BY <1>1, <1>4, <2>1, <2>2, DocsStayOk
<1>10. FilesFirst'
  <2>1. \A s \in Session : OnDisk(s)' <=> OnDisk(s)
    BY <1>1 DEF OnDisk
  <2>2. \A s \in Session : Readable(session'[s]) /\ Content(session'[s]).status = "finalized"
              => OnDisk(s)'
    BY <1>1, <2>1, SessionFinal
  <2>3. \A s \in Session : Readable(index') /\ Content(index')[s] = "finalized" => OnDisk(s)'
    BY <1>1, <2>1, SessionFinal
  <2>4. n.todo # <<>> /\ n.doc.status = "finalized" =>
           \A i \in DOMAIN FinalFiles : files'[n.s][FinalFiles[i]] # <<>>
    BY <1>1, <1>2, <1>5, SessionFinal DEF OnDisk
  <2>5. n.idx # <<>> => \A s \in Session : n.idx[1][s] = "finalized" => OnDisk(s)'
    BY <1>6, <2>1, CallHasIdx
  <2> QED BY <1>1, <1>4, <2>1, <2>2, <2>3, <2>4, <2>5, FilesKept
<1>11. \A s \in Session \ clash' : Calm(s)'
  <2>1. n.todo # <<>> => ~Pends(n, "write") /\ Head(n.todo) # "write"
    BY <1>2, <1>5 DEF Pends
  <2> QED BY <1>1, <1>2, <1>4, <1>5, <2>1, StaysCalm
<1> QED BY <1>8, <1>9, <1>10, <1>11 DEF Inv

Index == [Session -> {"", "active", "finalized"}]

LEMMA WithStatusOk ==
    ASSUME Inv, NEW c, CallOk(c), c.s \in Session
    PROVE  /\ WithStatus(c) \in Index /\ WithStatus(c)[c.s] = c.doc.status
           /\ \A s \in Session : s # c.s /\ WithStatus(c)[s] = "finalized" => OnDisk(s)
<1> DEFINE old == IF Readable(index) THEN Content(index) ELSE EmptyIndex
           status == c.doc.status
<1>1. status \in {"", "active", "finalized"}
  BY DocFields DEF CallOk, DocOk, Sound
<1>2. EmptyIndex \in Index /\ \A s \in Session : EmptyIndex[s] = ""
  BY DEF EmptyIndex, Index
<1>3. Readable(index) => Content(index) \in Index
  <2>1. index \in FileOf(Index)
    BY DEF Inv, TypeOk, Index
  <2> QED BY <2>1, TornIsNotReadable DEF FileOf
<1>4. old \in Index /\ \A s \in Session : old[s] = "finalized" => OnDisk(s)
  BY <1>2, <1>3, SessionFinal
<1>5. WithStatus(c) = [old EXCEPT ![c.s] = status]
  BY DEF WithStatus
<1> HIDE DEF old, status
<1>6. WithStatus(c) \in Index /\ WithStatus(c)[c.s] = status
      /\ \A s \in Session : s # c.s => WithStatus(c)[s] = old[s]
  BY <1>1, <1>4, <1>5 DEF Index
<1> QED BY <1>4, <1>6 DEF status

LEMMA IndexLoadOk ==
    ASSUME Inv, NEW p \in Proc, IndexLoad(p)
    PROVE  Inv'
<1> DEFINE t == pc[p].s
           o == Onward(pc[p])
           idx == WithStatus(pc[p])
           r == [o EXCEPT !.idx = <<idx>>]
           n == IF index.kind \in {"torn", "garbled"} THEN Idle ELSE r
<1>1. /\ Busy(p) /\ Head(pc[p].todo) = "index_load" /\ pc' = [pc EXCEPT ![p] = n]
      /\ UNCHANGED <<session, files, index, view, heard, texts, acked, readback, clash>>
  BY DEF IndexLoad, At
<1>2. /\ CallOk(pc[p]) /\ pc[p].todo # <<>> /\ t \in Session /\ o \in Call
      /\ o.s = t /\ o.batch = pc[p].batch /\ o.doc = pc[p].doc /\ o.job = pc[p].job
      /\ EndOf(StepsOf(o.job), o.todo)
      /\ \A x : Pends(o, x) <=> (Pends(pc[p], x) /\ x # "index_load")
      /\ o.todo # <<>> => Head(o.todo) # "write"
      /\ ~Pends(pc[p], "plan") /\ ~Pends(pc[p], "handoff")
  BY <1>1, StepTaken
<1>3. /\ idx \in Index /\ idx[t] = pc[p].doc.status
      /\ \A s \in Session : s # t /\ idx[s] = "finalized" => OnDisk(s)
  BY <1>2, WithStatusOk
<1> HIDE DEF o, idx
<1>4. /\ r \in Call /\ r.s = t /\ r.batch = pc[p].batch /\ r.doc = pc[p].doc
      /\ r.todo = o.todo /\ r.job = o.job /\ r.idx = <<idx>>
  <2>1. <<idx>> \in Seq(Index)
    BY <1>3
  <2> DEFINE new == <<idx>>
  <2> HIDE DEF new, t
  <2>2. new \in Seq([Session -> {"", "active", "finalized"}])
    BY <2>1 DEF new, Index
  <2>3. r = [o EXCEPT !.idx = new]
    BY DEF new
  <2> HIDE DEF r
  <2> QED BY <1>2, <2>2, <2>3 DEF Call, new
<1>5. r.idx # <<>> /\ r.idx[1] = idx
  BY <1>4, OneIsNotEmpty
<1> HIDE DEF r
<1>6. CallOk(r)
  <2>1. r.s \in Session /\ (r.todo # <<>> => r.job \in Jobs) /\ EndOf(StepsOf(r.job), r.todo)
    BY <1>2, <1>4 DEF CallOk
  <2>2. DocOk(r.doc)
    BY <1>2, <1>4 DEF CallOk
  <2> QED BY <1>4, <1>5, <2>1, <2>2 DEF CallOk
<1>7. CallOk(n) /\ n \in Call
  BY <1>4, <1>6, IdleIsOk
<1>8. n.todo # <<>> => /\ n.s = t /\ n.batch = pc[p].batch
                       /\ n.doc = pc[p].doc /\ n.todo = o.todo
  BY <1>4, IdleIsOk
<1>9. n.idx # <<>> => n.idx[1] = idx
  BY <1>5, IdleIsOk
<1> HIDE DEF n
<1>10. /\ pc' \in [Proc -> Call] /\ pc'[p] = n
       /\ \A q \in Proc : q # p => pc'[q] = pc[q]
  BY <1>1, <1>7, CallReplaced DEF Inv, TypeOk
<1>11. TypeOk'
  BY <1>1, <1>10 DEF Inv, TypeOk
<1>12. DocsOk'
  <2>1. \A s \in Session : Readable(session'[s]) => DocOk(Content(session'[s]))
    BY <1>1, SessionFile
  <2>2. \A s \in Session : PanelOk(files'[s]["panel"])
    BY <1>1 DEF Inv, DocsOk
  <2> QED BY <1>1, <1>7, <2>1, <2>2, DocsStayOk
<1>13. FilesFirst'
  <2>1. \A s \in Session : OnDisk(s)' <=> OnDisk(s)
    BY <1>1 DEF OnDisk
  <2>2. pc[p].doc.status = "finalized" => OnDisk(t)
    <3>1. ASSUME pc[p].doc.status = "finalized", NEW i \in DOMAIN FinalFiles
          PROVE  files[t][FinalFiles[i]] # <<>>
      <4>1. FinalFiles[i] \in {"plan", "handoff"}
        BY FinalFilesAre
      <4>2. files[t][FinalFiles[i]] # <<>> \/ Pends(pc[p], FinalFiles[i])
        BY <1>1, <3>1, CallFiles
      <4> QED BY <1>2, <4>1, <4>2
    <3> QED BY <3>1 DEF OnDisk
  <2>3. \A s \in Session : Readable(session'[s]) /\ Content(session'[s]).status = "finalized"
              => OnDisk(s)'
    BY <1>1, <2>1, SessionFinal
  <2>4. \A s \in Session : Readable(index') /\ Content(index')[s] = "finalized" => OnDisk(s)'
    BY <1>1, <2>1, SessionFinal
  <2>5. n.todo # <<>> /\ n.doc.status = "finalized" =>
           \A i \in DOMAIN FinalFiles : files'[n.s][FinalFiles[i]] # <<>>
    BY <1>1, <1>8, <2>2 DEF OnDisk
  <2>6. n.idx # <<>> => \A s \in Session : n.idx[1][s] = "finalized" => OnDisk(s)'
    BY <1>3, <1>9, <2>1, <2>2
  <2> QED BY <1>1, <1>7, <2>1, <2>3, <2>4, <2>5, <2>6, FilesKept
<1>14. \A s \in Session \ clash' : Calm(s)'
  <2>1. n.todo # <<>> =>
           /\ Head(n.todo) # "write"
           /\ Pends(n, "write") <=> Pends(pc[p], "write")
    BY <1>2, <1>8 DEF Pends
  <2> QED BY <1>1, <1>7, <1>8, <2>1, StaysCalm
<1> QED BY <1>11, <1>12, <1>13, <1>14 DEF Inv

\* A step of the index file, after which f is in its place.
LEMMA IndexStepOk ==
    ASSUME Inv, NEW p \in Proc, Busy(p),
           Head(pc[p].todo) \in {"index_truncate", "index_write"}, Proceed(p),
           UNCHANGED <<session, files, view, heard, texts, acked, readback, clash>>,
           index' \in FileOf(Index),
           Readable(index') => pc[p].idx # <<>> /\ Content(index') = pc[p].idx[1]
    PROVE  Inv'
<1> DEFINE t == pc[p].s
           n == Onward(pc[p])
<1>1. pc' = [pc EXCEPT ![p] = n]
  BY DEF Proceed
<1>2. /\ CallOk(pc[p]) /\ pc[p].todo # <<>> /\ t \in Session /\ n \in Call /\ CallOk(n)
      /\ n.s = t /\ n.batch = pc[p].batch /\ n.doc = pc[p].doc /\ n.idx = pc[p].idx
      /\ \A x : Pends(n, x) <=> (Pends(pc[p], x) /\ x # Head(pc[p].todo))
      /\ n.todo # <<>> => Head(n.todo) # "write"
  BY StepTaken
<1> HIDE DEF n
<1>3. /\ pc' \in [Proc -> Call] /\ pc'[p] = n
      /\ \A q \in Proc : q # p => pc'[q] = pc[q]
  BY <1>1, <1>2, CallReplaced DEF Inv, TypeOk
<1>4. TypeOk'
  BY <1>3 DEF Inv, TypeOk, Index
<1>5. DocsOk'
  <2>1. \A s \in Session : Readable(session'[s]) => DocOk(Content(session'[s]))
    BY SessionFile
  <2>2. \A s \in Session : PanelOk(files'[s]["panel"])
    BY DEF Inv, DocsOk
  <2> QED BY <1>1, <1>2, <2>1, <2>2, DocsStayOk
<1>6. FilesFirst'
  <2>1. \A s \in Session : OnDisk(s)' <=> OnDisk(s)
    BY DEF OnDisk
  <2>2. \A s \in Session : Readable(session'[s]) /\ Content(session'[s]).status = "finalized"
              => OnDisk(s)'
    BY <2>1, SessionFinal
  <2>3. \A s \in Session : Readable(index') /\ Content(index')[s] = "finalized" => OnDisk(s)'
    BY <2>1, CallHasIdx
  <2>4. n.todo # <<>> /\ n.doc.status = "finalized" =>
           \A i \in DOMAIN FinalFiles :
               files'[n.s][FinalFiles[i]] # <<>> \/ Pends(n, FinalFiles[i])
    <3>1. \A i \in DOMAIN FinalFiles : FinalFiles[i] \notin {"index_truncate", "index_write"}
      BY FinalFilesAre
    <3> QED BY <1>2, <3>1, CallFiles
  <2>5. n.idx # <<>> => \A s \in Session : n.idx[1][s] = "finalized" => OnDisk(s)'
    BY <1>2, <2>1, CallHasIdx
  <2> QED BY <1>1, <1>2, <2>1, <2>2, <2>3, <2>4, <2>5, FilesKept
<1>7. \A s \in Session \ clash' : Calm(s)'
  BY <1>1, <1>2, StaysCalm
<1> QED BY <1>4, <1>5, <1>6, <1>7 DEF Inv

LEMMA IndexTruncateOk ==
    ASSUME Inv, NEW p \in Proc, IndexTruncate(p)
    PROVE  Inv'
<1>1. Torn \in FileOf(Index) /\ ~Readable(Torn)
  BY TornIsNotReadable DEF FileOf
<1> QED BY <1>1, IndexStepOk DEF IndexTruncate, At

LEMMA IndexWriteOk ==
    ASSUME Inv, NEW p \in Proc, IndexWrite(p)
    PROVE  Inv'
<1>1. /\ Busy(p) /\ Head(pc[p].todo) = "index_write" /\ Proceed(p)
      /\ index' \in Written(index, pc[p].idx[1])
      /\ UNCHANGED <<session, files, view, heard, texts, acked, readback, clash>>
  BY DEF IndexWrite, At
<1>2. CallOk(pc[p]) /\ pc[p].todo # <<>>
  BY <1>1 DEF Inv, DocsOk, Busy
<1>3. pc[p].idx # <<>> /\ pc[p].idx \in Seq(Index)
  BY <1>1, <1>2 DEF CallOk, Call, Index
<1>4. pc[p].idx[1] \in Index
  BY <1>3
<1>5. index' = Holds(pc[p].idx[1]) \/ index' = Garbled
  BY <1>1, WrittenIs
<1> QED BY <1>1, <1>3, <1>4, <1>5, TornIsNotReadable, IndexStepOk DEF FileOf

\* A request that ends.
LEMMA EndOk ==
    ASSUME Inv, NEW p \in Proc, Busy(p), pc' = [pc EXCEPT ![p] = Idle],
           UNCHANGED <<session, files, index, view, heard, texts, readback>>,
           clash \subseteq clash', Head(pc[p].todo) # "write" \/ pc[p].s \in clash',
           acked' \in [Session -> SUBSET Nat],
           \A s \in Session : acked'[s] \subseteq
              acked[s] \cup (IF s = pc[p].s /\ ~Pends(pc[p], "write")
                             THEN NewTexts(pc[p].batch) ELSE {})
    PROVE  Inv'
<1>1. CallOk(Idle) /\ Idle \in Call /\ Idle.todo = <<>> /\ Idle.idx = <<>>
  BY IdleIsOk
<1>2. pc' \in [Proc -> Call]
  BY <1>1, CallReplaced DEF Inv, TypeOk
<1>3. TypeOk'
  BY <1>2 DEF Inv, TypeOk
<1>4. DocsOk'
  <2>1. \A s \in Session : Readable(session'[s]) => DocOk(Content(session'[s]))
    BY SessionFile
  <2>2. \A s \in Session : PanelOk(files'[s]["panel"])
    BY DEF Inv, DocsOk
  <2> QED BY <1>1, <2>1, <2>2, DocsStayOk
<1>5. FilesFirst'
  <2>1. \A s \in Session : OnDisk(s)' <=> OnDisk(s)
    BY DEF OnDisk
  <2>2. \A s \in Session : Readable(session'[s]) /\ Content(session'[s]).status = "finalized"
              => OnDisk(s)'
    BY <2>1, SessionFinal
  <2>3. \A s \in Session : Readable(index') /\ Content(index')[s] = "finalized" => OnDisk(s)'
    BY <2>1, SessionFinal
  <2> QED BY <1>1, <2>1, <2>2, <2>3, FilesKept
<1>6. \A s \in Session \ clash' : Calm(s)'
  BY <1>1, StaysCalm
<1> QED BY <1>3, <1>4, <1>5, <1>6 DEF Inv

LEMMA ReplyOk ==
    ASSUME Inv, NEW p \in Proc, Reply(p)
    PROVE  Inv'
<1> DEFINE t == pc[p].s
           said == NewTexts(pc[p].batch)
<1>1. /\ Busy(p) /\ Head(pc[p].todo) = "answer" /\ pc' = [pc EXCEPT ![p] = Idle]
      /\ acked' = [acked EXCEPT ![t] = acked[t] \cup said]
      /\ UNCHANGED <<session, files, index, view, heard, texts, readback, clash>>
  BY DEF Reply, At
<1>2. t \in Session /\ ~Pends(pc[p], "write") /\ pc[p] \in Call
  BY <1>1, StepTaken DEF CallOk
<1>3. said \subseteq Nat
  <2>1. pc[p].batch \in Seq(AnyEvent)
    BY <1>2 DEF Call
  <2>2. \A i \in DOMAIN pc[p].batch : pc[p].batch[i].tag \in Nat
    <3>1. \A i \in DOMAIN pc[p].batch : pc[p].batch[i] \in AnyEvent
      BY <2>1
    <3> QED BY <3>1 DEF AnyEvent
  <2> QED BY <2>2 DEF NewTexts
<1> HIDE DEF said
<1>4. /\ acked' \in [Session -> SUBSET Nat]
      /\ \A s \in Session : acked'[s] = IF s = t THEN acked[s] \cup said ELSE acked[s]
  <2>1. acked \in [Session -> SUBSET Nat]
    BY DEF Inv, TypeOk
  <2> HIDE DEF t
  <2> QED BY <1>1, <1>2, <1>3, <2>1
<1> QED BY <1>1, <1>2, <1>4, EndOk DEF said

LEMMA KillOk ==
    ASSUME Inv, NEW p \in Proc, Kill(p)
    PROVE  Inv'
<1>1. /\ Busy(p) /\ pc' = [pc EXCEPT ![p] = Idle]
      /\ clash' = IF At(p, "write") THEN clash \cup {pc[p].s} ELSE clash
      /\ UNCHANGED <<session, files, index, view, heard, texts, acked, readback>>
  BY DEF Kill
<1>2. Head(pc[p].todo) # "write" \/ pc[p].s \in clash'
  BY <1>1 DEF At
<1>3. acked' \in [Session -> SUBSET Nat]
  BY <1>1 DEF Inv, TypeOk
<1> QED BY <1>1, <1>2, <1>3, EndOk

LEMMA RefreshOk ==
    ASSUME Inv, NEW p \in Proc, NEW t \in Session, Refresh(p, t)
    PROVE  Inv'
<1> DEFINE d == Content(session[t])
           new == [of |-> t, queue |-> Queue(d)]
<1>1. /\ Readable(session[t]) /\ view' = [view EXCEPT ![p] = new]
      /\ UNCHANGED <<session, files, index, pc, heard, texts, acked, readback, clash>>
  BY DEF Refresh
<1>2. DocOk(d) /\ d \in Doc
  BY <1>1, SessionFile
<1>3. Queue(d) \in [items : SUBSET Item, hands : SUBSET Nat]
  BY <1>2, QueueFits, GrowsReflexive
<1>4. new \in View /\ new.of = t /\ new.queue = Queue(d)
  BY <1>3 DEF View
<1> HIDE DEF new, d
<1>5. /\ view' \in [Proc -> View] /\ view'[p] = new
      /\ \A q \in Proc : q # p => view'[q] = view[q]
  <2>1. view \in [Proc -> View]
    BY DEF Inv, TypeOk
  <2> QED BY <1>1, <1>4, <2>1
<1>6. TypeOk' /\ DocsOk' /\ FilesFirst'
  <2>1. TypeOk'
    BY <1>1, <1>5 DEF Inv, TypeOk
  <2>2. DocsOk'
    BY <1>1 DEF Inv, DocsOk
  <2>3. FilesFirst'
    BY <1>1 DEF Inv, FilesFirst, FinalizedHasFiles, OnDisk, Busy, Pends
  <2> QED BY <2>1, <2>2, <2>3
<1>7. ASSUME NEW s \in Session, s \notin clash' PROVE Calm(s)'
  <2>1. Calm(s)
    BY <1>1, <1>7 DEF Inv
  <2>2. \A doc : Current(s, doc)' => Current(s, doc)
    BY <1>1 DEF Current, Holding
  <2>3. ASSUME NEW doc, Agrees(s, doc) PROVE Agrees(s, doc)'
    <3>1. ASSUME NEW q \in Proc, view'[q].of = s PROVE ViewFits(view'[q].queue, doc)
      <4>1. CASE q # p
        BY <1>5, <2>3, <3>1, <4>1 DEF Agrees
      <4>2. CASE q = p
        <5>1. s = t
          BY <1>4, <1>5, <3>1, <4>2
        <5>2. Grows(d, doc)
          BY <1>1, <2>3, <5>1 DEF Agrees, d
        <5> QED BY <1>2, <1>4, <1>5, <4>2, <5>2, QueueFits
      <4> QED BY <4>1, <4>2
    <3> QED BY <1>1, <2>3, <3>1 DEF Agrees, Busy, Holding
  <2> QED BY <1>1, <2>1, <2>2, <2>3 DEF Calm, At, Busy, Holding
<1> QED BY <1>6, <1>7 DEF Inv

LEMMA InitOk ==
    ASSUME Init PROVE Inv
<1>1. /\ \A p \in Proc : pc[p] = Idle /\ view[p] = NoView
      /\ \A s \in Session : session[s] = NoFile /\ acked[s] = {}
      /\ \A s \in Session, f \in SideFile : files[s][f] = <<>>
      /\ index = NoFile /\ texts = 0 /\ clash = {}
  BY DEF Init
<1>2. CallOk(Idle) /\ Idle \in Call /\ Idle.todo = <<>> /\ Idle.idx = <<>>
  BY IdleIsOk
<1>3. ~Readable(NoFile) /\ NoFile # Torn /\ NoFile # Garbled
  BY DEF Readable, NoFile, Torn, Garbled, File
<1>4. Blank \in Doc /\ Blank.items = <<>> /\ Queue(Blank).items = {}
  BY BlankIsOk, EmptyIsEmpty DEF DocOk, Sound, Blank, Queue, ItemsWith
<1>5. NoView \in View /\ NoView.queue = Queue(Blank)
  BY <1>4, QueueFits, GrowsReflexive DEF NoView, View
<1>6. TypeOk
  <2>1. session \in [Session -> FileOf(Doc)]
    BY DEF Init, FileOf
  <2>2. files \in [Session -> [SideFile -> Rendered]]
    BY DEF Init, Rendered
  <2>3. index \in FileOf([Session -> {"", "active", "finalized"}])
    BY <1>1 DEF FileOf
  <2>4. pc \in [Proc -> Call] /\ view \in [Proc -> View] /\ DOMAIN heard = Proc
        /\ acked \in [Session -> SUBSET Nat] /\ texts \in Nat
    BY <1>2, <1>5 DEF Init
  <2> QED BY <2>1, <2>2, <2>3, <2>4 DEF TypeOk
<1>7. "panel" \in SideFile /\ "plan" \in SideFile
  BY SideFilesAre
<1>8. DocsOk
  BY <1>1, <1>2, <1>3, <1>7 DEF DocsOk, PanelOk
<1>9. FilesFirst
  BY <1>1, <1>2, <1>3 DEF FilesFirst, FinalizedHasFiles, Busy
<1>10. ASSUME NEW s \in Session PROVE Calm(s)
  <2>1. \A p \in Proc : ~Holding(p, s) /\ ~At(p, "write") /\ ~Busy(p)
    BY <1>1, <1>2, EmptyIsEmpty DEF Holding, At, Busy
  <2>2. \A doc : Current(s, doc) => doc = Blank
    BY <1>1, <1>3, <2>1 DEF Current
  <2>3. Agrees(s, Blank)
    <3>1. \A R : ReadBy(Blank, R)
      BY <1>4, EmptyIsEmpty DEF ReadBy
    <3>2. \A p \in Proc : ViewFits(view[p].queue, Blank)
      BY <1>1, <1>4, <1>5 DEF ViewFits
    <3>3. PanelFits(files[s]["panel"], Blank)
      BY <1>1, <1>7 DEF PanelFits
    <3> QED BY <1>1, <1>3, <2>1, <3>1, <3>2, <3>3 DEF Agrees
  <2> QED BY <1>1, <1>3, <1>7, <2>1, <2>2, <2>3 DEF Calm
<1> QED BY <1>6, <1>8, <1>9, <1>10 DEF Inv

LEMMA NextOk ==
    ASSUME Inv, [Next]_vars PROVE Inv'
<1>1. CASE Next
  <2>1. PICK p \in Proc :
            \/ \E s \in Session : Start(p, s) \/ Ask(p, s) \/ Finalize(p, s) \/ Refresh(p, s)
            \/ Step(p) \/ Kill(p)
    BY <1>1 DEF Next
  <2>2. ASSUME NEW s \in Session, Start(p, s) \/ Ask(p, s) \/ Finalize(p, s) \/ Refresh(p, s)
        PROVE  Inv'
    <3>1. CASE Start(p, s)
      BY <3>1, StartOk
    <3>2. CASE NewText(p, s)
      BY <3>2, NewTextOk
    <3>3. CASE Capture(p, s)
      BY <3>3, CaptureOk
    <3>4. CASE Answer(p, s)
      BY <3>4, AnswerOk
    <3>5. CASE HandOrMode(p, s)
      BY <3>5, HandOrModeOk
    <3>6. CASE BindSpace(p, s)
      BY <3>6, BindSpaceOk
    <3>7. CASE Finalize(p, s)
      BY <3>7, FinalizeOk
    <3>8. CASE Refresh(p, s)
      BY <3>8, RefreshOk
    <3> QED BY <2>2, <3>1, <3>2, <3>3, <3>4, <3>5, <3>6, <3>7, <3>8 DEF Ask
  <2>3. CASE Step(p)
    <3>1. CASE Truncate(p)
      BY <3>1, TruncateOk
    <3>2. CASE WriteState(p)
      BY <3>2, WriteStateOk
    <3>3. CASE WriteSide(p)
      BY <3>3, WriteSideOk
    <3>4. CASE Reload(p)
      BY <3>4, ReloadOk
    <3>5. CASE IndexLoad(p)
      BY <3>5, IndexLoadOk
    <3>6. CASE IndexTruncate(p)
      BY <3>6, IndexTruncateOk
    <3>7. CASE IndexWrite(p)
      BY <3>7, IndexWriteOk
    <3>8. CASE Reply(p)
      BY <3>8, ReplyOk
    <3> QED BY <2>3, <3>1, <3>2, <3>3, <3>4, <3>5, <3>6, <3>7, <3>8 DEF Step
  <2>4. CASE Kill(p)
    BY <2>4, KillOk
  <2> QED BY <2>1, <2>2, <2>3, <2>4
<1>2. CASE UNCHANGED vars
  <2>1. UNCHANGED <<session, files, index, pc, view, acked, clash>>
        /\ UNCHANGED <<heard, texts, readback>>
    BY <1>2 DEF vars
  <2>2. DOMAIN heard = Proc /\ texts \in Nat
    BY DEF Inv, TypeOk
  <2> QED BY <2>1, <2>2, NothingDone
<1> QED BY <1>1, <1>2

----------------------------------------------------------------------------
(* The theorems.                                                           *)

\* The documents that requests work on and those on disk are whole; a request
\* has the final files of a finalized session on disk or still to write; and a
\* session where no two requests clashed has one document that all agree on.
THEOREM SessionsAgree == Spec => []Inv
<1>1. Init => Inv
  BY InitOk
<1>2. Inv /\ [Next]_vars => Inv'
  BY NextOk
<1> QED BY <1>1, <1>2, PTL DEF Spec

\* However the requests of any number of users overlap, no file ever holds a
\* document with an id twice, or with an unanswered item whose hand is down.
THEOREM HandsStayUp == Spec => []HandsFollowItems
<1>1. ASSUME Inv PROVE HandsFollowItems
  <2> SUFFICES ASSUME NEW s \in Session, Readable(session[s]), NEW doc,
                      doc = Content(session[s])
               PROVE  /\ \A list \in {doc.items, doc.hands, doc.segs, doc.refs} :
                             \A i, j \in DOMAIN list : list[i].id = list[j].id => i = j
                      /\ \A i \in DOMAIN doc.items :
                             doc.items[i].status = "read_back_pending" =>
                                 \E h \in DOMAIN doc.hands :
                                     /\ doc.hands[h].item = doc.items[i].id
                                     /\ \/ doc.hands[h].status = "pending"
                                        \/ doc.hands[h].by = "resolve"
    BY DEF HandsFollowItems
  <2>1. DocOk(doc)
    BY <1>1, SessionFile
  <2>2. Distinct(doc.items) /\ Distinct(doc.hands) /\ Distinct(doc.segs) /\ Distinct(doc.refs)
    BY <2>1 DEF DocOk, Sound
  <2>3. \A list \in {doc.items, doc.hands, doc.segs, doc.refs} : Distinct(list)
    BY <2>2
  <2> QED BY <2>1, <2>3 DEF DocOk, HandsUp, HandIsUp, Distinct
<1> QED BY <1>1, SessionsAgree, PTL

\* Neither a crash of finalize nor a request that overlaps with it leaves a
\* session called finalized without its plan and its handoffs.
THEOREM FinalizedIsComplete == Spec => []FinalizedHasFiles
<1>1. Inv => FinalizedHasFiles
  BY DEF Inv, FilesFirst
<1> QED BY <1>1, SessionsAgree, PTL

\* A text that was acknowledged stays, unless two requests clashed.
THEOREM AcknowledgedStays == Spec => []AckedSurvives
<1>1. ASSUME Inv PROVE AckedSurvives
  <2> SUFFICES ASSUME NEW s \in Session, s \notin clash, acked[s] # {}
               PROVE  \/ /\ Readable(session[s])
                         /\ acked[s] \subseteq Texts(Content(session[s]))
                      \/ \E p \in Proc : /\ At(p, "write") /\ pc[p].s = s
                                         /\ acked[s] \subseteq Texts(pc[p].doc)
    BY DEF AckedSurvives
  <2>1. Calm(s)
    BY <1>1 DEF Inv
  <2>2. \A doc : Current(s, doc) => acked[s] \subseteq Texts(doc)
    BY <2>1 DEF Calm, Agrees
  <2>3. session[s] \in FileOf(Doc)
    BY <1>1 DEF Inv, TypeOk
  <2>4. CASE Readable(session[s])
    BY <2>2, <2>4 DEF Current
  <2>5. CASE session[s] = NoFile
    <3>1. Current(s, Blank)
      BY <2>5 DEF Current, NoFile, File
    <3>2. Texts(Blank) = {}
      BY EmptyIsEmpty DEF Texts, TagsOf, Blank
    <3> QED BY <2>2, <3>1, <3>2
  <2>6. CASE session[s] = Torn
    <3>1. PICK p \in Proc : At(p, "write") /\ pc[p].s = s
      BY <2>1, <2>6 DEF Calm
    <3>2. Holding(p, s)
      <4>1. pc[p].todo \in Seq(StepName) /\ pc[p].todo # <<>> /\ Head(pc[p].todo) = "write"
        BY <1>1, <3>1 DEF Inv, TypeOk, Call, At, Busy
      <4>2. 1 \in DOMAIN pc[p].todo /\ pc[p].todo[1] = "write"
        BY <4>1
      <4> QED BY <3>1, <4>2 DEF Holding
    <3> QED BY <2>2, <3>1, <3>2 DEF Current
  <2>7. session[s] # Garbled
    BY <2>1 DEF Calm
  <2> QED BY <2>3, <2>4, <2>5, <2>6, <2>7, TornIsNotReadable DEF FileOf
<1> QED BY <1>1, SessionsAgree, PTL

\* The panel on disk never runs ahead of the session file.
THEOREM PanelIsBehind == Spec => []PanelTrails
<1>1. ASSUME Inv PROVE PanelTrails
  <2>1. ASSUME NEW s \in Session, s \notin clash, Readable(session[s])
        PROVE  PanelFits(files[s]["panel"], Content(session[s]))
    <3>1. Current(s, Content(session[s]))
      BY <2>1 DEF Current
    <3> QED BY <1>1, <2>1, <3>1 DEF Inv, Calm, Agrees
  <2> QED BY <2>1 DEF PanelTrails, PanelFits
<1> QED BY <1>1, SessionsAgree, PTL

\* Every item a plan calls confirmed was read back in its very wording.
THEOREM ConfirmedWasReadBack == Spec => []PlanWasReadBack
<1>1. ASSUME Inv PROVE PlanWasReadBack
  <2> SUFFICES ASSUME NEW s \in Session, s \notin clash PROVE ReadBack(s)
    BY DEF PlanWasReadBack
  <2>1. Calm(s)
    BY <1>1 DEF Inv
  <2>2. ASSUME Readable(session[s]), NEW item \in ItemsWith(Content(session[s]), Verified)
        PROVE  item.tag \in readback
    <3>1. Current(s, Content(session[s]))
      BY <2>2 DEF Current
    <3>2. ReadBy(Content(session[s]), readback)
      BY <2>1, <3>1 DEF Calm, Agrees
    <3> QED BY <2>2, <3>2 DEF ReadBy, ItemsWith
  <2>3. files[s]["plan"] # <<>> =>
          \A item \in files[s]["plan"][1].confirmed : item.tag \in readback
    BY <2>1 DEF Calm
  <2> QED BY <2>2, <2>3 DEF ReadBack
<1> QED BY <1>1, SessionsAgree, PTL
=============================================================================
