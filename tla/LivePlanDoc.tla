---------------------------- MODULE LivePlanDoc ----------------------------
(***************************************************************************)
(* The document of a live-plan session, .canon/live-plan/<id>/session.json *)
(* : what each event does to it, and the files that are rendered from it.  *)
(*                                                                         *)
(* A text (the wording of an item, a spoken segment, a reference) is a     *)
(* number, its tag.  Times, titles and layout are left out.                *)
(***************************************************************************)
EXTENDS Integers, Sequences, FiniteSets

Verified == {"confirmed", "amended"}
ItemStatus == {"draft", "read_back_pending", "rejected"} \cup Verified

\* hands[i].by: history, what closed the hand ("", "answer" or "resolve").
Blank == [status |-> "active", mode |-> "prompted", meet |-> "none",
          items |-> <<>>, hands |-> <<>>, segs |-> <<>>, refs |-> <<>>]

Least(S) == CHOOSE x \in S : \A y \in S : x <= y

\* The first number past the length of the list that no entry has.
NextId(list) ==
    Least({n \in Len(list) + 1 .. 2 * Len(list) + 1 :
               \A i \in DOMAIN list : list[i].id # n})

IdsOf(list) == {list[i].id : i \in DOMAIN list}

----------------------------------------------------------------------------
(* The events.  Each has all the fields; those it does not use are 0, "".  *)

Event(type) == [type |-> type, tag |-> 0, id |-> 0, status |-> ""]

AppendReference(doc, e) ==
    [doc EXCEPT !.refs = Append(@, [id |-> NextId(@), tag |-> e.tag])]

AppendTranscript(doc, e) ==
    [doc EXCEPT !.segs = Append(@, [id |-> NextId(@), tag |-> e.tag])]

RaiseHand(doc, item) ==
    [doc EXCEPT !.hands = Append(@, [id |-> NextId(@), item |-> item,
                                     status |-> "pending", by |-> ""])]

\* An item that needs confirmation is born with a hand of its own.
AppendPlanItem(doc, e) ==
    LET id == NextId(doc.items)
        added == [doc EXCEPT !.items =
                     Append(@, [id |-> id, tag |-> e.tag, status |-> e.status])]
    IN  IF e.status = "read_back_pending" THEN RaiseHand(added, id) ELSE added

\* Mutant: the first pending hand, whatever item it was raised for.
ResolveFirstHand(doc, item, status) ==
    LET open == {i \in DOMAIN doc.hands : doc.hands[i].status = "pending"}
    IN  IF open = {} THEN doc
        ELSE [doc EXCEPT !.hands[Least(open)] =
                 [@ EXCEPT !.status = status, !.by = "answer"]]

\* The first pending hand of the item, if there is one.
ResolvePendingHand(doc, item, status) ==
    LET open == {i \in DOMAIN doc.hands :
                     doc.hands[i].item = item /\ doc.hands[i].status = "pending"}
    IN  IF open = {} THEN doc
        ELSE [doc EXCEPT !.hands[Least(open)] =
                 [@ EXCEPT !.status = status, !.by = "answer"]]

\* Mutant: the last item is answered.
ConfirmLastItem(doc, e) ==
    ResolvePendingHand([doc EXCEPT !.items[Len(doc.items)].status = e.status],
                       e.id, "approved")

\* A wording that comes with the answer (tag # 0) replaces that of the item.
Answered(item, e) ==
    [item EXCEPT !.status = e.status, !.tag = IF e.tag = 0 THEN @ ELSE e.tag]

ConfirmPlanItem(doc, e) ==
    LET at == Least({i \in DOMAIN doc.items : doc.items[i].id = e.id})
        answered == [doc EXCEPT !.items[at] = Answered(@, e)]
    IN  ResolvePendingHand(answered, e.id,
            IF e.status \in Verified THEN "approved" ELSE "dismissed")

ResolveHand(doc, e) ==
    LET at == Least({i \in DOMAIN doc.hands : doc.hands[i].id = e.id})
    IN  [doc EXCEPT !.hands[at] =
            [@ EXCEPT !.status = e.status, !.by = "resolve"]]

\* meet: the Meet space that was bound, the media session that was attached.
SetMeet(doc, e) == [doc EXCEPT !.meet = e.status]
SetMode(doc, e) == [doc EXCEPT !.mode = e.status]

Accepts(doc, e) ==
    CASE e.type = "item.confirm" -> e.id \in IdsOf(doc.items)
      [] e.type = "hand.resolve" -> e.id \in IdsOf(doc.hands)
      [] OTHER -> e.type # "unsupported"

Apply(doc, e) ==
    CASE e.type = "reference.add"      -> AppendReference(doc, e)
      [] e.type = "transcript.segment" -> AppendTranscript(doc, e)
      [] e.type = "item.propose"       -> AppendPlanItem(doc, e)
      [] e.type = "item.confirm"       -> ConfirmPlanItem(doc, e)
      [] e.type = "hand.raise"         -> RaiseHand(doc, e.id)
      [] e.type = "hand.resolve"       -> ResolveHand(doc, e)
      [] e.type = "mode.set"           -> SetMode(doc, e)
      [] e.type = "meet.set"           -> SetMeet(doc, e)

\* A batch is applied in memory, event by event, up to one that is refused.
AfterEvent(r, e) ==
    IF r.ok /\ Accepts(r.doc, e) THEN [ok |-> TRUE, doc |-> Apply(r.doc, e)]
    ELSE [ok |-> FALSE, doc |-> r.doc]

AfterBatch(doc, batch) ==
    LET after[n \in 0 .. Len(batch)] ==
            IF n = 0 THEN [ok |-> TRUE, doc |-> doc] ELSE AfterEvent(after[n-1], batch[n])
    IN  after[Len(batch)]

----------------------------------------------------------------------------
(* What is rendered from the document.                                     *)

TagsOf(list) == {list[i].tag : i \in DOMAIN list}

ItemsWith(doc, statuses) ==
    {doc.items[i] : i \in {j \in DOMAIN doc.items : doc.items[j].status \in statuses}}

\* What a user can answer.
Queue(doc) ==
    [items |-> ItemsWith(doc, {"draft", "read_back_pending"}),
     hands |-> {doc.hands[i].id : i \in {j \in DOMAIN doc.hands :
                                           doc.hands[j].status = "pending"}}]

Panel(doc) ==
    [queue |-> Queue(doc), segs |-> Len(doc.segs), refs |-> Len(doc.refs),
     mode |-> doc.mode, meet |-> doc.meet]

Runtime(doc) == [mode |-> doc.mode, meet |-> doc.meet]

Plan(doc) == [confirmed |-> ItemsWith(doc, Verified),
              unconfirmed |-> ItemsWith(doc, ItemStatus \ Verified),
              refs |-> Len(doc.refs), hands |-> Len(doc.hands)]

\* The handoff itself is a fixed prompt; with it go the session handoff, the
\* transcript and the references.
Handoff(doc) ==
    [status |-> doc.status, confirmed |-> ItemsWith(doc, Verified),
     open |-> ItemsWith(doc, {"draft", "read_back_pending"}),
     segs |-> TagsOf(doc.segs), refs |-> TagsOf(doc.refs)]

\* The tags of the texts a document holds.
Texts(doc) == TagsOf(doc.items) \cup TagsOf(doc.segs) \cup TagsOf(doc.refs)
=============================================================================
