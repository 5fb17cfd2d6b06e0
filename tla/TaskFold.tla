------------------------------ MODULE TaskFold ------------------------------
(***************************************************************************)
(* The events of one assignable task and the fold that materializes them   *)
(* (canon_systems.tasks).  An event's stamp stands for its timestamp and   *)
(* its event_id: both are read off the clock of the machine that recorded  *)
(* it, and events are folded in their order.                               *)
(***************************************************************************)
EXTENDS Naturals, Sequences, FiniteSets, SequencesExt

CONSTANTS
    Machine,    \* the machines of a company that run canon task
    MaxStamp    \* bound: the clock values that events carry

ASSUME FoldAssumption == MaxStamp \in Nat

Scopes == {"repo", "company"}
Statuses == {"open", "in_progress", "done"}

\* The text that an event carries, by what the user or the hook gave it with: canon task
\* comment or an update's note, the note of record-session, canon task close, the link of
\* canon task active.
Texts == {"comment", "note", "close", "link"}

\* scope is set in task_created only; a status or a text may be missing.
Event == [stamp : 1..MaxStamp, at : Machine,
          kind : {"task_created", "task_updated", "task_commented"},
          scope : Scopes \cup {""}, status : Statuses \cup {""}, text : Texts \cup {""}]

NoTask == [exists |-> FALSE, scope |-> "", status |-> "", comments |-> {}]

\* _new_task: from the task_created event, or a stub from whatever comes first.
NewTask(e) == [exists |-> TRUE, scope |-> IF e.scope = "" THEN "company" ELSE e.scope,
               status |-> "open", comments |-> {}]

\* Mutant: the status of an event is applied to a task that exists already only.
FoldEventSkipsFirst(task, e) ==
    LET t == IF task.exists THEN task ELSE NewTask(e) IN
    [t EXCEPT !.status = IF ~task.exists \/ e.status = "" THEN @ ELSE e.status,
              !.comments = IF e.kind = "task_commented" /\ e.text # ""
                           THEN @ \cup {e.stamp} ELSE @]

\* fold_event
FoldEvent(task, e) ==
    LET t == IF task.exists THEN task ELSE NewTask(e) IN
    [t EXCEPT !.status = IF e.status = "" THEN @ ELSE e.status,
              !.comments = IF e.kind = "task_commented" /\ e.text # ""
                           THEN @ \cup {e.stamp} ELSE @]

\* _sort_events: the i-th event is the one with i stamps up to its own.
InStampOrder(events) ==
    [i \in 1..Cardinality(events) |->
        CHOOSE e \in events : Cardinality({f \in events : f.stamp <= e.stamp}) = i]

\* materialize
Materialize(events) == FoldLeft(FoldEvent, NoTask, InStampOrder(events))
=============================================================================
