----------------------------- MODULE MCLivePlan -----------------------------
(* A user of the bridge and a user of the commands at one live-plan session. What
   they send is divided between them where the code makes no difference. *)
EXTENDS LivePlan, TLC
CONSTANTS p1, p2
MCProc == {p1, p2}
MCMay == (p1 :> {"item.propose", "transcript.segment", "item.confirm", "mode.set"}) @@
         (p2 :> {"item.propose", "reference.add", "item.confirm", "hand.raise",
                 "hand.resolve", "meet.set"})
MCBridge == {p1}
MCSession == {"meeting"}
MCCaption == {"caption"}
=============================================================================
