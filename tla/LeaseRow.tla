------------------------------ MODULE LeaseRow ------------------------------
(***************************************************************************)
(* One row of the canon-state table: the checkpoint of one                 *)
(* (company, repository, plan, task, workstream) key together with the     *)
(* flat lease_* attributes, and the conditional updates that StateStore    *)
(* applies to it.  Each operator pair below is one DynamoDB UpdateItem:    *)
(* the condition expression and the update expression.                     *)
(*                                                                         *)
(* A lease token (a uuid4) is the number of the grant that minted it: the  *)
(* code compares tokens for equality only.  0 is the absent token.         *)
(***************************************************************************)
EXTENDS Naturals

CONSTANTS
    Run,     \* agent run ids (lease_owner_agent_run_id)
    NoRun    \* the owner of a row without a lease

ASSUME RunAssumption == NoRun \notin Run

NoToken == 0

Row == [exists : BOOLEAN, version : Nat, token : Nat,
        owner : Run \cup {NoRun}, expires : Nat]

\* No item under the key.  The content of a checkpoint (phase, outputs, the
\* last event id, ...) is identified by its version.
Absent == [exists |-> FALSE, version |-> 0, token |-> NoToken,
           owner |-> NoRun, expires |-> 0]

(***************************************************************************)
(* models.item_has_live_lease                                              *)
(***************************************************************************)
Live(item, now) == item.token # NoToken /\ item.expires > now

(***************************************************************************)
(* StateStore._acquire_lease_fresh: claim a missing row or a row whose     *)
(* lease is not live.  if_not_exists keeps the version of an old row.      *)
(***************************************************************************)
\* Mutant: the claim without its ConditionExpression.
ClaimUnchecked(item, now) == TRUE

CanClaim(item, now) == item.token = NoToken \/ item.expires <= now

\* Mutant: a token derived from the row instead of a fresh uuid4.
ClaimedByVersion(item, tok, run, exp) ==
    [item EXCEPT !.exists = TRUE, !.token = item.version + 1, !.owner = run,
                 !.expires = exp]

Claimed(item, tok, run, exp) ==
    [item EXCEPT !.exists = TRUE, !.token = tok, !.owner = run, !.expires = exp]

(***************************************************************************)
(* StateStore._acquire_lease_extend_same_owner and StateStore.renew_lease: *)
(* move the expiry, keep the token.                                        *)
(***************************************************************************)
CanExtend(item, tok, run, now) ==
    item.token = tok /\ item.owner = run /\ item.expires > now

CanRenew(item, tok, now) == item.token = tok /\ item.expires > now

Extended(item, exp) == [item EXCEPT !.expires = exp]

(***************************************************************************)
(* StateStore.release_lease: remove the five lease attributes, whether or  *)
(* not the lease has expired.                                              *)
(***************************************************************************)
CanRelease(item, tok) == item.token = tok /\ tok # NoToken

Released(item) ==
    [item EXCEPT !.token = NoToken, !.owner = NoRun, !.expires = 0]

(***************************************************************************)
(* StateStore.put_checkpoint: expected version, token and live lease.      *)
(***************************************************************************)
\* Mutants: a write that checks the version only, and one that checks the
\* lease only.
WriteUnfenced(item, tok, expected, now) == item.exists /\ item.version = expected

WriteUnversioned(item, tok, expected, now) ==
    item.exists /\ item.token = tok /\ item.expires > now

CanWrite(item, tok, expected, now) ==
    /\ item.exists
    /\ item.version = expected
    /\ item.token = tok
    /\ item.expires > now

Written(item) == [item EXCEPT !.version = @ + 1]
=============================================================================
