----------------------------- MODULE MCVaultPlane -----------------------------
(* A process that publishes two releases of one plan, the daemon of one mirror and
   one web server.  Somebody else writes and removes a seed. *)
EXTENDS VaultPlane
CONSTANT p1
MCReleaser == {p1}
MCRelease == {"r1", "r2"}
MCElsewhere == {<<"seed", "app">>}
MCNote == <<"note", "mine">>
MCSeedNames == {"app"}
E1(type, plan, phase, keys) ==
    [id |-> 0, ts |-> 0, type |-> type, plan |-> plan, task |-> 1, agent |-> "a",
     run |-> "run", phase |-> phase, scalar |-> phase # "a list", keys |-> keys]
\* Checkpoints of a known phase, an unknown one, one that is no scalar and none.
MCEvent ==
    <<E1("retrieval_breakdown", "plan", "qa-gate", {"sources", "phase", "query"}),
      E1("checkpoint_write", "plan", "unknown", {"phase", "owner"}),
      E1("checkpoint_write", "other", "qa-gate", {"phase"}),
      E1("checkpoint_write", "plan", "a list", {"phase", "state_version"}),
      E1("checkpoint_write", "plan", "scoper", {"state_version"}),
      E1("lease_stall_detected", "plan", "", {"diagnostic"}),
      E1("retrieval_breakdown", "plan", "", {"sources"})>>
=============================================================================
