--------------------------- MODULE FencedRegister ---------------------------
(***************************************************************************)
(* What the checkpoint plane promises, with no clock, handlers or          *)
(* messages: a versioned register that one numbered lease at a time may    *)
(* write.  Leases are granted in order, a lease that ended never comes     *)
(* back, and every accepted write is made by the lease in force.           *)
(***************************************************************************)
EXTENDS Naturals, Sequences

VARIABLES
    epoch,    \* number of leases granted so far
    holder,   \* the lease in force, 0 if none
    version,  \* version of the register
    log       \* the lease that made each accepted write

regVars == <<epoch, holder, version, log>>

RegInit == epoch = 0 /\ holder = 0 /\ version = 0 /\ log = <<>>

\* A new lease replaces whatever lease was in force.
Grant ==
    /\ epoch' = epoch + 1
    /\ holder' = epoch + 1
    /\ UNCHANGED <<version, log>>

Drop ==
    /\ holder # 0
    /\ holder' = 0
    /\ UNCHANGED <<epoch, version, log>>

Commit ==
    /\ holder # 0
    /\ version' = version + 1
    /\ log' = Append(log, holder)
    /\ UNCHANGED <<epoch, holder>>

\* The register and its lease disappear together.
Erase ==
    /\ holder # 0
    /\ holder' = 0
    /\ version' = 0
    /\ UNCHANGED <<epoch, log>>

RegNext == Grant \/ Drop \/ Commit \/ Erase

RegSpec == RegInit /\ [][RegNext]_regVars
=============================================================================
