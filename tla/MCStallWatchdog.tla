-------------------------- MODULE MCStallWatchdog --------------------------
(***************************************************************************)
(* An instance of StallWatchdog for TLC: a plan of two entries.            *)
(***************************************************************************)
EXTENDS StallWatchdog, TLC

CONSTANTS r1, a, b

TwoEntries == <<a, b>>
=============================================================================
