-------------------------- MODULE MCClientSession --------------------------
(* Instances of ClientSession for TLC. *)
EXTENDS ClientSession, TLC

CONSTANTS m1, o1, r1, r2, r3

=============================================================================
