---------------------------- MODULE MCOwnership ----------------------------
(* Instances of Ownership for TLC.                                         *)
EXTENDS Ownership, TLC
=============================================================================
