------------------------- MODULE MCServerLifecycle -------------------------
(* Instances of ServerLifecycle for TLC.                                   *)
EXTENDS ServerLifecycle

(* The properties say nothing of what follows a race, and raced stays set: *)
(* the run looks at the state with the race in it and goes no further.     *)
UntilRaced == ~raced
=============================================================================
