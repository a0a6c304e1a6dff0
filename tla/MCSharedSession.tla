-------------------------- MODULE MCSharedSession --------------------------
(* Instances of SharedSession for TLC.                                     *)
EXTENDS SharedSession, TLC

(* Sessions, callers and processes are interchangeable in the safety runs. *)
Symmetry == Permutations(Sessions) \cup Permutations(Callers)
            \cup Permutations(Procs)
=============================================================================
