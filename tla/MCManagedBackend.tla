-------------------------- MODULE MCManagedBackend --------------------------
(* Instances of ManagedBackend for TLC.                                    *)
EXTENDS ManagedBackend, TLC

(* Requests are interchangeable in the safety runs.                        *)
Symmetry == Permutations(Requests)
=============================================================================
