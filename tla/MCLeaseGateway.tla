--------------------------- MODULE MCLeaseGateway ---------------------------
(* Instances of LeaseGateway for TLC.                                      *)
EXTENDS LeaseGateway, TLC

(* Handlers and session ids are interchangeable in the safety runs.        *)
Symmetry == Permutations(Handlers) \cup Permutations(Ids)
=============================================================================
