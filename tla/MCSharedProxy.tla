---------------------------- MODULE MCSharedProxy ----------------------------
(* An instance of SharedProxy for TLC.                                      *)
EXTENDS SharedProxy
=============================================================================
