------------------------------ MODULE MCRoster ------------------------------
(* Small instances of Roster for TLC.  One person may be ignored, so only   *)
(* the nicks can be exchanged.                                              *)
EXTENDS Roster, TLC

Symmetry == Permutations(Nicks)
=============================================================================
