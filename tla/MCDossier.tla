------------------------------ MODULE MCDossier ------------------------------
(* Instances of Dossier for TLC. *)
EXTENDS Dossier, TLC

MCBothStores == BOOLEAN
MCDatabaseStore == {FALSE}
MCSymmetry == Permutations(Calls) \cup Permutations(Rows)
=============================================================================
