---------------------------- MODULE MCRegisters ----------------------------
(* Instances of Registers for TLC: rows and calls are interchangeable. *)
EXTENDS Registers, TLC

MCDesks == {"company", "obligations", "versions", "cases"}
MCBothStores == BOOLEAN
MCSymmetry == Permutations(Calls) \cup Permutations(Ids)
=============================================================================
