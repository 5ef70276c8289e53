----------------------------- MODULE MCWorkforce -----------------------------
(* Instances of Workforce for TLC: a code from one employee on, another    *)
(* from two on; the company is the only aggregate.                         *)
EXTENDS Workforce, TLC

CONSTANTS company, one, two

MCThreshold == [k \in Codes |-> IF k = one THEN 1 ELSE 2]
MCAggregates == {company}
MCBothStores == BOOLEAN
MCDatabaseStore == {FALSE}
MCSymmetry == Permutations(Calls) \cup Permutations(Employments)
=============================================================================
