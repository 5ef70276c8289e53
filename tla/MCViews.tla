------------------------------ MODULE MCViews ------------------------------
(* Instances of Views for TLC: employments and rows are interchangeable. *)
EXTENDS Views, TLC

MCTopics == {"chart", "rows"}
MCSymmetry == Permutations(Staff) \cup Permutations(Ids)
=============================================================================
