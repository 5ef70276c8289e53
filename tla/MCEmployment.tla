---------------------------- MODULE MCEmployment ----------------------------
(* Instances of Employment for TLC: calls, contracts and assignments are   *)
(* interchangeable.                                                        *)
EXTENDS Employment, TLC

MCBothStores == BOOLEAN
MCSymmetry == Permutations(Calls) \cup Permutations(Contracts) \cup Permutations(Assignments)
(* Contracts and mobility are looked at one at a time. *)
MCOneTopic ==
  \/ \A k \in Contracts : contract[k].status = "NONE"
  \/ /\ today = 0 /\ \A c \in Calls : call[c].day = 0
     /\ \A e \in Employments : employment[e].end \in {0, Never} /\ employment[e].start = 0
     /\ \A a, b \in Assignments :
          /\ assignment[a].emp # None /\ assignment[b].emp # None => a = b
          /\ assignment[a].from = 0 /\ assignment[a].to \in {-1, 0, Never}
=============================================================================
