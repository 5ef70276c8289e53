------------------------------- MODULE MCAccess -------------------------------
(* Instances of Access for TLC. *)
EXTENDS Access, TLC

CONSTANTS a1, hr, officer, director

MCEntityOf == [lyon |-> "retail", paris |-> "retail", lille |-> "logistics"]
MCRank == [Signatory |-> 3, HrManager |-> 3, HrOfficer |-> 2]

(* The account is of an HR manager employed in Lyon: HR of the company may *)
(* reset it, HR of the site is below it (403), and a director of the other *)
(* company does not reach it (404).                                        *)
MCUser ==
  LET user(role, type, id, place) ==
        [roles |-> {role}, scopes |-> <<[type |-> type, id |-> id]>>, place |-> place]
  IN a1 :> user("HrManager", "SELF", None, [site |-> "lyon", entity |-> "retail"])
     @@ hr :> user("HrManager", "LEGAL_ENTITY", "retail", Nowhere)
     @@ officer :> user("HrOfficer", "ESTABLISHMENT", "lyon", Nowhere)
     @@ director :> user("Signatory", "LEGAL_ENTITY", "logistics", Nowhere)

MCBothStores == BOOLEAN
MCSymmetry == Permutations(Calls) \cup Permutations(Links) \cup Permutations(Passwords)
=============================================================================
