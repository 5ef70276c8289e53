----------------------------- MODULE LeavePromise -----------------------------
(***************************************************************************)
(* What the absence workflow promises to the collaborator and to payroll,  *)
(* with awaits and stages abstracted away: a request is filed once and     *)
(* decided once; approving a request of a counted type writes a movement   *)
(* in the ledger in the same step; refusing writes none.                   *)
(*                                                                         *)
(* Of handlers that overlap no more is promised than this: an approval on  *)
(* its way may overtake a refusal, and a request is never charged more     *)
(* often than handlers can be in flight; with one handler neither occurs.  *)
(* A store that fails and hands out copies takes more away: an approval    *)
(* that is repeated charges again, and a decision that charged nothing is  *)
(* overwritten by one that rests on an older copy.                         *)
(***************************************************************************)
EXTENDS Integers, FiniteSets

CONSTANTS
  Requests,
  Handlers   \* how many handlers may overlap

VARIABLES
  live,      \* the store hands out live records and does not fail
  counted,   \* the requests whose type is counted against a balance
  decision,  \* none, open, approved or refused, for each request
  charge     \* the ledger rows written for each request

vars == <<live, counted, decision, charge>>

Init ==
  /\ live \in BOOLEAN
  /\ counted \subseteq Requests
  /\ decision = [r \in Requests |-> "none"]
  /\ charge = [r \in Requests |-> {}]

File(r) ==
  /\ decision[r] = "none"
  /\ decision' = [decision EXCEPT ![r] = "open"]
  /\ UNCHANGED <<live, counted, charge>>

(* One more row for r, which is of no other request. *)
Charge(r) ==
  \E row \in charge'[r] :
    /\ \A q \in Requests : row \notin charge[q]
    /\ charge' = [charge EXCEPT ![r] = @ \cup {row}]

Approve(r) ==
  /\ decision[r] = "open" \/ (decision[r] = "refused" /\ (Handlers > 1 \/ ~live))
  /\ decision' = [decision EXCEPT ![r] = "approved"]
  /\ IF r \in counted THEN Charge(r) ELSE UNCHANGED charge
  /\ UNCHANGED <<live, counted>>

ChargeAgain(r) ==
  /\ decision[r] = "approved" /\ r \in counted
  /\ Cardinality(charge[r]) < Handlers \/ ~live
  /\ Charge(r)
  /\ UNCHANGED <<live, counted, decision>>

Refuse(r) ==
  /\ decision[r] = "open"
  /\ decision' = [decision EXCEPT ![r] = "refused"]
  /\ UNCHANGED <<live, counted, charge>>

Overwrite(r) ==
  /\ ~live
  /\ decision[r] # "none" /\ charge[r] = {}
  /\ \E other \in {"open", "refused"} : decision' = [decision EXCEPT ![r] = other]
  /\ UNCHANGED <<live, counted, charge>>

Next ==
  \E r \in Requests :
    File(r) \/ Approve(r) \/ ChargeAgain(r) \/ Refuse(r) \/ Overwrite(r)

Spec == Init /\ [][Next]_vars
=============================================================================
