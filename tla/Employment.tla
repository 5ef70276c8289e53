----------------------------- MODULE Employment -----------------------------
(***************************************************************************)
(* The life of an employment in Services (src/services.ts): hiring, the    *)
(* contracts that make it active, their amendments, the assignments, the   *)
(* departure and the archiving.                                            *)
(*                                                                         *)
(* A handler is a call that moves from one `await` to the next; `live` has *)
(* the meaning it has in Leave.  A handler publishes its events between    *)
(* two writes, without awaiting: they belong to the step of the second.    *)
(* The headcount part of `hire` is in module Workforce.                    *)
(***************************************************************************)
EXTENDS Integers, FiniteSets

CONSTANTS
  Calls,         \* slots for handlers in flight
  Employments, Contracts, Amendments, Assignments,   \* identifiers
  MaxDay,        \* bound: the days that are modelled are 0..MaxDay
  MaxRows,       \* bound: no insertion starts beyond so many rows
  Stores,        \* the stores a deployment may select: TRUE in-memory, FALSE database
  None           \* no identifier

ASSUME EmploymentAssumption ==
  /\ MaxDay \in Nat /\ MaxRows \in Nat
  /\ Stores \subseteq BOOLEAN
  /\ None \notin Employments \cup Contracts \cup Amendments \cup Assignments

VARIABLES
  live,        \* the store of this deployment is the in-memory one
  today,       \* the current day
  employment,  \* status, start and end of each employment
  contract,    \* status of each contract, and the employment it belongs to
  amendment,   \* status of each amendment, its contract, whether it changes a term
  patched,     \* the amendments whose changes were written to their contract
  assignment,  \* employment and validity of each assignment
  announced,   \* the domain events published: a type and an identifier
  call         \* the handlers in flight

vars == <<live, today, employment, contract, amendment, patched, assignment,
          announced, call>>
rows == <<employment, contract, amendment, patched, assignment>>

Days == 0 .. MaxDay
Never == MaxDay + 1      \* the end of what has no end date

EmploymentStatus == {"NONE", "PRE_HIRE", "ACTIVE", "EXITING", "ENDED", "ARCHIVED"}
ContractStatus == {"NONE", "DRAFT", "VALIDATED", "SIGNED", "ACTIVE"}
AmendmentStatus == {"NONE", "DRAFT", "SIGNED", "APPLIED"}

Ids == Employments \cup Contracts \cup Amendments
Events == {"EmployeeHired", "ContractActivated", "AmendmentApplied", "EmployeeDeparture"}

Stages == {"idle", "hireContract", "hireAssign", "hired", "validate", "sign",
           "signed", "activated", "amend", "patch", "apply", "amended", "assign",
           "assignCreate", "depart", "departList", "departClose", "archive"}

(* What a handler holds: the row it is about, the status it fetched (which *)
(* shows only over the database store), the assignments it listed and the  *)
(* date it was given.                                                      *)
Call == [pc : Stages, on : Ids \cup {None},
         seen : EmploymentStatus \cup ContractStatus \cup AmendmentStatus,
         listed : SUBSET Assignments, day : Days]
Idle == [pc |-> "idle", on |-> None, seen |-> "NONE", listed |-> {}, day |-> 0]

TypeOK ==
  /\ live \in BOOLEAN
  /\ today \in Days
  /\ employment \in [Employments -> [status : EmploymentStatus, start : Days, end : 0 .. Never]]
  /\ contract \in [Contracts -> [status : ContractStatus, emp : Employments \cup {None}]]
  /\ amendment \in [Amendments -> [status : AmendmentStatus, of : Contracts \cup {None},
                                   changes : BOOLEAN]]
  /\ patched \subseteq Amendments
  /\ assignment \in [Assignments -> [emp : Employments \cup {None}, from : Days, to : -1 .. Never]]
  /\ announced \subseteq Events \X Ids
  /\ call \in [Calls -> Call]

Init ==
  /\ live \in Stores
  /\ today = 0
  /\ employment = [e \in Employments |-> [status |-> "NONE", start |-> 0, end |-> Never]]
  /\ contract = [k \in Contracts |-> [status |-> "NONE", emp |-> None]]
  /\ amendment = [m \in Amendments |-> [status |-> "NONE", of |-> None, changes |-> FALSE]]
  /\ patched = {}
  /\ assignment = [a \in Assignments |-> [emp |-> None, from |-> 0, to |-> Never]]
  /\ announced = {}
  /\ call = [c \in Calls |-> Idle]

-----------------------------------------------------------------------------
(* Mistakes: the operators named Bad... are not part of the specification; *)
(* each is a plausible slip in the definition of the same name below it.   *)
BadStatus(c, row) == IF live THEN "DRAFT" ELSE call[c].seen

(* The status a handler tests: the live row, or the copy it fetched. *)
Status(c, row) == IF live THEN row.status ELSE call[c].seen

Goto(c, stage) ==
  call' = [call EXCEPT ![c] = IF stage = "idle" THEN Idle ELSE [@ EXCEPT !.pc = stage]]
Return(c) == Goto(c, "idle")
Begin(c, stage, id, status) ==
  /\ call[c] = Idle
  /\ call' = [call EXCEPT ![c] = [Idle EXCEPT !.pc = stage, !.on = id,
                                                !.seen = IF live THEN "NONE" ELSE status]]
At(c, stage) == call[c].pc = stage /\ UNCHANGED <<live, today>>

(* The events a call publishes when the write it awaits has returned. *)
Announces(c) ==
  CASE call[c].pc = "hired" -> {<<"EmployeeHired", call[c].on>>}
    [] call[c].pc = "activated" -> {<<"ContractActivated", call[c].on>>}
    [] call[c].pc = "amended" -> {<<"AmendmentApplied", call[c].on>>}
    [] call[c].pc = "departClose" /\ call[c].listed = {} -> {<<"EmployeeDeparture", call[c].on>>}
    [] OTHER -> {}
Announce(c) == announced' = announced \cup Announces(c)

(* uid(): an assignment no row and no handler has. *)
Fresh(a) == assignment[a].emp = None /\ \A c \in Calls : a \notin call[c].listed
Assigned(e) == {a \in Assignments : assignment[a].emp = e}

Room == Cardinality({k \in Contracts : contract[k].status # "NONE"})
        + Cardinality({m \in Amendments : amendment[m].status # "NONE"})
        + Cardinality({a \in Assignments : assignment[a].emp # None}) < MaxRows

-----------------------------------------------------------------------------
(* hire: the employment row first, ...  *)
Hire(c, e, a, d) ==
  /\ employment[e].status = "NONE"
  /\ Fresh(a)
  /\ call[c] = Idle
  /\ employment' = [employment EXCEPT ![e] = [status |-> "PRE_HIRE", start |-> d, end |-> Never]]
  /\ call' = [call EXCEPT ![c] = [Idle EXCEPT !.pc = "hireContract", !.on = e, !.listed = {a}, !.day = d]]
  /\ UNCHANGED <<live, today, contract, amendment, patched, assignment, announced>>

(* ... then 409 below_convention_minimum, which leaves the row, or ... *)
HireRefused(c) == At(c, "hireContract") /\ Return(c) /\ UNCHANGED <<rows, announced>>

BadHireContract(c, k) ==
  /\ At(c, "hireContract")
  /\ contract[k].status = "NONE"
  /\ contract' = [contract EXCEPT ![k] = [status |-> "DRAFT", emp |-> call[c].on]]
  /\ Goto(c, "hired")
  /\ UNCHANGED <<employment, amendment, patched, assignment, announced>>

(* ... the contract, ... *)
HireContract(c, k) ==
  /\ At(c, "hireContract")
  /\ contract[k].status = "NONE"
  /\ contract' = [contract EXCEPT ![k] = [status |-> "DRAFT", emp |-> call[c].on]]
  /\ Goto(c, "hireAssign")
  /\ UNCHANGED <<employment, amendment, patched, assignment, announced>>

(* (a row inserted by addAssignment or by hire: open, from the given day)  *)
Insert(c, a) ==
  /\ a \in call[c].listed /\ assignment[a].emp = None
  /\ assignment' = [assignment EXCEPT ![a] = [emp |-> call[c].on, from |-> call[c].day, to |-> Never]]
  /\ UNCHANGED <<employment, contract, amendment, patched, announced>>

(* ... and the first assignment; only then are the events published. *)
HireAssign(c, a) == At(c, "hireAssign") /\ Insert(c, a) /\ Goto(c, "hired")
Hired(c) == At(c, "hired") /\ Announce(c) /\ Return(c) /\ UNCHANGED rows

-----------------------------------------------------------------------------
(* createContractForEmployment: whatever the status of the employment. *)
CreateContract(c, k, e) ==
  /\ call[c] = Idle
  /\ employment[e].status # "NONE" /\ contract[k].status = "NONE" /\ Room
  /\ contract' = [contract EXCEPT ![k] = [status |-> "DRAFT", emp |-> e]]
  /\ UNCHANGED <<live, today, employment, amendment, patched, assignment, announced, call>>

(* validateContract, signContract: fetch the contract, test its status ... *)
FetchContract(c, k, stage) ==
  /\ contract[k].status # "NONE"
  /\ Begin(c, stage, k, contract[k].status)
  /\ UNCHANGED <<live, today, rows, announced>>

SetContract(c, stage, from, to, next) ==
  LET k == call[c].on IN
  /\ At(c, stage)
  /\ IF Status(c, contract[k]) \in from
       THEN contract' = [contract EXCEPT ![k].status = to] /\ Goto(c, next)
       ELSE Return(c) /\ UNCHANGED contract
  /\ UNCHANGED <<employment, amendment, patched, assignment, announced>>

Validate(c) == SetContract(c, "validate", {"DRAFT"}, "VALIDATED", "idle")
Sign(c) == SetContract(c, "sign", {"DRAFT", "VALIDATED"}, "SIGNED", "signed")

(* ... and, once signed, activate it, whatever its row has become, ...     *)
Activate(c) ==
  /\ At(c, "signed")
  /\ contract' = [contract EXCEPT ![call[c].on].status = "ACTIVE"]
  /\ Goto(c, "activated")
  /\ UNCHANGED <<employment, amendment, patched, assignment, announced>>

(* ... and the employment with it, whatever its status. *)
ActivateEmployment(c) ==
  LET e == contract[call[c].on].emp IN
  /\ At(c, "activated")
  /\ Announce(c)
  /\ employment' = [employment EXCEPT ![e].status = "ACTIVE"]
  /\ Return(c)
  /\ UNCHANGED <<contract, amendment, patched, assignment>>

-----------------------------------------------------------------------------
(* createAmendment: of any contract; changes: it alters a contractual term.*)
CreateAmendment(c, m, k, changes) ==
  /\ call[c] = Idle
  /\ contract[k].status # "NONE" /\ amendment[m].status = "NONE" /\ Room
  /\ amendment' = [amendment EXCEPT ![m] = [status |-> "DRAFT", of |-> k, changes |-> changes]]
  /\ UNCHANGED <<live, today, employment, contract, patched, assignment, announced, call>>

FetchAmendment(c, m) ==
  /\ amendment[m].status # "NONE"
  /\ Begin(c, "amend", m, amendment[m].status)
  /\ UNCHANGED <<live, today, rows, announced>>

SetAmendment(c, to) == amendment' = [amendment EXCEPT ![call[c].on].status = to]

(* signAmendment: SIGNED, then the contract is patched, then APPLIED. *)
SignAmendment(c) ==
  LET m == call[c].on IN
  /\ At(c, "amend")
  /\ IF Status(c, amendment[m]) = "DRAFT"
       THEN /\ SetAmendment(c, "SIGNED")
            /\ Goto(c, IF amendment[m].changes THEN "patch" ELSE "apply")
       ELSE Return(c) /\ UNCHANGED amendment
  /\ UNCHANGED <<employment, contract, patched, assignment, announced>>

PatchContract(c) ==
  /\ At(c, "patch")
  /\ patched' = patched \cup {call[c].on}
  /\ Goto(c, "apply")
  /\ UNCHANGED <<employment, contract, amendment, assignment, announced>>

ApplyAmendment(c) ==
  /\ At(c, "apply")
  /\ SetAmendment(c, "APPLIED")
  /\ Goto(c, "amended")
  /\ UNCHANGED <<employment, contract, patched, assignment, announced>>

Amended(c) == At(c, "amended") /\ Announce(c) /\ Return(c) /\ UNCHANGED rows

-----------------------------------------------------------------------------
(* addAssignment: list the assignments, close the latest open one the day  *)
(* before the new one starts, insert the new one.  The in-memory list      *)
(* holds live rows, the database list the rows that were open.             *)
AddAssignment(c, e, a, d) ==
  /\ call[c] = Idle
  /\ employment[e].status # "NONE" /\ Fresh(a) /\ Room
  /\ LET listed == {b \in Assigned(e) : live \/ assignment[b].to = Never} IN
     call' = [call EXCEPT ![c] = [pc |-> "assign", on |-> e, seen |-> "NONE",
                                  listed |-> listed \cup {a}, day |-> d]]
  /\ UNCHANGED <<live, today, rows, announced>>

BadOpenListed(c) == {b \in call[c].listed : assignment[b].emp # None}

OpenListed(c) ==
  {b \in call[c].listed : assignment[b].emp # None /\ (live => assignment[b].to = Never)}

CloseCurrent(c) ==
  /\ At(c, "assign")
  /\ Goto(c, "assignCreate")
  /\ \/ OpenListed(c) = {} /\ UNCHANGED assignment
     \/ \E b \in OpenListed(c) :
          /\ \A o \in OpenListed(c) : assignment[o].from <= assignment[b].from
          /\ assignment' = [assignment EXCEPT ![b].to = call[c].day - 1]
  /\ UNCHANGED <<employment, contract, amendment, patched, announced>>

InsertAssignment(c, a) == At(c, "assignCreate") /\ Insert(c, a) /\ Return(c)

-----------------------------------------------------------------------------
(* declareDeparture: date the end, close what is still open, announce.     *)
FetchEmployment(c, e, stage) ==
  /\ employment[e].status # "NONE"
  /\ Begin(c, stage, e, employment[e].status)
  /\ UNCHANGED <<live, today, rows, announced>>

BadDepart(c, d) ==
  LET e == call[c].on IN
  /\ At(c, "depart")
  /\ IF Status(c, employment[e]) \notin {"ENDED", "ARCHIVED"}
       THEN /\ employment' = [employment EXCEPT ![e].end = d, ![e].status = "ENDED"]
            /\ call' = [call EXCEPT ![c].pc = "departList", ![c].day = d]
       ELSE Return(c) /\ UNCHANGED employment
  /\ UNCHANGED <<contract, amendment, patched, assignment, announced>>

Depart(c, d) ==
  LET e == call[c].on IN
  /\ At(c, "depart")
  /\ IF Status(c, employment[e]) \notin {"ENDED", "ARCHIVED"}
       THEN /\ employment' = [employment EXCEPT ![e].end = d,
                                ![e].status = IF d <= today THEN "ENDED" ELSE "EXITING"]
            /\ call' = [call EXCEPT ![c].pc = "departList", ![c].day = d]
       ELSE Return(c) /\ UNCHANGED employment
  /\ UNCHANGED <<contract, amendment, patched, assignment, announced>>

Outlasts(a, c) == assignment[a].to > call[c].day

DepartList(c) ==
  LET listed == {a \in Assigned(call[c].on) : live \/ Outlasts(a, c)} IN
  /\ At(c, "departList")
  /\ call' = [call EXCEPT ![c].pc = "departClose", ![c].listed = listed]
  /\ UNCHANGED <<rows, announced>>

DepartClose(c, a) ==
  /\ At(c, "departClose")
  /\ a \in call[c].listed
  /\ call' = [call EXCEPT ![c].listed = @ \ {a}]
  /\ assignment' = IF live => Outlasts(a, c)
                     THEN [assignment EXCEPT ![a].to = call[c].day] ELSE assignment
  /\ UNCHANGED <<employment, contract, amendment, patched, announced>>

Departed(c) ==
  /\ At(c, "departClose") /\ call[c].listed = {}
  /\ Announce(c)
  /\ Return(c)
  /\ UNCHANGED rows

(* archiveEmployment *)
Archive(c) ==
  LET e == call[c].on IN
  /\ At(c, "archive")
  /\ IF Status(c, employment[e]) = "ENDED"
       THEN employment' = [employment EXCEPT ![e].status = "ARCHIVED"]
       ELSE UNCHANGED employment
  /\ Return(c)
  /\ UNCHANGED <<contract, amendment, patched, assignment, announced>>

-----------------------------------------------------------------------------
(* A database call rejects, or the process stops: the handler is abandoned,*)
(* before or after it has published what it had to.                        *)
Fail(c) ==
  /\ ~live
  /\ call[c] # Idle
  /\ Return(c)
  /\ announced' \in {announced, announced \cup Announces(c)}
  /\ UNCHANGED <<live, today, rows>>

NextDay ==
  /\ today < MaxDay
  /\ today' = today + 1
  /\ UNCHANGED <<live, rows, announced, call>>

Continue(c) ==
  \/ HireRefused(c) \/ Hired(c) \/ Validate(c) \/ Sign(c)
  \/ Activate(c) \/ ActivateEmployment(c)
  \/ SignAmendment(c) \/ PatchContract(c) \/ ApplyAmendment(c) \/ Amended(c)
  \/ CloseCurrent(c) \/ DepartList(c) \/ Departed(c) \/ Archive(c)
  \/ \E k \in Contracts : HireContract(c, k)
  \/ \E a \in Assignments : HireAssign(c, a) \/ InsertAssignment(c, a) \/ DepartClose(c, a)
  \/ \E d \in Days : Depart(c, d)

Start(c) ==
  \/ \E k \in Contracts : FetchContract(c, k, "validate") \/ FetchContract(c, k, "sign")
  \/ \E k \in Contracts, e \in Employments : CreateContract(c, k, e)
  \/ \E m \in Amendments, k \in Contracts, ch \in BOOLEAN : CreateAmendment(c, m, k, ch)
  \/ \E m \in Amendments : FetchAmendment(c, m)
  \/ \E e \in Employments : FetchEmployment(c, e, "depart") \/ FetchEmployment(c, e, "archive")
  \/ \E e \in Employments, a \in Assignments, d \in Days : Hire(c, e, a, d) \/ AddAssignment(c, e, a, d)

Next ==
  \/ \E c \in Calls : Start(c) \/ Continue(c) \/ Fail(c)
  \/ NextDay

Spec == Init /\ [][Next]_vars

-----------------------------------------------------------------------------
(* Who hears EmployeeHired finds the contract and the assignment of the    *)
(* employment, though hire may stop after any of its writes.               *)
HiredIsComplete ==
  \A e \in Employments : <<"EmployeeHired", e>> \in announced =>
    (\E k \in Contracts : contract[k].emp = e) /\ Assigned(e) # {}

(* An employment is ACTIVE only once a contract of its was activated and   *)
(* this was announced: signContract is the only way, and publishes first.  *)
ActiveIsSigned ==
  \A e \in Employments : employment[e].status = "ACTIVE" =>
    \E k \in Contracts : contract[k].emp = e /\ <<"ContractActivated", k>> \in announced

(* declareDeparture ends an employment at once only if its end has come,   *)
(* and archiveEmployment archives only such: over the in-memory store an   *)
(* archived employment has an end, and it is past.                         *)
EndIsPast ==
  \A e \in Employments :
    \/ employment[e].status = "ENDED"
    \/ live /\ employment[e].status = "ARCHIVED"
    => employment[e].end <= today

(* What an amendment that is APPLIED changes is in its contract, although  *)
(* signAmendment writes three rows one after the other.                    *)
AppliedIsInForce ==
  \A m \in Amendments :
    amendment[m].status = "APPLIED" /\ amendment[m].changes => m \in patched

(* What is announced or marked done rests on the rows it speaks of, though *)
(* each of these handlers writes several rows and may stop after any.      *)
AnnouncedIsTrue == HiredIsComplete /\ ActiveIsSigned /\ AppliedIsInForce

Rank(status) == CASE status = "NONE" -> 0 [] status = "DRAFT" -> 1 [] status = "VALIDATED" -> 2
                  [] status = "SIGNED" -> 3 [] status = "ACTIVE" -> 4

(* Over the in-memory store no late validation and no second signature     *)
(* takes a contract back (validateContract, signContract).                 *)
ContractAdvances ==
  [][live => \A k \in Contracts : Rank(contract'[k].status) >= Rank(contract[k].status)]_vars

(* Over the in-memory store the history of assignments is never rewritten: *)
(* neither addAssignment nor declareDeparture reopens or extends one.      *)
HistoryKept ==
  [][live => \A a \in Assignments : assignment[a].emp # None =>
       /\ assignment'[a].emp = assignment[a].emp
       /\ assignment'[a].from = assignment[a].from
       /\ assignment'[a].to <= assignment[a].to]_vars
=============================================================================
