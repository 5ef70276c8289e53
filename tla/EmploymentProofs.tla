--------------------------- MODULE EmploymentProofs ---------------------------
(***************************************************************************)
(* Theorems about the life of employments, for every number of handlers,   *)
(* rows and days, over either store.                                       *)
(***************************************************************************)
EXTENDS Employment, TLAPS

-----------------------------------------------------------------------------
(* What a handler is about, by its stage *)

EmploymentStages == {"hireContract", "hireAssign", "hired", "assign", "assignCreate",
                     "depart", "departList", "departClose", "archive"}
ContractStages == {"validate", "sign", "signed", "activated"}
AmendmentStages == {"amend", "patch", "apply", "amended"}

PlacedFor(c) ==
  /\ call[c].pc \in EmploymentStages => call[c].on \in Employments
  /\ call[c].pc \in ContractStages =>
       call[c].on \in Contracts /\ contract[call[c].on].status # "NONE"
  /\ call[c].pc \in AmendmentStages =>
       call[c].on \in Amendments /\ amendment[call[c].on].status # "NONE"

Placed == \A c \in Calls : PlacedFor(c)

Typed == TypeOK /\ Placed

Statuses == EmploymentStatus \cup ContractStatus \cup AmendmentStatus

LEMMA IdleType == Idle \in Call /\ Idle.pc = "idle"
BY EmploymentAssumption DEF Idle, Call, Stages, Days, EmploymentStatus

(* A move of one handler leaves the others where they are. *)
LEMMA OneHandler ==
  ASSUME TypeOK, NEW c \in Calls
  PROVE  /\ Return(c) => /\ call' \in [Calls -> Call] /\ call'[c] = Idle
                         /\ \A o \in Calls \ {c} : call'[o] = call[o]
         /\ \A stage \in Stages \ {"idle"} : Goto(c, stage) =>
              /\ call' \in [Calls -> Call]
              /\ call'[c].pc = stage /\ call'[c].on = call[c].on
              /\ \A o \in Calls \ {c} : call'[o] = call[o]
         /\ \A stage \in Stages, id \in Ids, status \in Statuses : Begin(c, stage, id, status) =>
              /\ call' \in [Calls -> Call]
              /\ call'[c].pc = stage /\ call'[c].on = id
              /\ \A o \in Calls \ {c} : call'[o] = call[o]
<1>0. Idle \in Call /\ call[c] \in Call /\ call \in [Calls -> Call]
  BY IdleType DEF TypeOK
<1>1. Return(c) => /\ call' \in [Calls -> Call] /\ call'[c] = Idle
                   /\ \A o \in Calls \ {c} : call'[o] = call[o]
  BY <1>0 DEF Return, Goto
<1>2. ASSUME NEW stage \in Stages \ {"idle"}, Goto(c, stage)
      PROVE  /\ call' \in [Calls -> Call]
             /\ call'[c].pc = stage /\ call'[c].on = call[c].on
             /\ \A o \in Calls \ {c} : call'[o] = call[o]
  <2> DEFINE held == [call[c] EXCEPT !.pc = stage]
  <2>1. held \in Call /\ held.pc = stage /\ held.on = call[c].on
    BY <1>0 DEF Call
  <2>2. call' = [call EXCEPT ![c] = held]
    BY <1>0, <1>2 DEF Goto
  <2> HIDE DEF held
  <2> QED BY <1>0, <2>1, <2>2
<1>3. ASSUME NEW stage \in Stages, NEW id \in Ids, NEW status \in Statuses, Begin(c, stage, id, status)
      PROVE  /\ call' \in [Calls -> Call]
             /\ call'[c].pc = stage /\ call'[c].on = id
             /\ \A o \in Calls \ {c} : call'[o] = call[o]
  <2> DEFINE held == [Idle EXCEPT !.pc = stage, !.on = id, !.seen = IF live THEN "NONE" ELSE status]
  <2>1. held \in Call /\ held.pc = stage /\ held.on = id
    BY <1>0 DEF Call, Idle, Statuses, EmploymentStatus
  <2>2. call' = [call EXCEPT ![c] = held]
    BY <1>3 DEF Begin
  <2> HIDE DEF held
  <2> QED BY <1>0, <2>1, <2>2
<1> QED BY <1>1, <1>2, <1>3

-----------------------------------------------------------------------------
(* What a step does to one row of each table *)

ContractRow == [status : ContractStatus, emp : Employments \cup {None}]

(* A contract is created, or its status is written. *)
ContractStep(k) ==
  \/ contract'[k] = contract[k]
  \/ /\ contract[k].status = "NONE"
     /\ contract'[k].status = "DRAFT" /\ contract'[k].emp \in Employments
  \/ /\ contract[k].status # "NONE"
     /\ contract'[k].emp = contract[k].emp /\ contract'[k].status \in ContractStatus \ {"NONE"}
     /\ live => Rank(contract'[k].status) >= Rank(contract[k].status)

LEMMA NextContract ==
  ASSUME Typed, [Next]_vars
  PROVE  contract' \in [Contracts -> ContractRow] /\ \A k \in Contracts : ContractStep(k)
<1> DEFINE Goal == contract' \in [Contracts -> ContractRow] /\ \A k \in Contracts : ContractStep(k)
<1>0. contract \in [Contracts -> ContractRow] /\ \A c \in Calls : call[c] \in Call
  BY DEF Typed, TypeOK, ContractRow
<1>a. ASSUME NEW k \in Contracts, NEW e \in Employments, contract[k].status = "NONE",
             contract' = [contract EXCEPT ![k] = [status |-> "DRAFT", emp |-> e]]
      PROVE  Goal
  <2> DEFINE new == [status |-> "DRAFT", emp |-> e]
  <2>1. new \in ContractRow /\ new.status = "DRAFT" /\ new.emp = e
    BY DEF ContractRow, ContractStatus
  <2>2. contract' = [contract EXCEPT ![k] = new]
    BY <1>a
  <2> HIDE DEF new
  <2> QED BY <1>0, <1>a, <2>1, <2>2 DEF ContractStep
<1>b. ASSUME NEW k \in Contracts, NEW to \in ContractStatus \ {"NONE"}, contract[k].status # "NONE",
             live => Rank(to) >= Rank(contract[k].status),
             contract' = [contract EXCEPT ![k].status = to]
      PROVE  Goal
  <2> DEFINE new == [contract[k] EXCEPT !.status = to]
  <2>1. new \in ContractRow /\ new.status = to /\ new.emp = contract[k].emp
    BY <1>0 DEF ContractRow
  <2>2. contract' = [contract EXCEPT ![k] = new]
    BY <1>b
  <2> HIDE DEF new
  <2> QED BY <1>0, <1>b, <2>1, <2>2 DEF ContractStep
<1>c. ASSUME UNCHANGED contract PROVE Goal
  BY <1>0, <1>c DEF ContractStep
<1> HIDE DEF Goal
<1>1. ASSUME NEW c \in Calls, NEW k \in Contracts, HireContract(c, k) PROVE Goal
  <2>1. call[c].on \in Employments
    BY <1>1 DEF HireContract, At, Typed, Placed, PlacedFor, EmploymentStages
  <2> QED BY <1>1, <1>a, <2>1 DEF HireContract
<1>2. ASSUME NEW c \in Calls, NEW k \in Contracts, NEW e \in Employments, CreateContract(c, k, e) PROVE Goal
  BY <1>2, <1>a DEF CreateContract
<1>3. ASSUME NEW c \in Calls, Validate(c) \/ Sign(c) \/ Activate(c) PROVE Goal
  <2>1. call[c].pc \in ContractStages
    BY <1>3 DEF Validate, Sign, Activate, SetContract, At, ContractStages
  <2>2. call[c].on \in Contracts /\ contract[call[c].on].status # "NONE"
        /\ contract[call[c].on].status \in ContractStatus
    BY <1>0, <2>1 DEF Typed, Placed, PlacedFor, ContractRow
  <2>3. CASE Validate(c)
    <3>1. CASE UNCHANGED contract
      BY <3>1, <1>c
    <3>2. CASE /\ Status(c, contract[call[c].on]) = "DRAFT"
               /\ contract' = [contract EXCEPT ![call[c].on].status = "VALIDATED"]
      <4>1. live => Rank("VALIDATED") >= Rank(contract[call[c].on].status)
        BY <3>2 DEF Status, Rank
      <4> QED BY <2>2, <3>2, <4>1, <1>b DEF ContractStatus
    <3> QED BY <2>3, <3>1, <3>2 DEF Validate, SetContract
  <2>4. CASE Sign(c)
    <3>1. CASE UNCHANGED contract
      BY <3>1, <1>c
    <3>2. CASE /\ Status(c, contract[call[c].on]) \in {"DRAFT", "VALIDATED"}
               /\ contract' = [contract EXCEPT ![call[c].on].status = "SIGNED"]
      <4>1. live => Rank("SIGNED") >= Rank(contract[call[c].on].status)
        BY <3>2 DEF Status, Rank
      <4> QED BY <2>2, <3>2, <4>1, <1>b DEF ContractStatus
    <3> QED BY <2>4, <3>1, <3>2 DEF Sign, SetContract
  <2>5. CASE Activate(c)
    <3>1. Rank("ACTIVE") >= Rank(contract[call[c].on].status)
      BY <2>2 DEF Rank, ContractStatus
    <3> QED BY <2>2, <2>5, <3>1, <1>b DEF Activate, ContractStatus
  <2> QED BY <1>3, <2>3, <2>4, <2>5
<1>4. ASSUME NEW c \in Calls, Start(c) PROVE Goal \/ UNCHANGED contract
  BY <1>2, <1>4 DEF Start, rows, FetchContract, CreateAmendment, FetchAmendment, FetchEmployment,
                    Hire, AddAssignment
<1>5. ASSUME NEW c \in Calls, Continue(c) PROVE Goal \/ UNCHANGED contract
  <2>1. ASSUME \/ HireRefused(c) \/ Hired(c) \/ ActivateEmployment(c) \/ SignAmendment(c)
               \/ PatchContract(c) \/ ApplyAmendment(c) \/ Amended(c) \/ CloseCurrent(c)
               \/ DepartList(c) \/ Departed(c) \/ Archive(c)
        PROVE  UNCHANGED contract
    BY <2>1 DEF rows, HireRefused, Hired, ActivateEmployment, SignAmendment, PatchContract,
                ApplyAmendment, Amended, CloseCurrent, DepartList, Departed, Archive
  <2>2. ASSUME NEW a \in Assignments, HireAssign(c, a) \/ InsertAssignment(c, a) \/ DepartClose(c, a)
        PROVE  UNCHANGED contract
    BY <2>2 DEF HireAssign, InsertAssignment, Insert, DepartClose
  <2>3. ASSUME NEW d \in Days, Depart(c, d) PROVE UNCHANGED contract
    BY <2>3 DEF Depart
  <2> QED BY <1>1, <1>3, <1>5, <2>1, <2>2, <2>3 DEF Continue
<1>6. Goal \/ UNCHANGED contract
  BY <1>4, <1>5 DEF Next, Fail, NextDay, vars, rows
<1> QED BY <1>6, <1>c DEF Goal

AmendmentRow == [status : AmendmentStatus, of : Contracts \cup {None}, changes : BOOLEAN]

(* An amendment is created, is signed or is applied. *)
AmendmentStep(m) ==
  \/ amendment'[m] = amendment[m]
  \/ amendment[m].status = "NONE" /\ amendment'[m].status = "DRAFT"
  \/ /\ amendment[m].status # "NONE"
     /\ amendment'[m].changes = amendment[m].changes
     /\ \/ amendment'[m].status = "SIGNED"
        \/ amendment'[m].status = "APPLIED" /\ \E c \in Calls : call[c].pc = "apply" /\ call[c].on = m

LEMMA NextAmendment ==
  ASSUME Typed, [Next]_vars
  PROVE  amendment' \in [Amendments -> AmendmentRow] /\ \A m \in Amendments : AmendmentStep(m)
<1> DEFINE Goal == amendment' \in [Amendments -> AmendmentRow] /\ \A m \in Amendments : AmendmentStep(m)
<1>0. amendment \in [Amendments -> AmendmentRow]
  BY DEF Typed, TypeOK, AmendmentRow
<1>a. ASSUME NEW m \in Amendments, NEW k \in Contracts, NEW ch \in BOOLEAN, amendment[m].status = "NONE",
             amendment' = [amendment EXCEPT ![m] = [status |-> "DRAFT", of |-> k, changes |-> ch]]
      PROVE  Goal
  <2> DEFINE new == [status |-> "DRAFT", of |-> k, changes |-> ch]
  <2>1. new \in AmendmentRow /\ new.status = "DRAFT"
    BY DEF AmendmentRow, AmendmentStatus
  <2>2. amendment' = [amendment EXCEPT ![m] = new]
    BY <1>a
  <2> HIDE DEF new
  <2> QED BY <1>0, <1>a, <2>1, <2>2 DEF AmendmentStep
<1>b. ASSUME NEW c \in Calls, NEW to \in {"SIGNED", "APPLIED"}, call[c].pc \in AmendmentStages,
             to = "APPLIED" => call[c].pc = "apply", SetAmendment(c, to)
      PROVE  Goal
  <2>1. call[c].on \in Amendments /\ amendment[call[c].on].status # "NONE"
    BY <1>b DEF Typed, Placed, PlacedFor
  <2> DEFINE new == [amendment[call[c].on] EXCEPT !.status = to]
  <2>2. new \in AmendmentRow /\ new.status = to /\ new.changes = amendment[call[c].on].changes
    BY <1>0, <2>1 DEF AmendmentRow, AmendmentStatus
  <2>3. amendment' = [amendment EXCEPT ![call[c].on] = new]
    BY <1>b DEF SetAmendment
  <2> HIDE DEF new
  <2> QED BY <1>0, <1>b, <2>1, <2>2, <2>3 DEF AmendmentStep
<1>c. ASSUME UNCHANGED amendment PROVE Goal
  BY <1>0, <1>c DEF AmendmentStep
<1> HIDE DEF Goal
<1>1. ASSUME NEW m \in Amendments, NEW k \in Contracts, NEW ch \in BOOLEAN, NEW c \in Calls,
             CreateAmendment(c, m, k, ch)
      PROVE  Goal
  BY <1>1, <1>a DEF CreateAmendment
<1>2. ASSUME NEW c \in Calls, SignAmendment(c) PROVE Goal
  <2>1. call[c].pc \in AmendmentStages
    BY <1>2 DEF SignAmendment, At, AmendmentStages
  <2>2. CASE SetAmendment(c, "SIGNED")
    BY <2>1, <2>2, <1>b
  <2> QED BY <1>2, <2>2, <1>c DEF SignAmendment
<1>3. ASSUME NEW c \in Calls, ApplyAmendment(c) PROVE Goal
  BY <1>3, <1>b DEF ApplyAmendment, At, AmendmentStages
<1>4. ASSUME NEW c \in Calls, Start(c) PROVE Goal \/ UNCHANGED amendment
  BY <1>1, <1>4 DEF Start, rows, FetchContract, CreateContract, FetchAmendment, FetchEmployment,
                    Hire, AddAssignment
<1>5. ASSUME NEW c \in Calls, Continue(c) PROVE Goal \/ UNCHANGED amendment
  <2>1. ASSUME \/ HireRefused(c) \/ Hired(c) \/ Validate(c) \/ Sign(c) \/ Activate(c)
               \/ ActivateEmployment(c) \/ PatchContract(c) \/ Amended(c) \/ CloseCurrent(c)
               \/ DepartList(c) \/ Departed(c) \/ Archive(c)
        PROVE  UNCHANGED amendment
    BY <2>1 DEF rows, HireRefused, Hired, Validate, Sign, SetContract, Activate, ActivateEmployment,
                PatchContract, Amended, CloseCurrent, DepartList, Departed, Archive
  <2>2. ASSUME NEW a \in Assignments, HireAssign(c, a) \/ InsertAssignment(c, a) \/ DepartClose(c, a)
        PROVE  UNCHANGED amendment
    BY <2>2 DEF HireAssign, InsertAssignment, Insert, DepartClose
  <2>3. ASSUME NEW d \in Days, Depart(c, d) PROVE UNCHANGED amendment
    BY <2>3 DEF Depart
  <2>4. ASSUME NEW k \in Contracts, HireContract(c, k) PROVE UNCHANGED amendment
    BY <2>4 DEF HireContract
  <2> QED BY <1>2, <1>3, <1>5, <2>1, <2>2, <2>3, <2>4 DEF Continue
<1>6. Goal \/ UNCHANGED amendment
  BY <1>4, <1>5 DEF Next, Fail, NextDay, vars, rows
<1> QED BY <1>6, <1>c DEF Goal

EmploymentRow == [status : EmploymentStatus, start : Days, end : 0 .. Never]

(* An employment is hired, activated, departed from or archived. *)
EmploymentStep(e) ==
  LET old == employment[e]
      new == employment'[e]
  IN \/ new = old
     \/ new.status \in {"PRE_HIRE", "EXITING"}
     \/ /\ new.status = "ACTIVE"
        /\ \E k \in Contracts : contract[k].emp = e /\ <<"ContractActivated", k>> \in announced'
     \/ new.status = "ENDED" /\ new.end <= today
     \/ new.status = "ARCHIVED" /\ new.end = old.end /\ (live => old.status = "ENDED")

LEMMA NextEmployment ==
  ASSUME Typed, [Next]_vars
  PROVE  employment' \in [Employments -> EmploymentRow] /\ \A e \in Employments : EmploymentStep(e)
<1> DEFINE Goal == employment' \in [Employments -> EmploymentRow] /\ \A e \in Employments : EmploymentStep(e)
<1>0. employment \in [Employments -> EmploymentRow] /\ today \in Days
  BY DEF Typed, TypeOK, EmploymentRow
<1>a. ASSUME NEW e \in Employments, NEW new \in EmploymentRow, employment' = [employment EXCEPT ![e] = new],
             \/ new.status \in {"PRE_HIRE", "EXITING"}
             \/ /\ new.status = "ACTIVE"
                /\ \E k \in Contracts : contract[k].emp = e /\ <<"ContractActivated", k>> \in announced'
             \/ new.status = "ENDED" /\ new.end <= today
             \/ /\ new.status = "ARCHIVED" /\ new.end = employment[e].end
                /\ live => employment[e].status = "ENDED"
      PROVE  Goal
  BY <1>0, <1>a DEF EmploymentStep
<1>c. ASSUME UNCHANGED employment PROVE Goal
  BY <1>0, <1>c DEF EmploymentStep
<1> HIDE DEF Goal
<1>1. ASSUME NEW c \in Calls, NEW e \in Employments, NEW a \in Assignments, NEW d \in Days, Hire(c, e, a, d)
      PROVE  Goal
  <2> DEFINE new == [status |-> "PRE_HIRE", start |-> d, end |-> Never]
  <2>1. new \in EmploymentRow /\ new.status = "PRE_HIRE"
    BY EmploymentAssumption DEF EmploymentRow, EmploymentStatus, Never
  <2>2. employment' = [employment EXCEPT ![e] = new]
    BY <1>1 DEF Hire
  <2> HIDE DEF new
  <2> QED BY <2>1, <2>2, <1>a
<1>2. ASSUME NEW c \in Calls, ActivateEmployment(c) PROVE Goal
  <2>1. call[c].pc = "activated" /\ call[c].on \in Contracts
    BY <1>2 DEF ActivateEmployment, At, Typed, Placed, PlacedFor, ContractStages
  <2> DEFINE k == call[c].on
             e == contract[k].emp
             new == [employment[e] EXCEPT !.status = "ACTIVE"]
  <2>2. employment' = [employment EXCEPT ![e] = new]
    BY <1>2 DEF ActivateEmployment
  <2>3. <<"ContractActivated", k>> \in announced'
    BY <1>2, <2>1 DEF ActivateEmployment, Announce, Announces
  <2>4. CASE e \in Employments
    <3>1. new \in EmploymentRow /\ new.status = "ACTIVE"
      BY <1>0, <2>4 DEF EmploymentRow, EmploymentStatus
    <3> HIDE DEF new
    <3> QED BY <2>1, <2>2, <2>3, <2>4, <3>1, <1>a
  <2>5. CASE e \notin Employments
    BY <1>0, <2>2, <2>5, <1>c
  <2> QED BY <2>4, <2>5
<1>3. ASSUME NEW c \in Calls, NEW d \in Days, Depart(c, d) PROVE Goal
  <2>1. call[c].on \in Employments
    BY <1>3 DEF Depart, At, Typed, Placed, PlacedFor, EmploymentStages
  <2> DEFINE e == call[c].on
             new == [employment[e] EXCEPT !.end = d, !.status = IF d <= today THEN "ENDED" ELSE "EXITING"]
  <2>2. new \in EmploymentRow /\ (new.status = "EXITING" \/ (new.status = "ENDED" /\ new.end <= today))
    <3>1. employment[e] \in EmploymentRow /\ d \in 0 .. Never
      BY <1>0, <2>1, EmploymentAssumption DEF Days, Never
    <3>2. CASE d <= today
      BY <3>1, <3>2 DEF EmploymentRow, EmploymentStatus
    <3>3. CASE ~(d <= today)
      BY <3>1, <3>3 DEF EmploymentRow, EmploymentStatus
    <3> QED BY <3>2, <3>3
  <2>3. employment' = [employment EXCEPT ![e] = new] \/ UNCHANGED employment
    BY <1>3 DEF Depart
  <2> HIDE DEF new
  <2> QED BY <2>1, <2>2, <2>3, <1>a, <1>c
<1>4. ASSUME NEW c \in Calls, Archive(c) PROVE Goal
  <2>1. call[c].on \in Employments
    BY <1>4 DEF Archive, At, Typed, Placed, PlacedFor, EmploymentStages
  <2> DEFINE e == call[c].on
             new == [employment[e] EXCEPT !.status = "ARCHIVED"]
  <2>2. new \in EmploymentRow /\ new.status = "ARCHIVED" /\ new.end = employment[e].end
    BY <1>0, <2>1 DEF EmploymentRow, EmploymentStatus
  <2>3. \/ employment' = [employment EXCEPT ![e] = new] /\ (live => employment[e].status = "ENDED")
        \/ UNCHANGED employment
    BY <1>4 DEF Archive, Status
  <2> HIDE DEF new
  <2> QED BY <2>1, <2>2, <2>3, <1>a, <1>c
<1>5. ASSUME NEW c \in Calls, Start(c) PROVE Goal \/ UNCHANGED employment
  BY <1>1, <1>5 DEF Start, rows, FetchContract, CreateContract, CreateAmendment, FetchAmendment,
                    FetchEmployment, AddAssignment
<1>6. ASSUME NEW c \in Calls, Continue(c) PROVE Goal \/ UNCHANGED employment
  <2>1. ASSUME \/ HireRefused(c) \/ Hired(c) \/ Validate(c) \/ Sign(c) \/ Activate(c)
               \/ SignAmendment(c) \/ PatchContract(c) \/ ApplyAmendment(c) \/ Amended(c)
               \/ CloseCurrent(c) \/ DepartList(c) \/ Departed(c)
        PROVE  UNCHANGED employment
    BY <2>1 DEF rows, HireRefused, Hired, Validate, Sign, SetContract, Activate, SignAmendment,
                PatchContract, ApplyAmendment, Amended, CloseCurrent, DepartList, Departed
  <2>2. ASSUME NEW a \in Assignments, HireAssign(c, a) \/ InsertAssignment(c, a) \/ DepartClose(c, a)
        PROVE  UNCHANGED employment
    BY <2>2 DEF HireAssign, InsertAssignment, Insert, DepartClose
  <2>3. ASSUME NEW k \in Contracts, HireContract(c, k) PROVE UNCHANGED employment
    BY <2>3 DEF HireContract
  <2> QED BY <1>2, <1>3, <1>4, <1>6, <2>1, <2>2, <2>3 DEF Continue
<1>7. Goal \/ UNCHANGED employment
  BY <1>5, <1>6 DEF Next, Fail, NextDay, vars, rows
<1> QED BY <1>7, <1>c DEF Goal

AssignmentRow == [emp : Employments \cup {None}, from : Days, to : -1 .. Never]

(* An assignment is inserted by the handler that has it, or closed. *)
AssignmentStep(a) ==
  \/ assignment'[a] = assignment[a]
  \/ assignment[a].emp = None /\ assignment'[a].emp \in Employments
  \/ /\ assignment'[a].emp = assignment[a].emp /\ assignment'[a].from = assignment[a].from
     /\ live => assignment'[a].to <= assignment[a].to

LEMMA NextAssignment ==
  ASSUME Typed, [Next]_vars
  PROVE  assignment' \in [Assignments -> AssignmentRow] /\ \A a \in Assignments : AssignmentStep(a)
<1> DEFINE Goal == assignment' \in [Assignments -> AssignmentRow] /\ \A a \in Assignments : AssignmentStep(a)
<1>0. /\ assignment \in [Assignments -> AssignmentRow] /\ \A c \in Calls : call[c] \in Call
      /\ \A c \in Calls : call[c].pc \in EmploymentStages => call[c].on \in Employments
  BY DEF Typed, TypeOK, AssignmentRow, Placed, PlacedFor
<1>a. ASSUME NEW a \in Assignments, NEW e \in Employments, NEW d \in Days, assignment[a].emp = None,
             assignment' = [assignment EXCEPT ![a] = [emp |-> e, from |-> d, to |-> Never]]
      PROVE  Goal
  <2> DEFINE new == [emp |-> e, from |-> d, to |-> Never]
  <2>1. new \in AssignmentRow /\ new.emp = e
    BY EmploymentAssumption DEF AssignmentRow, Never
  <2>2. assignment' = [assignment EXCEPT ![a] = new]
    BY <1>a
  <2> HIDE DEF new
  <2> QED BY <1>0, <1>a, <2>1, <2>2 DEF AssignmentStep
<1>b. ASSUME NEW a \in Assignments, NEW d \in -1 .. Never,
             live => d <= assignment[a].to, assignment' = [assignment EXCEPT ![a].to = d]
      PROVE  Goal
  <2> DEFINE new == [assignment[a] EXCEPT !.to = d]
  <2>1. new \in AssignmentRow /\ new.emp = assignment[a].emp /\ new.from = assignment[a].from /\ new.to = d
    BY <1>0 DEF AssignmentRow
  <2>2. assignment' = [assignment EXCEPT ![a] = new]
    BY <1>b
  <2> HIDE DEF new
  <2> QED BY <1>0, <1>b, <2>1, <2>2 DEF AssignmentStep
<1>c. ASSUME UNCHANGED assignment PROVE Goal
  BY <1>0, <1>c DEF AssignmentStep
<1> HIDE DEF Goal
<1>1. ASSUME NEW c \in Calls, NEW a \in Assignments, HireAssign(c, a) \/ InsertAssignment(c, a)
      PROVE  Goal
  <2>1. Insert(c, a) /\ call[c].on \in Employments /\ call[c].day \in Days
    BY <1>0, <1>1 DEF HireAssign, InsertAssignment, At, EmploymentStages, Call
  <2> QED BY <2>1, <1>a DEF Insert
<1>2. ASSUME NEW c \in Calls, CloseCurrent(c) PROVE Goal
  <2>1. call[c].day \in Days
    BY <1>0 DEF Call
  <2>2. call[c].day - 1 \in -1 .. Never /\ call[c].day - 1 <= Never
    BY <2>1, EmploymentAssumption DEF Days, Never
  <2>3. ASSUME NEW b \in OpenListed(c), assignment' = [assignment EXCEPT ![b].to = call[c].day - 1]
        PROVE  Goal
    <3>1. b \in Assignments /\ assignment[b].emp # None /\ (live => assignment[b].to = Never)
      BY <1>0 DEF OpenListed, Call
    <3> QED BY <2>2, <2>3, <3>1, <1>b
  <2> QED BY <1>2, <2>3, <1>c DEF CloseCurrent
<1>3. ASSUME NEW c \in Calls, NEW a \in Assignments, DepartClose(c, a) PROVE Goal
  <2>1. call[c].day \in Days /\ call[c].day \in -1 .. Never /\ assignment[a].to \in Int
    BY <1>0, EmploymentAssumption DEF Call, Days, Never, AssignmentRow
  <2>2. CASE (live => Outlasts(a, c)) /\ assignment' = [assignment EXCEPT ![a].to = call[c].day]
    <3>1. live => call[c].day <= assignment[a].to
      BY <2>1, <2>2 DEF Outlasts, Days
    <3> QED BY <2>1, <2>2, <3>1, <1>b
  <2> QED BY <1>3, <2>2, <1>c DEF DepartClose
<1>4. ASSUME NEW c \in Calls, Start(c) PROVE UNCHANGED assignment
  BY <1>4 DEF Start, rows, FetchContract, CreateContract, CreateAmendment, FetchAmendment,
              FetchEmployment, Hire, AddAssignment
<1>5. ASSUME NEW c \in Calls, Continue(c) PROVE Goal \/ UNCHANGED assignment
  <2>1. ASSUME \/ HireRefused(c) \/ Hired(c) \/ Validate(c) \/ Sign(c) \/ Activate(c)
               \/ ActivateEmployment(c) \/ SignAmendment(c) \/ PatchContract(c) \/ ApplyAmendment(c)
               \/ Amended(c) \/ DepartList(c) \/ Departed(c) \/ Archive(c)
        PROVE  UNCHANGED assignment
    BY <2>1 DEF rows, HireRefused, Hired, Validate, Sign, SetContract, Activate, ActivateEmployment,
                SignAmendment, PatchContract, ApplyAmendment, Amended, DepartList, Departed, Archive
  <2>2. ASSUME NEW d \in Days, Depart(c, d) PROVE UNCHANGED assignment
    BY <2>2 DEF Depart
  <2>3. ASSUME NEW k \in Contracts, HireContract(c, k) PROVE UNCHANGED assignment
    BY <2>3 DEF HireContract
  <2> QED BY <1>1, <1>2, <1>3, <1>5, <2>1, <2>2, <2>3 DEF Continue
<1>6. Goal \/ UNCHANGED assignment
  BY <1>4, <1>5 DEF Next, Fail, NextDay, vars, rows
<1> QED BY <1>6, <1>c DEF Goal

-----------------------------------------------------------------------------
(* What a step announces, patches and leaves *)

LEMMA AnnouncesTypes == ASSUME Typed, NEW c \in Calls PROVE Announces(c) \subseteq Events \X Ids
<1>1. /\ call[c].pc \in EmploymentStages => call[c].on \in Ids
      /\ call[c].pc \in ContractStages => call[c].on \in Ids
      /\ call[c].pc \in AmendmentStages => call[c].on \in Ids
  BY DEF Typed, Placed, PlacedFor, Ids
<1> QED BY <1>1 DEF Announces, Events, EmploymentStages, ContractStages, AmendmentStages

(* Nothing announced is forgotten, and only what a handler has to announce *)
(* is.                                                                     *)
LEMMA NextAnnounced ==
  ASSUME Typed, [Next]_vars
  PROVE  /\ announced \subseteq announced'
         /\ \A x \in announced' \ announced : \E c \in Calls : x \in Announces(c)
<1> DEFINE Goal == /\ announced \subseteq announced'
                   /\ \A x \in announced' \ announced : \E c \in Calls : x \in Announces(c)
<1>a. ASSUME NEW c \in Calls, Announce(c) PROVE Goal
  BY <1>a DEF Announce
<1>b. ASSUME NEW c \in Calls, Fail(c) PROVE Goal
  BY <1>b DEF Fail
<1>c. ASSUME UNCHANGED announced PROVE Goal
  BY <1>c
<1> HIDE DEF Goal
<1>1. ASSUME NEW c \in Calls, Start(c) PROVE UNCHANGED announced
  BY <1>1 DEF Start, FetchContract, CreateContract, CreateAmendment, FetchAmendment,
              FetchEmployment, Hire, AddAssignment
<1>2. ASSUME NEW c \in Calls, Continue(c) PROVE UNCHANGED announced \/ Announce(c)
  <2>1. ASSUME \/ HireRefused(c) \/ Hired(c) \/ Validate(c) \/ Sign(c) \/ Activate(c)
               \/ ActivateEmployment(c) \/ SignAmendment(c) \/ PatchContract(c) \/ ApplyAmendment(c)
               \/ Amended(c) \/ CloseCurrent(c) \/ DepartList(c) \/ Departed(c) \/ Archive(c)
        PROVE  UNCHANGED announced \/ Announce(c)
    BY <2>1 DEF HireRefused, Hired, Validate, Sign, SetContract, Activate, ActivateEmployment,
                SignAmendment, PatchContract, ApplyAmendment, Amended, CloseCurrent, DepartList,
                Departed, Archive
  <2>2. ASSUME NEW d \in Days, Depart(c, d) PROVE UNCHANGED announced
    BY <2>2 DEF Depart
  <2>3. ASSUME NEW k \in Contracts, HireContract(c, k) PROVE UNCHANGED announced
    BY <2>3 DEF HireContract
  <2>4. ASSUME NEW a \in Assignments, HireAssign(c, a) \/ InsertAssignment(c, a) \/ DepartClose(c, a)
        PROVE  UNCHANGED announced
    BY <2>4 DEF HireAssign, InsertAssignment, Insert, DepartClose
  <2> QED BY <1>2, <2>1, <2>2, <2>3, <2>4 DEF Continue
<1>3. Goal
  BY <1>1, <1>2, <1>a, <1>b, <1>c DEF Next, NextDay, vars
<1> QED BY <1>3 DEF Goal

LEMMA NextRest ==
  ASSUME Typed, [Next]_vars
  PROVE  live' = live /\ today' \in Days /\ today <= today' /\ patched \subseteq patched'
         /\ patched' \subseteq Amendments
<1> DEFINE Kept == UNCHANGED <<live, today, patched>>
<1>0. today \in Days /\ patched \subseteq Amendments /\ MaxDay \in Nat
  BY EmploymentAssumption DEF Typed, TypeOK
<1>1. ASSUME NEW c \in Calls, Start(c) PROVE Kept
  BY <1>1 DEF Start, rows, FetchContract, CreateContract, CreateAmendment, FetchAmendment,
              FetchEmployment, Hire, AddAssignment
<1>2. ASSUME NEW c \in Calls, PatchContract(c)
      PROVE  UNCHANGED <<live, today>> /\ patched \subseteq patched' /\ patched' \subseteq Amendments
  BY <1>0, <1>2 DEF PatchContract, At, Typed, Placed, PlacedFor, AmendmentStages
<1>3. ASSUME NEW c \in Calls, Continue(c) PROVE Kept \/ PatchContract(c)
  <2>1. ASSUME \/ HireRefused(c) \/ Hired(c) \/ Validate(c) \/ Sign(c) \/ Activate(c)
               \/ ActivateEmployment(c) \/ SignAmendment(c) \/ ApplyAmendment(c)
               \/ Amended(c) \/ CloseCurrent(c) \/ DepartList(c) \/ Departed(c) \/ Archive(c)
        PROVE  Kept
    BY <2>1 DEF rows, At, HireRefused, Hired, Validate, Sign, SetContract, Activate, ActivateEmployment,
                SignAmendment, ApplyAmendment, Amended, CloseCurrent, DepartList, Departed, Archive
  <2>2. ASSUME NEW d \in Days, Depart(c, d) PROVE Kept
    BY <2>2 DEF Depart, At
  <2>3. ASSUME NEW k \in Contracts, HireContract(c, k) PROVE Kept
    BY <2>3 DEF HireContract, At
  <2>4. ASSUME NEW a \in Assignments, HireAssign(c, a) \/ InsertAssignment(c, a) \/ DepartClose(c, a)
        PROVE  Kept
    BY <2>4 DEF HireAssign, InsertAssignment, Insert, DepartClose, At
  <2> QED BY <1>3, <2>1, <2>2, <2>3, <2>4 DEF Continue
<1>4. ASSUME NEW c \in Calls, Fail(c) PROVE Kept
  BY <1>4 DEF Fail, rows
<1>5. ASSUME NextDay PROVE UNCHANGED <<live, patched>> /\ today' \in Days /\ today <= today'
  BY <1>0, <1>5 DEF NextDay, rows, Days
<1>6. ASSUME UNCHANGED vars PROVE Kept
  BY <1>6 DEF vars
<1>7. Kept => live' = live /\ today' \in Days /\ today <= today' /\ patched \subseteq patched'
              /\ patched' \subseteq Amendments
  BY <1>0 DEF Days
<1> HIDE DEF Kept
<1>8. today <= today
  BY <1>0 DEF Days
<1> QED BY <1>0, <1>1, <1>2, <1>3, <1>4, <1>5, <1>6, <1>7, <1>8 DEF Next

-----------------------------------------------------------------------------
(* What a step does to one handler *)

(* It begins, with a row that is there, ... *)
Begun(c) ==
  LET new == call'[c] IN
  \/ new.pc \in {"hireContract", "assign", "depart", "archive"} /\ new.on \in Employments
  \/ /\ new.pc \in {"validate", "sign"} /\ UNCHANGED contract
     /\ new.on \in Contracts /\ contract[new.on].status # "NONE"
  \/ /\ new.pc = "amend" /\ UNCHANGED amendment
     /\ new.on \in Amendments /\ amendment[new.on].status # "NONE"

(* ... or goes on with it, and what it has written is there. *)
GoesOn(c) ==
  LET old == call[c]
      new == call'[c]
  IN /\ new.on = old.on
     /\ \/ /\ old.pc = "hireContract" /\ new.pc = "hireAssign"
           /\ \E k \in Contracts : contract'[k].emp = old.on
        \/ /\ old.pc = "hireAssign" /\ new.pc = "hired" /\ UNCHANGED contract
           /\ \E a \in Assignments : assignment'[a].emp = old.on
        \/ old.pc = "sign" /\ new.pc = "signed"
        \/ old.pc = "signed" /\ new.pc = "activated"
        \/ old.pc = "amend" /\ new.pc = "patch"
        \/ /\ old.pc = "amend" /\ new.pc = "apply"
           /\ ~amendment[old.on].changes /\ ~amendment'[old.on].changes
        \/ old.pc = "patch" /\ new.pc = "apply" /\ old.on \in patched'
        \/ old.pc = "apply" /\ new.pc = "amended"
        \/ old.pc = "assign" /\ new.pc = "assignCreate"
        \/ old.pc = "depart" /\ new.pc = "departList"
        \/ old.pc \in {"departList", "departClose"} /\ new.pc = "departClose"

Moved(c) == call'[c] = call[c] \/ call'[c] = Idle \/ Begun(c) \/ GoesOn(c)

LEMMA NextCalls ==
  ASSUME Typed, [Next]_vars
  PROVE  call' \in [Calls -> Call] /\ \A o \in Calls : Moved(o)
<1> DEFINE Goal == call' \in [Calls -> Call] /\ \A o \in Calls : Moved(o)
<1>0. /\ TypeOK /\ call \in [Calls -> Call] /\ \A c \in Calls : call[c] \in Call
      /\ \A c \in Calls : call[c].pc \in EmploymentStages => call[c].on \in Employments
      /\ \A c \in Calls : call[c].pc \in ContractStages => call[c].on \in Contracts
      /\ \A c \in Calls : call[c].pc \in AmendmentStages => call[c].on \in Amendments
  BY DEF Typed, TypeOK, Placed, PlacedFor
<1>a. ASSUME NEW c \in Calls, NEW held \in Call, call' = [call EXCEPT ![c] = held],
             Begun(c) \/ GoesOn(c)
      PROVE  Goal
  BY <1>0, <1>a DEF Moved
<1>b. ASSUME NEW c \in Calls, Return(c) PROVE Goal
  BY <1>0, <1>b, OneHandler DEF Moved
<1>c. ASSUME NEW c \in Calls, NEW stage \in Stages \ {"idle"}, Goto(c, stage), GoesOn(c)
      PROVE  Goal
  BY <1>0, <1>c, OneHandler DEF Moved
<1>d. ASSUME NEW c \in Calls, NEW stage \in Stages, NEW id \in Ids, NEW status \in Statuses,
             Begin(c, stage, id, status), Begun(c)
      PROVE  Goal
  BY <1>0, <1>d, OneHandler DEF Moved
<1>e. ASSUME UNCHANGED call PROVE Goal
  BY <1>0, <1>e DEF Moved
<1> HIDE DEF Goal
<1>1. ASSUME NEW c \in Calls, NEW e \in Employments, NEW a \in Assignments, NEW d \in Days,
             Hire(c, e, a, d) \/ AddAssignment(c, e, a, d)
      PROVE  Goal
  <2>1. CASE Hire(c, e, a, d)
    <3> DEFINE held == [Idle EXCEPT !.pc = "hireContract", !.on = e, !.listed = {a}, !.day = d]
    <3>1. held \in Call /\ held.pc = "hireContract" /\ held.on = e
      BY IdleType DEF Call, Stages, Ids, Idle
    <3>2. call' = [call EXCEPT ![c] = held]
      BY <2>1 DEF Hire
    <3> HIDE DEF held
    <3>3. Begun(c)
      BY <1>0, <3>1, <3>2 DEF Begun
    <3> QED BY <3>1, <3>2, <3>3, <1>a
  <2>2. CASE AddAssignment(c, e, a, d)
    <3> DEFINE listed == {b \in Assigned(e) : live \/ assignment[b].to = Never}
               held == [pc |-> "assign", on |-> e, seen |-> "NONE", listed |-> listed \cup {a}, day |-> d]
    <3>1. held \in Call /\ held.pc = "assign" /\ held.on = e
      BY DEF Call, Stages, Ids, EmploymentStatus, Assigned
    <3>2. call' = [call EXCEPT ![c] = held]
      BY <2>2 DEF AddAssignment
    <3> HIDE DEF held
    <3>3. Begun(c)
      BY <1>0, <3>1, <3>2 DEF Begun
    <3> QED BY <3>1, <3>2, <3>3, <1>a
  <2> QED BY <1>1, <2>1, <2>2
<1>2. ASSUME NEW c \in Calls, NEW k \in Contracts, NEW stage \in {"validate", "sign"},
             FetchContract(c, k, stage)
      PROVE  Goal
  <2>1. k \in Ids /\ contract[k].status \in Statuses /\ stage \in Stages
    BY <1>0 DEF Ids, TypeOK, Statuses, Stages
  <2>2. Begin(c, stage, k, contract[k].status)
    BY <1>2 DEF FetchContract
  <2>3. call'[c].pc = stage /\ call'[c].on = k
    BY <1>0, <2>1, <2>2, OneHandler
  <2>4. Begun(c)
    BY <1>2, <2>3 DEF FetchContract, Begun, rows
  <2> QED BY <2>1, <2>2, <2>4, <1>d
<1>3. ASSUME NEW c \in Calls, NEW m \in Amendments, FetchAmendment(c, m) PROVE Goal
  <2>1. m \in Ids /\ amendment[m].status \in Statuses /\ "amend" \in Stages
    BY <1>0 DEF Ids, TypeOK, Statuses, Stages
  <2>2. Begin(c, "amend", m, amendment[m].status)
    BY <1>3 DEF FetchAmendment
  <2>3. call'[c].pc = "amend" /\ call'[c].on = m
    BY <1>0, <2>1, <2>2, OneHandler
  <2>4. Begun(c)
    BY <1>3, <2>3 DEF FetchAmendment, Begun, rows
  <2> QED BY <2>1, <2>2, <2>4, <1>d
<1>4. ASSUME NEW c \in Calls, NEW e \in Employments, NEW stage \in {"depart", "archive"},
             FetchEmployment(c, e, stage)
      PROVE  Goal
  <2>1. e \in Ids /\ employment[e].status \in Statuses /\ stage \in Stages
    BY <1>0 DEF Ids, TypeOK, Statuses, Stages
  <2>2. Begin(c, stage, e, employment[e].status)
    BY <1>4 DEF FetchEmployment
  <2>3. call'[c].pc = stage /\ call'[c].on = e
    BY <1>0, <2>1, <2>2, OneHandler
  <2>4. Begun(c)
    BY <2>3 DEF Begun
  <2> QED BY <2>1, <2>2, <2>4, <1>d
<1>5. ASSUME NEW c \in Calls, Start(c) PROVE Goal
  BY <1>1, <1>2, <1>3, <1>4, <1>5, <1>e DEF Start, CreateContract, CreateAmendment
<1>6. ASSUME NEW c \in Calls, NEW k \in Contracts, HireContract(c, k) PROVE Goal
  <2>1. call[c].pc = "hireContract" /\ call[c].on \in Employments /\ Goto(c, "hireAssign")
    BY <1>0, <1>6 DEF HireContract, At, EmploymentStages
  <2>2. contract'[k].emp = call[c].on
    BY <1>0, <1>6 DEF HireContract, TypeOK
  <2>3. call'[c].pc = "hireAssign" /\ call'[c].on = call[c].on /\ "hireAssign" \in Stages \ {"idle"}
    BY <1>0, <2>1, OneHandler DEF Stages
  <2>4. GoesOn(c)
    BY <2>1, <2>2, <2>3 DEF GoesOn
  <2> QED BY <2>1, <2>3, <2>4, <1>c
<1>7. ASSUME NEW c \in Calls, NEW a \in Assignments, HireAssign(c, a) PROVE Goal
  <2>1. call[c].pc = "hireAssign" /\ Goto(c, "hired") /\ Insert(c, a)
    BY <1>7 DEF HireAssign, At
  <2>2. assignment'[a].emp = call[c].on /\ UNCHANGED contract
    BY <1>0, <2>1 DEF Insert, TypeOK
  <2>3. call'[c].pc = "hired" /\ call'[c].on = call[c].on /\ "hired" \in Stages \ {"idle"}
    BY <1>0, <2>1, OneHandler DEF Stages
  <2>4. GoesOn(c)
    BY <2>1, <2>2, <2>3 DEF GoesOn
  <2> QED BY <2>1, <2>3, <2>4, <1>c
<1>8. ASSUME NEW c \in Calls, Sign(c) \/ Activate(c) \/ CloseCurrent(c) \/ PatchContract(c) \/ ApplyAmendment(c)
      PROVE  Goal
  <2>1. ASSUME NEW next \in Stages \ {"idle"}, Goto(c, next),
               \/ call[c].pc = "sign" /\ next = "signed"
               \/ call[c].pc = "signed" /\ next = "activated"
               \/ call[c].pc = "assign" /\ next = "assignCreate"
               \/ call[c].pc = "patch" /\ next = "apply" /\ call[c].on \in patched'
               \/ call[c].pc = "apply" /\ next = "amended"
        PROVE  Goal
    <3>1. call'[c].pc = next /\ call'[c].on = call[c].on
      BY <1>0, <2>1, OneHandler
    <3>2. GoesOn(c)
      BY <2>1, <3>1 DEF GoesOn
    <3> QED BY <2>1, <3>2, <1>c
  <2>2. {"signed", "activated", "assignCreate", "apply", "amended"} \subseteq Stages \ {"idle"}
    BY DEF Stages
  <2>3. CASE Sign(c)
    BY <2>1, <2>2, <2>3, <1>b DEF Sign, SetContract, At
  <2>4. CASE Activate(c)
    BY <2>1, <2>2, <2>4 DEF Activate, At
  <2>5. CASE CloseCurrent(c)
    BY <2>1, <2>2, <2>5 DEF CloseCurrent, At
  <2>6. CASE PatchContract(c)
    BY <2>1, <2>2, <2>6 DEF PatchContract, At
  <2>7. CASE ApplyAmendment(c)
    BY <2>1, <2>2, <2>7 DEF ApplyAmendment, At
  <2> QED BY <1>8, <2>3, <2>4, <2>5, <2>6, <2>7
<1>9. ASSUME NEW c \in Calls, SignAmendment(c) PROVE Goal
  <2> DEFINE m == call[c].on
  <2>1. call[c].pc = "amend" /\ m \in Amendments
    BY <1>0, <1>9 DEF SignAmendment, At, AmendmentStages
  <2>2. {"patch", "apply"} \subseteq Stages \ {"idle"}
    BY DEF Stages
  <2>3. CASE Return(c)
    BY <2>3, <1>b
  <2>4. CASE Goto(c, "patch") /\ amendment[m].changes
    <3>1. call'[c].pc = "patch" /\ call'[c].on = m
      BY <1>0, <2>2, <2>4, OneHandler
    <3>2. GoesOn(c)
      BY <2>1, <3>1 DEF GoesOn
    <3> QED BY <2>2, <2>4, <3>2, <1>c
  <2>5. CASE SetAmendment(c, "SIGNED") /\ Goto(c, "apply") /\ ~amendment[m].changes
    <3>1. call'[c].pc = "apply" /\ call'[c].on = m
      BY <1>0, <2>2, <2>5, OneHandler
    <3>2. ~amendment'[m].changes
      BY <1>0, <2>1, <2>5 DEF SetAmendment, TypeOK
    <3>3. GoesOn(c)
      BY <2>1, <2>5, <3>1, <3>2 DEF GoesOn
    <3> QED BY <2>2, <2>5, <3>3, <1>c
  <2>6. CASE SetAmendment(c, "SIGNED") /\ Goto(c, IF amendment[m].changes THEN "patch" ELSE "apply")
    <3>1. CASE amendment[m].changes
      <4>1. Goto(c, "patch")
        BY <2>6, <3>1
      <4> QED BY <3>1, <4>1, <2>4
    <3>2. CASE ~amendment[m].changes
      <4>1. Goto(c, "apply")
        BY <2>6, <3>2
      <4> QED BY <2>6, <3>2, <4>1, <2>5
    <3> QED BY <3>1, <3>2
  <2> QED BY <1>9, <2>3, <2>6 DEF SignAmendment
<1>10. ASSUME NEW c \in Calls, NEW d \in Days, Depart(c, d) PROVE Goal
  <2>1. CASE Return(c)
    BY <2>1, <1>b
  <2>2. CASE call' = [call EXCEPT ![c].pc = "departList", ![c].day = d]
    <3> DEFINE held == [call[c] EXCEPT !.pc = "departList", !.day = d]
    <3>1. held \in Call /\ held.pc = "departList" /\ held.on = call[c].on
      BY <1>0 DEF Call, Stages
    <3>2. call' = [call EXCEPT ![c] = held]
      BY <1>0, <2>2 DEF Call
    <3> HIDE DEF held
    <3>3. GoesOn(c)
      BY <1>0, <1>10, <3>1, <3>2 DEF GoesOn, Depart, At
    <3> QED BY <3>1, <3>2, <3>3, <1>a
  <2> QED BY <1>10, <2>1, <2>2 DEF Depart
<1>11. ASSUME NEW c \in Calls, DepartList(c) PROVE Goal
  <2> DEFINE listed == {a \in Assigned(call[c].on) : live \/ Outlasts(a, c)}
             held == [call[c] EXCEPT !.pc = "departClose", !.listed = listed]
  <2>1. held \in Call /\ held.pc = "departClose" /\ held.on = call[c].on
    BY <1>0 DEF Call, Stages, Assigned
  <2>2. call' = [call EXCEPT ![c] = held]
    BY <1>0, <1>11 DEF DepartList, Call
  <2> HIDE DEF held
  <2>3. GoesOn(c)
    BY <1>0, <1>11, <2>1, <2>2 DEF GoesOn, DepartList, At
  <2> QED BY <2>1, <2>2, <2>3, <1>a
<1>12. ASSUME NEW c \in Calls, NEW a \in Assignments, DepartClose(c, a) PROVE Goal
  <2> DEFINE held == [call[c] EXCEPT !.listed = @ \ {a}]
  <2>1. held \in Call /\ held.pc = "departClose" /\ held.on = call[c].on
    BY <1>0, <1>12 DEF Call, DepartClose, At
  <2>2. call' = [call EXCEPT ![c] = held]
    BY <1>0, <1>12 DEF DepartClose, Call
  <2> HIDE DEF held
  <2>3. GoesOn(c)
    BY <1>0, <1>12, <2>1, <2>2 DEF GoesOn, DepartClose, At
  <2> QED BY <2>1, <2>2, <2>3, <1>a
<1>13. ASSUME NEW c \in Calls,
              \/ HireRefused(c) \/ Hired(c) \/ Validate(c) \/ ActivateEmployment(c) \/ Amended(c)
              \/ Departed(c) \/ Archive(c) \/ Fail(c)
              \/ \E a \in Assignments : InsertAssignment(c, a)
       PROVE  Goal
  BY <1>13, <1>b DEF HireRefused, Hired, Validate, SetContract, Return, ActivateEmployment, Amended,
                     Departed, Archive, Fail, InsertAssignment
<1>14. ASSUME NEW c \in Calls, Continue(c) PROVE Goal
  BY <1>14, <1>6, <1>7, <1>8, <1>9, <1>10, <1>11, <1>12, <1>13 DEF Continue
<1>15. Goal
  BY <1>5, <1>13, <1>14, <1>e DEF Next, NextDay, vars
<1> QED BY <1>15 DEF Goal

-----------------------------------------------------------------------------
(* Types *)

(* Every table and every handler keeps its type, and a handler has a row   *)
(* of the kind its stage is about.                                         *)
THEOREM TypeCorrect == Spec => []Typed
<1>1. Init => Typed
  BY EmploymentAssumption, IdleType
     DEF Init, Typed, TypeOK, Placed, PlacedFor, EmploymentStages, ContractStages, AmendmentStages,
         Days, Never, EmploymentStatus, ContractStatus, AmendmentStatus
<1>2. Typed /\ [Next]_vars => Typed'
  <2> SUFFICES ASSUME Typed, [Next]_vars PROVE Typed'
    OBVIOUS
  <2>1. announced' \subseteq Events \X Ids
    BY NextAnnounced, AnnouncesTypes DEF Typed, TypeOK
  <2>2. TypeOK'
    BY <2>1, NextContract, NextAmendment, NextEmployment, NextAssignment, NextRest, NextCalls
       DEF Typed, TypeOK, ContractRow, AmendmentRow, EmploymentRow, AssignmentRow
  <2>3. ASSUME NEW c \in Calls PROVE PlacedFor(c)'
    <3>1. Moved(c) /\ PlacedFor(c)
      BY NextCalls DEF Typed, Placed
    <3>2. \A k \in Contracts : contract[k].status # "NONE" => contract'[k].status # "NONE"
      BY NextContract DEF ContractStep
    <3>3. \A m \in Amendments : amendment[m].status # "NONE" => amendment'[m].status # "NONE"
      BY NextAmendment DEF AmendmentStep
    <3>4. CASE call'[c] = call[c]
      BY <3>1, <3>2, <3>3, <3>4 DEF PlacedFor
    <3>5. CASE call'[c] = Idle
      BY <3>5, IdleType DEF PlacedFor, EmploymentStages, ContractStages, AmendmentStages
    <3>6. CASE Begun(c)
      BY <3>6 DEF Begun, PlacedFor, EmploymentStages, ContractStages, AmendmentStages
    <3>7. CASE GoesOn(c)
      BY <3>1, <3>2, <3>3, <3>7
         DEF GoesOn, PlacedFor, EmploymentStages, ContractStages, AmendmentStages
    <3> QED BY <3>1, <3>4, <3>5, <3>6, <3>7 DEF Moved
  <2> QED BY <2>2, <2>3 DEF Typed, Placed
<1> QED BY <1>1, <1>2, PTL DEF Spec

-----------------------------------------------------------------------------
(* What is announced or marked *)

HasContract(e) == \E k \in Contracts : contract[k].emp = e
HasAssignment(e) == \E a \in Assignments : assignment[a].emp = e

(* What a hiring or a signature under way has already written, and that a  *)
(* row has an employment only once it is there.                            *)
BackedFor(c) ==
  /\ call[c].pc \in {"hireAssign", "hired"} => HasContract(call[c].on)
  /\ call[c].pc = "hired" => HasAssignment(call[c].on)
  /\ call[c].pc = "apply" /\ amendment[call[c].on].changes => call[c].on \in patched

Backed ==
  /\ \A c \in Calls : BackedFor(c)
  /\ \A k \in Contracts : contract[k].status = "NONE" => contract[k].emp = None

(* No event says and no status shows more than the rows bear out: an       *)
(* EmployeeHired has its contract and assignment, an ACTIVE employment a   *)
(* contract that was announced, an APPLIED amendment its contract patched, *)
(* wherever a handler of Services fails and whatever overlaps it.          *)
THEOREM AnnouncementsAreTrue == Spec => []AnnouncedIsTrue
<1> DEFINE Inv == Backed /\ AnnouncedIsTrue
<1>1. Init => Inv
  BY IdleType DEF Init, Backed, BackedFor, AnnouncedIsTrue, HiredIsComplete, ActiveIsSigned, AppliedIsInForce
<1>2. Typed /\ Inv /\ [Next]_vars => Inv'
  <2> SUFFICES ASSUME Typed, Backed, AnnouncedIsTrue, [Next]_vars PROVE Inv'
    OBVIOUS
  <2>0. \A e \in Employments : e # None
    BY EmploymentAssumption
  <2>1. ASSUME NEW e \in Employments, HasContract(e) PROVE \E k \in Contracts : contract'[k].emp = e
    BY <2>0, <2>1, NextContract DEF ContractStep, Backed, HasContract
  <2>2. ASSUME NEW e \in Employments, HasAssignment(e)
        PROVE  \E a \in Assignments : assignment'[a].emp = e
    BY <2>0, <2>2, NextAssignment DEF AssignmentStep, HasAssignment
  <2>3. \A k \in Contracts : contract'[k].status = "NONE" => contract'[k].emp = None
    BY NextContract DEF ContractStep, Backed
  <2>4. ASSUME NEW c \in Calls PROVE BackedFor(c)'
    <3>1. Moved(c) /\ BackedFor(c) /\ PlacedFor(c)
      BY NextCalls DEF Backed, Typed, Placed
    <3>2. CASE call'[c] = call[c]
      <4>1. call[c].pc \in {"hireAssign", "hired"} => \E k \in Contracts : contract'[k].emp = call[c].on
        BY <2>1, <3>1 DEF BackedFor, PlacedFor, EmploymentStages
      <4>2. call[c].pc = "hired" => \E a \in Assignments : assignment'[a].emp = call[c].on
        BY <2>2, <3>1 DEF BackedFor, PlacedFor, EmploymentStages
      <4>3. call[c].pc = "apply" /\ amendment'[call[c].on].changes => call[c].on \in patched'
        <5>1. call[c].pc = "apply" => AmendmentStep(call[c].on) /\ amendment[call[c].on].status # "NONE"
          BY <3>1, NextAmendment DEF PlacedFor, AmendmentStages
        <5> QED BY <3>1, <5>1, NextRest DEF BackedFor, AmendmentStep
      <4> QED BY <3>2, <4>1, <4>2, <4>3 DEF BackedFor, HasContract, HasAssignment
    <3>3. CASE call'[c] = Idle \/ Begun(c)
      BY <3>3, IdleType DEF Begun, BackedFor
    <3>4. CASE GoesOn(c)
      <4>1. call'[c].pc = "hireAssign" => \E k \in Contracts : contract'[k].emp = call'[c].on
        BY <3>4 DEF GoesOn
      <4>2. call'[c].pc = "hired" => /\ \E k \in Contracts : contract'[k].emp = call'[c].on
                                     /\ \E a \in Assignments : assignment'[a].emp = call'[c].on
        BY <3>1, <3>4 DEF GoesOn, HasContract, BackedFor
      <4>3. call'[c].pc = "apply" /\ amendment'[call'[c].on].changes => call'[c].on \in patched'
        BY <3>4 DEF GoesOn
      <4> QED BY <4>1, <4>2, <4>3 DEF BackedFor, HasContract, HasAssignment
    <3> QED BY <3>1, <3>2, <3>3, <3>4 DEF Moved
  <2>5. HiredIsComplete'
    <3> SUFFICES ASSUME NEW e \in Employments, <<"EmployeeHired", e>> \in announced'
                 PROVE  /\ \E k \in Contracts : contract'[k].emp = e
                        /\ \E a \in Assignments : assignment'[a].emp = e
      BY DEF HiredIsComplete, Assigned
    <3>1. HasContract(e) /\ HasAssignment(e)
      <4>1. CASE <<"EmployeeHired", e>> \in announced
        BY <4>1 DEF AnnouncedIsTrue, HiredIsComplete, HasContract, HasAssignment, Assigned
      <4>2. CASE <<"EmployeeHired", e>> \notin announced
        <5>1. PICK c \in Calls : <<"EmployeeHired", e>> \in Announces(c)
          BY <4>2, NextAnnounced
        <5>2. call[c].pc = "hired" /\ call[c].on = e
          BY <5>1 DEF Announces
        <5> QED BY <5>2 DEF Backed, BackedFor
      <4> QED BY <4>1, <4>2
    <3> QED BY <3>1, <2>1, <2>2
  <2>6. ActiveIsSigned'
    <3> SUFFICES ASSUME NEW e \in Employments, employment'[e].status = "ACTIVE"
                 PROVE  \E k \in Contracts : contract'[k].emp = e /\ <<"ContractActivated", k>> \in announced'
      BY DEF ActiveIsSigned
    <3>1. EmploymentStep(e)
      BY NextEmployment
    <3>2. PICK k \in Contracts : contract[k].emp = e /\ <<"ContractActivated", k>> \in announced'
      BY <3>1, NextAnnounced DEF EmploymentStep, AnnouncedIsTrue, ActiveIsSigned
    <3>3. contract'[k].emp = e
      BY <2>0, <3>2, NextContract DEF ContractStep, Backed
    <3> QED BY <3>2, <3>3
  <2>7. AppliedIsInForce'
    <3> SUFFICES ASSUME NEW m \in Amendments, amendment'[m].status = "APPLIED", amendment'[m].changes
                 PROVE  m \in patched'
      BY DEF AppliedIsInForce
    <3>1. AmendmentStep(m) /\ patched \subseteq patched'
      BY NextAmendment, NextRest
    <3> QED BY <3>1 DEF AmendmentStep, Backed, BackedFor, AnnouncedIsTrue, AppliedIsInForce
  <2> QED BY <2>3, <2>4, <2>5, <2>6, <2>7 DEF Backed, AnnouncedIsTrue
<1>3. Inv => AnnouncedIsTrue
  OBVIOUS
<1> QED BY <1>1, <1>2, <1>3, TypeCorrect, PTL DEF Spec

-----------------------------------------------------------------------------
(* Ends and history *)

(* What has ended has ended: declareDeparture and archiveEmployment leave  *)
(* no ended employment with an end to come, nor, in memory, an archived    *)
(* one.                                                                    *)
THEOREM EndsArePast == Spec => []EndIsPast
<1>1. Init => EndIsPast
  BY DEF Init, EndIsPast
<1>2. Typed /\ EndIsPast /\ [Next]_vars => EndIsPast'
  <2> SUFFICES ASSUME Typed, EndIsPast, [Next]_vars, NEW e \in Employments,
                      employment'[e].status = "ENDED" \/ (live' /\ employment'[e].status = "ARCHIVED")
               PROVE  employment'[e].end <= today'
    BY DEF EndIsPast
  <2>1. EmploymentStep(e) /\ live' = live /\ today <= today' /\ today' \in Int
    BY NextEmployment, NextRest DEF Days
  <2>2. today \in Int /\ employment'[e].end \in Int
    BY NextEmployment DEF Typed, TypeOK, Days, EmploymentRow
  <2>3. employment'[e].end <= today
    BY <2>1 DEF EmploymentStep, EndIsPast
  <2> QED BY <2>1, <2>2, <2>3
<1> QED BY <1>1, <1>2, TypeCorrect, PTL DEF Spec

(* Over the in-memory store no overlap of validations and signatures takes *)
(* a contract back.                                                        *)
THEOREM ContractsAdvance == Spec => ContractAdvances
<1>1. Typed /\ [Next]_vars =>
        [live => \A k \in Contracts : Rank(contract'[k].status) >= Rank(contract[k].status)]_vars
  <2> SUFFICES ASSUME Typed, [Next]_vars, live, NEW k \in Contracts
               PROVE  Rank(contract'[k].status) >= Rank(contract[k].status)
    OBVIOUS
  <2>1. ContractStep(k) /\ contract[k].status \in ContractStatus
    BY NextContract DEF Typed, TypeOK
  <2> QED BY <2>1 DEF ContractStep, Rank, ContractStatus
<1> QED BY <1>1, TypeCorrect, PTL DEF Spec, ContractAdvances

(* Over the in-memory store an assignment keeps its employment and start,  *)
(* and is never extended, by mobility or departure.                        *)
THEOREM HistoryIsKept == Spec => HistoryKept
<1>1. Typed /\ [Next]_vars =>
        [live => \A a \in Assignments : assignment[a].emp # None =>
           /\ assignment'[a].emp = assignment[a].emp
           /\ assignment'[a].from = assignment[a].from
           /\ assignment'[a].to <= assignment[a].to]_vars
  <2> SUFFICES ASSUME Typed, [Next]_vars, live, NEW a \in Assignments, assignment[a].emp # None
               PROVE  /\ assignment'[a].emp = assignment[a].emp
                      /\ assignment'[a].from = assignment[a].from
                      /\ assignment'[a].to <= assignment[a].to
    OBVIOUS
  <2>1. AssignmentStep(a) /\ assignment[a].to \in Int
    BY NextAssignment DEF Typed, TypeOK
  <2> QED BY <2>1 DEF AssignmentStep
<1> QED BY <1>1, TypeCorrect, PTL DEF Spec, HistoryKept
=============================================================================
