----------------------------- MODULE LeaveProofs -----------------------------
(***************************************************************************)
(* Theorems about the absence workflow, for every number of handlers,      *)
(* requests, types and days; and, at the end, about the views of the rows  *)
(* of all components, whose sums are the same as those of the ledger.      *)
(***************************************************************************)
EXTENDS Leave, Views, FiniteSetTheorems, TLAPS

(* The three ways a handler changes its slot keep every slot well formed. *)
SlotsOK ==
  /\ call \in [Calls -> Call]
  /\ \A c \in Calls : call[c].pc # "idle" => call[c].req \in Requests

LEMMA TakenTyped ==
  ASSUME TypeOK, NEW r \in Requests, NEW p \in Periods
  PROVE  Taken(r, p) \in Entry
<1>1. terms[r] \in Terms
  BY DEF TypeOK
<1>2. /\ terms[r].emp \in Employments /\ terms[r].type \in Types
      /\ terms[r].first \in Days /\ terms[r].last \in Days
  BY <1>1 DEF Terms
<1>3. PeriodOf[terms[r].first] \in Periods /\ terms[r].first \in Int /\ terms[r].last \in Int
  <2>1. Days \subseteq Int
    BY LeaveAssumption
  <2>2. PeriodOf \in [Days -> Periods]
    BY LeaveAssumption
  <2> QED BY <1>2, <2>1, <2>2
<1>4. DaysOf(terms[r]) \in Nat
  <2>1. IsFiniteSet((terms[r].first .. terms[r].last) \ Off)
    BY <1>3, FS_Interval, FS_Difference
  <2> QED BY <2>1, FS_CardinalityType DEF DaysOf, countLeaveDays
<1> QED BY <1>2, <1>3, <1>4 DEF Taken, Entry

LEMMA SlotMoves ==
  ASSUME TypeOK, NEW c \in Calls
  PROVE  /\ \A stage : Goto(c, stage) =>
              /\ call'[c].pc = stage /\ call'[c].req = call[c].req
              /\ \A d \in Calls \ {c} : call'[d] = call[d]
         /\ Return(c) =>
              /\ call'[c].pc = "idle"
              /\ \A d \in Calls \ {c} : call'[d] = call[d]
  BY DEF TypeOK, Call, Goto, Return, Idle

LEMMA GotoSlots ==
  ASSUME SlotsOK, NEW c \in Calls, NEW stage \in Stages,
         call[c].pc # "idle", Goto(c, stage)
  PROVE  SlotsOK'
<1>1. call[c] \in Call
  BY DEF SlotsOK
<1>2. [call[c] EXCEPT !.pc = stage] \in Call
  BY <1>1 DEF Call
<1>3. call' = [call EXCEPT ![c] = [call[c] EXCEPT !.pc = stage]]
  BY DEF Goto, SlotsOK
<1> QED BY <1>1, <1>2, <1>3 DEF SlotsOK, Call

LEMMA ReturnSlots ==
  ASSUME SlotsOK, NEW c \in Calls, Return(c)
  PROVE  SlotsOK'
<1>1. Idle \in Call /\ Idle.pc = "idle"
  BY DEF Idle, Call, Stages, Statuses
<1> QED BY <1>1 DEF SlotsOK, Return

LEMMA BeginSlots ==
  ASSUME SlotsOK, status \in [Requests -> Statuses],
         NEW c \in Calls, NEW r \in Requests, NEW stage \in Stages,
         Begin(c, stage, r)
  PROVE  SlotsOK'
<1>1. [pc |-> stage, req |-> r, seen |-> status[r]] \in Call
  BY DEF Call
<1> QED BY <1>1 DEF SlotsOK, Begin

(* The variables keep their types: every handler step writes a status, a   *)
(* ledger row, an event and a stage the tables can hold.                   *)
THEOREM TypeCorrect == Spec => []TypeOK
<1>1. Init => TypeOK
  <2>1. Stores \subseteq BOOLEAN
    BY LeaveAssumption
  <2> QED BY <2>1 DEF Init, TypeOK, Idle, Call, Stages, Statuses
<1>2. TypeOK /\ [Next]_vars => TypeOK'
  <2> SUFFICES ASSUME TypeOK, [Next]_vars PROVE TypeOK'
    OBVIOUS
  <2> USE DEF TypeOK
  <2>0. SlotsOK
    BY DEF SlotsOK
  <2>1. ASSUME NEW c \in Calls, NEW r \in Requests, RequestLeave(c, r)
        PROVE  TypeOK'
    BY <2>1 DEF RequestLeave, Call, Stages, Statuses
  <2>2. ASSUME NEW c \in Calls, NEW r \in Requests,
               ApproveLeave(c, r) \/ RefuseLeave(c, r) \/ ApproveLeaveHr(c, r)
        PROVE  TypeOK'
    <3>1. SlotsOK'
      BY <2>0, <2>2, BeginSlots
         DEF ApproveLeave, RefuseLeave, ApproveLeaveHr, Stages
    <3> QED BY <2>2, <3>1 DEF ApproveLeave, RefuseLeave, ApproveLeaveHr, SlotsOK
  <2>3. ASSUME NEW c \in Calls, NEW e \in Employments, NEW t \in Types,
               NEW p \in Periods, NEW d \in Corrections,
               CorrectLeaveBalance(c, e, t, p, d)
        PROVE  TypeOK'
    <3>1. [kind |-> "CORRECTION", emp |-> e, type |-> t, days |-> d,
           period |-> p, ref |-> None, made |-> today] \in Entry
      BY LeaveAssumption DEF Entry
    <3>2. ledger' \in Seq(Entry)
      BY <2>3, <3>1 DEF CorrectLeaveBalance
    <3> QED BY <2>3, <3>2 DEF CorrectLeaveBalance
  <2>4. ASSUME NEW c \in Calls, NEW stage, NEW from, NEW to \in Statuses,
               NEW next \in Stages, stage # "idle", Decide(c, stage, from, to, next)
        PROVE  TypeOK'
    <3>1. SlotsOK'
      BY <2>0, <2>4, GotoSlots, ReturnSlots DEF Decide
    <3>2. status' \in [Requests -> Statuses]
      BY <2>4 DEF Decide
    <3> QED BY <2>4, <3>1, <3>2 DEF Decide, SlotsOK
  <2>5. ASSUME NEW c \in Calls, NEW stage, NEW event \in Events,
               Publish(c, stage, event), stage # "idle",
               Return(c) \/ Goto(c, "finRead")
        PROVE  TypeOK'
    <3>1. SlotsOK'
      BY <2>0, <2>5, GotoSlots, ReturnSlots DEF Publish, Stages
    <3>2. announced' \in [Requests -> SUBSET Events]
      BY <2>5 DEF Publish
    <3> QED BY <2>5, <3>1, <3>2 DEF Publish, SlotsOK
  <2>6. ASSUME NEW c \in Calls, FinalizeRead(c)
        PROVE  TypeOK'
    <3>1. Goto(c, "finUpdate") \/ Goto(c, "finAppend") \/ Return(c)
      BY <2>6 DEF FinalizeRead
    <3>2. SlotsOK'
      BY <2>0, <2>6, <3>1, GotoSlots, ReturnSlots DEF FinalizeRead, Stages
    <3> QED BY <2>6, <3>2 DEF FinalizeRead, SlotsOK
  <2>7. ASSUME NEW c \in Calls, FinalizeAppend(c)
        PROVE  TypeOK'
    <3>1. call[c].req \in Requests /\ today \in Periods
      BY <2>7 DEF FinalizeAppend
    <3>2. Taken(call[c].req, today) \in Entry
      BY <3>1, TakenTyped
    <3>3. ledger' \in Seq(Entry)
      BY <2>7, <3>2 DEF FinalizeAppend
    <3>4. SlotsOK'
      BY <2>0, <2>7, GotoSlots DEF FinalizeAppend, Stages
    <3> QED BY <2>7, <3>3, <3>4 DEF FinalizeAppend, SlotsOK
  <2>8. ASSUME NEW c \in Calls, FinalizeUpdate(c)
        PROVE  TypeOK'
    <3>1. SlotsOK'
      BY <2>0, <2>8, GotoSlots DEF FinalizeUpdate, Stages
    <3> QED BY <2>8, <3>1 DEF FinalizeUpdate, SlotsOK, Statuses
  <2>9. ASSUME NEW c \in Calls, Fail(c)
        PROVE  TypeOK'
    BY <2>0, <2>9, ReturnSlots DEF Fail, SlotsOK
  <2>10. CASE NextPeriod
    BY <2>10 DEF NextPeriod
  <2>11. CASE UNCHANGED vars
    BY <2>11 DEF vars
  <2> QED
    BY <2>1, <2>2, <2>3, <2>4, <2>5, <2>6, <2>7, <2>8, <2>9, <2>10, <2>11
       DEF Next, Start, Continue, ManagerDecides, RefusalDecides, PublishRequested,
           PublishRefused, PublishApproved, PublishManagerApproved,
           Stages, Statuses, Events
<1> QED BY <1>1, <1>2, PTL DEF Spec

-----------------------------------------------------------------------------
Charged(r) == \E i \in Rows(r), p \in Periods : ledger[i] = Taken(r, p)

(* The stages a call reaches only after a manager has approved. *)
AfterManager == {"mgrDone", "finRead", "finAppend", "finUpdate", "finDone"}

(* What ties the place of a handler to the status and to the ledger: the   *)
(* three deduction invariants are not inductive without it.                *)
RequestInv(r) ==
  /\ Rows(r) # {} => IsDecremented(r) /\ status[r] \notin {"NONE", "REQUESTED"}
  /\ status[r] = "APPROVED" /\ IsDecremented(r) => Charged(r)
  /\ "LeaveApproved" \in announced[r] /\ IsDecremented(r) => Charged(r)

CallInv(c) ==
  /\ call[c].pc \in AfterManager =>
       status[call[c].req] \notin {"NONE", "REQUESTED"}
  /\ call[c].pc = "finAppend" => IsDecremented(call[c].req)
  /\ call[c].pc \in {"finUpdate", "finDone"} /\ IsDecremented(call[c].req) =>
       Charged(call[c].req)

DeductionInv ==
  /\ \A r \in Requests : RequestInv(r)
  /\ \A c \in Calls : CallInv(c)

(* Appending a row leaves the earlier ones where they were. *)
LEMMA AppendRow ==
  ASSUME ledger \in Seq(Entry), NEW x \in Entry, ledger' = Append(ledger, x)
  PROVE  /\ DOMAIN ledger' = DOMAIN ledger \cup {Len(ledger) + 1}
         /\ Len(ledger) + 1 \in Nat \ DOMAIN ledger
         /\ \A i \in DOMAIN ledger : ledger'[i] = ledger[i]
         /\ ledger'[Len(ledger) + 1] = x
         /\ \A r : Rows(r)' = Rows(r) \cup (IF x.ref = r THEN {Len(ledger) + 1} ELSE {})
<1>1. /\ DOMAIN ledger' = DOMAIN ledger \cup {Len(ledger) + 1}
      /\ Len(ledger) + 1 \in Nat \ DOMAIN ledger
      /\ \A i \in DOMAIN ledger : ledger'[i] = ledger[i]
      /\ ledger'[Len(ledger) + 1] = x
  OBVIOUS
<1>2. ASSUME NEW r
      PROVE  Rows(r)' = Rows(r) \cup (IF x.ref = r THEN {Len(ledger) + 1} ELSE {})
  BY <1>1 DEF Rows
<1> QED BY <1>1, <1>2

(* A correction is nobody's deduction. *)
LEMMA CorrectionRows ==
  ASSUME TypeOK, NEW c \in Calls, NEW e \in Employments, NEW t \in Types,
         NEW p \in Periods, NEW d \in Corrections,
         CorrectLeaveBalance(c, e, t, p, d)
  PROVE  \A r \in Requests : /\ Rows(r)' = Rows(r)
                              /\ \A i \in Rows(r) : ledger'[i] = ledger[i]
<1> DEFINE x == [kind |-> "CORRECTION", emp |-> e, type |-> t, days |-> d,
                 period |-> p, ref |-> None, made |-> today]
<1>1. x \in Entry /\ \A r \in Requests : x.ref # r
  BY LeaveAssumption DEF Entry, TypeOK
<1>2. ledger \in Seq(Entry) /\ ledger' = Append(ledger, x)
  BY DEF CorrectLeaveBalance, TypeOK
<1> SUFFICES ASSUME NEW r \in Requests
             PROVE  /\ Rows(r)' = Rows(r)
                    /\ \A i \in Rows(r) : ledger'[i] = ledger[i]
  OBVIOUS
<1>3. Rows(r)' = Rows(r) \cup (IF x.ref = r THEN {Len(ledger) + 1} ELSE {})
  BY <1>1, <1>2, AppendRow
<1>4. \A i \in Rows(r) : ledger'[i] = ledger[i]
  BY <1>1, <1>2, AppendRow DEF Rows
<1> QED BY <1>1, <1>3, <1>4

(* A step that leaves the ledger and the terms alone, and the status and   *)
(* announcements of everybody except possibly those of one request whose   *)
(* handler it moves, preserves DeductionInv under the conditions below.    *)
LEMMA DeductionFrame ==
  ASSUME UNCHANGED <<terms, ledger>>
  PROVE  \A r : /\ Rows(r)' = Rows(r) /\ \A p : Taken(r, p)' = Taken(r, p)
                /\ (Charged(r))' = Charged(r) /\ IsDecremented(r)' = IsDecremented(r)
  BY DEF Rows, Taken, Charged, IsDecremented

LEMMA DeductionInductive == Spec => []DeductionInv
<1>1. Init => DeductionInv
  BY DEF Init, DeductionInv, RequestInv, CallInv, Rows, Idle, AfterManager
<1>2. TypeOK /\ DeductionInv /\ [Next]_vars => DeductionInv'
  <2> SUFFICES ASSUME TypeOK, DeductionInv, [Next]_vars PROVE DeductionInv'
    OBVIOUS
  <2> USE DEF DeductionInv, RequestInv, CallInv, AfterManager
  <2>1. ASSUME NEW c \in Calls, NEW r \in Requests, RequestLeave(c, r)
        PROVE  DeductionInv'
    BY <2>1, DeductionFrame DEF RequestLeave, TypeOK
  <2>2. ASSUME NEW c \in Calls, NEW r \in Requests,
               ApproveLeave(c, r) \/ RefuseLeave(c, r) \/ ApproveLeaveHr(c, r)
        PROVE  DeductionInv'
    BY <2>2, DeductionFrame DEF ApproveLeave, RefuseLeave, ApproveLeaveHr, Begin, TypeOK
  <2>3. ASSUME NEW c \in Calls, NEW e \in Employments, NEW t \in Types,
               NEW p \in Periods, NEW d \in Corrections,
               CorrectLeaveBalance(c, e, t, p, d)
        PROVE  DeductionInv'
    <3>3. \A r \in Requests : /\ Rows(r)' = Rows(r)
                               /\ \A i \in Rows(r) : ledger'[i] = ledger[i]
      BY <2>3, CorrectionRows
    <3>4. UNCHANGED <<live, today, terms, status, announced, call>>
      BY <2>3 DEF CorrectLeaveBalance
    <3>5. \A r \in Requests : Charged(r) => Charged(r)'
      BY <3>3, <3>4 DEF Charged, Taken
    <3> QED BY <3>3, <3>4, <3>5 DEF IsDecremented, TypeOK
  <2>4. ASSUME NEW c \in Calls, NEW stage, NEW from,
               NEW to \in {"MANAGER_APPROVED", "REFUSED"},
               NEW next \in {"mgrDone", "refDone"}, stage # "idle",
               Decide(c, stage, from, to, next)
        PROVE  DeductionInv'
    <3>1. CASE Goto(c, next) /\ status' = [status EXCEPT ![call[c].req] = to]
      <4>1. UNCHANGED <<terms, ledger, announced>>
        BY <2>4 DEF Decide
      <4>2. \A r \in Requests : RequestInv(r)'
        BY <3>1, <4>1, DeductionFrame DEF TypeOK
      <4>3. \A d \in Calls \ {c} : CallInv(d)'
        BY <3>1, <4>1, DeductionFrame, SlotMoves DEF TypeOK
      <4>4. CallInv(c)'
        <5>1. call[c].req \in Requests
          BY <2>4 DEF Decide, TypeOK
        <5>2. status'[call[c].req] = to
          BY <3>1, <5>1 DEF TypeOK
        <5> QED BY <3>1, <5>2, SlotMoves
      <4> QED BY <4>2, <4>3, <4>4
    <3>2. CASE Return(c) /\ UNCHANGED status
      BY <2>4, <3>2, DeductionFrame, SlotMoves DEF Decide
    <3> QED BY <2>4, <3>1, <3>2 DEF Decide
  <2>5. ASSUME NEW c \in Calls,
               \/ PublishRequested(c) \/ PublishRefused(c)
               \/ PublishApproved(c) \/ PublishManagerApproved(c)
        PROVE  DeductionInv'
    <3>1. Return(c) \/ (Goto(c, "finRead") /\ call[c].pc = "mgrDone")
      BY <2>5 DEF PublishRequested, PublishRefused, PublishApproved,
                  PublishManagerApproved, Publish
    <3>2. UNCHANGED <<live, today, terms, status, ledger>>
      BY <2>5 DEF PublishRequested, PublishRefused, PublishApproved,
                  PublishManagerApproved, Publish
    <3>3. \A r \in Requests : "LeaveApproved" \in announced'[r] =>
            \/ "LeaveApproved" \in announced[r]
            \/ r = call[c].req /\ call[c].pc = "finDone"
      BY <2>5 DEF PublishRequested, PublishRefused, PublishApproved,
                  PublishManagerApproved, Publish, TypeOK
    <3>4. \A d \in Calls : CallInv(d)'
      BY <3>1, <3>2, DeductionFrame, SlotMoves
    <3> QED BY <3>2, <3>3, <3>4, DeductionFrame
  <2>6. ASSUME NEW c \in Calls, FinalizeRead(c)
        PROVE  DeductionInv'
    <3>1. \/ Goto(c, "finUpdate") /\ ~ IsDecremented(call[c].req)
          \/ Goto(c, "finAppend") /\ IsDecremented(call[c].req)
          \/ Return(c)
      BY <2>6 DEF FinalizeRead, IsDecremented
    <3>2. call[c].pc = "finRead" /\ UNCHANGED <<live, today, terms, status, ledger, announced>>
      BY <2>6 DEF FinalizeRead
    <3> QED BY <3>1, <3>2, DeductionFrame, SlotMoves
  <2>7. ASSUME NEW c \in Calls, FinalizeAppend(c)
        PROVE  DeductionInv'
    <3>0. PICK q \in Requests : q = call[c].req
      BY <2>7 DEF FinalizeAppend, TypeOK
    <3>01. PICK now \in Periods : now = today
      BY DEF TypeOK
    <3>1. q \in Requests /\ Taken(q, now) \in Entry /\ Taken(q, now).ref = q
      BY TakenTyped DEF Taken
    <3>2. /\ ledger \in Seq(Entry) /\ ledger' = Append(ledger, Taken(q, now))
          /\ UNCHANGED <<live, today, terms, status, announced>>
          /\ call[c].pc = "finAppend" /\ Goto(c, "finUpdate")
      BY <2>7, <3>0, <3>01 DEF FinalizeAppend, TypeOK
    <3>3. \A r \in Requests : Rows(r)' # {} => Rows(r) # {} \/ r = q
      BY <3>1, <3>2, AppendRow
    <3>4. \A r \in Requests : Charged(r) => Charged(r)'
      <4>1. \A r, p : Taken(r, p)' = Taken(r, p)
        BY <3>2 DEF Taken
      <4>2. /\ DOMAIN ledger \subseteq DOMAIN ledger'
            /\ \A i \in DOMAIN ledger : ledger'[i] = ledger[i]
        BY <3>1, <3>2, AppendRow
      <4> QED BY <4>1, <4>2 DEF Charged, Rows
    <3>5. Charged(q)'
      <4>1. Len(ledger) + 1 \in DOMAIN ledger' /\ ledger'[Len(ledger) + 1] = Taken(q, now)
        BY <3>1, <3>2, AppendRow
      <4>2. Taken(q, now)' = Taken(q, now)
        BY <3>2 DEF Taken
      <4> QED BY <3>1, <4>1, <4>2 DEF Charged, Rows
    <3>6. \A r \in Requests : IsDecremented(r)' = IsDecremented(r)
      BY <3>2 DEF IsDecremented
    <3>7. \A r \in Requests : RequestInv(r)'
      BY <3>0, <3>1, <3>2, <3>3, <3>4, <3>6
    <3>8. \A d \in Calls : CallInv(d)'
      BY <3>0, <3>1, <3>2, <3>4, <3>5, <3>6, SlotMoves DEF TypeOK
    <3> QED BY <3>7, <3>8
  <2>8. ASSUME NEW c \in Calls, FinalizeUpdate(c)
        PROVE  DeductionInv'
    BY <2>8, DeductionFrame, SlotMoves DEF FinalizeUpdate, TypeOK
  <2>9. ASSUME NEW c \in Calls, Fail(c)
        PROVE  DeductionInv'
    BY <2>9, DeductionFrame, SlotMoves DEF Fail
  <2>10. CASE NextPeriod
    BY <2>10, DeductionFrame DEF NextPeriod
  <2>11. CASE UNCHANGED vars
    BY <2>11, DeductionFrame DEF vars
  <2> QED
    BY <2>1, <2>2, <2>3, <2>4, <2>5, <2>6, <2>7, <2>8, <2>9, <2>10, <2>11
       DEF Next, Start, Continue, ManagerDecides, RefusalDecides
<1> QED BY <1>1, <1>2, TypeCorrect, PTL DEF Spec

(* With any number of handlers in flight, with failures and over either    *)
(* store, _finalizeLeave never marks a counted absence approved, nor       *)
(* announces it, without its TAKEN movement, and never writes one early.   *)
THEOREM DeductionSafety == Spec => []DeductionSound
<1>1. DeductionInv => DeductionSound
  BY DEF DeductionInv, RequestInv, Charged, DeductionSound, ApprovedIsDeducted, NoEarlyDeduction
<1> QED BY <1>1, DeductionInductive, PTL

-----------------------------------------------------------------------------
(* Over the in-memory store a handler tests the live status in the step    *)
(* that overwrites it, so nothing undoes an approval (approveLeave,        *)
(* refuseLeave), however many handlers are in flight.                      *)
THEOREM ApprovalIsFinal == Spec => ApprovalFinal
<1>1. ASSUME TypeOK, [Next]_vars, NEW r \in Requests, live, status[r] = "APPROVED"
      PROVE  status'[r] = "APPROVED"
  <2>1. ASSUME NEW c \in Calls, ManagerDecides(c) \/ RefusalDecides(c)
        PROVE  status'[r] = "APPROVED"
    BY <1>1, <2>1 DEF ManagerDecides, RefusalDecides, Decide, StatusRead, TypeOK
  <2>2. ASSUME NEW c \in Calls, NEW q \in Requests, RequestLeave(c, q)
        PROVE  status'[r] = "APPROVED"
    BY <1>1, <2>2 DEF RequestLeave, TypeOK
  <2>3. ASSUME NEW c \in Calls, FinalizeUpdate(c)
        PROVE  status'[r] = "APPROVED"
    BY <1>1, <2>3 DEF FinalizeUpdate, TypeOK
  <2>4. CASE UNCHANGED status
    BY <1>1, <2>4
  <2> QED
    BY <1>1, <2>1, <2>2, <2>3, <2>4
       DEF Next, Start, Continue, vars, ApproveLeave, RefuseLeave, ApproveLeaveHr,
           CorrectLeaveBalance, PublishRequested, PublishRefused, PublishApproved,
           PublishManagerApproved, Publish, FinalizeRead, FinalizeAppend, Fail, NextPeriod
<1>2. TypeOK /\ [Next]_vars =>
        [\A r \in Requests :
           live /\ status[r] = "APPROVED" => status'[r] = "APPROVED"]_vars
  BY <1>1
<1> QED BY <1>2, TypeCorrect, PTL DEF Spec, ApprovalFinal

(* The abstract decision moves at one request at a time. *)
LEMMA DecisionMoves ==
  ASSUME TypeOK, NEW q \in Requests, UNCHANGED terms,
         \A r \in Requests \ {q} : Rows(r)' = Rows(r) /\ status'[r] = status[r]
  PROVE  Decision' = [Decision EXCEPT ![q] = DecisionOn(q)']
<1>1. \A r \in Requests \ {q} : DecisionOn(r)' = DecisionOn(r)
  BY DEF DecisionOn
<1>2. \A r \in Requests : Decision'[r] = DecisionOn(r)' /\ Decision[r] = DecisionOn(r)
  BY DEF Decision
<1> QED BY <1>1, <1>2 DEF Decision

-----------------------------------------------------------------------------
(* The handlers on their way to a deduction of r, and those that wrote one *)
(* and have not marked the request yet.                                    *)
Charging(r) == {c \in Calls : call[c].pc \in {"mgrDone", "finRead", "finAppend"} /\ call[c].req = r}
Marking(r) == {c \in Calls : call[c].pc = "finUpdate" /\ call[c].req = r}

(* In memory each row of an open request belongs to a handler that is to   *)
(* mark it; once it is marked nobody starts, and the rows grow by those of *)
(* the handlers that were on their way.                                    *)
Room(r) ==
  live => IF status[r] = "APPROVED"
            THEN Cardinality(Rows(r)) + Cardinality(Charging(r)) <= Cardinality(Calls)
            ELSE Cardinality(Rows(r)) <= Cardinality(Marking(r))

(* In memory an approval on its way was refused by another handler. *)
Overtakes(c) ==
  /\ call[c].pc # "idle" => status[call[c].req] # "NONE"
  /\ /\ live /\ status[call[c].req] = "REFUSED"
     /\ call[c].pc \in {"mgrDone", "finRead", "finAppend", "finUpdate"}
     => Cardinality(Calls) > 1

OverlapInv ==
  /\ \A r \in Requests : Room(r)
  /\ \A c \in Calls : Overtakes(c)

LEMMA CallsCount ==
  ASSUME NEW S \in SUBSET Calls
  PROVE  IsFiniteSet(S) /\ Cardinality(S) \in Nat /\ Cardinality(S) <= Cardinality(Calls)
         /\ Cardinality(Calls) \in Nat
  BY LeaveAssumption, FS_Subset, FS_CardinalityType

LEMMA TwoCalls ==
  ASSUME NEW c \in Calls, NEW d \in Calls, c # d
  PROVE  Cardinality(Calls) > 1
<1>1. PICK one : one = {c}
  OBVIOUS
<1>2. IsFiniteSet(one) /\ Cardinality(one) = 1
  BY <1>1, FS_Singleton
<1>3. Cardinality(one \cup {d}) = Cardinality(one) + 1
  BY <1>1, <1>2, FS_AddElement
<1>4. Cardinality(one \cup {d}) <= Cardinality(Calls) /\ Cardinality(Calls) \in Nat
  <2>1. one \cup {d} \in SUBSET Calls
    BY <1>1
  <2> QED BY <2>1, CallsCount
<1> QED BY <1>2, <1>3, <1>4

LEMMA RowsCount ==
  ASSUME TypeOK, NEW r
  PROVE  IsFiniteSet(Rows(r)) /\ Cardinality(Rows(r)) \in Nat
<1>1. ledger \in Seq(Entry) /\ DOMAIN ledger = 1 .. Len(ledger) /\ Len(ledger) \in Nat
  BY DEF TypeOK
<1>2. IsFiniteSet(1 .. Len(ledger))
  BY <1>1, FS_Interval
<1>3. Rows(r) \subseteq 1 .. Len(ledger)
  BY <1>1 DEF Rows
<1> QED BY <1>2, <1>3, FS_Subset, FS_CardinalityType

(* A deduction is one more row of its request and of no other. *)
LEMMA DeductionRows ==
  ASSUME TypeOK, NEW c \in Calls, FinalizeAppend(c)
  PROVE  \E q \in Requests :
           /\ q = call[c].req
           /\ Len(ledger) + 1 \notin Rows(q) /\ Rows(q)' = Rows(q) \cup {Len(ledger) + 1}
           /\ \A r \in Requests : Len(ledger) + 1 \notin Rows(r)
           /\ \A r \in Requests \ {q} : Rows(r)' = Rows(r)
<1>1. PICK q \in Requests : q = call[c].req
  BY DEF FinalizeAppend, TypeOK
<1>2. PICK x \in Entry : ledger' = Append(ledger, x) /\ x.ref = q
  BY <1>1, TakenTyped DEF FinalizeAppend, TypeOK, Taken
<1>3. ledger \in Seq(Entry)
  BY DEF TypeOK
<1>4. \A r : Rows(r)' = Rows(r) \cup (IF x.ref = r THEN {Len(ledger) + 1} ELSE {})
  BY <1>2, <1>3, AppendRow
<1>5. \A r \in Requests : Len(ledger) + 1 \notin Rows(r)
  BY <1>2, <1>3, AppendRow DEF Rows
<1> QED BY <1>1, <1>2, <1>4, <1>5

(* What keeps Room(r) while the rows of r stay: the handlers that marked   *)
(* or were on their way at most leave, or one marks the request.           *)
LEMMA RoomStays ==
  ASSUME TypeOK, NEW r \in Requests, Room(r), Rows(r)' = Rows(r), live' = live,
         live => \/ /\ status[r] # "APPROVED" /\ status'[r] # "APPROVED"
                    /\ Marking(r) \subseteq Marking(r)'
                 \/ /\ status[r] = "APPROVED" /\ status'[r] = "APPROVED"
                    /\ Charging(r)' \subseteq Charging(r)
                 \/ /\ status[r] # "APPROVED" /\ status'[r] = "APPROVED"
                    /\ Marking(r) \cap Charging(r)' = {}
  PROVE  Room(r)'
<1>1. PICK old, oldc, new, newc :
        old = Marking(r) /\ oldc = Charging(r) /\ new = Marking(r)' /\ newc = Charging(r)'
  OBVIOUS
<1>2. old \in SUBSET Calls /\ oldc \in SUBSET Calls /\ new \in SUBSET Calls /\ newc \in SUBSET Calls
  BY <1>1 DEF Marking, Charging
<1>3. PICK n \in Nat : n = Cardinality(Rows(r))
  BY RowsCount
<1>4. SUFFICES ASSUME live
               PROVE  IF status'[r] = "APPROVED"
                        THEN n + Cardinality(newc) <= Cardinality(Calls)
                        ELSE n <= Cardinality(new)
  BY <1>1, <1>3 DEF Room
<1>5. IF status[r] = "APPROVED" THEN n + Cardinality(oldc) <= Cardinality(Calls)
                                ELSE n <= Cardinality(old)
  BY <1>1, <1>3, <1>4 DEF Room
<1>6. /\ IsFiniteSet(old) /\ IsFiniteSet(oldc) /\ IsFiniteSet(new) /\ IsFiniteSet(newc)
      /\ Cardinality(old) \in Nat /\ Cardinality(oldc) \in Nat
      /\ Cardinality(new) \in Nat /\ Cardinality(newc) \in Nat /\ Cardinality(Calls) \in Nat
  BY <1>2, CallsCount
<1>7. CASE status[r] # "APPROVED" /\ status'[r] # "APPROVED" /\ old \subseteq new
  <2>1. Cardinality(old) <= Cardinality(new)
    BY <1>6, <1>7, FS_Subset
  <2> QED BY <1>5, <1>6, <1>7, <2>1
<1>8. CASE status[r] = "APPROVED" /\ status'[r] = "APPROVED" /\ newc \subseteq oldc
  <2>1. Cardinality(newc) <= Cardinality(oldc)
    BY <1>6, <1>8, FS_Subset
  <2> QED BY <1>5, <1>6, <1>8, <2>1
<1>9. CASE status[r] # "APPROVED" /\ status'[r] = "APPROVED" /\ old \cap newc = {}
  <2>1. Cardinality(old \cup newc) = Cardinality(old) + Cardinality(newc) - Cardinality(old \cap newc)
    BY <1>6, FS_Union
  <2>2. Cardinality(old \cap newc) = 0
    BY <1>9, FS_EmptySet
  <2>3. Cardinality(old \cup newc) <= Cardinality(Calls)
    BY <1>2, CallsCount
  <2> QED BY <1>5, <1>6, <1>9, <2>1, <2>2, <2>3
<1> QED BY <1>1, <1>4, <1>7, <1>8, <1>9

(* The same when c writes a row of r. *)
LEMMA RoomGrows ==
  ASSUME TypeOK, NEW c \in Calls, FinalizeAppend(c), NEW r \in Requests,
         r = call[c].req, Room(r)
  PROVE  /\ Room(r)'
         /\ live => Cardinality(Rows(r)) < Cardinality(Calls)
<1>1. /\ Len(ledger) + 1 \notin Rows(r) /\ Rows(r)' = Rows(r) \cup {Len(ledger) + 1}
      /\ IsFiniteSet(Rows(r)) /\ Cardinality(Rows(r)) \in Nat
  BY DeductionRows, RowsCount
<1>2. PICK n \in Nat : n = Cardinality(Rows(r)) /\ Cardinality(Rows(r)') = n + 1
  BY <1>1, FS_AddElement
<1>3. PICK old, oldc, new, newc :
        old = Marking(r) /\ oldc = Charging(r) /\ new = Marking(r)' /\ newc = Charging(r)'
  OBVIOUS
<1>4. /\ old \in SUBSET Calls /\ oldc \in SUBSET Calls
      /\ c \in oldc /\ c \notin old
      /\ new = old \cup {c} /\ newc = oldc \ {c}
  <2>1. /\ call[c].pc = "finAppend" /\ call'[c].pc = "finUpdate" /\ call'[c].req = r
        /\ \A d \in Calls \ {c} : call'[d] = call[d]
    BY SlotMoves DEF FinalizeAppend
  <2>2. old \in SUBSET Calls /\ oldc \in SUBSET Calls /\ c \in oldc /\ c \notin old
    BY <1>3, <2>1 DEF Marking, Charging
  <2>3. new = old \cup {c}
    BY <1>3, <2>1 DEF Marking
  <2>4. newc = oldc \ {c}
    BY <1>3, <2>1 DEF Charging
  <2> QED BY <2>2, <2>3, <2>4
<1>5. /\ IsFiniteSet(old) /\ IsFiniteSet(oldc)
      /\ Cardinality(old) \in Nat /\ Cardinality(oldc) \in Nat /\ Cardinality(Calls) \in Nat
  BY <1>4, CallsCount
<1>6. Cardinality(new) = Cardinality(old) + 1 /\ Cardinality(newc) = Cardinality(oldc) - 1
  BY <1>4, <1>5, FS_AddElement, FS_RemoveElement
<1>7. Cardinality(new) <= Cardinality(Calls) /\ Cardinality(newc) \in Nat
  <2>1. new \in SUBSET Calls /\ newc \in SUBSET Calls
    BY <1>4
  <2> QED BY <2>1, CallsCount
<1>8. status' = status /\ live' = live
  BY DEF FinalizeAppend
<1>9. live => IF status[r] = "APPROVED" THEN n + Cardinality(oldc) <= Cardinality(Calls)
                                        ELSE n <= Cardinality(old)
  BY <1>2, <1>3 DEF Room
<1>10. live => IF status[r] = "APPROVED" THEN n + 1 + Cardinality(newc) <= Cardinality(Calls)
                                         ELSE n + 1 <= Cardinality(new)
  BY <1>5, <1>6, <1>9
<1>11. Room(r)'
  BY <1>2, <1>3, <1>8, <1>10 DEF Room
<1>12. live => n < Cardinality(Calls)
  BY <1>5, <1>6, <1>7, <1>9
<1> QED BY <1>2, <1>11, <1>12

LEMMA OverlapInductive == Spec => []OverlapInv
<1>1. Init => OverlapInv
  <2> SUFFICES ASSUME Init PROVE OverlapInv
    OBVIOUS
  <2>1. \A c \in Calls : Overtakes(c)
    BY DEF Init, Overtakes, Idle
  <2>2. ASSUME NEW r \in Requests PROVE Room(r)
    <3>1. Rows(r) = {} /\ Marking(r) = {} /\ status[r] # "APPROVED"
      BY DEF Init, Rows, Marking, Idle
    <3>2. Cardinality(Rows(r)) = 0 /\ Cardinality(Marking(r)) = 0
      BY <3>1, FS_EmptySet
    <3> QED BY <3>1, <3>2 DEF Room
  <2> QED BY <2>1, <2>2 DEF OverlapInv
<1>2. TypeOK /\ DeductionInv /\ OverlapInv /\ [Next]_vars => OverlapInv'
  <2> SUFFICES ASSUME TypeOK, DeductionInv, OverlapInv, [Next]_vars PROVE OverlapInv'
    OBVIOUS
  <2>0. \A r \in Requests : Room(r)
    BY DEF OverlapInv
  <2>00. \A c \in Calls : Overtakes(c)
    BY DEF OverlapInv
  <2>1. ASSUME NEW c \in Calls, NEW r \in Requests, RequestLeave(c, r)
        PROVE  OverlapInv'
    <3>1. /\ UNCHANGED <<live, terms, ledger>> /\ status[r] = "NONE"
          /\ status' = [status EXCEPT ![r] = "REQUESTED"]
          /\ call[c].pc = "idle" /\ call'[c].pc = "requested" /\ call'[c].req = r
          /\ \A d \in Calls \ {c} : call'[d] = call[d]
      BY <2>1 DEF RequestLeave, TypeOK, Idle
    <3>2. ASSUME NEW q \in Requests PROVE Room(q)'
      <4>1. Marking(q)' = Marking(q) /\ Charging(q)' = Charging(q)
        BY <3>1 DEF Marking, Charging
      <4>2. \/ status'[q] # "APPROVED" /\ status[q] # "APPROVED"
            \/ status'[q] = "APPROVED" /\ status[q] = "APPROVED"
        BY <3>1 DEF TypeOK
      <4> QED BY <2>0, <3>1, <4>1, <4>2, DeductionFrame, RoomStays
    <3>3. \A d \in Calls : Overtakes(d)'
      BY <2>00, <3>1 DEF Overtakes, TypeOK
    <3> QED BY <3>2, <3>3 DEF OverlapInv
  <2>2. ASSUME NEW c \in Calls, NEW r \in Requests, NEW stage \in {"mgrCheck", "refCheck", "finRead"},
               Begin(c, stage, r), status[r] # "NONE",
               stage = "finRead" => status[r] = "MANAGER_APPROVED",
               UNCHANGED <<live, today, terms, status, ledger, announced>>
        PROVE  OverlapInv'
    <3>1. /\ call[c].pc = "idle" /\ call'[c].pc = stage /\ call'[c].req = r
          /\ \A d \in Calls \ {c} : call'[d] = call[d]
      BY <2>2 DEF Begin, TypeOK, Idle
    <3>2. ASSUME NEW q \in Requests PROVE Room(q)'
      <4>1. Marking(q) \subseteq Marking(q)'
        BY <3>1 DEF Marking
      <4>2. status[q] = "APPROVED" => Charging(q)' \subseteq Charging(q)
        BY <2>2, <3>1 DEF Charging
      <4>3. Rows(q)' = Rows(q) /\ live' = live /\ status' = status
        BY <2>2, DeductionFrame
      <4> QED BY <2>0, <4>1, <4>2, <4>3, RoomStays
    <3>3. \A d \in Calls : Overtakes(d)'
      BY <2>00, <2>2, <3>1 DEF Overtakes
    <3> QED BY <3>2, <3>3 DEF OverlapInv
  <2>3. ASSUME NEW c \in Calls, NEW e \in Employments, NEW t \in Types,
               NEW p \in Periods, NEW d \in Corrections,
               CorrectLeaveBalance(c, e, t, p, d)
        PROVE  OverlapInv'
    <3>1. UNCHANGED <<live, status, call>> /\ \A q \in Requests : Rows(q)' = Rows(q)
      BY <2>3, CorrectionRows DEF CorrectLeaveBalance
    <3>2. ASSUME NEW q \in Requests PROVE Room(q)'
      <4>1. Marking(q)' = Marking(q) /\ Charging(q)' = Charging(q)
        BY <3>1 DEF Marking, Charging
      <4> QED BY <2>0, <3>1, <4>1, RoomStays
    <3>3. \A i \in Calls : Overtakes(i)'
      BY <2>00, <3>1 DEF Overtakes
    <3> QED BY <3>2, <3>3 DEF OverlapInv
  <2>4. ASSUME NEW c \in Calls, ManagerDecides(c) \/ RefusalDecides(c)
        PROVE  OverlapInv'
    <3>0. PICK q \in Requests : q = call[c].req
      BY <2>4 DEF ManagerDecides, RefusalDecides, Decide, TypeOK
    <3>1. UNCHANGED <<live, terms, ledger>> /\ call[c].pc \in {"mgrCheck", "refCheck"}
      BY <2>4 DEF ManagerDecides, RefusalDecides, Decide
    <3>2. \/ /\ live => status[q] # "APPROVED"
             /\ \/ /\ call[c].pc = "mgrCheck" /\ Goto(c, "mgrDone")
                   /\ status' = [status EXCEPT ![q] = "MANAGER_APPROVED"]
                \/ /\ call[c].pc = "refCheck" /\ Goto(c, "refDone")
                   /\ status' = [status EXCEPT ![q] = "REFUSED"]
          \/ Return(c) /\ UNCHANGED status
      BY <2>4, <3>0 DEF ManagerDecides, RefusalDecides, Decide, StatusRead
    <3>3. ASSUME NEW r \in Requests PROVE Room(r)'
      <4>1. Marking(r) \subseteq Marking(r)'
        BY <3>1, <3>2, SlotMoves DEF Marking
      <4>2. live /\ status[r] = "APPROVED" => Charging(r)' \subseteq Charging(r)
        BY <3>0, <3>1, <3>2, SlotMoves DEF Charging
      <4>3. live => \/ status'[r] # "APPROVED" /\ status[r] # "APPROVED"
                    \/ status'[r] = "APPROVED" /\ status[r] = "APPROVED"
        BY <3>2 DEF TypeOK
      <4>4. Rows(r)' = Rows(r) /\ live' = live
        BY <3>1, DeductionFrame
      <4> QED BY <2>0, <4>1, <4>2, <4>3, <4>4, RoomStays
    <3>4. ASSUME NEW d \in Calls PROVE Overtakes(d)'
      <4>1. CASE d = c
        BY <2>00, <3>0, <3>1, <3>2, <4>1, SlotMoves DEF Overtakes, TypeOK
      <4>2. CASE d # c
        <5>1. Cardinality(Calls) > 1
          BY <4>2, TwoCalls
        <5>2. call'[d] = call[d] /\ (call[d].pc # "idle" => status'[call[d].req] # "NONE")
          BY <2>00, <3>2, <4>2, SlotMoves DEF Overtakes, TypeOK
        <5> QED BY <5>1, <5>2 DEF Overtakes
      <4> QED BY <4>1, <4>2
    <3> QED BY <3>3, <3>4 DEF OverlapInv
  <2>5. ASSUME NEW c \in Calls,
               \/ PublishRequested(c) \/ PublishRefused(c)
               \/ PublishApproved(c) \/ PublishManagerApproved(c) \/ FinalizeRead(c)
        PROVE  OverlapInv'
    <3>1. /\ \/ Return(c)
             \/ Goto(c, "finRead") /\ call[c].pc = "mgrDone"
             \/ Goto(c, "finAppend") /\ call[c].pc = "finRead"
             \/ Goto(c, "finUpdate") /\ call[c].pc = "finRead"
          /\ call[c].pc # "finUpdate"
          /\ UNCHANGED <<live, terms, status, ledger>>
      BY <2>5 DEF PublishRequested, PublishRefused, PublishApproved,
                  PublishManagerApproved, Publish, FinalizeRead
    <3>2. ASSUME NEW r \in Requests PROVE Room(r)'
      <4>1. Marking(r) \subseteq Marking(r)' /\ Charging(r)' \subseteq Charging(r)
        BY <3>1, SlotMoves DEF Marking, Charging
      <4>2. Rows(r)' = Rows(r) /\ live' = live /\ status' = status
        BY <3>1, DeductionFrame
      <4> QED BY <2>0, <4>1, <4>2, RoomStays
    <3>3. \A d \in Calls : Overtakes(d)'
      BY <2>00, <3>1, SlotMoves DEF Overtakes
    <3> QED BY <3>2, <3>3 DEF OverlapInv
  <2>6. ASSUME NEW c \in Calls, FinalizeAppend(c)
        PROVE  OverlapInv'
    <3>1. UNCHANGED <<live, status>> /\ call[c].pc = "finAppend" /\ Goto(c, "finUpdate")
      BY <2>6 DEF FinalizeAppend
    <3>2. ASSUME NEW r \in Requests, r # call[c].req PROVE Room(r)'
      <4>1. Marking(r) \subseteq Marking(r)' /\ Charging(r)' \subseteq Charging(r)
        BY <3>1, <3>2, SlotMoves DEF Marking, Charging
      <4>2. Rows(r)' = Rows(r)
        BY <2>6, <3>2, DeductionRows
      <4> QED BY <2>0, <3>1, <4>1, <4>2, RoomStays
    <3>3. \A r \in Requests : r = call[c].req => Room(r)'
      BY <2>0, <2>6, RoomGrows
    <3>4. \A d \in Calls : Overtakes(d)'
      BY <2>00, <3>1, SlotMoves DEF Overtakes
    <3> QED BY <3>2, <3>3, <3>4 DEF OverlapInv
  <2>7. ASSUME NEW c \in Calls, FinalizeUpdate(c)
        PROVE  OverlapInv'
    <3>0. PICK q \in Requests : q = call[c].req
      BY <2>7 DEF FinalizeUpdate, TypeOK
    <3>1. /\ UNCHANGED <<live, terms, ledger>> /\ status' = [status EXCEPT ![q] = "APPROVED"]
          /\ call[c].pc = "finUpdate" /\ Goto(c, "finDone")
      BY <2>7, <3>0 DEF FinalizeUpdate
    <3>2. ASSUME NEW r \in Requests PROVE Room(r)'
      <4>1. Rows(r)' = Rows(r) /\ live' = live
        BY <3>1, DeductionFrame
      <4>2. Charging(r)' \subseteq Charging(r) /\ Marking(r) \cap Charging(r)' = {}
        BY <3>1, SlotMoves DEF Charging, Marking
      <4>3. r # q => Marking(r) \subseteq Marking(r)' /\ status'[r] = status[r]
        BY <3>0, <3>1, SlotMoves DEF Marking, TypeOK
      <4>4. status'[q] = "APPROVED"
        BY <3>1 DEF TypeOK
      <4> QED BY <2>0, <4>1, <4>2, <4>3, <4>4, RoomStays
    <3>3. \A d \in Calls : Overtakes(d)'
      BY <2>00, <3>1, SlotMoves DEF Overtakes, TypeOK
    <3> QED BY <3>2, <3>3 DEF OverlapInv
  <2>8. ASSUME NEW c \in Calls, Fail(c)
        PROVE  OverlapInv'
    <3>1. ~live /\ UNCHANGED <<live, status, ledger, terms>> /\ Return(c)
      BY <2>8 DEF Fail
    <3>2. \A r \in Requests : Room(r)'
      BY <3>1 DEF Room
    <3>3. \A d \in Calls : Overtakes(d)'
      BY <2>00, <3>1, SlotMoves DEF Overtakes
    <3> QED BY <3>2, <3>3 DEF OverlapInv
  <2>9. CASE NextPeriod \/ UNCHANGED vars
    <3>1. UNCHANGED <<live, terms, status, ledger, call>>
      BY <2>9 DEF NextPeriod, vars
    <3>2. ASSUME NEW r \in Requests PROVE Room(r)'
      <4>1. /\ Marking(r)' = Marking(r) /\ Charging(r)' = Charging(r)
            /\ Rows(r)' = Rows(r)
        BY <3>1, DeductionFrame DEF Marking, Charging
      <4> QED BY <2>0, <3>1, <4>1, RoomStays
    <3>3. \A d \in Calls : Overtakes(d)'
      BY <2>00, <3>1 DEF Overtakes
    <3> QED BY <3>2, <3>3 DEF OverlapInv
  <2> QED
    BY <2>1, <2>2, <2>3, <2>4, <2>5, <2>6, <2>7, <2>8, <2>9
       DEF Next, Start, Continue, ApproveLeave, RefuseLeave, ApproveLeaveHr
<1> QED BY <1>1, <1>2, TypeCorrect, DeductionInductive, PTL DEF Spec

LEMMA SameCount == \A S : Promise!Cardinality(S) = Cardinality(S)
  BY DEF Cardinality, Promise!Cardinality

(* The workflow implements LeavePromise over either store and for any      *)
(* number of handlers (approveLeave, approveLeaveHr, refuseLeave,          *)
(* _finalizeLeave): a request is charged in the step that decides it, and  *)
(* in memory as often as handlers can be in flight at most, because a      *)
(* handler that starts once the request is marked is turned away.          *)
THEOREM PromiseIsKept == Spec => KeepsPromise
<1> DEFINE counted == {r \in Requests : IsDecremented(r)}
           charge == [r \in Requests |-> Rows(r)]
<1>1. Init => Promise!Init
  <2>1. Stores \subseteq BOOLEAN
    BY LeaveAssumption
  <2> QED BY <2>1 DEF Init, Promise!Init, Decision, DecisionOn, Rows
<1>2. TypeOK /\ DeductionInv /\ OverlapInv /\ [Next]_vars => [Promise!Next]_(Promise!vars)
  <2> SUFFICES ASSUME TypeOK, DeductionInv, OverlapInv, [Next]_vars
               PROVE  Promise!Next \/ UNCHANGED Promise!vars
    OBVIOUS
  <2>1. ASSUME NEW c \in Calls, NEW r \in Requests, RequestLeave(c, r)
        PROVE  Promise!File(r)
    <3>1. Rows(r) = {} /\ status[r] = "NONE" /\ status' = [status EXCEPT ![r] = "REQUESTED"]
      BY <2>1 DEF RequestLeave, DeductionInv, RequestInv
    <3>2. UNCHANGED <<live, terms, ledger>>
      BY <2>1 DEF RequestLeave
    <3>3. counted' = counted /\ charge' = charge
      BY <3>2, DeductionFrame
    <3>4. Decision[r] = "none" /\ Decision' = [Decision EXCEPT ![r] = "open"]
      <4>1. DecisionOn(r) = "none" /\ DecisionOn(r)' = "open"
        BY <3>1, <3>2, DeductionFrame DEF DecisionOn, TypeOK
      <4>2. \A q \in Requests \ {r} : Rows(q)' = Rows(q) /\ status'[q] = status[q]
        BY <3>1, <3>2, DeductionFrame DEF TypeOK
      <4> QED BY <3>2, <4>1, <4>2, DecisionMoves DEF Decision
    <3> QED BY <3>2, <3>3, <3>4 DEF Promise!File
  <2>2. ASSUME UNCHANGED <<live, terms, ledger, status>>
        PROVE  UNCHANGED Promise!vars
    BY <2>2, DeductionFrame DEF Promise!vars, Decision, DecisionOn
  <2>3. ASSUME NEW c \in Calls, NEW e \in Employments, NEW t \in Types,
               NEW p \in Periods, NEW d \in Corrections,
               CorrectLeaveBalance(c, e, t, p, d)
        PROVE  UNCHANGED Promise!vars
    <3>1. \A r \in Requests : Rows(r)' = Rows(r)
      BY <2>3, CorrectionRows
    <3>2. UNCHANGED <<live, terms, status>>
      BY <2>3 DEF CorrectLeaveBalance
    <3> QED BY <3>1, <3>2 DEF Promise!vars, Decision, DecisionOn, IsDecremented
  <2>4. ASSUME NEW c \in Calls, ManagerDecides(c) \/ RefusalDecides(c)
        PROVE  Promise!Next \/ UNCHANGED Promise!vars
    <3>0. PICK q \in Requests : q = call[c].req
      BY <2>4 DEF ManagerDecides, RefusalDecides, Decide, TypeOK
    <3>1. UNCHANGED <<live, terms, ledger>> /\ call[c].pc # "idle"
      BY <2>4 DEF ManagerDecides, RefusalDecides, Decide
    <3>2. CASE UNCHANGED status
      BY <3>1, <3>2, <2>2
    <3>3. ASSUME NEW to \in {"MANAGER_APPROVED", "REFUSED"},
                 status' = [status EXCEPT ![q] = to],
                 live => \/ status[q] = "REQUESTED"
                         \/ to = "REFUSED" /\ status[q] = "MANAGER_APPROVED"
          PROVE  Promise!Next \/ UNCHANGED Promise!vars
      <4>1. status[q] # "NONE" /\ (Rows(q) # {} => status[q] # "REQUESTED")
        BY <3>0, <3>1 DEF OverlapInv, Overtakes, DeductionInv, RequestInv
      <4>2. Rows(q)' = Rows(q) /\ \A r \in Requests \ {q} : Rows(r)' = Rows(r) /\ status'[r] = status[r]
        BY <3>1, <3>3, DeductionFrame DEF TypeOK
      <4>3. counted' = counted /\ charge' = charge /\ status'[q] = to
        BY <3>1, <3>3, DeductionFrame DEF TypeOK
      <4>4. Decision' = [Decision EXCEPT ![q] = DecisionOn(q)']
        BY <3>1, <4>2, DecisionMoves
      <4>5. CASE Rows(q) # {}
        <5>1. DecisionOn(q) = "approved" /\ DecisionOn(q)' = "approved"
          BY <4>1, <4>2, <4>3, <4>5 DEF DecisionOn
        <5>2. Decision' = Decision
          BY <4>4, <5>1 DEF Decision
        <5> QED BY <3>1, <4>3, <5>2 DEF Promise!vars
      <4>6. CASE Rows(q) = {} /\ ~live
        <5>1. DecisionOn(q) # "none" /\ DecisionOn(q)' \in {"open", "refused"}
          BY <4>1, <4>2, <4>3, <4>6 DEF DecisionOn
        <5>2. Decision[q] # "none" /\ charge[q] = {}
          BY <4>6, <5>1 DEF Decision
        <5> QED BY <3>1, <4>3, <4>4, <4>6, <5>1, <5>2 DEF Promise!Next, Promise!Overwrite
      <4>7. CASE Rows(q) = {} /\ live /\ to = "MANAGER_APPROVED"
        <5>1. DecisionOn(q) = "open" /\ DecisionOn(q)' = "open"
          BY <3>3, <4>2, <4>3, <4>7 DEF DecisionOn
        <5>2. Decision' = Decision
          BY <4>4, <5>1 DEF Decision
        <5> QED BY <3>1, <4>3, <5>2 DEF Promise!vars
      <4>8. CASE Rows(q) = {} /\ live /\ to = "REFUSED"
        <5>1. DecisionOn(q) = "open" /\ DecisionOn(q)' = "refused"
          BY <3>3, <4>2, <4>3, <4>8 DEF DecisionOn
        <5>2. Decision[q] = "open"
          BY <5>1 DEF Decision
        <5> QED BY <3>1, <4>3, <4>4, <5>1, <5>2 DEF Promise!Next, Promise!Refuse
      <4>9. live \in BOOLEAN
        BY DEF TypeOK
      <4> QED BY <4>5, <4>6, <4>7, <4>8, <4>9
    <3>4. \/ UNCHANGED status
          \/ \E to \in {"MANAGER_APPROVED", "REFUSED"} :
               /\ status' = [status EXCEPT ![q] = to]
               /\ live => \/ status[q] = "REQUESTED"
                          \/ to = "REFUSED" /\ status[q] = "MANAGER_APPROVED"
      BY <2>4, <3>0 DEF ManagerDecides, RefusalDecides, Decide, StatusRead
    <3> QED BY <3>2, <3>3, <3>4
  <2>5. ASSUME NEW c \in Calls, FinalizeAppend(c)
        PROVE  Promise!Next
    <3>1. PICK q \in Requests :
            /\ q = call[c].req
            /\ Rows(q)' = Rows(q) \cup {Len(ledger) + 1}
            /\ \A r \in Requests : Len(ledger) + 1 \notin Rows(r)
            /\ \A r \in Requests \ {q} : Rows(r)' = Rows(r)
      BY <2>5, DeductionRows
    <3>2. /\ UNCHANGED <<live, terms, status>> /\ IsDecremented(q) /\ status[q] # "NONE"
          /\ call[c].pc = "finAppend"
      BY <2>5, <3>1 DEF FinalizeAppend, DeductionInv, CallInv, OverlapInv, Overtakes
    <3>3. counted' = counted /\ q \in counted
      BY <3>2 DEF IsDecremented
    <3>4. PICK entry : entry = Len(ledger) + 1
      OBVIOUS
    <3>5. Promise!Charge(q)
      <4>1. charge' = [charge EXCEPT ![q] = @ \cup {entry}]
        BY <3>1, <3>4
      <4>2. entry \in charge'[q] /\ \A r \in Requests : entry \notin charge[r]
        BY <3>1, <3>4
      <4> QED BY <4>1, <4>2 DEF Promise!Charge
    <3>6. Decision' = [Decision EXCEPT ![q] = DecisionOn(q)'] /\ DecisionOn(q)' = "approved"
      <4>1. Decision' = [Decision EXCEPT ![q] = DecisionOn(q)']
        BY <3>1, <3>2, DecisionMoves
      <4>2. DecisionOn(q)' = "approved"
        BY <3>1, <3>2 DEF DecisionOn
      <4> QED BY <4>1, <4>2
    <3>7. CASE Rows(q) = {}
      <4>1. status[q] # "APPROVED"
        BY <3>2, <3>7 DEF DeductionInv, RequestInv, Charged
      <4>2. DecisionOn(q) = "open" \/ (DecisionOn(q) = "refused" /\ status[q] = "REFUSED")
        BY <3>2, <3>7, <4>1 DEF DecisionOn
      <4>3. live /\ status[q] = "REFUSED" => Cardinality(Calls) > 1
        BY <3>1, <3>2 DEF OverlapInv, Overtakes
      <4>4. Decision[q] = "open" \/ (Decision[q] = "refused" /\ (Cardinality(Calls) > 1 \/ ~live))
        BY <4>2, <4>3 DEF Decision
      <4> QED BY <3>2, <3>3, <3>5, <3>6, <4>4 DEF Promise!Next, Promise!Approve
    <3>8. CASE Rows(q) # {}
      <4>1. DecisionOn(q) = "approved"
        BY <3>2, <3>8 DEF DecisionOn
      <4>2. Decision[q] = "approved" /\ Decision' = Decision
        BY <3>6, <4>1 DEF Decision
      <4>3. Cardinality(charge[q]) < Cardinality(Calls) \/ ~live
        BY <2>5, <3>1, RoomGrows DEF OverlapInv
      <4>4. UNCHANGED <<live, counted, Decision>>
        BY <3>2, <3>3, <4>2
      <4>5. Promise!ChargeAgain(q)
        <5> HIDE DEF counted, charge
        <5> QED BY <3>3, <3>5, <4>2, <4>3, <4>4, SameCount DEF Promise!ChargeAgain, counted, charge
      <4> QED BY <4>5 DEF Promise!Next
    <3> QED BY <3>7, <3>8
  <2>6. ASSUME NEW c \in Calls, FinalizeUpdate(c)
        PROVE  Promise!Next \/ UNCHANGED Promise!vars
    <3>0. PICK q \in Requests : q = call[c].req
      BY <2>6 DEF FinalizeUpdate, TypeOK
    <3>1. /\ UNCHANGED <<live, terms, ledger>> /\ call[c].pc = "finUpdate"
          /\ status' = [status EXCEPT ![q] = "APPROVED"]
      BY <2>6, <3>0 DEF FinalizeUpdate
    <3>2. /\ status[q] # "NONE" /\ (IsDecremented(q) => Rows(q) # {})
          /\ live /\ status[q] = "REFUSED" => Cardinality(Calls) > 1
      BY <3>0, <3>1 DEF DeductionInv, CallInv, Charged, OverlapInv, Overtakes
    <3>3. counted' = counted /\ charge' = charge /\ status'[q] = "APPROVED"
      BY <3>1, DeductionFrame DEF TypeOK
    <3>4. Rows(q)' = Rows(q) /\ \A r \in Requests \ {q} : Rows(r)' = Rows(r) /\ status'[r] = status[r]
      BY <3>1, DeductionFrame DEF TypeOK
    <3>5. Decision' = [Decision EXCEPT ![q] = DecisionOn(q)'] /\ DecisionOn(q)' = "approved"
      <4>1. Decision' = [Decision EXCEPT ![q] = DecisionOn(q)']
        BY <3>1, <3>4, DecisionMoves
      <4>2. DecisionOn(q)' = "approved"
        BY <3>3 DEF DecisionOn
      <4> QED BY <4>1, <4>2
    <3>6. CASE Rows(q) # {} \/ status[q] = "APPROVED"
      <4>1. DecisionOn(q) = "approved"
        BY <3>2, <3>6 DEF DecisionOn
      <4>2. Decision' = Decision
        BY <3>5, <4>1 DEF Decision
      <4> QED BY <3>1, <3>3, <4>2 DEF Promise!vars
    <3>7. CASE Rows(q) = {} /\ status[q] # "APPROVED"
      <4>1. DecisionOn(q) = "open" \/ (DecisionOn(q) = "refused" /\ status[q] = "REFUSED")
        BY <3>2, <3>7 DEF DecisionOn
      <4>2. Decision[q] = "open" \/ (Decision[q] = "refused" /\ (Cardinality(Calls) > 1 \/ ~live))
        BY <3>2, <4>1 DEF Decision
      <4>3. q \notin counted
        BY <3>2, <3>7
      <4> QED BY <3>1, <3>3, <3>5, <4>2, <4>3 DEF Promise!Next, Promise!Approve
    <3> QED BY <3>6, <3>7
  <2> QED
    BY <2>1, <2>2, <2>3, <2>4, <2>5, <2>6
       DEF Next, Start, Continue, vars, ApproveLeave, RefuseLeave, ApproveLeaveHr,
           PublishRequested, PublishRefused, PublishApproved, PublishManagerApproved,
           Publish, FinalizeRead, Fail, NextPeriod, Promise!Next
<1> QED
  BY <1>1, <1>2, TypeCorrect, DeductionInductive, OverlapInductive, PTL
     DEF Spec, KeepsPromise, Promise!Spec

-----------------------------------------------------------------------------
(* Sums of days: MapThenSumSet as it is defined, by choosing an element. *)
First(s) == CHOOSE x \in s : TRUE
IsSum(g, L, S) ==
  g = [s \in SUBSET S |-> IF s = {} THEN 0 ELSE L[First(s)].days + g[s \ {First(s)}]]
SumDays(L, S) == MapThenSumSet(LAMBDA i : L[i].days, S)

LEMMA SumIs ==
  ASSUME NEW L, NEW S
  PROVE  SumDays(L, S) = (CHOOSE g : IsSum(g, L, S))[S]
  BY DEF SumDays, MapThenSumSet, MapThenFoldSet, IsSum, First

LEMMA FirstIn == ASSUME NEW s, s # {} PROVE First(s) \in s
  BY DEF First

(* A finite set of a bad kind has a part of that kind no strict part of    *)
(* which is of it.                                                         *)
LEMMA LeastSet ==
  ASSUME NEW S, IsFiniteSet(S), NEW Bad, Bad \subseteq SUBSET S, Bad # {}
  PROVE  \E T \in Bad : IsFiniteSet(T) /\ \A U \in SUBSET T : U # T => U \notin Bad
<1> DEFINE R == StrictSubsetOrdering(S)
<1>1. IsWellFoundedOn(R, SUBSET S)
  BY FS_StrictSubsetOrderingWellFounded, FS_FiniteSubsetsOfFinite
<1> HIDE DEF R
<1>2. PICK T \in Bad : \A U \in Bad : ~(<<U, T>> \in R)
  BY <1>1, WFMin
<1>3. IsFiniteSet(T)
  BY FS_Subset
<1>4. ASSUME NEW U \in SUBSET T, U # T, U \in Bad PROVE FALSE
  <2>1. <<U, T>> \in R
    BY <1>4 DEF R, StrictSubsetOrdering
  <2> QED BY <1>2, <1>4, <2>1
<1> QED BY <1>2, <1>3, <1>4

(* Two such functions agree where both are defined. *)
LEMMA SumsAgree ==
  ASSUME NEW L, NEW S, NEW T, IsFiniteSet(S), T \subseteq S,
         NEW g, IsSum(g, L, S), NEW h, IsSum(h, L, T), NEW U, U \subseteq T
  PROVE  g[U] = h[U]
<1> DEFINE Bad == {s \in SUBSET T : g[s] # h[s]}
<1>1. SUFFICES ASSUME Bad # {} PROVE FALSE
  OBVIOUS
<1>2. PICK s \in Bad : \A u \in SUBSET s : u # s => u \notin Bad
  <2>1. IsFiniteSet(T) /\ Bad \subseteq SUBSET T
    BY FS_Subset
  <2> HIDE DEF Bad
  <2> QED BY <1>1, <2>1, LeastSet
<1>3. s \in SUBSET T /\ s \in SUBSET S /\ g[s] # h[s]
  BY <1>2
<1>4. g[s] = IF s = {} THEN 0 ELSE L[First(s)].days + g[s \ {First(s)}]
  BY <1>3 DEF IsSum
<1>5. h[s] = IF s = {} THEN 0 ELSE L[First(s)].days + h[s \ {First(s)}]
  BY <1>3 DEF IsSum
<1>6. s # {}
  BY <1>3, <1>4, <1>5
<1>7. g[s \ {First(s)}] = h[s \ {First(s)}]
  BY <1>2, <1>3, <1>6, FirstIn
<1> QED BY <1>3, <1>4, <1>5, <1>7

(* There is such a function on every finite set. *)
LEMMA SumExists ==
  ASSUME NEW L, NEW S, IsFiniteSet(S)
  PROVE  \E g : IsSum(g, L, S)
<1> DEFINE Bad == {s \in SUBSET S : ~\E g : IsSum(g, L, s)}
<1>1. SUFFICES ASSUME Bad # {} PROVE FALSE
  OBVIOUS
<1>2. PICK T \in Bad : IsFiniteSet(T) /\ \A u \in SUBSET T : u # T => u \notin Bad
  <2>1. Bad \subseteq SUBSET S
    OBVIOUS
  <2> HIDE DEF Bad
  <2> QED BY <1>1, <2>1, LeastSet
<1>3. T \subseteq S /\ ~\E g : IsSum(g, L, T)
  BY <1>2
<1> DEFINE g(t) == CHOOSE h : IsSum(h, L, t)
           val == [s \in SUBSET T |-> IF s = {} THEN 0
                     ELSE L[First(s)].days + g(s \ {First(s)})[s \ {First(s)}]]
<1>4. ASSUME NEW t \in SUBSET T, t # T PROVE IsSum(g(t), L, t)
  BY <1>2, <1>3, <1>4
<1> HIDE DEF g
<1>5. ASSUME NEW s \in SUBSET T, s # {}
      PROVE  val[s] = L[First(s)].days + val[s \ {First(s)}]
  <2> DEFINE u == s \ {First(s)}
             v == u \ {First(u)}
  <2>1. u \in SUBSET T /\ u # T /\ v \in SUBSET u /\ v # T /\ IsFiniteSet(u)
    BY <1>2, <1>5, FirstIn, FS_Subset
  <2>2. IsSum(g(u), L, u) /\ IsSum(g(v), L, v)
    BY <1>4, <2>1
  <2>3. g(u)[v] = g(v)[v]
    <3> HIDE DEF u, v
    <3> DEFINE gu == g(u)
               gv == g(v)
    <3>1. IsSum(gu, L, u) /\ IsSum(gv, L, v)
      BY <2>2
    <3> HIDE DEF gu, gv
    <3>2. gu[v] = gv[v]
      BY <2>1, <3>1, SumsAgree
    <3> QED BY <3>2 DEF gu, gv
  <2>4. g(u)[u] = IF u = {} THEN 0 ELSE L[First(u)].days + g(u)[v]
    BY <2>2 DEF IsSum
  <2>5. val[u] = IF u = {} THEN 0 ELSE L[First(u)].days + g(v)[v]
    BY <2>1
  <2>6. val[s] = L[First(s)].days + g(u)[u]
    BY <1>5
  <2> QED BY <2>3, <2>4, <2>5, <2>6
<1>6. val[{}] = 0
  OBVIOUS
<1>7. val = [s \in SUBSET T |-> IF s = {} THEN 0
               ELSE L[First(s)].days + val[s \ {First(s)}]]
  <2> DEFINE w == [s \in SUBSET T |-> IF s = {} THEN 0
                     ELSE L[First(s)].days + val[s \ {First(s)}]]
  <2>1. \A s \in SUBSET T : val[s] = w[s]
    <3> HIDE DEF val
    <3> QED BY <1>5, <1>6
  <2>2. val = [s \in SUBSET T |-> val[s]]
    OBVIOUS
  <2> HIDE DEF val
  <2> QED BY <2>1, <2>2
<1>8. IsSum(val, L, T)
  <2> HIDE DEF val
  <2> QED BY <1>7 DEF IsSum
<1> QED BY <1>3, <1>8

(* Nothing sums to nothing, and a sum is that of an element and the rest.  *)
LEMMA SumUnfolds ==
  ASSUME NEW L, NEW S, IsFiniteSet(S)
  PROVE  SumDays(L, S) = IF S = {} THEN 0
           ELSE L[First(S)].days + SumDays(L, S \ {First(S)})
<1> DEFINE U == S \ {First(S)}
           g(t) == CHOOSE h : IsSum(h, L, t)
<1>1. IsFiniteSet(U) /\ U \subseteq S
  BY FS_Subset
<1>2. IsSum(g(S), L, S) /\ IsSum(g(U), L, U)
  BY <1>1, SumExists
<1>3. SumDays(L, S) = g(S)[S] /\ SumDays(L, U) = g(U)[U]
  BY SumIs
<1>4. g(S)[S] = IF S = {} THEN 0 ELSE L[First(S)].days + g(S)[U]
  BY <1>2 DEF IsSum
<1>5. g(S)[U] = g(U)[U]
  <2> DEFINE gs == g(S)
             gu == g(U)
  <2>1. IsSum(gs, L, S) /\ IsSum(gu, L, U)
    BY <1>2
  <2> HIDE DEF gs, gu, U
  <2>2. gs[U] = gu[U]
    BY <1>1, <2>1, SumsAgree
  <2> QED BY <2>2 DEF gs, gu
<1> QED BY <1>3, <1>4, <1>5

LEMMA SumTyped ==
  ASSUME NEW L, NEW S, IsFiniteSet(S), \A i \in S : L[i].days \in Int
  PROVE  SumDays(L, S) \in Int
<1> DEFINE Bad == {s \in SUBSET S : SumDays(L, s) \notin Int}
<1>1. SUFFICES ASSUME Bad # {} PROVE FALSE
  OBVIOUS
<1>2. PICK T \in Bad : IsFiniteSet(T) /\ \A u \in SUBSET T : u # T => u \notin Bad
  <2>1. Bad \subseteq SUBSET S
    OBVIOUS
  <2> HIDE DEF Bad
  <2> QED BY <1>1, <2>1, LeastSet
<1>3. SumDays(L, T) = IF T = {} THEN 0 ELSE L[First(T)].days + SumDays(L, T \ {First(T)})
  BY <1>2, SumUnfolds
<1>4. CASE T = {}
  BY <1>2, <1>3, <1>4
<1>5. CASE T # {}
  <2>1. SumDays(L, T \ {First(T)}) \in Int /\ First(T) \in S
    BY <1>2, <1>5, FirstIn
  <2> QED BY <1>2, <1>3, <1>5, <2>1
<1> QED BY <1>4, <1>5

(* Any element may be taken out first. *)
LEMMA SumTakesOut ==
  ASSUME NEW L, NEW S, IsFiniteSet(S), \A i \in S : L[i].days \in Int, NEW y \in S
  PROVE  SumDays(L, S) = L[y].days + SumDays(L, S \ {y})
<1> DEFINE Out(s, z) == SumDays(L, s) = L[z].days + SumDays(L, s \ {z})
           Bad == {s \in SUBSET S : ~\A z \in s : Out(s, z)}
<1>1. SUFFICES ASSUME Bad # {} PROVE FALSE
  BY <1>1
<1>2. PICK T \in Bad : IsFiniteSet(T) /\ \A u \in SUBSET T : u # T => u \notin Bad
  <2>1. Bad \subseteq SUBSET S
    OBVIOUS
  <2> HIDE DEF Bad
  <2> QED BY <1>1, <2>1, LeastSet
<1>3. PICK z \in T : ~Out(T, z)
  BY <1>2
<1> DEFINE x == First(T)
           A == T \ {x}
           B == T \ {z}
           C == T \ {x, z}
<1>4. x \in T /\ T \subseteq S
  BY <1>2, <1>3, FirstIn
<1>5. SumDays(L, T) = L[x].days + SumDays(L, A)
  BY <1>2, <1>3, SumUnfolds
<1>6. x # z
  BY <1>3, <1>5
<1>7. Out(A, z) /\ A \ {z} = C
  BY <1>2, <1>3, <1>4, <1>6
<1>8. Out(B, x) /\ B \ {x} = C
  BY <1>2, <1>3, <1>4, <1>6
<1>9. SumDays(L, C) \in Int
  <2>1. IsFiniteSet(C) /\ C \subseteq S
    BY <1>2, <1>4, FS_Subset
  <2> QED BY <2>1, SumTyped
<1>10. L[x].days \in Int /\ L[z].days \in Int
  BY <1>3, <1>4
<1>11. /\ SumDays(L, A) = L[z].days + SumDays(L, C)
       /\ SumDays(L, B) = L[x].days + SumDays(L, C)
  BY <1>7, <1>8
<1>12. SumDays(L, T) = L[z].days + SumDays(L, B)
  <2> HIDE DEF A, B, C, x
  <2> QED BY <1>5, <1>9, <1>10, <1>11
<1> QED BY <1>3, <1>12

(* The sum is of the days of the rows that are in the set alone. *)
LEMMA SumDependsOn ==
  ASSUME NEW L, NEW M, NEW S, IsFiniteSet(S), \A i \in S : L[i].days = M[i].days
  PROVE  SumDays(L, S) = SumDays(M, S)
<1> DEFINE Bad == {s \in SUBSET S : SumDays(L, s) # SumDays(M, s)}
<1>1. SUFFICES ASSUME Bad # {} PROVE FALSE
  OBVIOUS
<1>2. PICK T \in Bad : IsFiniteSet(T) /\ \A u \in SUBSET T : u # T => u \notin Bad
  <2>1. Bad \subseteq SUBSET S
    OBVIOUS
  <2> HIDE DEF Bad
  <2> QED BY <1>1, <2>1, LeastSet
<1>3. /\ SumDays(L, T) = IF T = {} THEN 0 ELSE L[First(T)].days + SumDays(L, T \ {First(T)})
      /\ SumDays(M, T) = IF T = {} THEN 0 ELSE M[First(T)].days + SumDays(M, T \ {First(T)})
  BY <1>2, SumUnfolds
<1>4. T # {}
  BY <1>2, <1>3
<1>5. First(T) \in T /\ SumDays(L, T \ {First(T)}) = SumDays(M, T \ {First(T)})
  BY <1>2, <1>4, FirstIn
<1> QED BY <1>2, <1>3, <1>5

-----------------------------------------------------------------------------
(* The rows that are summed, and what one more row does to the sums. *)
InTime(e, t, p) == {i \in Movements("TAKEN", e, t, p) : ledger[i].made = p}
Credits(e, t, p) == {i \in Movements("CORRECTION", e, t, p) : ledger[i].days > 0}

LEMMA SumsAre ==
  ASSUME NEW e, NEW t, NEW p
  PROVE  /\ \A kind : Moved(kind, e, t, p) = SumDays(ledger, Movements(kind, e, t, p))
         /\ \A kind : Moved(kind, e, t, p)' = SumDays(ledger', Movements(kind, e, t, p)')
         /\ TakenInTime(e, t, p) = SumDays(ledger, InTime(e, t, p))
         /\ TakenInTime(e, t, p)' = SumDays(ledger', InTime(e, t, p)')
         /\ Credited(e, t, p) = SumDays(ledger, Credits(e, t, p))
         /\ Credited(e, t, p)' = SumDays(ledger', Credits(e, t, p)')
<1>1. ASSUME NEW kind
      PROVE  /\ Moved(kind, e, t, p) = SumDays(ledger, Movements(kind, e, t, p))
             /\ Moved(kind, e, t, p)' = SumDays(ledger', Movements(kind, e, t, p)')
  BY DEF Moved, Total, SumDays, MapThenSumSet, MapThenFoldSet
<1>2. TakenInTime(e, t, p) = SumDays(ledger, InTime(e, t, p))
  BY DEF TakenInTime, InTime, Total, SumDays, MapThenSumSet, MapThenFoldSet
<1>3. TakenInTime(e, t, p)' = SumDays(ledger', InTime(e, t, p)')
  BY DEF TakenInTime, InTime, Total, SumDays, MapThenSumSet, MapThenFoldSet
<1>4. Credited(e, t, p) = SumDays(ledger, Credits(e, t, p))
  BY DEF Credited, Credits, Total, SumDays, MapThenSumSet, MapThenFoldSet
<1>5. Credited(e, t, p)' = SumDays(ledger', Credits(e, t, p)')
  BY DEF Credited, Credits, Total, SumDays, MapThenSumSet, MapThenFoldSet
<1> QED BY <1>1, <1>2, <1>3, <1>4, <1>5

LEMMA RowsTyped ==
  ASSUME TypeOK, NEW S \in SUBSET DOMAIN ledger
  PROVE  IsFiniteSet(S) /\ (\A i \in S : ledger[i].days \in Int) /\ SumDays(ledger, S) \in Int
<1>1. ledger \in Seq(Entry) /\ DOMAIN ledger = 1 .. Len(ledger) /\ Len(ledger) \in Nat
  BY DEF TypeOK
<1>2. IsFiniteSet(S)
  <2>1. IsFiniteSet(1 .. Len(ledger))
    BY <1>1, FS_Interval
  <2> QED BY <1>1, <2>1, FS_Subset
<1>3. ASSUME NEW i \in S PROVE ledger[i].days \in Int
  <2>1. ledger[i] \in Entry
    BY <1>1
  <2> QED BY <2>1 DEF Entry
<1> QED BY <1>2, <1>3, SumTyped

(* One more row adds its days. *)
LEMMA SumGrows ==
  ASSUME NEW L, NEW M, NEW S, IsFiniteSet(S), \A i \in S : L[i].days \in Int,
         \A i \in S : M[i].days = L[i].days, NEW n, n \notin S, M[n].days \in Int
  PROVE  SumDays(M, S \cup {n}) = SumDays(L, S) + M[n].days
<1> DEFINE T == S \cup {n}
<1>1. IsFiniteSet(T) /\ n \in T /\ T \ {n} = S /\ \A i \in T : M[i].days \in Int
  BY FS_AddElement
<1>2. SumDays(L, S) = SumDays(M, S) /\ SumDays(L, S) \in Int
  BY SumDependsOn, SumTyped
<1> HIDE DEF T
<1>3. SumDays(M, T) = M[n].days + SumDays(M, S)
  BY <1>1, SumTakesOut
<1> QED BY <1>2, <1>3 DEF T

LEMMA RowAdds ==
  ASSUME TypeOK, NEW entry \in Entry, ledger' = Append(ledger, entry),
         NEW S \in SUBSET DOMAIN ledger, NEW T,
         T = S \/ T = S \cup {Len(ledger) + 1}
  PROVE  SumDays(ledger', T) =
           SumDays(ledger, S) + (IF Len(ledger) + 1 \in T THEN entry.days ELSE 0)
<1>1. /\ ledger \in Seq(Entry) /\ DOMAIN ledger = 1 .. Len(ledger) /\ Len(ledger) \in Nat
      /\ ledger'[Len(ledger) + 1] = entry
      /\ \A i \in DOMAIN ledger : ledger'[i] = ledger[i]
  BY DEF TypeOK
<1>2. PICK n, M : n = Len(ledger) + 1 /\ M = ledger'
  OBVIOUS
<1>3. /\ IsFiniteSet(S) /\ \A i \in S : ledger[i].days \in Int
      /\ SumDays(ledger, S) \in Int
  BY RowsTyped
<1>4. /\ n \notin S /\ M[n].days = entry.days /\ entry.days \in Int
      /\ \A i \in S : M[i].days = ledger[i].days
  BY <1>1, <1>2 DEF Entry
<1>5. CASE T = S
  <2>1. SumDays(M, S) = SumDays(ledger, S)
    BY <1>3, <1>4, SumDependsOn
  <2> QED BY <1>2, <1>3, <1>4, <1>5, <2>1
<1>6. CASE T = S \cup {n}
  <2>1. SumDays(M, S \cup {n}) = SumDays(ledger, S) + M[n].days
    BY <1>3, <1>4, SumGrows
  <2> QED BY <1>2, <1>3, <1>4, <1>6, <2>1
<1> QED BY <1>2, <1>5, <1>6

LEMMA SumsTyped ==
  ASSUME TypeOK, NEW e, NEW t, NEW p
  PROVE  /\ \A kind : Moved(kind, e, t, p) \in Int
         /\ TakenInTime(e, t, p) \in Int /\ Credited(e, t, p) \in Int
<1>1. /\ \A kind : Movements(kind, e, t, p) \in SUBSET DOMAIN ledger
      /\ InTime(e, t, p) \in SUBSET DOMAIN ledger /\ Credits(e, t, p) \in SUBSET DOMAIN ledger
  BY DEF Movements, InTime, Credits
<1> QED BY <1>1, RowsTyped, SumsAre

LEMMA SumsFrame ==
  ASSUME UNCHANGED ledger, NEW e, NEW t, NEW p
  PROVE  /\ \A kind : Moved(kind, e, t, p)' = Moved(kind, e, t, p)
         /\ TakenInTime(e, t, p)' = TakenInTime(e, t, p)
         /\ Credited(e, t, p)' = Credited(e, t, p)
<1>1. \A kind : Movements(kind, e, t, p)' = Movements(kind, e, t, p)
  BY DEF Movements
<1>2. InTime(e, t, p)' = InTime(e, t, p) /\ Credits(e, t, p)' = Credits(e, t, p)
  BY <1>1 DEF InTime, Credits
<1> QED BY <1>1, <1>2, SumsAre

LEMMA RowMoves ==
  ASSUME TypeOK, NEW entry \in Entry, ledger' = Append(ledger, entry),
         NEW e, NEW t, NEW p
  PROVE  LET same == entry.emp = e /\ entry.type = t /\ entry.period = p IN
         /\ \A kind : Moved(kind, e, t, p)' =
              Moved(kind, e, t, p) + (IF same /\ entry.kind = kind THEN entry.days ELSE 0)
         /\ TakenInTime(e, t, p)' = TakenInTime(e, t, p) +
              (IF same /\ entry.kind = "TAKEN" /\ entry.made = p THEN entry.days ELSE 0)
         /\ Credited(e, t, p)' = Credited(e, t, p) +
              (IF same /\ entry.kind = "CORRECTION" /\ entry.days > 0 THEN entry.days ELSE 0)
<1> DEFINE same == entry.emp = e /\ entry.type = t /\ entry.period = p
           n == Len(ledger) + 1
<1>1. /\ DOMAIN ledger' = DOMAIN ledger \cup {n} /\ ledger'[n] = entry
      /\ n \notin DOMAIN ledger
      /\ \A i \in DOMAIN ledger : ledger'[i] = ledger[i]
  BY AppendRow DEF TypeOK
<1> HIDE DEF n
<1>2. ASSUME NEW kind
      PROVE  Movements(kind, e, t, p)' =
               Movements(kind, e, t, p) \cup (IF same /\ entry.kind = kind THEN {n} ELSE {})
  BY <1>1 DEF Movements
<1>3. InTime(e, t, p)' = InTime(e, t, p) \cup
        (IF same /\ entry.kind = "TAKEN" /\ entry.made = p THEN {n} ELSE {})
  <2>1. \A i \in Movements("TAKEN", e, t, p) : ledger'[i] = ledger[i]
    BY <1>1 DEF Movements
  <2>2. Movements("TAKEN", e, t, p)' =
          Movements("TAKEN", e, t, p) \cup (IF same /\ entry.kind = "TAKEN" THEN {n} ELSE {})
    BY <1>2
  <2> HIDE DEF same
  <2>3. CASE same /\ entry.kind = "TAKEN"
    BY <1>1, <2>1, <2>2, <2>3 DEF InTime
  <2>4. CASE ~(same /\ entry.kind = "TAKEN")
    BY <1>1, <2>1, <2>2, <2>4 DEF InTime
  <2> QED BY <2>3, <2>4
<1>4. Credits(e, t, p)' = Credits(e, t, p) \cup
        (IF same /\ entry.kind = "CORRECTION" /\ entry.days > 0 THEN {n} ELSE {})
  <2>1. \A i \in Movements("CORRECTION", e, t, p) : ledger'[i] = ledger[i]
    BY <1>1 DEF Movements
  <2>2. Movements("CORRECTION", e, t, p)' =
          Movements("CORRECTION", e, t, p) \cup (IF same /\ entry.kind = "CORRECTION" THEN {n} ELSE {})
    BY <1>2
  <2> HIDE DEF same
  <2>3. CASE same /\ entry.kind = "CORRECTION"
    BY <1>1, <2>1, <2>2, <2>3 DEF Credits
  <2>4. CASE ~(same /\ entry.kind = "CORRECTION")
    BY <1>1, <2>1, <2>2, <2>4 DEF Credits
  <2> QED BY <2>3, <2>4
<1>5. /\ \A kind : Movements(kind, e, t, p) \in SUBSET DOMAIN ledger
      /\ InTime(e, t, p) \in SUBSET DOMAIN ledger /\ Credits(e, t, p) \in SUBSET DOMAIN ledger
  BY DEF Movements, InTime, Credits
<1>6. ASSUME NEW S \in SUBSET DOMAIN ledger, NEW T, NEW yes \in BOOLEAN,
             T = S \cup (IF yes THEN {n} ELSE {})
      PROVE  SumDays(ledger', T) = SumDays(ledger, S) + (IF yes THEN entry.days ELSE 0)
  <2>1. T = S \/ T = S \cup {Len(ledger) + 1}
    BY <1>6 DEF n
  <2>2. SumDays(ledger', T) =
          SumDays(ledger, S) + (IF Len(ledger) + 1 \in T THEN entry.days ELSE 0)
    BY <2>1, RowAdds
  <2>3. Len(ledger) + 1 \in T <=> yes
    BY <1>1, <1>6 DEF n
  <2> QED BY <2>2, <2>3
<1>7. ASSUME NEW kind
      PROVE  Moved(kind, e, t, p)' =
               Moved(kind, e, t, p) + (IF same /\ entry.kind = kind THEN entry.days ELSE 0)
  <2> DEFINE S == Movements(kind, e, t, p)
             T == Movements(kind, e, t, p)'
             yes == same /\ entry.kind = kind
  <2>1. S \in SUBSET DOMAIN ledger /\ yes \in BOOLEAN /\ T = S \cup (IF yes THEN {n} ELSE {})
    BY <1>2, <1>5
  <2>2. SumDays(ledger', T) = SumDays(ledger, S) + (IF yes THEN entry.days ELSE 0)
    <3> HIDE DEF S, T, yes
    <3> QED BY <1>6, <2>1
  <2>3. Moved(kind, e, t, p) = SumDays(ledger, S) /\ Moved(kind, e, t, p)' = SumDays(ledger', T)
    BY SumsAre
  <2> HIDE DEF S, T
  <2> QED BY <2>2, <2>3
<1>8. TakenInTime(e, t, p)' = TakenInTime(e, t, p) +
        (IF same /\ entry.kind = "TAKEN" /\ entry.made = p THEN entry.days ELSE 0)
  <2> DEFINE S == InTime(e, t, p)
             T == InTime(e, t, p)'
             yes == same /\ entry.kind = "TAKEN" /\ entry.made = p
  <2>1. S \in SUBSET DOMAIN ledger /\ yes \in BOOLEAN /\ T = S \cup (IF yes THEN {n} ELSE {})
    BY <1>3, <1>5
  <2>2. SumDays(ledger', T) = SumDays(ledger, S) + (IF yes THEN entry.days ELSE 0)
    <3> HIDE DEF S, T, yes
    <3> QED BY <1>6, <2>1
  <2>3. TakenInTime(e, t, p) = SumDays(ledger, S) /\ TakenInTime(e, t, p)' = SumDays(ledger', T)
    BY SumsAre
  <2> HIDE DEF S, T
  <2> QED BY <2>2, <2>3
<1>9. Credited(e, t, p)' = Credited(e, t, p) +
        (IF same /\ entry.kind = "CORRECTION" /\ entry.days > 0 THEN entry.days ELSE 0)
  <2> DEFINE S == Credits(e, t, p)
             T == Credits(e, t, p)'
             yes == same /\ entry.kind = "CORRECTION" /\ entry.days > 0
  <2>1. S \in SUBSET DOMAIN ledger /\ yes \in BOOLEAN /\ T = S \cup (IF yes THEN {n} ELSE {})
    BY <1>4, <1>5
  <2>2. SumDays(ledger', T) = SumDays(ledger, S) + (IF yes THEN entry.days ELSE 0)
    <3> HIDE DEF S, T, yes
    <3> QED BY <1>6, <2>1
  <2>3. Credited(e, t, p) = SumDays(ledger, S) /\ Credited(e, t, p)' = SumDays(ledger', T)
    BY SumsAre
  <2> HIDE DEF S, T
  <2> QED BY <2>2, <2>3
<1> QED BY <1>7, <1>8, <1>9

LEMMA MaxIs ==
  ASSUME NEW S, S \subseteq Int, NEW x \in S, \A y \in S : x >= y
  PROVE  Max(S) = x
<1> DEFINE P(z) == z \in S /\ \A y \in S : z >= y
<1>1. PICK z : z = CHOOSE w \in S : \A y \in S : w >= y
  OBVIOUS
<1>2. z \in S /\ \A y \in S : z >= y
  BY <1>1
<1>3. z >= x /\ x >= z /\ z \in Int /\ x \in Int
  BY <1>2
<1>4. z = x
  BY <1>3
<1> QED BY <1>1, <1>4 DEF Max

(* A finite set of numbers that is not empty has a greatest one. *)
LEMMA MaxExists ==
  ASSUME NEW S, IsFiniteSet(S), S \subseteq Int, S # {}
  PROVE  Max(S) \in S /\ \A x \in S : x <= Max(S)
<1> DEFINE Tops(s) == \E x \in s : \A y \in s : x >= y
           Bad == {s \in SUBSET S : s # {} /\ ~Tops(s)}
<1>1. Tops(S)
  <2>1. SUFFICES ASSUME Bad # {} PROVE FALSE
    OBVIOUS
  <2>2. PICK T \in Bad : \A U \in SUBSET T : U # T => U \notin Bad
    <3>1. Bad \subseteq SUBSET S
      OBVIOUS
    <3> HIDE DEF Bad
    <3> QED BY <2>1, <3>1, LeastSet
  <2>3. PICK x \in T : x \in Int
    BY <2>2
  <2>4. T \subseteq Int /\ ~Tops(T)
    BY <2>2
  <2>5. CASE T \ {x} = {}
    BY <2>3, <2>4, <2>5
  <2>6. CASE T \ {x} # {}
    <3>1. Tops(T \ {x})
      BY <2>2, <2>3, <2>6
    <3>2. PICK m \in T \ {x} : \A y \in T \ {x} : m >= y
      BY <3>1
    <3>3. m \in T /\ m \in Int /\ (m >= x \/ x >= m)
      BY <2>3, <2>4, <3>2
    <3>4. CASE m >= x
      <4>1. \A y \in T : m >= y
        BY <3>2, <3>4
      <4> QED BY <2>4, <3>3, <4>1
    <3>5. CASE x >= m
      <4>1. \A y \in T : x >= y
        <5>1. ASSUME NEW y \in T \ {x} PROVE x >= y
          <6>1. y \in Int /\ m >= y
            BY <2>4, <3>2, <5>1
          <6> QED BY <2>3, <3>3, <3>5, <6>1
        <5>2. x >= x
          BY <2>3
        <5> QED BY <5>1, <5>2
      <4> QED BY <2>3, <2>4, <4>1
    <3> QED BY <3>3, <3>4, <3>5
  <2> QED BY <2>5, <2>6
<1>2. PICK x \in S : \A y \in S : x >= y
  BY <1>1
<1>3. Max(S) = x
  BY <1>2, MaxIs
<1>4. \A y \in S : y <= x
  BY <1>2
<1> QED BY <1>2, <1>3, <1>4

LEMMA LongestIs ==
  ASSUME TypeOK
  PROVE  Longest \in Nat /\ \A r \in Requests : DaysOf(terms[r]) \in Nat /\ DaysOf(terms[r]) <= Longest
<1> DEFINE S == {0} \cup {DaysOf(terms[r]) : r \in Requests}
<1>1. ASSUME NEW r \in Requests PROVE DaysOf(terms[r]) \in Nat
  <2>1. terms[r].first \in Int /\ terms[r].last \in Int
    <3>1. terms[r] \in Terms
      BY DEF TypeOK
    <3>2. Days \subseteq Int
      BY LeaveAssumption
    <3> QED BY <3>1, <3>2 DEF Terms
  <2>2. IsFiniteSet((terms[r].first .. terms[r].last) \ Off)
    BY <2>1, FS_Interval, FS_Difference
  <2> QED BY <2>2, FS_CardinalityType DEF DaysOf, countLeaveDays
<1>2. IsFiniteSet(S)
  <2>1. IsFiniteSet({DaysOf(terms[r]) : r \in Requests})
    <3>1. IsFiniteSet(Requests)
      BY LeaveAssumption
    <3> DEFINE f == [r \in Requests |-> DaysOf(terms[r])]
               D == {DaysOf(terms[r]) : r \in Requests}
    <3>2. f \in Surjection(Requests, D)
      BY DEF Surjection
    <3> HIDE DEF f, D
    <3>3. IsFiniteSet(D)
      BY <3>1, <3>2, FS_Surjection
    <3> QED BY <3>3 DEF D
  <2> QED BY <2>1, FS_Singleton, FS_Union
<1>3. S \subseteq Nat /\ S # {} /\ \A r \in Requests : DaysOf(terms[r]) \in S
  BY <1>1
<1>4. Max(S) \in S /\ \A x \in S : x <= Max(S)
  <2> HIDE DEF S
  <2>1. S \subseteq Int
    BY <1>3
  <2> QED BY <1>2, <1>3, <2>1, MaxExists
<1>5. Longest = Max(S)
  BY DEF Longest
<1> HIDE DEF S
<1> QED BY <1>1, <1>3, <1>4, <1>5

LEMMA Scaled ==
  ASSUME NEW a \in Nat, NEW b \in Nat, NEW m \in Nat
  PROVE  /\ a * m \in Nat /\ b * m \in Nat
         /\ a <= b => a * m <= b * m
         /\ (a + 1) * m = a * m + m
<1>1. a <= b => \E k \in Nat : b = a + k
  <2>1. a <= b => (b - a \in Nat /\ b = a + (b - a))
    OBVIOUS
  <2> QED BY <2>1
<1>2. \A k \in Nat : (a + k) * m = a * m + k * m /\ k * m >= 0 /\ k * m \in Nat
  OBVIOUS
<1>3. a * m \in Nat /\ b * m \in Nat
  OBVIOUS
<1> QED BY <1>1, <1>2, <1>3

(* The handlers that have read the balance and are to deduct an absence    *)
(* of this employment and type that starts in p.                           *)
Pending(e, t, p) ==
  {c \in Calls : /\ call[c].pc = "finAppend"
                 /\ terms[call[c].req].emp = e
                 /\ terms[call[c].req].type = t
                 /\ PeriodOf[terms[call[c].req].first] = p}

(* While p is the current period there is room for the handlers that have  *)
(* read its balance; before, nothing was deducted in time, and afterwards  *)
(* nothing more is.                                                        *)
Bounded(e, t, p) ==
  LET room == Acquired(e, t, p) + Credited(e, t, p) + Cardinality(Calls) * Longest IN
  /\ TakenInTime(e, t, p) <= Moved("TAKEN", e, t, p)
  /\ Moved("CORRECTION", e, t, p) <= Credited(e, t, p)
  /\ Credited(e, t, p) >= 0
  /\ p > today => TakenInTime(e, t, p) = 0
  /\ p = today =>
       TakenInTime(e, t, p) + Cardinality(Pending(e, t, p)) * Longest <= room
  /\ p < today => TakenInTime(e, t, p) <= room

OverdraftInv == \A e \in Employments, t \in Decremented, p \in Periods : Bounded(e, t, p)

(* All the numbers of a balance are numbers, and rigid but for the ledger. *)
LEMMA BalanceTyped ==
  ASSUME TypeOK, NEW e \in Employments, NEW t \in Decremented, NEW p \in Periods
  PROVE  /\ Acquired(e, t, p) \in Nat /\ Longest \in Nat /\ Cardinality(Calls) \in Nat
         /\ TakenInTime(e, t, p) \in Int /\ Credited(e, t, p) \in Int
         /\ \A kind : Moved(kind, e, t, p) \in Int
         /\ Cardinality(Pending(e, t, p)) \in Nat /\ IsFiniteSet(Pending(e, t, p))
         /\ Cardinality(Pending(e, t, p)) <= Cardinality(Calls)
         /\ p \in Int /\ today \in Int
<1>1. Acquired(e, t, p) \in Nat
  BY LeaveAssumption DEF Acquired
<1>2. Pending(e, t, p) \in SUBSET Calls
  BY DEF Pending
<1>3. p \in Int /\ today \in Int
  BY LeaveAssumption DEF TypeOK
<1> QED BY <1>1, <1>2, <1>3, LongestIs, SumsTyped, CallsCount

LEMMA BalanceFrame ==
  ASSUME UNCHANGED terms, NEW e, NEW t, NEW p
  PROVE  Acquired(e, t, p)' = Acquired(e, t, p) /\ Longest' = Longest
<1>1. Acquired(e, t, p)' = Acquired(e, t, p)
  BY DEF Acquired
<1>2. \A r \in Requests : DaysOf(terms'[r]) = DaysOf(terms[r])
  OBVIOUS
<1>3. Longest' = Longest
  BY DEF Longest, DaysOf
<1> QED BY <1>1, <1>3

(* A step that writes no row and lets no handler past the balance. *)
LEMMA BoundedStays ==
  ASSUME TypeOK, TypeOK', UNCHANGED <<terms, ledger, today>>,
         NEW e \in Employments, NEW t \in Decremented, NEW p \in Periods,
         Bounded(e, t, p), Pending(e, t, p)' \subseteq Pending(e, t, p)
  PROVE  Bounded(e, t, p)'
<1>1. PICK A, C, M, N, T, K, D, P, Q :
        /\ A = Acquired(e, t, p) /\ C = Credited(e, t, p) /\ M = Longest
        /\ N = Cardinality(Calls) /\ T = TakenInTime(e, t, p)
        /\ K = Moved("TAKEN", e, t, p) /\ D = Moved("CORRECTION", e, t, p)
        /\ P = Cardinality(Pending(e, t, p)) /\ Q = Cardinality(Pending(e, t, p)')
  OBVIOUS
<1>2. /\ A = Acquired(e, t, p)' /\ C = Credited(e, t, p)' /\ M = Longest'
      /\ T = TakenInTime(e, t, p)'
      /\ K = Moved("TAKEN", e, t, p)' /\ D = Moved("CORRECTION", e, t, p)'
      /\ today' = today
  BY <1>1, SumsFrame, BalanceFrame
<1>3. /\ A \in Nat /\ C \in Int /\ M \in Nat /\ N \in Nat /\ T \in Int /\ K \in Int /\ D \in Int
      /\ P \in Nat
  BY <1>1, BalanceTyped
<1>4. Q \in Nat /\ Q <= P
  <2>1. PICK S, R : S = Pending(e, t, p) /\ R = Pending(e, t, p)'
    OBVIOUS
  <2>2. IsFiniteSet(S) /\ R \subseteq S
    BY <2>1, BalanceTyped
  <2> QED BY <1>1, <2>1, <2>2, FS_Subset, FS_CardinalityType
<1>5. P * M \in Nat /\ Q * M \in Nat /\ N * M \in Nat /\ Q * M <= P * M
  BY <1>3, <1>4, Scaled
<1>6. /\ T <= K /\ D <= C /\ C >= 0
      /\ p > today => T = 0
      /\ p = today => T + P * M <= A + C + N * M
      /\ p < today => T <= A + C + N * M
  BY <1>1 DEF Bounded
<1>7. p = today => T + Q * M <= A + C + N * M
  BY <1>3, <1>5, <1>6
<1> QED BY <1>1, <1>2, <1>6, <1>7 DEF Bounded

(* Who leaves no handler more on its way to a deduction. *)
LEMMA PendingStays ==
  ASSUME UNCHANGED terms, NEW c \in Calls, \A d \in Calls \ {c} : call'[d] = call[d],
         call'[c].pc # "finAppend" \/ call'[c] = call[c],
         NEW e, NEW t, NEW p
  PROVE  Pending(e, t, p)' \subseteq Pending(e, t, p)
  BY DEF Pending

LEMMA OverdraftFrame ==
  ASSUME TypeOK, TypeOK', OverdraftInv, UNCHANGED <<terms, ledger, today>>,
         NEW c \in Calls, \A d \in Calls \ {c} : call'[d] = call[d],
         call'[c].pc # "finAppend" \/ call'[c] = call[c]
  PROVE  OverdraftInv'
<1>1. ASSUME NEW e \in Employments, NEW t \in Decremented, NEW p \in Periods
      PROVE  Bounded(e, t, p)'
  <2>1. Bounded(e, t, p) /\ Pending(e, t, p)' \subseteq Pending(e, t, p)
    BY PendingStays DEF OverdraftInv
  <2> QED BY <2>1, BoundedStays
<1> QED BY <1>1 DEF OverdraftInv

(* _finalizeLeave reads a balance of today's period that is not short. *)
LEMMA OverdraftRead ==
  ASSUME TypeOK, TypeOK', OverdraftInv, NEW c \in Calls, FinalizeRead(c)
  PROVE  OverdraftInv'
<1>1. UNCHANGED <<terms, ledger, today>>
  BY DEF FinalizeRead
<1>2. PICK q \in Requests : q = call[c].req
  BY DEF FinalizeRead, TypeOK
<1>3. PICK x : x = terms[q]
  OBVIOUS
<1>4. CASE Goto(c, "finUpdate") \/ Return(c)
  BY <1>1, <1>4, SlotMoves, OverdraftFrame
<1>5. CASE Goto(c, "finAppend") /\ DaysOf(x) <= Remaining(x.emp, x.type, today)
  <2> SUFFICES ASSUME NEW e \in Employments, NEW t \in Decremented, NEW p \in Periods
               PROVE  Bounded(e, t, p)'
    BY DEF OverdraftInv
  <2>1. Bounded(e, t, p)
    BY DEF OverdraftInv
  <2>2. /\ call'[c].pc = "finAppend" /\ call'[c].req = q
        /\ \A d \in Calls \ {c} : call'[d] = call[d]
    BY <1>2, <1>5, SlotMoves
  <2>3. CASE ~(x.emp = e /\ x.type = t /\ PeriodOf[x.first] = p)
    <3>1. Pending(e, t, p)' \subseteq Pending(e, t, p)
      BY <1>1, <1>3, <2>2, <2>3 DEF Pending
    <3> QED BY <1>1, <2>1, <3>1, BoundedStays
  <2>4. CASE p # today
    <3>1. PICK T, K, D, C, A, M :
            /\ T = TakenInTime(e, t, p) /\ K = Moved("TAKEN", e, t, p)
            /\ D = Moved("CORRECTION", e, t, p) /\ C = Credited(e, t, p)
            /\ A = Acquired(e, t, p) /\ M = Longest
      OBVIOUS
    <3>2. /\ T = TakenInTime(e, t, p)' /\ K = Moved("TAKEN", e, t, p)'
          /\ D = Moved("CORRECTION", e, t, p)' /\ C = Credited(e, t, p)'
          /\ A = Acquired(e, t, p)' /\ M = Longest' /\ today' = today
      BY <1>1, <3>1, SumsFrame, BalanceFrame
    <3> QED BY <2>1, <2>4, <3>1, <3>2 DEF Bounded
  <2>5. CASE x.emp = e /\ x.type = t /\ p = today
    <3>1. PICK T, K, D, C, A, M, N, Q, n :
            /\ T = TakenInTime(e, t, p) /\ K = Moved("TAKEN", e, t, p)
            /\ D = Moved("CORRECTION", e, t, p) /\ C = Credited(e, t, p)
            /\ A = Acquired(e, t, p) /\ M = Longest /\ N = Cardinality(Calls)
            /\ Q = Cardinality(Pending(e, t, p)') /\ n = DaysOf(x)
      OBVIOUS
    <3>2. /\ T = TakenInTime(e, t, p)' /\ K = Moved("TAKEN", e, t, p)'
          /\ D = Moved("CORRECTION", e, t, p)' /\ C = Credited(e, t, p)'
          /\ A = Acquired(e, t, p)' /\ M = Longest' /\ today' = today
      BY <1>1, <3>1, SumsFrame, BalanceFrame
    <3>3. /\ A \in Nat /\ C \in Int /\ M \in Nat /\ N \in Nat /\ T \in Int /\ K \in Int /\ D \in Int
      BY <3>1, BalanceTyped
    <3>4. Q \in Nat /\ Q <= N
      BY <3>1, CallsCount DEF Pending
    <3>5. n \in Nat
      BY <1>3, <3>1, LongestIs
    <3>6. n <= A - K + D
      BY <1>5, <2>5, <3>1 DEF Remaining
    <3>7. T <= K /\ D <= C /\ C >= 0
      BY <2>1, <3>1 DEF Bounded
    <3>8. Q * M \in Nat /\ N * M \in Nat /\ Q * M <= N * M
      BY <3>3, <3>4, Scaled
    <3>9. T + Q * M <= A + C + N * M
      BY <3>3, <3>5, <3>6, <3>7, <3>8
    <3>10. p \in Int
      BY BalanceTyped
    <3> QED BY <2>5, <3>1, <3>2, <3>7, <3>9, <3>10 DEF Bounded
  <2> QED BY <2>3, <2>4, <2>5
<1> QED BY <1>2, <1>3, <1>4, <1>5 DEF FinalizeRead

(* The deduction takes one handler's room, if it falls in this period. *)
LEMMA OverdraftAppend ==
  ASSUME TypeOK, TypeOK', OverdraftInv, NEW c \in Calls, FinalizeAppend(c)
  PROVE  OverdraftInv'
<1>1. PICK q \in Requests : q = call[c].req
  BY DEF FinalizeAppend, TypeOK
<1>2. PICK x : x = terms[q]
  OBVIOUS
<1>3. PICK row0 \in Entry :
        /\ ledger' = Append(ledger, row0)
        /\ row0.kind = "TAKEN" /\ row0.emp = x.emp /\ row0.type = x.type
        /\ row0.days = DaysOf(x) /\ row0.period = PeriodOf[x.first] /\ row0.made = today
  BY <1>1, <1>2, TakenTyped DEF FinalizeAppend, TypeOK, Taken
<1>4. UNCHANGED <<terms, today>> /\ call[c].pc = "finAppend" /\ Goto(c, "finUpdate")
  BY DEF FinalizeAppend
<1> SUFFICES ASSUME NEW e \in Employments, NEW t \in Decremented, NEW p \in Periods
             PROVE  Bounded(e, t, p)'
  BY DEF OverdraftInv
<1> DEFINE same == row0.emp = e /\ row0.type = t /\ row0.period = p
<1>5. PICK T, K, D, C, A, M, N, P, Q, n :
        /\ T = TakenInTime(e, t, p) /\ K = Moved("TAKEN", e, t, p)
        /\ D = Moved("CORRECTION", e, t, p) /\ C = Credited(e, t, p)
        /\ A = Acquired(e, t, p) /\ M = Longest /\ N = Cardinality(Calls)
        /\ P = Cardinality(Pending(e, t, p)) /\ Q = Cardinality(Pending(e, t, p)')
        /\ n = DaysOf(x)
  OBVIOUS
<1>6. /\ A \in Nat /\ C \in Int /\ M \in Nat /\ N \in Nat /\ T \in Int /\ K \in Int /\ D \in Int
      /\ P \in Nat /\ n \in Nat /\ n <= M /\ p \in Int /\ today \in Int
  BY <1>2, <1>5, BalanceTyped, LongestIs
<1>7. /\ A = Acquired(e, t, p)' /\ M = Longest' /\ today' = today
      /\ K + (IF same THEN n ELSE 0) = Moved("TAKEN", e, t, p)'
      /\ D + 0 = Moved("CORRECTION", e, t, p)'
      /\ C + 0 = Credited(e, t, p)'
      /\ T + (IF same /\ today = p THEN n ELSE 0) = TakenInTime(e, t, p)'
  BY <1>3, <1>4, <1>5, RowMoves, BalanceFrame
<1>8. Q \in Nat /\ Q <= P /\ (same => Q = P - 1)
  <2>1. PICK S, R : S = Pending(e, t, p) /\ R = Pending(e, t, p)'
    OBVIOUS
  <2>2. IsFiniteSet(S) /\ R \subseteq S /\ (same => c \in S /\ R = S \ {c})
    <3>1. /\ call'[c].pc = "finUpdate" /\ \A d \in Calls \ {c} : call'[d] = call[d]
      BY <1>4, SlotMoves
    <3>2. R \subseteq S
      BY <1>4, <2>1, <3>1 DEF Pending
    <3>3. same => c \in S
      BY <1>1, <1>2, <1>3, <1>4, <2>1 DEF Pending
    <3>4. R = S \ {c}
      BY <1>4, <2>1, <3>1 DEF Pending
    <3> QED BY <2>1, <3>2, <3>3, <3>4, BalanceTyped
  <2>3. Cardinality(R) \in Nat /\ Cardinality(R) <= Cardinality(S)
    BY <2>2, FS_Subset, FS_CardinalityType
  <2>4. same => Cardinality(R) = Cardinality(S) - 1
    BY <2>2, FS_RemoveElement
  <2> QED BY <1>5, <2>1, <2>3, <2>4
<1>9. P * M \in Nat /\ Q * M \in Nat /\ N * M \in Nat /\ Q * M <= P * M
  BY <1>6, <1>8, Scaled
<1>10. same => P * M = Q * M + M
  <2>1. (Q + 1) * M = Q * M + M
    BY <1>6, <1>8, Scaled
  <2>2. same => P = Q + 1
    BY <1>6, <1>8
  <2> QED BY <2>1, <2>2
<1>11. /\ T <= K /\ D <= C /\ C >= 0
       /\ p > today => T = 0
       /\ p = today => T + P * M <= A + C + N * M
       /\ p < today => T <= A + C + N * M
  <2>1. Bounded(e, t, p)
    BY DEF OverdraftInv
  <2> QED BY <1>5, <2>1 DEF Bounded
<1> HIDE DEF same
<1>12. PICK T1, K1 : T1 = T + (IF same /\ today = p THEN n ELSE 0) /\ K1 = K + (IF same THEN n ELSE 0)
  OBVIOUS
<1>13. PICK pm, qm, nm : pm = P * M /\ qm = Q * M /\ nm = N * M
  OBVIOUS
<1>14. /\ T1 <= K1
       /\ p > today => T1 = 0
       /\ p = today => T1 + qm <= A + C + nm
       /\ p < today => T1 <= A + C + nm
  BY <1>6, <1>9, <1>10, <1>11, <1>12, <1>13
<1>15. D = D + 0 /\ C = C + 0
  BY <1>6
<1> QED BY <1>5, <1>7, <1>11, <1>12, <1>13, <1>14, <1>15 DEF Bounded

(* A correction gives room or leaves it as it is. *)
LEMMA OverdraftCorrection ==
  ASSUME TypeOK, TypeOK', OverdraftInv, NEW c \in Calls,
         NEW e0 \in Employments, NEW t0 \in Types, NEW p0 \in Periods, NEW d0 \in Corrections,
         CorrectLeaveBalance(c, e0, t0, p0, d0)
  PROVE  OverdraftInv'
<1>1. PICK row0 \in Entry : ledger' = Append(ledger, row0) /\ row0.kind = "CORRECTION"
  <2> DEFINE x == [kind |-> "CORRECTION", emp |-> e0, type |-> t0, days |-> d0,
                   period |-> p0, ref |-> None, made |-> today]
  <2>1. x \in Entry /\ x.kind = "CORRECTION"
    BY LeaveAssumption DEF Entry, TypeOK
  <2>2. ledger' = Append(ledger, x)
    BY DEF CorrectLeaveBalance
  <2> HIDE DEF x
  <2> QED BY <2>1, <2>2
<1>2. UNCHANGED <<terms, today, call>>
  BY DEF CorrectLeaveBalance
<1> SUFFICES ASSUME NEW e \in Employments, NEW t \in Decremented, NEW p \in Periods
             PROVE  Bounded(e, t, p)'
  BY DEF OverdraftInv
<1> DEFINE same == row0.emp = e /\ row0.type = t /\ row0.period = p
<1>3. PICK T, K, D, C, A, M, N, P, n :
        /\ T = TakenInTime(e, t, p) /\ K = Moved("TAKEN", e, t, p)
        /\ D = Moved("CORRECTION", e, t, p) /\ C = Credited(e, t, p)
        /\ A = Acquired(e, t, p) /\ M = Longest /\ N = Cardinality(Calls)
        /\ P = Cardinality(Pending(e, t, p)) /\ n = row0.days
  OBVIOUS
<1>4. /\ A \in Nat /\ C \in Int /\ M \in Nat /\ N \in Nat /\ T \in Int /\ K \in Int /\ D \in Int
      /\ P \in Nat /\ n \in Int /\ p \in Int /\ today \in Int
  BY <1>3, BalanceTyped DEF Entry
<1>5. /\ A = Acquired(e, t, p)' /\ M = Longest' /\ today' = today
      /\ K + 0 = Moved("TAKEN", e, t, p)' /\ T + 0 = TakenInTime(e, t, p)'
      /\ D + (IF same THEN n ELSE 0) = Moved("CORRECTION", e, t, p)'
      /\ C + (IF same /\ n > 0 THEN n ELSE 0) = Credited(e, t, p)'
  BY <1>1, <1>2, <1>3, RowMoves, BalanceFrame
<1>6. P = Cardinality(Pending(e, t, p)')
  <2>1. Pending(e, t, p)' = Pending(e, t, p)
    BY <1>2 DEF Pending
  <2> QED BY <1>3, <2>1
<1>7. /\ T <= K /\ D <= C /\ C >= 0
      /\ p > today => T = 0
      /\ p = today => T + P * M <= A + C + N * M
      /\ p < today => T <= A + C + N * M
  <2>1. Bounded(e, t, p)
    BY DEF OverdraftInv
  <2> QED BY <1>3, <2>1 DEF Bounded
<1> HIDE DEF same
<1>8. PICK pm, nm : pm = P * M /\ nm = N * M
  OBVIOUS
<1>9. pm \in Nat /\ nm \in Nat
  BY <1>4, <1>8, Scaled
<1>10. PICK C1, D1 : /\ C1 = C + (IF same /\ n > 0 THEN n ELSE 0)
                     /\ D1 = D + (IF same THEN n ELSE 0)
  OBVIOUS
<1>11. /\ D1 <= C1 /\ C1 >= 0
       /\ p = today => T + pm <= A + C1 + nm
       /\ p < today => T <= A + C1 + nm
  BY <1>4, <1>7, <1>8, <1>9, <1>10
<1>12. T = T + 0 /\ K = K + 0
  BY <1>4
<1> QED BY <1>3, <1>5, <1>6, <1>7, <1>8, <1>10, <1>11, <1>12 DEF Bounded

(* When a period begins nothing was deducted from it in time, and there    *)
(* are no more handlers on their way than handlers.                        *)
LEMMA OverdraftPeriod ==
  ASSUME TypeOK, TypeOK', OverdraftInv, NextPeriod
  PROVE  OverdraftInv'
<1>1. UNCHANGED <<terms, ledger, call>> /\ today' = today + 1
  BY DEF NextPeriod
<1> SUFFICES ASSUME NEW e \in Employments, NEW t \in Decremented, NEW p \in Periods
             PROVE  Bounded(e, t, p)'
  BY DEF OverdraftInv
<1>2. PICK T, K, D, C, A, M, N, P :
        /\ T = TakenInTime(e, t, p) /\ K = Moved("TAKEN", e, t, p)
        /\ D = Moved("CORRECTION", e, t, p) /\ C = Credited(e, t, p)
        /\ A = Acquired(e, t, p) /\ M = Longest /\ N = Cardinality(Calls)
        /\ P = Cardinality(Pending(e, t, p))
  OBVIOUS
<1>3. /\ A \in Nat /\ C \in Int /\ M \in Nat /\ N \in Nat /\ T \in Int /\ K \in Int /\ D \in Int
      /\ P \in Nat /\ P <= N /\ p \in Int /\ today \in Int
  BY <1>2, BalanceTyped
<1>4. /\ T = TakenInTime(e, t, p)' /\ K = Moved("TAKEN", e, t, p)'
      /\ D = Moved("CORRECTION", e, t, p)' /\ C = Credited(e, t, p)'
      /\ A = Acquired(e, t, p)' /\ M = Longest'
  BY <1>1, <1>2, SumsFrame, BalanceFrame
<1>5. P = Cardinality(Pending(e, t, p)')
  <2>1. Pending(e, t, p)' = Pending(e, t, p)
    BY <1>1 DEF Pending
  <2> QED BY <1>2, <2>1
<1>6. /\ T <= K /\ D <= C /\ C >= 0
      /\ p > today => T = 0
      /\ p = today => T + P * M <= A + C + N * M
      /\ p < today => T <= A + C + N * M
  <2>1. Bounded(e, t, p)
    BY DEF OverdraftInv
  <2> QED BY <1>2, <2>1 DEF Bounded
<1>7. P * M \in Nat /\ N * M \in Nat /\ P * M <= N * M
  BY <1>3, Scaled
<1>8. PICK pm, nm : pm = P * M /\ nm = N * M
  OBVIOUS
<1>9. /\ p > today + 1 => T = 0
      /\ p = today + 1 => T + pm <= A + C + nm
      /\ p < today + 1 => T <= A + C + nm
  BY <1>3, <1>6, <1>7, <1>8
<1> QED BY <1>1, <1>2, <1>4, <1>5, <1>6, <1>8, <1>9 DEF Bounded

LEMMA OverdraftInit ==
  ASSUME TypeOK, Init
  PROVE  OverdraftInv
<1> SUFFICES ASSUME NEW e \in Employments, NEW t \in Decremented, NEW p \in Periods
             PROVE  Bounded(e, t, p)
  BY DEF OverdraftInv
<1>1. /\ \A kind : Movements(kind, e, t, p) = {}
      /\ InTime(e, t, p) = {} /\ Credits(e, t, p) = {} /\ Pending(e, t, p) = {}
  BY DEF Init, Movements, InTime, Credits, Pending, Idle
<1>2. SumDays(ledger, {}) = 0 /\ Cardinality({}) = 0
  BY SumUnfolds, FS_EmptySet
<1>3. /\ \A kind : Moved(kind, e, t, p) = 0
      /\ TakenInTime(e, t, p) = 0 /\ Credited(e, t, p) = 0
  BY <1>1, <1>2, SumsAre
<1>4. PICK A, M, N, P : /\ A = Acquired(e, t, p) /\ M = Longest /\ N = Cardinality(Calls)
                        /\ P = Cardinality(Pending(e, t, p))
  OBVIOUS
<1>5. A \in Nat /\ M \in Nat /\ N \in Nat /\ P = 0
  BY <1>1, <1>2, <1>4, BalanceTyped
<1>6. P * M \in Nat /\ N * M \in Nat /\ P * M <= N * M
  <2>1. P <= N
    BY <1>5
  <2> QED BY <1>5, <2>1, Scaled
<1>7. PICK pm, nm : pm = P * M /\ nm = N * M
  OBVIOUS
<1>8. 0 + pm <= A + 0 + nm /\ 0 <= A + 0 + nm
  BY <1>5, <1>6, <1>7
<1> QED BY <1>3, <1>4, <1>7, <1>8 DEF Bounded

(* Whatever handlers overlap, fail and are repeated, what is deducted from *)
(* a period while it is the current one exceeds what was acquired and      *)
(* credited for it by one absence for each handler at most: a handler      *)
(* passes the check of _finalizeLeave only while the rows written before   *)
(* it leave room, and writes one row for each time it passes.              *)
THEOREM OverdraftIsBounded == Spec => []OverdraftBounded
<1>1. TypeOK /\ Init => OverdraftInv
  BY OverdraftInit
<1>2. TypeOK /\ TypeOK' /\ OverdraftInv /\ [Next]_vars => OverdraftInv'
  <2> SUFFICES ASSUME TypeOK, TypeOK', OverdraftInv, [Next]_vars PROVE OverdraftInv'
    OBVIOUS
  <2>1. ASSUME NEW c \in Calls, NEW r \in Requests,
               \/ RequestLeave(c, r) \/ ApproveLeave(c, r)
               \/ RefuseLeave(c, r) \/ ApproveLeaveHr(c, r)
        PROVE  OverdraftInv'
    <3>1. /\ call'[c].pc # "finAppend" /\ \A d \in Calls \ {c} : call'[d] = call[d]
          /\ UNCHANGED <<terms, ledger, today>>
      BY <2>1 DEF RequestLeave, ApproveLeave, RefuseLeave, ApproveLeaveHr, Begin, TypeOK
    <3> QED BY <3>1, OverdraftFrame
  <2>2. ASSUME NEW c \in Calls, NEW e \in Employments, NEW t \in Types,
               NEW p \in Periods, NEW d \in Corrections,
               CorrectLeaveBalance(c, e, t, p, d)
        PROVE  OverdraftInv'
    BY <2>2, OverdraftCorrection
  <2>3. ASSUME NEW c \in Calls, ManagerDecides(c) \/ RefusalDecides(c)
        PROVE  OverdraftInv'
    <3>1. /\ Return(c) \/ Goto(c, "mgrDone") \/ Goto(c, "refDone")
          /\ UNCHANGED <<terms, ledger, today>>
      BY <2>3 DEF ManagerDecides, RefusalDecides, Decide
    <3> QED BY <3>1, OverdraftFrame, SlotMoves
  <2>4. ASSUME NEW c \in Calls,
               \/ PublishRequested(c) \/ PublishRefused(c)
               \/ PublishApproved(c) \/ PublishManagerApproved(c)
        PROVE  OverdraftInv'
    <3>1. (Return(c) \/ Goto(c, "finRead")) /\ UNCHANGED <<terms, ledger, today>>
      BY <2>4 DEF PublishRequested, PublishRefused, PublishApproved,
                  PublishManagerApproved, Publish
    <3> QED BY <3>1, OverdraftFrame, SlotMoves
  <2>5. ASSUME NEW c \in Calls, FinalizeUpdate(c) \/ Fail(c)
        PROVE  OverdraftInv'
    <3>1. (Return(c) \/ Goto(c, "finDone")) /\ UNCHANGED <<terms, ledger, today>>
      BY <2>5 DEF FinalizeUpdate, Fail
    <3> QED BY <3>1, OverdraftFrame, SlotMoves
  <2>6. CASE UNCHANGED vars
    <3>1. UNCHANGED <<terms, ledger, today, call>>
      BY <2>6 DEF vars
    <3>2. ASSUME NEW e \in Employments, NEW t \in Decremented, NEW p \in Periods
          PROVE  Bounded(e, t, p)'
      <4>1. Bounded(e, t, p) /\ Pending(e, t, p)' \subseteq Pending(e, t, p)
        BY <3>1 DEF OverdraftInv, Pending
      <4> QED BY <3>1, <4>1, BoundedStays
    <3> QED BY <3>2 DEF OverdraftInv
  <2> QED
    BY <2>1, <2>2, <2>3, <2>4, <2>5, <2>6, OverdraftRead, OverdraftAppend, OverdraftPeriod
       DEF Next, Start, Continue
<1>3. TypeOK /\ OverdraftInv => OverdraftBounded
  <2> SUFFICES ASSUME TypeOK, OverdraftInv,
                      NEW e \in Employments, NEW t \in Decremented, NEW p \in Periods
               PROVE  TakenInTime(e, t, p) <=
                        Acquired(e, t, p) + Credited(e, t, p) + Cardinality(Calls) * Longest
    BY DEF OverdraftBounded
  <2>1. PICK T, C, A, M, N, P :
          /\ T = TakenInTime(e, t, p) /\ C = Credited(e, t, p) /\ A = Acquired(e, t, p)
          /\ M = Longest /\ N = Cardinality(Calls) /\ P = Cardinality(Pending(e, t, p))
    OBVIOUS
  <2>2. /\ A \in Nat /\ C \in Int /\ M \in Nat /\ N \in Nat /\ T \in Int /\ P \in Nat
        /\ p \in Int /\ today \in Int
    BY <2>1, BalanceTyped
  <2>3. /\ C >= 0
        /\ p > today => T = 0
        /\ p = today => T + P * M <= A + C + N * M
        /\ p < today => T <= A + C + N * M
    <3>1. Bounded(e, t, p)
      BY DEF OverdraftInv
    <3> QED BY <2>1, <3>1 DEF Bounded
  <2>4. P * M \in Nat /\ N * M \in Nat
    BY <2>2, Scaled
  <2>5. PICK pm, nm : pm = P * M /\ nm = N * M
    OBVIOUS
  <2>6. T <= A + C + nm
    BY <2>2, <2>3, <2>4, <2>5
  <2> QED BY <2>1, <2>5, <2>6
<1> QED BY <1>1, <1>2, <1>3, TypeCorrect, PTL DEF Spec

-----------------------------------------------------------------------------
(* The views of the rows of others (Views): what the services compute from *)
(* employments, leaves, contracts, deadlines and time entries.             *)

(* The statuses of a table are among those of all. *)
LEMMA StatusTyped ==
  ASSUME NEW table \in Tables
  PROVE  /\ StatusOf(table) \subseteq {"none"} \cup UNION {StatusOf(t) : t \in Tables}
         /\ StatusesOf[table][1] \in StatusOf(table)
<1>1. 1 \in DOMAIN StatusesOf[table]
  BY DEF Tables, StatusesOf
<1> QED BY <1>1 DEF StatusOf

(* A row is added with the dates its table asks for. *)
LEMMA InsertIs ==
  ASSUME NEW r \in Ids, Insert(r)
  PROVE  \E new \in Row :
           /\ Add(r, new) /\ new.table \in Tables
           /\ new.table \in {"Deadline", "TimeEntry", "LeaveRequest"} => new.due \in Dates
           /\ new.table = "LeaveRequest" => new.until \in Dates /\ new.due <= new.until
<1> DEFINE Good(new) ==
           /\ new \in Row
           /\ new.table \in Tables
           /\ new.table \in {"Deadline", "TimeEntry", "LeaveRequest"} => new.due \in Dates
           /\ new.table = "LeaveRequest" => new.until \in Dates /\ new.due <= new.until
<1>1. ASSUME NEW t \in Tables, NEW k \in {Nil, "CDD", "PAID", "UNPAID"}, NEW d \in Dates \cup {Nil}
      PROVE  /\ Dated(t, k, d) \in Row
             /\ Dated(t, k, d).table = t /\ Dated(t, k, d).due = d
             /\ Dated(t, k, d).until = Nil
             /\ \A u \in Dates : /\ [Dated(t, k, d) EXCEPT !.until = u] \in Row
                                  /\ [Dated(t, k, d) EXCEPT !.until = u].until = u
                                  /\ [Dated(t, k, d) EXCEPT !.until = u].due = d
                                  /\ [Dated(t, k, d) EXCEPT !.until = u].table = t
             /\ \A h \in Hours : /\ [Dated(t, k, d) EXCEPT !.hours = h] \in Row
                                 /\ [Dated(t, k, d) EXCEPT !.hours = h].due = d
                                 /\ [Dated(t, k, d) EXCEPT !.hours = h].table = t
  BY <1>1 DEF Dated, NoRow, Row
<1>2. Tables = {"Obligation", "Contract", "Doc", "LeaveRequest", "Employment", "Deadline", "TimeEntry"}
  BY DEF Tables, StatusesOf
<1>3. CASE \E t \in {"Obligation", "Doc"} : Add(r, Dated(t, Nil, Nil))
  BY <1>1, <1>2, <1>3
<1>4. CASE \E d \in Dates : Add(r, Dated("Deadline", Nil, d)) \/ Add(r, Dated("Contract", "CDD", d))
  BY <1>1, <1>2, <1>4
<1>5. CASE Add(r, Dated("Contract", Nil, Nil))
  BY <1>1, <1>2, <1>5
<1>6. CASE \E d \in Dates \cup {Nil} : Add(r, Dated("Employment", Nil, d))
  BY <1>1, <1>2, <1>6
<1>7. CASE \E k \in {"PAID", "UNPAID"}, d \in Dates : \E u \in d .. MaxDay :
             Add(r, [Dated("LeaveRequest", k, d) EXCEPT !.until = u])
  <2>1. PICK k \in {"PAID", "UNPAID"}, d \in Dates :
               \E u \in d .. MaxDay : Add(r, [Dated("LeaveRequest", k, d) EXCEPT !.until = u])
    BY <1>7
  <2>2. PICK u \in d .. MaxDay : Add(r, [Dated("LeaveRequest", k, d) EXCEPT !.until = u])
    BY <2>1
  <2>3. MaxDay \in Nat
    BY ViewsAssumption
  <2>4. u \in Dates /\ d <= u
    BY <2>3 DEF Dates
  <2> DEFINE new == [Dated("LeaveRequest", k, d) EXCEPT !.until = u]
  <2>5. Good(new)
    BY <1>1, <1>2, <2>4
  <2> QED BY <2>2, <2>5
<1>8. CASE \E h \in Hours, d \in Dates : Add(r, [Dated("TimeEntry", Nil, d) EXCEPT !.hours = h])
  <2>1. PICK h \in Hours, d \in Dates : Add(r, [Dated("TimeEntry", Nil, d) EXCEPT !.hours = h])
    BY <1>8
  <2> DEFINE new == [Dated("TimeEntry", Nil, d) EXCEPT !.hours = h]
  <2>2. Good(new)
    BY <1>1, <1>2, <2>1
  <2> QED BY <2>1, <2>2
<1> QED BY <1>3, <1>4, <1>5, <1>6, <1>7, <1>8 DEF Insert

(* The dates the views rely on: a deadline, a time entry and a leave have  *)
(* a day, and a leave does not end before it starts.                       *)
RowsDated ==
  \A r \in Ids :
    /\ row[r].table \in {"Deadline", "TimeEntry", "LeaveRequest"} => row[r].due \in Dates
    /\ row[r].table = "LeaveRequest" => row[r].until \in Dates /\ row[r].due <= row[r].until
ViewsInv == ViewsTypeOK /\ RowsDated

(* A row that is added, and a status that changes, keep the invariant. *)
LEMMA RowSteps ==
  ASSUME ViewsInv, NEW r \in Ids, NEW new \in Row, Add(r, new),
         new.table \in Tables,
         new.table \in {"Deadline", "TimeEntry", "LeaveRequest"} => new.due \in Dates,
         new.table = "LeaveRequest" => new.until \in Dates /\ new.due <= new.until
  PROVE  ViewsInv'
<1> DEFINE first == StatusesOf[new.table][1]
           added == [new EXCEPT !.status = first]
<1>1. first \in StatusOf(new.table)
  BY StatusTyped
<1>2. first \in {"none"} \cup UNION {StatusOf(t) : t \in Tables}
  BY <1>1, StatusTyped
<1>3. row' = [row EXCEPT ![r] = added] /\ UNCHANGED <<topic, day, emp, place>>
  BY DEF Add
<1> HIDE DEF first
<1>4. /\ added \in Row /\ added.table = new.table /\ added.due = new.due
      /\ added.until = new.until
  BY <1>2 DEF Row
<1> HIDE DEF added
<1>5. ViewsTypeOK'
  BY <1>3, <1>4 DEF ViewsInv, ViewsTypeOK
<1>6. RowsDated'
  BY <1>3, <1>4 DEF ViewsInv, ViewsTypeOK, RowsDated
<1> QED BY <1>5, <1>6 DEF ViewsInv

LEMMA StatusSteps ==
  ASSUME ViewsInv, NEW r \in Ids, NEW t \in Tables, NEW s \in StatusOf(t), Advance(r, s)
  PROVE  ViewsInv'
<1>1. s \in {"none"} \cup UNION {StatusOf(u) : u \in Tables}
  BY StatusTyped
<1>2. row' = [row EXCEPT ![r].status = s] /\ UNCHANGED <<topic, day, emp, place>>
  BY DEF Advance
<1> DEFINE changed == [row[r] EXCEPT !.status = s]
<1>3. row' = [row EXCEPT ![r] = changed]
  BY <1>2 DEF ViewsInv, ViewsTypeOK
<1>4. /\ changed \in Row /\ changed.table = row[r].table /\ changed.due = row[r].due
      /\ changed.until = row[r].until
  BY <1>1 DEF ViewsInv, ViewsTypeOK, Row
<1> HIDE DEF changed
<1>5. ViewsTypeOK'
  BY <1>2, <1>3, <1>4 DEF ViewsInv, ViewsTypeOK
<1>6. RowsDated'
  BY <1>3, <1>4 DEF ViewsInv, ViewsTypeOK, RowsDated
<1> QED BY <1>5, <1>6 DEF ViewsInv

(* So do hirings, moves and departures. *)
LEMMA ChangeSteps ==
  ASSUME ViewsInv, NEW e \in Staff, Change(e)
  PROVE  ViewsInv'
<1>1. row' = row /\ UNCHANGED <<topic, day>>
  BY DEF Change, Archive, Depart, Hire, Move
<1>2. RowsDated'
  BY <1>1 DEF ViewsInv, RowsDated
<1>3. SUFFICES emp' \in [Staff -> EmploymentStatus] /\ place' \in [Staff -> Seq(Assignment)]
  BY <1>1, <1>2 DEF ViewsInv, ViewsTypeOK
<1>4. /\ emp \in [Staff -> EmploymentStatus]
      /\ place \in [Staff -> Seq(Assignment)]
      /\ Dates \subseteq Nat
  BY ViewsAssumption DEF ViewsInv, ViewsTypeOK, Dates
<1>5. ASSUME NEW from \in Dates, NEW manager \in Staff \cup {Nil}
      PROVE  [from |-> from, to |-> Nil, manager |-> manager] \in Assignment
  BY DEF Assignment
<1>6. CASE Archive(e)
  BY <1>4, <1>6 DEF Archive, EmploymentStatus
<1>7. CASE \E d \in Dates : Depart(e, d)
  <2>1. PICK d \in Dates : Depart(e, d)
    BY <1>7
  <2>2. emp' \in [Staff -> EmploymentStatus]
    BY <1>4, <2>1 DEF Depart, EmploymentStatus
  <2> DEFINE p == place[e]
             ended == [i \in DOMAIN p |->
                         IF p[i].to = Nil \/ p[i].to > d THEN [p[i] EXCEPT !.to = d] ELSE p[i]]
  <2>3. place' = [place EXCEPT ![e] = ended]
    BY <1>4, <2>1 DEF Depart
  <2>4. p \in Seq(Assignment)
    BY <1>4
  <2>5. ASSUME NEW a \in Assignment PROVE [a EXCEPT !.to = d] \in Assignment
    BY DEF Assignment
  <2>6. ended \in Seq(Assignment)
    <3> HIDE DEF p
    <3>1. Len(p) \in Nat /\ DOMAIN p = 1 .. Len(p) /\ \A i \in 1 .. Len(p) : p[i] \in Assignment
      BY <2>4
    <3>2. ended \in [1 .. Len(p) -> Assignment]
      BY <2>5, <3>1
    <3> QED BY <3>1, <3>2
  <2> HIDE DEF ended
  <2> QED BY <1>4, <2>2, <2>3, <2>6
<1>8. CASE \E d \in Dates, m \in (Staff \ {e}) \cup {Nil} : Hire(e, d, m)
  BY <1>4, <1>5, <1>8 DEF Hire, EmploymentStatus
<1>9. CASE \E d \in Dates, m \in (Staff \ {e}) \cup {Nil} : Move(e, d, m)
  <2>1. PICK d \in Dates, m \in (Staff \ {e}) \cup {Nil} : Move(e, d, m)
    BY <1>9
  <2> DEFINE p == place[e]
             open == {i \in DOMAIN p : p[i].to = Nil}
             latest == {i \in open : \A j \in open : p[j].from <= p[i].from}
             closed == [i \in DOMAIN p |->
                          IF latest # {} /\ i = Max(latest) THEN [p[i] EXCEPT !.to = d - 1] ELSE p[i]]
             last == [from |-> d, to |-> Nil, manager |-> m]
  <2>2. place' = [place EXCEPT ![e] = Append(closed, last)] /\ emp' = emp
    BY <2>1 DEF Move
  <2>3. p \in Seq(Assignment) /\ last \in Assignment
    BY <1>4, <1>5
  <2>4. d - 1 \in Dates \cup {-1}
    BY ViewsAssumption DEF Dates
  <2>5. ASSUME NEW a \in Assignment PROVE [a EXCEPT !.to = d - 1] \in Assignment
    BY <2>4 DEF Assignment
  <2>6. closed \in Seq(Assignment)
    <3> HIDE DEF p, latest
    <3>1. Len(p) \in Nat /\ DOMAIN p = 1 .. Len(p) /\ \A i \in 1 .. Len(p) : p[i] \in Assignment
      BY <2>3
    <3>2. closed \in [1 .. Len(p) -> Assignment]
      BY <2>5, <3>1
    <3> QED BY <3>1, <3>2
  <2> HIDE DEF closed, last
  <2>7. Append(closed, last) \in Seq(Assignment)
    BY <2>3, <2>6
  <2> QED BY <1>4, <2>2, <2>7
<1> QED BY <1>6, <1>7, <1>8, <1>9 DEF Change

LEMMA ViewsInductive == ViewsSpec => []ViewsInv
<1>1. ViewsInit => ViewsInv
  <2> SUFFICES ASSUME ViewsInit PROVE ViewsInv
    OBVIOUS
  <2>1. NoRow \in Row /\ NoRow.table = "none" /\ 0 \in Dates
    BY ViewsAssumption DEF NoRow, Row, Dates
  <2>2. ViewsTypeOK
    BY <2>1 DEF ViewsInit, ViewsTypeOK, EmploymentStatus
  <2>3. RowsDated
    BY <2>1 DEF ViewsInit, RowsDated
  <2> QED BY <2>2, <2>3 DEF ViewsInv
<1>2. ViewsInv /\ [ViewsNext]_(viewVars) => ViewsInv'
  <2> SUFFICES ASSUME ViewsInv, [ViewsNext]_(viewVars) PROVE ViewsInv'
    OBVIOUS
  <2>1. CASE NextDay
    BY <2>1, ViewsAssumption DEF NextDay, ViewsInv, ViewsTypeOK, RowsDated, Dates
  <2>2. CASE \E e \in Staff : Change(e)
    BY <2>2, ChangeSteps
  <2>3. CASE \E r \in Ids : Insert(r)
    BY <2>3, InsertIs, RowSteps
  <2>4. CASE \E r \in Ids : \E t \in Tables : \E s \in StatusOf(t) : Advance(r, s)
    BY <2>4, StatusSteps
  <2>5. CASE UNCHANGED viewVars
    BY <2>5 DEF viewVars, ViewsInv, ViewsTypeOK, RowsDated
  <2> QED BY <2>1, <2>2, <2>3, <2>4, <2>5 DEF ViewsNext
<1> QED BY <1>1, <1>2, PTL DEF ViewsSpec

(* Every row, assignment and status is of its type, whatever is hired,     *)
(* moved, added or changed (Services.hire, addAssignment,                  *)
(* declareDeparture and the rows of the other services).                   *)
THEOREM ViewsTypeCorrect == ViewsSpec => []ViewsTypeOK
<1>1. ViewsInv => ViewsTypeOK
  BY DEF ViewsInv
<1> QED BY <1>1, ViewsInductive, PTL

-----------------------------------------------------------------------------
(* Alerts. *)
LEMMA RankIs ==
  /\ Rank(Severity["OVERDUE"]) = 0 /\ Rank(Severity["DUE_SOON"]) = 1
  /\ Rank("CRITICAL") = 0 /\ Rank("IMPORTANT") = 1 /\ Rank("ACTION") = 2
  BY DEF Rank, Severity

(* A date gets no less pressing as days pass. *)
LEMMA Pressing ==
  ASSUME NEW due \in Int, day \in Int, day' \in Int, day <= day', SoonDays \in Nat,
         statusOf(due) # "UPCOMING"
  PROVE  /\ statusOf(due)' # "UPCOMING"
         /\ Rank(Severity[statusOf(due)']) <= Rank(Severity[statusOf(due)])
<1>1. \/ statusOf(due) = "OVERDUE" /\ statusOf(due)' = "OVERDUE"
      \/ statusOf(due) = "DUE_SOON" /\ statusOf(due)' \in {"OVERDUE", "DUE_SOON"}
  <2>1. PICK d \in Int, n \in Int : d = due - day /\ n = due - day' /\ n <= d
    <3>1. PICK x \in Int, y \in Int : x = day /\ y = day'
      OBVIOUS
    <3>2. x <= y
      BY <3>1
    <3>3. due - x \in Int /\ due - y \in Int /\ due - y <= due - x
      BY <3>2
    <3> QED BY <3>1, <3>3
  <2>2. /\ statusOf(due) = IF d < 0 THEN "OVERDUE" ELSE IF d <= SoonDays THEN "DUE_SOON" ELSE "UPCOMING"
        /\ statusOf(due)' = IF n < 0 THEN "OVERDUE" ELSE IF n <= SoonDays THEN "DUE_SOON" ELSE "UPCOMING"
    BY <2>1 DEF statusOf, daysUntil
  <2>3. d <= SoonDays
    BY <2>2
  <2>4. n <= SoonDays /\ (d < 0 => n < 0)
    <3>1. ASSUME NEW soon \in Nat, NEW x \in Int, NEW y \in Int, y <= x, x <= soon
          PROVE  y <= soon /\ (x < 0 => y < 0)
      BY <3>1
    <3> QED BY <2>1, <2>3, <3>1
  <2> QED BY <2>2, <2>3, <2>4
<1> QED BY <1>1, RankIs

LEMMA DateAlertsGrow ==
  ASSUME day \in Int, day' \in Int, day <= day', SoonDays \in Nat, row' = row,
         NEW rows, \A r \in rows : row[r].due \in Int, NEW category,
         NEW a \in DateAlerts(rows, category)
  PROVE  \E b \in DateAlerts(rows, category)' :
           b.ref = a.ref /\ b.category = a.category /\ Rank(b.severity) <= Rank(a.severity)
<1>1. PICK r \in rows : /\ statusOf(row[r].due) # "UPCOMING"
                        /\ a = Alert(Severity[statusOf(row[r].due)], category, r)
  BY DEF DateAlerts
<1>2. PICK due \in Int : due = row[r].due
  OBVIOUS
<1>3. /\ statusOf(due)' # "UPCOMING"
      /\ Rank(Severity[statusOf(due)']) <= Rank(Severity[statusOf(due)])
  BY <1>1, <1>2, Pressing
<1>4. statusOf(row[r].due)' = statusOf(due)'
  BY <1>2 DEF statusOf, daysUntil
<1> DEFINE b == Alert(Severity[statusOf(due)'], category, r)
<1>5. b \in DateAlerts(rows, category)'
  BY <1>2, <1>3 DEF DateAlerts, Alert, statusOf, daysUntil
<1>6. b.ref = a.ref /\ b.category = a.category /\ Rank(b.severity) <= Rank(a.severity)
  BY <1>1, <1>2, <1>3 DEF Alert
<1> QED BY <1>5, <1>6

(* As days pass and nobody acts, no alert goes away or becomes less        *)
(* pressing (statusOf, NotificationService.build).                         *)
THEOREM AlertsPress == ViewsSpec => UrgencyGrows
<1> DEFINE Grows == \A a \in build : \E b \in build' :
         b.ref = a.ref /\ b.category = a.category /\ Rank(b.severity) <= Rank(a.severity)
<1>1. ViewsInv /\ [ViewsNext]_(viewVars) => [row' = row => Grows]_(viewVars)
  <2> SUFFICES ASSUME ViewsInv, ViewsNext, row' = row PROVE Grows
    OBVIOUS
  <2>1. day \in Int /\ SoonDays \in Nat /\ Dates \subseteq Int
    BY ViewsAssumption DEF ViewsInv, ViewsTypeOK, Dates
  <2>2. day' = day \/ day' = day + 1
    BY DEF ViewsNext, NextDay, Change, Archive, Depart, Hire, Move, Insert, Add, Advance
  <2>3. day' \in Int /\ day <= day'
    BY <2>1, <2>2
  <2> TAKE a \in build
  <2>4. CASE \E category : \E rows :
                /\ a \in DateAlerts(rows, category)
                /\ DateAlerts(rows, category)' \subseteq build'
                /\ \A r \in rows : row[r].due \in Int
    BY <2>1, <2>3, <2>4, DateAlertsGrow
  <2>5. CASE a \in DateAlerts(CddEnds, "contract_end")
    <3> DEFINE rows == CddEnds
    <3>1. PICK s : s = CddEnds
      OBVIOUS
    <3>2. CddEnds' = s
      BY <3>1 DEF CddEnds, Has
    <3>3. \A r \in s : row[r].due \in Int
      BY <2>1, <3>1 DEF CddEnds, Has, ViewsInv, ViewsTypeOK, Row
    <3>4. DateAlerts(s, "contract_end")' \subseteq build'
      BY <3>2 DEF build, DateAlerts, Alert
    <3> QED BY <2>4, <2>5, <3>1, <3>3, <3>4
  <2>6. CASE a \in DateAlerts({r \in Has("Deadline") : row[r].status = "OPEN"}, "deadline")
    <3>1. PICK s : s = {r \in Has("Deadline") : row[r].status = "OPEN"}
      OBVIOUS
    <3>2. s = {r \in Has("Deadline") : row[r].status = "OPEN"}'
      BY <3>1 DEF Has
    <3>3. \A r \in s : row[r].due \in Int
      BY <2>1, <3>1 DEF Has, ViewsInv, RowsDated
    <3>4. DateAlerts(s, "deadline")' \subseteq build'
      BY <3>2 DEF build, DateAlerts, Alert
    <3> QED BY <2>4, <2>6, <3>1, <3>3, <3>4
  <2>7. CASE a \notin DateAlerts({r \in Has("Deadline") : row[r].status = "OPEN"}, "deadline")
             /\ a \notin DateAlerts(CddEnds, "contract_end")
    <3>1. a \in build'
      BY <2>7 DEF build, Alerts, Alert, Has
    <3>2. Rank(a.severity) <= Rank(a.severity)
      BY <2>7, RankIs DEF build, Alerts, Alert
    <3> QED BY <3>1, <3>2
  <2> QED BY <2>5, <2>6, <2>7
<1> QED BY <1>1, ViewsInductive, PTL DEF ViewsSpec, UrgencyGrows

(* The alerts and the watch say the same of every deadline and every end   *)
(* of a contract (NotificationService.build, DeadlineService.forCompany).  *)
THEOREM AlertsMatch == ViewsSpec => []AlertsAgree
<1>1. AlertsAgree
  <2> DEFINE open == {r \in Has("Deadline") : row[r].status = "OPEN"}
             dated == open \cup CddEnds
             L == {<<a.ref, a.severity>> : a \in {b \in build : b.category \in {"deadline", "contract_end"}}}
             R == {<<i[1], Severity[i[2]]>> : i \in {j \in forCompany : /\ j[2] # "UPCOMING"
                                                            /\ row[j[1]].table # "Employment"}}
             M == {<<r, Severity[statusOf(row[r].due)]>> : r \in {q \in dated : statusOf(row[q].due) # "UPCOMING"}}
  <2>1. {b \in build : b.category \in {"deadline", "contract_end"}}
          = DateAlerts(open, "deadline") \cup DateAlerts(CddEnds, "contract_end")
    BY DEF build, DateAlerts, Alerts, Alert
  <2>2. L = M
    <3>1. ASSUME NEW x \in L PROVE x \in M
      <4>1. PICK a \in DateAlerts(open, "deadline") \cup DateAlerts(CddEnds, "contract_end") :
                   x = <<a.ref, a.severity>>
        BY <2>1, <3>1
      <4>2. PICK r \in dated, c \in {"deadline", "contract_end"} :
                   /\ statusOf(row[r].due) # "UPCOMING"
                   /\ a = Alert(Severity[statusOf(row[r].due)], c, r)
        BY <4>1 DEF DateAlerts
      <4> QED BY <4>1, <4>2 DEF Alert
    <3>2. ASSUME NEW x \in M PROVE x \in L
      <4>1. PICK r \in dated : /\ statusOf(row[r].due) # "UPCOMING"
                               /\ x = <<r, Severity[statusOf(row[r].due)]>>
        BY <3>2
      <4>2. PICK c \in {"deadline", "contract_end"} :
                   \/ c = "deadline" /\ r \in open
                   \/ c = "contract_end" /\ r \in CddEnds
        BY <4>1
      <4> DEFINE a == Alert(Severity[statusOf(row[r].due)], c, r)
      <4>3. a \in DateAlerts(open, "deadline") \cup DateAlerts(CddEnds, "contract_end")
        BY <4>1, <4>2 DEF DateAlerts
      <4>4. x = <<a.ref, a.severity>>
        BY <4>1 DEF Alert
      <4> QED BY <2>1, <4>3, <4>4
    <3> QED BY <3>1, <3>2
  <2>3. \A r \in dated : row[r].table # "Employment"
    BY DEF CddEnds, Has
  <2>4. {j \in forCompany : j[2] # "UPCOMING" /\ row[j[1]].table # "Employment"}
          = {<<r, statusOf(row[r].due)>> : r \in {q \in dated : statusOf(row[q].due) # "UPCOMING"}}
    BY <2>3 DEF forCompany, Has
  <2>5. R = M
    <3> DEFINE J == {j \in forCompany : j[2] # "UPCOMING" /\ row[j[1]].table # "Employment"}
               D == {q \in dated : statusOf(row[q].due) # "UPCOMING"}
    <3>1. J = {<<r, statusOf(row[r].due)>> : r \in D}
      BY <2>4
    <3>2. R = {<<i[1], Severity[i[2]]>> : i \in J} /\ M = {<<r, Severity[statusOf(row[r].due)]>> : r \in D}
      OBVIOUS
    <3> HIDE DEF J, D, R, M
    <3>3. ASSUME NEW x \in R PROVE x \in M
      <4>1. PICK r \in D : x = <<r, Severity[statusOf(row[r].due)]>>
        <5>1. PICK j \in J : x = <<j[1], Severity[j[2]]>>
          BY <3>2, <3>3
        <5>2. PICK r \in D : j = <<r, statusOf(row[r].due)>>
          BY <3>1, <5>1
        <5> QED BY <5>1, <5>2
      <4> QED BY <3>2, <4>1
    <3>4. ASSUME NEW x \in M PROVE x \in R
      <4>1. PICK r \in D : x = <<r, Severity[statusOf(row[r].due)]>>
        BY <3>2, <3>4
      <4> DEFINE j == <<r, statusOf(row[r].due)>>
      <4>2. j \in J /\ x = <<j[1], Severity[j[2]]>>
        BY <3>1, <4>1
      <4> QED BY <3>2, <4>2
    <3> QED BY <3>3, <3>4
  <2> QED BY <2>2, <2>5 DEF AlertsAgree
<1> QED BY <1>1, PTL DEF ViewsSpec

-----------------------------------------------------------------------------
(* A set of naturals that is not empty has a least element. *)
LEMMA LeastNumber ==
  ASSUME NEW S, S \subseteq Nat, S # {}
  PROVE  \E m \in S : \A k \in S : m <= k
<1> DEFINE R == OpToRel(<, Nat)
<1>1. IsWellFoundedOn(R, Nat)
  BY NatLessThanWellFounded
<1>2. \A i, j \in Nat : i < j => <<i, j>> \in R
  BY DEF OpToRel
<1> HIDE DEF R
<1>3. PICK m \in S : \A k \in S : ~(<<k, m>> \in R)
  BY <1>1, WFMin
<1>4. ASSUME NEW k \in S PROVE m <= k
  <2>1. k \in Nat /\ m \in Nat /\ ~(k < m)
    BY <1>2, <1>3
  <2> QED BY <2>1
<1> QED BY <1>4

(* Induction, for a set in place of a predicate. *)
LEMMA Inductive ==
  ASSUME NEW S, 0 \in S, \A n \in Nat : n \in S => n + 1 \in S
  PROVE  \A n \in Nat : n \in S
<1> DEFINE Bad == {n \in Nat : n \notin S}
<1>1. SUFFICES ASSUME Bad # {} PROVE FALSE
  OBVIOUS
<1>2. PICK m \in Bad : \A k \in Bad : m <= k
  <2>1. Bad \subseteq Nat
    OBVIOUS
  <2> HIDE DEF Bad
  <2> QED BY <1>1, <2>1, LeastNumber
<1>3. m # 0 /\ m - 1 \in Nat /\ (m - 1) + 1 = m
  BY <1>2
<1>4. m - 1 \in S
  BY <1>2, <1>3
<1> QED BY <1>2, <1>3, <1>4

(* A function of a set to itself can be applied to an element any number   *)
(* of times.                                                               *)
LEMMA Iterates ==
  ASSUME NEW D, NEW a \in D, NEW f \in [D -> D]
  PROVE  \E u \in [Nat -> D] : u[0] = a /\ \A n \in Nat : u[n + 1] = f[u[n]]
<1> DEFINE P(u, k) == u[0] = a /\ \A n \in Nat : n < k => u[n + 1] = f[u[n]]
           Good == {k \in Nat : \E u \in [Nat -> D] : P(u, k)}
<1>1. 0 \in Good
  <2> DEFINE u == [n \in Nat |-> a]
  <2>1. u \in [Nat -> D] /\ P(u, 0)
    OBVIOUS
  <2> QED BY <2>1
<1>2. ASSUME NEW k \in Nat, k \in Good PROVE k + 1 \in Good
  <2>1. PICK u \in [Nat -> D] : P(u, k)
    BY <1>2
  <2> DEFINE v == [n \in Nat |-> IF n <= k THEN u[n] ELSE f[u[k]]]
  <2>2. v \in [Nat -> D]
    OBVIOUS
  <2>3. v[0] = u[0]
    OBVIOUS
  <2>4. ASSUME NEW n \in Nat, n < k + 1 PROVE v[n + 1] = f[v[n]]
    <3>1. v[n] = u[n]
      BY <2>4
    <3>2. CASE n = k
      BY <3>1, <3>2
    <3>3. CASE n < k
      <4>1. v[n + 1] = u[n + 1] /\ u[n + 1] = f[u[n]]
        BY <2>1, <3>3
      <4> QED BY <3>1, <4>1
    <3> QED BY <2>4, <3>2, <3>3
  <2> HIDE DEF v
  <2>5. P(v, k + 1)
    BY <2>1, <2>3, <2>4
  <2> QED BY <2>2, <2>5
<1>3. \A k \in Nat : k \in Good
  <2> HIDE DEF Good
  <2> QED BY <1>1, <1>2, Inductive
<1> DEFINE g(k) == CHOOSE u \in [Nat -> D] : P(u, k)
           val == [n \in Nat |-> g(n)[n]]
<1>4. ASSUME NEW k \in Nat PROVE g(k) \in [Nat -> D] /\ P(g(k), k)
  BY <1>3
<1> HIDE DEF g
<1>5. ASSUME NEW k \in Nat PROVE g(k)[k] = g(k + 1)[k]
  <2> DEFINE Same == {n \in Nat : n <= k => g(k)[n] = g(k + 1)[n]}
  <2>1. 0 \in Same
    BY <1>4
  <2>2. ASSUME NEW n \in Nat, n \in Same, n + 1 <= k PROVE g(k)[n + 1] = g(k + 1)[n + 1]
    <3>1. n <= k /\ n < k /\ n < k + 1
      BY <2>2
    <3>2. g(k)[n + 1] = f[g(k)[n]] /\ g(k + 1)[n + 1] = f[g(k + 1)[n]]
      BY <1>4, <3>1
    <3> QED BY <2>2, <3>1, <3>2
  <2>3. \A n \in Nat : n \in Same => n + 1 \in Same
    BY <2>2
  <2> HIDE DEF Same
  <2>4. k \in Same
    BY <2>1, <2>3, Inductive
  <2> QED BY <2>4 DEF Same
<1>6. val \in [Nat -> D] /\ val[0] = a
  BY <1>4
<1>7. ASSUME NEW n \in Nat PROVE val[n + 1] = f[val[n]]
  <2>1. g(n + 1)[n + 1] = f[g(n + 1)[n]]
    BY <1>4
  <2> QED BY <1>5, <2>1
<1> QED BY <1>6, <1>7

-----------------------------------------------------------------------------
(* The organisation chart: the line of managers above somebody, and how    *)
(* deep the chart lists.                                                   *)
LEMMA LineIs ==
  ASSUME NEW e \in Nodes
  PROVE  /\ Line(e)[0] = e
         /\ \A n \in Nat : Line(e)[n + 1] =
              IF Line(e)[n] \in Nodes THEN ManagerOf(Line(e)[n]) ELSE Line(e)[n]
<1> DEFINE D == Nodes \cup {ManagerOf(x) : x \in Nodes}
           f == [x \in D |-> IF x \in Nodes THEN ManagerOf(x) ELSE x]
           IsLine(u) == u = [n \in Nat |-> IF n = 0 THEN e
                               ELSE IF u[n - 1] \in Nodes THEN ManagerOf(u[n - 1]) ELSE u[n - 1]]
<1>1. e \in D /\ f \in [D -> D]
  OBVIOUS
<1>2. PICK u \in [Nat -> D] : u[0] = e /\ \A n \in Nat : u[n + 1] = f[u[n]]
  <2>1. PICK dom, step, first : dom = D /\ step = f /\ first = e
    OBVIOUS
  <2> HIDE DEF D, f
  <2>2. first \in dom /\ step \in [dom -> dom]
    BY <1>1, <2>1
  <2>3. \E u \in [Nat -> dom] : u[0] = first /\ \A n \in Nat : u[n + 1] = step[u[n]]
    BY ONLY <2>2, Iterates, Z3
  <2> QED BY <2>1, <2>3
<1>3. IsLine(u)
  <2>1. u = [n \in Nat |-> u[n]]
    OBVIOUS
  <2>2. ASSUME NEW n \in Nat, n # 0
        PROVE  u[n] = IF u[n - 1] \in Nodes THEN ManagerOf(u[n - 1]) ELSE u[n - 1]
    <3>1. n - 1 \in Nat /\ (n - 1) + 1 = n
      BY <2>2
    <3>2. u[n] = f[u[n - 1]] /\ u[n - 1] \in D
      BY <1>2, <3>1
    <3> HIDE DEF D
    <3> QED BY <3>2
  <2> HIDE DEF D, f
  <2> QED BY <1>2, <2>1, <2>2
<1>4. Line(e) = CHOOSE w : IsLine(w)
  BY DEF Line
<1>5. IsLine(Line(e))
  <2> HIDE DEF IsLine
  <2> QED BY <1>3, <1>4
<1>6. PICK w : w = Line(e) /\ IsLine(w)
  BY <1>5
<1>7. w[0] = e
  BY <1>6
<1>8. ASSUME NEW n \in Nat
      PROVE  w[n + 1] = IF w[n] \in Nodes THEN ManagerOf(w[n]) ELSE w[n]
  <2>1. n + 1 \in Nat /\ n + 1 # 0 /\ (n + 1) - 1 = n
    OBVIOUS
  <2> QED BY <1>6, <2>1
<1> QED BY <1>6, <1>7, <1>8

LEMMA StripIs ==
  /\ strip[0] = Roots
  /\ \A n \in Nat : strip[n + 1] =
       strip[n] \cup {e \in Nodes : ManagerOf(e) \in strip[n]}
<1> DEFINE D == SUBSET Nodes
           f == [T \in D |-> T \cup {e \in Nodes : ManagerOf(e) \in T}]
           IsStrip(u) == u = [n \in Nat |-> IF n = 0 THEN Roots
                                ELSE u[n - 1] \cup {e \in Nodes : ManagerOf(e) \in u[n - 1]}]
<1>1. Roots \in D /\ f \in [D -> D]
  BY DEF Roots
<1>2. PICK u \in [Nat -> D] : u[0] = Roots /\ \A n \in Nat : u[n + 1] = f[u[n]]
  <2>1. PICK dom, step, first : dom = D /\ step = f /\ first = Roots
    OBVIOUS
  <2> HIDE DEF D, f
  <2>2. first \in dom /\ step \in [dom -> dom]
    BY <1>1, <2>1
  <2>3. \E u \in [Nat -> dom] : u[0] = first /\ \A n \in Nat : u[n + 1] = step[u[n]]
    BY <2>2, Iterates
  <2> QED BY <2>1, <2>3
<1>3. IsStrip(u)
  <2>1. u = [n \in Nat |-> u[n]]
    OBVIOUS
  <2>2. ASSUME NEW n \in Nat, n # 0
        PROVE  u[n] = u[n - 1] \cup {e \in Nodes : ManagerOf(e) \in u[n - 1]}
    <3>1. n - 1 \in Nat /\ (n - 1) + 1 = n
      BY <2>2
    <3>2. u[n] = f[u[n - 1]] /\ u[n - 1] \in D
      BY <1>2, <3>1
    <3> HIDE DEF D
    <3> QED BY <3>2
  <2> HIDE DEF D, f
  <2> QED BY <1>2, <2>1, <2>2
<1>4. strip = CHOOSE w : IsStrip(w)
  BY DEF strip
<1>5. IsStrip(strip)
  <2> HIDE DEF IsStrip
  <2> QED BY <1>3, <1>4
<1>6. PICK w : w = strip /\ IsStrip(w)
  BY <1>5
<1>7. w[0] = Roots
  BY <1>6
<1>8. ASSUME NEW n \in Nat
      PROVE  w[n + 1] = w[n] \cup {e \in Nodes : ManagerOf(e) \in w[n]}
  <2>1. n + 1 \in Nat /\ n + 1 # 0 /\ (n + 1) - 1 = n
    OBVIOUS
  <2> QED BY <1>6, <2>1
<1> QED BY <1>6, <1>7, <1>8

(* Once out of the chart, the line stays out. *)
LEMMA LineStaysOut ==
  ASSUME NEW e \in Nodes, NEW m \in Nat, NEW n \in Nat, m <= n, Line(e)[m] \notin Nodes
  PROVE  Line(e)[n] \notin Nodes
<1>1. PICK Out : Out = {k \in Nat : Line(e)[m + k] \notin Nodes}
  OBVIOUS
<1>2. 0 \in Out
  BY <1>1
<1>3. ASSUME NEW k \in Nat, k \in Out PROVE k + 1 \in Out
  <2>1. m + k \in Nat /\ m + (k + 1) = (m + k) + 1
    OBVIOUS
  <2>2. Line(e)[(m + k) + 1] = Line(e)[m + k]
    BY <1>1, <1>3, <2>1, LineIs
  <2> QED BY <1>1, <1>3, <2>1, <2>2
<1>4. n - m \in Nat /\ m + (n - m) = n
  OBVIOUS
<1>5. n - m \in Out
  BY <1>2, <1>3, <1>4, Inductive
<1> QED BY <1>1, <1>4, <1>5

(* The line above a manager is that above those who report to him. *)
LEMMA LineOfManager ==
  ASSUME NEW e \in Nodes, NEW m \in Nodes, ManagerOf(e) = m, NEW n \in Nat
  PROVE  Line(e)[n + 1] = Line(m)[n]
<1>1. PICK Same : Same = {k \in Nat : Line(e)[k + 1] = Line(m)[k]}
  OBVIOUS
<1>2. 0 \in Same
  BY <1>1, LineIs
<1>3. ASSUME NEW k \in Nat, k \in Same PROVE k + 1 \in Same
  <2>1. k + 1 \in Nat
    OBVIOUS
  <2> QED BY <1>1, <1>3, <2>1, LineIs
<1>4. n \in Same
  BY <1>2, <1>3, Inductive
<1> QED BY <1>1, <1>4

(* Somebody is listed down to a depth if his line is out of the chart by   *)
(* then.                                                                   *)
LEMMA ListedByDepth ==
  ASSUME NEW n \in Nat, NEW e \in Nodes
  PROVE  e \in strip[n] <=> Line(e)[n + 1] \notin Nodes
<1>1. PICK Good : Good = {k \in Nat : \A x \in Nodes : x \in strip[k] <=> Line(x)[k + 1] \notin Nodes}
  OBVIOUS
<1>2. 0 \in Good
  <2>1. ASSUME NEW x \in Nodes PROVE Line(x)[0 + 1] = ManagerOf(x)
    BY LineIs
  <2>2. \A x \in Nodes : x \in strip[0] <=> ManagerOf(x) \notin Nodes
    BY StripIs DEF Roots
  <2> QED BY <1>1, <2>1, <2>2
<1>3. ASSUME NEW k \in Nat, k \in Good PROVE k + 1 \in Good
  <2>1. ASSUME NEW x \in Nodes
        PROVE  x \in strip[k + 1] <=> Line(x)[(k + 1) + 1] \notin Nodes
    <3>1. x \in strip[k + 1] <=> x \in strip[k] \/ ManagerOf(x) \in strip[k]
      BY StripIs
    <3>2. x \in strip[k] <=> Line(x)[k + 1] \notin Nodes
      BY <1>1, <1>3
    <3>3. Line(x)[k + 1] \notin Nodes => Line(x)[(k + 1) + 1] \notin Nodes
      <4>1. k + 1 \in Nat /\ (k + 1) + 1 \in Nat /\ k + 1 <= (k + 1) + 1
        OBVIOUS
      <4> QED BY <4>1, LineStaysOut
    <3>4. CASE ManagerOf(x) \in Nodes
      <4>1. PICK m \in Nodes : ManagerOf(x) = m
        BY <3>4
      <4>2. m \in strip[k] <=> Line(m)[k + 1] \notin Nodes
        BY <1>1, <1>3
      <4>3. Line(x)[(k + 1) + 1] = Line(m)[k + 1]
        <5>1. k + 1 \in Nat
          OBVIOUS
        <5> QED BY <4>1, <5>1, LineOfManager
      <4> QED BY <3>1, <3>2, <3>3, <4>1, <4>2, <4>3
    <3>5. CASE ManagerOf(x) \notin Nodes
      <4>1. strip[k] \subseteq Nodes
        <5>1. PICK In : In = {i \in Nat : strip[i] \subseteq Nodes}
          OBVIOUS
        <5>2. 0 \in In
          BY <5>1, StripIs DEF Roots
        <5>3. ASSUME NEW i \in Nat, i \in In PROVE i + 1 \in In
          BY <5>1, <5>3, StripIs
        <5>4. k \in In
          BY <5>2, <5>3, Inductive
        <5> QED BY <5>1, <5>4
      <4>2. Line(x)[1] = ManagerOf(x)
        <5>1. Line(x)[0 + 1] = ManagerOf(x)
          BY LineIs
        <5> QED BY <5>1
      <4>3. Line(x)[k + 1] \notin Nodes
        <5>1. 1 \in Nat /\ k + 1 \in Nat /\ 1 <= k + 1
          OBVIOUS
        <5> QED BY <3>5, <4>2, <5>1, LineStaysOut
      <4> QED BY <3>1, <3>2, <3>3, <3>5, <4>1, <4>3
    <3> QED BY <3>4, <3>5
  <2> QED BY <1>1, <2>1
<1>4. n \in Good
  BY <1>2, <1>3, Inductive
<1> QED BY <1>1, <1>4

(* A line goes round in a circle exactly when it is longer than there are  *)
(* people: some manager comes twice on it, and then it never leaves.       *)
LEMMA CircleIsLong ==
  ASSUME NEW e \in Nodes, IsFiniteSet(Nodes)
  PROVE  InCircle(e) <=> Line(e)[Cardinality(Nodes) + 1] \in Nodes
<1>1. PICK nodes : nodes = Nodes /\ IsFiniteSet(nodes)
  OBVIOUS
<1>2. PICK N \in Nat : N = Cardinality(nodes)
  BY <1>1, FS_CardinalityType
<1>3. PICK line : line = [n \in Nat |-> Line(e)[n]]
  OBVIOUS
<1>4. InCircle(e) <=> \E i, j \in 0 .. N : i < j /\ line[i] = line[j] /\ line[i] \in nodes
  <2>1. Cardinality(Nodes) = N
    BY <1>1, <1>2
  <2>2. \A i \in 0 .. N : line[i] = Line(e)[i]
    BY <1>3
  <2> QED BY <1>1, <2>1, <2>2 DEF InCircle
<1>5. ASSUME NEW m \in Nat, NEW n \in Nat, m <= n, line[n] \in nodes PROVE line[m] \in nodes
  BY <1>1, <1>3, <1>5, LineStaysOut
<1>6. ASSUME line[N + 1] \in nodes
      PROVE  \E i, j \in 0 .. N : i < j /\ line[i] = line[j] /\ line[i] \in nodes
  <2> DEFINE S == 0 .. N
             f == [n \in S |-> line[n]]
  <2>1. f \in [S -> nodes]
    <3>1. ASSUME NEW n \in S PROVE line[n] \in nodes
      <4>1. n \in Nat /\ N + 1 \in Nat /\ n <= N + 1
        OBVIOUS
      <4> QED BY <1>5, <1>6, <4>1
    <3> QED BY <3>1
  <2>2. IsFiniteSet(S) /\ Cardinality(S) = N + 1
    <3>1. 0 \in Int /\ N \in Int /\ 0 <= N /\ (N - 0) + 1 = N + 1
      OBVIOUS
    <3> QED BY <3>1, FS_Interval
  <2>3. Cardinality(nodes) < Cardinality(S)
    BY <1>1, <1>2, <2>2
  <2>4. PICK x, y \in S : x # y /\ f[x] = f[y]
    <3> HIDE DEF S, f
    <3> QED BY <1>1, <2>1, <2>2, <2>3, FS_PigeonHole
  <2>5. line[x] = line[y] /\ line[x] \in nodes
    BY <2>1, <2>4
  <2>6. x \in 0 .. N /\ y \in 0 .. N /\ (x < y \/ y < x)
    BY <2>4
  <2> QED BY <2>5, <2>6
<1>7. ASSUME NEW i \in 0 .. N, NEW j \in 0 .. N, i < j, line[i] = line[j], line[i] \in nodes,
             line[N + 1] \notin nodes
      PROVE  FALSE
  <2> DEFINE Out == {n \in Nat : line[n] \notin nodes}
             Same == {k \in Nat : line[i + k] = line[j + k]}
  <2>1. N + 1 \in Out
    BY <1>7
  <2>2. PICK p \in Out : \A n \in Out : p <= n
    <3>1. Out \subseteq Nat /\ Out # {}
      BY <2>1
    <3> HIDE DEF Out
    <3> QED BY <3>1, LeastNumber
  <2>3. p \in Nat /\ line[p] \notin nodes
    BY <2>2
  <2>4. ~(p <= j)
    BY <1>5, <1>7, <2>3
  <2>5. 0 \in Same
    BY <1>7
  <2>6. ASSUME NEW k \in Nat, k \in Same PROVE k + 1 \in Same
    <3>1. /\ i + k \in Nat /\ j + k \in Nat
          /\ i + (k + 1) = (i + k) + 1 /\ j + (k + 1) = (j + k) + 1
      OBVIOUS
    <3>2. line[(i + k) + 1] = line[(j + k) + 1]
      <4>1. Line(e)[i + k] = Line(e)[j + k]
        BY <1>3, <2>6, <3>1
      <4>2. Line(e)[(i + k) + 1] = Line(e)[(j + k) + 1]
        BY <3>1, <4>1, LineIs
      <4> QED BY <1>3, <3>1, <4>2
    <3> QED BY <3>1, <3>2
  <2> DEFINE k == p - j
  <2>7. k \in Nat /\ j + k = p /\ i + k \in Nat /\ i + k < p
    BY <2>3, <2>4, <1>7
  <2> HIDE DEF k
  <2>8. k \in Same
    <3> HIDE DEF Same
    <3> QED BY <2>5, <2>6, <2>7, Inductive
  <2>9. i + k \in Out
    BY <2>3, <2>7, <2>8
  <2>10. p <= i + k
    BY <2>2, <2>9
  <2> HIDE DEF Out, Same
  <2> QED BY <2>3, <2>7, <2>10
<1>8. Line(e)[Cardinality(Nodes) + 1] = line[N + 1]
  BY <1>1, <1>2, <1>3
<1> QED BY <1>1, <1>4, <1>6, <1>7, <1>8

(* The chart lists everybody whose line of managers ends, however deep,    *)
(* and nobody whose line goes round in a circle (OrgService.chart).        *)
THEOREM ChartIsComplete == ViewsSpec => []ChartComplete
<1>1. ChartComplete
  <2>1. IsFiniteSet(Nodes)
    <3>1. IsFiniteSet(Staff)
      BY ViewsAssumption
    <3>2. Nodes \subseteq Staff
      BY DEF Nodes
    <3> QED BY <3>1, <3>2, FS_Subset
  <2>2. Listed = strip[Cardinality(Nodes)]
    BY DEF Listed
  <2>3. ASSUME NEW e \in Nodes PROVE e \in Listed <=> ~InCircle(e)
    <3>1. PICK N \in Nat : N = Cardinality(Nodes)
      BY <2>1, FS_CardinalityType
    <3>2. e \in strip[N] <=> Line(e)[N + 1] \notin Nodes
      BY ListedByDepth
    <3>3. InCircle(e) <=> Line(e)[N + 1] \in Nodes
      BY <2>1, <3>1, CircleIsLong
    <3> QED BY <2>2, <3>1, <3>2, <3>3
  <2> QED BY <2>3 DEF ChartComplete
<1> QED BY <1>1, PTL DEF ViewsSpec

-----------------------------------------------------------------------------
(* The variables of pay.  A sum over a function is that of the days of the *)
(* rows made of its values; Part is that of a part of its domain.          *)
Weights(f) == [i \in DOMAIN f |-> [days |-> f[i]]]

LEMMA SumFunctionIs ==
  ASSUME NEW f, IsFiniteSet(DOMAIN f)
  PROVE  SumFunction(f) = SumDays(Weights(f), DOMAIN f)
<1> DEFINE S == DOMAIN f
           L == Weights(f)
           P(g) == g = [s \in SUBSET S |-> IF s = {} THEN 0 ELSE f[First(s)] + g[s \ {First(s)}]]
<1>1. SumFunction(f) = (CHOOSE g : P(g))[S]
  BY DEF SumFunction, SumFunctionOnSet, FoldFunctionOnSet, MapThenFoldSet, First
<1>2. ASSUME NEW g PROVE P(g) <=> IsSum(g, L, S)
  <2> DEFINE a == [s \in SUBSET S |-> IF s = {} THEN 0 ELSE f[First(s)] + g[s \ {First(s)}]]
             b == [s \in SUBSET S |-> IF s = {} THEN 0 ELSE L[First(s)].days + g[s \ {First(s)}]]
  <2>1. ASSUME NEW s \in SUBSET S, s # {} PROVE L[First(s)].days = f[First(s)]
    BY <2>1, FirstIn DEF Weights
  <2>2. a = b
    <3> HIDE DEF L
    <3> QED BY <2>1
  <2> QED BY <2>2 DEF IsSum
<1>3. PICK h : IsSum(h, L, S)
  BY SumExists
<1>4. PICK g : g = CHOOSE x : P(x)
  OBVIOUS
<1>5. P(g)
  <2>1. P(h)
    BY <1>2, <1>3
  <2> HIDE DEF P
  <2> QED BY <1>4, <2>1
<1>6. IsSum(g, L, S)
  BY <1>2, <1>5
<1>7. PICK i : i = CHOOSE x : IsSum(x, L, S)
  OBVIOUS
<1>8. IsSum(i, L, S)
  BY <1>3, <1>7
<1>9. g[S] = i[S]
  BY <1>6, <1>8, SumsAgree
<1>10. SumDays(L, S) = i[S]
  BY <1>7, SumIs
<1> QED BY <1>1, <1>4, <1>9, <1>10

Part(f, T) == SumFunction([i \in T |-> f[i]])

LEMMA PartIs ==
  ASSUME NEW f, NEW T, IsFiniteSet(T)
  PROVE  Part(f, T) = SumDays([i \in T |-> [days |-> f[i]]], T)
<1> DEFINE p == [i \in T |-> f[i]]
<1>1. DOMAIN p = T /\ Weights(p) = [i \in T |-> [days |-> f[i]]]
  BY DEF Weights
<1> HIDE DEF p
<1>2. SumFunction(p) = SumDays(Weights(p), T)
  BY <1>1, SumFunctionIs
<1> QED BY <1>1, <1>2 DEF Part, p

LEMMA PartTyped ==
  ASSUME NEW T, IsFiniteSet(T), NEW f, \A i \in T : f[i] \in Int
  PROVE  Part(f, T) \in Int
<1> DEFINE L == [i \in T |-> [days |-> f[i]]]
<1>1. \A i \in T : L[i].days \in Int
  OBVIOUS
<1> HIDE DEF L
<1>2. SumDays(L, T) \in Int
  BY <1>1, SumTyped
<1> QED BY <1>2, PartIs DEF L

LEMMA PartEmpty == ASSUME NEW f PROVE Part(f, {}) = 0
<1> DEFINE L == [i \in {} |-> [days |-> f[i]]]
<1>1. IsFiniteSet({})
  BY FS_EmptySet
<1> HIDE DEF L
<1>2. SumDays(L, {}) = 0
  BY <1>1, SumUnfolds
<1> QED BY <1>1, <1>2, PartIs DEF L

(* Any element may be taken out. *)
LEMMA PartOut ==
  ASSUME NEW T, IsFiniteSet(T), NEW f, \A i \in T : f[i] \in Int, NEW y \in T
  PROVE  Part(f, T) = f[y] + Part(f, T \ {y})
<1> DEFINE U == T \ {y}
           L == [i \in T |-> [days |-> f[i]]]
           M == [i \in U |-> [days |-> f[i]]]
<1>1. /\ \A i \in T : L[i].days \in Int
      /\ L[y].days = f[y]
      /\ \A i \in U : L[i].days = M[i].days
  OBVIOUS
<1>2. IsFiniteSet(U) /\ U = T \ {y}
  BY FS_Subset
<1>3. Part(f, T) = SumDays(L, T)
  BY PartIs
<1>4. Part(f, U) = SumDays(M, U)
  <2> HIDE DEF U
  <2> QED BY <1>2, PartIs
<1> HIDE DEF L, M
<1>5. SumDays(L, T) = L[y].days + SumDays(L, T \ {y})
  BY <1>1, SumTakesOut
<1> HIDE DEF U
<1>6. SumDays(L, U) = SumDays(M, U)
  BY <1>1, <1>2, SumDependsOn
<1> QED BY <1>1, <1>2, <1>3, <1>4, <1>5, <1>6

LEMMA PartSame ==
  ASSUME NEW T, NEW f, NEW g, \A i \in T : f[i] = g[i]
  PROVE  Part(f, T) = Part(g, T)
<1>1. [i \in T |-> f[i]] = [i \in T |-> g[i]]
  OBVIOUS
<1> QED BY <1>1 DEF Part

(* The sum of two functions is that of their sums. *)
LEMMA PartAdds ==
  ASSUME NEW T, IsFiniteSet(T), NEW f, NEW g, NEW h,
         \A i \in T : f[i] \in Int /\ g[i] \in Int /\ h[i] = f[i] + g[i]
  PROVE  Part(h, T) = Part(f, T) + Part(g, T)
<1> DEFINE Bad == {s \in SUBSET T : Part(h, s) # Part(f, s) + Part(g, s)}
<1>1. SUFFICES ASSUME Bad # {} PROVE FALSE
  OBVIOUS
<1>2. PICK s \in Bad : IsFiniteSet(s) /\ \A u \in SUBSET s : u # s => u \notin Bad
  <2>1. Bad \subseteq SUBSET T
    OBVIOUS
  <2> HIDE DEF Bad
  <2> QED BY <1>1, <2>1, LeastSet
<1>3. s \subseteq T /\ Part(h, s) # Part(f, s) + Part(g, s)
  BY <1>2
<1>4. s # {}
  BY <1>3, PartEmpty
<1>5. PICK y : y \in s
  BY <1>4
<1> DEFINE u == s \ {y}
<1>6. Part(h, u) = Part(f, u) + Part(g, u)
  BY <1>2, <1>3, <1>5
<1>7. \A i \in s : f[i] \in Int /\ g[i] \in Int /\ h[i] \in Int
  BY <1>3
<1>8. /\ Part(h, s) = h[y] + Part(h, u)
      /\ Part(f, s) = f[y] + Part(f, u)
      /\ Part(g, s) = g[y] + Part(g, u)
  BY <1>2, <1>5, <1>7, PartOut
<1>9. Part(f, u) \in Int /\ Part(g, u) \in Int
  <2>1. IsFiniteSet(u) /\ \A i \in u : f[i] \in Int /\ g[i] \in Int
    BY <1>2, <1>7, FS_Subset
  <2> HIDE DEF u
  <2> QED BY <2>1, PartTyped
<1>10. h[y] = f[y] + g[y] /\ f[y] \in Int /\ g[y] \in Int
  BY <1>3, <1>5
<1> HIDE DEF u
<1> QED BY <1>3, <1>6, <1>8, <1>9, <1>10

LEMMA PartZero ==
  ASSUME NEW T, IsFiniteSet(T), NEW f, \A i \in T : f[i] = 0
  PROVE  Part(f, T) = 0
<1> DEFINE Bad == {s \in SUBSET T : Part(f, s) # 0}
<1>1. SUFFICES ASSUME Bad # {} PROVE FALSE
  OBVIOUS
<1>2. PICK s \in Bad : IsFiniteSet(s) /\ \A u \in SUBSET s : u # s => u \notin Bad
  <2>1. Bad \subseteq SUBSET T
    OBVIOUS
  <2> HIDE DEF Bad
  <2> QED BY <1>1, <2>1, LeastSet
<1>3. s \subseteq T /\ Part(f, s) # 0
  BY <1>2
<1>4. PICK x : x \in s
  BY <1>3, PartEmpty
<1>5. Part(f, s \ {x}) = 0
  BY <1>2, <1>3, <1>4
<1>6. \A i \in s : f[i] \in Int
  BY <1>3
<1>7. Part(f, s) = f[x] + Part(f, s \ {x})
  BY <1>2, <1>4, <1>6, PartOut
<1>8. f[x] = 0
  BY <1>3, <1>4
<1> QED BY <1>3, <1>5, <1>7, <1>8

(* One element may be all there is to the sum. *)
LEMMA PartSingle ==
  ASSUME NEW T, IsFiniteSet(T), NEW f, NEW y \in T, f[y] \in Int,
         \A i \in T : i # y => f[i] = 0
  PROVE  Part(f, T) = f[y]
<1> DEFINE U == T \ {y}
<1>1. \A i \in T : f[i] \in Int
  OBVIOUS
<1>2. IsFiniteSet(U) /\ \A i \in U : f[i] = 0
  BY FS_Subset
<1>3. Part(f, U) = 0
  <2> HIDE DEF U
  <2> QED BY <1>2, PartZero
<1>4. Part(f, T) = f[y] + Part(f, U)
  BY <1>1, PartOut
<1> QED BY <1>3, <1>4

(* The elements a sum leaves out may count for nothing instead. *)
LEMMA PartOf ==
  ASSUME NEW T, IsFiniteSet(T), NEW f, \A i \in T : f[i] \in Int,
         NEW P, P \subseteq T
  PROVE  Part(f, P) = Part([i \in T |-> IF i \in P THEN f[i] ELSE 0], T)
<1> DEFINE g == [i \in T |-> IF i \in P THEN f[i] ELSE 0]
           Bad == {s \in SUBSET T : Part(f, P \cap s) # Part(g, s)}
<1>1. SUFFICES ASSUME Bad # {} PROVE FALSE
  <2>1. T \notin Bad /\ P \cap T = P
    BY <1>1
  <2> QED BY <2>1
<1>2. PICK s \in Bad : IsFiniteSet(s) /\ \A u \in SUBSET s : u # s => u \notin Bad
  <2>1. Bad \subseteq SUBSET T
    OBVIOUS
  <2> HIDE DEF Bad
  <2> QED BY <1>1, <2>1, LeastSet
<1>3. s \subseteq T /\ Part(f, P \cap s) # Part(g, s)
  BY <1>2
<1>4. s # {}
  BY <1>3, PartEmpty
<1>5. PICK y : y \in s
  BY <1>4
<1> DEFINE u == s \ {y}
<1>6. Part(f, P \cap u) = Part(g, u)
  BY <1>2, <1>3, <1>5
<1>7. (\A i \in s : g[i] \in Int) /\ \A i \in P \cap s : f[i] \in Int
  BY <1>3
<1>8. g[y] = IF y \in P THEN f[y] ELSE 0
  BY <1>3, <1>5
<1>9. Part(g, u) \in Int
  <2>1. IsFiniteSet(u) /\ \A i \in u : g[i] \in Int
    BY <1>2, <1>7, FS_Subset
  <2> HIDE DEF u, g
  <2> QED BY <2>1, PartTyped
<1> HIDE DEF g
<1>10. Part(g, s) = g[y] + Part(g, u)
  BY <1>2, <1>5, <1>7, PartOut
<1>11. CASE y \in P
  <2>1. IsFiniteSet(P \cap s) /\ y \in P \cap s /\ (P \cap s) \ {y} = P \cap u
    BY <1>2, <1>5, <1>11, FS_Subset
  <2>2. Part(f, P \cap s) = f[y] + Part(f, P \cap u)
    <3> DEFINE Q == P \cap s
    <3>1. IsFiniteSet(Q) /\ y \in Q /\ \A i \in Q : f[i] \in Int
      BY <1>7, <2>1
    <3> HIDE DEF Q
    <3>2. Part(f, Q) = f[y] + Part(f, Q \ {y})
      BY <3>1, PartOut
    <3> QED BY <2>1, <3>2 DEF Q
  <2> QED BY <1>3, <1>6, <1>8, <1>10, <1>11, <2>2
<1>12. CASE y \notin P
  <2>1. P \cap s = P \cap u
    BY <1>12
  <2>2. Part(g, s) = Part(g, u)
    BY <1>8, <1>9, <1>10, <1>12
  <2> QED BY <1>3, <1>6, <2>1, <2>2
<1> QED BY <1>11, <1>12

(* Rows may be summed before columns, or columns before rows. *)
LEMMA SumsSwap ==
  ASSUME NEW A, IsFiniteSet(A), NEW B, IsFiniteSet(B),
         NEW F, \A a \in A, b \in B : F[a][b] \in Int
  PROVE  Part([a \in A |-> Part(F[a], B)], A)
           = Part([b \in B |-> Part([a \in A |-> F[a][b]], A)], B)
<1> DEFINE f == [a \in A |-> Part(F[a], B)]
           c == [b \in B |-> [a \in A |-> F[a][b]]]
           right(s) == [b \in B |-> Part(c[b], s)]
           Bad == {s \in SUBSET A : Part(f, s) # Part(right(s), B)}
<1>1. ASSUME Bad # {} PROVE FALSE
  <2>1. PICK s \in Bad : IsFiniteSet(s) /\ \A u \in SUBSET s : u # s => u \notin Bad
    <3>1. Bad \subseteq SUBSET A
      OBVIOUS
    <3> HIDE DEF Bad
    <3> QED BY <1>1, <3>1, LeastSet
  <2>2. s \subseteq A /\ Part(f, s) # Part(right(s), B)
    BY <2>1
  <2>3. CASE s = {}
    <3> DEFINE z == right({})
    <3>1. \A b \in B : z[b] = 0
      BY PartEmpty
    <3> HIDE DEF z
    <3>2. Part(z, B) = 0
      BY <3>1, PartZero
    <3> QED BY <2>2, <2>3, <3>2, PartEmpty DEF z
  <2>4. CASE s # {}
    <3>1. PICK y : y \in s
      BY <2>4
    <3> DEFINE u == s \ {y}
               rs == right(s)
               ru == right(u)
               fy == F[y]
    <3>2. Part(f, u) = Part(ru, B)
      BY <2>1, <2>2, <3>1
    <3>3. \A i \in s : f[i] \in Int
      BY <2>2, PartTyped
    <3>4. Part(f, s) = f[y] + Part(f, u)
      <4> HIDE DEF f
      <4> QED BY <2>1, <3>1, <3>3, PartOut
    <3>5. f[y] = Part(fy, B)
      BY <2>2, <3>1
    <3>6. ASSUME NEW b \in B
          PROVE  fy[b] \in Int /\ ru[b] \in Int /\ rs[b] = fy[b] + ru[b]
      <4> DEFINE col == c[b]
      <4>1. (\A i \in s : col[i] \in Int) /\ col[y] = fy[b] /\ fy[b] \in Int
        BY <2>2, <3>1
      <4>2. rs[b] = Part(col, s) /\ ru[b] = Part(col, u)
        OBVIOUS
      <4>3. IsFiniteSet(u) /\ \A i \in u : col[i] \in Int
        BY <2>1, <4>1, FS_Subset
      <4> HIDE DEF col, rs, ru, fy
      <4>4. Part(col, s) = col[y] + Part(col, u)
        BY <2>1, <3>1, <4>1, PartOut
      <4> HIDE DEF u
      <4>5. Part(col, u) \in Int
        BY <4>3, PartTyped
      <4> QED BY <4>1, <4>2, <4>4, <4>5
    <3> HIDE DEF rs, ru, fy
    <3>7. Part(rs, B) = Part(fy, B) + Part(ru, B)
      BY <3>6, PartAdds
    <3> QED BY <2>2, <3>2, <3>4, <3>5, <3>7 DEF rs
  <2> QED BY <2>3, <2>4
<1>2. Part(f, A) = Part(right(A), B)
  BY <1>1
<1>3. right(A) = [b \in B |-> Part([a \in A |-> F[a][b]], A)]
  OBVIOUS
<1> QED BY <1>2, <1>3

(* Disjoint sets have as many elements together as each of them in turn.  *)
LEMMA DisjointCards ==
  ASSUME NEW M, IsFiniteSet(M), NEW X, \A m \in M : IsFiniteSet(X[m]),
         \A m, n \in M : m # n => X[m] \cap X[n] = {}
  PROVE  Part([m \in M |-> Cardinality(X[m])], M) = Cardinality(UNION {X[m] : m \in M})
<1> DEFINE c == [m \in M |-> Cardinality(X[m])]
           all(s) == UNION {X[m] : m \in s}
           Bad == {s \in SUBSET M : ~(IsFiniteSet(all(s)) /\ Part(c, s) = Cardinality(all(s)))}
<1>1. SUFFICES ASSUME Bad # {} PROVE FALSE
  OBVIOUS
<1>2. PICK s \in Bad : IsFiniteSet(s) /\ \A u \in SUBSET s : u # s => u \notin Bad
  <2>1. Bad \subseteq SUBSET M
    OBVIOUS
  <2> HIDE DEF Bad
  <2> QED BY <1>1, <2>1, LeastSet
<1>3. s \subseteq M /\ ~(IsFiniteSet(all(s)) /\ Part(c, s) = Cardinality(all(s)))
  BY <1>2
<1>4. s # {}
  <2>1. all({}) = {}
    OBVIOUS
  <2>2. IsFiniteSet({}) /\ Cardinality({}) = 0
    BY FS_EmptySet
  <2> QED BY <1>3, <2>1, <2>2, PartEmpty
<1>5. PICK y : y \in s
  BY <1>4
<1> DEFINE u == s \ {y}
           S == all(u)
           T == X[y]
<1>6. IsFiniteSet(S) /\ Part(c, u) = Cardinality(S)
  BY <1>2, <1>3, <1>5
<1>7. IsFiniteSet(T) /\ S \cap T = {} /\ all(s) = S \cup T
  BY <1>3, <1>5
<1>8. ASSUME NEW i \in s PROVE c[i] \in Int
  BY <1>3, FS_CardinalityType
<1>9. c[y] = Cardinality(T)
  BY <1>3, <1>5
<1>10. Part(c, s) = c[y] + Part(c, u)
  <2> HIDE DEF c
  <2> QED BY <1>2, <1>5, <1>8, PartOut
<1> HIDE DEF S, T, all, c
<1>11. /\ IsFiniteSet(S \cup T)
       /\ Cardinality(S \cup T) = Cardinality(S) + Cardinality(T) - Cardinality(S \cap T)
  BY <1>6, <1>7, FS_Union
<1>12. Cardinality(S \cap T) = 0 /\ Cardinality(S) \in Int /\ Cardinality(T) \in Int
  BY <1>6, <1>7, FS_EmptySet, FS_CardinalityType
<1> QED BY <1>3, <1>6, <1>7, <1>9, <1>10, <1>11, <1>12

LEMMA MinIs ==
  ASSUME NEW S, S \subseteq Int, NEW x \in S, \A y \in S : x <= y
  PROVE  Min(S) = x
<1>1. PICK z : z = CHOOSE w \in S : \A y \in S : w <= y
  OBVIOUS
<1>2. z \in S /\ \A y \in S : z <= y
  BY <1>1
<1>3. z <= x /\ x <= z /\ z \in Int /\ x \in Int
  BY <1>2
<1>4. z = x
  BY <1>3
<1> QED BY <1>1, <1>4 DEF Min

(* Every day is in one month: that of the last first day until then. *)
LEMMA OneMonth ==
  ASSUME NEW d \in Dates
  PROVE  \E m \in MonthStarts :
           /\ m <= d /\ \A n \in MonthStarts : n <= m \/ n > d
           /\ \A n \in MonthStarts : inMonth(d, n) <=> n = m
<1>1. MonthStarts \subseteq Nat /\ MonthStarts \subseteq Int /\ 0 \in MonthStarts /\ d \in Nat
  BY ViewsAssumption DEF Dates
<1> DEFINE S == {n \in MonthStarts : n <= d}
           Back == {k \in Nat : d - k \in S}
<1>2. Back \subseteq Nat /\ d \in Back
  BY <1>1
<1>3. PICK k \in Back : \A j \in Back : k <= j
  <2> HIDE DEF Back
  <2> QED BY <1>2, LeastNumber
<1> DEFINE m == d - k
<1>4. m \in S /\ m \in MonthStarts /\ m <= d /\ m \in Nat /\ S \subseteq Int
  <2>1. S \subseteq MonthStarts
    OBVIOUS
  <2>2. m \in S
    BY <1>3
  <2> QED BY <1>1, <2>1, <2>2
<1>5. ASSUME NEW n \in S PROVE m >= n
  <2>1. n \in Nat /\ n <= d
    BY <1>1
  <2>2. d - n \in Nat /\ d - (d - n) = n
    BY <1>1, <2>1
  <2>3. d - n \in Back
    BY <2>2
  <2>4. k <= d - n /\ k \in Nat
    BY <1>3, <2>3
  <2> HIDE DEF S, Back
  <2> QED BY <1>1, <2>1, <2>4
<1> HIDE DEF m
<1>6. Max(S) = m
  <2> HIDE DEF S
  <2> QED BY <1>4, <1>5, MaxIs
<1>7. \A n \in MonthStarts : inMonth(d, n) <=> n = m
  BY <1>6 DEF inMonth
<1>8. ASSUME NEW n \in MonthStarts PROVE n <= m \/ n > d
  <2>1. n \in Nat /\ (n <= d => n \in S)
    BY <1>1
  <2> QED BY <1>1, <1>4, <1>5, <2>1
<1> QED BY <1>4, <1>7, <1>8

(* The days of a month are those between its bounds. *)
LEMMA MonthBounds ==
  ASSUME NEW m \in MonthStarts
  PROVE  /\ periodBounds(m).start = m /\ periodBounds(m).end \in Int
         /\ \A d \in Dates : inMonth(d, m) <=> m <= d /\ d <= periodBounds(m).end
<1>1. MonthStarts \subseteq Nat /\ MonthStarts \subseteq Int /\ MaxDay \in Nat /\ Dates = 0 .. MaxDay
  BY ViewsAssumption DEF Dates
<1> DEFINE later == {n \in MonthStarts : n > m}
           end == IF later = {} THEN MaxDay ELSE Min(later) - 1
<1>2. periodBounds(m).start = m /\ periodBounds(m).end = end
  BY DEF periodBounds
<1>3. end \in Int /\ \A d \in Dates : d <= end <=> \A n \in MonthStarts : n <= m \/ n > d
  <2>1. CASE later = {}
    <3>1. \A n \in MonthStarts : n <= m
      BY <1>1, <2>1
    <3> QED BY <1>1, <2>1, <3>1
  <2>2. CASE later # {}
    <3>1. later \subseteq Nat /\ later \subseteq Int
      <4>1. later \subseteq MonthStarts
        OBVIOUS
      <4> QED BY <1>1, <4>1
    <3>2. PICK n \in later : \A j \in later : n <= j
      <4> HIDE DEF later
      <4> QED BY <2>2, <3>1, LeastNumber
    <3>3. Min(later) = n
      <4> HIDE DEF later
      <4> QED BY <3>1, <3>2, MinIs
    <3>4. n \in MonthStarts /\ n \in Nat /\ n > m /\ end = n - 1
      BY <1>1, <2>2, <3>2, <3>3
    <3>5. ASSUME NEW d \in Dates
          PROVE  d <= n - 1 <=> \A j \in MonthStarts : j <= m \/ j > d
      <4>1. d \in Nat /\ m \in Nat
        BY <1>1
      <4>2. ASSUME d <= n - 1, NEW j \in MonthStarts, ~(j <= m) PROVE j > d
        <5>1. j \in Nat /\ j > m
          BY <1>1, <4>1, <4>2
        <5>2. n <= j
          BY <3>2, <5>1
        <5> QED BY <3>4, <4>1, <4>2, <5>1, <5>2
      <4>3. ASSUME \A j \in MonthStarts : j <= m \/ j > d PROVE d <= n - 1
        <5>1. n > d
          BY <3>4, <4>1, <4>3
        <5> QED BY <3>4, <4>1, <5>1
      <4> QED BY <4>2, <4>3
    <3> QED BY <3>4, <3>5
  <2> QED BY <2>1, <2>2
<1> HIDE DEF end
<1>4. ASSUME NEW d \in Dates
      PROVE  inMonth(d, m) <=> m <= d /\ \A n \in MonthStarts : n <= m \/ n > d
  <2>1. PICK q \in MonthStarts :
               /\ q <= d /\ \A n \in MonthStarts : n <= q \/ n > d
               /\ \A n \in MonthStarts : inMonth(d, n) <=> n = q
    BY OneMonth
  <2>2. q \in Nat /\ m \in Nat /\ d \in Nat
    BY <1>1
  <2>3. inMonth(d, m) <=> m = q
    BY <2>1
  <2>4. ASSUME m <= d, \A n \in MonthStarts : n <= m \/ n > d PROVE m = q
    <3>1. q <= m /\ m <= q
      BY <2>1, <2>2, <2>4
    <3> QED BY <2>2, <3>1
  <2> QED BY <2>1, <2>3, <2>4
<1> QED BY <1>2, <1>3, <1>4

(* overlapDays counts the days that two periods share. *)
LEMMA OverlapIs ==
  ASSUME NEW a \in Int, NEW b \in Int, NEW s \in Int, NEW e \in Int
  PROVE  /\ IsFiniteSet((a .. b) \cap (s .. e))
         /\ overlapDays(a, b, s, e) = Cardinality((a .. b) \cap (s .. e))
<1> DEFINE x == IF a >= s THEN a ELSE s
           y == IF b <= e THEN b ELSE e
<1>1. x \in Int /\ y \in Int
  OBVIOUS
<1>2. Max({a, s}) = x
  <2> DEFINE S == {a, s}
  <2>1. S \subseteq Int /\ x \in S /\ \A z \in S : x >= z
    OBVIOUS
  <2> HIDE DEF S, x
  <2>2. Max(S) = x
    BY <2>1, MaxIs
  <2> QED BY <2>2 DEF S
<1>3. Min({b, e}) = y
  <2> DEFINE S == {b, e}
  <2>1. S \subseteq Int /\ y \in S /\ \A z \in S : y <= z
    OBVIOUS
  <2> HIDE DEF S, y
  <2>2. Min(S) = y
    BY <2>1, MinIs
  <2> QED BY <2>2 DEF S
<1>4. overlapDays(a, b, s, e) = IF y < x THEN 0 ELSE y - x + 1
  BY <1>2, <1>3 DEF overlapDays
<1>5. (a .. b) \cap (s .. e) = x .. y
  OBVIOUS
<1> HIDE DEF x, y
<1>6. IsFiniteSet(x .. y) /\ Cardinality(x .. y) = IF x > y THEN 0 ELSE y - x + 1
  BY <1>1, FS_Interval
<1>7. (y < x) <=> (x > y)
  BY <1>1
<1> QED BY <1>4, <1>5, <1>6, <1>7

LEMMA MonthsFinite == IsFiniteSet(MonthStarts)
<1>1. MonthStarts \subseteq 0 .. MaxDay /\ 0 \in Int /\ MaxDay \in Int
  BY ViewsAssumption DEF Dates
<1>2. IsFiniteSet(0 .. MaxDay)
  BY <1>1, FS_Interval
<1> QED BY <1>1, <1>2, FS_Subset

(* The days of a leave are shared out among the months. *)
LEMMA LeaveShared ==
  ASSUME NEW a \in Dates, NEW b \in Dates, a <= b
  PROVE  Part([m \in MonthStarts |->
                 overlapDays(a, b, periodBounds(m).start, periodBounds(m).end)], MonthStarts)
           = b - a + 1
<1> DEFINE X == [m \in MonthStarts |-> (a .. b) \cap (periodBounds(m).start .. periodBounds(m).end)]
           f == [m \in MonthStarts |->
                   overlapDays(a, b, periodBounds(m).start, periodBounds(m).end)]
           c == [m \in MonthStarts |-> Cardinality(X[m])]
<1>1. Dates \subseteq Int /\ a \in Int /\ b \in Int /\ MonthStarts \subseteq Int
      /\ \A d \in a .. b : d \in Dates
  BY ViewsAssumption DEF Dates
<1>2. ASSUME NEW m \in MonthStarts
      PROVE  /\ IsFiniteSet(X[m]) /\ f[m] = c[m]
             /\ \A d \in a .. b : d \in X[m] <=> inMonth(d, m)
  <2>1. periodBounds(m).start = m /\ periodBounds(m).end \in Int /\ m \in Int
    BY <1>1, MonthBounds
  <2>2. PICK s \in Int, e \in Int : s = periodBounds(m).start /\ e = periodBounds(m).end
    BY <2>1
  <2>3. /\ IsFiniteSet((a .. b) \cap (s .. e))
        /\ overlapDays(a, b, s, e) = Cardinality((a .. b) \cap (s .. e))
    BY <1>1, OverlapIs
  <2>4. X[m] = (a .. b) \cap (s .. e) /\ f[m] = overlapDays(a, b, s, e)
    BY <2>2
  <2>5. ASSUME NEW d \in a .. b PROVE d \in X[m] <=> inMonth(d, m)
    <3>1. d \in Dates /\ d \in Int
      BY <1>1
    <3>2. inMonth(d, m) <=> m <= d /\ d <= periodBounds(m).end
      BY <3>1, MonthBounds
    <3>3. d \in X[m] <=> s <= d /\ d <= e
      BY <2>4, <3>1
    <3> QED BY <2>1, <2>2, <3>2, <3>3
  <2> QED BY <2>3, <2>4, <2>5
<1>3. \A m \in MonthStarts : X[m] \subseteq a .. b
  OBVIOUS
<1>4. ASSUME NEW m \in MonthStarts, NEW n \in MonthStarts, m # n PROVE X[m] \cap X[n] = {}
  <2> SUFFICES ASSUME NEW d \in a .. b, d \in X[m], d \in X[n] PROVE FALSE
    BY <1>3
  <2>1. inMonth(d, m) /\ inMonth(d, n)
    BY <1>2
  <2>2. d \in Dates
    BY <1>1
  <2> QED BY <1>4, <2>1, <2>2, OneMonth
<1>5. UNION {X[m] : m \in MonthStarts} = a .. b
  <2>1. ASSUME NEW d \in a .. b PROVE \E m \in MonthStarts : d \in X[m]
    <3>1. d \in Dates
      BY <1>1
    <3>2. PICK m \in MonthStarts : inMonth(d, m)
      BY <3>1, OneMonth
    <3> QED BY <1>2, <3>2
  <2> QED BY <1>3, <2>1
<1>6. Part(f, MonthStarts) = Part(c, MonthStarts)
  <2>1. \A m \in MonthStarts : f[m] = c[m]
    BY <1>2
  <2> HIDE DEF f, c
  <2> QED BY <2>1, PartSame
<1>7. Part(c, MonthStarts) = Cardinality(UNION {X[m] : m \in MonthStarts})
  <2>1. \A m \in MonthStarts : IsFiniteSet(X[m])
    BY <1>2
  <2>2. \A m, n \in MonthStarts : m # n => X[m] \cap X[n] = {}
    BY <1>4
  <2> HIDE DEF X
  <2> QED BY <2>1, <2>2, MonthsFinite, DisjointCards
<1>8. Cardinality(a .. b) = b - a + 1
  BY <1>1, FS_Interval
<1> QED BY <1>5, <1>6, <1>7, <1>8

(* Summed by months or by leaves, the days are the same. *)
LEMMA LeavesPaidOnce ==
  ASSUME ViewsInv, NEW k \in {"PAID", "UNPAID"}
  PROVE  SumFunction([m \in MonthStarts |-> preparePayrollInput(m).leaves[k]])
           = SumFunction([r \in ApprovedLeaves(k) |-> row[r].until - row[r].due + 1])
<1>1. PICK A, due, until : /\ A = ApprovedLeaves(k)
                           /\ due = [r \in A |-> row[r].due] /\ until = [r \in A |-> row[r].until]
  OBVIOUS
<1>2. IsFiniteSet(A)
  <2>1. IsFiniteSet(Ids)
    BY ViewsAssumption
  <2>2. A \subseteq Ids
    BY <1>1 DEF ApprovedLeaves, Has
  <2> QED BY <2>1, <2>2, FS_Subset
<1>3. ASSUME NEW r \in A
      PROVE  due[r] \in Dates /\ until[r] \in Dates /\ due[r] <= until[r]
  BY <1>1 DEF ViewsInv, RowsDated, ApprovedLeaves, Has
<1> DEFINE over(m, r) == overlapDays(due[r], until[r], periodBounds(m).start, periodBounds(m).end)
           F == [m \in MonthStarts |-> [r \in A |-> over(m, r)]]
           byMonth == [m \in MonthStarts |-> Part(F[m], A)]
           byLeave == [r \in A |-> Part([m \in MonthStarts |-> F[m][r]], MonthStarts)]
           days == [r \in A |-> until[r] - due[r] + 1]
<1>4. ASSUME NEW m \in MonthStarts PROVE preparePayrollInput(m).leaves[k] = Part(F[m], A)
  <2>1. preparePayrollInput(m).leaves[k]
          = SumFunction([r \in ApprovedLeaves(k) |->
              overlapDays(row[r].due, row[r].until, periodBounds(m).start, periodBounds(m).end)])
    BY DEF preparePayrollInput, buildPayrollInput
  <2>2. [r \in A |-> F[m][r]] = [r \in ApprovedLeaves(k) |->
              overlapDays(row[r].due, row[r].until, periodBounds(m).start, periodBounds(m).end)]
    BY <1>1
  <2> HIDE DEF F
  <2> QED BY <2>1, <2>2 DEF Part
<1>5. ASSUME NEW m \in MonthStarts, NEW r \in A PROVE F[m][r] \in Int
  <2>1. Dates \subseteq Int /\ due[r] \in Int /\ until[r] \in Int /\ m \in Int
    BY <1>3, ViewsAssumption DEF Dates
  <2>2. PICK a \in Int, b \in Int, s \in Int, e \in Int :
           /\ a = due[r] /\ b = until[r]
           /\ s = periodBounds(m).start /\ e = periodBounds(m).end
    BY <2>1, MonthBounds
  <2>3. overlapDays(a, b, s, e) = Cardinality((a .. b) \cap (s .. e)) /\ IsFiniteSet((a .. b) \cap (s .. e))
    BY OverlapIs
  <2>4. overlapDays(a, b, s, e) \in Int
    BY <2>3, FS_CardinalityType
  <2> QED BY <2>2, <2>4
<1>6. ASSUME NEW r \in A PROVE byLeave[r] = days[r]
  <2>1. PICK a \in Dates, b \in Dates : a = due[r] /\ b = until[r] /\ a <= b
    BY <1>3
  <2> DEFINE f == [m \in MonthStarts |->
                     overlapDays(a, b, periodBounds(m).start, periodBounds(m).end)]
             g == [m \in MonthStarts |-> F[m][r]]
  <2>2. f = g
    BY <2>1
  <2>3. Part(f, MonthStarts) = b - a + 1
    BY <2>1, LeaveShared
  <2>4. byLeave[r] = Part(g, MonthStarts) /\ days[r] = until[r] - due[r] + 1
    OBVIOUS
  <2> HIDE DEF f, g, byLeave, days, F
  <2> QED BY <2>1, <2>2, <2>3, <2>4
<1>7. Part(byMonth, MonthStarts) = Part(byLeave, A)
  <2> HIDE DEF F
  <2> QED BY <1>2, <1>5, MonthsFinite, SumsSwap
<1>8. Part(byLeave, A) = Part(days, A)
  <2> HIDE DEF byLeave, days
  <2> QED BY <1>6, PartSame
<1>9. Part(byMonth, MonthStarts) = SumFunction([m \in MonthStarts |-> preparePayrollInput(m).leaves[k]])
  <2>1. [m \in MonthStarts |-> byMonth[m]] = [m \in MonthStarts |-> preparePayrollInput(m).leaves[k]]
    <3> HIDE DEF F
    <3> QED BY <1>4
  <2> HIDE DEF byMonth
  <2> QED BY <2>1 DEF Part
<1>10. Part(days, A) = SumFunction([r \in ApprovedLeaves(k) |-> row[r].until - row[r].due + 1])
  <2>1. [r \in A |-> days[r]] = [r \in ApprovedLeaves(k) |-> row[r].until - row[r].due + 1]
    BY <1>1
  <2> HIDE DEF days
  <2> QED BY <2>1 DEF Part
<1> HIDE DEF byMonth, byLeave, days
<1> QED BY <1>7, <1>8, <1>9, <1>10

(* So are the hours, summed by months or by entries. *)
LEMMA HoursPaidOnce ==
  ASSUME ViewsInv
  PROVE  SumFunction([m \in MonthStarts |-> preparePayrollInput(m).workedHours])
           = SumFunction([r \in Has("TimeEntry") |-> row[r].hours])
<1>1. PICK A, due, hours : /\ A = Has("TimeEntry")
                           /\ due = [r \in A |-> row[r].due] /\ hours = [r \in A |-> row[r].hours]
  OBVIOUS
<1>2. IsFiniteSet(A)
  <2>1. IsFiniteSet(Ids)
    BY ViewsAssumption
  <2>2. A \subseteq Ids
    BY <1>1 DEF Has
  <2> QED BY <2>1, <2>2, FS_Subset
<1>3. ASSUME NEW r \in A PROVE due[r] \in Dates /\ hours[r] \in Int
  <2>1. r \in Ids /\ row[r] \in Row /\ row[r].due \in Dates
    BY <1>1 DEF ViewsInv, RowsDated, ViewsTypeOK, Has
  <2>2. row[r].hours \in Int
    <3>1. row[r].hours \in Hours \cup {0}
      BY <2>1 DEF Row
    <3>2. Hours \cup {0} \subseteq Int
      BY ViewsAssumption
    <3>3. PICK h : h = row[r].hours
      OBVIOUS
    <3>4. h \in Hours \cup {0}
      BY <3>1, <3>3
    <3>5. h \in Int
      BY ONLY <3>2, <3>4
    <3> QED BY ONLY <3>3, <3>5
  <2> QED BY <1>1, <2>1, <2>2
<1> DEFINE In(m) == {r \in A : inMonth(due[r], m)}
           F == [m \in MonthStarts |-> [r \in A |-> IF r \in In(m) THEN hours[r] ELSE 0]]
           byMonth == [m \in MonthStarts |-> Part(F[m], A)]
           byEntry == [r \in A |-> Part([m \in MonthStarts |-> F[m][r]], MonthStarts)]
<1>4. ASSUME NEW m \in MonthStarts PROVE preparePayrollInput(m).workedHours = Part(F[m], A)
  <2>1. preparePayrollInput(m).workedHours
          = SumFunction([r \in {q \in Has("TimeEntry") : inMonth(row[q].due, m)} |-> row[r].hours])
    BY DEF preparePayrollInput, buildPayrollInput, sumHoursInMonth
  <2>2. PICK P : P = In(m)
    OBVIOUS
  <2>3. [r \in P |-> hours[r]] = [r \in {q \in Has("TimeEntry") : inMonth(row[q].due, m)} |-> row[r].hours]
    BY <1>1, <2>2
  <2>4. preparePayrollInput(m).workedHours = Part(hours, P)
    BY <2>1, <2>3 DEF Part
  <2>5. P \subseteq A /\ \A r \in A : hours[r] \in Int
    BY <1>3, <2>2
  <2> DEFINE f == [r \in A |-> IF r \in P THEN hours[r] ELSE 0]
  <2>6. Part(hours, P) = Part(f, A)
    BY <1>2, <2>5, PartOf
  <2>7. F[m] = f
    BY <2>2
  <2> HIDE DEF F, f
  <2> QED BY <2>4, <2>6, <2>7
<1>5. \A m \in MonthStarts : \A r \in A : F[m][r] \in Int
  BY <1>3
<1>6. ASSUME NEW r \in A PROVE byEntry[r] = hours[r]
  <2> DEFINE g == [m \in MonthStarts |-> F[m][r]]
  <2>1. PICK d \in Dates : d = due[r]
    BY <1>3
  <2>2. PICK m \in MonthStarts : \A n \in MonthStarts : inMonth(d, n) <=> n = m
    BY OneMonth
  <2>3. g[m] = hours[r] /\ \A n \in MonthStarts : n # m => g[n] = 0
    BY <2>1, <2>2
  <2>4. hours[r] \in Int
    BY <1>3
  <2>5. byEntry[r] = Part(g, MonthStarts)
    OBVIOUS
  <2> HIDE DEF g, byEntry
  <2>6. Part(g, MonthStarts) = g[m]
    BY <2>3, <2>4, MonthsFinite, PartSingle
  <2> QED BY <2>3, <2>5, <2>6
<1>7. Part(byMonth, MonthStarts) = Part(byEntry, A)
  <2> HIDE DEF F
  <2> QED BY <1>2, <1>5, MonthsFinite, SumsSwap
<1>8. Part(byEntry, A) = Part(hours, A)
  <2> HIDE DEF byEntry
  <2> QED BY <1>6, PartSame
<1>9. Part(byMonth, MonthStarts) = SumFunction([m \in MonthStarts |-> preparePayrollInput(m).workedHours])
  <2>1. [m \in MonthStarts |-> byMonth[m]] = [m \in MonthStarts |-> preparePayrollInput(m).workedHours]
    <3> HIDE DEF F
    <3> QED BY <1>4
  <2> HIDE DEF byMonth
  <2> QED BY <2>1 DEF Part
<1>10. Part(hours, A) = SumFunction([r \in Has("TimeEntry") |-> row[r].hours])
  <2>1. [r \in A |-> hours[r]] = [r \in Has("TimeEntry") |-> row[r].hours]
    BY <1>1
  <2> QED BY <2>1 DEF Part
<1> HIDE DEF byMonth, byEntry
<1> QED BY <1>7, <1>8, <1>9, <1>10

(* Every day of an approved leave and every recorded hour is in the pay of *)
(* exactly one month, for any set of months and any rows                   *)
(* (preparePayrollInput, overlapDays, periodBounds, sumHoursInMonth).      *)
THEOREM DaysArePaidOnce == ViewsSpec => []PaidOnce
<1>1. ViewsInv => PaidOnce
  BY LeavesPaidOnce, HoursPaidOnce DEF PaidOnce
<1> QED BY <1>1, ViewsInductive, PTL
=============================================================================
