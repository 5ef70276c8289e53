-------------------------------- MODULE Leave --------------------------------
(***************************************************************************)
(* The absence workflow of MvpService (src/services-mvp.ts): a request is  *)
(* filed, approved by the manager, possibly by HR, and finalised against a *)
(* balance replayed from an append-only ledger, or refused.                *)
(*                                                                         *)
(* A handler runs as a call: it occupies a slot of Calls and moves from    *)
(* one `await` to the next, so that the calls of several users interleave  *)
(* exactly where the event loop may switch.  Between two awaits a handler  *)
(* is atomic.  Whether a record obtained by an earlier `await` still shows *)
(* the current value depends on the store: MemoryRepository hands out the  *)
(* live object, PrismaRepository a copy; `live` tells which one is used.    *)
(***************************************************************************)
EXTENDS Integers, Sequences, FiniteSets, FiniteSetsExt

CONSTANTS
  Calls,          \* slots for handlers in flight
  Requests,       \* leave request identifiers
  Employments,
  Types,          \* leave types
  Decremented,    \* the types counted against a balance (PAID, RTT)
  Periods,        \* reference periods (1 June - 31 May), numbered
  Days,           \* the days of the calendar, numbered
  Off,            \* the days that are not counted: Sundays, holidays, closures
  PeriodOf,       \* referencePeriod: the period of each day
  Corrections,    \* the +/- days a correction may carry
  Entitlement,    \* days opened per period, by type
  Presence,       \* the <<employment, period>> pairs that overlap
  RequiresHr,     \* APPROVAL_POLICY.requiresHr
  Stores,         \* the stores a deployment may select: TRUE in-memory, FALSE database
  MaxRows,        \* bound: no approval or correction starts beyond so many rows
  MaxCorrections, \* bound: no correction starts beyond so many corrections
  None            \* no request

ASSUME LeaveAssumption ==
  /\ IsFiniteSet(Calls) /\ IsFiniteSet(Requests)
  /\ Decremented \subseteq Types
  /\ Periods \subseteq Nat
  /\ Days \subseteq Nat /\ Off \subseteq Days
  /\ PeriodOf \in [Days -> Periods]
  /\ Corrections \subseteq Int
  /\ Entitlement \in [Types -> Nat]
  /\ Presence \subseteq Employments \X Periods
  /\ RequiresHr \in BOOLEAN
  /\ Stores \subseteq BOOLEAN
  /\ MaxRows \in Nat /\ MaxCorrections \in Nat
  /\ None \notin Requests

VARIABLES
  live,       \* selectStore: the store of this deployment is the in-memory one
  today,      \* the reference period the clock is in
  terms,      \* what each request asks for; fixed when it is filed
  status,     \* the status column of each request, NONE before it is filed
  ledger,     \* the LeaveLedgerEntry rows, oldest first
  announced,  \* the domain events published for each request
  call        \* the handlers in flight

vars == <<live, today, terms, status, ledger, announced, call>>

(* An end before the start is refused (400). *)
Terms == {t \in [emp : Employments, type : Types, first : Days, last : Days] : t.first <= t.last}
Statuses == {"NONE", "REQUESTED", "MANAGER_APPROVED", "APPROVED", "REFUSED"}
Events == {"LeaveRequested", "LeaveManagerApproved", "LeaveApproved", "LeaveRefused"}

(* A row: `period` is that of its effectiveDate, `made` that of createdAt. *)
Entry == [kind : {"TAKEN", "CORRECTION"}, emp : Employments, type : Types,
          days : Int, period : Periods, ref : Requests \cup {None}, made : Periods]

(* Where a call waits: before the check of the manager's or the refuser's  *)
(* step, before a read or a write of _finalizeLeave, or before publishing. *)
Stages == {"idle", "mgrCheck", "refCheck", "finRead", "finAppend", "finUpdate",
           "requested", "mgrDone", "refDone", "finDone"}

Call == [pc : Stages, req : Requests \cup {None}, seen : Statuses]
Idle == [pc |-> "idle", req |-> None, seen |-> "NONE"]

TypeOK ==
  /\ live \in BOOLEAN
  /\ today \in Periods
  /\ terms \in [Requests -> Terms]
  /\ status \in [Requests -> Statuses]
  /\ ledger \in Seq(Entry)
  /\ announced \in [Requests -> SUBSET Events]
  /\ call \in [Calls -> Call]
  /\ \A c \in Calls : call[c].pc # "idle" => call[c].req \in Requests

Init ==
  /\ live \in Stores
  /\ today \in Periods
  /\ terms \in [Requests -> Terms]
  /\ status = [r \in Requests |-> "NONE"]
  /\ ledger = <<>>
  /\ announced = [r \in Requests |-> {}]
  /\ call = [c \in Calls |-> Idle]

-----------------------------------------------------------------------------
(* The balance of an employment: entitlement of the reference period minus *)
(* TAKEN plus CORRECTION movements effective in that period.               *)

Acquired(e, t, p) ==
  IF t \in Decremented /\ <<e, p>> \in Presence THEN Entitlement[t] ELSE 0

Movements(kind, e, t, p) ==
  {i \in DOMAIN ledger : /\ ledger[i].kind = kind
                         /\ ledger[i].emp = e
                         /\ ledger[i].type = t
                         /\ ledger[i].period = p}

Total(rows) == MapThenSumSet(LAMBDA i : ledger[i].days, rows)

Moved(kind, e, t, p) == Total(Movements(kind, e, t, p))

Remaining(e, t, p) ==
  Acquired(e, t, p) - Moved("TAKEN", e, t, p) + Moved("CORRECTION", e, t, p)

(* The days an absence counts for, none if it lies on days off only. *)
countLeaveDays(first, last) == Cardinality((first .. last) \ Off)

DaysOf(t) == countLeaveDays(t.first, t.last)

(* The movement of a request, made in the period p, counts in the period   *)
(* the absence starts in.                                                  *)
Taken(r, p) == [kind |-> "TAKEN", emp |-> terms[r].emp, type |-> terms[r].type,
                days |-> DaysOf(terms[r]), period |-> PeriodOf[terms[r].first], ref |-> r,
                made |-> p]

IsDecremented(r) == terms[r].type \in Decremented

(* Mistakes: the operators named Bad... are not part of the specification. *)
(* Each is a plausible slip in the definition of the same name below it    *)
(* and shows that a property can fail.                                     *)
BadStatusRead(c) == call[c].seen

(* The status a handler tests: the live one, or the copy it fetched. *)
StatusRead(c) == IF live THEN status[call[c].req] ELSE call[c].seen

Goto(c, stage) == call' = [call EXCEPT ![c].pc = stage]
Return(c) == call' = [call EXCEPT ![c] = Idle]
Begin(c, stage, r) ==
  /\ call[c] = Idle
  /\ call' = [call EXCEPT ![c] = [pc |-> stage, req |-> r, seen |-> status[r]]]

-----------------------------------------------------------------------------
(* requestLeave: the row is created, then the event published. *)
RequestLeave(c, r) ==
  /\ status[r] = "NONE"
  /\ call[c] = Idle
  /\ status' = [status EXCEPT ![r] = "REQUESTED"]
  /\ call' = [call EXCEPT ![c] = [pc |-> "requested", req |-> r, seen |-> "NONE"]]
  /\ UNCHANGED <<live, today, terms, ledger, announced>>

(* approveLeave and refuseLeave: fetch the request ... *)
ApproveLeave(c, r) ==
  /\ status[r] # "NONE"
  /\ Len(ledger) < MaxRows
  /\ Begin(c, "mgrCheck", r)
  /\ UNCHANGED <<live, today, terms, status, ledger, announced>>

RefuseLeave(c, r) ==
  /\ status[r] # "NONE"
  /\ Begin(c, "refCheck", r)
  /\ UNCHANGED <<live, today, terms, status, ledger, announced>>

(* ... then test its status and write the new one, or answer 409. *)
Decide(c, stage, from, to, next) ==
  LET r == call[c].req IN
  /\ call[c].pc = stage
  /\ IF StatusRead(c) \in from
       THEN /\ status' = [status EXCEPT ![r] = to]
            /\ Goto(c, next)
       ELSE /\ Return(c)
            /\ UNCHANGED status
  /\ UNCHANGED <<live, today, terms, ledger, announced>>

ManagerDecides(c) ==
  Decide(c, "mgrCheck", {"REQUESTED"}, "MANAGER_APPROVED", "mgrDone")

RefusalDecides(c) ==
  Decide(c, "refCheck", {"REQUESTED", "MANAGER_APPROVED"}, "REFUSED", "refDone")

BadApproveLeaveHr(c, r) ==
  /\ Len(ledger) < MaxRows
  /\ Begin(c, "finRead", r)
  /\ UNCHANGED <<live, today, terms, status, ledger, announced>>

(* approveLeaveHr: nothing is written before _finalizeLeave. *)
ApproveLeaveHr(c, r) ==
  /\ status[r] = "MANAGER_APPROVED"
  /\ Len(ledger) < MaxRows
  /\ Begin(c, "finRead", r)
  /\ UNCHANGED <<live, today, terms, status, ledger, announced>>

(* The events published right after a write has returned; the manager's    *)
(* step goes on with _finalizeLeave unless HR has to approve as well.      *)
Publish(c, stage, event) ==
  /\ call[c].pc = stage
  /\ announced' = [announced EXCEPT ![call[c].req] = @ \cup {event}]
  /\ UNCHANGED <<live, today, terms, status, ledger>>

PublishRequested(c) == Publish(c, "requested", "LeaveRequested") /\ Return(c)
PublishRefused(c) == Publish(c, "refDone", "LeaveRefused") /\ Return(c)
PublishApproved(c) == Publish(c, "finDone", "LeaveApproved") /\ Return(c)
PublishManagerApproved(c) ==
  /\ Publish(c, "mgrDone", "LeaveManagerApproved")
  /\ IF RequiresHr THEN Return(c) ELSE Goto(c, "finRead")

BadFinalizeRead(c) ==
  /\ call[c].pc = "finRead"
  /\ Goto(c, IF IsDecremented(call[c].req) THEN "finAppend" ELSE "finUpdate")
  /\ UNCHANGED <<live, today, terms, status, ledger, announced>>

(* _finalizeLeave, first half: a counted type is compared with the balance *)
(* of TODAY's reference period as the ledger shows it now (409 when short).*)
FinalizeRead(c) ==
  LET t == terms[call[c].req] IN
  /\ call[c].pc = "finRead"
  /\ CASE t.type \notin Decremented -> Goto(c, "finUpdate")
       [] t.type \in Decremented /\ DaysOf(t) <= Remaining(t.emp, t.type, today) ->
            Goto(c, "finAppend")
       [] OTHER -> Return(c)
  /\ UNCHANGED <<live, today, terms, status, ledger, announced>>

BadFinalizeAppend(c) ==
  /\ call[c].pc = "finAppend"
  /\ Goto(c, "finUpdate")
  /\ UNCHANGED <<live, today, terms, status, ledger, announced>>

(* The TAKEN movement is dated at the start of the absence, ...  *)
FinalizeAppend(c) ==
  /\ call[c].pc = "finAppend"
  /\ ledger' = Append(ledger, Taken(call[c].req, today))
  /\ Goto(c, "finUpdate")
  /\ UNCHANGED <<live, today, terms, status, announced>>

BadFinalizeUpdateSilent(c) ==
  /\ call[c].pc = "finUpdate"
  /\ status' = [status EXCEPT ![call[c].req] = "APPROVED"]
  /\ Return(c)
  /\ UNCHANGED <<live, today, terms, ledger, announced>>

(* ... and only then is the request marked APPROVED. *)
FinalizeUpdate(c) ==
  /\ call[c].pc = "finUpdate"
  /\ status' = [status EXCEPT ![call[c].req] = "APPROVED"]
  /\ Goto(c, "finDone")
  /\ UNCHANGED <<live, today, terms, ledger, announced>>

(* correctLeaveBalance: one more row, whatever the balance. *)
CorrectLeaveBalance(c, e, t, p, d) ==
  /\ call[c] = Idle
  /\ Len(ledger) < MaxRows
  /\ Cardinality({i \in DOMAIN ledger : ledger[i].kind = "CORRECTION"}) < MaxCorrections
  /\ ledger' = Append(ledger, [kind |-> "CORRECTION", emp |-> e, type |-> t,
                               days |-> d, period |-> p, ref |-> None, made |-> today])
  /\ UNCHANGED <<live, today, terms, status, announced, call>>

(* A database call rejects, or the process stops: the handler is abandoned *)
(* where it stands and what it wrote stays written.                        *)
Fail(c) ==
  /\ ~live
  /\ call[c] # Idle
  /\ Return(c)
  /\ UNCHANGED <<live, today, terms, status, ledger, announced>>

NextPeriod ==
  /\ today + 1 \in Periods
  /\ today' = today + 1
  /\ UNCHANGED <<live, terms, status, ledger, announced, call>>

Continue(c) ==
  \/ ManagerDecides(c) \/ RefusalDecides(c)
  \/ PublishRequested(c) \/ PublishRefused(c)
  \/ PublishApproved(c) \/ PublishManagerApproved(c)
  \/ FinalizeRead(c) \/ FinalizeAppend(c) \/ FinalizeUpdate(c)

Start(c) ==
  \/ \E r \in Requests : \/ RequestLeave(c, r) \/ ApproveLeave(c, r)
                         \/ ApproveLeaveHr(c, r) \/ RefuseLeave(c, r)
  \/ \E e \in Employments, t \in Types, p \in Periods, d \in Corrections :
       CorrectLeaveBalance(c, e, t, p, d)

Next ==
  \/ \E c \in Calls : Start(c) \/ Continue(c) \/ Fail(c)
  \/ NextPeriod

Spec == Init /\ [][Next]_vars

(* Every promise a handler awaits is settled by the event loop, so a call  *)
(* in flight goes on; nothing obliges a user to make one.                  *)
FairSpec == Spec /\ \A c \in Calls : WF_vars(Continue(c))

-----------------------------------------------------------------------------
Rows(r) == {i \in DOMAIN ledger : ledger[i].ref = r}

(* An absence of a counted type that is marked approved, or was announced  *)
(* as such to the planning and to payroll, has its TAKEN movement with the *)
(* days and the effective period of the request, whatever interleaving or  *)
(* failure led there: _finalizeLeave appends before it marks and publishes.*)
ApprovedIsDeducted ==
  \A r \in Requests :
    IsDecremented(r) /\ (status[r] = "APPROVED" \/ "LeaveApproved" \in announced[r]) =>
      \E i \in Rows(r), p \in Periods : ledger[i] = Taken(r, p)

(* No deduction for a request no manager has approved (approveLeave and    *)
(* approveLeaveHr guard _finalizeLeave), and none at all for a type that   *)
(* is not counted.                                                         *)
NoEarlyDeduction ==
  \A r \in Requests : Rows(r) # {} =>
    IsDecremented(r) /\ status[r] \notin {"NONE", "REQUESTED"}

(* The deduction comes before the approval and after the manager, over     *)
(* either store.  This is all the database promises: there a movement may  *)
(* belong to a request that a stale copy had refused afterwards, or to one *)
(* whose handler stopped before it marked it (_finalizeLeave).             *)
DeductionSound == ApprovedIsDeducted /\ NoEarlyDeduction

(* Over the in-memory store an approval is final: no late manager step and *)
(* no late refusal (approveLeave, refuseLeave) undoes it.                  *)
ApprovalFinal ==
  [][\A r \in Requests :
       live /\ status[r] = "APPROVED" => status'[r] = "APPROVED"]_vars

(* Over the store that does not fail, an approval is eventually published  *)
(* to its consumers, the planning and payroll (_finalizeLeave).            *)
ApprovalAnnounced ==
  \A r \in Requests :
    (live /\ status[r] = "APPROVED") ~> ("LeaveApproved" \in announced[r])

(* The balance is checked at the final approval (docs/spec-absences.md:124)*)
(* by handlers that overlap, fail and are repeated: what is deducted from  *)
(* a period while it is the current one exceeds what was acquired and      *)
(* credited for it by one absence at most for each handler that can be in  *)
(* flight, those that read the balance before the others wrote or before   *)
(* the period began.  Nothing bounds what is deducted from a period before *)
(* it begins: _finalizeLeave compares with the balance of today's period.  *)
TakenInTime(e, t, p) == Total({i \in Movements("TAKEN", e, t, p) : ledger[i].made = p})
Credited(e, t, p) == Total({i \in Movements("CORRECTION", e, t, p) : ledger[i].days > 0})
Longest == Max({0} \cup {DaysOf(terms[r]) : r \in Requests})

OverdraftBounded ==
  \A e \in Employments, t \in Decremented, p \in Periods :
    TakenInTime(e, t, p) <=
      Acquired(e, t, p) + Credited(e, t, p) + Cardinality(Calls) * Longest

(* The workflow as its users see it: a request counts as approved once its *)
(* deduction is written, or once it is marked so.                          *)
DecisionOn(r) ==
  CASE status[r] = "NONE" -> "none"
    [] status[r] # "NONE" /\ (status[r] = "APPROVED" \/ Rows(r) # {}) -> "approved"
    [] status[r] = "REFUSED" /\ Rows(r) = {} -> "refused"
    [] OTHER -> "open"

Decision == [r \in Requests |-> DecisionOn(r)]

Promise == INSTANCE LeavePromise
             WITH Handlers <- Cardinality(Calls),
                  counted <- {r \in Requests : IsDecremented(r)},
                  decision <- Decision,
                  charge <- [r \in Requests |-> Rows(r)]

(* The workflow keeps the promise made for as many handlers as may overlap *)
(* and for the store it runs over: a request is charged in the step that   *)
(* decides it; in memory it is charged again only by a handler that was on *)
(* its way (a double click, the manager and HR), and only an approval on   *)
(* its way overtakes a refusal; over either store nothing undoes a charge. *)
KeepsPromise == Promise!Spec
=============================================================================
