----------------------------- MODULE Registers -----------------------------
(***************************************************************************)
(* The registers of the small services: entities, establishments and       *)
(* obligations (src/services.ts), collective agreements                    *)
(* (services-regulatory.ts), budgets (services-finance.ts), prevention,    *)
(* authorities, careers, social dialogue, planning and the deadlines they  *)
(* share (services-health.ts, -authority.ts, -career.ts, -social.ts,       *)
(* -time.ts, -deadlines.ts).                                               *)
(*                                                                         *)
(* Rows are never removed, so testing once that a parent exists is as good *)
(* as testing it between two awaits: an operation that reads nothing else  *)
(* and writes one row is one step.  The services share no row but the      *)
(* deadlines, which are only added: a behaviour works at one desk.  What   *)
(* is published is read by nobody here and left out.  `live` is that of    *)
(* Leave.                                                                  *)
(***************************************************************************)
EXTENDS Integers, FiniteSets

CONSTANTS
  Calls,    \* slots for handlers in flight
  Ids,      \* identifiers of rows
  Keys,     \* SIREN, SIRET, hashes of texts, years of budgets
  Dates,    \* closure and due dates
  Desks,    \* the services the behaviours exercise
  Stores,   \* the stores a deployment may select: TRUE in-memory, FALSE database
  None      \* no key, no date, no row

Tables == {"LegalEntity", "Establishment", "OperatingSite", "Position", "Agreement",
           "Obligation", "RegulatoryText", "RegulatorySource", "Budget",
           "Risk", "WorkAccident", "AuthorityInteraction", "Competency", "Training",
           "CareerReview", "CseMandate", "CseMeeting", "Negotiation", "Shift", "TimeEntry",
           "Deadline"}
ObligationStatus == {"DETECTED", "QUALIFIED", "ACTIVE", "IN_PROGRESS", "COMPLETED",
                     "OVERDUE", "NOT_APPLICABLE", "ARCHIVED"}
NegotiationStatus == {"PLANNED", "IN_PROGRESS", "AGREEMENT", "DISAGREEMENT"}
Statuses == ObligationStatus \cup NegotiationStatus
            \cup {"NONE", "OPEN", "CONTROLLED", "RESPONDED", "CLOSED", "DONE", "HELD"}

ASSUME RegistersAssumption ==
  /\ IsFiniteSet(Calls) /\ IsFiniteSet(Ids)
  /\ Desks \subseteq {"company", "obligations", "versions", "cases"}
  /\ Stores \subseteq BOOLEAN
  /\ None \notin Keys \cup Dates \cup Ids \cup Tables

VARIABLES
  live,   \* the store of this deployment is the in-memory one
  desk,   \* the services this behaviour exercises
  row,    \* the rows: table, status, key, version, date and what it belongs to
  call    \* the handlers in flight

vars == <<live, desk, row, call>>

Row == [table : Tables \cup {None}, status : Statuses, key : Keys \cup {None},
        version : Nat, date : Dates \cup {None}]
NoRow == [table |-> None, status |-> "NONE", key |-> None, version |-> 0, date |-> None]

(* What a handler holds: the row it is about to insert or that it fetched  *)
(* (the fetched copy shows only over the database), and what it was given. *)
Stages == {"idle", "insert", "source", "advance", "close", "watch"}
Call == [pc : Stages, new : Row, on : Ids \cup {None},
         to : Statuses, date : Dates \cup {None}]
Idle == [pc |-> "idle", new |-> NoRow, on |-> None, to |-> "NONE", date |-> None]

TypeOK ==
  /\ live \in BOOLEAN
  /\ desk \in Desks
  /\ row \in [Ids -> Row]
  /\ call \in [Calls -> Call]

Init ==
  /\ live \in Stores
  /\ desk \in Desks
  /\ row = [r \in Ids |-> NoRow]
  /\ call = [c \in Calls |-> Idle]

-----------------------------------------------------------------------------
(* Mistakes: the operators named Bad... are not part of the specification; *)
(* each is a plausible slip in the definition of the same name below it.   *)

In(table) == {r \in Ids : row[r].table = table}
Of(table, key) == {r \in In(table) : row[r].key = key}
Fresh(r) == row[r] = NoRow

Begin(c, new) == call[c] = Idle /\ call' = [call EXCEPT ![c] = new] /\ UNCHANGED <<live, desk, row>>
Return(c) == call' = [call EXCEPT ![c] = Idle]
Write(r, new) == row' = [row EXCEPT ![r] = new] /\ UNCHANGED <<live, desk>>
At(d, c, stage) == desk = d /\ call[c].pc = stage

BadSeen(c) == call[c].new

(* The row a handler tests: the live one, or the copy it fetched. *)
Seen(c) == IF live THEN row[call[c].on] ELSE call[c].new

(* The unique indexes of the database (prisma/schema.prisma). *)
Collides(new) ==
  \/ new.table \in {"LegalEntity", "Establishment"} /\ Of(new.table, new.key) # {}
  \/ new.table = "RegulatoryText" /\ \E r \in In(new.table) : row[r].version = new.version

BadInsert(c, r) ==
  /\ call[c].pc = "insert"
  /\ Fresh(r)
  /\ Write(r, call[c].new)
  /\ Return(c)

(* The insertion at the end of a handler; the database refuses a number or *)
(* a version that is taken.  The source of a text is inserted after it.    *)
Insert(c, r) ==
  /\ call[c].pc = "insert"
  /\ Fresh(r)
  /\ IF ~live /\ Collides(call[c].new) THEN UNCHANGED <<live, desk, row>> /\ Return(c)
     ELSE /\ Write(r, call[c].new)
          /\ IF call[c].new.table = "RegulatoryText"
               THEN call' = [call EXCEPT ![c] = [Idle EXCEPT !.pc = "source"]]
               ELSE Return(c)

-----------------------------------------------------------------------------
(* createLegalEntity: 400 duplicate if the SIREN is there. *)
CreateLegalEntity(c, key) ==
  /\ desk = "company"
  /\ Of("LegalEntity", key) = {}
  /\ Begin(c, [Idle EXCEPT !.pc = "insert",
       !.new = [NoRow EXCEPT !.table = "LegalEntity", !.status = "ACTIVE", !.key = key]])

(* createEstablishment: 404 without its entity, 400 if the SIRET is there. *)
CreateEstablishment(c, key) ==
  /\ desk = "company"
  /\ In("LegalEntity") # {} /\ Of("Establishment", key) = {}
  /\ Begin(c, [Idle EXCEPT !.pc = "insert",
       !.new = [NoRow EXCEPT !.table = "Establishment", !.status = "ACTIVE", !.key = key]])

(* createOperatingSite, createPosition, linkAgreement *)
Attach(r, table, parent) ==
  /\ desk = "company" /\ Fresh(r) /\ In(parent) # {}
  /\ Write(r, [NoRow EXCEPT !.table = table])
  /\ UNCHANGED call
CreateOperatingSite(r) == Attach(r, "OperatingSite", "Establishment")
CreatePosition(r) == Attach(r, "Position", "LegalEntity")
LinkAgreement(r) == Attach(r, "Agreement", "LegalEntity")

(* closeEstablishment fetches the establishment, and its successor, ... *)
FetchEstablishment(c, r, date) ==
  /\ desk = "company"
  /\ row[r].table = "Establishment"
  /\ Begin(c, [Idle EXCEPT !.pc = "close", !.on = r, !.date = date,
                           !.new = IF live THEN NoRow ELSE row[r]])

(* ... and closes it, unless it is closed already: its date is kept. *)
CloseEstablishment(c) ==
  /\ At("company", c, "close")
  /\ IF Seen(c).status = "CLOSED" THEN UNCHANGED <<live, desk, row>>
     ELSE Write(call[c].on, [row[call[c].on] EXCEPT !.status = "CLOSED", !.date = call[c].date])
  /\ Return(c)

-----------------------------------------------------------------------------
(* An obligation a hiring detects (modelled in Workforce). *)
Detect(r) ==
  /\ desk = "obligations" /\ Fresh(r)
  /\ Write(r, [NoRow EXCEPT !.table = "Obligation", !.status = "DETECTED"])
  /\ UNCHANGED call

Transitions ==
  {<<"DETECTED", "QUALIFIED">>, <<"DETECTED", "NOT_APPLICABLE">>, <<"QUALIFIED", "ACTIVE">>,
   <<"QUALIFIED", "NOT_APPLICABLE">>, <<"ACTIVE", "IN_PROGRESS">>, <<"ACTIVE", "OVERDUE">>,
   <<"ACTIVE", "NOT_APPLICABLE">>, <<"IN_PROGRESS", "COMPLETED">>, <<"IN_PROGRESS", "OVERDUE">>,
   <<"OVERDUE", "IN_PROGRESS">>, <<"OVERDUE", "COMPLETED">>, <<"COMPLETED", "ARCHIVED">>,
   <<"NOT_APPLICABLE", "ARCHIVED">>}

FetchObligation(c, r, to) ==
  /\ desk = "obligations"
  /\ row[r].table = "Obligation"
  /\ Begin(c, [Idle EXCEPT !.pc = "advance", !.on = r, !.to = to,
                           !.new = IF live THEN NoRow ELSE row[r]])

(* advanceObligation: 409 unless the table of transitions allows it. *)
AdvanceObligation(c) ==
  /\ At("obligations", c, "advance")
  /\ IF <<Seen(c).status, call[c].to>> \in Transitions
       THEN Write(call[c].on, [row[call[c].on] EXCEPT !.status = call[c].to])
       ELSE UNCHANGED <<live, desk, row>>
  /\ Return(c)

-----------------------------------------------------------------------------
Latest(rows) == {r \in rows : \A q \in rows : row[q].version <= row[r].version}
Version(rows) == IF rows = {} THEN 0 ELSE row[CHOOSE r \in Latest(rows) : TRUE].version
Following(c, table, key, rows) ==
  /\ desk = "versions"
  /\ Begin(c, [Idle EXCEPT !.pc = "insert",
       !.new = [NoRow EXCEPT !.table = table, !.key = key, !.version = Version(rows) + 1]])

BadIngestText(c, hash) ==
  Following(c, "RegulatoryText", hash, In("RegulatoryText"))

(* ingestText, for one agreement: nothing if the latest version has this   *)
(* hash, else one version more.  Overlapping calls may leave two latest    *)
(* versions in memory, and either may be the one compared.                 *)
IngestText(c, hash) ==
  LET texts == In("RegulatoryText") IN
  /\ texts = {} \/ \E r \in Latest(texts) : row[r].key # hash
  /\ Following(c, "RegulatoryText", hash, texts)

(* ... and then its source. *)
CreateSource(c, r) ==
  /\ At("versions", c, "source") /\ Fresh(r)
  /\ Write(r, [NoRow EXCEPT !.table = "RegulatorySource"])
  /\ Return(c)

(* setBudget: one version more than the latest of the year. *)
SetBudget(c, year) ==
  Following(c, "Budget", year, Of("Budget", year))

-----------------------------------------------------------------------------
(* A case is inserted; one with a date to watch gets its deadline when the *)
(* insertion has returned.                                                 *)
Case(c, r, table, status, date) ==
  /\ desk = "cases" /\ Fresh(r) /\ call[c] = Idle
  /\ Write(r, [NoRow EXCEPT !.table = table, !.status = status, !.date = date])
  /\ call' = IF date = None THEN call
             ELSE [call EXCEPT ![c] = [Idle EXCEPT !.pc = "watch", !.on = r, !.date = date]]

AddRisk(c, r) == Case(c, r, "Risk", "OPEN", None)

(* Only a serious accident has a date: the declaration is due in two days. *)
DeclareAccident(c, r, date) == Case(c, r, "WorkAccident", "NONE", date)

BadCreateInteraction(c, r, date) ==
  /\ desk = "cases" /\ Fresh(r) /\ call[c] = Idle
  /\ Write(r, [NoRow EXCEPT !.table = "AuthorityInteraction", !.status = "OPEN", !.date = date])
  /\ UNCHANGED call

CreateInteraction(c, r, date) == Case(c, r, "AuthorityInteraction", "OPEN", date)
AddCompetency(c, r, date) == Case(c, r, "Competency", "NONE", date)
PlanTraining(c, r, date) == Case(c, r, "Training", "PLANNED", date)
PlanReview(c, r) == Case(c, r, "CareerReview", "PLANNED", None)
AddMandate(c, r) == Case(c, r, "CseMandate", "ACTIVE", None)
PlanMeeting(c, r) == Case(c, r, "CseMeeting", "PLANNED", None)
OpenNegotiation(c, r) == Case(c, r, "Negotiation", "PLANNED", None)
PlanShift(c, r) == Case(c, r, "Shift", "NONE", None)
RecordTime(c, r) == Case(c, r, "TimeEntry", "NONE", None)

DeadlineOn(date) == [NoRow EXCEPT !.table = "Deadline", !.status = "OPEN", !.date = date]
Watch(c, r) ==
  /\ At("cases", c, "watch") /\ Fresh(r)
  /\ Write(r, DeadlineOn(call[c].date))
  /\ Return(c)

(* createDeadline *)
CreateDeadline(r, date) ==
  /\ desk = "cases" /\ Fresh(r)
  /\ Write(r, DeadlineOn(date))
  /\ UNCHANGED call

(* The status of a case is set, whatever it was. *)
Set(r, table, to) ==
  /\ desk = "cases" /\ row[r].table = table
  /\ Write(r, [row[r] EXCEPT !.status = to])
  /\ UNCHANGED call

UpdateRisk(r, to) == to \in {"OPEN", "CONTROLLED"} /\ Set(r, "Risk", to)
Respond(r) == Set(r, "AuthorityInteraction", "RESPONDED")
CloseInteraction(r) == Set(r, "AuthorityInteraction", "CLOSED")
CompleteTraining(r) == Set(r, "Training", "DONE")
HoldReview(r) == Set(r, "CareerReview", "HELD")
RecordMinutes(r) == Set(r, "CseMeeting", "HELD")
SetNegotiationStatus(r, to) == to \in NegotiationStatus /\ Set(r, "Negotiation", to)
MarkDone(r) == Set(r, "Deadline", "DONE")

-----------------------------------------------------------------------------
(* A call to the database rejects: the handler is abandoned. *)
Fail(c) ==
  /\ ~live /\ call[c] # Idle
  /\ Return(c)
  /\ UNCHANGED <<live, desk, row>>

Create(c, r) ==
  \/ AddRisk(c, r) \/ PlanReview(c, r) \/ AddMandate(c, r) \/ PlanMeeting(c, r)
  \/ OpenNegotiation(c, r) \/ PlanShift(c, r) \/ RecordTime(c, r)
  \/ \E date \in Dates \cup {None} :
       \/ DeclareAccident(c, r, date) \/ CreateInteraction(c, r, date)
       \/ AddCompetency(c, r, date) \/ PlanTraining(c, r, date)

Change(r) ==
  \/ Respond(r) \/ CloseInteraction(r) \/ CompleteTraining(r) \/ HoldReview(r)
  \/ RecordMinutes(r) \/ MarkDone(r)
  \/ \E to \in Statuses : UpdateRisk(r, to) \/ SetNegotiationStatus(r, to)

Next ==
  \/ \E c \in Calls : CloseEstablishment(c) \/ AdvanceObligation(c) \/ Fail(c)
  \/ \E c \in Calls, k \in Keys :
       CreateLegalEntity(c, k) \/ CreateEstablishment(c, k) \/ IngestText(c, k) \/ SetBudget(c, k)
  \/ \E c \in Calls, r \in Ids : Insert(c, r) \/ CreateSource(c, r) \/ Create(c, r) \/ Watch(c, r)
  \/ \E c \in Calls, r \in Ids, d \in Dates : FetchEstablishment(c, r, d)
  \/ \E c \in Calls, r \in Ids, s \in ObligationStatus : FetchObligation(c, r, s)
  \/ \E r \in Ids : CreateOperatingSite(r) \/ CreatePosition(r) \/ LinkAgreement(r)
  \/ \E r \in Ids : Detect(r) \/ Change(r) \/ \E d \in Dates : CreateDeadline(r, d)

Spec == Init /\ [][Next]_vars

-----------------------------------------------------------------------------
(* What should be there once: a SIREN, a SIRET, the version of a text and  *)
(* of the budget of a year.                                                *)
Same(r, q) ==
  /\ row[r].table = row[q].table
  /\ row[r].table \in {"LegalEntity", "Establishment"} => row[r].key = row[q].key
  /\ row[r].table = "RegulatoryText" => row[r].version = row[q].version
  /\ row[r].table = "Budget" => row[r].key = row[q].key /\ row[r].version = row[q].version

Twice == IF live THEN Cardinality(Calls) ELSE 1

(* No SIREN, SIRET or version of a text is there twice over the database,  *)
(* nor more often than handlers overlap in memory; budgets have no index,  *)
(* so theirs may repeat over either store (createLegalEntity,              *)
(* createEstablishment, ingestText, setBudget: they look, then insert).    *)
NumberedOnce ==
  \A r \in In("LegalEntity") \cup In("Establishment") \cup In("RegulatoryText") \cup In("Budget") :
    Cardinality({q \in Ids : Same(r, q)})
      <= IF row[r].table = "Budget" THEN Cardinality(Calls) ELSE Twice

(* Versions follow each other without a gap, and over the database a text  *)
(* differs from the one before it: ingesting is idempotent, whatever       *)
(* overlaps or fails (ingestText, setBudget).                              *)
VersionsFollow ==
  \A r \in In("RegulatoryText") \cup In("Budget") : row[r].version > 1 =>
    \E q \in In(row[r].table) :
      /\ row[q].version = row[r].version - 1
      /\ row[r].table = "Budget" => row[q].key = row[r].key
      /\ row[r].table = "RegulatoryText" /\ ~live => row[q].key # row[r].key

(* In memory an establishment keeps the date it was closed at, and an      *)
(* obligation only follows the table of transitions, though another        *)
(* handler may have changed the row since it was fetched                   *)
(* (closeEstablishment, advanceObligation).                                *)
HistoryStands ==
  [][live => \A r \in Ids :
       /\ row[r].table = "Establishment" /\ row[r].status = "CLOSED" => row'[r] = row[r]
       /\ row[r].table = "Obligation" /\ row'[r] # row[r] =>
            <<row[r].status, row'[r].status>> \in Transitions]_vars

Watched == {"WorkAccident", "AuthorityInteraction", "Competency", "Training"}

(* In memory every due date of a case is watched by a deadline and every   *)
(* text has its source, or the handler is about to add it: nothing links   *)
(* the two rows, and over the database a failure between them loses the    *)
(* second (declareAccident, createInteraction, addCompetency,              *)
(* planTraining, ingestText).                                              *)
SecondRowFollows ==
  live =>
    /\ \A d \in Dates :
         Cardinality({r \in Ids : row[r].table \in Watched /\ row[r].date = d})
           <= Cardinality({r \in In("Deadline") : row[r].date = d})
              + Cardinality({c \in Calls : call[c].pc = "watch" /\ call[c].date = d})
    /\ Cardinality(In("RegulatoryText"))
         = Cardinality(In("RegulatorySource")) + Cardinality({c \in Calls : call[c].pc = "source"})
=============================================================================
