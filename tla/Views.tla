------------------------------- MODULE Views -------------------------------
(***************************************************************************)
(* What the services compute from the rows of others: the organisation     *)
(* chart (src/services-org.ts), the watch over dates                       *)
(* (services-deadlines.ts), the alerts (services-notifications.ts), and    *)
(* the variables of pay (domain/payroll-prep.ts, domain/time.ts).  A view  *)
(* reads in several steps and writes nothing; it is taken at one moment.   *)
(*                                                                         *)
(* How rows advance is modelled in the other modules: here a status may    *)
(* become any other of its table.  The chart and the rows have nothing in  *)
(* common, so a behaviour is about one of the two.  The proofs extend      *)
(* Leave as well, whence the names of the constants and ViewsSpec.         *)
(***************************************************************************)
EXTENDS Integers, FiniteSetsExt, Functions, Sequences

CONSTANTS
  Staff,        \* identifiers of employments
  Ids,          \* identifiers of the other rows
  MaxDay,       \* the days are 0 .. MaxDay
  MaxMoves,     \* assignments of an employment
  MonthStarts,  \* the first days of the months
  Hours,        \* the hours of a time entry, in hundredths
  Monthly,      \* the contractual hours of a month, in hundredths
  SoonDays,     \* the horizon of the watch (60 days)
  Topics,       \* what the behaviours are about
  Nil           \* no manager, no date, no kind

Dates == 0 .. MaxDay

ASSUME ViewsAssumption ==
  /\ IsFiniteSet(Staff) /\ IsFiniteSet(Ids)
  /\ MaxDay \in Nat /\ MaxMoves \in Nat
  /\ MonthStarts \subseteq Dates /\ 0 \in MonthStarts
  /\ Hours \subseteq Nat /\ Monthly \in Nat /\ SoonDays \in Nat
  /\ Topics \subseteq {"chart", "rows"}

(* The statuses the rows of each table go through, the first one first. *)
StatusesOf ==
  [Obligation |-> <<"DETECTED", "QUALIFIED", "OVERDUE", "COMPLETED">>,
   Contract |-> <<"DRAFT", "REVIEW", "VALIDATED", "SIGNED", "ACTIVE">>,
   Doc |-> <<"NONE", "PENDING", "SIGNED">>,
   LeaveRequest |-> <<"REQUESTED", "MANAGER_APPROVED", "APPROVED", "REFUSED">>,
   Employment |-> <<"ACTIVE", "EXITING", "ENDED">>,
   Deadline |-> <<"OPEN", "DONE">>,
   TimeEntry |-> <<"RECORDED">>]
Tables == DOMAIN StatusesOf
StatusOf(table) == {StatusesOf[table][i] : i \in DOMAIN StatusesOf[table]}

VARIABLES
  topic,   \* what this behaviour is about
  day,     \* the day it is
  emp,     \* the status of each employment
  place,   \* its assignments, the oldest first
  row      \* the other rows

viewVars == <<topic, day, emp, place, row>>

EmploymentStatus == {"NONE", "ACTIVE", "EXITING", "ENDED", "ARCHIVED"}
Assignment == [from : Dates, to : Dates \cup {-1, Nil}, manager : Staff \cup {Nil}]
(* kind is the type of a contract or of a leave; due its end, its date or  *)
(* the first day of a leave, until the last; hours those of a time entry.  *)
Row == [table : Tables \cup {"none"},
        status : {"none"} \cup UNION {StatusOf(t) : t \in Tables},
        kind : {Nil, "CDD", "PAID", "UNPAID"}, due : Dates \cup {Nil},
        until : Dates \cup {Nil}, hours : Hours \cup {0}]
NoRow == [table |-> "none", status |-> "none", kind |-> Nil, due |-> Nil,
          until |-> Nil, hours |-> 0]

ViewsTypeOK ==
  /\ topic \in Topics /\ day \in Dates
  /\ emp \in [Staff -> EmploymentStatus]
  /\ place \in [Staff -> Seq(Assignment)]
  /\ row \in [Ids -> Row]

ViewsInit ==
  /\ topic \in Topics
  /\ day = 0
  /\ emp = [e \in Staff |-> "NONE"]
  /\ place = [e \in Staff |-> << >>]
  /\ row = [r \in Ids |-> NoRow]

-----------------------------------------------------------------------------
(* Mistakes: the operators named Bad... are not part of the specification; *)
(* each is a plausible slip in the definition of the same name below it.   *)

(* A hiring, with its assignment; the manager, if any, is there. *)
Hire(e, from, manager) ==
  /\ topic = "chart" /\ emp[e] = "NONE"
  /\ manager \in {m \in Staff : emp[m] # "NONE"} \cup {Nil}
  /\ emp' = [emp EXCEPT ![e] = "ACTIVE"]
  /\ place' = [place EXCEPT ![e] = <<[from |-> from, to |-> Nil, manager |-> manager]>>]
  /\ UNCHANGED <<topic, day, row>>

(* addAssignment: the latest one left open ends the day before.  The body  *)
(* of the request is spread into the row, its manager with it.             *)
Move(e, from, manager) ==
  LET open == {i \in DOMAIN place[e] : place[e][i].to = Nil}
      latest == {i \in open : \A j \in open : place[e][j].from <= place[e][i].from}
      closed == [i \in DOMAIN place[e] |->
                   IF latest # {} /\ i = Max(latest) THEN [place[e][i] EXCEPT !.to = from - 1]
                                                     ELSE place[e][i]]
  IN /\ topic = "chart" /\ emp[e] # "NONE"
     /\ Len(place[e]) < MaxMoves
     /\ manager \in {m \in Staff : emp[m] # "NONE"} \cup {Nil}
     /\ place' = [place EXCEPT ![e] =
                    Append(closed, [from |-> from, to |-> Nil, manager |-> manager])]
     /\ UNCHANGED <<topic, day, emp, row>>

(* declareDeparture: every assignment ends by then. *)
Depart(e, end) ==
  /\ topic = "chart" /\ emp[e] \in {"ACTIVE", "EXITING"}
  /\ emp' = [emp EXCEPT ![e] = IF end <= day THEN "ENDED" ELSE "EXITING"]
  /\ place' = [place EXCEPT ![e] = [i \in DOMAIN @ |->
                 IF @[i].to = Nil \/ @[i].to > end THEN [@[i] EXCEPT !.to = end] ELSE @[i]]]
  /\ UNCHANGED <<topic, day, row>>

Archive(e) ==
  /\ topic = "chart" /\ emp[e] = "ENDED"
  /\ emp' = [emp EXCEPT ![e] = "ARCHIVED"]
  /\ UNCHANGED <<topic, day, place, row>>

(* A row of another service is added, ... *)
Add(r, new) ==
  /\ topic = "rows" /\ row[r] = NoRow
  /\ row' = [row EXCEPT ![r] = [new EXCEPT !.status = StatusesOf[new.table][1]]]
  /\ UNCHANGED <<topic, day, emp, place>>

(* ... and changes. *)
Advance(r, status) ==
  /\ row[r] # NoRow /\ status \in StatusOf(row[r].table)
  /\ row' = [row EXCEPT ![r].status = status]
  /\ UNCHANGED <<topic, day, emp, place>>

NextDay ==
  /\ day < MaxDay
  /\ day' = day + 1
  /\ UNCHANGED <<topic, emp, place, row>>

Change(e) ==
  \/ Archive(e)
  \/ \E d \in Dates : Depart(e, d)
  \/ \E d \in Dates, m \in (Staff \ {e}) \cup {Nil} : Hire(e, d, m) \/ Move(e, d, m)

Dated(table, kind, due) == [NoRow EXCEPT !.table = table, !.kind = kind, !.due = due]
Insert(r) ==
  \/ \E t \in {"Obligation", "Doc"} : Add(r, Dated(t, Nil, Nil))
  \/ \E d \in Dates : Add(r, Dated("Deadline", Nil, d)) \/ Add(r, Dated("Contract", "CDD", d))
  \/ Add(r, Dated("Contract", Nil, Nil))
  \/ \E d \in Dates \cup {Nil} : Add(r, Dated("Employment", Nil, d))
  \/ \E k \in {"PAID", "UNPAID"}, d \in Dates : \E u \in d .. MaxDay :
       Add(r, [Dated("LeaveRequest", k, d) EXCEPT !.until = u])
  \/ \E h \in Hours, d \in Dates : Add(r, [Dated("TimeEntry", Nil, d) EXCEPT !.hours = h])

ViewsNext ==
  \/ NextDay
  \/ \E e \in Staff : Change(e)
  \/ \E r \in Ids : Insert(r) \/ \E t \in Tables : \E s \in StatusOf(t) : Advance(r, s)

ViewsSpec == ViewsInit /\ [][ViewsNext]_viewVars

-----------------------------------------------------------------------------
(* The organisation chart.  The assignment of somebody is the first one in *)
(* force, or the last one there is.                                        *)
Current(e) ==
  LET inForce == {i \in DOMAIN place[e] :
                    place[e][i].from <= day /\ (place[e][i].to = Nil \/ day <= place[e][i].to)}
  IN place[e][IF inForce = {} THEN Len(place[e]) ELSE Min(inForce)]

Nodes == {e \in Staff : emp[e] \notin {"NONE", "ENDED"}}
ManagerOf(e) == Current(e).manager

BadRoots == {e \in Nodes : ManagerOf(e) = Nil}

(* Who has no manager, or none in the chart, is at its top. *)
Roots == {e \in Nodes : ManagerOf(e) \notin Nodes}

(* The chart down to a depth of n from its top: those who report to        *)
(* somebody in it are below.  Nobody is deeper than there are people.      *)
strip[n \in Nat] ==
  IF n = 0 THEN Roots ELSE strip[n - 1] \cup {e \in Nodes : ManagerOf(e) \in strip[n - 1]}
Listed == strip[Cardinality(Nodes)]

-----------------------------------------------------------------------------
(* Alerts and the watch. *)
Has(table) == {r \in Ids : row[r].table = table}

daysUntil(due) == due - day

statusOf(due) ==
  IF daysUntil(due) < 0 THEN "OVERDUE" ELSE IF daysUntil(due) <= SoonDays THEN "DUE_SOON" ELSE "UPCOMING"

Severity == [OVERDUE |-> "CRITICAL", DUE_SOON |-> "IMPORTANT"]
Rank(severity) ==
  CASE severity = "CRITICAL" -> 0 [] severity = "IMPORTANT" -> 1 [] severity = "ACTION" -> 2
Alert(severity, category, r) == [severity |-> severity, category |-> category, ref |-> r]
Alerts(rows, severity, category) == {Alert(severity, category, r) : r \in rows}

BadDateAlerts(rows, category) ==
  {Alert("IMPORTANT", category, r) : r \in {q \in rows : statusOf(row[q].due) = "DUE_SOON"}}

DateAlerts(rows, category) ==
  {Alert(Severity[statusOf(row[r].due)], category, r) :
     r \in {q \in rows : statusOf(row[q].due) # "UPCOMING"}}

CddEnds == {r \in Has("Contract") : row[r].kind = "CDD" /\ row[r].due # Nil}

BadBuild == DateAlerts(Has("Deadline"), "deadline") \cup DateAlerts(CddEnds, "contract_end")

(* NotificationService.build *)
build ==
  UNION {
    Alerts({r \in Has("Obligation") : row[r].status = "OVERDUE"}, "CRITICAL", "obligation"),
    Alerts({r \in Has("Obligation") : row[r].status = "DETECTED"}, "IMPORTANT", "obligation"),
    Alerts({r \in Has("Contract") : row[r].status \in {"DRAFT", "REVIEW", "VALIDATED"}}, "ACTION", "contract"),
    Alerts({r \in Has("Doc") : row[r].status = "PENDING"}, "ACTION", "document"),
    Alerts({r \in Has("LeaveRequest") : row[r].status = "REQUESTED"}, "ACTION", "leave"),
    Alerts({r \in Has("Employment") : row[r].status = "EXITING"}, "IMPORTANT", "departure"),
    DateAlerts({r \in Has("Deadline") : row[r].status = "OPEN"}, "deadline"),
    DateAlerts(CddEnds, "contract_end")}

(* DeadlineService.forCompany; the obligations the code creates have no    *)
(* date.                                                                   *)
forCompany ==
  {<<r, statusOf(row[r].due)>> :
     r \in {q \in Has("Deadline") : row[q].status = "OPEN"} \cup CddEnds
           \cup {q \in Has("Employment") : row[q].due # Nil}}

-----------------------------------------------------------------------------
(* The variables of pay.  A month is known by its first day. *)
periodBounds(m) ==
  LET later == {n \in MonthStarts : n > m} IN
  [start |-> m, end |-> IF later = {} THEN MaxDay ELSE Min(later) - 1]
inMonth(date, m) == m = Max({n \in MonthStarts : n <= date})

BadOverlapDays(startA, endA, startB, endB) ==
  LET s == Max({startA, startB}) e == Min({endA, endB}) IN IF e <= s THEN 0 ELSE e - s + 1

overlapDays(startA, endA, startB, endB) ==
  LET s == Max({startA, startB}) e == Min({endA, endB}) IN IF e < s THEN 0 ELSE e - s + 1

ApprovedLeaves(kind) ==
  {r \in Has("LeaveRequest") : row[r].status = "APPROVED" /\ row[r].kind = kind}
sumHoursInMonth(m) ==
  SumFunction([r \in {q \in Has("TimeEntry") : inMonth(row[q].due, m)} |-> row[r].hours])

(* buildPayrollInput: the days of these leaves that fall in the month, the *)
(* hours worked, and those beyond the contractual ones.                    *)
buildPayrollInput(approved, worked, m) ==
  LET period == periodBounds(m) IN
  [leaves |-> [k \in DOMAIN approved |->
                SumFunction([r \in approved[k] |->
                  overlapDays(row[r].due, row[r].until, period.start, period.end)])],
   workedHours |-> worked, overtimeHours |-> Max({0, worked - Monthly})]

(* preparePayrollInput, for one employment. *)
preparePayrollInput(m) ==
  buildPayrollInput([k \in {"PAID", "UNPAID"} |-> ApprovedLeaves(k)], sumHoursInMonth(m), m)

-----------------------------------------------------------------------------
(* The chart lists somebody who has not ended, at its top or below         *)
(* somebody, unless the managers above go round in a circle, and then it   *)
(* does not (OrgService.chart).                                            *)
Line(e) == LET up[n \in Nat] ==
                 IF n = 0 THEN e ELSE IF up[n - 1] \in Nodes THEN ManagerOf(up[n - 1]) ELSE up[n - 1]
           IN  up
InCircle(e) == \E i, j \in 0 .. Cardinality(Nodes) :
                 i < j /\ Line(e)[i] = Line(e)[j] /\ Line(e)[i] \in Nodes
ChartComplete == \A e \in Nodes : e \in Listed <=> ~InCircle(e)

(* The alerts and the watch say the same of a deadline and of the end of a *)
(* contract: critical what is overdue, important what is due soon          *)
(* (NotificationService.build, DeadlineService.forCompany).                *)
AlertsAgree ==
  {<<a.ref, a.severity>> : a \in {b \in build : b.category \in {"deadline", "contract_end"}}}
    = {<<i[1], Severity[i[2]]>> : i \in {j \in forCompany : /\ j[2] # "UPCOMING"
                                                            /\ row[j[1]].table # "Employment"}}

(* As days pass and nobody acts, no alert goes away or becomes less        *)
(* pressing (statusOf, NotificationService.build).                         *)
UrgencyGrows ==
  [][row' = row => \A a \in build : \E b \in build' :
       b.ref = a.ref /\ b.category = a.category /\ Rank(b.severity) <= Rank(a.severity)]_viewVars

(* Every day of an approved leave and every recorded hour is in the pay of *)
(* one month, and of one only: days are shared out by the bounds of the    *)
(* months, hours by their dates (preparePayrollInput, overlapDays,         *)
(* sumHoursInMonth).                                                       *)
PaidOnce ==
  /\ \A k \in {"PAID", "UNPAID"} :
       SumFunction([m \in MonthStarts |-> preparePayrollInput(m).leaves[k]])
         = SumFunction([r \in ApprovedLeaves(k) |-> row[r].until - row[r].due + 1])
  /\ SumFunction([m \in MonthStarts |-> preparePayrollInput(m).workedHours])
       = SumFunction([r \in Has("TimeEntry") |-> row[r].hours])
=============================================================================
