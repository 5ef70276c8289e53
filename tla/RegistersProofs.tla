--------------------------- MODULE RegistersProofs ---------------------------
(***************************************************************************)
(* Theorems about the registers, for every number of handlers, rows, keys  *)
(* and dates, over either store.                                           *)
(***************************************************************************)
EXTENDS Registers, FiniteSetTheorems, TLAPS

-----------------------------------------------------------------------------
(* What a step does *)

(* The tables with a number that should be there once, and those that an   *)
(* operation of one step inserts into, with nothing to follow.             *)
Numbered == {"LegalEntity", "Establishment", "RegulatoryText", "Budget"}

(* Two rows that should not both be there.                                 *)
Alike(v, w) ==
  /\ v.table = w.table
  /\ v.table \in {"LegalEntity", "Establishment"} => v.key = w.key
  /\ v.table = "RegulatoryText" => v.version = w.version
  /\ v.table = "Budget" => v.key = w.key /\ v.version = w.version

(* A version beyond the first has the one before it.                       *)
Follows(v) ==
  v.table \in {"RegulatoryText", "Budget"} /\ v.version > 1 =>
    \E q \in In(v.table) :
      /\ row[q].version = v.version - 1
      /\ v.table = "Budget" => row[q].key = v.key
      /\ v.table = "RegulatoryText" /\ ~live => row[q].key # v.key

(* What a handler holds at each stage.                                     *)
HeldFor(c) ==
  /\ call[c].pc = "insert" => call[c].new.table \in Numbered
  /\ call[c].pc = "close" => call[c].on \in Ids /\ row[call[c].on].table = "Establishment"
  /\ call[c].pc = "advance" => call[c].on \in Ids /\ row[call[c].on].table = "Obligation"
  /\ call[c].pc = "watch" => call[c].date \in Dates

Held == \A c \in Calls : HeldFor(c)

Typed == TypeOK /\ Held

(* A handler begins: it saw no row like the one it will insert, or fetched *)
(* one.                                                                    *)
Begins(c, held) ==
  /\ call[c] = Idle /\ call' = [call EXCEPT ![c] = held] /\ row' = row
  /\ held \in Call
  /\ \/ /\ held.pc = "insert" /\ held.new.table \in Numbered
        /\ \A q \in Ids : ~Alike(held.new, row[q])
        /\ Follows(held.new)
     \/ held.pc = "close" /\ held.on \in Ids /\ row[held.on].table = "Establishment"
     \/ held.pc = "advance" /\ held.on \in Ids /\ row[held.on].table = "Obligation"

(* It ends without writing: a refusal, or a failure.                       *)
Ends(c) ==
  /\ row' = row /\ call' = [call EXCEPT ![c] = Idle]
  /\ live => call[c].pc \in {"close", "advance"}

Inserts(c, r) ==
  /\ call[c].pc = "insert" /\ Fresh(r)
  /\ row' = [row EXCEPT ![r] = call[c].new]
  /\ ~live => ~Collides(call[c].new)
  /\ call' = [call EXCEPT ![c] = IF call[c].new.table = "RegulatoryText"
                                   THEN [Idle EXCEPT !.pc = "source"] ELSE Idle]

(* A row with nothing to follow it is added.                               *)
Adds(r, v) ==
  /\ Fresh(r) /\ v \in Row
  /\ v.table \notin Numbered \cup {"RegulatorySource", None}
  /\ v.table \in Watched => v.date = None
  /\ row' = [row EXCEPT ![r] = v] /\ call' = call

(* A case with a due date is added, its deadline is to follow.             *)
AddsWatched(c, r, v) ==
  /\ Fresh(r) /\ call[c] = Idle /\ v \in Row
  /\ v.table \in Watched /\ v.date \in Dates
  /\ row' = [row EXCEPT ![r] = v]
  /\ call' = [call EXCEPT ![c] = [Idle EXCEPT !.pc = "watch", !.on = r, !.date = v.date]]

(* The second row is added: a deadline or a source.                        *)
AddsSecond(c, r, v) ==
  /\ Fresh(r) /\ v \in Row
  /\ \/ call[c].pc = "watch" /\ v = DeadlineOn(call[c].date)
     \/ call[c].pc = "source" /\ v = [NoRow EXCEPT !.table = "RegulatorySource"]
  /\ row' = [row EXCEPT ![r] = v] /\ call' = [call EXCEPT ![c] = Idle]

(* The status of a case is set.                                            *)
Sets(r, to) ==
  /\ row[r].table \notin Numbered \cup {"Obligation", None}
  /\ to \in Statuses
  /\ row' = [row EXCEPT ![r] = [row[r] EXCEPT !.status = to]] /\ call' = call

(* An establishment is closed, an obligation advances.                     *)
Closes(c) ==
  LET r == call[c].on IN
  /\ call[c].pc = "close"
  /\ live => row[r].status # "CLOSED"
  /\ row' = [row EXCEPT ![r] = [row[r] EXCEPT !.status = "CLOSED", !.date = call[c].date]]
  /\ call' = [call EXCEPT ![c] = Idle]

Advances(c) ==
  LET r == call[c].on IN
  /\ call[c].pc = "advance"
  /\ live => <<row[r].status, call[c].to>> \in Transitions
  /\ row' = [row EXCEPT ![r] = [row[r] EXCEPT !.status = call[c].to]]
  /\ call' = [call EXCEPT ![c] = Idle]

(* The forms a step can take.                                              *)
Steps ==
  /\ live' = live /\ desk' = desk
  /\ \/ row' = row /\ call' = call
     \/ \E c \in Calls, held \in Call : Begins(c, held)
     \/ \E c \in Calls : Ends(c) \/ Closes(c) \/ Advances(c)
     \/ \E c \in Calls, r \in Ids : Inserts(c, r)
     \/ \E r \in Ids, v \in Row : Adds(r, v)
     \/ \E c \in Calls, r \in Ids, v \in Row : AddsWatched(c, r, v) \/ AddsSecond(c, r, v)
     \/ \E r \in Ids, to \in Statuses : Sets(r, to)

-----------------------------------------------------------------------------
(* Versions *)

(* A finite set that is not empty has an element of the greatest number.   *)
LEMMA GreatestOf ==
  ASSUME NEW S, IsFiniteSet(S), S # {}, NEW f, \A s \in S : f[s] \in Nat
  PROVE  \E m \in S : \A s \in S : f[s] <= f[m]
<1> DEFINE Has(T) == \E m \in T : \A s \in T : f[s] <= f[m]
           Bad == {T \in FiniteSubsetsOf(S) : T # {} /\ ~Has(T)}
           R == StrictSubsetOrdering(S)
<1>1. SUFFICES ASSUME ~Has(S) PROVE FALSE
  OBVIOUS
<1>2. S \in Bad
  BY <1>1 DEF FiniteSubsetsOf
<1>3. IsWellFoundedOn(R, FiniteSubsetsOf(S)) /\ Bad \subseteq FiniteSubsetsOf(S)
  BY FS_StrictSubsetOrderingWellFounded
<1> HIDE DEF R, Has
<1>4. PICK T \in Bad : \A U \in Bad : ~(<<U, T>> \in R)
  <2> HIDE DEF Bad
  <2> QED BY <1>2, <1>3, WFMin
<1>5. T \subseteq S /\ IsFiniteSet(T) /\ T # {} /\ ~Has(T)
  BY <1>4 DEF FiniteSubsetsOf
<1>6. PICK x \in T : TRUE
  BY <1>5
<1> DEFINE U == T \ {x}
<1>7. IsFiniteSet(U) /\ U \subseteq S /\ U \subseteq T /\ U # T
  BY <1>5, <1>6, FS_RemoveElement
<1>8. <<U, T>> \in R
  BY <1>5, <1>7 DEF R, StrictSubsetOrdering
<1>9. U = {} \/ Has(U)
  BY <1>4, <1>7, <1>8 DEF FiniteSubsetsOf
<1>10. CASE U = {}
  <2>1. T = {x} /\ f[x] \in Nat
    BY <1>5, <1>6, <1>10
  <2> QED BY <1>5, <2>1 DEF Has
<1>11. CASE Has(U)
  <2>1. PICK m \in U : \A s \in U : f[s] <= f[m]
    BY <1>11 DEF Has
  <2>2. f[m] \in Nat /\ f[x] \in Nat /\ \A s \in T : f[s] \in Nat /\ (s = x \/ s \in U)
    BY <1>5, <1>6, <2>1
  <2>3. CASE f[x] <= f[m]
    BY <1>5, <2>1, <2>2, <2>3 DEF Has
  <2>4. CASE f[m] <= f[x]
    <3>1. \A s \in T : f[s] <= f[x]
      BY <2>1, <2>2, <2>4
    <3> QED BY <1>5, <1>6, <3>1 DEF Has
  <2> QED BY <2>2, <2>3, <2>4
<1> QED BY <1>9, <1>10, <1>11

(* Version is the greatest version there is, that of every latest row.     *)
LEMMA VersionIsLast ==
  ASSUME TypeOK, NEW rows \in SUBSET Ids
  PROVE  /\ Version(rows) \in Nat
         /\ \A q \in rows : row[q].version <= Version(rows)
         /\ rows # {} => Latest(rows) # {}
         /\ rows = {} => Version(rows) = 0
         /\ \A q \in Latest(rows) : q \in rows /\ row[q].version = Version(rows)
<1>1. CASE rows = {}
  BY <1>1 DEF Version, Latest
<1>2. CASE rows # {}
  <2> DEFINE f == [r \in Ids |-> row[r].version]
  <2>1. \A r \in Ids : row[r].version \in Nat
    BY DEF TypeOK, Row
  <2>2. IsFiniteSet(rows)
    BY RegistersAssumption, FS_Subset
  <2>3. PICK m \in rows : \A q \in rows : row[q].version <= row[m].version
    <3>1. \A q \in rows : f[q] \in Nat /\ f[q] = row[q].version
      BY <2>1
    <3> HIDE DEF f
    <3>2. \E m \in rows : \A q \in rows : f[q] <= f[m]
      BY <1>2, <2>2, <3>1, GreatestOf
    <3> QED BY <3>1, <3>2
  <2>4. m \in Latest(rows)
    BY <2>3 DEF Latest
  <2> DEFINE l == CHOOSE r \in Latest(rows) : TRUE
  <2>5. l \in Latest(rows) /\ Version(rows) = row[l].version
    BY <1>2, <2>4 DEF Version
  <2> HIDE DEF l
  <2>6. l \in rows /\ \A q \in rows : row[q].version <= row[l].version
    BY <2>5 DEF Latest
  <2>7. \A q \in Latest(rows) : q \in rows /\ row[q].version = row[l].version
    BY <2>1, <2>5 DEF Latest
  <2> QED BY <1>2, <2>1, <2>4, <2>5, <2>6, <2>7
<1> QED BY <1>1, <1>2

-----------------------------------------------------------------------------
(* Every action takes one of these forms *)

LEMMA RecordTypes ==
  /\ NoRow \in Row /\ Idle \in Call /\ Idle.pc = "idle" /\ NoRow.table = None
  /\ None \notin Tables /\ None \notin Dates /\ None \notin Ids
BY RegistersAssumption DEF NoRow, Row, Idle, Call, Stages, Statuses

(* A number is looked for, and a row with it is to be inserted.            *)
LEMMA BeginInsert ==
  ASSUME Typed, NEW c \in Calls, NEW new \in Row, new.table \in Numbered,
         \A q \in Ids : ~Alike(new, row[q]), Follows(new),
         Begin(c, [Idle EXCEPT !.pc = "insert", !.new = new])
  PROVE  Steps
<1> DEFINE held == [Idle EXCEPT !.pc = "insert", !.new = new]
<1>1. held \in Call /\ held.pc = "insert" /\ held.new = new
  BY RecordTypes DEF Idle, Call, Stages
<1> HIDE DEF held
<1>2. Begins(c, held) /\ live' = live /\ desk' = desk
  BY <1>1 DEF Begin, Begins, held
<1> QED BY <1>1, <1>2 DEF Steps

LEMMA BeginFetch ==
  ASSUME Typed, NEW c \in Calls, NEW r \in Ids, NEW held \in Call, held.on = r,
         \/ held.pc = "close" /\ row[r].table = "Establishment"
         \/ held.pc = "advance" /\ row[r].table = "Obligation",
         Begin(c, held)
  PROVE  Steps
<1>1. Begins(c, held) /\ live' = live /\ desk' = desk
  BY DEF Begin, Begins
<1> QED BY <1>1 DEF Steps

(* A text or a budget follows the versions there are.                      *)
LEMMA BeginVersion ==
  ASSUME Typed, NEW c \in Calls, NEW k \in Keys, NEW table \in {"RegulatoryText", "Budget"},
         NEW rows, rows = IF table = "Budget" THEN Of("Budget", k) ELSE In("RegulatoryText"),
         table = "RegulatoryText" => rows = {} \/ \E r \in Latest(rows) : row[r].key # k,
         Following(c, table, k, rows)
  PROVE  Steps
<1> DEFINE new == [NoRow EXCEPT !.table = table, !.key = k, !.version = Version(rows) + 1]
<1>0. TypeOK /\ rows \in SUBSET Ids
  BY DEF Typed, Of, In
<1>1. /\ Version(rows) \in Nat
      /\ \A q \in rows : row[q].version <= Version(rows)
      /\ rows # {} => Latest(rows) # {}
      /\ rows = {} => Version(rows) = 0
      /\ \A q \in Latest(rows) : q \in rows /\ row[q].version = Version(rows)
  BY <1>0, VersionIsLast
<1>2. /\ new \in Row /\ new.table = table /\ new.key = k /\ new.version = Version(rows) + 1
  <2>1. Version(rows) + 1 \in Nat
    BY <1>1
  <2>2. table \in Tables
    BY DEF Tables
  <2> HIDE DEF Version, Following
  <2> QED BY <2>1, <2>2, RecordTypes DEF Row, NoRow
<1>3. Begin(c, [Idle EXCEPT !.pc = "insert", !.new = new])
  BY DEF Following
<1> HIDE DEF new
<1>4. \A q \in Ids : ~Alike(new, row[q])
  <2> SUFFICES ASSUME NEW q \in Ids, Alike(new, row[q]) PROVE FALSE
    OBVIOUS
  <2>1. q \in rows /\ row[q].version = Version(rows) + 1
    BY <1>2 DEF Alike, Of, In
  <2> QED BY <1>1, <2>1
<1>5. Follows(new)
  <2> SUFFICES ASSUME new.version > 1
               PROVE  \E q \in In(new.table) :
                        /\ row[q].version = new.version - 1
                        /\ new.table = "Budget" => row[q].key = new.key
                        /\ new.table = "RegulatoryText" /\ ~live => row[q].key # new.key
    BY DEF Follows
  <2>1. rows # {}
    BY <1>1, <1>2
  <2>2. PICK q \in Latest(rows) : table = "RegulatoryText" => row[q].key # k
    BY <1>1, <2>1
  <2>3. q \in rows /\ row[q].version = new.version - 1
    BY <1>1, <1>2, <2>2
  <2>4. q \in In(new.table) /\ (new.table = "Budget" => row[q].key = new.key)
    BY <1>2, <2>3 DEF Of, In
  <2> QED BY <1>2, <2>2, <2>3, <2>4
<1>6. new.table \in Numbered
  BY <1>2 DEF Numbered
<1> QED BY <1>2, <1>3, <1>4, <1>5, <1>6, BeginInsert

LEMMA CaseSteps ==
  ASSUME Typed, NEW c \in Calls, NEW r \in Ids, NEW status \in Statuses, NEW date \in Dates \cup {None},
         NEW table \in Tables, table \notin Numbered \cup {"RegulatorySource"},
         table \in Watched \/ date = None, Case(c, r, table, status, date)
  PROVE  Steps
<1> DEFINE v == [NoRow EXCEPT !.table = table, !.status = status, !.date = date]
<1>1. v \in Row /\ v.table = table /\ v.date = date
  BY RecordTypes DEF Row, NoRow
<1>2. /\ Fresh(r) /\ call[c] = Idle /\ row' = [row EXCEPT ![r] = v]
      /\ live' = live /\ desk' = desk
      /\ call' = IF date = None THEN call
                 ELSE [call EXCEPT ![c] = [Idle EXCEPT !.pc = "watch", !.on = r, !.date = date]]
  BY DEF Case, Write
<1> HIDE DEF v
<1>3. CASE date = None
  <2>1. Adds(r, v)
    BY <1>1, <1>2, <1>3, RecordTypes DEF Adds
  <2> QED BY <1>1, <1>2, <2>1 DEF Steps
<1>4. CASE date # None
  <2>1. AddsWatched(c, r, v)
    BY <1>1, <1>2, <1>4 DEF AddsWatched
  <2> QED BY <1>1, <1>2, <2>1 DEF Steps
<1> QED BY <1>3, <1>4

(* A row of a table with no case and no number is added in one step.       *)
LEMMA AddSteps ==
  ASSUME Typed, NEW r \in Ids, NEW v \in Row, Fresh(r), Write(r, v), UNCHANGED call,
         v.table \in {"OperatingSite", "Position", "Agreement", "Obligation", "Deadline"}
  PROVE  Steps
<1>1. Adds(r, v) /\ live' = live /\ desk' = desk
  BY RecordTypes DEF Adds, Write, Numbered, Watched, Tables
<1> QED BY <1>1 DEF Steps

LEMMA SetSteps ==
  ASSUME Typed, NEW r \in Ids, NEW to \in Statuses, NEW table \in Tables \ (Numbered \cup {"Obligation"}),
         Set(r, table, to)
  PROVE  Steps
<1>1. Sets(r, to) /\ live' = live /\ desk' = desk
  BY RecordTypes DEF Set, Write, Sets
<1> QED BY <1>1 DEF Steps

LEMMA NextStep == Typed /\ [Next]_vars => Steps
<1> SUFFICES ASSUME Typed, [Next]_vars PROVE Steps
  OBVIOUS
<1>0. /\ TypeOK /\ \A c \in Calls : call[c] \in Call /\ HeldFor(c)
      /\ \A r \in Ids : row[r] \in Row
  BY DEF Typed, TypeOK, Held
<1>1. ASSUME NEW c \in Calls, CloseEstablishment(c) PROVE Steps
  <2>1. call[c].pc = "close" /\ call' = [call EXCEPT ![c] = Idle]
    BY <1>1 DEF CloseEstablishment, At, Return
  <2>2. CASE Seen(c).status = "CLOSED"
    <3>1. Ends(c) /\ live' = live /\ desk' = desk
      BY <1>1, <2>1, <2>2 DEF CloseEstablishment, Ends
    <3> QED BY <3>1 DEF Steps
  <2>3. CASE Seen(c).status # "CLOSED"
    <3>1. Closes(c) /\ live' = live /\ desk' = desk
      BY <1>1, <2>1, <2>3 DEF CloseEstablishment, Closes, Write, Seen
    <3> QED BY <3>1 DEF Steps
  <2> QED BY <2>2, <2>3
<1>2. ASSUME NEW c \in Calls, AdvanceObligation(c) PROVE Steps
  <2>1. call[c].pc = "advance" /\ call' = [call EXCEPT ![c] = Idle]
    BY <1>2 DEF AdvanceObligation, At, Return
  <2>2. CASE <<Seen(c).status, call[c].to>> \notin Transitions
    <3>1. Ends(c) /\ live' = live /\ desk' = desk
      BY <1>2, <2>1, <2>2 DEF AdvanceObligation, Ends
    <3> QED BY <3>1 DEF Steps
  <2>3. CASE <<Seen(c).status, call[c].to>> \in Transitions
    <3>1. Advances(c) /\ live' = live /\ desk' = desk
      BY <1>2, <2>1, <2>3 DEF AdvanceObligation, Advances, Write, Seen
    <3> QED BY <3>1 DEF Steps
  <2> QED BY <2>2, <2>3
<1>3. ASSUME NEW c \in Calls, Fail(c) PROVE Steps
  <2>1. Ends(c) /\ live' = live /\ desk' = desk
    BY <1>3 DEF Fail, Return, Ends
  <2> QED BY <2>1 DEF Steps
<1>4. ASSUME NEW c \in Calls, NEW k \in Keys, CreateLegalEntity(c, k) PROVE Steps
  <2> DEFINE new == [NoRow EXCEPT !.table = "LegalEntity", !.status = "ACTIVE", !.key = k]
  <2>1. new \in Row /\ new.table = "LegalEntity" /\ new.key = k
    BY RecordTypes DEF Row, NoRow, Tables, Statuses, ObligationStatus
  <2>2. Begin(c, [Idle EXCEPT !.pc = "insert", !.new = new]) /\ Of("LegalEntity", k) = {}
    BY <1>4 DEF CreateLegalEntity
  <2> HIDE DEF new
  <2>3. \A q \in Ids : ~Alike(new, row[q])
    BY <2>1, <2>2 DEF Alike, Of, In
  <2> QED BY <2>1, <2>2, <2>3, BeginInsert DEF Follows, Numbered
<1>5. ASSUME NEW c \in Calls, NEW k \in Keys, CreateEstablishment(c, k) PROVE Steps
  <2> DEFINE new == [NoRow EXCEPT !.table = "Establishment", !.status = "ACTIVE", !.key = k]
  <2>1. new \in Row /\ new.table = "Establishment" /\ new.key = k
    BY RecordTypes DEF Row, NoRow, Tables, Statuses, ObligationStatus
  <2>2. Begin(c, [Idle EXCEPT !.pc = "insert", !.new = new]) /\ Of("Establishment", k) = {}
    BY <1>5 DEF CreateEstablishment
  <2> HIDE DEF new
  <2>3. \A q \in Ids : ~Alike(new, row[q])
    BY <2>1, <2>2 DEF Alike, Of, In
  <2> QED BY <2>1, <2>2, <2>3, BeginInsert DEF Follows, Numbered
<1>6. ASSUME NEW c \in Calls, NEW k \in Keys, IngestText(c, k) PROVE Steps
  <2> DEFINE rows == In("RegulatoryText")
  <2>1. Following(c, "RegulatoryText", k, rows) /\ (rows = {} \/ \E r \in Latest(rows) : row[r].key # k)
    BY <1>6 DEF IngestText
  <2> HIDE DEF Following
  <2> QED BY <2>1, BeginVersion
<1>7. ASSUME NEW c \in Calls, NEW k \in Keys, SetBudget(c, k) PROVE Steps
  <2>1. Following(c, "Budget", k, Of("Budget", k))
    BY <1>7 DEF SetBudget
  <2> HIDE DEF Following
  <2> QED BY <2>1, BeginVersion
<1>8. ASSUME NEW c \in Calls, NEW r \in Ids, Insert(c, r) PROVE Steps
  <2>1. call[c].pc = "insert" /\ Fresh(r)
    BY <1>8 DEF Insert
  <2>2. CASE ~live /\ Collides(call[c].new)
    <3>1. Ends(c) /\ live' = live /\ desk' = desk
      BY <1>8, <2>2 DEF Insert, Return, Ends
    <3> QED BY <3>1 DEF Steps
  <2>3. CASE ~(~live /\ Collides(call[c].new))
    <3>1. Inserts(c, r) /\ live' = live /\ desk' = desk
      BY <1>8, <2>1, <2>3 DEF Insert, Return, Write, Inserts
    <3> QED BY <3>1 DEF Steps
  <2> QED BY <2>2, <2>3
<1>9. ASSUME NEW c \in Calls, NEW r \in Ids, CreateSource(c, r) PROVE Steps
  <2> DEFINE v == [NoRow EXCEPT !.table = "RegulatorySource"]
  <2>1. v \in Row
    BY RecordTypes DEF Row, NoRow, Tables
  <2>2. AddsSecond(c, r, v) /\ live' = live /\ desk' = desk
    BY <1>9, <2>1 DEF CreateSource, At, Write, Return, AddsSecond
  <2> QED BY <2>1, <2>2 DEF Steps
<1>10. ASSUME NEW c \in Calls, NEW r \in Ids, Watch(c, r) PROVE Steps
  <2> DEFINE v == DeadlineOn(call[c].date)
  <2>1. v \in Row
    BY <1>0, RecordTypes DEF Row, NoRow, Tables, DeadlineOn, Call, Statuses
  <2>2. AddsSecond(c, r, v) /\ live' = live /\ desk' = desk
    BY <1>10, <2>1 DEF Watch, At, Write, Return, AddsSecond
  <2> HIDE DEF v
  <2> QED BY <2>1, <2>2 DEF Steps
<1>11. ASSUME NEW c \in Calls, NEW r \in Ids, Create(c, r) PROVE Steps
  <2> USE DEF Numbered, Watched
  <2>0. /\ {"Risk", "WorkAccident", "AuthorityInteraction", "Competency", "Training", "CareerReview",
            "CseMandate", "CseMeeting", "Negotiation", "Shift", "TimeEntry"} \subseteq Tables
        /\ {"OPEN", "NONE", "PLANNED", "ACTIVE"} \subseteq Statuses
        /\ None \in Dates \cup {None}
    BY DEF Tables, Statuses, ObligationStatus, NegotiationStatus
  <2>1. AddRisk(c, r) => Steps
    BY <2>0, CaseSteps DEF AddRisk
  <2>2. PlanReview(c, r) \/ AddMandate(c, r) \/ PlanMeeting(c, r) => Steps
    BY <2>0, CaseSteps DEF PlanReview, AddMandate, PlanMeeting
  <2>3. OpenNegotiation(c, r) \/ PlanShift(c, r) \/ RecordTime(c, r) => Steps
    BY <2>0, CaseSteps DEF OpenNegotiation, PlanShift, RecordTime
  <2>4. ASSUME NEW date \in Dates \cup {None}
        PROVE  /\ DeclareAccident(c, r, date) \/ CreateInteraction(c, r, date) => Steps
               /\ AddCompetency(c, r, date) \/ PlanTraining(c, r, date) => Steps
    BY <2>0, CaseSteps DEF DeclareAccident, CreateInteraction, AddCompetency, PlanTraining
  <2> QED BY <1>11, <2>1, <2>2, <2>3, <2>4 DEF Create
<1>12. ASSUME NEW c \in Calls, NEW r \in Ids, NEW d \in Dates, FetchEstablishment(c, r, d) PROVE Steps
  <2> DEFINE copy == IF live THEN NoRow ELSE row[r]
             held == [Idle EXCEPT !.pc = "close", !.on = r, !.date = d, !.new = copy]
  <2>1. copy \in Row
    BY <1>0, RecordTypes
  <2>2. Begin(c, held) /\ row[r].table = "Establishment"
    BY <1>12 DEF FetchEstablishment
  <2> HIDE DEF copy
  <2>3. held \in Call /\ held.on = r /\ held.pc = "close"
    BY <2>1, RecordTypes DEF Call, Idle, Stages
  <2> HIDE DEF held
  <2> QED BY <2>2, <2>3, BeginFetch
<1>13. ASSUME NEW c \in Calls, NEW r \in Ids, NEW s \in ObligationStatus, FetchObligation(c, r, s) PROVE Steps
  <2> DEFINE copy == IF live THEN NoRow ELSE row[r]
             held == [Idle EXCEPT !.pc = "advance", !.on = r, !.to = s, !.new = copy]
  <2>1. copy \in Row
    BY <1>0, RecordTypes
  <2>2. Begin(c, held) /\ row[r].table = "Obligation"
    BY <1>13 DEF FetchObligation
  <2>3. s \in Statuses
    BY DEF Statuses
  <2> HIDE DEF copy
  <2>4. held \in Call /\ held.on = r /\ held.pc = "advance"
    BY <2>1, <2>3, RecordTypes DEF Call, Idle, Stages
  <2> HIDE DEF held
  <2> QED BY <2>2, <2>4, BeginFetch
<1>14. ASSUME NEW r \in Ids, CreateOperatingSite(r) \/ CreatePosition(r) \/ LinkAgreement(r) PROVE Steps
  <2>1. PICK table \in {"OperatingSite", "Position", "Agreement"} :
          /\ Fresh(r) /\ Write(r, [NoRow EXCEPT !.table = table]) /\ UNCHANGED call
    BY <1>14 DEF CreateOperatingSite, CreatePosition, LinkAgreement, Attach
  <2> DEFINE v == [NoRow EXCEPT !.table = table]
  <2>2. v \in Row /\ v.table = table
    BY RecordTypes DEF Row, NoRow, Tables
  <2> HIDE DEF v
  <2> QED BY <2>1, <2>2, AddSteps DEF v
<1>15. ASSUME NEW r \in Ids, Detect(r) PROVE Steps
  <2> DEFINE v == [NoRow EXCEPT !.table = "Obligation", !.status = "DETECTED"]
  <2>1. v \in Row /\ v.table = "Obligation"
    BY RecordTypes DEF Row, NoRow, Tables, Statuses, ObligationStatus
  <2>2. Fresh(r) /\ Write(r, v) /\ UNCHANGED call
    BY <1>15 DEF Detect
  <2> HIDE DEF v
  <2> QED BY <2>1, <2>2, AddSteps
<1>16. ASSUME NEW r \in Ids, NEW d \in Dates, CreateDeadline(r, d) PROVE Steps
  <2> DEFINE v == DeadlineOn(d)
  <2>1. v \in Row /\ v.table = "Deadline"
    BY RecordTypes DEF Row, NoRow, Tables, Statuses, DeadlineOn
  <2>2. Fresh(r) /\ Write(r, v) /\ UNCHANGED call
    BY <1>16 DEF CreateDeadline
  <2> HIDE DEF v
  <2> QED BY <2>1, <2>2, AddSteps
<1>17. ASSUME NEW r \in Ids, Change(r) PROVE Steps
  <2>0. /\ {"Risk", "AuthorityInteraction", "Training", "CareerReview", "CseMeeting", "Negotiation",
            "Deadline"} \subseteq Tables \ (Numbered \cup {"Obligation"})
        /\ {"RESPONDED", "CLOSED", "DONE", "HELD"} \subseteq Statuses
    BY DEF Tables, Statuses, Numbered
  <2>1. Respond(r) \/ CloseInteraction(r) \/ CompleteTraining(r) => Steps
    BY <2>0, SetSteps DEF Respond, CloseInteraction, CompleteTraining
  <2>2. HoldReview(r) \/ RecordMinutes(r) \/ MarkDone(r) => Steps
    BY <2>0, SetSteps DEF HoldReview, RecordMinutes, MarkDone
  <2>3. ASSUME NEW to \in Statuses, UpdateRisk(r, to) \/ SetNegotiationStatus(r, to) PROVE Steps
    BY <2>0, <2>3, SetSteps DEF UpdateRisk, SetNegotiationStatus
  <2> QED BY <1>17, <2>1, <2>2, <2>3 DEF Change
<1>18. ASSUME UNCHANGED vars PROVE Steps
  BY <1>18 DEF vars, Steps
<1> HIDE DEF Steps
<1> QED BY <1>1, <1>2, <1>3, <1>4, <1>5, <1>6, <1>7, <1>8, <1>9, <1>10, <1>11, <1>12, <1>13, <1>14,
           <1>15, <1>16, <1>17, <1>18 DEF Next

-----------------------------------------------------------------------------
(* Types *)

(* What a step leaves of the rows and of the other handlers.               *)
LEMMA StepTyped == Typed /\ Steps => Typed'
<1> SUFFICES ASSUME Typed, Steps PROVE Typed'
  OBVIOUS
<1>0. /\ live \in BOOLEAN /\ desk \in Desks /\ row \in [Ids -> Row] /\ call \in [Calls -> Call]
      /\ \A c \in Calls : call[c] \in Call /\ HeldFor(c)
      /\ \A r \in Ids : row[r] \in Row
      /\ live' = live /\ desk' = desk
  BY DEF Typed, TypeOK, Held, Steps
<1>a. ASSUME row' \in [Ids -> Row], call' \in [Calls -> Call],
             \A r \in Ids : row[r].table # None => row'[r].table = row[r].table,
             \A c \in Calls : \/ call'[c] = call[c]
                              \/ HeldFor(c)'
      PROVE  Typed'
  <2>1. TypeOK'
    BY <1>0, <1>a DEF TypeOK
  <2>2. ASSUME NEW c \in Calls, call'[c] = call[c] PROVE HeldFor(c)'
    BY <1>0, <1>a, <2>2, RecordTypes DEF HeldFor, Tables
  <2> QED BY <1>a, <2>1, <2>2 DEF Typed, Held
<1>b. ASSUME NEW c \in Calls, call' = [call EXCEPT ![c] = Idle] 
      PROVE  call' \in [Calls -> Call] /\ \A d \in Calls : call'[d] = call[d] \/ HeldFor(d)'
  <2>1. call' \in [Calls -> Call] /\ call'[c] = Idle /\ \A d \in Calls \ {c} : call'[d] = call[d]
    BY <1>0, <1>b, RecordTypes
  <2> QED BY <2>1, RecordTypes DEF HeldFor
<1>c. ASSUME NEW r \in Ids, NEW v \in Row, row' = [row EXCEPT ![r] = v],
             row[r].table = None \/ row[r].table = v.table
      PROVE  row' \in [Ids -> Row] /\ \A q \in Ids : row[q].table # None => row'[q].table = row[q].table
  BY <1>0, <1>c
<1>d. \A r \in Ids : Fresh(r) => row[r].table = None
  BY RecordTypes DEF Fresh
<1>1. CASE row' = row /\ call' = call
  BY <1>0, <1>1, <1>a
<1>2. ASSUME NEW c \in Calls, NEW held \in Call, Begins(c, held) PROVE Typed'
  <2>1. call' \in [Calls -> Call] /\ call'[c] = held /\ \A d \in Calls \ {c} : call'[d] = call[d]
    BY <1>0, <1>2 DEF Begins
  <2>2. HeldFor(c)'
    BY <1>2, <2>1 DEF Begins, HeldFor
  <2> QED BY <1>0, <1>2, <2>1, <2>2, <1>a DEF Begins
<1>3. ASSUME NEW c \in Calls, Ends(c) PROVE Typed'
  BY <1>0, <1>3, <1>a, <1>b DEF Ends
<1>4. ASSUME NEW c \in Calls, Closes(c) PROVE Typed'
  <2> DEFINE r == call[c].on
             v == [row[r] EXCEPT !.status = "CLOSED", !.date = call[c].date]
  <2>1. r \in Ids /\ call[c].date \in Dates \cup {None}
    BY <1>0, <1>4 DEF Closes, HeldFor, Call
  <2>2. v \in Row /\ v.table = row[r].table
    <3>1. row[r] \in Row /\ "CLOSED" \in Statuses
      BY <1>0, <2>1 DEF Statuses
    <3> QED BY <2>1, <3>1 DEF Row
  <2>3. row' = [row EXCEPT ![r] = v] /\ call' = [call EXCEPT ![c] = Idle]
    BY <1>4 DEF Closes
  <2> HIDE DEF r, v
  <2> QED BY <2>1, <2>2, <2>3, <1>a, <1>b, <1>c
<1>5. ASSUME NEW c \in Calls, Advances(c) PROVE Typed'
  <2> DEFINE r == call[c].on
             v == [row[r] EXCEPT !.status = call[c].to]
  <2>1. r \in Ids /\ call[c].to \in Statuses
    BY <1>0, <1>5 DEF Advances, HeldFor, Call
  <2>2. v \in Row /\ v.table = row[r].table
    BY <1>0, <2>1 DEF Row
  <2>3. row' = [row EXCEPT ![r] = v] /\ call' = [call EXCEPT ![c] = Idle]
    BY <1>5 DEF Advances
  <2> HIDE DEF r, v
  <2> QED BY <2>1, <2>2, <2>3, <1>a, <1>b, <1>c
<1>6. ASSUME NEW c \in Calls, NEW r \in Ids, Inserts(c, r) PROVE Typed'
  <2> DEFINE held == IF call[c].new.table = "RegulatoryText"
                       THEN [Idle EXCEPT !.pc = "source"] ELSE Idle
  <2>1. held \in Call /\ held.pc \in {"idle", "source"}
    BY RecordTypes DEF Call, Idle, Stages
  <2>2. call[c].new \in Row
    BY <1>0 DEF Call
  <2>3. row' = [row EXCEPT ![r] = call[c].new] /\ call' = [call EXCEPT ![c] = held]
    BY <1>6 DEF Inserts
  <2> HIDE DEF held
  <2>4. call' \in [Calls -> Call] /\ call'[c] = held /\ \A d \in Calls \ {c} : call'[d] = call[d]
    BY <1>0, <2>1, <2>3
  <2>5. HeldFor(c)'
    BY <2>1, <2>4 DEF HeldFor
  <2> QED BY <1>6, <1>a, <1>c, <1>d, <2>2, <2>3, <2>4, <2>5 DEF Inserts
<1>7. ASSUME NEW r \in Ids, NEW v \in Row, Adds(r, v) PROVE Typed'
  BY <1>0, <1>7, <1>a, <1>c, <1>d DEF Adds
<1>8. ASSUME NEW c \in Calls, NEW r \in Ids, NEW v \in Row, AddsWatched(c, r, v) PROVE Typed'
  <2> DEFINE held == [Idle EXCEPT !.pc = "watch", !.on = r, !.date = v.date]
  <2>1. held \in Call /\ held.pc = "watch" /\ held.date \in Dates
    BY <1>8, RecordTypes DEF Call, Idle, Stages, AddsWatched
  <2>2. row' = [row EXCEPT ![r] = v] /\ call' = [call EXCEPT ![c] = held]
    BY <1>8 DEF AddsWatched
  <2> HIDE DEF held
  <2>3. call' \in [Calls -> Call] /\ call'[c] = held /\ \A d \in Calls \ {c} : call'[d] = call[d]
    BY <1>0, <2>1, <2>2
  <2>4. HeldFor(c)'
    BY <2>1, <2>3 DEF HeldFor
  <2> QED BY <1>8, <1>a, <1>c, <1>d, <2>2, <2>3, <2>4 DEF AddsWatched
<1>9. ASSUME NEW c \in Calls, NEW r \in Ids, NEW v \in Row, AddsSecond(c, r, v) PROVE Typed'
  BY <1>9, <1>a, <1>b, <1>c, <1>d DEF AddsSecond
<1>10. ASSUME NEW r \in Ids, NEW to \in Statuses, Sets(r, to) PROVE Typed'
  <2> DEFINE v == [row[r] EXCEPT !.status = to]
  <2>1. v \in Row /\ v.table = row[r].table
    BY <1>0 DEF Row
  <2>2. row' = [row EXCEPT ![r] = v] /\ call' = call
    BY <1>10 DEF Sets
  <2> HIDE DEF v
  <2> QED BY <1>0, <2>1, <2>2, <1>a, <1>c
<1> QED BY <1>1, <1>2, <1>3, <1>4, <1>5, <1>6, <1>7, <1>8, <1>9, <1>10 DEF Steps

LEMMA InitTyped == Init => Typed
BY RecordTypes, RegistersAssumption DEF Init, Typed, TypeOK, Held, HeldFor

(* The variables keep their types and every handler holds what its stage   *)
(* needs, whatever handlers of the registers overlap and fail.             *)
THEOREM TypeCorrect == Spec => []Typed
BY InitTyped, NextStep, StepTyped, PTL DEF Spec

-----------------------------------------------------------------------------
(* History *)

(* In memory an establishment keeps the date it was closed at and an       *)
(* obligation follows the table of transitions, for a handler tests the    *)
(* row it changes in the step that changes it (closeEstablishment,         *)
(* advanceObligation).                                                     *)
THEOREM HistoryKept == Spec => HistoryStands
<1> DEFINE Stands == live => \A r \in Ids :
             /\ row[r].table = "Establishment" /\ row[r].status = "CLOSED" => row'[r] = row[r]
             /\ row[r].table = "Obligation" /\ row'[r] # row[r] =>
                  <<row[r].status, row'[r].status>> \in Transitions
<1>1. Typed /\ Steps => Stands
  <2> SUFFICES ASSUME Typed, Steps, live, NEW q \in Ids,
                      row[q].table \in {"Establishment", "Obligation"}, row'[q] # row[q]
               PROVE  /\ ~(row[q].table = "Establishment" /\ row[q].status = "CLOSED")
                      /\ row[q].table = "Obligation" => <<row[q].status, row'[q].status>> \in Transitions
    OBVIOUS
  <2>0. row \in [Ids -> Row] /\ row[q] \in Row /\ \A c \in Calls : HeldFor(c)
    BY DEF Typed, TypeOK, Held
  <2>1. row[q].table # None /\ ~Fresh(q)
    BY RecordTypes DEF Fresh, Tables
  <2>2. CASE \E c \in Calls : Closes(c)
    <3>1. PICK c \in Calls : Closes(c)
      BY <2>2
    <3>2. /\ call[c].on = q /\ row[q].status # "CLOSED"
      BY <2>0, <3>1 DEF Closes, HeldFor
    <3>3. row[q].table = "Establishment"
      BY <2>0, <3>1, <3>2 DEF Closes, HeldFor
    <3> QED BY <3>2, <3>3
  <2>3. CASE \E c \in Calls : Advances(c)
    <3>1. PICK c \in Calls : Advances(c)
      BY <2>3
    <3>2. call[c].on = q /\ <<row[q].status, call[c].to>> \in Transitions
      BY <2>0, <3>1 DEF Advances, HeldFor
    <3>3. row[q].table = "Obligation"
      BY <2>0, <3>1, <3>2 DEF Advances, HeldFor
    <3>4. row'[q] = [row[q] EXCEPT !.status = call[c].to]
      BY <2>0, <3>1, <3>2 DEF Advances
    <3>5. row'[q].status = call[c].to
      BY <2>0, <3>4 DEF Row
    <3> QED BY <3>2, <3>3, <3>5
  <2>4. CASE \E r \in Ids, to \in Statuses : Sets(r, to)
    BY <2>0, <2>4 DEF Sets, Numbered
  <2>5. CASE \/ \E c \in Calls, r \in Ids : Inserts(c, r)
             \/ \E r \in Ids, v \in Row : Adds(r, v)
             \/ \E c \in Calls, r \in Ids, v \in Row : AddsWatched(c, r, v) \/ AddsSecond(c, r, v)
    <3>1. \E r \in Ids : \E v : Fresh(r) /\ row' = [row EXCEPT ![r] = v]
      BY <2>5 DEF Inserts, Adds, AddsWatched, AddsSecond
    <3> QED BY <2>0, <2>1, <3>1
  <2>6. CASE \/ row' = row
             \/ \E c \in Calls : Ends(c)
             \/ \E c \in Calls, held \in Call : Begins(c, held)
    BY <2>6 DEF Ends, Begins
  <2> QED BY <2>2, <2>3, <2>4, <2>5, <2>6 DEF Steps
<1>2. Typed /\ [Next]_vars => Stands
  BY <1>1, NextStep
<1>3. Typed /\ [Next]_vars => [Stands]_vars
  BY <1>2
<1> QED BY <1>3, TypeCorrect, PTL DEF Spec, HistoryStands

-----------------------------------------------------------------------------
(* Versions *)

(* What a step may do to the rows: a row there is keeps what numbers it,   *)
(* and a text or a budget that appears was held by the handler that        *)
(* inserts it.                                                             *)
RowsStand ==
  /\ live' = live
  /\ \A r \in Ids : row[r].table # None =>
       /\ row'[r].table = row[r].table
       /\ row'[r].table \in {"RegulatoryText", "Budget"} => row'[r] = row[r]
  /\ \A r \in Ids : row'[r].table \in {"RegulatoryText", "Budget"} /\ row'[r] # row[r] =>
       \E c \in Calls : call[c].pc = "insert" /\ row'[r] = call[c].new

LEMMA StepRows == Typed /\ Steps => RowsStand
<1> SUFFICES ASSUME Typed, Steps PROVE RowsStand
  OBVIOUS
<1>0. /\ row \in [Ids -> Row] /\ live' = live
      /\ \A c \in Calls : call[c] \in Call /\ HeldFor(c)
      /\ \A r \in Ids : row[r] \in Row
      /\ \A r \in Ids : Fresh(r) => row[r].table = None
  BY RecordTypes DEF Typed, TypeOK, Held, Steps, Fresh
<1>a. ASSUME NEW r \in Ids, NEW v, row' = [row EXCEPT ![r] = v],
             \/ row[r].table = None /\ v.table \notin {"RegulatoryText", "Budget"}
             \/ row[r].table = v.table /\ v.table \notin {"RegulatoryText", "Budget"}
             \/ row[r].table = None /\ \E c \in Calls : call[c].pc = "insert" /\ v = call[c].new
      PROVE  RowsStand
  BY <1>0, <1>a DEF RowsStand
<1>1. CASE \/ row' = row
           \/ \E c \in Calls : Ends(c)
           \/ \E c \in Calls, held \in Call : Begins(c, held)
  BY <1>0, <1>1 DEF Ends, Begins, RowsStand
<1>2. ASSUME NEW c \in Calls, Closes(c) PROVE RowsStand
  <2> DEFINE r == call[c].on
             v == [row[r] EXCEPT !.status = "CLOSED", !.date = call[c].date]
  <2>1. r \in Ids /\ row[r].table = "Establishment"
    BY <1>0, <1>2 DEF Closes, HeldFor
  <2>2. v.table = row[r].table
    BY <1>0, <2>1 DEF Row
  <2>3. row' = [row EXCEPT ![r] = v]
    BY <1>2 DEF Closes
  <2> HIDE DEF r, v
  <2> QED BY <2>1, <2>2, <2>3, <1>a
<1>3. ASSUME NEW c \in Calls, Advances(c) PROVE RowsStand
  <2> DEFINE r == call[c].on
             v == [row[r] EXCEPT !.status = call[c].to]
  <2>1. r \in Ids /\ row[r].table = "Obligation"
    BY <1>0, <1>3 DEF Advances, HeldFor
  <2>2. v.table = row[r].table
    BY <1>0, <2>1 DEF Row
  <2>3. row' = [row EXCEPT ![r] = v]
    BY <1>3 DEF Advances
  <2> HIDE DEF r, v
  <2> QED BY <2>1, <2>2, <2>3, <1>a
<1>4. ASSUME NEW r \in Ids, NEW to \in Statuses, Sets(r, to) PROVE RowsStand
  <2> DEFINE v == [row[r] EXCEPT !.status = to]
  <2>1. v.table = row[r].table
    BY <1>0 DEF Row
  <2>2. row' = [row EXCEPT ![r] = v] /\ row[r].table \notin Numbered
    BY <1>4 DEF Sets
  <2> HIDE DEF v
  <2> QED BY <2>1, <2>2, <1>a DEF Numbered
<1>5. ASSUME NEW c \in Calls, NEW r \in Ids, Inserts(c, r) PROVE RowsStand
  BY <1>0, <1>5, <1>a DEF Inserts
<1>6. ASSUME NEW r \in Ids, NEW v \in Row,
             Adds(r, v) \/ \E c \in Calls : AddsWatched(c, r, v) \/ AddsSecond(c, r, v)
      PROVE  RowsStand
  <2>1. Fresh(r) /\ row' = [row EXCEPT ![r] = v] /\ v.table \notin {"RegulatoryText", "Budget"}
    BY <1>6, RecordTypes DEF Adds, AddsWatched, AddsSecond, Numbered, Watched, DeadlineOn, NoRow
  <2> QED BY <1>0, <2>1, <1>a
<1> QED BY <1>1, <1>2, <1>3, <1>4, <1>5, <1>6 DEF Steps

(* The rows there are follow a version, and so do the rows to be inserted. *)
AllFollow ==
  /\ \A r \in Ids : Follows(row[r])
  /\ \A c \in Calls : call[c].pc = "insert" => Follows(call[c].new)

LEMMA StepCalls ==
  ASSUME Typed, Steps, NEW c \in Calls, call'[c].pc = "insert", call'[c] # call[c]
  PROVE  Begins(c, call'[c])
<1>0. call \in [Calls -> Call]
  BY DEF Typed, TypeOK
<1>a. ASSUME NEW d \in Calls, NEW held, held.pc # "insert" PROVE call' # [call EXCEPT ![d] = held]
  BY <1>0, <1>a
<1>1. CASE \E d \in Calls, held \in Call : Begins(d, held)
  BY <1>0, <1>1 DEF Begins
<1>2. CASE \E d \in Calls : Ends(d) \/ Closes(d) \/ Advances(d)
  BY <1>2, <1>a, RecordTypes DEF Ends, Closes, Advances
<1>3. CASE \E d \in Calls, r \in Ids : Inserts(d, r)
  <2>1. PICK d \in Calls, r \in Ids : Inserts(d, r)
    BY <1>3
  <2> DEFINE held == IF call[d].new.table = "RegulatoryText"
                       THEN [Idle EXCEPT !.pc = "source"] ELSE Idle
  <2>2. held.pc # "insert" /\ call' = [call EXCEPT ![d] = held]
    BY <2>1 DEF Idle, Inserts
  <2> HIDE DEF held
  <2> QED BY <2>2, <1>a
<1>4. CASE \E d \in Calls, r \in Ids, v \in Row : AddsWatched(d, r, v) \/ AddsSecond(d, r, v)
  <2>1. PICK d \in Calls, r \in Ids, v \in Row : AddsWatched(d, r, v) \/ AddsSecond(d, r, v)
    BY <1>4
  <2>2. CASE AddsSecond(d, r, v)
    BY <2>2, <1>a, RecordTypes DEF AddsSecond
  <2>3. CASE AddsWatched(d, r, v)
    <3> DEFINE held == [Idle EXCEPT !.pc = "watch", !.on = r, !.date = v.date]
    <3>1. held.pc # "insert" /\ call' = [call EXCEPT ![d] = held]
      BY <2>3 DEF Idle, AddsWatched
    <3> HIDE DEF held
    <3> QED BY <3>1, <1>a
  <2> QED BY <2>1, <2>2, <2>3
<1>5. CASE \/ row' = row /\ call' = call
           \/ \E r \in Ids, v \in Row : Adds(r, v)
           \/ \E r \in Ids, to \in Statuses : Sets(r, to)
  BY <1>5 DEF Adds, Sets
<1> QED BY <1>1, <1>2, <1>3, <1>4, <1>5 DEF Steps

(* Versions follow each other without a gap, over the database with        *)
(* different texts: the row a handler saw as the latest stays, whatever    *)
(* overlaps or fails (ingestText, setBudget).                              *)
THEOREM VersionsHaveNoGap == Spec => []VersionsFollow
<1>1. Init => AllFollow
  BY RecordTypes DEF Init, AllFollow, Follows, Tables
<1>2. Typed /\ AllFollow /\ Steps => AllFollow'
  <2> SUFFICES ASSUME Typed, AllFollow, Steps PROVE AllFollow'
    OBVIOUS
  <2> DEFINE Next2(v) ==
        v.table \in {"RegulatoryText", "Budget"} /\ v.version > 1 =>
          \E q \in Ids :
            /\ row'[q].table = v.table /\ row'[q].version = v.version - 1
            /\ v.table = "Budget" => row'[q].key = v.key
            /\ v.table = "RegulatoryText" /\ ~live => row'[q].key # v.key
  <2>1. RowsStand
    BY StepRows
  <2>2. ASSUME NEW v, Follows(v) PROVE Next2(v)
    <3>1. \A q \in Ids : row[q].table \in {"RegulatoryText", "Budget"} => row'[q] = row[q]
      BY <2>1, RecordTypes DEF RowsStand, Tables
    <3> QED BY <2>2, <3>1 DEF Follows, In
  <2>3. \A r \in Ids : Next2(row'[r])
    <3> SUFFICES ASSUME NEW r \in Ids, row'[r].table \in {"RegulatoryText", "Budget"}
                 PROVE  Next2(row'[r])
      OBVIOUS
    <3>1. Follows(row[r]) => Next2(row[r])
      BY <2>2
    <3>2. \A c \in Calls : call[c].pc = "insert" => Next2(call[c].new)
      BY <2>2 DEF AllFollow
    <3>3. row'[r] = row[r] \/ \E c \in Calls : call[c].pc = "insert" /\ row'[r] = call[c].new
      BY <2>1 DEF RowsStand
    <3> HIDE DEF Next2
    <3> QED BY <3>1, <3>2, <3>3 DEF AllFollow
  <2>4. \A c \in Calls : call'[c].pc = "insert" => Next2(call'[c].new)
    <3> SUFFICES ASSUME NEW c \in Calls, call'[c].pc = "insert" PROVE Next2(call'[c].new)
      OBVIOUS
    <3>1. CASE call'[c] = call[c]
      <4>1. Follows(call[c].new)
        BY <3>1 DEF AllFollow
      <4>2. Next2(call[c].new)
        BY <4>1, <2>2
      <4> QED BY <3>1, <4>2
    <3>2. CASE call'[c] # call[c]
      <4>1. Follows(call'[c].new)
        BY <3>2, StepCalls DEF Begins
      <4> QED BY <4>1, <2>2
    <3> QED BY <3>1, <3>2
  <2>5. live' = live
    BY <2>1 DEF RowsStand
  <2> QED BY <2>3, <2>4, <2>5 DEF AllFollow, Follows, In
<1>3. AllFollow => VersionsFollow
  BY DEF AllFollow, Follows, VersionsFollow, In
<1> QED BY <1>1, <1>2, <1>3, TypeCorrect, NextStep, PTL DEF Spec

-----------------------------------------------------------------------------
(* Numbers *)

(* The rows like this one, and the handlers that are about to insert one.  *)
Kin(v) == {q \in Ids : Alike(v, row[q])}
Pending(v) == {c \in Calls : call[c].pc = "insert" /\ Alike(v, call[c].new)}

(* Each handler in flight accounts for one row that is there or to come.   *)
RoomLeft ==
  \A v \in Row : v.table \in Numbered =>
    Cardinality(Kin(v)) + Cardinality(Pending(v)) <= Cardinality(Calls)

(* The unique indexes.                                                     *)
Indexed ==
  ~live => \A r, q \in Ids :
    row[r].table \in Numbered \ {"Budget"} /\ Alike(row[r], row[q]) => r = q

LEMMA Counted ==
  ASSUME NEW v
  PROVE  /\ IsFiniteSet(Kin(v)) /\ Cardinality(Kin(v)) \in Nat
         /\ IsFiniteSet(Pending(v)) /\ Cardinality(Pending(v)) \in Nat
         /\ Cardinality(Pending(v)) <= Cardinality(Calls) /\ Cardinality(Calls) \in Nat
<1>1. IsFiniteSet(Ids) /\ IsFiniteSet(Calls)
  BY RegistersAssumption
<1>2. Kin(v) \in SUBSET Ids /\ Pending(v) \in SUBSET Calls
  BY DEF Kin, Pending
<1> QED BY <1>1, <1>2, FS_Subset, FS_CardinalityType

LEMMA CountedNext ==
  ASSUME NEW v
  PROVE  /\ IsFiniteSet(Kin(v)') /\ Cardinality(Kin(v)') \in Nat
         /\ IsFiniteSet(Pending(v)') /\ Cardinality(Pending(v)') \in Nat
         /\ Cardinality(Pending(v)') <= Cardinality(Calls)
<1>1. IsFiniteSet(Ids) /\ IsFiniteSet(Calls)
  BY RegistersAssumption
<1>2. Kin(v)' \in SUBSET Ids /\ Pending(v)' \in SUBSET Calls
  BY DEF Kin, Pending
<1> QED BY <1>1, <1>2, FS_Subset, FS_CardinalityType

(* No room is taken where no row is added and no handler wants one more.   *)
LEMMA FewerPending ==
  ASSUME RoomLeft, NEW v \in Row, v.table \in Numbered,
         Kin(v)' = Kin(v), Pending(v)' \subseteq Pending(v)
  PROVE  Cardinality(Kin(v)') + Cardinality(Pending(v)') <= Cardinality(Calls)
<1>1. Pending(v)' \in SUBSET Pending(v) /\ IsFiniteSet(Pending(v))
  BY Counted
<1> HIDE DEF Pending
<1>2. Cardinality(Pending(v)') <= Cardinality(Pending(v))
  BY <1>1, FS_Subset
<1>3. Cardinality(Kin(v)) + Cardinality(Pending(v)) <= Cardinality(Calls)
  BY DEF RoomLeft
<1> QED BY <1>2, <1>3, Counted, CountedNext

(* A step that is not an insertion of a numbered row leaves those there    *)
(* are, and their numbers.                                                 *)
LEMMA NumbersStay ==
  ASSUME Typed, Steps, \A c \in Calls, r \in Ids : ~Inserts(c, r)
  PROVE  /\ \A r \in Ids : row'[r].table \in Numbered <=> row[r].table \in Numbered
         /\ \A r \in Ids : row[r].table \in Numbered =>
              /\ row'[r].table = row[r].table /\ row'[r].key = row[r].key
              /\ row'[r].version = row[r].version
<1> DEFINE Stay ==
      /\ \A r \in Ids : row'[r].table \in Numbered <=> row[r].table \in Numbered
      /\ \A r \in Ids : row[r].table \in Numbered =>
           /\ row'[r].table = row[r].table /\ row'[r].key = row[r].key
           /\ row'[r].version = row[r].version
<1>0. /\ row \in [Ids -> Row]
      /\ \A c \in Calls : call[c] \in Call /\ HeldFor(c)
      /\ \A r \in Ids : row[r] \in Row
      /\ \A r \in Ids : Fresh(r) => row[r].table = None
      /\ None \notin Numbered
  BY RecordTypes DEF Typed, TypeOK, Held, Fresh, Numbered, Tables
<1>a. ASSUME NEW r \in Ids, NEW v, row' = [row EXCEPT ![r] = v],
             \/ row[r].table = None /\ v.table \notin Numbered
             \/ row[r].table = v.table /\ row[r].key = v.key /\ row[r].version = v.version
      PROVE  Stay
  BY <1>0, <1>a
<1>1. CASE \/ row' = row
           \/ \E c \in Calls : Ends(c)
           \/ \E c \in Calls, held \in Call : Begins(c, held)
  BY <1>0, <1>1 DEF Ends, Begins
<1>2. ASSUME NEW c \in Calls, Closes(c) PROVE Stay
  <2> DEFINE r == call[c].on
             v == [row[r] EXCEPT !.status = "CLOSED", !.date = call[c].date]
  <2>1. r \in Ids /\ row[r] \in Row
    BY <1>0, <1>2 DEF Closes, HeldFor
  <2>2. v.table = row[r].table /\ v.key = row[r].key /\ v.version = row[r].version
    BY <2>1 DEF Row
  <2>3. row' = [row EXCEPT ![r] = v]
    BY <1>2 DEF Closes
  <2> HIDE DEF r, v
  <2> QED BY <2>1, <2>2, <2>3, <1>a
<1>3. ASSUME NEW c \in Calls, Advances(c) PROVE Stay
  <2> DEFINE r == call[c].on
             v == [row[r] EXCEPT !.status = call[c].to]
  <2>1. r \in Ids /\ row[r] \in Row
    BY <1>0, <1>3 DEF Advances, HeldFor
  <2>2. v.table = row[r].table /\ v.key = row[r].key /\ v.version = row[r].version
    BY <2>1 DEF Row
  <2>3. row' = [row EXCEPT ![r] = v]
    BY <1>3 DEF Advances
  <2> HIDE DEF r, v
  <2> QED BY <2>1, <2>2, <2>3, <1>a
<1>4. ASSUME NEW r \in Ids, NEW to \in Statuses, Sets(r, to) PROVE Stay
  <2> DEFINE v == [row[r] EXCEPT !.status = to]
  <2>1. row[r] \in Row
    BY <1>0
  <2>2. v.table = row[r].table /\ v.key = row[r].key /\ v.version = row[r].version
    BY <2>1 DEF Row
  <2>3. row' = [row EXCEPT ![r] = v]
    BY <1>4 DEF Sets
  <2> HIDE DEF v
  <2> QED BY <2>2, <2>3, <1>a
<1>5. ASSUME NEW r \in Ids, NEW v \in Row,
             Adds(r, v) \/ \E c \in Calls : AddsWatched(c, r, v) \/ AddsSecond(c, r, v)
      PROVE  Stay
  <2>1. Fresh(r) /\ row' = [row EXCEPT ![r] = v] /\ v.table \notin Numbered
    BY <1>5, RecordTypes DEF Adds, AddsWatched, AddsSecond, Numbered, Watched, DeadlineOn, NoRow
  <2> QED BY <1>0, <2>1, <1>a
<1> QED BY <1>1, <1>2, <1>3, <1>4, <1>5 DEF Steps

LEMMA StepRoom ==
  ASSUME Typed, RoomLeft, Steps, NEW v \in Row, v.table \in Numbered
  PROVE  Cardinality(Kin(v)') + Cardinality(Pending(v)') <= Cardinality(Calls)
<1>0. /\ row \in [Ids -> Row] /\ call \in [Calls -> Call]
      /\ \A c \in Calls : call[c] \in Call /\ HeldFor(c)
      /\ \A r \in Ids : Fresh(r) => row[r].table = None
      /\ None \notin Numbered
  BY RecordTypes DEF Typed, TypeOK, Held, Fresh, Numbered, Tables
<1>1. CASE \A c \in Calls, r \in Ids : ~Inserts(c, r)
  <2>1. Kin(v)' = Kin(v)
    BY <1>1, NumbersStay DEF Kin, Alike
  <2>2. CASE Pending(v)' \subseteq Pending(v)
    BY <2>1, <2>2, FewerPending
  <2>3. CASE ~(Pending(v)' \subseteq Pending(v))
    <3>1. PICK c \in Calls : /\ call'[c].pc = "insert" /\ Alike(v, call'[c].new)
                             /\ call'[c] # call[c]
      BY <2>3 DEF Pending, Alike
    <3>2. Begins(c, call'[c])
      BY <3>1, StepCalls
    <3>3. \A q \in Ids : ~Alike(call'[c].new, row[q])
      BY <3>1, <3>2 DEF Begins
    <3>4. Kin(v) = {}
      BY <3>1, <3>3 DEF Kin, Alike
    <3>5. Cardinality(Kin(v)') = 0
      BY <2>1, <3>4, FS_EmptySet
    <3> QED BY <3>5, CountedNext, Counted
  <2> QED BY <2>2, <2>3
<1>2. ASSUME NEW c \in Calls, NEW r \in Ids, Inserts(c, r)
      PROVE  Cardinality(Kin(v)') + Cardinality(Pending(v)') <= Cardinality(Calls)
  <2> DEFINE new == call[c].new
             held == IF new.table = "RegulatoryText" THEN [Idle EXCEPT !.pc = "source"] ELSE Idle
  <2>1. held.pc # "insert" /\ call' = [call EXCEPT ![c] = held] /\ row' = [row EXCEPT ![r] = new]
    BY <1>2 DEF Inserts, Idle
  <2>2. call[c].pc = "insert" /\ row[r].table = None
    BY <1>0, <1>2 DEF Inserts
  <2> HIDE DEF held, new
  <2>3. Pending(v)' = Pending(v) \ {c}
    BY <1>0, <2>1 DEF Pending, Alike
  <2>4. CASE ~Alike(v, new)
    <3>1. Kin(v)' = Kin(v)
      BY <1>0, <2>1, <2>2, <2>4 DEF Kin, Alike
    <3> QED BY <2>3, <3>1, FewerPending
  <2>5. CASE Alike(v, new)
    <3>1. Kin(v)' = Kin(v) \cup {r} /\ r \notin Kin(v)
      BY <1>0, <2>1, <2>2, <2>5 DEF Kin, Alike
    <3>2. c \in Pending(v)
      BY <2>2, <2>5 DEF Pending, new
    <3> DEFINE K == Kin(v)
               P == Pending(v)
    <3>3. IsFiniteSet(K) /\ IsFiniteSet(P) /\ Cardinality(K) \in Nat /\ Cardinality(P) \in Nat
      BY Counted
    <3>4. Cardinality(K) + Cardinality(P) <= Cardinality(Calls) /\ Cardinality(Calls) \in Nat
      BY Counted DEF RoomLeft
    <3>5. Kin(v)' = K \cup {r} /\ r \notin K /\ Pending(v)' = P \ {c} /\ c \in P
      BY <2>3, <3>1, <3>2
    <3> HIDE DEF K, P
    <3>6. Cardinality(K \cup {r}) = Cardinality(K) + 1
      BY <3>3, <3>5, FS_AddElement
    <3>7. Cardinality(P \ {c}) = Cardinality(P) - 1
      BY <3>3, <3>5, FS_RemoveElement
    <3> QED BY <3>3, <3>4, <3>5, <3>6, <3>7
  <2> QED BY <2>4, <2>5
<1> QED BY <1>1, <1>2

LEMMA StepIndexed == Typed /\ Indexed /\ Steps => Indexed'
<1> SUFFICES ASSUME Typed, Indexed, Steps, ~live PROVE Indexed'
  BY DEF Indexed, Steps
<1>0. /\ row \in [Ids -> Row]
      /\ \A c \in Calls : call[c] \in Call /\ HeldFor(c)
      /\ \A r \in Ids : Fresh(r) => row[r].table = None
      /\ None \notin Numbered
  BY RecordTypes DEF Typed, TypeOK, Held, Fresh, Numbered, Tables
<1>1. CASE \A c \in Calls, r \in Ids : ~Inserts(c, r)
  <2>1. \A r, q \in Ids : row'[r].table \in Numbered /\ Alike(row'[r], row'[q]) =>
          Alike(row[r], row[q]) /\ row[r].table = row'[r].table
    BY <1>1, NumbersStay DEF Alike
  <2> QED BY <2>1 DEF Indexed
<1>2. ASSUME NEW c \in Calls, NEW r \in Ids, Inserts(c, r) PROVE Indexed'
  <2> DEFINE new == call[c].new
  <2>1. row' = [row EXCEPT ![r] = new] /\ ~Collides(new) /\ row[r].table = None
    BY <1>0, <1>2 DEF Inserts
  <2> HIDE DEF new
  <2>2. \A q \in Ids : new.table \in Numbered \ {"Budget"} => ~Alike(new, row[q])
    BY <2>1 DEF Collides, Alike, Of, In, Numbered
  <2>3. \A p, q \in Ids : Alike(row'[p], row'[q]) => Alike(row'[q], row'[p]) /\ row'[p].table = row'[q].table
    BY DEF Alike
  <2>4. \A q \in Ids : q # r => row'[q] = row[q]
    BY <1>0, <2>1
  <2>5. row'[r] = new
    BY <1>0, <2>1
  <2>6. ASSUME NEW p \in Ids, NEW q \in Ids, row'[p].table \in Numbered \ {"Budget"},
               Alike(row'[p], row'[q])
        PROVE  p = q
    <3>1. CASE p # r /\ q # r
      BY <2>4, <2>6, <3>1 DEF Indexed
    <3>2. CASE p = r /\ q # r
      BY <2>2, <2>4, <2>5, <2>6, <3>2
    <3>3. CASE p # r /\ q = r
      BY <2>2, <2>3, <2>4, <2>5, <2>6, <3>3
    <3> QED BY <3>1, <3>2, <3>3
  <2> QED BY <2>6 DEF Indexed
<1> QED BY <1>1, <1>2

(* A SIREN, a SIRET or a version of a text is there once over the          *)
(* database, and at most as often as handlers overlap in memory, like the  *)
(* version of a budget over either (createLegalEntity,                     *)
(* createEstablishment, ingestText, setBudget: they look, then insert).    *)
THEOREM NumbersAreBounded == Spec => []NumberedOnce
<1>1. Init => RoomLeft /\ Indexed
  <2> SUFFICES ASSUME Init PROVE RoomLeft /\ Indexed
    OBVIOUS
  <2>0. /\ None \notin Numbered /\ Idle.pc # "insert" /\ NoRow.table = None
        /\ \A r \in Ids : row[r] = NoRow
        /\ \A c \in Calls : call[c] = Idle
    BY RecordTypes DEF Init, Numbered, Tables
  <2>1. ASSUME NEW v \in Row, v.table \in Numbered
        PROVE  Cardinality(Kin(v)) + Cardinality(Pending(v)) <= Cardinality(Calls)
    <3>1. Kin(v) = {} /\ Pending(v) = {}
      BY <2>0, <2>1 DEF Kin, Pending, Alike
    <3>2. Cardinality(Calls) \in Nat
      BY Counted
    <3>3. Cardinality(Kin(v)) = 0 /\ Cardinality(Pending(v)) = 0
      BY <3>1, FS_EmptySet
    <3> QED BY <3>2, <3>3
  <2>2. Indexed
    BY <2>0 DEF Indexed
  <2> QED BY <2>1, <2>2 DEF RoomLeft
<1>2. Typed /\ RoomLeft /\ Steps => RoomLeft'
  BY StepRoom DEF RoomLeft
<1>3. Typed /\ RoomLeft /\ Indexed => NumberedOnce
  <2> SUFFICES ASSUME Typed, RoomLeft, Indexed, NEW r \in Ids, row[r].table \in Numbered
               PROVE  Cardinality({q \in Ids : Same(r, q)})
                        <= IF row[r].table = "Budget" THEN Cardinality(Calls) ELSE Twice
    BY DEF NumberedOnce, In, Numbered
  <2>1. {q \in Ids : Same(r, q)} = Kin(row[r])
    BY DEF Same, Kin, Alike
  <2>2. row[r] \in Row
    BY DEF Typed, TypeOK
  <2>3. Cardinality(Kin(row[r])) <= Cardinality(Calls)
    BY <2>2, Counted DEF RoomLeft
  <2>4. CASE ~live /\ row[r].table # "Budget"
    <3>1. Kin(row[r]) = {r}
      BY <2>4 DEF Kin, Indexed, Alike
    <3>2. Cardinality(Kin(row[r])) = 1
      BY <3>1, FS_Singleton
    <3> QED BY <2>1, <2>4, <3>2 DEF Twice
  <2> QED BY <2>1, <2>3, <2>4 DEF Twice
<1> QED BY <1>1, <1>2, <1>3, StepIndexed, TypeCorrect, NextStep, PTL DEF Spec

-----------------------------------------------------------------------------
(* Second rows *)

(* The cases due on a date, its deadlines, and the handlers about to add   *)
(* one; the handlers about to add the source of a text.                    *)
Due(d) == {r \in Ids : row[r].table \in Watched /\ row[r].date = d}
Deadlines(d) == {r \in In("Deadline") : row[r].date = d}
Watching(d) == {c \in Calls : call[c].pc = "watch" /\ call[c].date = d}
Texts == In("RegulatoryText")
Sources == In("RegulatorySource")
Sourcing == {c \in Calls : call[c].pc = "source"}

Counts ==
  /\ \A d \in Dates : Cardinality(Due(d)) <= Cardinality(Deadlines(d)) + Cardinality(Watching(d))
  /\ Cardinality(Texts) = Cardinality(Sources) + Cardinality(Sourcing)

LEMMA Finite ==
  /\ \A S \in SUBSET Ids : IsFiniteSet(S) /\ Cardinality(S) \in Nat
  /\ \A S \in SUBSET Calls : IsFiniteSet(S) /\ Cardinality(S) \in Nat
BY RegistersAssumption, FS_Subset, FS_CardinalityType

(* Counting one more, and one less.                                        *)
LEMMA OneMore ==
  ASSUME NEW S, NEW x, IsFiniteSet(S), x \notin S
  PROVE  Cardinality(S \cup {x}) = Cardinality(S) + 1
BY FS_AddElement

LEMMA OneLess ==
  ASSUME NEW S, NEW x \in S, IsFiniteSet(S)
  PROVE  Cardinality(S \ {x}) = Cardinality(S) - 1
BY FS_RemoveElement

LEMMA Sorts ==
  /\ \A d \in Dates : /\ Due(d) \in SUBSET Ids /\ Deadlines(d) \in SUBSET Ids
                      /\ Watching(d) \in SUBSET Calls
                      /\ Due(d)' \in SUBSET Ids /\ Deadlines(d)' \in SUBSET Ids
                      /\ Watching(d)' \in SUBSET Calls
  /\ Texts \in SUBSET Ids /\ Sources \in SUBSET Ids /\ Sourcing \in SUBSET Calls
  /\ Texts' \in SUBSET Ids /\ Sources' \in SUBSET Ids /\ Sourcing' \in SUBSET Calls
BY DEF Due, Deadlines, Watching, Texts, Sources, Sourcing, In

LEMMA StepCounts == Typed /\ live /\ Counts /\ Steps => Counts'
<1> SUFFICES ASSUME Typed, live, Counts, Steps PROVE Counts'
  OBVIOUS
<1>0. /\ row \in [Ids -> Row] /\ call \in [Calls -> Call]
      /\ \A c \in Calls : call[c] \in Call /\ HeldFor(c)
      /\ \A r \in Ids : row[r] \in Row
      /\ \A r \in Ids : Fresh(r) => row[r].table = None
      /\ None \notin Watched \cup {"RegulatoryText", "RegulatorySource", "Deadline"}
      /\ None \notin Dates /\ Idle.pc = "idle"
  BY RecordTypes DEF Typed, TypeOK, Held, Fresh, Watched, Tables
<1> DEFINE SameTexts == Texts' = Texts /\ Sources' = Sources /\ Sourcing' = Sourcing
           SameDue == \A d \in Dates : Due(d)' = Due(d) /\ Deadlines(d)' = Deadlines(d)
                                       /\ Watching(d)' = Watching(d)
(* A row that is neither watched nor watching, a text nor a source.        *)
<1>a. ASSUME NEW r \in Ids, NEW v, row' = [row EXCEPT ![r] = v],
             \/ row[r].table = None
                  /\ v.table \notin Watched \cup {"RegulatoryText", "RegulatorySource", "Deadline"}
             \/ row[r].table = v.table /\ v.table \notin Watched \cup {"Deadline"}
             \/ row[r].table = v.table /\ row[r].date = v.date
             \/ row[r].table = None /\ v.table \in Watched /\ v.date = None
      PROVE  /\ \A d \in Dates : Due(d)' = Due(d) /\ Deadlines(d)' = Deadlines(d)
             /\ Texts' = Texts /\ Sources' = Sources
  <2>1. \A q \in Ids : q # r => row'[q] = row[q]
    BY <1>0, <1>a
  <2>2. row'[r] = v
    BY <1>0, <1>a
  <2>3. Texts' = Texts /\ Sources' = Sources
    BY <1>0, <1>a, <2>1, <2>2 DEF Texts, Sources, In, Watched
  <2>4. \A d \in Dates : Due(d)' = Due(d)
    BY <1>0, <1>a, <2>1, <2>2 DEF Due
  <2>5. \A d \in Dates : Deadlines(d)' = Deadlines(d)
    BY <1>0, <1>a, <2>1, <2>2 DEF Deadlines, In, Watched
  <2> QED BY <2>3, <2>4, <2>5
<1>b. ASSUME row' = row
      PROVE  /\ \A d \in Dates : Due(d)' = Due(d) /\ Deadlines(d)' = Deadlines(d)
             /\ Texts' = Texts /\ Sources' = Sources
  BY <1>b DEF Due, Deadlines, Texts, Sources, In
(* A handler that is neither to watch nor to add a source.                 *)
<1>c. ASSUME NEW c \in Calls, NEW held, call' = [call EXCEPT ![c] = held],
             call[c].pc \notin {"watch", "source"}, held.pc \notin {"watch", "source"}
      PROVE  Sourcing' = Sourcing /\ \A d \in Dates : Watching(d)' = Watching(d)
  BY <1>0, <1>c DEF Sourcing, Watching
<1>d. ASSUME call' = call
      PROVE  Sourcing' = Sourcing /\ \A d \in Dates : Watching(d)' = Watching(d)
  BY <1>d DEF Sourcing, Watching
<1>e. ASSUME SameTexts, SameDue PROVE Counts'
  BY <1>e DEF Counts
<1>f. /\ \A d \in Dates : /\ Cardinality(Due(d)) \in Nat /\ Cardinality(Deadlines(d)) \in Nat
                          /\ Cardinality(Watching(d)) \in Nat
                          /\ Cardinality(Due(d)) <= Cardinality(Deadlines(d)) + Cardinality(Watching(d))
                          /\ IsFiniteSet(Due(d)) /\ IsFiniteSet(Deadlines(d)) /\ IsFiniteSet(Watching(d))
      /\ Cardinality(Texts) \in Nat /\ Cardinality(Sources) \in Nat /\ Cardinality(Sourcing) \in Nat
      /\ IsFiniteSet(Texts) /\ IsFiniteSet(Sources) /\ IsFiniteSet(Sourcing)
      /\ Cardinality(Texts) = Cardinality(Sources) + Cardinality(Sourcing)
  BY Finite, Sorts DEF Counts
<1> HIDE DEF SameTexts, SameDue
<1>1. CASE row' = row /\ call' = call
  BY <1>1, <1>b, <1>d, <1>e DEF SameTexts, SameDue
<1>2. ASSUME NEW c \in Calls, NEW held \in Call, Begins(c, held) PROVE Counts'
  <2>1. call[c].pc = "idle" /\ held.pc \notin {"watch", "source"} /\ row' = row
        /\ call' = [call EXCEPT ![c] = held]
    BY <1>0, <1>2 DEF Begins
  <2> QED BY <2>1, <1>b, <1>c, <1>e DEF SameTexts, SameDue
<1>3. ASSUME NEW c \in Calls, Ends(c) PROVE Counts'
  <2>1. call[c].pc \notin {"watch", "source"} /\ row' = row /\ call' = [call EXCEPT ![c] = Idle]
    BY <1>3 DEF Ends
  <2> QED BY <2>1, <1>0, <1>b, <1>c, <1>e DEF SameTexts, SameDue
<1>4. ASSUME NEW c \in Calls, Closes(c) PROVE Counts'
  <2> DEFINE r == call[c].on
             v == [row[r] EXCEPT !.status = "CLOSED", !.date = call[c].date]
  <2>1. r \in Ids /\ row[r] \in Row /\ row[r].table = "Establishment"
    BY <1>0, <1>4 DEF Closes, HeldFor
  <2>2. v.table = "Establishment"
    BY <2>1 DEF Row
  <2>3. call[c].pc = "close" /\ row' = [row EXCEPT ![r] = v] /\ call' = [call EXCEPT ![c] = Idle]
    BY <1>4 DEF Closes
  <2> HIDE DEF r, v
  <2>4. Sourcing' = Sourcing /\ \A d \in Dates : Watching(d)' = Watching(d)
    BY <2>3, <1>0, <1>c
  <2>5. /\ \A d \in Dates : Due(d)' = Due(d) /\ Deadlines(d)' = Deadlines(d)
        /\ Texts' = Texts /\ Sources' = Sources
    BY <2>1, <2>2, <2>3, <1>a DEF Watched
  <2> QED BY <2>4, <2>5, <1>e DEF SameTexts, SameDue
<1>5. ASSUME NEW c \in Calls, Advances(c) PROVE Counts'
  <2> DEFINE r == call[c].on
             v == [row[r] EXCEPT !.status = call[c].to]
  <2>1. r \in Ids /\ row[r] \in Row
    BY <1>0, <1>5 DEF Advances, HeldFor
  <2>2. v.table = row[r].table /\ v.date = row[r].date
    BY <2>1 DEF Row
  <2>3. call[c].pc = "advance" /\ row' = [row EXCEPT ![r] = v] /\ call' = [call EXCEPT ![c] = Idle]
    BY <1>5 DEF Advances
  <2> HIDE DEF r, v
  <2>4. Sourcing' = Sourcing /\ \A d \in Dates : Watching(d)' = Watching(d)
    BY <2>3, <1>0, <1>c
  <2>5. /\ \A d \in Dates : Due(d)' = Due(d) /\ Deadlines(d)' = Deadlines(d)
        /\ Texts' = Texts /\ Sources' = Sources
    BY <2>1, <2>2, <2>3, <1>a
  <2> QED BY <2>4, <2>5, <1>e DEF SameTexts, SameDue
<1>6. ASSUME NEW c \in Calls, NEW r \in Ids, Inserts(c, r) PROVE Counts'
  <2> DEFINE new == call[c].new
  <2>1. /\ call[c].pc = "insert" /\ row[r].table = None /\ row' = [row EXCEPT ![r] = new]
        /\ new.table \in Numbered
    BY <1>0, <1>6 DEF Inserts, HeldFor
  <2>2. CASE new.table # "RegulatoryText"
    <3>1. call' = [call EXCEPT ![c] = Idle]
      BY <1>6, <2>2 DEF Inserts
    <3> HIDE DEF new
    <3>2. Sourcing' = Sourcing /\ \A d \in Dates : Watching(d)' = Watching(d)
      BY <2>1, <3>1, <1>0, <1>c
    <3>3. /\ \A d \in Dates : Due(d)' = Due(d) /\ Deadlines(d)' = Deadlines(d)
          /\ Texts' = Texts /\ Sources' = Sources
      BY <2>1, <2>2, <1>a DEF Watched, Numbered
    <3> QED BY <3>2, <3>3, <1>e DEF SameTexts, SameDue
  <2>3. CASE new.table = "RegulatoryText"
    <3> DEFINE held == [Idle EXCEPT !.pc = "source"]
    <3>1. call' = [call EXCEPT ![c] = held] /\ held.pc = "source"
      BY <1>6, <2>3 DEF Inserts, Idle
    <3> HIDE DEF new, held
    <3>2. Sourcing' = Sourcing \cup {c} /\ c \notin Sourcing
      BY <1>0, <2>1, <3>1 DEF Sourcing
    <3>3. \A d \in Dates : Watching(d)' = Watching(d)
      BY <1>0, <2>1, <3>1 DEF Watching
    <3>4. Texts' = Texts \cup {r} /\ r \notin Texts /\ Sources' = Sources
      BY <1>0, <2>1, <2>3 DEF Texts, Sources, In
    <3>5. \A d \in Dates : Due(d)' = Due(d) /\ Deadlines(d)' = Deadlines(d)
      BY <1>0, <2>1, <2>3 DEF Due, Deadlines, In, Watched
    <3>6. Cardinality(Texts') = Cardinality(Texts) + 1 /\ Cardinality(Sourcing') = Cardinality(Sourcing) + 1
      BY <1>f, <3>2, <3>4, OneMore
    <3> QED BY <1>f, <3>3, <3>4, <3>5, <3>6 DEF Counts
  <2> QED BY <2>2, <2>3
<1>7. ASSUME NEW r \in Ids, NEW v \in Row, Adds(r, v) PROVE Counts'
  <2>1. /\ row[r].table = None /\ row' = [row EXCEPT ![r] = v]
        /\ Sourcing' = Sourcing /\ \A d \in Dates : Watching(d)' = Watching(d)
    BY <1>0, <1>7, <1>d DEF Adds
  <2>2. CASE v.table # "Deadline"
    <3>1. /\ \A d \in Dates : Due(d)' = Due(d) /\ Deadlines(d)' = Deadlines(d)
          /\ Texts' = Texts /\ Sources' = Sources
      BY <1>7, <2>1, <2>2, <1>a DEF Adds, Numbered
    <3> QED BY <2>1, <3>1, <1>e DEF SameTexts, SameDue
  <2>3. CASE v.table = "Deadline"
    <3>1. Texts' = Texts /\ Sources' = Sources /\ \A d \in Dates : Due(d)' = Due(d)
      BY <1>0, <2>1, <2>3 DEF Texts, Sources, Due, In, Watched
    <3>2. ASSUME NEW d \in Dates PROVE Cardinality(Deadlines(d)) <= Cardinality(Deadlines(d)')
      <4>1. Deadlines(d) \in SUBSET (Deadlines(d)')
        BY <1>0, <2>1 DEF Deadlines, In
      <4>2. IsFiniteSet(Deadlines(d)')
        BY Finite, Sorts
      <4> HIDE DEF Deadlines
      <4> QED BY <4>1, <4>2, FS_Subset
    <3>3. \A d \in Dates : Cardinality(Deadlines(d)') \in Nat
      BY Finite, Sorts
    <3>4. \A d \in Dates : Cardinality(Due(d)') <= Cardinality(Deadlines(d)') + Cardinality(Watching(d)')
      BY <1>f, <2>1, <3>1, <3>2, <3>3
    <3> QED BY <1>f, <2>1, <3>1, <3>4 DEF Counts
  <2> QED BY <2>2, <2>3
<1>8. ASSUME NEW c \in Calls, NEW r \in Ids, NEW v \in Row, AddsWatched(c, r, v) PROVE Counts'
  <2> DEFINE held == [Idle EXCEPT !.pc = "watch", !.on = r, !.date = v.date]
  <2>1. /\ held.pc = "watch" /\ held.date = v.date
        /\ call[c].pc = "idle" /\ call' = [call EXCEPT ![c] = held]
        /\ row[r].table = None /\ row' = [row EXCEPT ![r] = v] /\ v.table \in Watched
    BY <1>0, <1>8 DEF Idle, AddsWatched
  <2> HIDE DEF held
  <2>2. Texts' = Texts /\ Sources' = Sources
    BY <1>0, <2>1 DEF Texts, Sources, In, Watched
  <2>3. Sourcing' = Sourcing
    BY <1>0, <2>1 DEF Sourcing
  <2>4. ASSUME NEW d \in Dates
        PROVE  Cardinality(Due(d)') <= Cardinality(Deadlines(d)') + Cardinality(Watching(d)')
    <3>1. Deadlines(d)' = Deadlines(d)
      BY <1>0, <2>1 DEF Deadlines, In, Watched
    <3>2. CASE d # v.date
      <4>1. Due(d)' = Due(d)
        BY <1>0, <2>1, <3>2 DEF Due
      <4>2. Watching(d)' = Watching(d)
        BY <1>0, <2>1, <3>2 DEF Watching
      <4> QED BY <1>f, <3>1, <4>1, <4>2
    <3>3. CASE d = v.date
      <4>1. Due(d)' = Due(d) \cup {r} /\ r \notin Due(d)
        BY <1>0, <2>1, <3>3 DEF Due
      <4>2. Watching(d)' = Watching(d) \cup {c} /\ c \notin Watching(d)
        BY <1>0, <2>1, <3>3 DEF Watching
      <4>3. Cardinality(Due(d)') = Cardinality(Due(d)) + 1
        BY <1>f, <4>1, OneMore
      <4>4. Cardinality(Watching(d)') = Cardinality(Watching(d)) + 1
        BY <1>f, <4>2, OneMore
      <4> QED BY <1>f, <3>1, <4>3, <4>4
    <3> QED BY <3>2, <3>3
  <2> QED BY <1>f, <2>2, <2>3, <2>4 DEF Counts
<1>9. ASSUME NEW c \in Calls, NEW r \in Ids, NEW v \in Row, AddsSecond(c, r, v) PROVE Counts'
  <2>1. /\ row[r].table = None /\ row' = [row EXCEPT ![r] = v] /\ call' = [call EXCEPT ![c] = Idle]
    BY <1>0, <1>9 DEF AddsSecond
  <2>2. CASE call[c].pc = "watch" /\ v = DeadlineOn(call[c].date)
    <3>1. v.table = "Deadline" /\ v.date = call[c].date
      BY <2>2 DEF DeadlineOn, NoRow
    <3>2. Texts' = Texts /\ Sources' = Sources /\ \A d \in Dates : Due(d)' = Due(d)
      BY <1>0, <2>1, <3>1 DEF Texts, Sources, Due, In, Watched
    <3>3. Sourcing' = Sourcing
      BY <1>0, <2>1, <2>2 DEF Sourcing
    <3>4. ASSUME NEW d \in Dates
          PROVE  Cardinality(Due(d)') <= Cardinality(Deadlines(d)') + Cardinality(Watching(d)')
      <4>1. CASE d # v.date
        <5>1. Deadlines(d)' = Deadlines(d)
          BY <1>0, <2>1, <3>1, <4>1 DEF Deadlines, In
        <5>2. Watching(d)' = Watching(d)
          BY <1>0, <2>1, <3>1, <4>1 DEF Watching
        <5> QED BY <1>f, <3>2, <5>1, <5>2
      <4>2. CASE d = v.date
        <5>1. Deadlines(d)' = Deadlines(d) \cup {r} /\ r \notin Deadlines(d)
          BY <1>0, <2>1, <3>1, <4>2 DEF Deadlines, In
        <5>2. Watching(d)' = Watching(d) \ {c} /\ c \in Watching(d)
          BY <1>0, <2>1, <2>2, <3>1, <4>2 DEF Watching
        <5>3. Cardinality(Deadlines(d)') = Cardinality(Deadlines(d)) + 1
          BY <1>f, <5>1, OneMore
        <5>4. Cardinality(Watching(d)') = Cardinality(Watching(d)) - 1
          BY <1>f, <5>2, OneLess
        <5> QED BY <1>f, <3>2, <5>3, <5>4
      <4> QED BY <4>1, <4>2
    <3> QED BY <1>f, <3>2, <3>3, <3>4 DEF Counts
  <2>3. CASE call[c].pc = "source" /\ v = [NoRow EXCEPT !.table = "RegulatorySource"]
    <3>1. v.table = "RegulatorySource"
      BY <2>3 DEF NoRow
    <3>2. Texts' = Texts
      BY <1>0, <2>1, <3>1 DEF Texts, In
    <3>3. \A d \in Dates : Due(d)' = Due(d) /\ Deadlines(d)' = Deadlines(d)
      BY <1>0, <2>1, <3>1 DEF Due, Deadlines, In, Watched
    <3>4. \A d \in Dates : Watching(d)' = Watching(d)
      BY <1>0, <2>1, <2>3 DEF Watching
    <3>5. Sources' = Sources \cup {r} /\ r \notin Sources
      BY <1>0, <2>1, <3>1 DEF Sources, In
    <3>6. Sourcing' = Sourcing \ {c} /\ c \in Sourcing
      BY <1>0, <2>1, <2>3 DEF Sourcing
    <3>7. Cardinality(Sources') = Cardinality(Sources) + 1
      BY <1>f, <3>5, OneMore
    <3>8. Cardinality(Sourcing') = Cardinality(Sourcing) - 1
      BY <1>f, <3>6, OneLess
    <3> QED BY <1>f, <3>2, <3>3, <3>4, <3>7, <3>8 DEF Counts
  <2> QED BY <1>9, <2>2, <2>3 DEF AddsSecond
<1>10. ASSUME NEW r \in Ids, NEW to \in Statuses, Sets(r, to) PROVE Counts'
  <2> DEFINE v == [row[r] EXCEPT !.status = to]
  <2>1. row[r] \in Row
    BY <1>0
  <2>2. v.table = row[r].table /\ v.date = row[r].date
    BY <2>1 DEF Row
  <2>3. row' = [row EXCEPT ![r] = v] /\ call' = call
    BY <1>10 DEF Sets
  <2> HIDE DEF v
  <2>4. /\ \A d \in Dates : Due(d)' = Due(d) /\ Deadlines(d)' = Deadlines(d)
        /\ Texts' = Texts /\ Sources' = Sources
    BY <2>2, <2>3, <1>a
  <2> QED BY <2>3, <2>4, <1>d, <1>e DEF SameTexts, SameDue
<1> QED BY <1>1, <1>2, <1>3, <1>4, <1>5, <1>6, <1>7, <1>8, <1>9, <1>10 DEF Steps

(* In memory no due date goes unwatched and no text without its source but *)
(* for the handler about to add the second row: nothing but the handler    *)
(* links the two (declareAccident, createInteraction, addCompetency,       *)
(* planTraining, ingestText).                                              *)
THEOREM SecondRowsFollow == Spec => []SecondRowFollows
<1>1. Init => (live => Counts)
  <2> SUFFICES ASSUME Init PROVE Counts
    OBVIOUS
  <2>1. /\ \A r \in Ids : row[r] = NoRow
        /\ \A c \in Calls : call[c] = Idle
        /\ NoRow.table = None /\ Idle.pc = "idle"
        /\ None \notin Watched \cup {"RegulatoryText", "RegulatorySource", "Deadline"}
    BY RecordTypes DEF Init, Watched, Tables
  <2>2. Texts = {} /\ Sources = {} /\ Sourcing = {}
    BY <2>1 DEF Texts, Sources, Sourcing, In
  <2>3. \A d \in Dates : Due(d) = {} /\ Deadlines(d) = {} /\ Watching(d) = {}
    BY <2>1 DEF Due, Deadlines, Watching, In
  <2> QED BY <2>2, <2>3, FS_EmptySet DEF Counts
<1>2. Typed /\ (live => Counts) /\ Steps => (live => Counts)'
  BY StepCounts DEF Steps
<1>3. (live => Counts) => SecondRowFollows
  BY DEF Counts, SecondRowFollows, Due, Deadlines, Watching, Texts, Sources, Sourcing
<1> QED BY <1>1, <1>2, <1>3, TypeCorrect, NextStep, PTL DEF Spec
=============================================================================
