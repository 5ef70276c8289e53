---------------------------- MODULE DossierProofs ----------------------------
(***************************************************************************)
(* Theorems about the dossier of a person, for every number of handlers,   *)
(* rows and requests, over either store.                                   *)
(***************************************************************************)
EXTENDS Dossier, TLAPS

-----------------------------------------------------------------------------
(* Types *)

LEMMA RecordTypes ==
  /\ NoRow \in Row
  /\ Idle \in Call
  /\ \A table \in Tables, q \in Requests \cup {None} : Registering(table, q) \in Call
  /\ \A table \in Tables, before \in SUBSET Rows : Purging(table, before) \in Call
BY DEF NoRow, Row, Idle, Call, Stages, Registering, Purging, Open, Listed, RequestStatus

(* The variables keep their types, whatever handlers overlap and fail. *)
THEOREM TypeCorrect == Spec => []TypeOK
<1>1. Init => TypeOK
  BY DossierAssumption, RecordTypes DEF Init, TypeOK, RequestStatus
<1>2. TypeOK /\ [Next]_vars => TypeOK'
  <2> SUFFICES ASSUME TypeOK, [Next]_vars PROVE TypeOK'
    OBVIOUS
  <2>0. Idle \in Call /\ \A c \in Calls : call[c] \in Call
    BY RecordTypes DEF TypeOK
  <2>a. ASSUME NEW c \in Calls, NEW held \in Call, call' = [call EXCEPT ![c] = held],
               UNCHANGED <<live, row, request, person>>
        PROVE  TypeOK'
    BY <2>a DEF TypeOK
  <2>b. ASSUME NEW c \in Calls, Return(c) PROVE call' \in [Calls -> Call]
    BY <2>b, <2>0 DEF Return, TypeOK
  <2>1. ASSUME NEW c \in Calls, NEW table \in Tables, Register(c, table) PROVE TypeOK'
    <3>1. Registering(table, None) \in Call
      BY RecordTypes
    <3> QED BY <2>1, <2>a, <3>1 DEF Register, Begin
  <2>2. ASSUME NEW c \in Calls, RegisterSensitiveId(c) PROVE TypeOK'
    <3>1. [Idle EXCEPT !.pc = "register", !.table = "identifier"] \in Call
      BY <2>0 DEF Call, Stages, Tables
    <3> QED BY <2>2, <2>a, <3>1 DEF RegisterSensitiveId, Begin
  <2>3. ASSUME NEW c \in Calls, AnonymizePerson(c) PROVE TypeOK'
    <3>1. Listed("bank") \cup Listed("identifier") \subseteq Rows /\ "bank" \in Tables
      BY DEF Listed, Tables
    <3>2. Purging("bank", Listed("bank") \cup Listed("identifier")) \in Call
      BY <3>1, RecordTypes
    <3>3. call' \in [Calls -> Call]
      BY <2>3, <3>2 DEF AnonymizePerson, Begin, TypeOK
    <3>4. person' \in [name : BOOLEAN, contact : BOOLEAN]
      BY <2>3 DEF AnonymizePerson, TypeOK
    <3> QED BY <2>3, <3>3, <3>4 DEF AnonymizePerson, TypeOK
  <2>4. ASSUME NEW c \in Calls, NEW q \in Requests, Decide(c, q) PROVE TypeOK'
    <3>1. Copy(request[q]) \in RequestStatus
      BY DEF Copy, TypeOK, RequestStatus
    <3>2. [Idle EXCEPT !.pc = "decide", !.for = q, !.seen = Copy(request[q])] \in Call
      BY <2>0, <3>1 DEF Call, Stages
    <3> QED BY <2>4, <2>a, <3>2 DEF Decide, Begin
  <2>5. ASSUME NEW c \in Calls, NEW r \in Rows, FetchBank(c, r) PROVE TypeOK'
    <3>1. Copy(row[r].status) \in RequestStatus \cup BankStatus
      BY DEF Copy, TypeOK, Row, RequestStatus
    <3>2. [Idle EXCEPT !.pc = "status", !.on = r, !.seen = Copy(row[r].status)] \in Call
      BY <2>0, <3>1 DEF Call, Stages
    <3> QED BY <2>5, <2>a, <3>2 DEF FetchBank, Begin
  <2>6. ASSUME NEW c \in Calls, NEW r \in Rows, Close(c, r) PROVE TypeOK'
    <3>1. call' \in [Calls -> Call]
      BY <2>6, <2>0 DEF Close, TypeOK, Call
    <3> DEFINE status == IF call[c].table = "bank" THEN "REPLACED" ELSE row[r].status
               closed == [row[r] EXCEPT !.open = FALSE, !.status = status]
    <3>2. closed \in Row
      BY DEF TypeOK, Row, BankStatus
    <3>3. row' = [row EXCEPT ![r] = closed]
      BY <2>6 DEF Close, TypeOK, Row
    <3>4. row' \in [Rows -> Row]
      BY <3>2, <3>3 DEF TypeOK
    <3> QED BY <2>6, <3>1, <3>4 DEF Close, At, TypeOK
  <2>7. ASSUME NEW c \in Calls, NEW r \in Rows, Create(c, r) PROVE TypeOK'
    <3>1. call[c].table \in Tables \cup {None} /\ call[c].for \in Requests \cup {None}
      BY <2>0 DEF Call
    <3>2. [Idle EXCEPT !.pc = "approve", !.for = call[c].for] \in Call
      BY <2>0, <3>1 DEF Call, Stages
    <3>3. call' \in [Calls -> Call]
      BY <2>7, <2>0, <3>2 DEF Create, Return, TypeOK
    <3> DEFINE new == [table |-> call[c].table, open |-> TRUE, value |-> TRUE, by |-> c,
                       for |-> call[c].for,
                       status |-> IF call[c].table = "bank" THEN "FURNISHED" ELSE None]
    <3>4. new \in Row
      BY <3>1 DEF Row, BankStatus
    <3>5. row' = [row EXCEPT ![r] = new]
      BY <2>7 DEF Create
    <3> HIDE DEF new
    <3>6. row' \in [Rows -> Row]
      BY <3>4, <3>5 DEF TypeOK
    <3> QED BY <2>7, <3>3, <3>6 DEF Create, At, TypeOK
  <2>8. ASSUME NEW c \in Calls, NEW r \in Rows, Purge(c, r) PROVE TypeOK'
    <3>1. call' \in [Calls -> Call]
      BY <2>8, <2>0 DEF Purge, TypeOK, Call
    <3> DEFINE status == IF call[c].table = "bank" THEN "REPLACED" ELSE row[r].status
               erased == [row[r] EXCEPT !.open = FALSE, !.value = FALSE, !.status = status]
    <3>2. erased \in Row
      BY DEF TypeOK, Row, BankStatus
    <3>3. row' = [row EXCEPT ![r] = erased]
      BY <2>8 DEF Purge, TypeOK, Row
    <3>4. row' \in [Rows -> Row]
      BY <3>2, <3>3 DEF TypeOK
    <3> QED BY <2>8, <3>1, <3>4 DEF Purge, At, TypeOK
  <2>9. ASSUME NEW c \in Calls, DecidedBefore(c) PROVE TypeOK'
    BY <2>9, <2>b DEF DecidedBefore, At, TypeOK
  <2>10. ASSUME NEW c \in Calls, Refuse(c) PROVE TypeOK'
    BY <2>10, <2>b DEF Refuse, At, TypeOK, RequestStatus
  <2>11. ASSUME NEW c \in Calls, Apply(c) PROVE TypeOK'
    <3>1. call[c].for \in Requests \cup {None} /\ "address" \in Tables
      BY <2>0 DEF Call, Tables
    <3>2. Registering("address", call[c].for) \in Call
      BY <3>1, RecordTypes
    <3> QED BY <2>11, <2>a, <3>2 DEF Apply, At
  <2>12. ASSUME NEW c \in Calls, Approve(c) PROVE TypeOK'
    BY <2>12, <2>b DEF Approve, At, TypeOK, RequestStatus
  <2>13. ASSUME NEW c \in Calls, SetBankStatus(c) PROVE TypeOK'
    <3>1. Moves(c) \subseteq BankStatus
      BY DEF Moves, BankTransitions, BankStatus
    <3>2. ASSUME NEW to \in Moves(c), row' = [row EXCEPT ![call[c].on].status = to]
          PROVE  row' \in [Rows -> Row]
      <4>1. ASSUME NEW r \in Rows PROVE [row[r] EXCEPT !.status = to] \in Row
        BY <3>1, <3>2 DEF TypeOK, Row
      <4>2. row' = [row EXCEPT ![call[c].on] = [row[call[c].on] EXCEPT !.status = to]]
        BY <3>2
      <4> QED BY <4>1, <4>2 DEF TypeOK
    <3>3. row' \in [Rows -> Row]
      BY <2>13, <3>2 DEF SetBankStatus, TypeOK
    <3> QED BY <2>13, <2>b, <3>3 DEF SetBankStatus, At, TypeOK
  <2>14. ASSUME NEW c \in Calls, ListIdentifiers(c) PROVE TypeOK'
    <3>1. call[c].before \in SUBSET Rows /\ "identifier" \in Tables
      BY <2>0 DEF Call, Tables
    <3>2. Purging("identifier", call[c].before) \in Call
      BY <3>1, RecordTypes
    <3> QED BY <2>14, <2>a, <3>2 DEF ListIdentifiers, At
  <2>15. ASSUME NEW c \in Calls, PersonAnonymized(c) PROVE TypeOK'
    BY <2>15, <2>b DEF PersonAnonymized, At, TypeOK
  <2>16. ASSUME NEW c \in Calls, Fail(c) PROVE TypeOK'
    BY <2>16, <2>b DEF Fail, TypeOK
  <2>17. ASSUME NEW q \in Requests, Submit(q) PROVE TypeOK'
    BY <2>17 DEF Submit, TypeOK, RequestStatus
  <2>18. CASE UNCHANGED vars
    BY <2>18 DEF vars, TypeOK
  <2> QED
    BY <2>1, <2>2, <2>3, <2>4, <2>5, <2>6, <2>7, <2>8, <2>9, <2>10, <2>11, <2>12, <2>13,
       <2>14, <2>15, <2>16, <2>17, <2>18 DEF Next, Start, Continue
<1> QED BY <1>1, <1>2, PTL DEF Spec

-----------------------------------------------------------------------------
(* What rows and handlers have in common, and how rows change *)

(* What a handler may hold. *)
Fits(held) ==
  /\ held.pc = "register" => held.table \in Tables
  /\ held.pc = "purge" => held.table \in {"bank", "identifier"}
  /\ held.pc = "approve" => held.for # None
  /\ held.pc \in {"register", "purge"} => \A r \in held.rows : row[r].table # None
  /\ held.pc = "status" => held.on \in Rows /\ row[held.on].table = "bank"

(* A row without a table is none; what a handler holds fits its stage.     *)
Shape ==
  /\ \A r \in Rows : row[r].table = None => row[r] = NoRow
  /\ \A r \in Rows : row[r].for # None => row[r].by \in Calls
  /\ \A c \in Calls : Fits(call[c])

(* A row that was there keeps its table, handler and request, stays closed *)
(* and stays erased.                                                       *)
Kept(r) ==
  /\ row'[r].table = row[r].table /\ row'[r].by = row[r].by /\ row'[r].for = row[r].for
  /\ row'[r].open => row[r].open
  /\ row'[r].value => row[r].value

LEMMA NextRows ==
  ASSUME TypeOK, Shape, [Next]_vars, NEW r \in Rows
  PROVE  \/ row'[r] = row[r]
         \/ row[r].table # None /\ Kept(r)
         \/ \E c \in Calls : Create(c, r)
<1> DEFINE Goal == \/ row'[r] = row[r]
                   \/ row[r].table # None /\ Kept(r)
                   \/ \E c \in Calls : Create(c, r)
<1>0. row \in [Rows -> Row] /\ row[r] \in Row
  BY DEF TypeOK
<1>1. ASSUME NEW c \in Calls, NEW x \in Rows, Close(c, x) PROVE Goal
  <2>1. call[c].pc = "register" /\ x \in call[c].rows
    BY <1>1 DEF Close, At, ToClose
  <2>2. row[x].table # None
    BY <2>1 DEF Shape, Fits
  <2>3. CASE x # r
    BY <1>1, <1>0, <2>3 DEF Close
  <2>4. CASE x = r
    <3>1. row'[r] = [row[r] EXCEPT !.open = FALSE, !.status =
                       IF call[c].table = "bank" THEN "REPLACED" ELSE row[r].status]
      BY <1>1, <1>0, <2>4 DEF Close, Row
    <3>2. Kept(r)
      BY <3>1, <1>0 DEF Kept, Row
    <3> QED BY <2>2, <2>4, <3>2
  <2> QED BY <2>3, <2>4
<1>2. ASSUME NEW c \in Calls, NEW x \in Rows, Purge(c, x) PROVE Goal
  <2>1. call[c].pc = "purge" /\ x \in call[c].rows
    BY <1>2 DEF Purge, At
  <2>2. row[x].table # None
    BY <2>1 DEF Shape, Fits
  <2>3. CASE x # r
    BY <1>2, <1>0, <2>3 DEF Purge
  <2>4. CASE x = r
    <3>1. row'[r] = [row[r] EXCEPT !.open = FALSE, !.value = FALSE, !.status =
                       IF call[c].table = "bank" THEN "REPLACED" ELSE row[r].status]
      BY <1>2, <1>0, <2>4 DEF Purge, Row
    <3>2. Kept(r)
      BY <3>1, <1>0 DEF Kept, Row
    <3> QED BY <2>2, <2>4, <3>2
  <2> QED BY <2>3, <2>4
<1>3. ASSUME NEW c \in Calls, SetBankStatus(c) PROVE Goal
  <2>1. call[c].pc = "status"
    BY <1>3 DEF SetBankStatus, At
  <2>2. call[c].on \in Rows /\ row[call[c].on].table = "bank"
    BY <2>1 DEF Shape, Fits
  <2>3. CASE UNCHANGED row
    BY <2>3
  <2>4. ASSUME NEW to \in Moves(c), row' = [row EXCEPT ![call[c].on].status = to] PROVE Goal
    <3>1. CASE call[c].on # r
      BY <2>4, <1>0, <2>2, <3>1
    <3>2. CASE call[c].on = r
      <4>1. row'[r] = [row[r] EXCEPT !.status = to]
        BY <2>4, <1>0, <3>2
      <4>2. Kept(r)
        BY <4>1, <1>0 DEF Kept, Row
      <4>3. row[r].table # None
        BY <2>2, <3>2, DossierAssumption DEF Tables
      <4> QED BY <4>2, <4>3
    <3> QED BY <3>1, <3>2
  <2> QED BY <1>3, <2>3, <2>4 DEF SetBankStatus
<1>4. ASSUME NEW c \in Calls, NEW x \in Rows, Create(c, x) PROVE Goal
  <2>1. CASE x # r
    BY <1>4, <1>0, <2>1 DEF Create
  <2> QED BY <1>4, <2>1
<1>5. ASSUME NEW c \in Calls, Start(c) PROVE Goal
  BY <1>5 DEF Start, Register, RegisterSensitiveId, AnonymizePerson, Decide, FetchBank
<1>6. ASSUME NEW c \in Calls, Continue(c) PROVE Goal
  BY <1>1, <1>2, <1>3, <1>4, <1>6
     DEF Continue, DecidedBefore, Refuse, Apply, Approve, ListIdentifiers,
         PersonAnonymized
<1>7. ASSUME NEW c \in Calls, Fail(c) PROVE Goal
  BY <1>7 DEF Fail
<1>8. ASSUME NEW q \in Requests, Submit(q) PROVE Goal
  BY <1>8 DEF Submit
<1>9. CASE UNCHANGED vars
  BY <1>9 DEF vars
<1> QED BY <1>5, <1>6, <1>7, <1>8, <1>9 DEF Next

LEMMA RowsStay ==
  ASSUME TypeOK, Shape, [Next]_vars, NEW r \in Rows, row[r].table # None
  PROVE  Kept(r)
<1>1. CASE row'[r] = row[r]
  BY <1>1 DEF Kept
<1>2. ASSUME NEW c \in Calls, Create(c, r) PROVE FALSE
  BY <1>2 DEF Create
<1> QED BY <1>1, <1>2, NextRows

LEMMA ShapeStep ==
  ASSUME TypeOK, Shape, [Next]_vars
  PROVE  Shape'
<1>0. \A c \in Calls : call[c] \in Call /\ Fits(call[c])
  BY DEF TypeOK, Shape
<1>1. \A r \in Rows : /\ row'[r].table = None => row'[r] = NoRow
                      /\ row'[r].for # None => row'[r].by \in Calls
  <2> SUFFICES ASSUME NEW r \in Rows
               PROVE  /\ row'[r].table = None => row'[r] = NoRow
                      /\ row'[r].for # None => row'[r].by \in Calls
    OBVIOUS
  <2>1. CASE row'[r] = row[r]
    BY <2>1 DEF Shape
  <2>2. CASE row[r].table # None /\ Kept(r)
    BY <2>2 DEF Shape, Kept
  <2>3. ASSUME NEW c \in Calls, Create(c, r)
        PROVE  row'[r].table # None /\ row'[r].by \in Calls
    <3>1. call[c].table \in Tables
      BY <2>3 DEF Create, At, Shape, Fits
    <3>2. row'[r].table = call[c].table /\ row'[r].by = c
      BY <2>3 DEF Create, TypeOK
    <3> QED BY <3>1, <3>2, DossierAssumption
  <2> QED BY <2>1, <2>2, <2>3, NextRows
<1>2. ASSUME NEW held \in Call, Fits(held)
      PROVE  /\ held.pc = "register" => held.table \in Tables
             /\ held.pc = "purge" => held.table \in {"bank", "identifier"}
             /\ held.pc = "approve" => held.for # None
             /\ held.pc \in {"register", "purge"} => \A r \in held.rows : row'[r].table # None
             /\ held.pc = "status" => held.on \in Rows /\ row'[held.on].table = "bank"
  <2>1. \A r \in held.rows : r \in Rows
    BY DEF Call
  <2>2. \A r \in Rows : row[r].table # None => row'[r].table = row[r].table
    BY RowsStay DEF Kept
  <2>3. "bank" # None
    BY DossierAssumption DEF Tables
  <2> QED BY <1>2, <2>1, <2>2, <2>3 DEF Fits
<1>3. \A c \in Calls : call'[c] \in Call /\ Fits(call'[c])
  <2> DEFINE Goal == \A c \in Calls : call'[c] \in Call /\ Fits(call'[c])
  <2>a. ASSUME NEW c \in Calls, NEW held \in Call, Fits(held), call' = [call EXCEPT ![c] = held]
        PROVE  Goal
    BY <2>a, <1>0 DEF TypeOK
  <2>b. ASSUME NEW c \in Calls, Return(c) PROVE Goal
    <3>1. Idle \in Call /\ Fits(Idle)
      BY RecordTypes DEF Fits, Idle
    <3> QED BY <2>a, <2>b, <3>1 DEF Return
  <2>c. \A table \in Tables, q \in Requests \cup {None} : Fits(Registering(table, q))
    BY DossierAssumption DEF Fits, Registering, Idle, Open, Listed, Tables
  <2>d. \A table \in {"bank", "identifier"}, before \in SUBSET Rows :
          Purging(table, before) \in Call /\ Fits(Purging(table, before))
    <3> SUFFICES ASSUME NEW table \in {"bank", "identifier"}, NEW before \in SUBSET Rows
                 PROVE  Purging(table, before) \in Call /\ Fits(Purging(table, before))
      OBVIOUS
    <3>1. table \in Tables /\ table # None
      BY DossierAssumption DEF Tables
    <3>2. Purging(table, before) \in Call
      BY <3>1, RecordTypes
    <3>3. Fits(Purging(table, before))
      BY <3>1 DEF Fits, Purging, Idle, Listed
    <3> QED BY <3>2, <3>3
  <2>1. ASSUME NEW c \in Calls, Start(c) PROVE Goal
    <3>1. ASSUME NEW table \in Tables, Register(c, table) PROVE Goal
      BY <3>1, <2>a, <2>c, RecordTypes DEF Register, Begin
    <3> DEFINE id == [Idle EXCEPT !.pc = "register", !.table = "identifier"]
    <3>2. CASE RegisterSensitiveId(c)
      <4>1. id \in Call /\ Fits(id)
        BY DEF Idle, Call, Stages, Tables, Fits, RequestStatus
      <4> QED BY <3>2, <4>1, <2>a DEF RegisterSensitiveId, Begin
    <3>3. CASE AnonymizePerson(c)
      <4>1. Listed("bank") \cup Listed("identifier") \in SUBSET Rows
        BY DEF Listed
      <4> QED BY <3>3, <4>1, <2>a, <2>d DEF AnonymizePerson, Begin
    <3>4. ASSUME NEW q \in Requests, Decide(c, q) PROVE Goal
      <4> DEFINE de == [Idle EXCEPT !.pc = "decide", !.for = q, !.seen = Copy(request[q])]
      <4>1. Copy(request[q]) \in RequestStatus
        BY DEF Copy, TypeOK, RequestStatus
      <4>2. de \in Call /\ Fits(de)
        BY <4>1 DEF Idle, Call, Stages, Fits
      <4> QED BY <3>4, <4>2, <2>a DEF Decide, Begin
    <3>5. ASSUME NEW r \in Rows, FetchBank(c, r) PROVE Goal
      <4> DEFINE fe == [Idle EXCEPT !.pc = "status", !.on = r, !.seen = Copy(row[r].status)]
      <4>1. Copy(row[r].status) \in RequestStatus \cup BankStatus
        BY DEF Copy, TypeOK, Row, RequestStatus
      <4>2. fe \in Call /\ Fits(fe)
        BY <3>5, <4>1 DEF Idle, Call, Stages, Fits, FetchBank
      <4> QED BY <3>5, <4>2, <2>a DEF FetchBank, Begin
    <3> QED BY <2>1, <3>1, <3>2, <3>3, <3>4, <3>5 DEF Start
  <2>2. ASSUME NEW c \in Calls, Continue(c) PROVE Goal
    <3>0. call[c] \in Call /\ Fits(call[c])
      BY <1>0
    <3>1. ASSUME NEW r \in Rows, Close(c, r) \/ Purge(c, r) PROVE Goal
      <4> DEFINE held == [call[c] EXCEPT !.rows = @ \ {r}]
      <4>1. held \in Call /\ Fits(held)
        BY <3>0 DEF Call, Fits
      <4>2. call' = [call EXCEPT ![c] = held]
        BY <3>1 DEF Close, Purge
      <4> QED BY <4>1, <4>2, <2>a
    <3>2. ASSUME NEW r \in Rows, Create(c, r) PROVE Goal
      <4> DEFINE held == [Idle EXCEPT !.pc = "approve", !.for = call[c].for]
      <4>1. CASE call[c].for = None
        BY <3>2, <4>1, <2>b DEF Create
      <4>2. CASE call[c].for # None
        <5>1. held \in Call /\ Fits(held)
          BY <3>0, <4>2 DEF Idle, Call, Stages, Fits, RequestStatus
        <5>2. call' = [call EXCEPT ![c] = held]
          BY <3>2, <4>2 DEF Create
        <5> QED BY <5>1, <5>2, <2>a
      <4> QED BY <4>1, <4>2
    <3>3. CASE DecidedBefore(c) \/ Refuse(c) \/ Approve(c) \/ SetBankStatus(c) \/ PersonAnonymized(c)
      BY <3>3, <2>b DEF DecidedBefore, Refuse, Approve, SetBankStatus, PersonAnonymized
    <3>4. CASE Apply(c)
      <4>1. call[c].for \in Requests \cup {None} /\ "address" \in Tables
        BY <3>0 DEF Call, Tables
      <4> QED BY <3>4, <4>1, <2>a, <2>c, RecordTypes DEF Apply
    <3>5. CASE ListIdentifiers(c)
      <4>1. call[c].before \in SUBSET Rows
        BY <3>0 DEF Call
      <4> QED BY <3>5, <4>1, <2>a, <2>d DEF ListIdentifiers
    <3> QED BY <2>2, <3>1, <3>2, <3>3, <3>4, <3>5 DEF Continue
  <2>3. ASSUME NEW c \in Calls, Fail(c) PROVE Goal
    BY <2>b, <2>3 DEF Fail
  <2>4. ASSUME NEW q \in Requests, Submit(q) PROVE Goal
    BY <2>4, <1>0 DEF Submit
  <2>5. CASE UNCHANGED vars
    BY <2>5, <1>0 DEF vars
  <2> QED BY <2>1, <2>2, <2>3, <2>4, <2>5 DEF Next
<1>4. \A c \in Calls :
        /\ call'[c].pc = "register" => call'[c].table \in Tables
        /\ call'[c].pc = "purge" => call'[c].table \in {"bank", "identifier"}
        /\ call'[c].pc = "approve" => call'[c].for # None
        /\ call'[c].pc \in {"register", "purge"} => \A r \in call'[c].rows : row'[r].table # None
        /\ call'[c].pc = "status" => call'[c].on \in Rows /\ row'[call'[c].on].table = "bank"
  BY <1>2, <1>3
<1>5. \A c \in Calls : Fits(call[c])'
  <2> SUFFICES ASSUME NEW c \in Calls PROVE Fits(call[c])'
    OBVIOUS
  <2> QED BY <1>4 DEF Fits, Tables
<1>6. (\A r \in Rows : row[r].table = None => row[r] = NoRow)'
  BY <1>1 DEF NoRow
<1>7. (\A r \in Rows : row[r].for # None => row[r].by \in Calls)'
  BY <1>1
<1> QED BY <1>5, <1>6, <1>7 DEF Shape

LEMMA ShapeCorrect == Spec => [](TypeOK /\ Shape)
<1>1. Init => Shape
  BY DossierAssumption DEF Init, Shape, Fits, NoRow, Idle
<1>2. TypeOK /\ Shape /\ [Next]_vars => Shape'
  BY ShapeStep
<1> QED BY <1>1, <1>2, TypeCorrect, PTL DEF Spec

-----------------------------------------------------------------------------
(* How the slot of a handler changes *)

LEMMA CreateCall ==
  ASSUME TypeOK, NEW c \in Calls, NEW r \in Rows, Create(c, r)
  PROVE  /\ call'[c].pc \in {"idle", "approve"}
         /\ call'[c].for = call[c].for
         /\ call[c].for # None => call'[c].pc = "approve"
         /\ \A d \in Calls \ {c} : call'[d] = call[d]
<1> DEFINE held == [Idle EXCEPT !.pc = "approve", !.for = call[c].for]
<1>1. CASE call[c].for = None
  <2>1. call' = [call EXCEPT ![c] = Idle]
    BY <1>1 DEF Create, Return
  <2> QED BY <1>1, <2>1 DEF Idle, TypeOK
<1>2. CASE call[c].for # None
  <2>1. call' = [call EXCEPT ![c] = held]
    BY <1>2 DEF Create
  <2>2. held.pc = "approve" /\ held.for = call[c].for
    BY DEF Idle
  <2> HIDE DEF held
  <2> QED BY <2>1, <2>2 DEF TypeOK
<1> QED BY <1>1, <1>2

(* A slot changes by the steps of its own handler only. *)
LEMMA OwnSteps ==
  ASSUME TypeOK, [Next]_vars, NEW c \in Calls
  PROVE  call'[c] = call[c] \/ Start(c) \/ Continue(c) \/ Fail(c)
<1>1. ASSUME NEW d \in Calls, d # c, Start(d) PROVE call'[c] = call[c]
  BY <1>1 DEF Start, Register, RegisterSensitiveId, AnonymizePerson, Decide, FetchBank, Begin, TypeOK
<1>2. ASSUME NEW d \in Calls, d # c, Continue(d) PROVE call'[c] = call[c]
  <2>1. ASSUME NEW r \in Rows, Create(d, r) PROVE call'[c] = call[c]
    BY <1>2, <2>1, CreateCall
  <2>2. ASSUME NEW r \in Rows, Close(d, r) \/ Purge(d, r) PROVE call'[c] = call[c]
    BY <1>2, <2>2 DEF Close, Purge, TypeOK
  <2>3. CASE DecidedBefore(d) \/ Refuse(d) \/ Approve(d) \/ SetBankStatus(d) \/ PersonAnonymized(d)
    BY <1>2, <2>3 DEF DecidedBefore, Refuse, Approve, SetBankStatus, PersonAnonymized, Return, TypeOK
  <2>4. CASE ListIdentifiers(d) \/ Apply(d)
    BY <1>2, <2>4 DEF ListIdentifiers, Apply, TypeOK
  <2> QED BY <1>2, <2>1, <2>2, <2>3, <2>4 DEF Continue
<1>3. ASSUME NEW d \in Calls, d # c, Fail(d) PROVE call'[c] = call[c]
  BY <1>3 DEF Fail, Return, TypeOK
<1>4. ASSUME NEW q \in Requests, Submit(q) PROVE call'[c] = call[c]
  BY <1>4 DEF Submit
<1>5. CASE UNCHANGED vars
  BY <1>5 DEF vars
<1> QED BY <1>1, <1>2, <1>3, <1>4, <1>5 DEF Next

LEMMA StartStage ==
  ASSUME TypeOK, NEW c \in Calls, Start(c)
  PROVE  /\ call[c] = Idle /\ call'[c].pc \in {"register", "decide", "status", "purge"}
         /\ row' = row /\ request' = request /\ live' = live
<1>1. ASSUME NEW table \in Tables, Register(c, table) PROVE call'[c].pc = "register"
  BY <1>1 DEF Register, Begin, Registering, Idle, TypeOK
<1>2. ASSUME NEW q \in Requests, Decide(c, q) PROVE call'[c].pc = "decide"
  BY <1>2 DEF Decide, Begin, Idle, TypeOK
<1>3. ASSUME NEW r \in Rows, FetchBank(c, r) PROVE call'[c].pc = "status"
  BY <1>3 DEF FetchBank, Begin, Idle, TypeOK
<1>4. call'[c].pc \in {"register", "decide", "status", "purge"}
  <2>1. CASE RegisterSensitiveId(c)
    BY <2>1 DEF RegisterSensitiveId, Begin, Idle, TypeOK
  <2>2. CASE AnonymizePerson(c)
    BY <2>2 DEF AnonymizePerson, Begin, Purging, Idle, TypeOK
  <2> QED BY <1>1, <1>2, <1>3, <2>1, <2>2 DEF Start
<1>5. call[c] = Idle /\ row' = row /\ request' = request /\ live' = live
  BY DEF Start, Register, RegisterSensitiveId, AnonymizePerson, Decide, FetchBank, Begin
<1> QED BY <1>4, <1>5

(* How a handler comes to register, or goes on registering. *)
LEMMA NextRegister ==
  ASSUME TypeOK, [Next]_vars, NEW c \in Calls, call'[c].pc = "register"
  PROVE  \/ call'[c] = call[c]
         \/ row' = row /\ \E table \in Tables : Register(c, table)
         \/ row' = row /\ Apply(c)
         \/ row' = row /\ RegisterSensitiveId(c)
         \/ \E r \in Rows : Close(c, r)
<1> DEFINE Goal == \/ call'[c] = call[c]
                   \/ row' = row /\ \E table \in Tables : Register(c, table)
                   \/ row' = row /\ Apply(c)
                   \/ row' = row /\ RegisterSensitiveId(c)
                   \/ \E r \in Rows : Close(c, r)
<1>1. CASE Start(c)
  <2>1. ASSUME NEW table \in Tables, Register(c, table) PROVE Goal
    BY <2>1 DEF Register
  <2>2. CASE RegisterSensitiveId(c)
    BY <2>2 DEF RegisterSensitiveId
  <2>3. CASE AnonymizePerson(c)
    BY <2>3 DEF AnonymizePerson, Begin, Purging, Idle, TypeOK
  <2>4. ASSUME NEW q \in Requests, Decide(c, q) PROVE FALSE
    BY <2>4 DEF Decide, Begin, Idle, TypeOK
  <2>5. ASSUME NEW r \in Rows, FetchBank(c, r) PROVE FALSE
    BY <2>5 DEF FetchBank, Begin, Idle, TypeOK
  <2> QED BY <1>1, <2>1, <2>2, <2>3, <2>4, <2>5 DEF Start
<1>2. CASE Continue(c)
  <2>1. ASSUME NEW r \in Rows, Create(c, r) PROVE FALSE
    <3>1. call'[c].pc \in {"idle", "approve"}
      BY <2>1, CreateCall
    <3> QED BY <3>1
  <2>2. ASSUME NEW r \in Rows, Purge(c, r) PROVE FALSE
    <3>1. call'[c].pc = call[c].pc
      BY <2>2 DEF Purge, TypeOK, Call
    <3> QED BY <2>2, <3>1 DEF Purge, At
  <2>3. CASE DecidedBefore(c) \/ Refuse(c) \/ Approve(c) \/ SetBankStatus(c) \/ PersonAnonymized(c)
    BY <2>3 DEF DecidedBefore, Refuse, Approve, SetBankStatus, PersonAnonymized, Return, Idle, TypeOK
  <2>4. CASE ListIdentifiers(c)
    BY <2>4 DEF ListIdentifiers, Purging, Idle, TypeOK
  <2>5. CASE Apply(c)
    BY <2>5 DEF Apply
  <2> QED BY <1>2, <2>1, <2>2, <2>3, <2>4, <2>5 DEF Continue
<1>3. CASE Fail(c)
  BY <1>3 DEF Fail, Return, Idle, TypeOK
<1> QED BY <1>1, <1>2, <1>3, OwnSteps

-----------------------------------------------------------------------------
(* One current value *)

(* Inductive: what a handler created before and has not closed yet is on   *)
(* its list of rows to close.                                              *)
OnTheList ==
  \A c \in Calls, r \in Rows :
    /\ call[c].pc = "register" /\ call[c].table # "identifier"
    /\ row[r].open /\ row[r].table = call[c].table /\ row[r].by = c
    => r \in call[c].rows

LEMMA CreateRow ==
  ASSUME TypeOK, Shape, NEW c \in Calls, NEW r \in Rows, Create(c, r)
  PROVE  /\ call[c].pc = "register" /\ call[c].table \in Tables
         /\ row[r] = NoRow /\ \A s \in Rows \ {r} : row'[s] = row[s]
         /\ row'[r].table = call[c].table /\ row'[r].by = c /\ row'[r].for = call[c].for
         /\ call'[c].pc # "register" /\ \A d \in Calls \ {c} : call'[d] = call[d]
<1>1. call[c].pc = "register" /\ call[c].table \in Tables
  BY DEF Create, At, Shape, Fits
<1>2. row[r] = NoRow
  BY DEF Create, Shape
<1>3. row'[r].table = call[c].table /\ row'[r].by = c /\ row'[r].for = call[c].for
  BY DEF Create, TypeOK
<1>4. call'[c].pc # "register" /\ \A d \in Calls \ {c} : call'[d] = call[d]
  BY CreateCall
<1>5. \A s \in Rows \ {r} : row'[s] = row[s]
  BY DEF Create, TypeOK
<1> QED BY <1>1, <1>2, <1>3, <1>4, <1>5

(* The historised tables keep one current value for each handler.          *)
THEOREM OneCurrent == Spec => []OneCurrentPerHandler
<1>1. Init => OnTheList /\ OneCurrentPerHandler
  BY DEF Init, OnTheList, OneCurrentPerHandler, NoRow, Idle
<1>2. TypeOK /\ Shape /\ OnTheList /\ OneCurrentPerHandler /\ [Next]_vars
      => OnTheList' /\ OneCurrentPerHandler'
  <2> SUFFICES ASSUME TypeOK, Shape, OnTheList, OneCurrentPerHandler, [Next]_vars
               PROVE  OnTheList' /\ OneCurrentPerHandler'
    OBVIOUS
  <2>1. ASSUME NEW r \in Rows, row'[r].open, \A c \in Calls : ~Create(c, r)
        PROVE  row[r].open /\ row[r].table = row'[r].table /\ row[r].by = row'[r].by
    BY <2>1, NextRows DEF Kept
  <2>2. ASSUME NEW c \in Calls, NEW r \in Rows,
               call'[c].pc = "register", call'[c].table # "identifier",
               row'[r].open, row'[r].table = call'[c].table, row'[r].by = c
        PROVE  r \in call'[c].rows
    <3>1. \A d \in Calls : ~Create(d, r)
      BY <2>2, CreateRow
    <3>2. row[r].open /\ row[r].table = row'[r].table /\ row[r].by = c
      BY <2>1, <2>2, <3>1
    <3>3. CASE call'[c] = call[c]
      BY <2>2, <3>2, <3>3 DEF OnTheList
    <3>4. ASSUME NEW table \in Tables, Register(c, table), row' = row PROVE r \in call'[c].rows
      BY <2>2, <3>4 DEF Register, Begin, Registering, Open, Listed, Idle, TypeOK
    <3>5. CASE Apply(c) /\ row' = row
      BY <2>2, <3>5 DEF Apply, Registering, Open, Listed, Idle, TypeOK
    <3>6. CASE RegisterSensitiveId(c)
      BY <2>2, <3>6 DEF RegisterSensitiveId, Begin, Idle, TypeOK
    <3>7. ASSUME NEW x \in Rows, Close(c, x) PROVE r \in call'[c].rows
      <4>1. /\ call[c].pc = "register" /\ call'[c].table = call[c].table
            /\ call'[c].rows = call[c].rows \ {x} /\ ~row'[x].open
        BY <3>7 DEF Close, At, TypeOK, Call, Row
      <4> QED BY <2>2, <3>2, <4>1 DEF OnTheList
    <3> QED BY <2>2, <3>3, <3>4, <3>5, <3>6, <3>7, NextRegister
  <2>3. ASSUME NEW c \in Calls, NEW r1 \in Rows, NEW r2 \in Rows, Create(c, r1),
               row'[r1].open, row'[r2].open, row'[r1].table = row'[r2].table,
               row'[r1].table # "identifier", row'[r1].by = row'[r2].by, r1 # r2
        PROVE  FALSE
    <3>1. /\ call[c].pc = "register" /\ row'[r1].table = call[c].table /\ row'[r1].by = c
          /\ row'[r2] = row[r2]
      BY <2>3, CreateRow
    <3>2. r2 \in call[c].rows
      BY <2>3, <3>1 DEF OnTheList
    <3>3. r2 \in ToClose(c)
      BY <2>3, <3>1, <3>2 DEF ToClose
    <3> QED BY <2>3, <3>3 DEF Create
  <2>4. ASSUME NEW r1 \in Rows, NEW r2 \in Rows,
               row'[r1].open, row'[r2].open, row'[r1].table = row'[r2].table,
               row'[r1].table # "identifier", row'[r1].by = row'[r2].by, r1 # r2
        PROVE  FALSE
    <3>1. \A c \in Calls : ~Create(c, r1) /\ ~Create(c, r2)
      BY <2>3, <2>4
    <3> QED BY <2>1, <2>4, <3>1 DEF OneCurrentPerHandler
  <2> QED BY <2>2, <2>4 DEF OnTheList, OneCurrentPerHandler
<1> QED BY <1>1, <1>2, ShapeCorrect, PTL DEF Spec

-----------------------------------------------------------------------------
(* Requests that are applied *)

(* How a handler comes to mark a request, and how it leaves off. *)
LEMMA NextApprove ==
  ASSUME TypeOK, [Next]_vars, NEW c \in Calls, call'[c].pc = "approve"
  PROVE  call'[c] = call[c] \/ \E r \in Rows : Create(c, r)
<1>0. call[c] \in Call
  BY DEF TypeOK
<1>1. CASE Start(c)
  BY <1>1, StartStage
<1>2. CASE Continue(c)
  <2>1. ASSUME NEW r \in Rows, Close(c, r) \/ Purge(c, r) PROVE FALSE
    <3>1. call'[c].pc = call[c].pc
      BY <2>1 DEF Close, Purge, TypeOK, Call
    <3> QED BY <2>1, <3>1 DEF Close, Purge, At
  <2>2. CASE DecidedBefore(c) \/ Refuse(c) \/ Approve(c) \/ SetBankStatus(c) \/ PersonAnonymized(c)
    BY <2>2 DEF DecidedBefore, Refuse, Approve, SetBankStatus, PersonAnonymized, Return, Idle, TypeOK
  <2>3. CASE ListIdentifiers(c)
    BY <2>3 DEF ListIdentifiers, Purging, Idle, TypeOK
  <2>4. CASE Apply(c)
    BY <2>4 DEF Apply, Registering, Idle, TypeOK
  <2> QED BY <1>2, <2>1, <2>2, <2>3, <2>4 DEF Continue
<1>3. CASE Fail(c)
  BY <1>3 DEF Fail, Return, Idle, TypeOK
<1> QED BY <1>1, <1>2, <1>3, OwnSteps

LEMMA ApproveStays ==
  ASSUME TypeOK, [Next]_vars, live, NEW c \in Calls, call[c].pc = "approve"
  PROVE  call'[c] = call[c] \/ Approve(c)
<1>1. CASE Start(c)
  <2>1. call[c] = Idle
    BY <1>1, StartStage
  <2> QED BY <2>1 DEF Idle
<1>2. CASE Continue(c)
  <2>1. ASSUME NEW r \in Rows, Close(c, r) \/ Create(c, r) \/ Purge(c, r) PROVE FALSE
    BY <2>1 DEF Close, Create, Purge, At
  <2>2. CASE DecidedBefore(c) \/ Refuse(c) \/ Apply(c) \/ SetBankStatus(c)
    BY <2>2 DEF DecidedBefore, Refuse, Apply, SetBankStatus, At
  <2>3. CASE ListIdentifiers(c) \/ PersonAnonymized(c)
    BY <2>3 DEF ListIdentifiers, PersonAnonymized, At
  <2> QED BY <1>2, <2>1, <2>2, <2>3 DEF Continue
<1>3. CASE Fail(c)
  BY <1>3 DEF Fail
<1> QED BY <1>1, <1>2, <1>3, OwnSteps

(* How a request changes: it is submitted or decided. *)
LEMMA NextRequest ==
  ASSUME TypeOK, [Next]_vars, NEW q \in Requests, request'[q] # request[q]
  PROVE  \/ request[q] = None /\ request'[q] = "REQUESTED"
         \/ \E c \in Calls : Refuse(c) /\ call[c].for = q
         \/ \E c \in Calls : Approve(c) /\ call[c].for = q
<1> DEFINE Goal == \/ request[q] = None /\ request'[q] = "REQUESTED"
                   \/ \E c \in Calls : Refuse(c) /\ call[c].for = q
                   \/ \E c \in Calls : Approve(c) /\ call[c].for = q
<1>1. ASSUME NEW c \in Calls, Start(c) PROVE FALSE
  BY <1>1, StartStage
<1>2. ASSUME NEW c \in Calls, Continue(c) PROVE Goal
  <2>1. CASE Refuse(c)
    BY <2>1 DEF Refuse, TypeOK
  <2>2. CASE Approve(c)
    BY <2>2 DEF Approve, TypeOK
  <2> QED
    BY <1>2, <2>1, <2>2
       DEF Continue, Close, Create, Purge, DecidedBefore, Apply, SetBankStatus,
           ListIdentifiers, PersonAnonymized
<1>3. ASSUME NEW c \in Calls, Fail(c) PROVE FALSE
  BY <1>3 DEF Fail
<1>4. ASSUME NEW s \in Requests, Submit(s) PROVE Goal
  BY <1>4 DEF Submit, TypeOK
<1>5. CASE UNCHANGED vars
  BY <1>5 DEF vars
<1> QED BY <1>1, <1>2, <1>3, <1>4, <1>5 DEF Next

(* A request that is being marked has a row. *)
MarkingIsApplied ==
  \A c \in Calls : call[c].pc = "approve" => \E r \in Rows : row[r].for = call[c].for

LEMMA ForStays ==
  ASSUME TypeOK, Shape, [Next]_vars, NEW r \in Rows, row[r].for # None
  PROVE  row'[r].for = row[r].for /\ row'[r].by = row[r].by
<1>1. row[r].table # None
  BY DEF Shape, NoRow
<1> QED BY <1>1, RowsStay DEF Kept

(* No request is approved without an address that came of it, whatever     *)
(* decisions overlap, fail or are repeated.                                *)
THEOREM ApprovedApplied == Spec => []ApprovedIsApplied
<1>1. Init => MarkingIsApplied /\ ApprovedIsApplied
  BY DossierAssumption DEF Init, MarkingIsApplied, ApprovedIsApplied, Idle
<1>2. TypeOK /\ Shape /\ MarkingIsApplied /\ ApprovedIsApplied /\ [Next]_vars
      => MarkingIsApplied' /\ ApprovedIsApplied'
  <2> SUFFICES ASSUME TypeOK, Shape, MarkingIsApplied, ApprovedIsApplied, [Next]_vars
               PROVE  MarkingIsApplied' /\ ApprovedIsApplied'
    OBVIOUS
  <2>1. ASSUME NEW q \in Requests, \E r \in Rows : row[r].for = q
        PROVE  \E r \in Rows : row'[r].for = q
    <3>1. PICK r \in Rows : row[r].for = q
      BY <2>1
    <3>2. q # None
      BY DossierAssumption
    <3> QED BY <3>1, <3>2, ForStays
  <2>2. ASSUME NEW c \in Calls, call'[c].pc = "approve"
        PROVE  \E r \in Rows : row'[r].for = call'[c].for
    <3>1. CASE call'[c] = call[c]
      <4>1. call[c].pc = "approve" /\ call[c].for # None
        BY <2>2, <3>1 DEF Shape, Fits
      <4>2. call[c].for \in Requests
        BY <4>1 DEF TypeOK, Call
      <4>3. \E r \in Rows : row[r].for = call[c].for
        BY <4>1 DEF MarkingIsApplied
      <4>4. \E r \in Rows : row'[r].for = call[c].for
        BY <2>1, <4>2, <4>3
      <4> QED BY <3>1, <4>4
    <3>2. ASSUME NEW r \in Rows, Create(c, r) PROVE row'[r].for = call'[c].for
      BY <3>2, CreateRow, CreateCall
    <3> QED BY <2>2, <3>1, <3>2, NextApprove
  <2>3. ASSUME NEW q \in Requests, request'[q] = "APPROVED"
        PROVE  \E r \in Rows : row'[r].for = q
    <3>1. CASE request[q] = "APPROVED"
      BY <2>1, <3>1 DEF ApprovedIsApplied
    <3>2. ASSUME NEW c \in Calls, Approve(c), call[c].for = q PROVE \E r \in Rows : row[r].for = q
      BY <3>2 DEF Approve, At, MarkingIsApplied
    <3>3. ASSUME NEW c \in Calls, Refuse(c), call[c].for = q PROVE request'[q] = "REFUSED"
      BY <3>3 DEF Refuse, TypeOK
    <3>4. CASE request[q] # "APPROVED"
      <4>1. \E c \in Calls : Approve(c) /\ call[c].for = q
        BY <2>3, <3>3, <3>4, NextRequest
      <4> QED BY <2>1, <3>2, <4>1
    <3> QED BY <3>1, <3>4
  <2> QED BY <2>2, <2>3 DEF MarkingIsApplied, ApprovedIsApplied
<1> QED BY <1>1, <1>2, ShapeCorrect, PTL DEF Spec

(* Inductive, over the in-memory store: a request that was applied is      *)
(* approved or about to be so by the very handler that applied it, ...     *)
Settled ==
  \A r \in Rows : row[r].for # None =>
    \/ request[row[r].for] = "APPROVED"
    \/ call[row[r].by].pc = "approve" /\ call[row[r].by].for = row[r].for

(* ... and no handler applies the request a second time. *)
FirstTime ==
  \A c \in Calls, r \in Rows :
    call[c].pc = "register" /\ row[r].for # None /\ row[r].by = c => call[c].for # row[r].for

LEMMA LiveStays == ASSUME [Next]_vars PROVE live' = live
<1>1. ASSUME NEW c \in Calls, Start(c) PROVE live' = live
  BY <1>1 DEF Start, Register, RegisterSensitiveId, AnonymizePerson, Decide, FetchBank
<1>2. ASSUME NEW c \in Calls, Continue(c) PROVE live' = live
  BY <1>2
     DEF Continue, Close, Create, Purge, DecidedBefore, Refuse, Apply, Approve, SetBankStatus,
         ListIdentifiers, PersonAnonymized, At
<1> QED BY <1>1, <1>2 DEF Next, Fail, Submit, vars

LEMMA AppliedStep ==
  ASSUME TypeOK, Shape, [Next]_vars, live, Settled, FirstTime, AppliedOncePerHandler
  PROVE  Settled' /\ FirstTime' /\ AppliedOncePerHandler'
<1>1. ASSUME NEW q \in Requests, request[q] = "APPROVED" PROVE request'[q] = "APPROVED"
  <2>1. ASSUME NEW c \in Calls, Refuse(c), call[c].for = q PROVE FALSE
    BY <1>1, <2>1 DEF Refuse, Asked
  <2>2. ASSUME NEW c \in Calls, Approve(c), call[c].for = q PROVE request'[q] = "APPROVED"
    BY <2>2 DEF Approve, TypeOK
  <2>3. request[q] # None
    BY <1>1, <2>2, DossierAssumption, NextRequest DEF TypeOK
  <2> QED BY <1>1, <2>1, <2>2, <2>3, NextRequest
<1>2. ASSUME NEW r \in Rows, row'[r].for # None
      PROVE  \/ row[r].for = row'[r].for /\ row[r].by = row'[r].by
             \/ \E c \in Calls : Create(c, r)
  BY <1>2, NextRows DEF Kept
<1>3. Settled'
  <2> SUFFICES ASSUME NEW r \in Rows, row'[r].for # None
               PROVE  \/ request'[row'[r].for] = "APPROVED"
                      \/ call'[row'[r].by].pc = "approve" /\ call'[row'[r].by].for = row'[r].for
    BY DEF Settled
  <2>1. ASSUME NEW c \in Calls, Create(c, r)
        PROVE  call'[row'[r].by].pc = "approve" /\ call'[row'[r].by].for = row'[r].for
    BY <2>1, CreateRow, CreateCall
  <2>2. CASE row[r].for = row'[r].for /\ row[r].by = row'[r].by
    <3>1. row[r].for \in Requests /\ row[r].by \in Calls
      BY <2>2 DEF TypeOK, Row, Shape
    <3>2. CASE request[row[r].for] = "APPROVED"
      BY <1>1, <2>2, <3>1, <3>2
    <3>3. CASE call[row[r].by].pc = "approve" /\ call[row[r].by].for = row[r].for
      <4>1. CASE call'[row[r].by] = call[row[r].by]
        BY <2>2, <3>3, <4>1
      <4>2. CASE Approve(row[r].by)
        <5>1. request'[row[r].for] = "APPROVED"
          BY <3>1, <3>3, <4>2 DEF Approve, TypeOK
        <5> QED BY <2>2, <5>1
      <4> QED BY <3>1, <3>3, <4>1, <4>2, ApproveStays
    <3> QED BY <2>2, <3>2, <3>3 DEF Settled
  <2> QED BY <1>2, <2>1, <2>2
<1>4. FirstTime'
  <2> SUFFICES ASSUME NEW c \in Calls, NEW r \in Rows, call'[c].pc = "register",
                      row'[r].for # None, row'[r].by = c, call'[c].for = row'[r].for
               PROVE  FALSE
    BY DEF FirstTime
  <2>1. ASSUME NEW d \in Calls, Create(d, r) PROVE FALSE
    BY <2>1, CreateRow
  <2>2. row[r].for = row'[r].for /\ row[r].by = c
    BY <1>2, <2>1
  <2>3. row[r].for \in Requests
    BY <2>2 DEF TypeOK, Row
  <2>4. CASE call'[c] = call[c]
    BY <2>2, <2>4 DEF FirstTime
  <2>5. ASSUME NEW table \in Tables, Register(c, table) PROVE FALSE
    <3>1. call'[c].for = None
      BY <2>5 DEF Register, Begin, Registering, Idle, TypeOK
    <3> QED BY <3>1
  <2>6. CASE RegisterSensitiveId(c)
    <3>1. call'[c].for = None
      BY <2>6 DEF RegisterSensitiveId, Begin, Idle, TypeOK
    <3> QED BY <3>1
  <2>7. CASE Apply(c)
    <3>1. call'[c].for = call[c].for
      BY <2>7 DEF Apply, Registering, Idle, TypeOK
    <3>2. request[row[r].for] = "REQUESTED" /\ call[c].pc = "decide"
      BY <2>2, <2>7, <3>1 DEF Apply, At, Asked
    <3> QED BY <2>2, <3>2 DEF Settled
  <2>8. ASSUME NEW x \in Rows, Close(c, x) PROVE FALSE
    <3>1. call[c].pc = "register" /\ call'[c].for = call[c].for
      BY <2>8 DEF Close, At, TypeOK, Call
    <3> QED BY <2>2, <3>1 DEF FirstTime
  <2> QED BY <2>4, <2>5, <2>6, <2>7, <2>8, NextRegister
<1>5. AppliedOncePerHandler'
  <2>1. ASSUME NEW r1 \in Rows, NEW r2 \in Rows, NEW c \in Calls, Create(c, r1), r1 # r2,
               row'[r1].for # None, row'[r1].for = row'[r2].for, row'[r1].by = row'[r2].by
        PROVE  FALSE
    <3>1. call[c].pc = "register" /\ row[r2].for = call[c].for /\ row[r2].by = c
      BY <2>1, CreateRow
    <3> QED BY <2>1, <3>1, CreateRow DEF FirstTime
  <2>2. ASSUME NEW r1 \in Rows, NEW r2 \in Rows, r1 # r2,
               row'[r1].for # None, row'[r1].for = row'[r2].for, row'[r1].by = row'[r2].by
        PROVE  FALSE
    <3>1. \A c \in Calls : ~Create(c, r1) /\ ~Create(c, r2)
      BY <2>1, <2>2
    <3> QED BY <1>2, <2>2, <3>1 DEF AppliedOncePerHandler
  <2> QED BY <2>2 DEF AppliedOncePerHandler
<1> QED BY <1>3, <1>4, <1>5

(* Over the in-memory store a request that was applied is approved, or     *)
(* about to be, and no handler applies it twice: with one handler at a time*)
(* it is applied once.                                                     *)
THEOREM AppliedOnce == Spec => [](AppliedIsApproved /\ AppliedOncePerHandler)
<1> DEFINE IInv == live => Settled /\ FirstTime /\ AppliedOncePerHandler
<1>1. Init => IInv
  BY DossierAssumption DEF Init, Settled, FirstTime, AppliedOncePerHandler, NoRow, Idle
<1>2. TypeOK /\ Shape /\ IInv /\ [Next]_vars => IInv'
  BY AppliedStep, LiveStays
<1>3. TypeOK /\ Shape /\ IInv => AppliedIsApproved /\ AppliedOncePerHandler
  BY DEF Settled, AppliedIsApproved, AppliedOncePerHandler, Shape
<1> HIDE DEF IInv
<1> QED BY <1>1, <1>2, <1>3, ShapeCorrect, PTL DEF Spec

(* With any number of handlers and requests no request is approved without *)
(* an address that came of it; in memory an applied one is approved or     *)
(* about to be, and no handler applies it twice (decideChangeRequest).     *)
THEOREM RequestsAreSettled == Spec => []RequestsSettled
<1>1. ApprovedIsApplied /\ AppliedIsApproved /\ AppliedOncePerHandler => RequestsSettled
  BY DEF RequestsSettled
<1> QED BY <1>1, ApprovedApplied, AppliedOnce, PTL

-----------------------------------------------------------------------------
(* Erasing *)

(* What remains to be erased of the rows an anonymising began with: from   *)
(* the table it works on, those on its list; of the accounts, none once it *)
(* is at the identifiers.                                                  *)
Erases(held) ==
  held.pc = "purge" => \A r \in held.before :
    /\ row[r].table \in {"bank", "identifier"}
    /\ row[r].table = held.table => r \in held.rows \/ ~row[r].value
    /\ row[r].table = "bank" /\ held.table = "identifier" => ~row[r].value

LEMMA NextPurge ==
  ASSUME TypeOK, [Next]_vars, NEW c \in Calls, call'[c].pc = "purge"
  PROVE  \/ call'[c] = call[c]
         \/ AnonymizePerson(c) \/ ListIdentifiers(c)
         \/ \E r \in Rows : Purge(c, r)
<1> DEFINE Goal == \/ call'[c] = call[c]
                   \/ AnonymizePerson(c) \/ ListIdentifiers(c)
                   \/ \E r \in Rows : Purge(c, r)
<1>1. CASE Start(c)
  <2>1. ASSUME NEW table \in Tables, Register(c, table) PROVE FALSE
    BY <2>1 DEF Register, Begin, Registering, Idle, TypeOK
  <2>2. CASE RegisterSensitiveId(c)
    BY <2>2 DEF RegisterSensitiveId, Begin, Idle, TypeOK
  <2>3. ASSUME NEW q \in Requests, Decide(c, q) PROVE FALSE
    BY <2>3 DEF Decide, Begin, Idle, TypeOK
  <2>4. ASSUME NEW r \in Rows, FetchBank(c, r) PROVE FALSE
    BY <2>4 DEF FetchBank, Begin, Idle, TypeOK
  <2> QED BY <1>1, <2>1, <2>2, <2>3, <2>4 DEF Start
<1>2. CASE Continue(c)
  <2>1. ASSUME NEW r \in Rows, Create(c, r) PROVE FALSE
    <3>1. call'[c].pc \in {"idle", "approve"}
      BY <2>1, CreateCall
    <3> QED BY <3>1
  <2>2. ASSUME NEW r \in Rows, Close(c, r) PROVE FALSE
    <3>1. call'[c].pc = call[c].pc
      BY <2>2 DEF Close, TypeOK, Call
    <3> QED BY <2>2, <3>1 DEF Close, At
  <2>3. CASE DecidedBefore(c) \/ Refuse(c) \/ Approve(c) \/ SetBankStatus(c) \/ PersonAnonymized(c)
    BY <2>3 DEF DecidedBefore, Refuse, Approve, SetBankStatus, PersonAnonymized, Return, Idle, TypeOK
  <2>4. CASE Apply(c)
    BY <2>4 DEF Apply, Registering, Idle, TypeOK
  <2> QED BY <1>2, <2>1, <2>2, <2>3, <2>4 DEF Continue
<1>3. CASE Fail(c)
  BY <1>3 DEF Fail, Return, Idle, TypeOK
<1> QED BY <1>1, <1>2, <1>3, OwnSteps

LEMMA ErasesStep ==
  ASSUME TypeOK, Shape, [Next]_vars, NEW c \in Calls, Erases(call[c])
  PROVE  Erases(call[c])'
<1> DEFINE ErasesNow(held) ==
  held.pc = "purge" => \A r \in held.before :
    /\ row'[r].table \in {"bank", "identifier"}
    /\ row'[r].table = held.table => r \in held.rows \/ ~row'[r].value
    /\ row'[r].table = "bank" /\ held.table = "identifier" => ~row'[r].value
<1>0. call[c] \in Call /\ call[c].before \subseteq Rows /\ {"bank", "identifier"} \subseteq Tables
  BY DEF TypeOK, Call, Tables
<1>1. ASSUME NEW r \in Rows, row[r].table \in {"bank", "identifier"}
      PROVE  row'[r].table = row[r].table /\ (row'[r].value => row[r].value)
  BY <1>0, <1>1, RowsStay, DossierAssumption DEF Kept
<1>2. ErasesNow(call'[c])
  <2>1. CASE call'[c].pc # "purge"
    BY <2>1
  <2>2. CASE call'[c] = call[c]
    BY <1>0, <1>1, <2>2 DEF Erases
  <2>3. CASE AnonymizePerson(c)
    <3>1. /\ call'[c].table = "bank" /\ call'[c].rows = Listed("bank") /\ row' = row
          /\ call'[c].before = Listed("bank") \cup Listed("identifier")
      BY <2>3 DEF AnonymizePerson, Begin, Purging, Idle, TypeOK
    <3> QED BY <3>1 DEF Listed
  <2>4. CASE ListIdentifiers(c)
    <3>1. /\ call[c].pc = "purge" /\ call[c].table = "bank" /\ call[c].rows = {} /\ row' = row
          /\ call'[c].table = "identifier" /\ call'[c].rows = Listed("identifier")
          /\ call'[c].before = call[c].before
      BY <2>4 DEF ListIdentifiers, At, Purging, Idle, TypeOK
    <3> QED BY <1>0, <3>1 DEF Erases, Listed
  <2>5. ASSUME NEW x \in Rows, Purge(c, x) PROVE ErasesNow(call'[c])
    <3>1. /\ call[c].pc = "purge" /\ call'[c].table = call[c].table
          /\ call'[c].before = call[c].before /\ call'[c].rows = call[c].rows \ {x}
      BY <1>0, <2>5 DEF Purge, At, TypeOK, Call
    <3>2. ~row'[x].value
      BY <2>5 DEF Purge, TypeOK, Row
    <3>3. \A r \in call[c].before :
            row'[r].table = row[r].table /\ (row'[r].value => row[r].value)
      BY <1>0, <1>1, <3>1 DEF Erases
    <3> QED BY <3>1, <3>2, <3>3 DEF Erases
  <2> QED BY <2>1, <2>2, <2>3, <2>4, <2>5, NextPurge
<1> QED BY <1>2 DEF Erases

(* What there was when an anonymising began is erased when it ends, although*)
(* other handlers register, close and move rows on in the meantime.        *)
THEOREM PurgeErases == Spec => []PurgedIsErased
<1> DEFINE IInv == \A c \in Calls : Erases(call[c])
<1>1. Init => IInv
  BY DEF Init, Erases, Idle
<1>2. TypeOK /\ Shape /\ IInv /\ [Next]_vars => IInv'
  BY ErasesStep
<1>3. TypeOK /\ IInv => PurgedIsErased
  BY DEF TypeOK, Call, Erases, Purged, PurgedIsErased
<1> HIDE DEF IInv
<1> QED BY <1>1, <1>2, <1>3, ShapeCorrect, PTL DEF Spec

-----------------------------------------------------------------------------
(* The status of accounts *)

(* Over the in-memory store setBankStatus follows its table, whatever a    *)
(* registration or an anonymising does to the account in the meantime.     *)
THEOREM BankFollowsTable == Spec => BankAdvances
<1> DEFINE Advance == live => \A r \in Rows : row[r].table = "bank" =>
             row'[r].status \in {row[r].status, "REPLACED"} \cup BankTransitions(row[r].status)
<1>1. TypeOK /\ [Next]_vars => Advance
  <2> SUFFICES ASSUME TypeOK, [Next]_vars, live, NEW r \in Rows, row[r].table = "bank"
               PROVE  row'[r].status \in
                        {row[r].status, "REPLACED"} \cup BankTransitions(row[r].status)
    OBVIOUS
  <2> DEFINE Goal == \/ row'[r].status = row[r].status
                     \/ row'[r].status = "REPLACED"
                     \/ row'[r].status \in BankTransitions(row[r].status)
  <2>1. ASSUME NEW c \in Calls, Start(c) PROVE Goal
    BY <2>1, StartStage
  <2>2. ASSUME NEW c \in Calls, Continue(c) PROVE Goal
    <3>1. ASSUME NEW x \in Rows, Close(c, x) PROVE Goal
      BY <3>1 DEF Close, TypeOK, Row
    <3>2. ASSUME NEW x \in Rows, Purge(c, x) PROVE Goal
      BY <3>2 DEF Purge, TypeOK, Row
    <3>3. ASSUME NEW x \in Rows, Create(c, x) PROVE row'[r] = row[r]
      <4>1. x # r
        BY <3>3, DossierAssumption DEF Create, Tables
      <4> QED BY <3>3, <4>1 DEF Create, TypeOK
    <3>4. CASE SetBankStatus(c)
      <4>1. ASSUME NEW to \in Moves(c), row' = [row EXCEPT ![call[c].on].status = to]
            PROVE  Goal
        <5>1. CASE call[c].on = r
          <6>1. row'[r].status = to
            BY <4>1, <5>1 DEF TypeOK, Row
          <6> QED BY <4>1, <5>1, <6>1 DEF Moves
        <5>2. CASE call[c].on # r
          BY <4>1, <5>2 DEF TypeOK
        <5> QED BY <5>1, <5>2
      <4> QED BY <3>4, <4>1 DEF SetBankStatus
    <3> QED
      BY <2>2, <3>1, <3>2, <3>3, <3>4
         DEF Continue, DecidedBefore, Refuse, Apply, Approve, ListIdentifiers, PersonAnonymized
  <2>3. ASSUME NEW c \in Calls, Fail(c) PROVE Goal
    BY <2>3 DEF Fail
  <2>4. ASSUME NEW q \in Requests, Submit(q) PROVE Goal
    BY <2>4 DEF Submit
  <2>5. CASE UNCHANGED vars
    BY <2>5 DEF vars
  <2> QED BY <2>1, <2>2, <2>3, <2>4, <2>5 DEF Next
<1>2. TypeOK /\ [Next]_vars => [Advance]_vars
  BY <1>1
<1>3. [][Advance]_vars <=> BankAdvances
  BY PTL DEF BankAdvances
<1> HIDE DEF Advance
<1> QED BY <1>2, <1>3, TypeCorrect, PTL DEF Spec
=============================================================================
