----------------------------- MODULE VaultProofs -----------------------------
(***************************************************************************)
(* Theorems about the vault, for every number of handlers, documents and   *)
(* days, over either store.                                                *)
(***************************************************************************)
EXTENDS Vault, TLAPS

-----------------------------------------------------------------------------
(* Types *)

(* Who is about one document holds it. *)
Placed == \A c \in Calls : call[c].pc \notin {"idle", "list", "archiveAll"} => call[c].on \in Documents

LEMMA RecordTypes == Blank \in Row /\ Idle \in Call
BY VaultAssumption DEF Blank, Row, Idle, Call, Stages, Unset

LEMMA Moves ==
  ASSUME TypeOK, Placed, NEW c \in Calls
  PROVE  /\ Return(c) => call' \in [Calls -> Call] /\ Placed'
         /\ \A stage \in Stages \ {"idle", "list", "archiveAll"} :
              call[c].on \in Documents /\ Goto(c, stage) => call' \in [Calls -> Call] /\ Placed'
         /\ \A stage \in Stages, d \in Documents, seen \in Row :
              Begin(c, stage, d, seen) => call' \in [Calls -> Call] /\ Placed'
<1>1. Idle \in Call /\ Blank \in Row /\ Idle.pc = "idle" /\ \A o \in Calls : call[o] \in Call
  BY RecordTypes DEF TypeOK, Idle
<1>2. Return(c) => call' \in [Calls -> Call] /\ Placed'
  BY <1>1 DEF Return, TypeOK, Placed
<1>3. ASSUME NEW stage \in Stages \ {"idle", "list", "archiveAll"},
             call[c].on \in Documents, Goto(c, stage)
      PROVE  call' \in [Calls -> Call] /\ Placed'
  <2> DEFINE held == [call[c] EXCEPT !.pc = stage, !.seen = Blank]
  <2>1. held \in Call /\ held.on \in Documents
    BY <1>1, <1>3 DEF Call
  <2>2. call' = [call EXCEPT ![c] = held]
    BY <1>1, <1>3 DEF Goto, TypeOK, Call
  <2> HIDE DEF held
  <2> QED BY <2>1, <2>2 DEF TypeOK, Placed
<1>4. ASSUME NEW stage \in Stages, NEW d \in Documents, NEW seen \in Row, Begin(c, stage, d, seen)
      PROVE  call' \in [Calls -> Call] /\ Placed'
  <2> DEFINE held == [Idle EXCEPT !.pc = stage, !.on = d, !.seen = seen]
  <2>1. held \in Call /\ held.on \in Documents
    BY <1>1 DEF Call, Idle
  <2>2. call' = [call EXCEPT ![c] = held]
    BY <1>4 DEF Begin
  <2> HIDE DEF held
  <2> QED BY <2>1, <2>2 DEF TypeOK, Placed
<1> QED BY <1>2, <1>3, <1>4

LEMMA Updates ==
  ASSUME TypeOK, NEW d \in Documents, NEW new \in Row, Update(d, new)
  PROVE  /\ doc' \in [Documents -> Row]
         /\ \A e \in Documents : doc'[e] = doc[e] \/ (e = d /\ doc[d].row = "present" /\ doc'[e] = new)
BY DEF Update, TypeOK

(* What the handlers that fetch one document write, if they write. *)
Changed(c, stage) ==
  LET r == doc[call[c].on] IN
  CASE stage = "validate" -> [r EXCEPT !.status = "VALIDATED"]
    [] stage = "publish" -> [r EXCEPT !.status = "PUBLISHED"]
    [] stage = "archive" -> [r EXCEPT !.status = "ARCHIVED"]
    [] stage \in {"sign", "signOwn"} -> [r EXCEPT !.signature = "SIGNED", !.status = "SIGNED"]
    [] stage = "hold" -> [r EXCEPT !.hold = TRUE]
    [] stage = "release" -> [r EXCEPT !.hold = FALSE]
    [] stage = "anonymize" -> [r EXCEPT !.attached = @ /\ ~live]

Changes == {"validate", "publish", "archive", "sign", "signOwn", "hold", "release", "anonymize"}

(* The condition under which they write. *)
Passes(c, stage) ==
  CASE stage = "validate" -> Seen(c).signature # "SIGNED"
    [] stage \in {"publish", "archive"} -> TRUE
    [] stage = "sign" -> call[c].on \in challenge
    [] stage = "signOwn" -> Seen(c).signature = "PENDING"
    [] stage \in {"hold", "release", "anonymize"} -> TRUE

Handles(c, stage) ==
  /\ call[c].pc = stage
  /\ \/ UNCHANGED doc
     \/ Passes(c, stage) /\ Update(call[c].on, Changed(c, stage))
  /\ Return(c)
  /\ \/ challenge' = challenge
     \/ stage = "signOwn" /\ Passes(c, stage) /\ challenge' = challenge \cup {call[c].on}
  /\ UNCHANGED <<live, today, blob, requested>>

LEMMA Handling ==
  ASSUME NEW c \in Calls
  PROVE  /\ Validate(c) => Handles(c, "validate")
         /\ Publish(c) => Handles(c, "publish")
         /\ Archive(c) => Handles(c, "archive")
         /\ Sign(c) => Handles(c, "sign")
         /\ SignOwn(c) => Handles(c, "signOwn")
         /\ SetHold(c, "hold", TRUE) => Handles(c, "hold")
         /\ SetHold(c, "release", FALSE) => Handles(c, "release")
         /\ Anonymize(c) => Handles(c, "anonymize")
<1> USE DEF CheckAndUpdate, Handles, Passes, Changed
<1>1. Validate(c) => Handles(c, "validate")
  BY DEF Validate, Transition
<1>2. Publish(c) => Handles(c, "publish")
  BY DEF Publish, Transition
<1>3. Archive(c) => Handles(c, "archive")
  BY DEF Archive, Transition
<1>4. Sign(c) => Handles(c, "sign")
  BY DEF Sign, Signed
<1>5. SignOwn(c) => Handles(c, "signOwn")
  BY DEF SignOwn, Signed
<1>6. SetHold(c, "hold", TRUE) => Handles(c, "hold")
  BY DEF SetHold
<1>7. SetHold(c, "release", FALSE) => Handles(c, "release")
  BY DEF SetHold
<1>8. Anonymize(c) => Handles(c, "anonymize")
  BY DEF Anonymize
<1> QED BY <1>1, <1>2, <1>3, <1>4, <1>5, <1>6, <1>7, <1>8

LEMMA ChangedType ==
  ASSUME TypeOK, NEW c \in Calls, NEW stage \in Changes, call[c].on \in Documents
  PROVE  Changed(c, stage) \in Row
<1>1. doc[call[c].on] \in Row /\ live \in BOOLEAN
  BY DEF TypeOK
<1> QED BY <1>1 DEF Changes, Changed, Row

LEMMA RetentionType ==
  ASSUME TypeOK, NEW basis, NEW given \in {Unset} \cup GivenDates, NEW end \in {Unset} \cup EndDates
  PROVE  RetentionUntil(basis, given, end) \in Unset .. MaxDay + Keep
BY VaultAssumption DEF RetentionUntil, TypeOK, Days, Unset

(* The steps of the vault, those of the eight simple handlers as one. *)
Steps ==
  \/ \E c \in Calls, stage \in Changes : Handles(c, stage)
  \/ \E c \in Calls, d \in Documents, content, hold \in BOOLEAN, until \in Unset .. MaxDay + Keep :
       Deposit(c, d, content, hold, until)
  \/ \E c \in Calls, d \in Documents, stage \in Fetches : Fetch(c, d, stage)
  \/ \E c \in Calls :
       \/ Create(c) \/ RequestSignature(c) \/ IssueChallenge(c)
       \/ Delete(c) \/ DeleteContent(c) \/ DeleteRow(c)
       \/ EmployeeDeparture(c) \/ List(c) \/ (\E d \in Documents : ArchiveNext(c, d))
       \/ ArchivedAll(c) \/ Fail(c)
  \/ Restart \/ NextDay \/ UNCHANGED vars

LEMMA NextSteps == ASSUME TypeOK, [Next]_vars PROVE Steps
<1>1. ASSUME NEW c \in Calls, Continue(c) PROVE Steps
  BY <1>1, Handling DEF Continue, Changes, Steps
<1>2. ASSUME NEW c \in Calls, Start(c) PROVE Steps
  <2>1. \A basis \in {"deposit", "employmentEnd"}, given \in {Unset} \cup GivenDates,
           end \in {Unset} \cup EndDates :
          RetentionUntil(basis, given, end) \in Unset .. MaxDay + Keep
    BY RetentionType
  <2> QED BY <1>2, <2>1 DEF Start, Steps
<1> QED BY <1>1, <1>2 DEF Next, Steps

LEMMA StepTypes == ASSUME TypeOK, Placed, Steps PROVE TypeOK' /\ Placed'
<1>0. /\ \A c \in Calls : call[c] \in Call
      /\ \A c \in Calls : call[c].pc \notin {"idle", "list", "archiveAll"} => call[c].on \in Documents
      /\ \A d \in Documents : doc[d] \in Row
  BY DEF TypeOK, Placed
<1>1. ASSUME NEW c \in Calls, NEW stage \in Changes, Handles(c, stage)
      PROVE  TypeOK' /\ Placed'
  <2>1. call[c].on \in Documents
    BY <1>0, <1>1 DEF Handles, Changes
  <2>2. doc' \in [Documents -> Row]
    BY <1>1, <2>1, ChangedType, Updates DEF Handles, TypeOK
  <2>3. call' \in [Calls -> Call] /\ Placed'
    BY <1>1, Moves DEF Handles
  <2>4. challenge' \subseteq Documents /\ UNCHANGED <<live, today, blob, requested>>
    BY <1>1, <2>1 DEF Handles, TypeOK
  <2> QED BY <2>2, <2>3, <2>4 DEF TypeOK
<1>2. ASSUME NEW c \in Calls, NEW d \in Documents, NEW content \in BOOLEAN, NEW hold \in BOOLEAN,
             NEW until \in Unset .. MaxDay + Keep, Deposit(c, d, content, hold, until)
      PROVE  TypeOK' /\ Placed'
  <2> DEFINE new == [Blank EXCEPT !.row = "present", !.content = content,
                                  !.hold = hold, !.until = until]
  <2>1. new \in Row
    BY RecordTypes DEF Row
  <2>2. Begin(c, "create", d, new) /\ "create" \in Stages
    BY <1>2 DEF Deposit, Stages
  <2> HIDE DEF new
  <2>3. call' \in [Calls -> Call] /\ Placed'
    BY <2>1, <2>2, Moves
  <2> QED BY <1>2, <2>3 DEF Deposit, TypeOK
<1>3. ASSUME NEW c \in Calls, NEW d \in Documents, NEW stage \in Fetches, Fetch(c, d, stage)
      PROVE  TypeOK' /\ Placed'
  <2> DEFINE copy == IF live \/ stage \in {"hold", "release"} THEN Blank ELSE doc[d]
  <2>1. copy \in Row /\ stage \in Stages
    BY <1>0, RecordTypes DEF Fetches, Stages
  <2>2. Begin(c, stage, d, copy)
    BY <1>3 DEF Fetch
  <2> HIDE DEF copy
  <2>3. call' \in [Calls -> Call] /\ Placed'
    BY <2>1, <2>2, Moves
  <2> QED BY <1>3, <2>3 DEF Fetch, TypeOK
<1>4. ASSUME NEW c \in Calls, Create(c) PROVE TypeOK' /\ Placed'
  <2>1. call' \in [Calls -> Call] /\ Placed'
    BY <1>4, Moves DEF Create
  <2>2. doc' \in [Documents -> Row]
    BY <1>0, <1>4 DEF Create, TypeOK, Call
  <2> QED BY <1>4, <2>1, <2>2 DEF Create, TypeOK
<1>5. ASSUME NEW c \in Calls, RequestSignature(c) PROVE TypeOK' /\ Placed'
  <2>1. call[c].on \in Documents
    BY <1>0, <1>5 DEF RequestSignature
  <2>2. [doc[call[c].on] EXCEPT !.signature = "PENDING"] \in Row
    BY <1>0, <2>1 DEF Row
  <2>3. doc' \in [Documents -> Row]
    BY <1>5, <2>1, <2>2, Updates DEF RequestSignature, TypeOK
  <2>4. call' \in [Calls -> Call] /\ Placed'
    BY <1>5, <2>1, Moves DEF RequestSignature, Stages
  <2>5. requested' \subseteq Documents /\ UNCHANGED <<live, today, blob, challenge>>
    BY <1>5, <2>1 DEF RequestSignature, TypeOK
  <2> QED BY <2>3, <2>4, <2>5 DEF TypeOK
<1>6. ASSUME NEW c \in Calls, IssueChallenge(c) PROVE TypeOK' /\ Placed'
  <2>1. call' \in [Calls -> Call] /\ Placed'
    BY <1>6, Moves DEF IssueChallenge
  <2>2. challenge' \subseteq Documents
    BY <1>0, <1>6 DEF IssueChallenge, TypeOK
  <2> QED BY <1>6, <2>1, <2>2 DEF IssueChallenge, TypeOK
<1>7. ASSUME NEW c \in Calls, Delete(c) \/ DeleteContent(c) PROVE TypeOK' /\ Placed'
  <2>1. call[c].on \in Documents
    BY <1>0, <1>7 DEF Delete, DeleteContent
  <2>2. call' \in [Calls -> Call] /\ Placed'
    BY <1>7, <2>1, Moves DEF Delete, DeleteContent, Stages
  <2>3. blob' \subseteq Documents /\ UNCHANGED <<live, today, challenge, requested>>
    BY <1>7 DEF Delete, DeleteContent, TypeOK
  <2>4. [doc[call[c].on] EXCEPT !.row = "deleted"] \in Row
    BY <1>0, <2>1 DEF Row
  <2>5. doc' \in [Documents -> Row]
    BY <1>7, <2>1, <2>4, Updates DEF Delete, DeleteContent, Remove, TypeOK
  <2> QED BY <2>2, <2>3, <2>5 DEF TypeOK
<1>8. ASSUME NEW c \in Calls, DeleteRow(c) PROVE TypeOK' /\ Placed'
  <2>1. call[c].on \in Documents
    BY <1>0, <1>8 DEF DeleteRow
  <2>2. [doc[call[c].on] EXCEPT !.row = "deleted"] \in Row
    BY <1>0, <2>1 DEF Row
  <2>3. doc' \in [Documents -> Row]
    BY <1>8, <2>1, <2>2, Updates DEF DeleteRow, Remove
  <2>4. call' \in [Calls -> Call] /\ Placed'
    BY <1>8, Moves DEF DeleteRow
  <2> QED BY <1>8, <2>3, <2>4 DEF DeleteRow, TypeOK
<1>9. ASSUME NEW c \in Calls, EmployeeDeparture(c) PROVE TypeOK' /\ Placed'
  <2>1. call' = [call EXCEPT ![c].pc = "list"]
    BY <1>9 DEF EmployeeDeparture
  <2>2. call' \in [Calls -> Call] /\ Placed'
    BY <1>0, <2>1 DEF TypeOK, Placed, Call, Stages
  <2> QED BY <1>9, <2>2 DEF EmployeeDeparture, TypeOK
<1>10. ASSUME NEW c \in Calls, List(c) PROVE TypeOK' /\ Placed'
  <2> DEFINE found == {d \in Owned : live \/ doc[d].status # "ARCHIVED"}
             held == [call[c] EXCEPT !.pc = "archiveAll", !.listed = found]
  <2>1. found \subseteq Documents
    BY DEF Owned
  <2>2. held \in Call /\ held.pc = "archiveAll"
    BY <1>0, <2>1 DEF Call, Stages
  <2>3. call' = [call EXCEPT ![c] = held]
    BY <1>0, <1>10 DEF List, Call
  <2> HIDE DEF held
  <2>4. call' \in [Calls -> Call] /\ Placed'
    BY <2>2, <2>3 DEF TypeOK, Placed
  <2> QED BY <1>10, <2>4 DEF List, TypeOK
<1>11. ASSUME NEW c \in Calls, NEW d \in Documents, ArchiveNext(c, d) PROVE TypeOK' /\ Placed'
  <2>1. [doc[d] EXCEPT !.status = "ARCHIVED"] \in Row
    BY <1>0 DEF Row
  <2>2. doc' \in [Documents -> Row]
    BY <1>11, <2>1, Updates DEF ArchiveNext
  <2>3. call' = [call EXCEPT ![c].listed = @ \ {d}]
    BY <1>11 DEF ArchiveNext
  <2>4. call' \in [Calls -> Call] /\ Placed'
    BY <1>0, <2>3 DEF TypeOK, Placed, Call
  <2> QED BY <1>11, <2>2, <2>4 DEF ArchiveNext, TypeOK
<1>12. ASSUME NEW c \in Calls, ArchivedAll(c) \/ Fail(c) PROVE TypeOK' /\ Placed'
  BY <1>12, Moves DEF ArchivedAll, Fail, TypeOK
<1>13. CASE Restart
  BY <1>13, RecordTypes DEF Restart, TypeOK, Placed, Idle
<1>14. CASE NextDay
  BY <1>14, VaultAssumption DEF NextDay, TypeOK, Placed, Days
<1>15. CASE UNCHANGED vars
  BY <1>15 DEF vars, TypeOK, Placed
<1> QED BY <1>1, <1>2, <1>3, <1>4, <1>5, <1>6, <1>7, <1>8, <1>9, <1>10, <1>11, <1>12,
           <1>13, <1>14, <1>15 DEF Steps

(* Every field of the vault keeps its type, and every handler in flight    *)
(* about one document of the register has it in hand.                      *)
THEOREM TypeCorrect == Spec => [](TypeOK /\ Placed)
<1>1. Init => TypeOK /\ Placed
  BY RecordTypes, VaultAssumption DEF Init, TypeOK, Placed, Days, Idle
<1>2. TypeOK /\ Placed /\ [Next]_vars => TypeOK' /\ Placed'
  BY NextSteps, StepTypes
<1> QED BY <1>1, <1>2, PTL DEF Spec

-----------------------------------------------------------------------------
(* What a step does to one handler, to one row and to the two other stores *)

LEMMA OneHandler ==
  ASSUME TypeOK, NEW c \in Calls
  PROVE  /\ Return(c) => call'[c] = Idle /\ \A o \in Calls \ {c} : call'[o] = call[o]
         /\ \A stage : Goto(c, stage) =>
              /\ call'[c].pc = stage /\ call'[c].on = call[c].on /\ call'[c].seen = Blank
              /\ \A o \in Calls \ {c} : call'[o] = call[o]
         /\ \A stage, d, seen : Begin(c, stage, d, seen) =>
              /\ call'[c].pc = stage /\ call'[c].on = d /\ call'[c].seen = seen
              /\ \A o \in Calls \ {c} : call'[o] = call[o]
<1>1. call[c] \in Call /\ call \in [Calls -> Call]
  BY DEF TypeOK
<1> QED BY <1>1 DEF Return, Goto, Begin, Idle, Call

(* A handler begins a deposit: the document is new and nobody is about it. *)
Deposits(c) ==
  LET new == call'[c] IN
  /\ new.pc = "create" /\ new.on \in Documents /\ doc[new.on].row = "absent"
  /\ \A o \in Calls : call[o].on # new.on
  /\ \A o \in Calls \ {c} : call'[o] = call[o]
  /\ new.seen.row = "present" /\ new.seen.signature = "NONE"
  /\ new.seen.content => new.on \in blob'
  /\ doc' = doc

(* It fetches a row, and keeps a copy of it over the database. *)
FetchesRow(c) ==
  LET new == call'[c] IN
  /\ new.pc \in Fetches /\ new.on \in Documents /\ doc[new.on].row = "present" /\ doc' = doc
  /\ new.seen = Blank \/ new.seen = doc[new.on]
  /\ ~live /\ new.pc = "delete" => new.seen = doc[new.on]

(* It goes on with the document it has. *)
GoesOn(c) ==
  LET new == call'[c] IN
  /\ new.on = call[c].on /\ new.seen = Blank
  /\ \/ new.pc = "issue" /\ new.on \in requested'
     \/ call[c].pc = "delete" /\ new.pc = "deleteContent" /\ MayDelete(c)
     \/ call[c].pc = "deleteContent" /\ new.pc = "deleteRow"

(* It lists or archives the documents of a person who leaves. *)
Archives(c) ==
  call'[c].pc \in {"list", "archiveAll"} /\ call'[c].on = call[c].on /\ call'[c].seen = call[c].seen

Moved(c) ==
  \/ call'[c] = call[c] \/ call'[c] = Idle
  \/ Deposits(c) \/ FetchesRow(c) \/ GoesOn(c) \/ Archives(c)

LEMMA NextCalls == ASSUME TypeOK, Placed, Steps, NEW o \in Calls PROVE Moved(o)
<1>0. call[o] \in Call /\ call \in [Calls -> Call]
  BY DEF TypeOK
<1>1. ASSUME NEW c \in Calls, Return(c) PROVE Moved(o)
  BY <1>1, OneHandler DEF Moved
<1>2. ASSUME NEW c \in Calls, NEW d \in Documents, NEW content \in BOOLEAN, NEW hold \in BOOLEAN,
             NEW until \in Unset .. MaxDay + Keep, Deposit(c, d, content, hold, until)
      PROVE  Moved(o)
  <2> DEFINE new == [Blank EXCEPT !.row = "present", !.content = content,
                                  !.hold = hold, !.until = until]
  <2>1. new.row = "present" /\ new.signature = "NONE" /\ new.content = content
    BY DEF Blank
  <2>2. Begin(c, "create", d, new)
    BY <1>2 DEF Deposit
  <2> HIDE DEF new
  <2>3. call'[c].pc = "create" /\ call'[c].on = d /\ call'[c].seen = new
        /\ \A p \in Calls \ {c} : call'[p] = call[p]
    BY <2>2, OneHandler
  <2>4. Deposits(c)
    BY <1>2, <2>1, <2>3 DEF Deposit, Deposits
  <2> QED BY <2>3, <2>4 DEF Moved
<1>3. ASSUME NEW c \in Calls, NEW d \in Documents, NEW stage \in Fetches, Fetch(c, d, stage)
      PROVE  Moved(o)
  <2> DEFINE copy == IF live \/ stage \in {"hold", "release"} THEN Blank ELSE doc[d]
  <2>1. Begin(c, stage, d, copy)
    BY <1>3 DEF Fetch
  <2>2. call'[c].pc = stage /\ call'[c].on = d /\ call'[c].seen = copy
        /\ \A p \in Calls \ {c} : call'[p] = call[p]
    BY <2>1, OneHandler
  <2>3. FetchesRow(c)
    BY <1>3, <2>2 DEF Fetch, FetchesRow
  <2> QED BY <2>2, <2>3 DEF Moved
<1>4. ASSUME NEW c \in Calls, RequestSignature(c) PROVE Moved(o)
  <2>1. CASE Goto(c, "issue") /\ call[c].on \in requested'
    BY <2>1, OneHandler DEF Moved, GoesOn
  <2>2. CASE Return(c)
    BY <2>2, <1>1
  <2> QED BY <1>4, <2>1, <2>2 DEF RequestSignature
<1>5. ASSUME NEW c \in Calls, Delete(c) \/ DeleteContent(c) PROVE Moved(o)
  <2>1. CASE Delete(c) /\ MayDelete(c) /\ Goto(c, "deleteContent")
    <3>1. call'[c].pc = "deleteContent" /\ call'[c].on = call[c].on /\ call'[c].seen = Blank
          /\ \A p \in Calls \ {c} : call'[p] = call[p]
      BY <2>1, OneHandler
    <3> QED BY <2>1, <3>1 DEF Delete, Moved, GoesOn
  <2>2. CASE Delete(c) /\ Return(c)
    BY <2>2, <1>1
  <2>3. CASE DeleteContent(c)
    <3>1. call'[c].pc = "deleteRow" /\ call'[c].on = call[c].on /\ call'[c].seen = Blank
          /\ \A p \in Calls \ {c} : call'[p] = call[p]
      BY <2>3, OneHandler DEF DeleteContent
    <3> QED BY <2>3, <3>1 DEF DeleteContent, Moved, GoesOn
  <2> QED BY <1>5, <2>1, <2>2, <2>3 DEF Delete
<1>6. ASSUME NEW c \in Calls, EmployeeDeparture(c) \/ List(c) \/ \E d \in Documents : ArchiveNext(c, d)
      PROVE  Moved(o)
  <2>1. CASE EmployeeDeparture(c)
    BY <1>0, <2>1 DEF EmployeeDeparture, Moved, Archives, Call
  <2>2. CASE List(c)
    BY <1>0, <2>2 DEF List, Moved, Archives, Call
  <2>3. ASSUME NEW d \in Documents, ArchiveNext(c, d) PROVE Moved(o)
    BY <1>0, <2>3 DEF ArchiveNext, Moved, Archives, Call
  <2> QED BY <1>6, <2>1, <2>2, <2>3
<1>7. CASE Restart
  BY <1>7 DEF Restart, Moved
<1>8. CASE NextDay \/ UNCHANGED vars
  BY <1>8 DEF NextDay, vars, Moved
<1> QED BY <1>1, <1>2, <1>3, <1>4, <1>5, <1>6, <1>7, <1>8
        DEF Steps, Handles, Create, IssueChallenge, DeleteRow, ArchivedAll, Fail

(* Somebody asked for a signature of the document. *)
Asked(d) ==
  \/ d \in challenge \/ doc[d].signature = "PENDING"
  \/ \E c \in Calls : call[c].on = d /\ call[c].seen.signature = "PENDING"

(* A row is inserted, and its deposit returns. *)
Inserted(d) ==
  \E c \in Calls : /\ call[c].pc = "create" /\ call[c].on = d
                   /\ doc'[d] = call[c].seen /\ blob' = blob /\ call'[c] = Idle

(* A row is written again. *)
Rewritten(d) ==
  /\ doc[d].row = "present"
  /\ doc'[d].row \in {"present", "deleted"}
  /\ doc'[d].row = "deleted" =>
       \E c \in Calls : /\ call[c].on = d
                        /\ call[c].pc = "deleteRow" \/ (call[c].pc = "delete" /\ MayDelete(c))
  /\ doc'[d].until = doc[d].until /\ doc'[d].content = doc[d].content
  /\ \/ doc'[d].signature = doc[d].signature
     \/ doc'[d].signature = "PENDING" /\ d \in requested' /\ (live => doc[d].signature # "SIGNED")
     \/ doc'[d].signature = "SIGNED" /\ Asked(d)
  /\ live /\ doc[d].signature = "SIGNED" =>
       doc'[d].status \in {doc[d].status, "SIGNED", "PUBLISHED", "ARCHIVED"}

LEMMA NextRows ==
  ASSUME TypeOK, Placed, Steps, NEW d \in Documents
  PROVE  doc'[d] = doc[d] \/ Inserted(d) \/ Rewritten(d)
<1>0. /\ \A c \in Calls : call[c] \in Call
      /\ \A c \in Calls : call[c].pc \notin {"idle", "list", "archiveAll"} => call[c].on \in Documents
      /\ doc[d] \in Row /\ doc \in [Documents -> Row] /\ live \in BOOLEAN
  BY DEF TypeOK, Placed
<1>1. ASSUME NEW c \in Calls, NEW stage \in Changes, Handles(c, stage)
      PROVE  doc'[d] = doc[d] \/ Rewritten(d)
  <2>1. call[c].on \in Documents
    BY <1>0, <1>1 DEF Handles, Changes
  <2>2. Changed(c, stage) \in Row
    BY <2>1, ChangedType
  <2>3. CASE UNCHANGED doc
    BY <2>3
  <2>4. CASE Passes(c, stage) /\ Update(call[c].on, Changed(c, stage))
    <3>1. doc'[d] = doc[d] \/ (d = call[c].on /\ doc[d].row = "present" /\ doc'[d] = Changed(c, stage))
      BY <2>1, <2>2, <2>4, Updates
    <3>2. ASSUME d = call[c].on, doc[d].row = "present", doc'[d] = Changed(c, stage)
          PROVE  Rewritten(d)
      <4>1. CASE stage = "validate"
        BY <1>0, <2>4, <3>2, <4>1 DEF Changed, Passes, Rewritten, Row, Seen
      <4>2. CASE stage \in {"publish", "archive", "hold", "release", "anonymize"}
        BY <1>0, <3>2, <4>2 DEF Changed, Rewritten, Row
      <4>3. CASE stage \in {"sign", "signOwn"}
        <5>1. Asked(d)
          BY <2>4, <3>2, <4>3 DEF Passes, Asked, Seen
        <5> QED BY <1>0, <3>2, <4>3, <5>1 DEF Changed, Rewritten, Row
      <4> QED BY <4>1, <4>2, <4>3 DEF Changes
    <3> QED BY <3>1, <3>2
  <2> QED BY <1>1, <2>3, <2>4 DEF Handles
<1>2. ASSUME NEW c \in Calls, Create(c) PROVE doc'[d] = doc[d] \/ Inserted(d)
  BY <1>0, <1>2, OneHandler DEF Create, Inserted
<1>3. ASSUME NEW c \in Calls, RequestSignature(c) PROVE doc'[d] = doc[d] \/ Rewritten(d)
  <2>1. call[c].on \in Documents
    BY <1>0, <1>3 DEF RequestSignature
  <2> DEFINE new == [doc[call[c].on] EXCEPT !.signature = "PENDING"]
  <2>2. new \in Row
    BY <1>0, <2>1 DEF Row
  <2>3. CASE UNCHANGED doc
    BY <2>3
  <2>4. CASE Seen(c).signature # "SIGNED" /\ Update(call[c].on, new) /\ requested' = requested \cup {call[c].on}
    <3>1. doc'[d] = doc[d] \/ (d = call[c].on /\ doc[d].row = "present" /\ doc'[d] = new)
      BY <2>1, <2>2, <2>4, Updates
    <3> QED BY <1>0, <2>4, <3>1 DEF Rewritten, Row, Seen
  <2> QED BY <1>3, <2>3, <2>4 DEF RequestSignature
<1>4. ASSUME NEW c \in Calls, Delete(c) \/ DeleteRow(c) PROVE doc'[d] = doc[d] \/ Rewritten(d)
  <2>1. call[c].on \in Documents
    BY <1>0, <1>4 DEF Delete, DeleteRow
  <2> DEFINE new == [doc[call[c].on] EXCEPT !.row = "deleted"]
  <2>2. new \in Row
    BY <1>0, <2>1 DEF Row
  <2>3. CASE UNCHANGED doc
    BY <2>3
  <2>4. CASE /\ Update(call[c].on, new)
             /\ call[c].pc = "deleteRow" \/ (call[c].pc = "delete" /\ MayDelete(c))
    <3>1. doc'[d] = doc[d] \/ (d = call[c].on /\ doc[d].row = "present" /\ doc'[d] = new)
      BY <2>1, <2>2, <2>4, Updates
    <3> QED BY <1>0, <2>4, <3>1 DEF Rewritten, Row
  <2> QED BY <1>4, <2>3, <2>4 DEF Delete, DeleteRow, Remove
<1>5. ASSUME NEW c \in Calls, NEW e \in Documents, ArchiveNext(c, e)
      PROVE  doc'[d] = doc[d] \/ Rewritten(d)
  <2> DEFINE new == [doc[e] EXCEPT !.status = "ARCHIVED"]
  <2>1. new \in Row
    BY <1>0 DEF Row
  <2>2. doc'[d] = doc[d] \/ (d = e /\ doc[d].row = "present" /\ doc'[d] = new)
    BY <1>5, <2>1, Updates DEF ArchiveNext
  <2> QED BY <1>0, <2>2 DEF Rewritten, Row
<1>6. ASSUME UNCHANGED doc PROVE doc'[d] = doc[d]
  BY <1>6
<1> QED BY <1>1, <1>2, <1>3, <1>4, <1>5, <1>6
        DEF Steps, Deposit, Fetch, IssueChallenge, DeleteContent, EmployeeDeparture,
            List, ArchivedAll, Fail, Restart, NextDay, vars

LEMMA NextStores ==
  ASSUME TypeOK, Placed, Steps
  PROVE  /\ live' = live /\ today' >= today /\ requested \subseteq requested'
         /\ \A d \in challenge' \ challenge :
              Asked(d) \/ \E c \in Calls : call[c].pc = "issue" /\ call[c].on = d
         /\ \A d \in blob \ blob' : /\ doc' = doc
                                    /\ \E c \in Calls :
                                         /\ call[c].pc = "deleteContent" /\ call[c].on = d
                                         /\ call'[c].pc = "deleteRow" /\ call'[c].on = d
<1> DEFINE Issued(d) == \E c \in Calls : call[c].pc = "issue" /\ call[c].on = d
           Same == /\ live' = live /\ today' >= today /\ requested \subseteq requested'
                   /\ \A d \in challenge' \ challenge : Asked(d) \/ Issued(d)
<1>0. today \in Int
  BY DEF TypeOK, Days
<1>1. ASSUME NEW c \in Calls, NEW stage \in Changes, Handles(c, stage) PROVE Same /\ blob' = blob
  <2>1. stage = "signOwn" /\ Passes(c, stage) => Asked(call[c].on)
    BY DEF Passes, Asked, Seen
  <2> QED BY <1>0, <1>1, <2>1 DEF Handles
<1>2. ASSUME NEW c \in Calls, DeleteContent(c)
      PROVE  Same /\ \A d \in blob \ blob' : /\ doc' = doc
                                             /\ call[c].pc = "deleteContent" /\ call[c].on = d
                                             /\ call'[c].pc = "deleteRow" /\ call'[c].on = d
  BY <1>0, <1>2, OneHandler DEF DeleteContent
<1>3. ASSUME NEW c \in Calls, IssueChallenge(c) PROVE Same /\ blob' = blob
  BY <1>0, <1>3 DEF IssueChallenge
<1>4. ASSUME UNCHANGED <<live, today, challenge>>, requested \subseteq requested', blob \subseteq blob'
      PROVE  Same /\ blob \subseteq blob'
  BY <1>0, <1>4
<1>5. CASE Restart \/ NextDay
  BY <1>0, <1>5 DEF Restart, NextDay
<1> QED BY <1>1, <1>2, <1>3, <1>4, <1>5
        DEF Steps, Create, Deposit, Fetch, RequestSignature, Delete, DeleteRow, EmployeeDeparture,
            List, ArchiveNext, ArchivedAll, Fail, vars

-----------------------------------------------------------------------------
(* Shape *)

(* Who inserts a document is alone with it; what was never inserted is     *)
(* blank.                                                                  *)
Fresh ==
  \A c \in Calls : call[c].pc = "create" =>
    /\ doc[call[c].on].row = "absent" /\ call[c].seen.row = "present"
    /\ call[c].seen.signature = "NONE"
    /\ \A o \in Calls \ {c} : call[o].on # call[c].on

Unused == \A d \in Documents : doc[d].row = "absent" => doc[d] = Blank

Shape == TypeOK /\ Placed /\ Fresh /\ Unused

LEMMA ShapeHolds == Spec => []Shape
<1>1. Init => Fresh /\ Unused
  BY DEF Init, Fresh, Unused, Idle
<1>2. TypeOK /\ Placed /\ Fresh /\ Unused /\ [Next]_vars => Fresh' /\ Unused'
  <2> SUFFICES ASSUME TypeOK, Placed, Fresh, Unused, Steps PROVE Fresh' /\ Unused'
    BY NextSteps
  <2>1. ASSUME NEW d \in Documents, doc'[d].row = "absent" PROVE doc'[d] = Blank
    <3>1. CASE Inserted(d)
      BY <2>1, <3>1 DEF Inserted, Fresh
    <3> QED BY <2>1, <3>1, NextRows DEF Unused, Rewritten
  <2>2. ASSUME NEW c \in Calls, call'[c].pc = "create"
        PROVE  /\ doc'[call'[c].on].row = "absent" /\ call'[c].seen.row = "present"
               /\ call'[c].seen.signature = "NONE"
               /\ \A o \in Calls \ {c} : call'[o].on # call'[c].on
    <3>0. Moved(c) /\ \A o \in Calls : Moved(o)
      BY NextCalls
    <3>1. CASE Deposits(c)
      BY <3>1 DEF Deposits
    <3>2. CASE call'[c] = call[c]
      <4> DEFINE d == call[c].on
      <4>1. d \in Documents /\ doc[d].row = "absent" /\ \A o \in Calls \ {c} : call[o].on # d
        BY <2>2, <3>2 DEF Fresh, Placed
      <4>2. d # None
        BY <4>1, VaultAssumption
      <4>3. ASSUME NEW o \in Calls \ {c} PROVE call'[o].on # d
        BY <3>0, <4>1, <4>2, <4>3 DEF Moved, Deposits, FetchesRow, GoesOn, Archives, Idle
      <4>4. ~Rewritten(d)
        BY <4>1 DEF Rewritten
      <4>5. ~Inserted(d)
        BY <2>2, <3>2, <4>1 DEF Inserted, Idle
      <4> QED BY <2>2, <3>2, <4>1, <4>3, <4>4, <4>5, NextRows DEF Fresh
    <3> QED BY <2>2, <3>0, <3>1, <3>2 DEF Moved, FetchesRow, Fetches, GoesOn, Archives, Idle
  <2> QED BY <2>1, <2>2 DEF Fresh, Unused
<1> QED BY <1>1, <1>2, TypeCorrect, PTL DEF Spec, Shape

-----------------------------------------------------------------------------
(* Signatures *)

(* Whatever bears the mark of a signature, in the register, in the copy of *)
(* a handler or among the challenges, was requested.                       *)
Requested ==
  /\ \A d \in Documents : doc[d].signature # "NONE" => d \in requested
  /\ challenge \subseteq requested
  /\ \A c \in Calls :
       /\ call[c].seen.signature # "NONE" => call[c].on \in requested
       /\ call[c].pc = "issue" => call[c].on \in requested

(* Nothing is signed that no signature was requested for, by signDocument, *)
(* which needs a challenge, or by signOwnDocument, which needs a pending   *)
(* row: over either store, and across restarts that forget the challenges. *)
THEOREM SignaturesAreRequested == Spec => []SignedOnRequest
<1>1. Init => Requested
  BY DEF Init, Requested, Blank, Idle
<1>2. Shape /\ Requested /\ [Next]_vars => Requested'
  <2> SUFFICES ASSUME Shape, Requested, Steps PROVE Requested'
    BY NextSteps DEF Shape
  <2>0. requested \subseteq requested'
    BY NextStores DEF Shape
  <2>1. ASSUME NEW d \in Documents, Asked(d) PROVE d \in requested
    BY <2>1 DEF Asked, Requested
  <2>2. ASSUME NEW d \in Documents, doc'[d].signature # "NONE" PROVE d \in requested'
    <3>1. CASE Inserted(d)
      BY <2>2, <3>1 DEF Inserted, Shape, Fresh
    <3> QED BY <2>0, <2>1, <2>2, <3>1, NextRows DEF Rewritten, Requested, Shape
  <2>3. challenge' \subseteq requested'
    <3>1. challenge' \subseteq Documents
      BY StepTypes DEF Shape, TypeOK
    <3>2. \A d \in challenge' \ challenge :
            Asked(d) \/ \E c \in Calls : call[c].pc = "issue" /\ call[c].on = d
      BY NextStores DEF Shape
    <3> QED BY <2>0, <2>1, <3>1, <3>2 DEF Requested
  <2>4. ASSUME NEW c \in Calls
        PROVE  /\ call'[c].seen.signature # "NONE" => call'[c].on \in requested'
               /\ call'[c].pc = "issue" => call'[c].on \in requested'
    <3>1. Moved(c)
      BY NextCalls DEF Shape
    <3>2. CASE call'[c] = call[c] \/ Archives(c)
      BY <2>0, <3>2 DEF Archives, Requested
    <3>3. CASE call'[c] = Idle \/ Deposits(c)
      BY <3>3 DEF Deposits, Idle, Blank
    <3>4. CASE FetchesRow(c)
      BY <2>0, <3>4 DEF FetchesRow, Fetches, Requested, Blank
    <3>5. CASE GoesOn(c)
      BY <3>5 DEF GoesOn, Blank
    <3> QED BY <3>1, <3>2, <3>3, <3>4, <3>5 DEF Moved
  <2> QED BY <2>2, <2>3, <2>4 DEF Requested
<1>3. Requested => SignedOnRequest
  BY DEF Requested, SignedOnRequest
<1> QED BY <1>1, <1>2, <1>3, ShapeHolds, PTL DEF Spec

(* Over the in-memory store a signature is final, and no overlap of a      *)
(* transition, a request or a second signature takes the document back.    *)
THEOREM SignaturesAreFinal == Spec => SignedIsFinal
<1>1. Shape /\ [Next]_vars =>
        [\A d \in Documents :
           live /\ doc[d].signature = "SIGNED" =>
             /\ doc'[d].signature = "SIGNED"
             /\ doc[d].status \in {"SIGNED", "PUBLISHED", "ARCHIVED"} =>
                  doc'[d].status \in {"SIGNED", "PUBLISHED", "ARCHIVED"}]_vars
  <2> SUFFICES ASSUME Shape, Steps, NEW d \in Documents, live, doc[d].signature = "SIGNED"
               PROVE  /\ doc'[d].signature = "SIGNED"
                      /\ doc[d].status \in {"SIGNED", "PUBLISHED", "ARCHIVED"} =>
                           doc'[d].status \in {"SIGNED", "PUBLISHED", "ARCHIVED"}
    BY NextSteps DEF Shape
  <2>1. ~Inserted(d)
    BY DEF Inserted, Shape, Fresh, Unused, Blank
  <2> QED BY <2>1, NextRows DEF Rewritten, Shape
<1> QED BY <1>1, ShapeHolds, PTL DEF Spec, SignedIsFinal

-----------------------------------------------------------------------------
(* Retention and content *)

(* A handler that has passed the check of deleteDocument has a document    *)
(* whose retention has expired; one that is about to check has a copy that *)
(* is right about it.                                                      *)
Overdue(d) == doc[d].row # "absent" /\ doc[d].until # Unset /\ doc[d].until < today

ExpiredFor(c) ==
  /\ call[c].pc \in {"deleteContent", "deleteRow"} => Overdue(call[c].on)
  /\ call[c].pc = "delete" => /\ doc[call[c].on].row # "absent"
                              /\ ~live => call[c].seen.until = doc[call[c].on].until

Expired == \A c \in Calls : ExpiredFor(c)

(* What deleteDocument tests is right about the document it is about.      *)
LEMMA CheckedIsOverdue ==
  ASSUME NEW c \in Calls, ExpiredFor(c), call[c].pc = "delete", MayDelete(c)
  PROVE  Overdue(call[c].on)
BY DEF MayDelete, Seen, ExpiredFor, Overdue

LEMMA ExpiredHolds == Spec => []Expired
<1>1. Init => Expired
  BY DEF Init, Expired, ExpiredFor, Idle
<1>2. Shape /\ Expired /\ [Next]_vars => Expired'
  <2> SUFFICES ASSUME Shape, Expired, Steps, NEW c \in Calls PROVE ExpiredFor(c)'
    BY NextSteps DEF Shape, Expired
  <2>0. live' = live /\ today' >= today /\ today \in Int /\ today' \in Int
    BY NextStores, StepTypes DEF Shape, TypeOK, Days
  <2>1. ASSUME NEW d \in Documents, doc[d].row # "absent"
        PROVE  /\ doc'[d].row # "absent" /\ doc'[d].until = doc[d].until
               /\ Overdue(d) => Overdue(d)'
    <3>1. doc[d].until \in Int
      BY VaultAssumption DEF Shape, TypeOK, Row, Unset
    <3>2. ~Inserted(d)
      BY <2>1 DEF Inserted, Shape, Fresh
    <3> QED BY <2>0, <2>1, <3>1, <3>2, NextRows DEF Rewritten, Shape, Overdue
  <2>2. Moved(c) /\ ExpiredFor(c)
    BY NextCalls DEF Shape, Expired
  <2>3. call[c].pc \notin {"idle", "list", "archiveAll"} => call[c].on \in Documents
    BY DEF Shape, Placed
  <2>4. CASE call'[c] = call[c]
    BY <2>0, <2>1, <2>2, <2>3, <2>4 DEF ExpiredFor, Overdue
  <2>5. CASE call'[c] = Idle \/ Deposits(c) \/ Archives(c)
    BY <2>5 DEF Deposits, Archives, ExpiredFor, Idle
  <2>6. CASE FetchesRow(c)
    BY <2>0, <2>6 DEF FetchesRow, Fetches, ExpiredFor
  <2>7. CASE GoesOn(c)
    <3>1. CASE call[c].pc = "delete" /\ MayDelete(c)
      <4>1. Overdue(call[c].on)
        BY <2>2, <3>1, CheckedIsOverdue
      <4> QED BY <2>1, <2>3, <2>7, <3>1, <4>1 DEF GoesOn, ExpiredFor, Overdue
    <3>2. CASE call[c].pc = "deleteContent"
      BY <2>1, <2>2, <2>3, <2>7, <3>2 DEF GoesOn, ExpiredFor, Overdue
    <3> QED BY <2>7, <3>1, <3>2 DEF GoesOn, ExpiredFor
  <2> QED BY <2>2, <2>4, <2>5, <2>6, <2>7 DEF Moved
<1> QED BY <1>1, <1>2, ShapeHolds, PTL DEF Spec

(* No row and no content goes before its retention has expired: a handler  *)
(* that waits between the check of deleteDocument and its writes waits for *)
(* nothing that could bring the date back.                                 *)
THEOREM DeletionsAreExpired == Spec => DeletedIsExpired
<1>1. Shape /\ Expired /\ [Next]_vars =>
        [\A d \in Documents :
           \/ doc[d].row = "present" /\ doc'[d].row = "deleted"
           \/ d \in blob /\ d \notin blob'
           => doc[d].until # Unset /\ doc[d].until < today]_vars
  <2> SUFFICES ASSUME Shape, Expired, Steps, NEW d \in Documents,
                      \/ doc[d].row = "present" /\ doc'[d].row = "deleted"
                      \/ d \in blob /\ d \notin blob'
               PROVE  Overdue(d)
    BY NextSteps DEF Shape, Overdue
  <2>1. CASE doc[d].row = "present" /\ doc'[d].row = "deleted"
    <3>1. ~Inserted(d)
      BY <2>1 DEF Inserted, Shape, Fresh
    <3>2. PICK c \in Calls : /\ call[c].on = d
                             /\ call[c].pc = "deleteRow" \/ (call[c].pc = "delete" /\ MayDelete(c))
      BY <2>1, <3>1, NextRows DEF Rewritten, Shape
    <3> QED BY <3>2, CheckedIsOverdue DEF Expired, ExpiredFor
  <2>2. CASE d \in blob /\ d \notin blob'
    BY <2>2, NextStores DEF Shape, Expired, ExpiredFor
  <2> QED BY <2>1, <2>2
<1> QED BY <1>1, ShapeHolds, ExpiredHolds, PTL DEF Spec, DeletedIsExpired

(* In memory a deletion that has reached its row ends by removing it. *)
LEMMA DeletionEnds ==
  ASSUME TypeOK, Placed, Steps, live, NEW c \in Calls, call[c].pc = "deleteRow"
  PROVE  call'[c] = call[c] \/ doc'[call[c].on].row # "present"
<1>0. call[c] \in Call /\ call \in [Calls -> Call] /\ call[c] # Idle /\ call[c].on \in Documents
  BY DEF TypeOK, Placed, Idle
<1>1. ASSUME NEW o \in Calls, call[o].pc # "deleteRow" \/ call[o] = Idle,
             \A p \in Calls \ {o} : call'[p] = call[p]
      PROVE  call'[c] = call[c]
  BY <1>0, <1>1
<1>2. ASSUME NEW o \in Calls, DeleteRow(o) PROVE call'[c] = call[c] \/ doc'[call[c].on].row # "present"
  <2>1. CASE o = c
    <3>1. doc \in [Documents -> Row] /\ doc[call[c].on] \in Row
      BY <1>0 DEF TypeOK
    <3>2. Update(call[c].on, [doc[call[c].on] EXCEPT !.row = "deleted"])
      BY <1>2, <2>1 DEF DeleteRow, Remove
    <3>3. [doc[call[c].on] EXCEPT !.row = "deleted"].row = "deleted"
      BY <3>1 DEF Row
    <3> QED BY <1>0, <3>1, <3>2, <3>3 DEF Update
  <2>2. CASE o # c
    BY <1>2, <2>2, OneHandler DEF DeleteRow
  <2> QED BY <2>1, <2>2
<1>3. ASSUME NEW o \in Calls, NEW stage \in Changes, Handles(o, stage) PROVE call'[c] = call[c]
  BY <1>1, <1>3, OneHandler DEF Handles, Changes
<1>4. ASSUME NEW o \in Calls, NEW d \in Documents, NEW stage, NEW seen, Begin(o, stage, d, seen)
      PROVE  call'[c] = call[c]
  BY <1>1, <1>4, OneHandler DEF Begin
<1>5. ASSUME NEW o \in Calls, call[o].pc # "deleteRow", Return(o) PROVE call'[c] = call[c]
  BY <1>1, <1>5, OneHandler
<1>6. ASSUME NEW o \in Calls, call[o].pc # "deleteRow", NEW stage, Goto(o, stage)
      PROVE  call'[c] = call[c]
  BY <1>1, <1>6, OneHandler
<1>7. ASSUME NEW o \in Calls, RequestSignature(o) \/ Delete(o) \/ DeleteContent(o)
      PROVE  call'[c] = call[c]
  BY <1>7, <1>5, <1>6 DEF RequestSignature, Delete, DeleteContent
<1>8. ASSUME NEW o \in Calls, EmployeeDeparture(o) \/ List(o) \/ \E d \in Documents : ArchiveNext(o, d)
      PROVE  call'[c] = call[c]
  BY <1>0, <1>8 DEF EmployeeDeparture, List, ArchiveNext
<1>9. ASSUME NEW o \in Calls, Create(o) \/ IssueChallenge(o) \/ ArchivedAll(o) PROVE call'[c] = call[c]
  BY <1>9, <1>5 DEF Create, IssueChallenge, ArchivedAll
<1>10. ASSUME UNCHANGED call PROVE call'[c] = call[c]
  BY <1>10
<1> QED BY <1>2, <1>3, <1>4, <1>7, <1>8, <1>9, <1>10
        DEF Steps, Deposit, Fetch, Fail, Restart, NextDay, vars

(* A deposit that is about to insert its row has stored the content. *)
Stored == \A c \in Calls : call[c].pc = "create" /\ call[c].seen.content => call[c].on \in blob

(* Over the in-memory store what the register lists can be downloaded, but *)
(* for a document whose deletion is one step from its end.                 *)
THEOREM ContentFollowsRow == Spec => []ContentIsKept
<1> DEFINE Inv == live => Stored /\ ContentIsKept
<1>1. Init => Inv
  BY DEF Init, Stored, ContentIsKept, Idle, Blank
<1>2. Shape /\ Inv /\ [Next]_vars => Inv'
  <2> SUFFICES ASSUME Shape, Stored, ContentIsKept, Steps, live PROVE Stored' /\ ContentIsKept'
    BY NextSteps, NextStores DEF Shape
  <2>1. ASSUME NEW d \in blob \ blob'
        PROVE  /\ doc' = doc
               /\ \E c \in Calls : /\ call[c].pc = "deleteContent" /\ call[c].on = d
                                   /\ call'[c].pc = "deleteRow" /\ call'[c].on = d
    BY NextStores DEF Shape
  <2>2. ASSUME NEW c \in Calls, call'[c].pc = "create", call'[c].seen.content
        PROVE  call'[c].on \in blob'
    <3>1. Moved(c)
      BY NextCalls DEF Shape
    <3>2. CASE call'[c] = call[c]
      <4>1. call[c].on \in blob
        BY <2>2, <3>2 DEF Stored
      <4>2. call[c].on \notin blob \ blob'
        BY <2>1, <2>2, <3>2 DEF Shape, Fresh
      <4> QED BY <3>2, <4>1, <4>2
    <3> QED BY <2>2, <3>1, <3>2
            DEF Moved, Deposits, FetchesRow, Fetches, GoesOn, Archives, Idle
  <2>3. ASSUME NEW d \in Documents, doc'[d].row = "present", doc'[d].content
        PROVE  d \in blob' \/ \E c \in Calls : call'[c].pc = "deleteRow" /\ call'[c].on = d
    <3>1. CASE d \in blob
      BY <2>1, <3>1
    <3>2. CASE d \notin blob /\ ~Inserted(d)
      <4>1. doc[d].row = "present" /\ doc[d].content
        BY <2>3, <3>2, NextRows DEF Rewritten, Shape
      <4>2. PICK c \in Calls : call[c].pc = "deleteRow" /\ call[c].on = d
        BY <3>2, <4>1 DEF ContentIsKept
      <4>3. call'[c] = call[c]
        BY <2>3, <4>2, DeletionEnds DEF Shape
      <4> QED BY <4>2, <4>3
    <3>3. CASE Inserted(d)
      BY <2>3, <3>3 DEF Inserted, Stored
    <3> QED BY <3>1, <3>2, <3>3
  <2> QED BY <2>2, <2>3, NextStores DEF Stored, ContentIsKept
<1>3. Inv => ContentIsKept
  BY DEF ContentIsKept
<1> QED BY <1>1, <1>2, <1>3, ShapeHolds, PTL DEF Spec
=============================================================================
