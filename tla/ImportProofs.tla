---------------------------- MODULE ImportProofs ----------------------------
(***************************************************************************)
(* Theorems about the import of collaborators, for every number of         *)
(* handlers and persons, every file and either store.                      *)
(***************************************************************************)
EXTENDS Import, FiniteSetTheorems, SequenceTheorems, TLAPS

-----------------------------------------------------------------------------
(* Types *)

(* What a handler holds at each stage: the rows of a report that are not   *)
(* rejected can be imported, and no two of those to import are of the same *)
(* person.                                                                 *)
HeldFor(c) ==
  LET rows == 1 .. Len(call[c].file) IN
  /\ call[c].pc \in {"hire", "employment"} =>
       /\ Len(call[c].report) = Len(call[c].file)
       /\ \A i \in rows : call[c].report[i] # "rejected" => ~Hard(call[c].file[i])
       /\ \A i, j \in rows :
            /\ call[c].report[i] = "toImport" /\ call[c].report[j] = "toImport"
            /\ IdentityOf(call[c].file[i]) = IdentityOf(call[c].file[j])
            => i = j
  /\ call[c].pc = "employment" => call[c].on \in Persons
  /\ call[c].pc # "employment" => call[c].on = None
  /\ call[c].pc = "person" => call[c].who \in Identity

Typed == TypeOK /\ \A c \in Calls : HeldFor(c)

LEMMA IdleType == Idle \in Call /\ Idle.pc = "idle" /\ Idle.on = None
BY DEF Idle, Call, Stages

LEMMA FileType ==
  ASSUME NEW f \in Files \cup {<< >>}
  PROVE  f \in Seq(Row) /\ Len(f) \in Nat /\ \A i \in 1 .. Len(f) : f[i] \in Row
<1>1. << >> \in Seq(Row)
  OBVIOUS
<1>2. f \in Seq(Row)
  BY <1>1, ImportAssumption
<1> QED BY <1>2

LEMMA IdentityType ==
  ASSUME NEW r \in Row, ~Hard(r)
  PROVE  IdentityOf(r) \in Identity
BY DEF Row, Hard, IdentityOf, Identity, Births

LEMMA IdentityIsSomebody == NoPerson \notin Identity
BY ImportAssumption DEF NoPerson, Identity

(* What classify makes of a file.                                          *)
LEMMA Classified ==
  ASSUME NEW f \in Files \cup {<< >>}, NEW known
  PROVE  LET report == classify(f, known) IN
         /\ report \in Seq(RowStatus) /\ Len(report) = Len(f)
         /\ \A i \in 1 .. Len(f) :
              /\ report[i] # "imported"
              /\ report[i] # "rejected" => ~Hard(f[i])
              /\ report[i] = "skipped" => isExisting(f[i])
              /\ report[i] = "toImport" => ~isExisting(f[i]) /\ ~Seen(f, i)
              /\ ~Hard(f[i]) /\ isExisting(f[i]) => report[i] = "skipped"
<1> DEFINE report == classify(f, known)
           status(i) ==
             CASE Hard(f[i]) -> "rejected"
               [] ~Hard(f[i]) /\ isExisting(f[i]) -> "skipped"
               [] /\ ~Hard(f[i]) /\ ~isExisting(f[i])
                  /\ Seen(f, i) \/ Soft(f[i], known) -> "review"
               [] OTHER -> "toImport"
<1>1. report = [i \in 1 .. Len(f) |-> status(i)]
  BY DEF classify
<1>2. \A i \in 1 .. Len(f) :
        /\ status(i) \in RowStatus \ {"imported"}
        /\ status(i) # "rejected" => ~Hard(f[i])
        /\ status(i) = "skipped" => isExisting(f[i])
        /\ status(i) = "toImport" => ~isExisting(f[i]) /\ ~Seen(f, i)
        /\ ~Hard(f[i]) /\ isExisting(f[i]) => status(i) = "skipped"
  BY DEF RowStatus
<1>3. Len(f) \in Nat
  BY FileType
<1> HIDE DEF report, status
<1>4. report \in Seq(RowStatus) /\ Len(report) = Len(f)
  BY <1>1, <1>2, <1>3
<1>5. \A i \in 1 .. Len(f) : report[i] = status(i)
  BY <1>1
<1>6. /\ report \in Seq(RowStatus) /\ Len(report) = Len(f)
      /\ \A i \in 1 .. Len(f) :
           /\ report[i] # "imported"
           /\ report[i] # "rejected" => ~Hard(f[i])
           /\ report[i] = "skipped" => isExisting(f[i])
           /\ report[i] = "toImport" => ~isExisting(f[i]) /\ ~Seen(f, i)
           /\ ~Hard(f[i]) /\ isExisting(f[i]) => report[i] = "skipped"
  BY <1>2, <1>4, <1>5
<1> QED BY <1>6 DEF report

-----------------------------------------------------------------------------
(* What a step does *)

Becomes(c, held) == held \in Call /\ call' = [call EXCEPT ![c] = held]

(* Nothing is stored.                                                      *)
Stays == person' = person /\ byHand' = byHand /\ hired' = hired

(* A handler begins: an import with its file, or, when there is no         *)
(* duplicate, the creation of a person.                                    *)
Begins(c, held) ==
  /\ Stays /\ call[c] = Idle /\ Becomes(c, held)
  /\ held.on = None
  /\ \/ held.pc = "preview"
     \/ held.pc = "person" /\ held.who \in Identity /\ Duplicates(held.who) = {}

(* The rows are classified.                                                *)
Previews(c, held) ==
  /\ Stays /\ call[c].pc = "preview" /\ Becomes(c, held)
  /\ held.pc = "hire" /\ held.on = None /\ held.file = call[c].file
  /\ held.report = classify(call[c].file, call[c].known)

(* The person of a row is created.                                         *)
Hires(c, p, i, held) ==
  /\ call[c].pc = "hire" /\ i \in 1 .. Len(call[c].file) /\ call[c].report[i] = "toImport"
  /\ person[p] = NoPerson
  /\ person' = [person EXCEPT ![p] = IdentityOf(call[c].file[i])]
  /\ byHand' = byHand /\ hired' = hired
  /\ Becomes(c, held)
  /\ held.pc = "employment" /\ held.on = p /\ held.file = call[c].file
  /\ held.report = [call[c].report EXCEPT ![i] = "imported"]

(* Then the employment.                                                    *)
Employs(c, held) ==
  /\ call[c].pc = "employment"
  /\ person' = person /\ byHand' = byHand /\ hired' = hired \cup {call[c].on}
  /\ Becomes(c, held)
  /\ held.pc = "hire" /\ held.on = None /\ held.file = call[c].file
  /\ held.report = call[c].report

(* A handler ends: an import that is through, or, over the database, one   *)
(* that fails.                                                             *)
Ends(c) ==
  /\ Stays /\ Becomes(c, Idle)
  /\ live => call[c].pc = "hire"

(* A person is created by hand.                                            *)
Creates(c, p) ==
  /\ call[c].pc = "person" /\ person[p] = NoPerson
  /\ person' = [person EXCEPT ![p] = call[c].who]
  /\ byHand' = byHand \cup {p} /\ hired' = hired
  /\ Becomes(c, Idle)

(* The forms a step can take.                                              *)
Steps ==
  /\ live' = live /\ sirets' \subseteq Sirets
  /\ \/ Stays /\ call' = call
     \/ \E c \in Calls, held \in Call : Begins(c, held) \/ Previews(c, held) \/ Employs(c, held)
     \/ \E c \in Calls, p \in Persons, held \in Call :
          \E i \in 1 .. Len(call[c].file) : Hires(c, p, i, held)
     \/ \E c \in Calls : Ends(c) \/ \E p \in Persons : Creates(c, p)

LEMMA NextStep == Typed /\ [Next]_vars => Steps
<1> SUFFICES ASSUME Typed, [Next]_vars PROVE Steps
  OBVIOUS
<1>0. /\ \A c \in Calls : call[c] \in Call /\ HeldFor(c)
      /\ sirets \subseteq Sirets
  BY DEF Typed, TypeOK
<1>1. ASSUME NEW c \in Calls, Preview(c) PROVE Steps
  <2> DEFINE report == classify(call[c].file, call[c].known)
             held == [call[c] EXCEPT !.pc = "hire", !.known = {}, !.bytes = << >>, !.report = report]
  <2>1. report \in Seq(RowStatus)
    BY <1>0, Classified DEF Call
  <2>2. call[c].pc = "preview" /\ call' = [call EXCEPT ![c] = held] /\ UNCHANGED <<live, sirets>> /\ Stays
    BY <1>1 DEF Preview, At, Update, Stays
  <2> HIDE DEF report
  <2>3. held \in Call /\ held.pc = "hire" /\ held.on = call[c].on /\ held.file = call[c].file
        /\ held.report = report
    <3>1. call[c] \in Call
      BY <1>0
    <3> QED BY <2>1, <3>1 DEF Call, Stages
  <2> HIDE DEF held
  <2>4. Previews(c, held)
    BY <1>0, <2>2, <2>3 DEF Previews, Becomes, HeldFor, report
  <2> QED BY <1>0, <2>2, <2>3, <2>4 DEF Steps
<1>2. ASSUME NEW c \in Calls, HireEmployment(c) PROVE Steps
  <2> DEFINE held == [call[c] EXCEPT !.pc = "hire", !.on = None]
  <2>1. /\ call[c].pc = "employment" /\ call' = [call EXCEPT ![c] = held] /\ UNCHANGED <<live, sirets>>
        /\ person' = person /\ byHand' = byHand /\ hired' = hired \cup {call[c].on}
    BY <1>2 DEF HireEmployment, At, Update
  <2>2. held \in Call /\ held.pc = "hire" /\ held.on = None /\ held.file = call[c].file
        /\ held.report = call[c].report
    <3>1. call[c] \in Call
      BY <1>0
    <3> QED BY <3>1 DEF Call, Stages
  <2> HIDE DEF held
  <2>3. Employs(c, held)
    BY <2>1, <2>2 DEF Employs, Becomes
  <2> QED BY <1>0, <2>1, <2>2, <2>3 DEF Steps
<1>3. ASSUME NEW c \in Calls, Imported(c) \/ Fail(c) PROVE Steps
  <2>1. Ends(c) /\ live' = live /\ sirets' = sirets
    BY <1>3, IdleType DEF Imported, Fail, At, Return, Update, Ends, Becomes, Stays
  <2> QED BY <1>0, <2>1 DEF Steps
<1>4. ASSUME NEW c \in Calls, NEW p \in Persons, HirePerson(c, p) PROVE Steps
  <2>1. PICK i \in ToImport(c) :
          /\ At(c, "hire") /\ CreateRow(p, IdentityOf(call[c].file[i]))
          /\ Update(c, [call[c] EXCEPT !.pc = "employment", !.on = p, !.report[i] = "imported"])
          /\ UNCHANGED <<byHand, hired>>
    BY <1>4 DEF HirePerson
  <2> DEFINE report == [call[c].report EXCEPT ![i] = "imported"]
             held == [call[c] EXCEPT !.pc = "employment", !.on = p, !.report = report]
  <2>2. call[c].pc = "hire"
    BY <2>1 DEF At
  <2>3. i \in 1 .. Len(call[c].file) /\ call[c].report[i] = "toImport"
        /\ i \in 1 .. Len(call[c].report) /\ call[c].report \in Seq(RowStatus)
    BY <1>0, <2>2 DEF ToImport, HeldFor, Call
  <2>4. report \in Seq(RowStatus)
    BY <2>3 DEF RowStatus
  <2>5. call' = [call EXCEPT ![c] = held]
    BY <2>1 DEF Update
  <2> HIDE DEF report
  <2>6. held \in Call /\ held.pc = "employment" /\ held.on = p /\ held.file = call[c].file
        /\ held.report = report
    <3>1. call[c] \in Call
      BY <1>0
    <3> QED BY <2>4, <3>1 DEF Call, Stages
  <2> HIDE DEF held
  <2>7. Hires(c, p, i, held) /\ live' = live /\ sirets' = sirets
    BY <2>1, <2>2, <2>3, <2>5, <2>6 DEF Hires, Becomes, At, CreateRow, report
  <2> QED BY <1>0, <2>3, <2>6, <2>7 DEF Steps
<1>5. ASSUME NEW c \in Calls, NEW p \in Persons, CreatePerson(c, p) PROVE Steps
  <2>1. Creates(c, p) /\ live' = live /\ sirets' = sirets
    BY <1>5, IdleType DEF CreatePerson, At, CreateRow, Return, Update, Creates, Becomes
  <2> QED BY <1>0, <2>1 DEF Steps
<1>6. ASSUME NEW c \in Calls, NEW f \in Files, NEW buf \in Buffers, Upload(c, f, buf) PROVE Steps
  <2> DEFINE held == [Idle EXCEPT !.pc = "preview", !.file = f, !.bytes = buf, !.known = sirets]
  <2>1. held \in Call /\ held.pc = "preview" /\ held.on = None
    BY <1>0, IdleType DEF Call, Idle, Stages
  <2>2. call[c] = Idle /\ call' = [call EXCEPT ![c] = held] /\ Stays /\ UNCHANGED <<live, sirets>>
    BY <1>6 DEF Upload, Update, Stays
  <2> HIDE DEF held
  <2>3. Begins(c, held)
    BY <2>1, <2>2 DEF Begins, Becomes
  <2> QED BY <1>0, <2>1, <2>2, <2>3 DEF Steps
<1>7. ASSUME NEW c \in Calls, NEW f \in Files, NEW i \in 1 .. Len(f), ~Hard(f[i]),
             FindDuplicates(c, IdentityOf(f[i]))
      PROVE  Steps
  <2> DEFINE who == IdentityOf(f[i])
             held == [Idle EXCEPT !.pc = "person", !.who = who]
  <2>1. who \in Identity
    BY <1>7, FileType, IdentityType
  <2>2. call[c] = Idle /\ call' = [call EXCEPT ![c] = held] /\ Stays /\ UNCHANGED <<live, sirets>>
        /\ Duplicates(who) = {}
    BY <1>7 DEF FindDuplicates, Update, Stays
  <2> HIDE DEF who
  <2>3. held \in Call /\ held.pc = "person" /\ held.on = None /\ held.who = who
    BY <2>1, IdleType DEF Call, Idle, Stages
  <2> HIDE DEF held
  <2>4. Begins(c, held)
    BY <2>1, <2>2, <2>3 DEF Begins, Becomes
  <2> QED BY <1>0, <2>2, <2>3, <2>4 DEF Steps
<1>8. ASSUME NEW x \in Sirets, CreateEstablishment(x) PROVE Steps
  BY <1>0, <1>8 DEF CreateEstablishment, Steps, Stays
<1>9. ASSUME UNCHANGED vars PROVE Steps
  BY <1>0, <1>9 DEF vars, Steps, Stays
<1> HIDE DEF Steps
<1> QED BY <1>1, <1>2, <1>3, <1>4, <1>5, <1>6, <1>7, <1>8, <1>9 DEF Next, Continue

LEMMA InitTyped == Init => Typed
BY ImportAssumption, IdleType DEF Init, Typed, TypeOK, HeldFor

LEMMA StepTyped == Typed /\ Steps => Typed'
<1> SUFFICES ASSUME Typed, Steps PROVE Typed'
  OBVIOUS
<1>0. /\ live \in BOOLEAN /\ person \in [Persons -> Identity \cup {NoPerson}]
      /\ byHand \subseteq Persons /\ hired \subseteq Persons /\ call \in [Calls -> Call]
      /\ \A c \in Calls : call[c] \in Call /\ HeldFor(c)
      /\ live' = live /\ sirets' \subseteq Sirets
  BY DEF Typed, TypeOK, Steps
<1>a. ASSUME person' \in [Persons -> Identity \cup {NoPerson}],
             byHand' \subseteq Persons, hired' \subseteq Persons,
             NEW c \in Calls, NEW held, Becomes(c, held), HeldFor(c)'
      PROVE  Typed'
  <2>1. call' \in [Calls -> Call] /\ \A d \in Calls \ {c} : call'[d] = call[d]
    BY <1>0, <1>a DEF Becomes
  <2>2. \A d \in Calls : HeldFor(d)'
    BY <1>0, <1>a, <2>1 DEF HeldFor
  <2> QED BY <1>0, <1>a, <2>1, <2>2 DEF Typed, TypeOK
<1>b. ASSUME NEW c \in Calls, NEW held, Becomes(c, held) PROVE call'[c] = held /\ held \in Call
  BY <1>0, <1>b DEF Becomes
<1>c. Stays => /\ person' \in [Persons -> Identity \cup {NoPerson}]
               /\ byHand' \subseteq Persons /\ hired' \subseteq Persons
  BY <1>0 DEF Stays
<1>1. CASE Stays /\ call' = call
  <2>1. \A d \in Calls : HeldFor(d)'
    BY <1>0, <1>1 DEF HeldFor
  <2> QED BY <1>0, <1>1, <1>c, <2>1 DEF Typed, TypeOK
<1>2. ASSUME NEW c \in Calls, NEW held \in Call, Begins(c, held) PROVE Typed'
  <2>1. Becomes(c, held) /\ Stays
    BY <1>2 DEF Begins
  <2>2. HeldFor(c)'
    BY <1>2, <1>b, <2>1 DEF Begins, HeldFor
  <2> QED BY <2>1, <2>2, <1>a, <1>c
<1>3. ASSUME NEW c \in Calls, NEW held \in Call, Previews(c, held) PROVE Typed'
  <2> DEFINE f == call[c].file
  <2>1. Becomes(c, held) /\ Stays /\ held.pc = "hire" /\ held.on = None /\ held.file = f
        /\ held.report = classify(f, call[c].known)
    BY <1>3 DEF Previews
  <2>2. f \in Files \cup {<< >>}
    BY <1>0 DEF Call
  <2> HIDE DEF f
  <2>3. /\ Len(held.report) = Len(f)
        /\ \A i \in 1 .. Len(f) : /\ held.report[i] # "rejected" => ~Hard(f[i])
                                  /\ held.report[i] = "toImport" => ~Seen(f, i)
    BY <2>1, <2>2, Classified
  <2>4. ASSUME NEW i \in 1 .. Len(f), NEW j \in 1 .. Len(f),
               held.report[i] = "toImport", held.report[j] = "toImport",
               IdentityOf(f[i]) = IdentityOf(f[j])
        PROVE  i = j
    <3>1. ~Hard(f[i]) /\ ~Hard(f[j]) /\ ~Seen(f, i) /\ ~Seen(f, j)
      BY <2>3, <2>4
    <3>2. dupKey(f[i]) = dupKey(f[j])
      BY <2>4 DEF IdentityOf, dupKey
    <3>3. Len(f) \in Nat
      BY <2>2, FileType
    <3>4. ~(j \in 1 .. i - 1) /\ ~(i \in 1 .. j - 1)
      BY <3>1, <3>2 DEF Seen
    <3> QED BY <3>3, <3>4
  <2>5. call'[c] = held
    BY <1>b, <2>1
  <2>6. HeldFor(c)'
    BY <2>1, <2>3, <2>4, <2>5 DEF HeldFor
  <2> QED BY <2>1, <2>6, <1>a, <1>c
<1>4. ASSUME NEW c \in Calls, NEW held \in Call, Employs(c, held) PROVE Typed'
  <2>1. Becomes(c, held) /\ call'[c] = held
    BY <1>4, <1>b DEF Employs
  <2>2. HeldFor(c)'
    BY <1>0, <1>4, <2>1 DEF Employs, HeldFor
  <2>3. /\ person' \in [Persons -> Identity \cup {NoPerson}]
        /\ byHand' \subseteq Persons /\ hired' \subseteq Persons
    BY <1>0, <1>4 DEF Employs, HeldFor
  <2> QED BY <2>1, <2>2, <2>3, <1>a
<1>5. ASSUME NEW c \in Calls, NEW p \in Persons, NEW held \in Call,
             NEW i \in 1 .. Len(call[c].file), Hires(c, p, i, held)
      PROVE  Typed'
  <2> DEFINE f == call[c].file
             old == call[c].report
  <2>1. /\ Becomes(c, held) /\ call'[c] = held /\ held.file = f /\ held.pc = "employment" /\ held.on = p
        /\ held.report = [old EXCEPT ![i] = "imported"] /\ old[i] = "toImport"
    BY <1>5, <1>b DEF Hires
  <2>2. f \in Files \cup {<< >>} /\ old \in Seq(RowStatus)
    BY <1>0 DEF Call
  <2>3. /\ Len(old) = Len(f)
        /\ \A k \in 1 .. Len(f) : old[k] # "rejected" => ~Hard(f[k])
        /\ \A k, j \in 1 .. Len(f) :
             old[k] = "toImport" /\ old[j] = "toImport" /\ IdentityOf(f[k]) = IdentityOf(f[j]) => k = j
    <3>1. HeldFor(c) /\ call[c].pc = "hire"
      BY <1>0, <1>5 DEF Hires
    <3> QED BY <3>1 DEF HeldFor
  <2> HIDE DEF f, old
  <2>4. /\ Len(held.report) = Len(f)
        /\ \A k \in 1 .. Len(f) : held.report[k] = IF k = i THEN "imported" ELSE old[k]
    BY <2>1, <2>2, <2>3
  <2>5. i \in 1 .. Len(f)
    BY DEF f
  <2>6. HeldFor(c)'
    BY <2>1, <2>3, <2>4, <2>5 DEF HeldFor
  <2>7. f[i] \in Row /\ ~Hard(f[i])
    BY <2>1, <2>2, <2>3, <2>5, FileType
  <2>8. IdentityOf(f[i]) \in Identity
    BY <2>7, IdentityType
  <2>9. /\ person' \in [Persons -> Identity \cup {NoPerson}]
        /\ byHand' \subseteq Persons /\ hired' \subseteq Persons
    BY <1>0, <1>5, <2>8 DEF Hires, f
  <2> QED BY <2>1, <2>6, <2>9, <1>a
<1>6. ASSUME NEW c \in Calls, Ends(c) PROVE Typed'
  <2>1. Becomes(c, Idle) /\ Stays /\ HeldFor(c)'
    BY <1>6, <1>b, IdleType DEF Ends, HeldFor
  <2> QED BY <2>1, <1>a, <1>c
<1>7. ASSUME NEW c \in Calls, NEW p \in Persons, Creates(c, p) PROVE Typed'
  <2>1. Becomes(c, Idle) /\ HeldFor(c)'
    BY <1>7, <1>b, IdleType DEF Creates, HeldFor
  <2>2. /\ person' \in [Persons -> Identity \cup {NoPerson}]
        /\ byHand' \subseteq Persons /\ hired' \subseteq Persons
    BY <1>0, <1>7 DEF Creates, HeldFor
  <2> QED BY <2>1, <2>2, <1>a
<1> QED BY <1>1, <1>2, <1>3, <1>4, <1>5, <1>6, <1>7 DEF Steps

(* The variables keep their types, the rows a report has left to import    *)
(* conform, and no two of them are of one person (classify, commit).       *)
THEOREM TypeCorrect == Spec => []Typed
BY InitTyped, NextStep, StepTyped, PTL DEF Spec

-----------------------------------------------------------------------------
(* Duplicates *)

(* A row that createPerson would take for a duplicate is passed over, in   *)
(* every state: isExisting finds at least what findPersonDuplicates finds. *)
THEOREM DuplicatesAreSkipped == Spec => []NoKnownDuplicate
<1>1. NoKnownDuplicate
  <2> SUFFICES ASSUME NEW f \in Files, NEW i \in 1 .. Len(f), ~Hard(f[i]),
                      Duplicates(IdentityOf(f[i])) # {}
               PROVE  classify(f, sirets)[i] = "skipped"
    BY DEF NoKnownDuplicate
  <2>1. isExisting(f[i])
    BY DEF Duplicates, isExisting, IdentityOf
  <2> QED BY <2>1, Classified
<1> QED BY <1>1, PTL DEF Spec

(* The persons of an identity, and the handlers about to create one.       *)
Kin(who) == {p \in Persons : person[p] = who}
About(c, who) ==
  \/ call[c].pc = "person" /\ call[c].who = who
  \/ /\ call[c].pc \in {"hire", "employment"}
     /\ \E i \in 1 .. Len(call[c].file) :
          call[c].report[i] = "toImport" /\ IdentityOf(call[c].file[i]) = who
Pending(who) == {c \in Calls : About(c, who)}

(* Each handler in flight accounts for one person that is there or to come. *)
RoomLeft ==
  \A who \in Identity : Cardinality(Kin(who)) + Cardinality(Pending(who)) <= Cardinality(Calls)

LEMMA Counted ==
  ASSUME NEW who
  PROVE  /\ IsFiniteSet(Kin(who)) /\ Cardinality(Kin(who)) \in Nat
         /\ IsFiniteSet(Pending(who)) /\ Cardinality(Pending(who)) \in Nat
         /\ Cardinality(Pending(who)) <= Cardinality(Calls) /\ Cardinality(Calls) \in Nat
<1>1. IsFiniteSet(Persons) /\ IsFiniteSet(Calls)
  BY ImportAssumption
<1>2. Kin(who) \in SUBSET Persons /\ Pending(who) \in SUBSET Calls
  BY DEF Kin, Pending
<1> QED BY <1>1, <1>2, FS_Subset, FS_CardinalityType

LEMMA CountedNext ==
  ASSUME NEW who
  PROVE  /\ IsFiniteSet(Kin(who)') /\ Cardinality(Kin(who)') \in Nat
         /\ IsFiniteSet(Pending(who)') /\ Cardinality(Pending(who)') \in Nat
         /\ Cardinality(Pending(who)') <= Cardinality(Calls)
<1>1. IsFiniteSet(Persons) /\ IsFiniteSet(Calls)
  BY ImportAssumption
<1>2. Kin(who)' \in SUBSET Persons /\ Pending(who)' \in SUBSET Calls
  BY DEF Kin, Pending
<1> QED BY <1>1, <1>2, FS_Subset, FS_CardinalityType

(* No room is taken where nobody is added and no handler wants one more.   *)
LEMMA FewerPending ==
  ASSUME RoomLeft, NEW who \in Identity, Kin(who)' = Kin(who), Pending(who)' \subseteq Pending(who)
  PROVE  Cardinality(Kin(who)') + Cardinality(Pending(who)') <= Cardinality(Calls)
<1>1. Pending(who)' \in SUBSET Pending(who) /\ IsFiniteSet(Pending(who))
  BY Counted
<1> HIDE DEF Pending
<1>2. Cardinality(Pending(who)') <= Cardinality(Pending(who))
  BY <1>1, FS_Subset
<1>3. Cardinality(Kin(who)) + Cardinality(Pending(who)) <= Cardinality(Calls)
  BY DEF RoomLeft
<1> QED BY <1>2, <1>3, Counted, CountedNext

(* The person a handler was about to create takes its place.               *)
LEMMA TakesPlace ==
  ASSUME Typed, RoomLeft, NEW who \in Identity, NEW c \in Calls, NEW p \in Persons,
         person[p] = NoPerson, person' = [person EXCEPT ![p] = who],
         About(c, who), NEW held, Becomes(c, held), ~About(c, who)'
  PROVE  Cardinality(Kin(who)') + Cardinality(Pending(who)') <= Cardinality(Calls)
<1> DEFINE K == Kin(who)
           P == Pending(who)
<1>1. Kin(who)' = K \cup {p} /\ p \notin K
  BY IdentityIsSomebody DEF Typed, TypeOK, Kin
<1>2. Pending(who)' = P \ {c} /\ c \in P
  <2>1. \A d \in Calls : d # c => call'[d] = call[d]
    BY DEF Typed, TypeOK, Becomes
  <2>2. \A d \in Calls : d # c => (About(d, who)' <=> About(d, who))
    BY <2>1 DEF About
  <2> QED BY <2>2 DEF Pending
<1>3. IsFiniteSet(K) /\ IsFiniteSet(P) /\ Cardinality(K) \in Nat /\ Cardinality(P) \in Nat
  BY Counted
<1>4. Cardinality(K) + Cardinality(P) <= Cardinality(Calls) /\ Cardinality(Calls) \in Nat
  BY Counted DEF RoomLeft
<1> HIDE DEF K, P
<1>5. Cardinality(K \cup {p}) = Cardinality(K) + 1
  BY <1>1, <1>3, FS_AddElement
<1>6. Cardinality(P \ {c}) = Cardinality(P) - 1
  BY <1>2, <1>3, FS_RemoveElement
<1> QED BY <1>1, <1>2, <1>3, <1>4, <1>5, <1>6

LEMMA StepRoom ==
  ASSUME Typed, RoomLeft, Steps, NEW who \in Identity
  PROVE  Cardinality(Kin(who)') + Cardinality(Pending(who)') <= Cardinality(Calls)
<1> DEFINE Room == Cardinality(Kin(who)') + Cardinality(Pending(who)') <= Cardinality(Calls)
<1>0. /\ person \in [Persons -> Identity \cup {NoPerson}] /\ call \in [Calls -> Call]
      /\ \A c \in Calls : call[c] \in Call /\ HeldFor(c)
      /\ who # NoPerson
  BY IdentityIsSomebody DEF Typed, TypeOK
<1>a. ASSUME Kin(who)' = Kin(who), NEW c \in Calls, NEW held, Becomes(c, held),
             About(c, who)' => About(c, who) \/ Kin(who) = {}
      PROVE  Room
  <2>1. \A d \in Calls : d # c => call'[d] = call[d]
    BY <1>0, <1>a DEF Becomes
  <2>2. \A d \in Calls : d # c => (About(d, who)' <=> About(d, who))
    BY <2>1 DEF About
  <2>3. CASE About(c, who)' => About(c, who)
    <3>1. Pending(who)' \subseteq Pending(who)
      BY <2>2, <2>3 DEF Pending
    <3> QED BY <1>a, <3>1, FewerPending
  <2>4. CASE Kin(who) = {}
    <3>1. Cardinality(Kin(who)') = 0
      BY <1>a, <2>4, FS_EmptySet
    <3> QED BY <3>1, CountedNext, Counted
  <2> QED BY <1>a, <2>3, <2>4
<1>b. ASSUME NEW c \in Calls, NEW held, Becomes(c, held) PROVE call'[c] = held
  BY <1>0, <1>b DEF Becomes
<1>c. Stays => Kin(who)' = Kin(who)
  BY DEF Stays, Kin
<1>d. ASSUME NEW p \in Persons, NEW other, other # who, person[p] = NoPerson,
             person' = [person EXCEPT ![p] = other]
      PROVE  Kin(who)' = Kin(who)
  BY <1>0, <1>d DEF Kin
<1>1. CASE Stays /\ call' = call
  <2>1. Pending(who)' = Pending(who)
    BY <1>1 DEF Pending, About
  <2> QED BY <1>1, <1>c, <2>1, FewerPending
<1>2. ASSUME NEW c \in Calls, NEW held \in Call, Begins(c, held) PROVE Room
  <2>1. Becomes(c, held) /\ Stays /\ call'[c] = held
    BY <1>2, <1>b DEF Begins
  <2>2. ASSUME About(c, who)' PROVE Kin(who) = {}
    <3>1. Duplicates(who) = {}
      BY <1>2, <2>1, <2>2 DEF Begins, About
    <3> QED BY <1>0, <3>1 DEF Duplicates, Existing, Kin
  <2> QED BY <2>1, <2>2, <1>a, <1>c
<1>3. ASSUME NEW c \in Calls, NEW held \in Call, Previews(c, held) PROVE Room
  <2> DEFINE f == call[c].file
  <2>1. Becomes(c, held) /\ Stays /\ call'[c] = held /\ held.file = f /\ held.pc = "hire"
        /\ held.report = classify(f, call[c].known)
    BY <1>3, <1>b DEF Previews
  <2>2. f \in Files \cup {<< >>}
    BY <1>0 DEF Call
  <2> HIDE DEF f
  <2>3. ASSUME About(c, who)' PROVE Kin(who) = {}
    <3>1. PICK i \in 1 .. Len(f) : held.report[i] = "toImport" /\ IdentityOf(f[i]) = who
      BY <2>1, <2>3 DEF About
    <3>2. ~isExisting(f[i])
      BY <2>1, <2>2, <3>1, Classified
    <3>3. f[i].name = who.name /\ f[i].birth = who.birth
      BY <3>1 DEF IdentityOf
    <3> QED BY <1>0, <3>2, <3>3 DEF isExisting, Existing, Kin
  <2> QED BY <2>1, <2>3, <1>a, <1>c
<1>4. ASSUME NEW c \in Calls, NEW held \in Call, Employs(c, held) PROVE Room
  <2>1. Becomes(c, held) /\ call'[c] = held /\ person' = person
    BY <1>4, <1>b DEF Employs
  <2>2. About(c, who)' => About(c, who)
    BY <1>4, <2>1 DEF Employs, About
  <2>3. Kin(who)' = Kin(who)
    BY <2>1 DEF Kin
  <2> QED BY <2>1, <2>2, <2>3, <1>a
<1>5. ASSUME NEW c \in Calls, NEW p \in Persons, NEW held \in Call,
             NEW i \in 1 .. Len(call[c].file), Hires(c, p, i, held)
      PROVE  Room
  <2> DEFINE f == call[c].file
             old == call[c].report
             other == IdentityOf(f[i])
  <2>1. /\ Becomes(c, held) /\ call'[c] = held /\ held.file = f /\ held.pc = "employment"
        /\ held.report = [old EXCEPT ![i] = "imported"] /\ old[i] = "toImport"
        /\ person[p] = NoPerson /\ person' = [person EXCEPT ![p] = other]
    BY <1>5, <1>b DEF Hires
  <2>2. f \in Files \cup {<< >>} /\ old \in Seq(RowStatus) /\ i \in 1 .. Len(f)
    BY <1>0 DEF Call
  <2>3. /\ Len(old) = Len(f)
        /\ \A k, j \in 1 .. Len(f) :
             old[k] = "toImport" /\ old[j] = "toImport" /\ IdentityOf(f[k]) = IdentityOf(f[j]) => k = j
    <3>1. HeldFor(c) /\ call[c].pc = "hire"
      BY <1>0, <1>5 DEF Hires
    <3> QED BY <3>1 DEF HeldFor
  <2>4. \A w : About(c, w) <=> \E k \in 1 .. Len(f) : old[k] = "toImport" /\ IdentityOf(f[k]) = w
    BY <1>5 DEF About, Hires
  <2> HIDE DEF f, old
  <2>5. \A k \in 1 .. Len(f) : held.report[k] = IF k = i THEN "imported" ELSE old[k]
    BY <2>1, <2>2, <2>3
  <2>6. About(c, who)' <=> \E k \in 1 .. Len(f) : k # i /\ old[k] = "toImport" /\ IdentityOf(f[k]) = who
    BY <2>1, <2>5 DEF About
  <2>7. CASE other = who
    <3>1. About(c, who)
      BY <2>1, <2>2, <2>4, <2>7
    <3>2. ~About(c, who)'
      BY <2>1, <2>2, <2>3, <2>6, <2>7
    <3> QED BY <2>1, <2>7, <3>1, <3>2, TakesPlace
  <2>8. CASE other # who
    <3>1. About(c, who)' => About(c, who)
      BY <2>4, <2>6
    <3> HIDE DEF other
    <3>2. Kin(who)' = Kin(who)
      BY <2>1, <2>8, <1>d
    <3> QED BY <2>1, <3>1, <3>2, <1>a
  <2> QED BY <2>7, <2>8
<1>6. ASSUME NEW c \in Calls, Ends(c) PROVE Room
  <2>1. Becomes(c, Idle) /\ Stays /\ ~About(c, who)'
    BY <1>6, <1>b, IdleType DEF Ends, About
  <2> QED BY <2>1, <1>a, <1>c
<1>7. ASSUME NEW c \in Calls, NEW p \in Persons, Creates(c, p) PROVE Room
  <2>1. Becomes(c, Idle) /\ ~About(c, who)'
    BY <1>7, <1>b, IdleType DEF Creates, About
  <2>2. person[p] = NoPerson /\ person' = [person EXCEPT ![p] = call[c].who]
    BY <1>7 DEF Creates
  <2>3. CASE call[c].who = who
    <3>1. About(c, who)
      BY <1>7, <2>3 DEF Creates, About
    <3> QED BY <2>1, <2>2, <2>3, <3>1, TakesPlace
  <2>4. CASE call[c].who # who
    BY <2>1, <2>2, <2>4, <1>a, <1>d
  <2> QED BY <2>3, <2>4
<1> QED BY <1>1, <1>2, <1>3, <1>4, <1>5, <1>6, <1>7 DEF Steps

(* A person, known by name and birth date, is created once for each        *)
(* handler in flight at most: a handler is about to create one only where  *)
(* it found none, once for the whole file (commit, createPerson).          *)
THEOREM PersonsAreBounded == Spec => []OncePerHandler
<1>1. Init => RoomLeft
  <2> SUFFICES ASSUME Init, NEW who \in Identity
               PROVE  Cardinality(Kin(who)) + Cardinality(Pending(who)) <= Cardinality(Calls)
    BY DEF RoomLeft
  <2>1. Kin(who) = {} /\ Pending(who) = {}
    BY IdleType, IdentityIsSomebody DEF Init, Kin, Pending, About
  <2>2. Cardinality(Kin(who)) = 0 /\ Cardinality(Pending(who)) = 0
    BY <2>1, FS_EmptySet
  <2> QED BY <2>2, Counted
<1>2. Typed /\ RoomLeft /\ Steps => RoomLeft'
  BY StepRoom DEF RoomLeft
<1>3. Typed /\ RoomLeft => OncePerHandler
  <2> SUFFICES ASSUME Typed, RoomLeft, NEW q \in Existing
               PROVE  Cardinality({p \in Persons : person[p] = person[q]}) <= Cardinality(Calls)
    BY DEF OncePerHandler
  <2>1. person[q] \in Identity
    BY DEF Existing, Typed, TypeOK
  <2>2. Cardinality(Kin(person[q])) <= Cardinality(Calls)
    BY <2>1, Counted DEF RoomLeft
  <2> QED BY <2>2 DEF Kin
<1> QED BY <1>1, <1>2, <1>3, TypeCorrect, NextStep, PTL DEF Spec

-----------------------------------------------------------------------------
(* Nobody is left behind *)

(* Whoever is imported or passed over is a person there is.                *)
Known(row) == \E p \in Existing : person[p].name = row.name
Reported ==
  \A c \in Calls : call[c].pc \in {"hire", "employment"} =>
    \A i \in 1 .. Len(call[c].file) :
      call[c].report[i] \in {"imported", "skipped"} => Known(call[c].file[i])

(* In memory every person is employed, or being hired, or was entered by   *)
(* hand.                                                                   *)
Accounted(p) == p \in hired \cup byHand \/ \E c \in Calls : call[c].on = p
AllAccounted == live => \A p \in Existing : Accounted(p)

(* Persons are added and never changed.                                    *)
LEMMA PersonsStay ==
  ASSUME Typed, Steps
  PROVE  \A p \in Existing : p \in Existing' /\ person'[p] = person[p]
<1>0. person \in [Persons -> Identity \cup {NoPerson}]
  BY DEF Typed, TypeOK
<1>a. ASSUME NEW p \in Persons, NEW who, person[p] = NoPerson, person' = [person EXCEPT ![p] = who]
      PROVE  \A q \in Existing : q \in Existing' /\ person'[q] = person[q]
  BY <1>0, <1>a DEF Existing
<1>1. CASE \E c \in Calls, p \in Persons, held \in Call : \E i \in 1 .. Len(call[c].file) : Hires(c, p, i, held)
  BY <1>1, <1>a DEF Hires
<1>2. CASE \E c \in Calls, p \in Persons : Creates(c, p)
  BY <1>2, <1>a DEF Creates
<1>3. ASSUME person' = person PROVE \A q \in Existing : q \in Existing' /\ person'[q] = person[q]
  BY <1>3 DEF Existing
<1> QED BY <1>1, <1>2, <1>3 DEF Steps, Stays, Begins, Previews, Employs, Ends

LEMMA StepReported == Typed /\ Reported /\ Steps => Reported'
<1> SUFFICES ASSUME Typed, Reported, Steps PROVE Reported'
  OBVIOUS
<1> DEFINE Fine(c) ==
      call'[c].pc \in {"hire", "employment"} =>
        \A i \in 1 .. Len(call'[c].file) :
          call'[c].report[i] \in {"imported", "skipped"} =>
            \E p \in Existing' : person'[p].name = call'[c].file[i].name
<1>0. /\ person \in [Persons -> Identity \cup {NoPerson}] /\ call \in [Calls -> Call]
      /\ \A c \in Calls : call[c] \in Call /\ HeldFor(c)
  BY DEF Typed, TypeOK
<1>1. \A c \in Calls : call'[c] = call[c] => Fine(c)
  <2> SUFFICES ASSUME NEW c \in Calls, call'[c] = call[c], call[c].pc \in {"hire", "employment"},
                      NEW i \in 1 .. Len(call[c].file), call[c].report[i] \in {"imported", "skipped"}
               PROVE  \E p \in Existing' : person'[p].name = call'[c].file[i].name
    OBVIOUS
  <2>1. Known(call[c].file[i])
    BY DEF Reported
  <2>2. call'[c].file[i] = call[c].file[i]
    OBVIOUS
  <2> QED BY <2>1, <2>2, PersonsStay DEF Known
<1>a. ASSUME NEW c \in Calls, NEW held, Becomes(c, held), Fine(c) PROVE Reported'
  <2>1. \A d \in Calls : Fine(d)
    BY <1>0, <1>1, <1>a DEF Becomes
  <2> QED BY <2>1 DEF Reported, Known
<1>b. ASSUME NEW c \in Calls, NEW held, Becomes(c, held) PROVE call'[c] = held
  BY <1>0, <1>b DEF Becomes
<1>2. CASE Stays /\ call' = call
  BY <1>1, <1>2 DEF Reported, Known
<1>3. ASSUME NEW c \in Calls, NEW held \in Call, Begins(c, held) PROVE Reported'
  BY <1>3, <1>a, <1>b DEF Begins
<1>4. ASSUME NEW c \in Calls, NEW held \in Call, Previews(c, held) PROVE Reported'
  <2> DEFINE f == call[c].file
  <2>1. Becomes(c, held) /\ Stays /\ call'[c] = held /\ held.file = f
        /\ held.report = classify(f, call[c].known)
    BY <1>4, <1>b DEF Previews
  <2>2. f \in Files \cup {<< >>}
    BY <1>0 DEF Call
  <2> HIDE DEF f
  <2>3. ASSUME NEW i \in 1 .. Len(f), held.report[i] \in {"imported", "skipped"}
        PROVE  \E p \in Existing' : person'[p].name = f[i].name
    <3>1. isExisting(f[i])
      BY <2>1, <2>2, <2>3, Classified
    <3> QED BY <3>1, PersonsStay DEF isExisting
  <2>4. Fine(c)
    BY <2>1, <2>3 DEF Known
  <2> QED BY <2>1, <2>4, <1>a
<1>5. ASSUME NEW c \in Calls, NEW held \in Call, Employs(c, held) PROVE Reported'
  <2>1. Becomes(c, held) /\ call'[c] = held /\ held.file = call[c].file
        /\ held.report = call[c].report /\ call[c].pc = "employment"
    BY <1>5, <1>b DEF Employs
  <2>2. ASSUME NEW i \in 1 .. Len(call[c].file), call[c].report[i] \in {"imported", "skipped"}
        PROVE  \E p \in Existing' : person'[p].name = call[c].file[i].name
    BY <2>1, <2>2, PersonsStay DEF Reported, Known
  <2>3. Fine(c)
    BY <2>1, <2>2 DEF Known
  <2> QED BY <2>1, <2>3, <1>a
<1>6. ASSUME NEW c \in Calls, NEW p \in Persons, NEW held \in Call,
             NEW i \in 1 .. Len(call[c].file), Hires(c, p, i, held)
      PROVE  Reported'
  <2> DEFINE f == call[c].file
             old == call[c].report
  <2>1. /\ Becomes(c, held) /\ call'[c] = held /\ held.file = f
        /\ held.report = [old EXCEPT ![i] = "imported"] /\ old[i] = "toImport"
        /\ person[p] = NoPerson /\ person' = [person EXCEPT ![p] = IdentityOf(f[i])]
        /\ call[c].pc = "hire"
    BY <1>6, <1>b DEF Hires
  <2>2. f \in Files \cup {<< >>} /\ old \in Seq(RowStatus) /\ i \in 1 .. Len(f)
    BY <1>0 DEF Call
  <2>3. Len(old) = Len(f) /\ ~Hard(f[i])
    <3>1. HeldFor(c)
      BY <1>0
    <3> QED BY <2>1, <3>1 DEF HeldFor
  <2>4. \A k \in 1 .. Len(f) : old[k] \in {"imported", "skipped"} =>
          \E q \in Existing' : person'[q].name = f[k].name
    BY <2>1, PersonsStay DEF Reported, Known
  <2> HIDE DEF f, old
  <2>5. \A k \in 1 .. Len(f) : held.report[k] = IF k = i THEN "imported" ELSE old[k]
    BY <2>1, <2>2, <2>3
  <2>6. IdentityOf(f[i]) \in Identity
    BY <2>2, <2>3, FileType, IdentityType
  <2>7. p \in Existing' /\ person'[p].name = f[i].name
    <3>1. person'[p] = IdentityOf(f[i])
      BY <1>0, <2>1
    <3> QED BY <2>6, <3>1, IdentityIsSomebody DEF Existing, IdentityOf
  <2>8. \A k \in 1 .. Len(f) : held.report[k] \in {"imported", "skipped"} =>
          \E q \in Existing' : person'[q].name = f[k].name
    BY <2>4, <2>5, <2>7
  <2>9. Fine(c)
    BY <2>1, <2>8 DEF Known
  <2> QED BY <2>1, <2>9, <1>a
<1>7. ASSUME NEW c \in Calls, Becomes(c, Idle) PROVE Reported'
  BY <1>7, <1>a, <1>b, IdleType
<1> QED BY <1>2, <1>3, <1>4, <1>5, <1>6, <1>7 DEF Steps, Ends, Creates

LEMMA StepAccounted == Typed /\ AllAccounted /\ Steps => AllAccounted'
<1> SUFFICES ASSUME Typed, AllAccounted, Steps, live, NEW q \in Persons, q \in Existing'
             PROVE  Accounted(q)'
  BY DEF AllAccounted, Steps, Existing
<1>0. /\ person \in [Persons -> Identity \cup {NoPerson}] /\ call \in [Calls -> Call]
      /\ \A c \in Calls : call[c] \in Call /\ HeldFor(c)
      /\ \A p \in Existing : Accounted(p)
      /\ None \notin Persons
  BY ImportAssumption DEF Typed, TypeOK, AllAccounted
<1>a. ASSUME NEW c \in Calls, NEW held, Becomes(c, held), Accounted(q),
             hired \subseteq hired', byHand \subseteq byHand',
             call[c].on = q => held.on = q \/ q \in hired'
      PROVE  Accounted(q)'
  <2>1. call'[c] = held /\ \A d \in Calls \ {c} : call'[d] = call[d]
    BY <1>0, <1>a DEF Becomes
  <2> QED BY <1>a, <2>1 DEF Accounted
<1>b. person' = person => Accounted(q)
  BY <1>0 DEF Existing
<1>c. \A c \in Calls : call[c].pc # "employment" => call[c].on # q
  BY <1>0 DEF HeldFor
<1>1. CASE Stays /\ call' = call
  BY <1>1, <1>b DEF Stays, Accounted
<1>2. ASSUME NEW c \in Calls, NEW held \in Call, Begins(c, held) \/ Previews(c, held) PROVE Accounted(q)'
  <2>1. Becomes(c, held) /\ Stays /\ call[c].pc # "employment"
    BY <1>2, IdleType DEF Begins, Previews
  <2> QED BY <2>1, <1>a, <1>b, <1>c DEF Stays
<1>3. ASSUME NEW c \in Calls, NEW held \in Call, Employs(c, held) PROVE Accounted(q)'
  BY <1>3, <1>a, <1>b DEF Employs
<1>4. ASSUME NEW c \in Calls, Ends(c) PROVE Accounted(q)'
  <2>1. Becomes(c, Idle) /\ Stays /\ call[c].pc # "employment"
    BY <1>4 DEF Ends
  <2> QED BY <2>1, <1>a, <1>b, <1>c DEF Stays
<1>5. ASSUME NEW c \in Calls, NEW p \in Persons, NEW held \in Call,
             NEW i \in 1 .. Len(call[c].file), Hires(c, p, i, held)
      PROVE  Accounted(q)'
  <2>1. /\ Becomes(c, held) /\ held.on = p /\ call[c].pc = "hire" /\ byHand' = byHand /\ hired' = hired
        /\ person' = [person EXCEPT ![p] = IdentityOf(call[c].file[i])]
    BY <1>5 DEF Hires
  <2>2. CASE q = p
    <3>1. call'[c].on = q
      BY <1>0, <2>1, <2>2 DEF Becomes
    <3> QED BY <3>1 DEF Accounted
  <2>3. CASE q # p
    <3>1. q \in Existing
      BY <1>0, <2>1, <2>3 DEF Existing
    <3> QED BY <1>0, <2>1, <3>1, <1>a, <1>c
  <2> QED BY <2>2, <2>3
<1>6. ASSUME NEW c \in Calls, NEW p \in Persons, Creates(c, p) PROVE Accounted(q)'
  <2>1. /\ Becomes(c, Idle) /\ call[c].pc = "person" /\ byHand' = byHand \cup {p} /\ hired' = hired
        /\ person' = [person EXCEPT ![p] = call[c].who]
    BY <1>6 DEF Creates
  <2>2. CASE q = p
    BY <2>1, <2>2 DEF Accounted
  <2>3. CASE q # p
    <3>1. q \in Existing
      BY <1>0, <2>1, <2>3 DEF Existing
    <3> QED BY <1>0, <2>1, <3>1, <1>a, <1>c
  <2> QED BY <2>2, <2>3
<1> QED BY <1>1, <1>2, <1>3, <1>4, <1>5, <1>6 DEF Steps

(* In memory an import leaves nobody behind: whoever it imported or passed *)
(* over is employed, or being hired by some handler, or was entered by     *)
(* hand, for no handler ends between a person and their employment         *)
(* (commit, hire, createPerson).                                           *)
THEOREM NobodyIsLeft == Spec => []NobodyLeftInMemory
<1>1. Init => Reported /\ AllAccounted
  BY IdleType DEF Init, Reported, AllAccounted, Existing
<1>2. Typed /\ Reported /\ AllAccounted => NobodyLeftInMemory
  <2> SUFFICES ASSUME Typed, Reported, AllAccounted, live, NEW c \in Calls, call[c].pc = "hire",
                      NEW i \in 1 .. Len(call[c].report),
                      call[c].report[i] \in {"imported", "skipped"}
               PROVE  Covered(call[c].file[i])
    BY DEF NobodyLeftInMemory, NobodyLeftBehind
  <2>1. HeldFor(c)
    BY DEF Typed
  <2>2. i \in 1 .. Len(call[c].file)
    BY <2>1 DEF HeldFor
  <2>3. Known(call[c].file[i])
    BY <2>2 DEF Reported
  <2> QED BY <2>3 DEF Known, Covered, AllAccounted, Accounted
<1> QED BY <1>1, <1>2, StepReported, StepAccounted, TypeCorrect, NextStep, PTL DEF Spec

-----------------------------------------------------------------------------
(* Files: what is written is read back.  Induction over a text is by the   *)
(* least place at which a property of it fails.                            *)

(* A set of naturals that is not empty has a least element. *)
LEMMA LeastOf ==
  ASSUME NEW S, S \subseteq Nat, S # {}
  PROVE  \E m \in S : \A k \in S : m <= k
<1> DEFINE R == OpToRel(<, Nat)
<1>1. IsWellFoundedOn(R, Nat)
  BY NatLessThanWellFounded
<1>2. \A i, j \in Nat : i < j => <<i, j>> \in R
  BY DEF OpToRel
<1> HIDE DEF R
<1>3. PICK m \in S : \A k \in S : ~(<<k, m>> \in R)
  BY <1>1, WFMin
<1>4. ASSUME NEW k \in S PROVE m <= k
  <2>1. k \in Nat /\ m \in Nat /\ ~(k < m)
    BY <1>2, <1>3
  <2> QED BY <2>1
<1> QED BY <1>4

(* Induction up to a bound, for a set in place of a predicate. *)
LEMMA UpTo ==
  ASSUME NEW n \in Nat, NEW S, 0 \in S,
         \A i \in 0 .. n : i < n /\ i \in S => i + 1 \in S
  PROVE  \A i \in 0 .. n : i \in S
<1> DEFINE Bad == {i \in 0 .. n : i \notin S}
<1>1. SUFFICES ASSUME Bad # {} PROVE FALSE
  OBVIOUS
<1>2. Bad \subseteq Nat
  OBVIOUS
<1>3. PICK m \in Bad : \A k \in Bad : m <= k
  <2> HIDE DEF Bad
  <2> QED BY <1>1, <1>2, LeastOf
<1>4. m # 0 /\ m \in 0 .. n /\ m - 1 \in 0 .. n /\ m - 1 < n
  BY <1>3
<1>5. m - 1 \in S
  BY <1>3, <1>4
<1> QED BY <1>3, <1>4, <1>5

-----------------------------------------------------------------------------
(* FlattenSeq *)

IsFlat(f, seqs, n) ==
  f = [i \in 1 .. n |-> IF i = 1 THEN seqs[i] ELSE f[i - 1] \o seqs[i]]

LEMMA FlatExists ==
  ASSUME NEW seqs, NEW n \in Nat
  PROVE  \E f : IsFlat(f, seqs, n)
<1> DEFINE S == {i \in 0 .. n : \E f : IsFlat(f, seqs, i)}
<1>1. 0 \in S
  <2>1. IsFlat([i \in 1 .. 0 |-> << >>], seqs, 0)
    BY DEF IsFlat
  <2> QED BY <2>1
<1>2. ASSUME NEW i \in 0 .. n, i < n, i \in S
      PROVE  i + 1 \in S
  <2>1. PICK f : IsFlat(f, seqs, i)
    BY <1>2
  <2> DEFINE g == [k \in 1 .. i + 1 |->
                     IF k <= i THEN f[k] ELSE IF k = 1 THEN seqs[k] ELSE f[k - 1] \o seqs[k]]
             h == [k \in 1 .. i + 1 |-> IF k = 1 THEN seqs[k] ELSE g[k - 1] \o seqs[k]]
  <2>2. ASSUME NEW k \in 1 .. i + 1 PROVE g[k] = h[k]
    <3>1. CASE k <= i
      <4>0. k \in 1 .. i
        BY <3>1
      <4>1. f[k] = IF k = 1 THEN seqs[k] ELSE f[k - 1] \o seqs[k]
        BY <2>1, <4>0 DEF IsFlat
      <4>2. k # 1 => g[k - 1] = f[k - 1]
        BY <3>1
      <4> QED BY <3>1, <4>1, <4>2
    <3>2. CASE k = i + 1
      BY <3>2
    <3> QED BY <3>1, <3>2
  <2>3. g = h
    BY <2>2
  <2>4. IsFlat(g, seqs, i + 1)
    <3> HIDE DEF g
    <3> QED BY <2>3 DEF IsFlat
  <2>5. i + 1 \in 0 .. n
    BY <1>2
  <2> HIDE DEF g
  <2> QED BY <2>4, <2>5
<1>3. n \in S
  <2> HIDE DEF S
  <2> QED BY <1>1, <1>2, UpTo
<1> QED BY <1>3

LEMMA FlatIs ==
  ASSUME NEW seqs, Len(seqs) \in Nat, Len(seqs) # 0
  PROVE  \E f : IsFlat(f, seqs, Len(seqs)) /\ FlattenSeq(seqs) = f[Len(seqs)]
<1> DEFINE f == CHOOSE g : IsFlat(g, seqs, Len(seqs))
<1>1. FlattenSeq(seqs) = f[Len(seqs)]
  BY DEF FlattenSeq, IsFlat
<1>2. IsFlat(f, seqs, Len(seqs))
  BY FlatExists
<1> QED BY <1>1, <1>2

(* A text holds a part at some place. *)
Holds(text, at, part) ==
  /\ at + Len(part) <= Len(text)
  /\ \A i \in 1 .. Len(part) : text[at + i] = part[i]

(* Where each part stands in the text they are flattened into. *)
Places(off, seqs, text) ==
  /\ off \in [0 .. Len(seqs) -> Nat]
  /\ off[0] = 0 /\ off[Len(seqs)] = Len(text)
  /\ \A i \in 1 .. Len(seqs) : off[i] = off[i - 1] + Len(seqs[i])
                               /\ Holds(text, off[i - 1], seqs[i])

LEMMA AtTheEnd ==
  ASSUME NEW C, NEW s \in Seq(C), NEW t \in Seq(C)
  PROVE  Len(s \o t) = Len(s) + Len(t) /\ Holds(s \o t, Len(s), t)
<1>1. /\ Len(s) \in Nat /\ Len(t) \in Nat /\ Len(s \o t) = Len(s) + Len(t)
      /\ \A i \in 1 .. Len(s) + Len(t) :
           (s \o t)[i] = IF i <= Len(s) THEN s[i] ELSE t[i - Len(s)]
  BY ConcatProperties, LenProperties
<1>2. ASSUME NEW i \in 1 .. Len(t) PROVE (s \o t)[Len(s) + i] = t[i]
  <2>1. Len(s) + i \in 1 .. Len(s) + Len(t) /\ ~(Len(s) + i <= Len(s)) /\ (Len(s) + i) - Len(s) = i
    BY <1>1
  <2> QED BY <1>1, <2>1
<1> QED BY <1>1, <1>2 DEF Holds

LEMMA StillHolds ==
  ASSUME NEW C, NEW s \in Seq(C), NEW t \in Seq(C), NEW part, Len(part) \in Nat,
         NEW at \in Nat, Holds(s, at, part)
  PROVE  Holds(s \o t, at, part)
<1>1. /\ Len(s) \in Nat /\ Len(t) \in Nat /\ Len(s \o t) = Len(s) + Len(t)
      /\ \A i \in 1 .. Len(s) + Len(t) :
           (s \o t)[i] = IF i <= Len(s) THEN s[i] ELSE t[i - Len(s)]
  BY ConcatProperties, LenProperties
<1>2. ASSUME NEW i \in 1 .. Len(part) PROVE (s \o t)[at + i] = part[i]
  <2>1. at + i \in 1 .. Len(s) + Len(t) /\ at + i <= Len(s)
    BY <1>1 DEF Holds
  <2> QED BY <1>1, <2>1 DEF Holds
<1> QED BY <1>1, <1>2 DEF Holds

LEMMA Flattened ==
  ASSUME NEW C, NEW seqs \in Seq(Seq(C))
  PROVE  /\ FlattenSeq(seqs) \in Seq(C)
         /\ \E off : Places(off, seqs, FlattenSeq(seqs))
<1> DEFINE n == Len(seqs)
           text == FlattenSeq(seqs)
<1>0. n \in Nat /\ seqs \in [1 .. n -> Seq(C)]
  BY LenProperties
<1>1. CASE n = 0
  <2>1. seqs = << >> /\ text = << >>
    BY <1>1 DEF FlattenSeq
  <2>2. Places([i \in 0 .. 0 |-> 0], seqs, text)
    BY <2>1 DEF Places
  <2> QED BY <2>1, <2>2
<1>2. CASE n # 0
  <2>1. PICK f : IsFlat(f, seqs, n) /\ text = f[n]
    BY <1>0, <1>2, FlatIs
  <2>2. /\ f[1] = seqs[1]
        /\ \A i \in 1 .. n : i < n => f[i + 1] = f[i] \o seqs[i + 1]
    <3>1. \A i \in 1 .. n : f[i] = IF i = 1 THEN seqs[i] ELSE f[i - 1] \o seqs[i]
      BY <2>1 DEF IsFlat
    <3>2. f[1] = seqs[1]
      BY <1>0, <1>2, <3>1
    <3>3. ASSUME NEW i \in 1 .. n, i < n PROVE f[i + 1] = f[i] \o seqs[i + 1]
      <4>1. i + 1 \in 1 .. n /\ i + 1 # 1 /\ (i + 1) - 1 = i
        BY <1>0, <3>3
      <4>2. f[i + 1] = f[(i + 1) - 1] \o seqs[i + 1]
        BY <3>1, <4>1
      <4> QED BY <4>1, <4>2
    <3> QED BY <3>2, <3>3
  <2> HIDE DEF n, text
  (* Each prefix is a sequence, and keeps what the one before it holds. *)
  <2> DEFINE S == {i \in 0 .. n : i = 0 \/ f[i] \in Seq(C)}
  <2>3. \A i \in 1 .. n : f[i] \in Seq(C)
    <3>1. 0 \in S
      BY <1>0
    <3>2. ASSUME NEW i \in 0 .. n, i < n, i \in S PROVE i + 1 \in S
      <4>1. CASE i = 0
        BY <1>0, <2>2, <3>2, <4>1
      <4>2. CASE i # 0
        <5>1. f[i] \in Seq(C) /\ seqs[i + 1] \in Seq(C) /\ i \in 1 .. n /\ i + 1 \in 0 .. n
          BY <1>0, <3>2, <4>2
        <5>2. f[i + 1] = f[i] \o seqs[i + 1]
          BY <2>2, <3>2, <5>1
        <5>3. f[i] \o seqs[i + 1] \in Seq(C)
          BY <5>1, ConcatProperties
        <5> QED BY <5>1, <5>2, <5>3
      <4> QED BY <4>1, <4>2
    <3>3. \A i \in 0 .. n : i \in S
      <4> HIDE DEF S
      <4> QED BY <1>0, <3>1, <3>2, UpTo
    <3> QED BY <3>3
  <2> HIDE DEF S
  <2> DEFINE off == [i \in 0 .. n |-> IF i = 0 THEN 0 ELSE Len(f[i])]
  <2>4. ASSUME NEW i \in 1 .. n
        PROVE  off[i] = off[i - 1] + Len(seqs[i]) /\ Holds(f[i], off[i - 1], seqs[i])
    <3>0. seqs[i] \in Seq(C) /\ Len(seqs[i]) \in Nat
      BY <1>0, LenProperties
    <3>1. CASE i = 1
      <4>1. off[1] = Len(f[1]) /\ off[0] = 0 /\ f[1] = seqs[1]
        BY <1>0, <1>2, <2>2
      <4> HIDE DEF off
      <4>2. Holds(f[1], 0, seqs[1])
        BY <3>0, <3>1, <4>1 DEF Holds
      <4> QED BY <3>0, <3>1, <4>1, <4>2
    <3>2. CASE i # 1
      <4>0. i - 1 \in 1 .. n /\ i - 1 < n /\ (i - 1) + 1 = i
        BY <1>0, <3>2
      <4>1. f[i - 1] \in Seq(C) /\ f[i] = f[i - 1] \o seqs[i]
        <5>1. f[(i - 1) + 1] = f[i - 1] \o seqs[(i - 1) + 1]
          BY <2>2, <4>0
        <5> QED BY <2>3, <4>0, <5>1
      <4>2. off[i - 1] = Len(f[i - 1]) /\ off[i] = Len(f[i])
        BY <3>2, <4>0
      <4> HIDE DEF off
      <4> QED BY <3>0, <4>1, <4>2, AtTheEnd
    <3> QED BY <3>1, <3>2
  <2>5. ASSUME NEW i \in 1 .. n
        PROVE  Holds(text, off[i - 1], seqs[i])
    <3> DEFINE T == {k \in 0 .. n : k >= i => Holds(f[k], off[i - 1], seqs[i])}
    <3>0. seqs[i] \in Seq(C) /\ Len(seqs[i]) \in Nat /\ off[i - 1] \in Nat
      BY <1>0, <2>3, LenProperties
    <3> HIDE DEF off
    <3>1. 0 \in T
      BY <1>0
    <3>2. ASSUME NEW k \in 0 .. n, k < n, k \in T PROVE k + 1 \in T
      <4>1. CASE k + 1 = i
        BY <2>4, <4>1
      <4>2. CASE k >= i
        <5>1. /\ k \in 1 .. n /\ k + 1 \in 1 .. n
              /\ Holds(f[k], off[i - 1], seqs[i])
          BY <1>0, <3>2, <4>2
        <5>2. /\ f[k] \in Seq(C) /\ seqs[k + 1] \in Seq(C)
              /\ f[k + 1] = f[k] \o seqs[k + 1]
          BY <1>0, <2>2, <2>3, <3>2, <5>1
        <5>3. Holds(f[k] \o seqs[k + 1], off[i - 1], seqs[i])
          BY <3>0, <5>1, <5>2, StillHolds
        <5>4. Holds(f[k + 1], off[i - 1], seqs[i])
          BY <5>2, <5>3
        <5>5. k + 1 \in 0 .. n
          BY <1>0, <3>2
        <5> QED BY <5>4, <5>5
      <4>3. CASE k + 1 < i
        BY <1>0, <3>2, <4>3
      <4> QED BY <1>0, <3>2, <4>1, <4>2, <4>3
    <3>3. \A k \in 0 .. n : k \in T
      <4> HIDE DEF T
      <4> QED BY <1>0, <3>1, <3>2, UpTo
    <3>4. n \in T
      BY <1>0, <3>3
    <3>5. n >= i
      BY <1>0
    <3> QED BY <2>1, <3>4, <3>5
  <2>6. off \in [0 .. n -> Nat] /\ off[0] = 0 /\ off[n] = Len(text)
    <3>1. \A i \in 1 .. n : Len(f[i]) \in Nat
      BY <2>3, LenProperties
    <3> QED BY <1>0, <1>2, <2>1, <3>1
  <2>7. Places(off, seqs, text)
    <3> HIDE DEF off
    <3> QED BY <2>4, <2>5, <2>6 DEF Places, n
  <2>8. text \in Seq(C)
    BY <1>0, <1>2, <2>1, <2>3
  <2> QED BY <2>7, <2>8 DEF text
<1> QED BY <1>1, <1>2

LEMMA HoldsParts ==
  ASSUME NEW C, NEW text \in Seq(C), NEW s \in Seq(C), NEW t \in Seq(C), NEW at \in Nat,
         Holds(text, at, s \o t)
  PROVE  Holds(text, at, s) /\ Holds(text, at + Len(s), t)
<1>1. /\ Len(s) \in Nat /\ Len(t) \in Nat /\ Len(s \o t) = Len(s) + Len(t) /\ Len(text) \in Nat
      /\ \A i \in 1 .. Len(s) + Len(t) :
           (s \o t)[i] = IF i <= Len(s) THEN s[i] ELSE t[i - Len(s)]
  BY ConcatProperties, LenProperties
<1>2. ASSUME NEW i \in 1 .. Len(s) PROVE text[at + i] = s[i]
  <2>1. i \in 1 .. Len(s) + Len(t) /\ i <= Len(s)
    BY <1>1
  <2> QED BY <1>1, <2>1 DEF Holds
<1>3. ASSUME NEW i \in 1 .. Len(t) PROVE text[at + Len(s) + i] = t[i]
  <2>1. /\ Len(s) + i \in 1 .. Len(s) + Len(t) /\ ~(Len(s) + i <= Len(s))
        /\ (Len(s) + i) - Len(s) = i /\ at + (Len(s) + i) = at + Len(s) + i
    BY <1>1
  <2> QED BY <1>1, <2>1 DEF Holds
<1> QED BY <1>1, <1>2, <1>3 DEF Holds

LEMMA HoldsWithin ==
  ASSUME NEW C, NEW text \in Seq(C), NEW s \in Seq(C), NEW t \in Seq(C), NEW at \in Nat,
         NEW from \in Nat, Holds(text, at, s), Holds(s, from, t)
  PROVE  Holds(text, at + from, t)
<1>1. Len(s) \in Nat /\ Len(t) \in Nat /\ Len(text) \in Nat
  BY LenProperties
<1>2. ASSUME NEW i \in 1 .. Len(t) PROVE text[at + from + i] = t[i]
  <2>1. from + i \in 1 .. Len(s) /\ at + (from + i) = at + from + i
    BY <1>1 DEF Holds
  <2> QED BY <2>1 DEF Holds
<1> QED BY <1>1, <1>2 DEF Holds

LEMMA SubSeqGrows ==
  ASSUME NEW S, NEW s \in Seq(S), NEW k \in 0 .. Len(s), k < Len(s)
  PROVE  SubSeq(s, 1, k + 1) = Append(SubSeq(s, 1, k), s[k + 1])
<1>1. Len(s) \in Nat /\ k + 1 \in 1 .. Len(s) /\ (k + 1) - 1 = k /\ 1 \in 1 .. Len(s)
      /\ k + 1 \in Int /\ k \in Int /\ 1 \in Int
  BY LenProperties
<1>2. SubSeq(s, 1, k + 1) = SubSeq(s, 1, k) \o <<s[k + 1]>>
  BY <1>1, SubSeqRecursiveSecond
<1>3. SubSeq(s, 1, k) \in Seq(S) /\ s[k + 1] \in S
  <2>1. \A i \in 1 .. k : s[i] \in S
    BY <1>1, LenProperties
  <2> QED BY <1>1, <2>1, SubSeqProperties, ElementOfSeq
<1> QED BY <1>2, <1>3, AppendIsConcat

-----------------------------------------------------------------------------
(* The loop of parseCsv. *)

(* Outside quotes, inside, and inside between the two quotes of a pair. *)
Outside(field, row, rows) ==
  [field |-> field, row |-> row, rows |-> rows, inQ |-> FALSE, skip |-> FALSE]
Inside(field, row, rows) ==
  [field |-> field, row |-> row, rows |-> rows, inQ |-> TRUE, skip |-> FALSE]
Paired(field, row, rows) ==
  [field |-> field, row |-> row, rows |-> rows, inQ |-> TRUE, skip |-> TRUE]
Clean == Outside(<< >>, << >>, << >>)
NextOf(text, i) == IF i < Len(text) THEN text[i + 1] ELSE LF

IsScan(f, text, delim, n) ==
  f = [i \in 0 .. n |->
         IF i = 0 THEN Clean ELSE Scan(f[i - 1], text[i], NextOf(text, i), delim)]

(* What is read when the end of the text is reached. *)
Read(end) ==
  IF end.field # << >> \/ end.row # << >>
    THEN Append(end.rows, Append(end.row, end.field)) ELSE end.rows

LEMMA ScanExists ==
  ASSUME NEW text, NEW delim, NEW n \in Nat
  PROVE  \E f : IsScan(f, text, delim, n)
<1> DEFINE S == {i \in 0 .. n : \E f : IsScan(f, text, delim, i)}
<1>1. 0 \in S
  <2> DEFINE f == [i \in 0 .. 0 |-> Clean]
  <2>1. f = [i \in 0 .. 0 |->
               IF i = 0 THEN Clean ELSE Scan(f[i - 1], text[i], NextOf(text, i), delim)]
    OBVIOUS
  <2> HIDE DEF f
  <2>2. IsScan(f, text, delim, 0)
    BY <2>1 DEF IsScan
  <2> QED BY <2>2
<1>2. ASSUME NEW i \in 0 .. n, i < n, i \in S
      PROVE  i + 1 \in S
  <2>1. PICK f : IsScan(f, text, delim, i)
    BY <1>2
  <2> DEFINE goes(h, k) == Scan(h[k - 1], text[k], NextOf(text, k), delim)
             g == [k \in 0 .. i + 1 |-> IF k <= i THEN f[k] ELSE goes(f, k)]
             h == [k \in 0 .. i + 1 |-> IF k = 0 THEN Clean ELSE goes(g, k)]
  <2>2. ASSUME NEW k \in 0 .. i + 1 PROVE g[k] = h[k]
    <3>1. CASE k <= i
      <4>0. k \in 0 .. i
        BY <3>1
      <4>1. f[k] = IF k = 0 THEN Clean ELSE goes(f, k)
        BY <2>1, <4>0 DEF IsScan
      <4>2. k # 0 => g[k - 1] = f[k - 1]
        BY <3>1
      <4> QED BY <3>1, <4>1, <4>2
    <3>2. CASE k = i + 1
      <4>1. k # 0 /\ ~(k <= i) /\ k - 1 = i /\ i \in 0 .. i + 1
        BY <3>2
      <4>2. g[k - 1] = f[k - 1]
        BY <4>1
      <4> QED BY <4>1, <4>2
    <3> QED BY <3>1, <3>2
  <2>3. g = h
    BY <2>2
  <2>4. IsScan(g, text, delim, i + 1)
    <3> HIDE DEF g
    <3> QED BY <2>3 DEF IsScan
  <2>5. i + 1 \in 0 .. n
    BY <1>2
  <2> HIDE DEF g
  <2> QED BY <2>4, <2>5
<1>3. \A i \in 0 .. n : i \in S
  <2> HIDE DEF S
  <2> QED BY <1>1, <1>2, UpTo
<1> QED BY <1>3

(* The states of the loop, one for each character read. *)
Run(f, text, delim) ==
  /\ f[0] = Clean
  /\ \A i \in 0 .. Len(text) :
       i < Len(text) => f[i + 1] = Scan(f[i], text[i + 1], NextOf(text, i + 1), delim)

LEMMA RunExists ==
  ASSUME NEW C, NEW text \in Seq(C), NEW delim
  PROVE  \E f : Run(f, text, delim) /\ parseRows(text, delim) = Read(f[Len(text)])
<1> DEFINE f == CHOOSE g : IsScan(g, text, delim, Len(text))
<1>0. Len(text) \in Nat
  BY LenProperties
<1>1. parseRows(text, delim) = Read(f[Len(text)])
  BY DEF parseRows, IsScan, NextOf, Clean, Outside, Read
<1>2. IsScan(f, text, delim, Len(text))
  BY <1>0, ScanExists
<1> HIDE DEF f
<1>3. \A i \in 0 .. Len(text) :
        f[i] = IF i = 0 THEN Clean ELSE Scan(f[i - 1], text[i], NextOf(text, i), delim)
  BY <1>2 DEF IsScan
<1>4. f[0] = Clean
  BY <1>0, <1>3
<1>5. ASSUME NEW i \in 0 .. Len(text), i < Len(text)
      PROVE  f[i + 1] = Scan(f[i], text[i + 1], NextOf(text, i + 1), delim)
  <2>1. i + 1 \in 0 .. Len(text) /\ i + 1 # 0 /\ (i + 1) - 1 = i
    BY <1>0, <1>5
  <2>2. f[i + 1] = Scan(f[(i + 1) - 1], text[i + 1], NextOf(text, i + 1), delim)
    BY <1>3, <2>1
  <2> QED BY <2>1, <2>2
<1> QED BY <1>1, <1>4, <1>5 DEF Run

Delimiters == {COMMA, SEMI, TAB}

LEMMA Distinct ==
  /\ QUOTE \notin Delimiters /\ LF \notin Delimiters /\ CR \notin Delimiters
  /\ QUOTE # LF /\ QUOTE # CR /\ LF # CR
  BY DEF Delimiters, QUOTE, LF, CR, COMMA, SEMI, TAB

(* What each character does to the loop. *)
LEMMA Skips ==
  ASSUME NEW field, NEW row, NEW rows, NEW ch, NEW next, NEW delim \in Delimiters
  PROVE  Scan(Paired(field, row, rows), ch, next, delim)
           = Inside(field, row, rows)
  BY Distinct DEF Scan, Outside, Inside, Paired

LEMMA KeepsQuoted ==
  ASSUME NEW field, NEW row, NEW rows, NEW ch, NEW next, NEW delim \in Delimiters,
         ch # QUOTE
  PROVE  Scan(Inside(field, row, rows), ch, next, delim)
           = Inside(Append(field, ch), row, rows)
  BY Distinct DEF Scan, Outside, Inside, Paired

LEMMA Pairs ==
  ASSUME NEW field, NEW row, NEW rows, NEW delim \in Delimiters
  PROVE  Scan(Inside(field, row, rows), QUOTE, QUOTE, delim)
           = Paired(Append(field, QUOTE), row, rows)
  BY Distinct DEF Scan, Outside, Inside, Paired

LEMMA Closes ==
  ASSUME NEW field, NEW row, NEW rows, NEW next, NEW delim \in Delimiters,
         next # QUOTE
  PROVE  Scan(Inside(field, row, rows), QUOTE, next, delim)
           = Outside(field, row, rows)
  BY Distinct DEF Scan, Outside, Inside, Paired

LEMMA Opens ==
  ASSUME NEW field, NEW row, NEW rows, NEW next, NEW delim \in Delimiters
  PROVE  Scan(Outside(field, row, rows), QUOTE, next, delim)
           = Inside(field, row, rows)
  BY Distinct DEF Scan, Outside, Inside, Paired

LEMMA Keeps ==
  ASSUME NEW field, NEW row, NEW rows, NEW ch, NEW next, NEW delim \in Delimiters,
         ch \notin {delim, QUOTE, LF, CR}
  PROVE  Scan(Outside(field, row, rows), ch, next, delim)
           = Outside(Append(field, ch), row, rows)
  BY Distinct DEF Scan, Outside, Inside, Paired

LEMMA EndsCell ==
  ASSUME NEW field, NEW row, NEW rows, NEW next, NEW delim \in Delimiters
  PROVE  Scan(Outside(field, row, rows), delim, next, delim)
           = Outside(<< >>, Append(row, field), rows)
  BY Distinct DEF Scan, Outside, Inside, Paired

LEMMA PassesCr ==
  ASSUME NEW field, NEW row, NEW rows, NEW next, NEW delim \in Delimiters
  PROVE  Scan(Outside(field, row, rows), CR, next, delim)
           = Outside(field, row, rows)
  BY Distinct DEF Scan, Outside, Inside, Paired

LEMMA EndsRow ==
  ASSUME NEW field, NEW row, NEW rows, NEW next, NEW delim \in Delimiters
  PROVE  Scan(Outside(field, row, rows), LF, next, delim)
           = Outside(<< >>, << >>, Append(rows, Append(row, field)))
  BY Distinct DEF Scan, Outside, Inside, Paired

(* One more character, of a text that holds it there. *)
LEMMA Reads ==
  ASSUME NEW C, NEW text \in Seq(C), NEW delim, NEW f, Run(f, text, delim),
         NEW p \in Nat, NEW part \in Seq(C), NEW at \in Nat, Holds(text, at, part),
         NEW i \in 1 .. Len(part), p = at + i - 1
  PROVE  /\ p + 1 = at + i
         /\ f[p + 1] = Scan(f[p], part[i], NextOf(text, p + 1), delim)
         /\ i < Len(part) => NextOf(text, p + 1) = part[i + 1]
<1>1. Len(part) \in Nat /\ Len(text) \in Nat
  BY LenProperties
<1>2. p \in 0 .. Len(text) /\ p < Len(text) /\ p + 1 = at + i
  BY <1>1 DEF Holds
<1>3. text[p + 1] = part[i]
  BY <1>2 DEF Holds
<1>4. f[p + 1] = Scan(f[p], text[p + 1], NextOf(text, p + 1), delim)
  BY <1>2 DEF Run
<1>5. ASSUME i < Len(part) PROVE NextOf(text, p + 1) = part[i + 1]
  <2>1. i + 1 \in 1 .. Len(part) /\ p + 1 < Len(text) /\ (p + 1) + 1 = at + (i + 1)
    BY <1>1, <1>2, <1>5 DEF Holds
  <2> QED BY <2>1 DEF Holds, NextOf
<1> QED BY <1>2, <1>3, <1>4, <1>5

LEMMA ReadsFirst ==
  ASSUME NEW C, NEW text \in Seq(C), NEW delim, NEW f, Run(f, text, delim),
         NEW part \in Seq(C), NEW at \in Nat, Holds(text, at, part), 1 <= Len(part)
  PROVE  /\ f[at + 1] = Scan(f[at], part[1], NextOf(text, at + 1), delim)
         /\ 2 <= Len(part) => NextOf(text, at + 1) = part[2]
<1>1. Len(part) \in Nat
  BY LenProperties
<1> DEFINE i == 1
<1>2. i \in 1 .. Len(part) /\ at = at + i - 1 /\ at + i = at + 1
  BY <1>1
<1>3. 2 <= Len(part) => i < Len(part) /\ i + 1 = 2
  BY <1>1
<1> HIDE DEF i
<1>4. /\ f[at + 1] = Scan(f[at], part[i], NextOf(text, at + 1), delim)
      /\ i < Len(part) => NextOf(text, at + 1) = part[i + 1]
  BY <1>2, Reads
<1>5. i = 1
  BY DEF i
<1> QED BY <1>3, <1>4, <1>5

LEMMA ReadsSecond ==
  ASSUME NEW C, NEW text \in Seq(C), NEW delim, NEW f, Run(f, text, delim),
         NEW part \in Seq(C), NEW at \in Nat, Holds(text, at, part), 2 <= Len(part)
  PROVE  f[at + 2] = Scan(f[at + 1], part[2], NextOf(text, at + 2), delim)
<1>1. Len(part) \in Nat
  BY LenProperties
<1> DEFINE i == 2
           p == at + 1
<1>2. i \in 1 .. Len(part) /\ p \in Nat /\ p = at + i - 1 /\ p + 1 = at + 2
  BY <1>1
<1> HIDE DEF i, p
<1>3. f[p + 1] = Scan(f[p], part[i], NextOf(text, p + 1), delim)
  BY <1>2, Reads
<1>4. i = 2 /\ p = at + 1
  BY DEF i, p
<1> QED BY <1>2, <1>3, <1>4

Plain(cell, delim) == \A i \in DOMAIN cell : cell[i] \notin {delim, QUOTE, LF, CR}

LEMMA PlainCell ==
  ASSUME NEW C, NEW text \in Seq(C), NEW delim \in Delimiters, NEW f, Run(f, text, delim),
         NEW cell \in Seq(C), Plain(cell, delim), NEW at \in Nat, Holds(text, at, cell),
         NEW row, NEW rows, f[at] = Outside(<< >>, row, rows)
  PROVE  f[at + Len(cell)] = Outside(cell, row, rows)
<1> DEFINE n == Len(cell)
           S == {k \in 0 .. n : f[at + k] = Outside(SubSeq(cell, 1, k), row, rows)}
<1>0. n \in Nat /\ DOMAIN cell = 1 .. n
  BY LenProperties
<1>1. 0 \in S
  <2>1. SubSeq(cell, 1, 0) = << >>
    BY SubSeqEmpty
  <2>2. at + 0 = at /\ 0 \in 0 .. n
    BY <1>0
  <2>3. f[at + 0] = Outside(SubSeq(cell, 1, 0), row, rows)
    BY <2>1, <2>2
  <2> QED BY <2>2, <2>3
<1>2. ASSUME NEW k \in 0 .. n, k < n, k \in S PROVE k + 1 \in S
  <2>1. k + 1 \in 1 .. n /\ at + k \in Nat /\ at + k = at + (k + 1) - 1
        /\ (at + k) + 1 = at + (k + 1) /\ k + 1 \in 0 .. n
    BY <1>0, <1>2
  <2>2. f[at + (k + 1)] = Scan(f[at + k], cell[k + 1], NextOf(text, (at + k) + 1), delim)
    BY <2>1, Reads
  <2>3. f[at + k] = Outside(SubSeq(cell, 1, k), row, rows)
    BY <1>2
  <2>4. cell[k + 1] \notin {QUOTE, delim, LF, CR}
    BY <1>0, <2>1 DEF Plain
  <2>5. f[at + (k + 1)] = Outside(Append(SubSeq(cell, 1, k), cell[k + 1]), row, rows)
    BY <2>2, <2>3, <2>4, Keeps
  <2>6. SubSeq(cell, 1, k + 1) = Append(SubSeq(cell, 1, k), cell[k + 1])
    BY <1>2, SubSeqGrows
  <2> QED BY <2>1, <2>5, <2>6
<1>3. n \in S
  <2>1. \A k \in 0 .. n : k \in S
    <3> HIDE DEF S, n
    <3> QED BY <1>0, <1>1, <1>2, UpTo
  <2> QED BY <1>0, <2>1
<1>4. SubSeq(cell, 1, n) = cell
  BY SubSeqFull
<1> QED BY <1>3, <1>4

Escaped(cell) ==
  [i \in DOMAIN cell |-> IF cell[i] = QUOTE THEN <<QUOTE, QUOTE>> ELSE <<cell[i]>>]

LEMMA EscapedTyped ==
  ASSUME NEW C, QUOTE \in C, NEW cell \in Seq(C)
  PROVE  Escaped(cell) \in Seq(Seq(C)) /\ Len(Escaped(cell)) = Len(cell)
<1>1. Len(cell) \in Nat /\ DOMAIN cell = 1 .. Len(cell)
  BY LenProperties
<1>2. ASSUME NEW i \in 1 .. Len(cell)
      PROVE  (IF cell[i] = QUOTE THEN <<QUOTE, QUOTE>> ELSE <<cell[i]>>) \in Seq(C)
  <2>1. cell[i] \in C
    BY <1>2, ElementOfSeq
  <2>2. <<QUOTE, QUOTE>> \in Seq(C) /\ <<cell[i]>> \in Seq(C)
    BY <2>1
  <2> QED BY <2>2
<1>3. Escaped(cell) \in [1 .. Len(cell) -> Seq(C)]
  BY <1>1, <1>2 DEF Escaped
<1> QED BY <1>1, <1>3

(* A character inside quotes is read as it was escaped. *)
LEMMA QuotedOne ==
  ASSUME NEW C, NEW text \in Seq(C), NEW delim \in Delimiters, NEW f, Run(f, text, delim),
         NEW p \in Nat, NEW part \in Seq(C), Holds(text, p, part),
         1 <= Len(part), part[1] # QUOTE,
         NEW field, NEW row, NEW rows, f[p] = Inside(field, row, rows)
  PROVE  f[p + 1] = Inside(Append(field, part[1]), row, rows)
<1>1. f[p + 1] = Scan(f[p], part[1], NextOf(text, p + 1), delim)
  BY ReadsFirst
<1> QED BY <1>1, KeepsQuoted

LEMMA QuotedTwo ==
  ASSUME NEW C, NEW text \in Seq(C), NEW delim \in Delimiters, NEW f, Run(f, text, delim),
         NEW p \in Nat, NEW part \in Seq(C), Holds(text, p, part),
         2 <= Len(part), part[1] = QUOTE, part[2] = QUOTE,
         NEW field, NEW row, NEW rows, f[p] = Inside(field, row, rows)
  PROVE  f[p + 2] = Inside(Append(field, QUOTE), row, rows)
<1>1. Len(part) \in Nat
  BY LenProperties
<1>2. 1 <= Len(part)
  BY <1>1
<1>3. f[p + 1] = Scan(f[p], part[1], NextOf(text, p + 1), delim) /\ NextOf(text, p + 1) = part[2]
  BY <1>2, ReadsFirst
<1>4. f[p + 2] = Scan(f[p + 1], part[2], NextOf(text, p + 2), delim)
  BY ReadsSecond
<1>5. f[p + 1] = Paired(Append(field, QUOTE), row, rows)
  BY <1>3, Pairs
<1> QED BY <1>4, <1>5, Skips

Wrapped(cell) == <<QUOTE>> \o FlattenSeq(Escaped(cell)) \o <<QUOTE>>

LEMMA ByOne ==
  ASSUME NEW a \in Nat, NEW b \in Nat
  PROVE  a + (1 + b) \in Nat /\ a + (1 + b) = a + 1 + b /\ a + (1 + b) + 1 = a + (2 + b)
  OBVIOUS

LEMMA QuotedCell ==
  ASSUME NEW C, QUOTE \in C, NEW text \in Seq(C), NEW delim \in Delimiters,
         NEW f, Run(f, text, delim), NEW cell \in Seq(C), NEW at \in Nat,
         NEW written, written = Wrapped(cell),
         Holds(text, at, written), NextOf(text, at + Len(written)) # QUOTE,
         NEW row, NEW rows, f[at] = Outside(<< >>, row, rows)
  PROVE  /\ written \in Seq(C)
         /\ f[at + Len(written)] = Outside(cell, row, rows)
<1> DEFINE n == Len(cell)
           esc == Escaped(cell)
           body == FlattenSeq(esc)
           mark == <<QUOTE>>
<1>0. n \in Nat /\ DOMAIN cell = 1 .. n
  BY LenProperties
<1>a. mark \in Seq(C) /\ Len(mark) = 1 /\ mark[1] = QUOTE
  OBVIOUS
<1>b. mark \in Seq(C) /\ 1 <= Len(mark)
  OBVIOUS
<1>c. mark[1] = QUOTE
  OBVIOUS
<1>1. esc \in Seq(Seq(C)) /\ Len(esc) = n
  BY EscapedTyped
<1>d. \A i \in 1 .. n : esc[i] = IF cell[i] = QUOTE THEN <<QUOTE, QUOTE>> ELSE <<cell[i]>>
  BY <1>0 DEF Escaped
<1>2. body \in Seq(C) /\ Len(body) \in Nat
  <2> HIDE DEF esc
  <2> QED BY <1>1, Flattened, LenProperties
<1>3. PICK off : Places(off, esc, body)
  <2> HIDE DEF esc
  <2> QED BY <1>1, Flattened
<1> HIDE DEF esc, body, mark
<1>4. written = (mark \o body) \o mark /\ mark \o body \in Seq(C) /\ written \in Seq(C)
      /\ Len(mark \o body) = 1 + Len(body) /\ Len(written) = 2 + Len(body)
  <2>1. written = (mark \o body) \o mark
    BY DEF mark, body, esc, Wrapped
  <2>2. mark \o body \in Seq(C) /\ Len(mark \o body) = 1 + Len(body)
    <3>1. mark \in Seq(C)
      BY <1>a
    <3>2. Len(mark) = 1
      BY <1>a
    <3>3. mark \o body \in Seq(C) /\ Len(mark \o body) = Len(mark) + Len(body)
      BY <3>1, <1>2, ConcatProperties
    <3> QED BY <3>2, <3>3
  <2> DEFINE part == mark \o body
  <2> HIDE DEF part
  <2>3. part \in Seq(C) /\ Len(part) = 1 + Len(body)
    BY <2>2 DEF part
  <2>4. part \o mark \in Seq(C) /\ Len(part \o mark) = Len(part) + Len(mark)
    BY <1>a, <2>3, ConcatProperties
  <2>5. written = part \o mark
    BY <2>1 DEF part
  <2>6. Len(written) = 2 + Len(body)
    <3>1. Len(mark) = 1 /\ Len(written) = Len(part) + Len(mark) /\ Len(part) = 1 + Len(body)
      BY <1>a, <2>3, <2>4, <2>5
    <3> QED BY <1>2, <3>1
  <2>7. written \in Seq(C)
    BY <2>4, <2>5
  <2> QED BY <2>1, <2>2, <2>6, <2>7
<1>5. Holds(text, at, mark) /\ Holds(text, at + 1, body) /\ Holds(text, at + (1 + Len(body)), mark)
  <2>1. Holds(text, at, mark \o body) /\ Holds(text, at + Len(mark \o body), mark)
    BY <1>a, <1>4, HoldsParts
  <2>2. Holds(text, at, mark) /\ Holds(text, at + Len(mark), body)
    BY <1>a, <1>2, <2>1, HoldsParts
  <2> QED BY <1>a, <1>4, <2>1, <2>2
(* The opening quote. *)
<1>6. f[at + 1] = Inside(<< >>, row, rows)
  <2>1. at = at + 1 - 1 /\ 1 \in 1 .. Len(mark)
    BY <1>a
  <2>2. f[at + 1] = Scan(f[at], mark[1], NextOf(text, at + 1), delim)
    <3>1. Holds(text, at, mark)
      BY <1>5
    <3> QED BY <1>b, <3>1, ReadsFirst
  <2> QED BY <1>a, <2>2, Opens
(* Each character of the cell. *)
<1> DEFINE S == {k \in 0 .. n :
                   f[at + 1 + off[k]] = Inside(SubSeq(cell, 1, k), row, rows)}
<1>7. 0 \in S
  <2>1. SubSeq(cell, 1, 0) = << >>
    BY SubSeqEmpty
  <2>2. at + 1 + off[0] = at + 1 /\ 0 \in 0 .. n
    BY <1>0, <1>3 DEF Places
  <2>3. f[at + 1 + off[0]] = Inside(SubSeq(cell, 1, 0), row, rows)
    BY <1>6, <2>1, <2>2
  <2> QED BY <2>2, <2>3
<1>8. ASSUME NEW k \in 0 .. n, k < n, k \in S PROVE k + 1 \in S
  <2>1. k + 1 \in 1 .. n /\ k + 1 \in 0 .. n /\ (k + 1) - 1 = k
    BY <1>0, <1>8
  <2>2. off[k + 1] = off[k] + Len(esc[k + 1]) /\ off[k] \in Nat /\ Holds(body, off[k], esc[k + 1])
        /\ esc[k + 1] \in Seq(C)
    <3>1. off[k + 1] = off[(k + 1) - 1] + Len(esc[k + 1]) /\ Holds(body, off[(k + 1) - 1], esc[k + 1])
      BY <1>1, <1>3, <2>1 DEF Places
    <3>2. off[k] \in Nat
      BY <1>1, <1>3, <1>8 DEF Places
    <3>3. esc[k + 1] \in Seq(C)
      BY <1>1, <2>1, ElementOfSeq
    <3> QED BY <2>1, <3>1, <3>2, <3>3
  <2> DEFINE p == at + 1 + off[k]
  <2>3. p \in Nat /\ Holds(text, p, esc[k + 1])
    <3>1. at + 1 \in Nat /\ (at + 1) + off[k] = p
      BY <2>2
    <3>2. Holds(text, (at + 1) + off[k], esc[k + 1])
      BY <1>2, <1>5, <2>2, <3>1, HoldsWithin
    <3> QED BY <2>2, <3>1, <3>2
  <2>4. f[p] = Inside(SubSeq(cell, 1, k), row, rows)
    BY <1>8
  <2>5. SubSeq(cell, 1, k + 1) = Append(SubSeq(cell, 1, k), cell[k + 1])
    BY <1>8, SubSeqGrows
  <2> HIDE DEF p
  <2>6. PICK ch \in C : ch = cell[k + 1]
    BY <2>1, ElementOfSeq
  <2>7. esc[k + 1] = IF ch = QUOTE THEN <<QUOTE, QUOTE>> ELSE <<ch>>
    BY <1>d, <2>1, <2>6
  <2>8. PICK field : field = SubSeq(cell, 1, k)
    OBVIOUS
  <2>a. f[p] = Inside(field, row, rows) /\ p \in Nat
    BY <2>3, <2>4, <2>8
  <2>b. PICK part \in Seq(C) : part = esc[k + 1]
    BY <2>2
  <2>c. Holds(text, p, part)
    BY <2>3, <2>b
  <2>d. ch = QUOTE => Len(part) = 2 /\ part[1] = QUOTE /\ part[2] = QUOTE
    BY <2>7, <2>b
  <2>e. ch # QUOTE => Len(part) = 1 /\ part[1] = ch
    BY <2>7, <2>b
  <2>9. /\ ch = QUOTE => f[p + 2] = Inside(Append(SubSeq(cell, 1, k), ch), row, rows)
        /\ ch # QUOTE => f[p + 1] = Inside(Append(SubSeq(cell, 1, k), ch), row, rows)
    <3>1. CASE ch = QUOTE
      <4>0. Len(part) = 2 /\ part[1] = QUOTE /\ part[2] = QUOTE
        BY <2>d, <3>1
      <4>a. 2 <= Len(part)
        BY <4>0
      <4>1. 2 <= Len(part) /\ part[1] = QUOTE /\ part[2] = QUOTE
        BY <4>0, <4>a
      <4>2. f[p + 2] = Inside(Append(field, QUOTE), row, rows)
        BY <2>a, <2>c, <4>1, QuotedTwo
      <4> QED BY <2>8, <3>1, <4>2
    <3>2. CASE ch # QUOTE
      <4>0. Len(part) = 1 /\ part[1] = ch
        BY <2>e, <3>2
      <4>1. 1 <= Len(part) /\ part[1] # QUOTE /\ part[1] = ch
        <5>1. part[1] # QUOTE
          BY <4>0, <3>2
        <5>2. 1 <= Len(part)
          BY <4>0
        <5> QED BY <4>0, <5>1, <5>2
      <4>2. f[p + 1] = Inside(Append(field, part[1]), row, rows)
        BY <2>a, <2>c, <4>1, QuotedOne
      <4> QED BY <2>8, <3>2, <4>1, <4>2
    <3> QED BY <3>1, <3>2
  <2>10. CASE ch = QUOTE
    <3>0. Len(esc[k + 1]) = 2
      BY <2>7, <2>10
    <3>1. at + 1 + off[k + 1] = p + 2
      BY <2>2, <3>0 DEF p
    <3> QED BY <2>1, <2>5, <2>6, <2>9, <2>10, <3>1
  <2>11. CASE ch # QUOTE
    <3>0. Len(esc[k + 1]) = 1
      BY <2>7, <2>11
    <3>1. at + 1 + off[k + 1] = p + 1
      BY <2>2, <3>0 DEF p
    <3> QED BY <2>1, <2>5, <2>6, <2>9, <2>11, <3>1
  <2> QED BY <2>10, <2>11
<1>9. f[at + 1 + Len(body)] = Inside(cell, row, rows)
  <2>1. \A k \in 0 .. n : k \in S
    <3> HIDE DEF S, n
    <3> QED BY <1>0, <1>7, <1>8, UpTo
  <2>2. n \in S
    BY <1>0, <2>1
  <2>3. off[n] = Len(body)
    BY <1>1, <1>3 DEF Places
  <2>4. SubSeq(cell, 1, n) = cell
    BY SubSeqFull
  <2> QED BY <2>2, <2>3, <2>4
(* The closing quote. *)
<1> DEFINE q == at + (1 + Len(body))
<1>10. q \in Nat /\ q = at + 1 + Len(body) /\ q + 1 = at + Len(written)
  <2>1. PICK b \in Nat : b = Len(body)
    BY <1>2
  <2>2. PICK w \in Nat : w = Len(written) /\ w = 2 + b
    BY <1>4, <2>1
  <2>3. at + (1 + b) \in Nat /\ at + (1 + b) = at + 1 + b /\ at + (1 + b) + 1 = at + (2 + b)
    BY ByOne
  <2> QED BY <2>1, <2>2, <2>3
<1>11. Holds(text, q, mark)
  BY <1>5
<1> HIDE DEF q
<1>12. f[q + 1] = Scan(f[q], QUOTE, NextOf(text, q + 1), delim)
  <2>1. q \in Nat
    BY <1>10
  <2>2. f[q + 1] = Scan(f[q], mark[1], NextOf(text, q + 1), delim)
    BY <1>b, <1>11, <2>1, ReadsFirst
  <2> QED BY <1>c, <2>2
<1>13. f[q] = Inside(cell, row, rows)
  BY <1>9, <1>10
<1>14. f[q + 1] = Outside(cell, row, rows)
  BY <1>10, <1>12, <1>13, Closes
<1> QED BY <1>4, <1>10, <1>14

(* A cell is read as it was written. *)
LEMMA CellReads ==
  ASSUME NEW C, QUOTE \in C, NEW text \in Seq(C), NEW delim \in Delimiters,
         NEW f, Run(f, text, delim), NEW cell \in Seq(C), NEW at \in Nat,
         Holds(text, at, Quoted(cell, delim)),
         NextOf(text, at + Len(Quoted(cell, delim))) # QUOTE,
         NEW row, NEW rows, f[at] = Outside(<< >>, row, rows)
  PROVE  f[at + Len(Quoted(cell, delim))] = Outside(cell, row, rows)
<1>1. CASE Plain(cell, delim)
  <2>1. Quoted(cell, delim) = cell
    BY <1>1 DEF Plain, Quoted
  <2> QED BY <1>1, <2>1, PlainCell
<1>2. CASE ~Plain(cell, delim)
  <2>1. Quoted(cell, delim) = Wrapped(cell)
    BY <1>2 DEF Plain, Quoted, Escaped, Wrapped
  <2> DEFINE written == Quoted(cell, delim)
  <2>2. written = Wrapped(cell)
    BY <2>1
  <2>3. Holds(text, at, written) /\ NextOf(text, at + Len(written)) # QUOTE
    OBVIOUS
  <2> HIDE DEF written
  <2>4. f[at + Len(written)] = Outside(cell, row, rows)
    BY <2>2, <2>3, QuotedCell
  <2> QED BY <2>4 DEF written
<1> QED BY <1>1, <1>2

LEMMA QuotedTyped ==
  ASSUME NEW C, QUOTE \in C, NEW cell \in Seq(C), NEW delim
  PROVE  Quoted(cell, delim) \in Seq(C)
<1>1. Escaped(cell) \in Seq(Seq(C))
  BY EscapedTyped
<1>2. FlattenSeq(Escaped(cell)) \in Seq(C)
  BY <1>1, Flattened
<1>3. <<QUOTE>> \in Seq(C)
  OBVIOUS
<1>4. <<QUOTE>> \o FlattenSeq(Escaped(cell)) \o <<QUOTE>> \in Seq(C)
  BY <1>2, <1>3, ConcatProperties
<1>5. Quoted(cell, delim) \in {cell, <<QUOTE>> \o FlattenSeq(Escaped(cell)) \o <<QUOTE>>}
  BY DEF Quoted, Escaped
<1> QED BY <1>4, <1>5

-----------------------------------------------------------------------------
(* JoinWith *)

(* Where each part stands and ends in the text they are joined into. *)
Joins(start, end, parts, sep, text) ==
  /\ \A j \in 1 .. Len(parts) :
       /\ start[j] \in Nat /\ end[j] \in Nat
       /\ end[j] = start[j] + Len(parts[j])
       /\ Holds(text, start[j], parts[j])
       /\ j < Len(parts) => Holds(text, end[j], sep) /\ start[j + 1] = end[j] + Len(sep)
  /\ start[1] = 0
  /\ end[Len(parts)] = Len(text)

LEMMA Joined ==
  ASSUME NEW C, NEW parts \in Seq(Seq(C)), Len(parts) > 0, NEW sep \in Seq(C)
  PROVE  /\ JoinWith(parts, sep) \in Seq(C)
         /\ \E start, end : Joins(start, end, parts, sep, JoinWith(parts, sep))
<1> DEFINE n == Len(parts)
           seqs == [i \in DOMAIN parts |-> IF i = 1 THEN parts[i] ELSE sep \o parts[i]]
           text == JoinWith(parts, sep)
<1>0. n \in Nat /\ n > 0 /\ DOMAIN parts = 1 .. n /\ Len(sep) \in Nat
      /\ \A i \in 1 .. n : parts[i] \in Seq(C) /\ Len(parts[i]) \in Nat
  <2>1. n \in Nat /\ DOMAIN parts = 1 .. n /\ Len(sep) \in Nat
    BY LenProperties
  <2>2. ASSUME NEW i \in 1 .. n PROVE parts[i] \in Seq(C) /\ Len(parts[i]) \in Nat
    <3>1. parts[i] \in Seq(C)
      BY <2>2, ElementOfSeq
    <3> QED BY <3>1, LenProperties
  <2> QED BY <2>1, <2>2
<1>1. \A i \in 1 .. n : sep \o parts[i] \in Seq(C) /\ Len(sep \o parts[i]) = Len(sep) + Len(parts[i])
  BY <1>0, ConcatProperties
<1>2. seqs \in Seq(Seq(C)) /\ Len(seqs) = n
  <2>1. seqs \in [1 .. n -> Seq(C)]
    BY <1>0, <1>1
  <2> QED BY <1>0, <2>1
<1>3. \A i \in 1 .. n : seqs[i] = IF i = 1 THEN parts[i] ELSE sep \o parts[i]
  BY <1>0
<1>4. text = FlattenSeq(seqs)
  BY DEF JoinWith
<1> HIDE DEF seqs, text, n
<1>5. text \in Seq(C)
  BY <1>2, <1>4, Flattened
<1>6. PICK off : Places(off, seqs, text)
  BY <1>2, <1>4, Flattened
<1>7. off[0] = 0 /\ off[n] = Len(text) /\ \A i \in 0 .. n : off[i] \in Nat
  BY <1>2, <1>6 DEF Places
<1>8. \A i \in 1 .. n : off[i] = off[i - 1] + Len(seqs[i]) /\ Holds(text, off[i - 1], seqs[i])
  BY <1>2, <1>6 DEF Places
<1> DEFINE start == [j \in 1 .. n |-> IF j = 1 THEN 0 ELSE off[j - 1] + Len(sep)]
<1>9. start[1] = 0 /\ \A j \in 1 .. n : start[j] = IF j = 1 THEN 0 ELSE off[j - 1] + Len(sep)
  BY <1>0
<1> HIDE DEF start
<1>10. ASSUME NEW j \in 1 .. n
       PROVE  /\ start[j] \in Nat /\ off[j] \in Nat
              /\ off[j] = start[j] + Len(parts[j])
              /\ Holds(text, start[j], parts[j])
              /\ j # 1 => Holds(text, off[j - 1], sep)
  <2>0. j - 1 \in 0 .. n /\ j \in 0 .. n
    BY <1>0
  <2>1. CASE j = 1
    <3>1. start[j] = 0 /\ off[j - 1] = 0 /\ seqs[j] = parts[j]
      BY <1>3, <1>7, <1>9, <2>1
    <3>2. off[j] = off[j - 1] + Len(seqs[j]) /\ Holds(text, off[j - 1], seqs[j])
      BY <1>8
    <3>3. Holds(text, start[j], parts[j]) /\ off[j] = start[j] + Len(parts[j])
      BY <3>1, <3>2
    <3>4. start[j] \in Nat /\ off[j] \in Nat
      BY <1>7, <2>0, <3>1
    <3> QED BY <2>1, <3>3, <3>4
  <2>2. CASE j # 1
    <3>1. seqs[j] = sep \o parts[j]
      BY <1>3, <2>2
    <3>2. Holds(text, off[j - 1], sep \o parts[j])
      BY <1>8, <3>1
    <3>3. parts[j] \in Seq(C) /\ off[j - 1] \in Nat
      BY <1>0, <1>7, <2>0
    <3>4. Holds(text, off[j - 1], sep) /\ Holds(text, off[j - 1] + Len(sep), parts[j])
      BY <1>5, <3>2, <3>3, HoldsParts
    <3>5. start[j] = off[j - 1] + Len(sep)
      BY <1>9, <2>2
    <3>6. PICK a \in Nat : a = Len(sep)
      BY <1>0
    <3>7. PICK b \in Nat : b = Len(parts[j])
      BY <1>0
    <3>8. off[j] = off[j - 1] + (a + b)
      BY <1>1, <1>8, <3>1, <3>6, <3>7
    <3>9. start[j] \in Nat /\ off[j] = start[j] + b
      <4>1. PICK o \in Nat : o = off[j - 1]
        BY <3>3
      <4>2. start[j] = o + a /\ off[j] = o + (a + b)
        BY <3>5, <3>6, <3>8, <4>1
      <4>3. o + a \in Nat /\ o + (a + b) = (o + a) + b
        OBVIOUS
      <4> QED BY <4>2, <4>3
    <3>10. off[j] \in Nat
      BY <1>7, <2>0
    <3>11. Holds(text, start[j], parts[j])
      BY <3>4, <3>5
    <3> QED BY <3>4, <3>7, <3>9, <3>10, <3>11
  <2> QED BY <2>1, <2>2
<1>11. ASSUME NEW j \in 1 .. n, j < n
       PROVE  Holds(text, off[j], sep) /\ start[j + 1] = off[j] + Len(sep)
  <2>1. j + 1 \in 1 .. n /\ j + 1 # 1 /\ (j + 1) - 1 = j
    BY <1>0, <1>11
  <2>2. Holds(text, off[(j + 1) - 1], sep)
    BY <1>10, <2>1
  <2>3. start[j + 1] = off[(j + 1) - 1] + Len(sep)
    BY <1>9, <2>1
  <2> QED BY <2>1, <2>2, <2>3
<1>12. Joins(start, off, parts, sep, text)
  BY <1>7, <1>9, <1>10, <1>11 DEF Joins, n
<1> QED BY <1>5, <1>12 DEF text

(* What a row written as a line is read as: its last cell is still being  *)
(* read when the line ends.                                                *)
Line(row, delim) == JoinWith([j \in DOMAIN row |-> Quoted(row[j], delim)], <<delim>>)

LEMMA SubSeqAll ==
  ASSUME NEW S, NEW s \in Seq(S), Len(s) > 0
  PROVE  /\ Len(s) - 1 \in 0 .. Len(s) /\ Len(s) \in 1 .. Len(s)
         /\ Append(SubSeq(s, 1, Len(s) - 1), s[Len(s)]) = s
<1>1. Len(s) \in Nat
  BY LenProperties
<1>2. PICK k \in 0 .. Len(s) : k = Len(s) - 1 /\ k + 1 = Len(s) /\ k < Len(s)
  <2>1. Len(s) - 1 \in 0 .. Len(s) /\ (Len(s) - 1) + 1 = Len(s) /\ Len(s) - 1 < Len(s)
    BY <1>1
  <2> QED BY <2>1
<1>3. SubSeq(s, 1, k + 1) = Append(SubSeq(s, 1, k), s[k + 1])
  BY <1>2, SubSeqGrows
<1>4. SubSeq(s, 1, Len(s)) = s
  BY SubSeqFull
<1> QED BY <1>1, <1>2, <1>3, <1>4

LEMMA FirstOfNext ==
  ASSUME NEW C, NEW text \in Seq(C), NEW at \in Nat, NEW part \in Seq(C), 1 <= Len(part),
         Holds(text, at, part)
  PROVE  NextOf(text, at) = part[1]
<1>1. Len(part) \in Nat /\ Len(text) \in Nat
  BY LenProperties
<1>2. 1 \in 1 .. Len(part) /\ at < Len(text)
  BY <1>1 DEF Holds
<1> QED BY <1>2 DEF Holds, NextOf

LEMMA LineTyped ==
  ASSUME NEW C, QUOTE \in C, NEW delim \in C, NEW row \in Seq(Seq(C)), Len(row) > 0
  PROVE  /\ Line(row, delim) \in Seq(C)
         /\ \E start, end, parts :
              /\ parts \in Seq(Seq(C)) /\ Len(parts) = Len(row)
              /\ \A j \in 1 .. Len(row) : parts[j] = Quoted(row[j], delim)
              /\ Joins(start, end, parts, <<delim>>, Line(row, delim))
<1> DEFINE parts == [j \in DOMAIN row |-> Quoted(row[j], delim)]
           sep == <<delim>>
<1>1. Len(row) \in Nat /\ DOMAIN row = 1 .. Len(row)
  BY LenProperties
<1>2. \A j \in 1 .. Len(row) : Quoted(row[j], delim) \in Seq(C)
  <2>1. \A j \in 1 .. Len(row) : row[j] \in Seq(C)
    BY ElementOfSeq
  <2> QED BY <2>1, QuotedTyped
<1>3. parts \in Seq(Seq(C)) /\ Len(parts) = Len(row)
  <2>1. parts \in [1 .. Len(row) -> Seq(C)]
    BY <1>1, <1>2
  <2> QED BY <1>1, <2>1
<1>4. \A j \in 1 .. Len(row) : parts[j] = Quoted(row[j], delim)
  BY <1>1
<1>5. sep \in Seq(C)
  OBVIOUS
<1>6. Line(row, delim) = JoinWith(parts, sep)
  BY DEF Line
<1> HIDE DEF parts, sep
<1>7. /\ JoinWith(parts, sep) \in Seq(C)
      /\ \E start, end : Joins(start, end, parts, sep, JoinWith(parts, sep))
  BY <1>3, <1>5, Joined
<1>8. sep = <<delim>>
  BY DEF sep
<1> QED BY <1>3, <1>4, <1>6, <1>7, <1>8

LEMMA LineReads ==
  ASSUME NEW C, QUOTE \in C, NEW text \in Seq(C), NEW delim \in Delimiters, delim \in C,
         NEW f, Run(f, text, delim), NEW row \in Seq(Seq(C)), Len(row) > 0,
         NEW at \in Nat, Holds(text, at, Line(row, delim)),
         NextOf(text, at + Len(Line(row, delim))) # QUOTE,
         NEW rows, f[at] = Outside(<< >>, << >>, rows)
  PROVE  f[at + Len(Line(row, delim))]
           = Outside(row[Len(row)], SubSeq(row, 1, Len(row) - 1), rows)
<1> DEFINE n == Len(row)
           line == Line(row, delim)
           sep == <<delim>>
<1>1. line \in Seq(C) /\ Len(line) \in Nat
  BY LineTyped, LenProperties
<1>2. PICK start, end, parts :
        /\ parts \in Seq(Seq(C)) /\ Len(parts) = n
        /\ \A j \in 1 .. n : parts[j] = Quoted(row[j], delim)
        /\ Joins(start, end, parts, sep, line)
  BY LineTyped
<1>3. n \in Nat /\ n > 0 /\ DOMAIN row = 1 .. n /\ \A j \in 1 .. n : row[j] \in Seq(C)
  BY LenProperties, ElementOfSeq
<1>4. sep \in Seq(C) /\ Len(sep) = 1 /\ sep[1] = delim
  OBVIOUS
<1>5. Holds(text, at, line) /\ NextOf(text, at + Len(line)) # QUOTE
  OBVIOUS
<1>6. n - 1 \in 0 .. n - 1
  BY <1>3
<1> HIDE DEF n, line, sep
<1>7. start[1] = 0 /\ end[n] = Len(line)
  BY <1>2 DEF Joins
<1>8. ASSUME NEW j \in 1 .. n
      PROVE  /\ start[j] \in Nat /\ end[j] \in Nat
             /\ end[j] = start[j] + Len(Quoted(row[j], delim))
             /\ Quoted(row[j], delim) \in Seq(C)
             /\ Holds(line, start[j], Quoted(row[j], delim))
             /\ j < n => Holds(line, end[j], sep) /\ start[j + 1] = end[j] + 1
  <2>1. parts[j] = Quoted(row[j], delim)
    BY <1>2
  <2>2. Quoted(row[j], delim) \in Seq(C)
    BY <1>3, QuotedTyped
  <2> QED BY <1>2, <1>4, <2>1, <2>2 DEF Joins
(* Where the line stands in the text. *)
<1>9. ASSUME NEW j \in 1 .. n
      PROVE  /\ Holds(text, at + start[j], Quoted(row[j], delim))
             /\ j < n => Holds(text, at + end[j], sep)
             /\ NextOf(text, at + end[j]) # QUOTE
  <2>1. Holds(text, at + start[j], Quoted(row[j], delim))
    BY <1>1, <1>5, <1>8, HoldsWithin
  <2>2. ASSUME j < n PROVE Holds(text, at + end[j], sep)
    BY <1>1, <1>4, <1>5, <1>8, <2>2, HoldsWithin
  <2>3. CASE j < n
    <3>1. PICK p \in Nat : p = at + end[j]
      BY <1>8
    <3>2. Holds(text, p, sep)
      BY <2>2, <2>3, <3>1
    <3>3. 1 <= Len(sep) /\ sep \in Seq(C)
      BY <1>4
    <3>4. NextOf(text, p) = sep[1]
      BY <3>2, <3>3, FirstOfNext
    <3>5. sep[1] = delim
      BY <1>4
    <3> QED BY <2>1, <2>2, <3>1, <3>4, <3>5, Distinct
  <2>4. CASE j = n
    BY <1>5, <1>7, <2>1, <2>2, <2>4
  <2> QED BY <1>3, <2>3, <2>4
(* A cell that begins outside quotes, with the cells before it read. *)
<1>10. ASSUME NEW j \in 1 .. n, NEW before, f[at + start[j]] = Outside(<< >>, before, rows)
       PROVE  f[at + end[j]] = Outside(row[j], before, rows)
  <2>1. PICK cell \in Seq(C) : cell = row[j]
    BY <1>3
  <2>2. PICK p \in Nat : p = at + start[j]
    BY <1>8
  <2>3. PICK m \in Nat : m = Len(Quoted(cell, delim))
    BY <1>8, <2>1, LenProperties
  <2>4. at + end[j] = p + m
    <3>1. PICK a \in Nat : a = start[j]
      BY <1>8
    <3>2. end[j] = a + m
      BY <1>8, <2>1, <2>3, <3>1
    <3> QED BY <2>2, <3>1, <3>2
  <2>5. Holds(text, p, Quoted(cell, delim)) /\ NextOf(text, p + m) # QUOTE
    BY <1>9, <2>1, <2>2, <2>4
  <2>6. f[p] = Outside(<< >>, before, rows)
    BY <1>10, <2>2
  <2>7. f[p + m] = Outside(cell, before, rows)
    BY <2>3, <2>5, <2>6, CellReads
  <2> QED BY <2>1, <2>4, <2>7
<1> DEFINE S == {k \in 0 .. n - 1 :
                   f[at + end[k + 1]] = Outside(row[k + 1], SubSeq(row, 1, k), rows)}
<1>11. 0 \in S
  <2>1. SubSeq(row, 1, 0) = << >>
    BY SubSeqEmpty
  <2>2. 1 \in 1 .. n /\ 0 \in 0 .. n - 1 /\ 0 + 1 = 1
    BY <1>3
  <2>3. at + start[1] = at
    BY <1>7
  <2>4. f[at + end[1]] = Outside(row[1], SubSeq(row, 1, 0), rows)
    BY <1>10, <2>1, <2>2, <2>3
  <2> QED BY <2>2, <2>4
<1>12. ASSUME NEW k \in 0 .. n - 1, k < n - 1, k \in S PROVE k + 1 \in S
  <2>0. PICK j \in 1 .. n : j = k + 1 /\ j < n /\ j + 1 \in 1 .. n /\ j \in 0 .. n - 1
    BY <1>3, <1>12
  <2>1. f[at + end[j]] = Outside(row[j], SubSeq(row, 1, k), rows)
    BY <1>12, <2>0
  <2>a. PICK e \in Nat : e = end[j] /\ start[j + 1] = e + 1
    BY <1>8, <2>0
  <2>2. PICK p \in Nat : p = at + end[j] /\ at + (e + 1) = p + 1
    <3>1. at + e \in Nat /\ at + (e + 1) = (at + e) + 1
      OBVIOUS
    <3> QED BY <2>a, <3>1
  <2>3. Holds(text, p, sep) /\ at + start[j + 1] = p + 1
    BY <1>9, <2>0, <2>a, <2>2
  <2>b. 1 <= Len(sep) /\ sep \in Seq(C)
    BY <1>4
  <2>c. f[p + 1] = Scan(f[p], sep[1], NextOf(text, p + 1), delim)
    BY <2>3, <2>b, ReadsFirst
  <2>4. f[p + 1] = Scan(f[p], delim, NextOf(text, p + 1), delim)
    BY <1>4, <2>c
  <2>5. f[p + 1] = Outside(<< >>, Append(SubSeq(row, 1, k), row[j]), rows)
    BY <2>1, <2>2, <2>4, EndsCell
  <2>6. SubSeq(row, 1, j) = Append(SubSeq(row, 1, k), row[j])
    <3>1. k \in 0 .. Len(row) /\ k < Len(row)
      BY <1>3, <1>12 DEF n
    <3> QED BY <2>0, <3>1, SubSeqGrows
  <2>7. f[at + start[j + 1]] = Outside(<< >>, SubSeq(row, 1, j), rows)
    BY <2>3, <2>5, <2>6
  <2>8. f[at + end[j + 1]] = Outside(row[j + 1], SubSeq(row, 1, j), rows)
    BY <1>10, <2>0, <2>7
  <2> QED BY <2>0, <2>8
<1>13. n - 1 \in S
  <2>1. n - 1 \in Nat
    BY <1>3
  <2>2. \A k \in 0 .. n - 1 : k \in S
    <3> HIDE DEF S
    <3> QED BY <1>11, <1>12, <2>1, UpTo
  <2> QED BY <1>6, <2>2
<1>14. (n - 1) + 1 = n
  BY <1>3
<1>15. f[at + end[n]] = Outside(row[n], SubSeq(row, 1, n - 1), rows)
  BY <1>13, <1>14
<1> QED BY <1>7, <1>15 DEF n, line

(* A table that toCsv can write without losing where a row ends: every row *)
(* has a cell, and the last one is not a single empty cell, of which       *)
(* nothing is left in the text.                                            *)
Table(C) == {rows \in Seq(Seq(Seq(C))) :
               /\ \A i \in 1 .. Len(rows) : rows[i] # << >>
               /\ rows # << >> => rows[Len(rows)] # << << >> >>}

LEMMA EmptyTable ==
  ASSUME NEW C, NEW delim
  PROVE  parseRows(toCsv(<< >>, delim), delim) = << >>
<1> DEFINE text == toCsv(<< >>, delim)
<1>1. text = << >>
  BY DEF toCsv, JoinWith, FlattenSeq
<1>2. text \in Seq(C)
  BY <1>1, EmptySeq
<1>3. Len(text) = 0
  BY <1>1
<1> HIDE DEF text
<1>4. PICK f : Run(f, text, delim) /\ parseRows(text, delim) = Read(f[Len(text)])
  BY <1>2, RunExists
<1>5. f[Len(text)] = Clean
  BY <1>3, <1>4 DEF Run
<1>6. Read(Clean) = << >>
  BY DEF Read, Clean, Outside
<1> QED BY <1>4, <1>5, <1>6 DEF text

(* What toCsv writes, the loop of parseCsv reads back, whatever the cells  *)
(* contain: quotes, delimiters and line ends come back as they were.       *)
THEOREM WrittenIsRead ==
  ASSUME NEW C, {QUOTE, LF, CR} \subseteq C,
         NEW delim \in Delimiters, delim \in C,
         NEW rows \in Table(C)
  PROVE  parseRows(toCsv(rows, delim), delim) = rows
<1> DEFINE n == Len(rows)
           parts == [i \in DOMAIN rows |-> Line(rows[i], delim)]
           sep == <<CR, LF>>
           text == toCsv(rows, delim)
<1>1. rows \in Seq(Seq(Seq(C))) /\ n \in Nat /\ DOMAIN rows = 1 .. n
  BY LenProperties DEF Table
<1>2. CASE n = 0
  <2>1. rows = << >>
    BY <1>1, <1>2
  <2> QED BY <2>1, EmptyTable
<1>3. CASE n # 0
  <2>0. n > 0 /\ n \in 1 .. n /\ 1 \in 1 .. n /\ n - 1 \in 0 .. n - 1 /\ n - 1 \in Nat /\ (n - 1) + 1 = n
    BY <1>1, <1>3
  <2>1. ASSUME NEW i \in 1 .. n
        PROVE  rows[i] \in Seq(Seq(C)) /\ Len(rows[i]) \in Nat /\ Len(rows[i]) > 0
    <3>1. rows[i] \in Seq(Seq(C))
      BY <1>1, ElementOfSeq
    <3>2. rows[i] # << >>
      BY DEF Table
    <3>3. Len(rows[i]) \in Nat
      BY <3>1, LenProperties
    <3>4. Len(rows[i]) # 0
      BY <3>1, <3>2, EmptySeq
    <3> QED BY <3>1, <3>3, <3>4
  <2>2. \A i \in 1 .. n : Line(rows[i], delim) \in Seq(C)
    BY <2>1, LineTyped
  <2>3. parts \in Seq(Seq(C)) /\ Len(parts) = n
    <3>1. parts \in [1 .. n -> Seq(C)]
      BY <1>1, <2>2
    <3> QED BY <1>1, <3>1
  <2>4. \A i \in 1 .. n : parts[i] = Line(rows[i], delim)
    BY <1>1
  <2>5. text = JoinWith(parts, sep)
    BY DEF toCsv, Line
  <2>6. sep \in Seq(C) /\ Len(sep) = 2 /\ sep[1] = CR /\ sep[2] = LF
    OBVIOUS
  <2>7. rows[n] # << << >> >>
    BY <1>1, <1>3 DEF Table
  <2> HIDE DEF n, parts, sep, text
  <2>8. text \in Seq(C) /\ \E start, end : Joins(start, end, parts, sep, text)
    BY <2>0, <2>3, <2>5, <2>6, Joined
  <2>9. PICK start, end : Joins(start, end, parts, sep, text)
    BY <2>8
  <2>10. PICK f : Run(f, text, delim) /\ parseRows(text, delim) = Read(f[Len(text)])
    BY <2>8, RunExists
  <2>11. start[1] = 0 /\ end[n] = Len(text) /\ Len(text) \in Nat
    BY <2>3, <2>8, <2>9, LenProperties DEF Joins
  <2>12. ASSUME NEW i \in 1 .. n
         PROVE  /\ start[i] \in Nat /\ end[i] \in Nat
                /\ end[i] = start[i] + Len(Line(rows[i], delim))
                /\ Holds(text, start[i], Line(rows[i], delim))
                /\ i < n => Holds(text, end[i], sep) /\ start[i + 1] = end[i] + 2
    BY <2>3, <2>4, <2>6, <2>9 DEF Joins
  <2>13. ASSUME NEW i \in 1 .. n
         PROVE  NextOf(text, end[i]) # QUOTE
    <3>1. CASE i < n
      <4>1. end[i] \in Nat /\ Holds(text, end[i], sep)
        BY <2>12, <3>1
      <4>2. 1 <= Len(sep) /\ sep \in Seq(C)
        BY <2>6
      <4>3. NextOf(text, end[i]) = sep[1]
        BY <2>8, <4>1, <4>2, FirstOfNext
      <4>4. sep[1] = CR
        BY <2>6
      <4> QED BY <4>3, <4>4, Distinct
    <3>2. CASE i = n
      <4>1. NextOf(text, end[i]) = LF
        BY <2>11, <3>2 DEF NextOf
      <4> QED BY <4>1, Distinct
    <3> QED BY <1>1, <3>1, <3>2
  (* A row that begins with nothing kept, after the rows before it. *)
  <2> DEFINE last(i) == Len(rows[i])
             Closing(i, before) == Outside(rows[i][last(i)], SubSeq(rows[i], 1, last(i) - 1), before)
  <2>14. ASSUME NEW i \in 1 .. n, NEW before, f[start[i]] = Outside(<< >>, << >>, before)
         PROVE  f[end[i]] = Closing(i, before)
    <3>1. PICK row \in Seq(Seq(C)) : row = rows[i] /\ Len(row) > 0
      BY <2>1
    <3>2. PICK p \in Nat : p = start[i]
      BY <2>12
    <3>3. end[i] = p + Len(Line(row, delim)) /\ Holds(text, p, Line(row, delim))
      BY <2>12, <3>1, <3>2
    <3>4. NextOf(text, p + Len(Line(row, delim))) # QUOTE
      BY <2>13, <3>3
    <3>5. f[p] = Outside(<< >>, << >>, before)
      BY <2>14, <3>2
    <3>6. f[p + Len(Line(row, delim))] = Outside(row[Len(row)], SubSeq(row, 1, Len(row) - 1), before)
      BY <2>8, <2>10, <3>1, <3>3, <3>4, <3>5, LineReads
    <3> QED BY <3>1, <3>3, <3>6
  <2>15. ASSUME NEW i \in 1 .. n
         PROVE  Append(SubSeq(rows[i], 1, last(i) - 1), rows[i][last(i)]) = rows[i]
    <3>1. PICK row \in Seq(Seq(C)) : row = rows[i] /\ Len(row) > 0
      BY <2>1
    <3> QED BY <3>1, SubSeqAll
  <2> DEFINE S == {k \in 0 .. n - 1 : f[end[k + 1]] = Closing(k + 1, SubSeq(rows, 1, k))}
  <2>16. 0 \in S
    <3>1. SubSeq(rows, 1, 0) = << >>
      BY SubSeqEmpty
    <3>2. f[start[1]] = Outside(<< >>, << >>, << >>)
      BY <2>10, <2>11 DEF Run, Clean
    <3>3. f[end[1]] = Closing(1, SubSeq(rows, 1, 0))
      BY <2>0, <2>14, <3>1, <3>2
    <3>4. 0 \in 0 .. n - 1 /\ 0 + 1 = 1
      BY <2>0
    <3> QED BY <3>3, <3>4
  <2>17. ASSUME NEW k \in 0 .. n - 1, k < n - 1, k \in S PROVE k + 1 \in S
    <3>0. PICK i \in 1 .. n : i = k + 1 /\ i < n /\ i + 1 \in 1 .. n /\ i \in 0 .. n - 1
      <4>1. k + 1 \in 1 .. n /\ k + 1 < n /\ (k + 1) + 1 \in 1 .. n /\ k + 1 \in 0 .. n - 1
        BY <1>1, <2>17
      <4> QED BY <4>1
    <3>1. PICK before : before = SubSeq(rows, 1, k)
      OBVIOUS
    <3>2. f[end[i]] = Closing(i, before)
      BY <2>17, <3>0, <3>1
    <3>3. PICK p \in Nat : p = end[i]
      BY <2>12
    <3>4. Holds(text, p, sep) /\ start[i + 1] = p + 2
      BY <2>12, <3>0, <3>3
    <3>5. PICK field : field = rows[i][last(i)]
      OBVIOUS
    <3>6. PICK row : row = SubSeq(rows[i], 1, last(i) - 1)
      OBVIOUS
    <3>7. f[p] = Outside(field, row, before)
      BY <3>2, <3>3, <3>5, <3>6
    <3>8. sep \in Seq(C) /\ 1 <= Len(sep) /\ 2 <= Len(sep)
      BY <2>6
    <3>a. text \in Seq(C) /\ Run(f, text, delim) /\ Holds(text, p, sep)
      BY <2>8, <2>10, <3>4
    <3>9. f[p + 1] = Scan(f[p], sep[1], NextOf(text, p + 1), delim)
      BY <3>a, <3>8, ReadsFirst
    <3>10. f[p + 2] = Scan(f[p + 1], sep[2], NextOf(text, p + 2), delim)
      BY <3>a, <3>8, ReadsSecond
    <3>11. sep[1] = CR /\ sep[2] = LF
      BY <2>6
    <3>12. f[p + 1] = Outside(field, row, before)
      BY <3>7, <3>9, <3>11, PassesCr
    <3>13. f[p + 2] = Outside(<< >>, << >>, Append(before, Append(row, field)))
      BY <3>10, <3>11, <3>12, EndsRow
    <3>14. Append(row, field) = rows[i]
      BY <2>15, <3>5, <3>6
    <3>15. SubSeq(rows, 1, i) = Append(before, rows[i])
      <4>1. k \in 0 .. Len(rows) /\ k < Len(rows)
        BY <1>1, <2>17 DEF n
      <4> QED BY <1>1, <3>0, <3>1, <4>1, SubSeqGrows
    <3>16. f[start[i + 1]] = Outside(<< >>, << >>, SubSeq(rows, 1, i))
      BY <3>4, <3>13, <3>14, <3>15
    <3>17. f[end[i + 1]] = Closing(i + 1, SubSeq(rows, 1, i))
      <4> HIDE DEF Closing
      <4> QED BY <2>14, <3>0, <3>16
    <3> HIDE DEF Closing
    <3> QED BY <3>0, <3>17
  <2>18. n - 1 \in S
    <3>1. \A k \in 0 .. n - 1 : k \in S
      <4> HIDE DEF S
      <4> QED BY <2>0, <2>16, <2>17, UpTo
    <3> QED BY <2>0, <3>1
  <2>19. f[Len(text)] = Closing(n, SubSeq(rows, 1, n - 1))
    <3> HIDE DEF Closing
    <3> QED BY <2>0, <2>11, <2>18
(* The last row, which no line end closes. *)
  <2>20. PICK field : field = rows[n][last(n)]
    OBVIOUS
  <2>21. PICK row : row = SubSeq(rows[n], 1, last(n) - 1)
    OBVIOUS
  <2>22. PICK before : before = SubSeq(rows, 1, n - 1)
    OBVIOUS
  <2>23. f[Len(text)] = Outside(field, row, before)
    BY <2>19, <2>20, <2>21, <2>22
  <2>24. Append(row, field) = rows[n]
    BY <2>0, <2>15, <2>20, <2>21
  <2>25. Append(before, rows[n]) = rows
    BY <1>1, <2>0, <2>22, SubSeqAll DEF n
  <2>26. field # << >> \/ row # << >>
    <3>1. Append(<< >>, << >>) = << << >> >>
      OBVIOUS
    <3> QED BY <2>7, <2>24, <3>1
  <2>27. Read(Outside(field, row, before)) = Append(before, Append(row, field))
    BY <2>26 DEF Read, Outside
  <2> QED BY <2>10, <2>23, <2>24, <2>25, <2>27 DEF text
<1> QED BY <1>2, <1>3

(* The first line of a text, which decides its delimiter.                  *)
FirstLine(text) ==
  LET ends == {i \in DOMAIN text : text[i] = LF} IN
  IF ends = {} THEN text
  ELSE SubSeq(text, 1, (CHOOSE i \in ends : \A j \in ends : i <= j) - 1)

LEMMA MarkRemoved ==
  ASSUME NEW C, NEW text \in Seq(C), NEW mark
  PROVE  LET marked == <<mark>> \o text IN
         marked # << >> /\ marked[1] = mark /\ Tail(marked) = text
<1> DEFINE D == C \cup {mark}
           m == <<mark>>
           marked == m \o text
<1>1. m \in Seq(D) /\ Len(m) = 1 /\ m[1] = mark /\ text \in Seq(D) /\ Len(text) \in Nat
  <2>1. C \subseteq D
    OBVIOUS
  <2>2. text \in Seq(D)
    <3> HIDE DEF D
    <3> QED BY <2>1, SeqMonotonic
  <2>3. m \in Seq(D) /\ Len(m) = 1 /\ m[1] = mark
    OBVIOUS
  <2> QED BY <2>2, <2>3, LenProperties
<1> HIDE DEF m, D
<1>2. /\ marked \in Seq(D) /\ Len(marked) = 1 + Len(text)
      /\ \A i \in 1 .. 1 + Len(text) : marked[i] = IF i <= 1 THEN m[i] ELSE text[i - 1]
  BY <1>1, ConcatProperties
<1>3. marked[1] = mark /\ marked # << >>
  <2>1. 1 \in 1 .. 1 + Len(text) /\ 1 <= 1
    BY <1>1
  <2>2. marked[1] = m[1]
    BY <1>2, <2>1
  <2>3. Len(marked) # 0
    BY <1>1, <1>2
  <2> HIDE DEF marked
  <2>4. marked # << >>
    BY <2>3
  <2> QED BY <1>1, <2>2, <2>4
<1> HIDE DEF marked
<1>4. Tail(marked) \in Seq(D) /\ Len(Tail(marked)) = Len(text)
      /\ \A i \in 1 .. Len(text) : Tail(marked)[i] = text[i]
  <2>1. PICK n \in Nat : n = Len(text)
    BY <1>1
  <2>2. Len(marked) = 1 + n /\ marked \in Seq(D) /\ marked # << >>
    BY <1>2, <1>3, <2>1
  <2>3. /\ Tail(marked) \in Seq(D) /\ Len(Tail(marked)) = Len(marked) - 1
        /\ \A i \in 1 .. Len(Tail(marked)) : Tail(marked)[i] = marked[i + 1]
    BY <2>2, HeadTailProperties
  <2>4. Len(Tail(marked)) = n
    BY <2>2, <2>3
  <2>5. ASSUME NEW i \in 1 .. n PROVE Tail(marked)[i] = text[i]
    <3>1. i + 1 \in 1 .. 1 + n /\ ~(i + 1 <= 1) /\ (i + 1) - 1 = i
      OBVIOUS
    <3>2. marked[i + 1] = text[i]
      BY <1>2, <2>1, <3>1
    <3> QED BY <2>3, <2>4, <3>2
  <2> QED BY <2>1, <2>3, <2>4, <2>5
<1>5. Tail(marked) = text
  BY <1>1, <1>4, SeqEqual
<1> QED BY <1>3, <1>5 DEF marked, m

LEMMA WrittenTyped ==
  ASSUME NEW C, {QUOTE, LF, CR} \subseteq C, NEW delim \in C, NEW rows \in Table(C)
  PROVE  toCsv(rows, delim) \in Seq(C)
<1> DEFINE n == Len(rows)
           parts == [i \in DOMAIN rows |-> Line(rows[i], delim)]
           sep == <<CR, LF>>
<1>1. rows \in Seq(Seq(Seq(C))) /\ n \in Nat /\ DOMAIN rows = 1 .. n
  BY LenProperties DEF Table
<1>2. CASE n = 0
  <2>1. rows = << >>
    BY <1>1, <1>2
  <2>2. toCsv(<< >>, delim) = << >>
    BY DEF toCsv, JoinWith, FlattenSeq
  <2> QED BY <2>1, <2>2, EmptySeq
<1>3. CASE n # 0
  <2>1. ASSUME NEW i \in 1 .. n PROVE Line(rows[i], delim) \in Seq(C)
    <3>1. rows[i] \in Seq(Seq(C)) /\ rows[i] # << >>
      BY <1>1, ElementOfSeq DEF Table
    <3>2. Len(rows[i]) > 0
      BY <3>1, EmptySeq
    <3> QED BY <3>1, <3>2, LineTyped
  <2>2. parts \in Seq(Seq(C)) /\ Len(parts) = n
    <3>1. parts \in [1 .. n -> Seq(C)]
      BY <1>1, <2>1
    <3> QED BY <1>1, <3>1
  <2>3. sep \in Seq(C) /\ n > 0
    BY <1>1, <1>3
  <2>4. toCsv(rows, delim) = JoinWith(parts, sep)
    BY DEF toCsv, Line
  <2> HIDE DEF parts, sep, n
  <2> QED BY <2>2, <2>3, <2>4, Joined
<1> QED BY <1>2, <1>3

(* What is exported, after the mark the export puts before it, parseCsv    *)
(* reads as the rows that were written, less the blank ones, once it has   *)
(* detected the delimiter they were written with (exportCollaborators,     *)
(* parseCsv).                                                              *)
THEOREM ExportIsRead ==
  ASSUME NEW C, {QUOTE, LF, CR} \subseteq C,
         NEW delim \in Delimiters, delim \in C,
         NEW rows \in Table(C),
         detectDelimiter(FirstLine(toCsv(rows, delim))) = delim
  PROVE  parseCsv(<<BOM>> \o toCsv(rows, delim)) = Headed(NonEmpty(rows))
<1> DEFINE text == toCsv(rows, delim)
           marked == <<BOM>> \o text
           body == IF marked # << >> /\ marked[1] = BOM THEN Tail(marked) ELSE marked
<1>0. text \in Seq(C)
  BY WrittenTyped
<1>1. body = text
  <2> HIDE DEF text
  <2> QED BY <1>0, MarkRemoved
<1>2. parseCsv(marked) = Headed(NonEmpty(parseRows(body, detectDelimiter(FirstLine(body)))))
  BY DEF parseCsv, FirstLine
<1>3. parseRows(text, delim) = rows
  BY WrittenIsRead
<1> QED BY <1>1, <1>2, <1>3

-----------------------------------------------------------------------------
(* UTF-8 *)

Byte == 0 .. 255

(* The continuations that follow the first byte of a character. *)
Follows(buf, i, n) ==
  n >= 0 /\ i + n <= Len(buf) /\ \A k \in 1 .. n : buf[i + k] \div 64 = 2

(* The sets of places from which a buffer is valid, and from which it is   *)
(* cut into characters, where both are computed from some place on.        *)
ValidFrom(V, buf, low) ==
  \A i \in low .. Len(buf) + 1 :
    i \in V <=> \/ i > Len(buf)
                \/ /\ Follows(buf, i, Continuations(buf[i]))
                   /\ i + Continuations(buf[i]) + 1 \in V

CutFrom(V, buf, low) ==
  \A i \in low .. Len(buf) + 1 :
    i \in V <=> \/ i = Len(buf) + 1
                \/ \E n \in 1 .. 4 : /\ i + n <= Len(buf) + 1
                                     /\ Character(SubSeq(buf, i, i + n - 1))
                                     /\ i + n \in V

LEMMA ContinuationsAre ==
  ASSUME NEW b
  PROVE  Continuations(b) \in -1 .. 3
BY DEF Continuations

LEMMA ValidExists ==
  ASSUME NEW buf \in Seq(Byte)
  PROVE  \E V : ValidFrom(V, buf, 1)
<1> DEFINE m == Len(buf)
           S == {k \in 0 .. m : \E V : ValidFrom(V, buf, m + 1 - k)}
<1>0. m \in Nat
  BY LenProperties
<1>1. 0 \in S
  <2>1. ValidFrom({m + 1}, buf, m + 1)
    BY <1>0, ContinuationsAre DEF ValidFrom
  <2> QED BY <1>0, <2>1
<1>2. ASSUME NEW k \in 0 .. m, k < m, k \in S PROVE k + 1 \in S
  <2>1. PICK V : ValidFrom(V, buf, m + 1 - k)
    BY <1>2
  <2> DEFINE at == m - k
             body == /\ Follows(buf, at, Continuations(buf[at]))
                     /\ at + Continuations(buf[at]) + 1 \in V
             W == {i \in at .. m + 1 : IF i = at THEN body ELSE i \in V}
  <2>2. at \in 1 .. m /\ at = m + 1 - (k + 1) /\ at + 1 = m + 1 - k
    BY <1>0, <1>2
  <2>3. ASSUME NEW i \in at .. m + 1
        PROVE  i \in W <=> \/ i > m
                           \/ /\ Follows(buf, i, Continuations(buf[i]))
                              /\ i + Continuations(buf[i]) + 1 \in W
    <3>1. PICK c \in -1 .. 3 : c = Continuations(buf[i])
      BY ContinuationsAre
    <3>2. Follows(buf, i, c) => c \in Nat /\ i + c + 1 \in at .. m + 1 /\ i + c + 1 # at
      BY <1>0, <2>2, <3>1 DEF Follows
    <3>3. Follows(buf, i, c) => (i + c + 1 \in W <=> i + c + 1 \in V)
      BY <3>2
    <3>4. CASE i = at
      <4>1. ~(i > m)
        BY <1>0, <2>2, <3>4
      <4>2. i \in W <=> body
        BY <3>4
      <4>3. body <=> Follows(buf, i, c) /\ i + c + 1 \in V
        BY <3>1, <3>4
      <4> QED BY <3>1, <3>3, <4>1, <4>2, <4>3
    <3>5. CASE i # at
      <4>1. i \in m + 1 - k .. m + 1
        BY <1>0, <2>2, <3>5
      <4>2. i \in W <=> i \in V
        BY <3>5
      <4>3. i \in V <=> \/ i > m
                        \/ Follows(buf, i, c) /\ i + c + 1 \in V
        BY <2>1, <3>1, <4>1 DEF ValidFrom
      <4> QED BY <3>1, <3>3, <4>2, <4>3
    <3> QED BY <3>4, <3>5
  <2> HIDE DEF W
  <2>4. ValidFrom(W, buf, m + 1 - (k + 1))
    BY <2>2, <2>3 DEF ValidFrom
  <2>5. k + 1 \in 0 .. m
    BY <1>0, <1>2
  <2> QED BY <2>4, <2>5
<1>3. m \in S
  <2>1. \A k \in 0 .. m : k \in S
    <3> HIDE DEF S, m
    <3> QED BY <1>0, <1>1, <1>2, UpTo
  <2> QED BY <1>0, <2>1
<1>4. PICK V : ValidFrom(V, buf, m + 1 - m)
  BY <1>3
<1>5. m + 1 - m = 1
  BY <1>0
<1> QED BY <1>4, <1>5

LEMMA CutExists ==
  ASSUME NEW buf \in Seq(Byte)
  PROVE  \E V : CutFrom(V, buf, 1)
<1> DEFINE m == Len(buf)
           S == {k \in 0 .. m : \E V : CutFrom(V, buf, m + 1 - k)}
           Fits(i, n) == i + n <= m + 1 /\ Character(SubSeq(buf, i, i + n - 1))
<1>0. m \in Nat
  BY LenProperties
<1>1. 0 \in S
  <2>1. CutFrom({m + 1}, buf, m + 1)
    BY <1>0 DEF CutFrom
  <2> QED BY <1>0, <2>1
<1>2. ASSUME NEW k \in 0 .. m, k < m, k \in S PROVE k + 1 \in S
  <2>1. PICK V : CutFrom(V, buf, m + 1 - k)
    BY <1>2
  <2> DEFINE at == m - k
             body == \E n \in 1 .. 4 : Fits(at, n) /\ at + n \in V
             W == {i \in at .. m + 1 : IF i = at THEN body ELSE i \in V}
  <2>2. at \in 1 .. m /\ at = m + 1 - (k + 1) /\ at + 1 = m + 1 - k
    BY <1>0, <1>2
  <2>3. ASSUME NEW i \in at .. m + 1
        PROVE  i \in W <=> i = m + 1 \/ \E n \in 1 .. 4 : Fits(i, n) /\ i + n \in W
    <3>1. ASSUME NEW n \in 1 .. 4, i + n <= m + 1 PROVE i + n \in W <=> i + n \in V
      <4>1. i + n \in at .. m + 1 /\ i + n # at
        BY <1>0, <2>2, <3>1
      <4> QED BY <4>1
    <3> HIDE DEF Fits
    <3>2. (\E n \in 1 .. 4 : Fits(i, n) /\ i + n \in W) <=> \E n \in 1 .. 4 : Fits(i, n) /\ i + n \in V
      <4>1. ASSUME NEW n \in 1 .. 4, Fits(i, n) PROVE i + n \in W <=> i + n \in V
        BY <3>1, <4>1 DEF Fits
      <4> HIDE DEF W
      <4> QED BY <4>1
    <3>4. CASE i = at
      <4>1. i # m + 1
        BY <1>0, <2>2, <3>4
      <4>2. i \in W <=> body
        BY <3>4
      <4>3. body <=> \E n \in 1 .. 4 : Fits(i, n) /\ i + n \in V
        BY <3>4
      <4> HIDE DEF W, body
      <4> QED BY <3>2, <4>1, <4>2, <4>3
    <3>5. CASE i # at
      <4>1. i \in m + 1 - k .. m + 1
        BY <1>0, <2>2, <3>5
      <4>2. i \in W <=> i \in V
        BY <3>5
      <4>3. i \in V <=> i = m + 1 \/ \E n \in 1 .. 4 : Fits(i, n) /\ i + n \in V
        BY <2>1, <4>1 DEF CutFrom, Fits
      <4> HIDE DEF W
      <4> QED BY <3>2, <4>2, <4>3
    <3> QED BY <3>4, <3>5
  <2> HIDE DEF W
  <2>4. CutFrom(W, buf, m + 1 - (k + 1))
    BY <2>2, <2>3 DEF CutFrom
  <2>5. k + 1 \in 0 .. m
    BY <1>0, <1>2
  <2> QED BY <2>4, <2>5
<1>3. m \in S
  <2>1. \A k \in 0 .. m : k \in S
    <3> HIDE DEF S, m
    <3> QED BY <1>0, <1>1, <1>2, UpTo
  <2> QED BY <1>0, <2>1
<1>4. PICK V : CutFrom(V, buf, m + 1 - m)
  BY <1>3
<1>5. m + 1 - m = 1
  BY <1>0
<1> QED BY <1>4, <1>5

(* The same computed by a function, which is what CHOOSE then finds.       *)
IsValid(f, buf) ==
  f = [i \in 1 .. Len(buf) + 1 |->
         \/ i > Len(buf)
         \/ /\ Continuations(buf[i]) >= 0 /\ i + Continuations(buf[i]) <= Len(buf)
            /\ \A k \in 1 .. Continuations(buf[i]) : buf[i + k] \div 64 = 2
            /\ f[i + Continuations(buf[i]) + 1]]

IsCut(f, buf) ==
  f = [i \in 1 .. Len(buf) + 1 |->
         \/ i = Len(buf) + 1
         \/ \E n \in 1 .. 4 : /\ i + n <= Len(buf) + 1
                              /\ Character(SubSeq(buf, i, i + n - 1))
                              /\ f[i + n]]

LEMMA ValidIs ==
  ASSUME NEW buf \in Seq(Byte)
  PROVE  \E V : ValidFrom(V, buf, 1) /\ (isValidUtf8(buf) <=> 1 \in V)
<1> DEFINE f == CHOOSE g : IsValid(g, buf)
           m == Len(buf)
<1>0. m \in Nat
  BY LenProperties
<1>1. isValidUtf8(buf) = f[1]
  BY DEF isValidUtf8, IsValid
<1>2. \E g : IsValid(g, buf)
  <2>1. PICK V : ValidFrom(V, buf, 1)
    BY ValidExists
  <2> DEFINE g == [i \in 1 .. m + 1 |-> i \in V]
             goes(h, i) == \/ i > m
                           \/ /\ Continuations(buf[i]) >= 0 /\ i + Continuations(buf[i]) <= m
                              /\ \A k \in 1 .. Continuations(buf[i]) : buf[i + k] \div 64 = 2
                              /\ h[i + Continuations(buf[i]) + 1]
  <2>2. ASSUME NEW i \in 1 .. m + 1 PROVE g[i] = goes(g, i)
    <3>1. i \in V <=> \/ i > m
                      \/ /\ Follows(buf, i, Continuations(buf[i]))
                         /\ i + Continuations(buf[i]) + 1 \in V
      BY <2>1 DEF ValidFrom
    <3>2. Follows(buf, i, Continuations(buf[i])) => i + Continuations(buf[i]) + 1 \in 1 .. m + 1
      BY <1>0, ContinuationsAre DEF Follows
    <3>3. Follows(buf, i, Continuations(buf[i])) =>
            (g[i + Continuations(buf[i]) + 1] <=> i + Continuations(buf[i]) + 1 \in V)
      BY <3>2
    <3>4. g[i] <=> i \in V
      OBVIOUS
    <3>5. goes(g, i) <=> \/ i > m
                         \/ /\ Follows(buf, i, Continuations(buf[i]))
                            /\ g[i + Continuations(buf[i]) + 1]
      BY DEF Follows
    <3>6. g[i] \in BOOLEAN
      OBVIOUS
    <3>7. goes(g, i) \in BOOLEAN
      OBVIOUS
    <3> HIDE DEF g, goes
    <3> QED BY <3>1, <3>3, <3>4, <3>5, <3>6, <3>7
  <2>3. g = [i \in 1 .. m + 1 |-> goes(g, i)]
    BY <2>2
  <2>4. IsValid(g, buf)
    <3> HIDE DEF g
    <3> QED BY <2>3 DEF IsValid
  <2> QED BY <2>4
<1>3. IsValid(f, buf)
  BY <1>2
<1> HIDE DEF f
<1> DEFINE V == {i \in 1 .. m + 1 : f[i]}
<1>4. ASSUME NEW i \in 1 .. m + 1
      PROVE  i \in V <=> \/ i > m
                         \/ /\ Follows(buf, i, Continuations(buf[i]))
                            /\ i + Continuations(buf[i]) + 1 \in V
  <2>1. f[i] <=> \/ i > m
                 \/ /\ Follows(buf, i, Continuations(buf[i]))
                    /\ f[i + Continuations(buf[i]) + 1]
    BY <1>3 DEF IsValid, Follows
  <2>2. Follows(buf, i, Continuations(buf[i])) => i + Continuations(buf[i]) + 1 \in 1 .. m + 1
    BY <1>0, ContinuationsAre DEF Follows
  <2> QED BY <2>1, <2>2
<1>5. ValidFrom(V, buf, 1)
  BY <1>4 DEF ValidFrom
<1>6. f[1] <=> 1 \in V
  BY <1>0
<1> QED BY <1>1, <1>5, <1>6

LEMMA CutIs ==
  ASSUME NEW buf \in Seq(Byte)
  PROVE  \E V : CutFrom(V, buf, 1) /\ (WellFormed(buf) <=> 1 \in V)
<1> DEFINE f == CHOOSE g : IsCut(g, buf)
           m == Len(buf)
           Fits(i, n) == i + n <= m + 1 /\ Character(SubSeq(buf, i, i + n - 1))
<1>0. m \in Nat
  BY LenProperties
<1>1. WellFormed(buf) = f[1]
  BY DEF WellFormed, IsCut
<1>2. \E g : IsCut(g, buf)
  <2>1. PICK V : CutFrom(V, buf, 1)
    BY CutExists
  <2> DEFINE g == [i \in 1 .. m + 1 |-> i \in V]
             goes(h, i) == i = m + 1 \/ \E n \in 1 .. 4 : /\ i + n <= m + 1
                                                          /\ Character(SubSeq(buf, i, i + n - 1))
                                                          /\ h[i + n]
  <2>2. ASSUME NEW i \in 1 .. m + 1 PROVE g[i] = goes(g, i)
    <3>1. i \in V <=> i = m + 1 \/ \E n \in 1 .. 4 : Fits(i, n) /\ i + n \in V
      BY <2>1 DEF CutFrom
    <3>2. ASSUME NEW n \in 1 .. 4, Fits(i, n) PROVE g[i + n] <=> i + n \in V
      <4>1. i + n \in 1 .. m + 1
        BY <1>0, <3>2
      <4> QED BY <4>1
    <3>4. g[i] <=> i \in V
      OBVIOUS
    <3>5. goes(g, i) <=> i = m + 1 \/ \E n \in 1 .. 4 : Fits(i, n) /\ g[i + n]
      OBVIOUS
    <3>6. g[i] \in BOOLEAN
      OBVIOUS
    <3>7. goes(g, i) \in BOOLEAN
      OBVIOUS
    <3> HIDE DEF g, goes, Fits
    <3>8. (\E n \in 1 .. 4 : Fits(i, n) /\ g[i + n]) <=> \E n \in 1 .. 4 : Fits(i, n) /\ i + n \in V
      BY <3>2
    <3> QED BY <3>1, <3>4, <3>5, <3>6, <3>7, <3>8
  <2>3. g = [i \in 1 .. m + 1 |-> goes(g, i)]
    BY <2>2
  <2>4. IsCut(g, buf)
    <3> HIDE DEF g
    <3> QED BY <2>3 DEF IsCut
  <2> QED BY <2>4
<1>3. IsCut(f, buf)
  BY <1>2
<1> HIDE DEF f
<1> DEFINE V == {i \in 1 .. m + 1 : f[i]}
<1>4. ASSUME NEW i \in 1 .. m + 1
      PROVE  i \in V <=> i = m + 1 \/ \E n \in 1 .. 4 : Fits(i, n) /\ i + n \in V
  <2>1. f[i] <=> i = m + 1 \/ \E n \in 1 .. 4 : Fits(i, n) /\ f[i + n]
    BY <1>3 DEF IsCut
  <2>2. ASSUME NEW n \in 1 .. 4, Fits(i, n) PROVE i + n \in V <=> f[i + n]
    <3>1. i + n \in 1 .. m + 1
      BY <1>0, <2>2
    <3> QED BY <3>1
  <2>3. i \in V <=> f[i]
    OBVIOUS
  <2> HIDE DEF V, Fits
  <2> QED BY <2>1, <2>2, <2>3
<1>5. CutFrom(V, buf, 1)
  BY <1>4 DEF CutFrom
<1>6. f[1] <=> 1 \in V
  BY <1>0
<1> QED BY <1>1, <1>5, <1>6

(* Arithmetic of the bytes of a character.                                 *)
LEMMA TopBits ==
  ASSUME NEW x \in 128 .. 191
  PROVE  x \div 64 = 2
OBVIOUS

LEMMA LowIs ==
  ASSUME NEW x \in Byte
  PROVE  Low(x) \in 0 .. 63
BY DEF Byte, Low

LEMMA FirstOfTwo ==
  ASSUME NEW a \in 192 .. 223, NEW x \in 0 .. 63, (a % 32) * 64 + x >= 128
  PROVE  a \in 194 .. 223
<1>1. a % 32 = a - 192
  OBVIOUS
<1>2. PICK b \in 0 .. 31 : b = a - 192
  OBVIOUS
<1>3. b * 64 + x >= 128
  BY <1>1, <1>2
<1>4. b >= 2
  BY <1>3
<1> QED BY <1>2, <1>4

LEMMA ModEight ==
  ASSUME NEW a \in 240 .. 247
  PROVE  a % 8 = a - 240
OBVIOUS

LEMMA AtMostFour ==
  ASSUME NEW b \in 0 .. 7, NEW rest \in Nat, b * 262144 + rest <= 1114111
  PROVE  b <= 4
OBVIOUS

LEMMA Rest ==
  ASSUME NEW x \in 0 .. 63, NEW y \in 0 .. 63, NEW z \in 0 .. 63
  PROVE  x * 4096 + y * 64 + z \in Nat
OBVIOUS

LEMMA FirstOfFour ==
  ASSUME NEW bs, bs[1] \in 240 .. 247, bs[2] \in Byte, bs[3] \in Byte, bs[4] \in Byte,
         OfFour(bs) <= 1114111
  PROVE  bs[1] \in 240 .. 244
<1>1. PICK x \in 0 .. 63 : x = Low(bs[2])
  BY LowIs
<1>2. PICK y \in 0 .. 63 : y = Low(bs[3])
  BY LowIs
<1>3. PICK z \in 0 .. 63 : z = Low(bs[4])
  BY LowIs
<1>4. PICK b \in 0 .. 7 : b = bs[1] - 240 /\ b = bs[1] % 8
  <2>1. bs[1] % 8 = bs[1] - 240
    BY ModEight
  <2> QED BY <2>1
<1>5. PICK rest \in Nat : rest = x * 4096 + y * 64 + z
  BY Rest
<1>6. OfFour(bs) = b * 262144 + x * 4096 + y * 64 + z
  BY <1>1, <1>2, <1>3, <1>4, SMT DEF OfFour
<1>7. b * 262144 + x * 4096 + y * 64 + z = b * 262144 + rest
  BY <1>5
<1>8. b * 262144 + rest <= 1114111
  BY <1>6, <1>7
<1>9. b <= 4
  BY <1>8, AtMostFour
<1> QED BY <1>4, <1>9

LEMMA FirstBytes ==
  ASSUME NEW b \in Byte
  PROVE  /\ b <= 127 => Continuations(b) = 0
         /\ b \in 194 .. 223 => Continuations(b) = 1
         /\ b \in 224 .. 239 => Continuations(b) = 2
         /\ b \in 240 .. 244 => Continuations(b) = 3
BY DEF Continuations, Byte

LEMMA CharacterOfOne ==
  ASSUME NEW bs, Len(bs) = 1, Character(bs)
  PROVE  bs[1] <= 127
BY SMT DEF Character

LEMMA CharacterOfTwo ==
  ASSUME NEW bs, Len(bs) = 2, Character(bs)
  PROVE  Leads(bs, 192 .. 223) /\ OfTwo(bs) >= 128
BY SMT DEF Character

LEMMA CharacterOfThree ==
  ASSUME NEW bs, Len(bs) = 3, Character(bs)
  PROVE  Leads(bs, 224 .. 239)
BY SMT DEF Character

LEMMA CharacterOfFour ==
  ASSUME NEW bs, Len(bs) = 4, Character(bs)
  PROVE  Leads(bs, 240 .. 247) /\ OfFour(bs) <= 1114111
BY SMT DEF Character

(* What the table of first bytes says of a character.                      *)
LEMMA CharacterIsRead ==
  ASSUME NEW bs \in Seq(Byte), Len(bs) \in 1 .. 4, Character(bs)
  PROVE  /\ Continuations(bs[1]) = Len(bs) - 1
         /\ \A k \in 1 .. Len(bs) - 1 : bs[1 + k] \div 64 = 2
<1>0. \A i \in 1 .. Len(bs) : bs[i] \in Byte
  BY ElementOfSeq
<1>1. CASE Len(bs) = 1
  <2>1. bs[1] \in Byte /\ bs[1] <= 127
    BY <1>0, <1>1, CharacterOfOne
  <2> QED BY <1>1, <2>1, FirstBytes
<1>2. CASE Len(bs) = 2
  <2>1. Leads(bs, 192 .. 223) /\ OfTwo(bs) >= 128
    BY <1>2, CharacterOfTwo
  <2>2. bs[1] \in 192 .. 223 /\ bs[2] \in 128 .. 191 /\ bs[1] \in Byte /\ bs[2] \in Byte
    BY <1>0, <1>2, <2>1 DEF Leads
  <2>3. PICK x \in 0 .. 63 : x = Low(bs[2])
    BY <2>2, LowIs
  <2>4. PICK a \in 192 .. 223 : a = bs[1]
    BY <2>2
  <2>5. (a % 32) * 64 + x >= 128
    BY <2>1, <2>3, <2>4 DEF OfTwo
  <2>6. a \in 194 .. 223
    BY <2>5, FirstOfTwo
  <2>7. Continuations(bs[1]) = 1 /\ bs[2] \div 64 = 2
    BY <2>2, <2>4, <2>6, FirstBytes, TopBits
  <2> QED BY <1>2, <2>7
<1>3. CASE Len(bs) = 3
  <2>1. Leads(bs, 224 .. 239)
    BY <1>3, CharacterOfThree
  <2>2. bs[1] \in 224 .. 239 /\ bs[2] \in 128 .. 191 /\ bs[3] \in 128 .. 191 /\ bs[1] \in Byte
    BY <1>0, <1>3, <2>1 DEF Leads
  <2>3. Continuations(bs[1]) = 2 /\ bs[2] \div 64 = 2 /\ bs[3] \div 64 = 2
    BY <2>2, FirstBytes, TopBits
  <2> QED BY <1>3, <2>3
<1>4. CASE Len(bs) = 4
  <2>1. Leads(bs, 240 .. 247) /\ OfFour(bs) <= 1114111
    BY <1>4, CharacterOfFour
  <2>2. /\ bs[1] \in 240 .. 247 /\ bs[1] \in Byte
        /\ bs[2] \in 128 .. 191 /\ bs[3] \in 128 .. 191 /\ bs[4] \in 128 .. 191
        /\ bs[2] \in Byte /\ bs[3] \in Byte /\ bs[4] \in Byte
    BY <1>0, <1>4, <2>1 DEF Leads
  <2>3. bs[1] \in 240 .. 244
    BY <2>1, <2>2, FirstOfFour
  <2>4. Continuations(bs[1]) = 3 /\ bs[2] \div 64 = 2 /\ bs[3] \div 64 = 2 /\ bs[4] \div 64 = 2
    BY <2>2, <2>3, FirstBytes, TopBits
  <2> QED BY <1>4, <2>4
<1> QED BY <1>1, <1>2, <1>3, <1>4

(* Bytes that are well-formed UTF-8 are decoded as UTF-8, whatever their   *)
(* length and whether or not they begin with a mark (decodeBytes,          *)
(* isValidUtf8).                                                           *)
THEOREM AccentsAreKept ==
  ASSUME NEW buf \in Seq(Byte), WellFormed(buf)
  PROVE  decodeBytes(buf) = "utf-8"
<1> DEFINE m == Len(buf)
<1>0. m \in Nat
  BY LenProperties
<1>1. PICK V : ValidFrom(V, buf, 1) /\ (isValidUtf8(buf) <=> 1 \in V)
  BY ValidIs
<1>2. PICK W : CutFrom(W, buf, 1) /\ 1 \in W
  BY CutIs
<1> DEFINE Bad == {k \in 0 .. m : m + 1 - k \in W /\ m + 1 - k \notin V}
<1>3. Bad = {}
  <2> SUFFICES ASSUME Bad # {} PROVE FALSE
    OBVIOUS
  <2>1. Bad \subseteq Nat
    OBVIOUS
  <2>2. PICK k \in Bad : \A j \in Bad : k <= j
    <3> HIDE DEF Bad
    <3> QED BY <2>1, LeastOf
  <2>3. k \in 0 .. m /\ m + 1 - k \in W /\ m + 1 - k \notin V
    BY <2>2
  <2>4. PICK i \in 1 .. m + 1 : i = m + 1 - k
    BY <1>0, <2>3
  <2>5. i # m + 1
    BY <1>0, <1>1, <2>3, <2>4 DEF ValidFrom
  <2>6. PICK n \in 1 .. 4 : i + n <= m + 1 /\ Character(SubSeq(buf, i, i + n - 1)) /\ i + n \in W
    BY <1>2, <2>3, <2>4, <2>5 DEF CutFrom
  <2>7. i + n \in V
    <3>1. k - n \in 0 .. m /\ m + 1 - (k - n) = i + n /\ k - n < k
      BY <1>0, <2>3, <2>4, <2>6
    <3>2. k - n \notin Bad
      BY <2>2, <2>3, <3>1
    <3> QED BY <2>6, <3>1, <3>2
  <2> DEFINE bs == SubSeq(buf, i, i + n - 1)
  <2>8. bs \in Seq(Byte) /\ Len(bs) = n /\ \A j \in 1 .. n : bs[j] = buf[i + j - 1]
    <3>1. i + n - 1 \in Int /\ i \in Int /\ i <= i + n - 1 + 1 /\ \A j \in i .. i + n - 1 : j \in 1 .. m
      BY <1>0, <2>6
    <3>2. \A j \in i .. i + n - 1 : buf[j] \in Byte
      BY <3>1, ElementOfSeq
    <3>3. (i + n - 1) - i + 1 = n
      OBVIOUS
    <3> QED BY <3>1, <3>2, <3>3, SubSeqProperties
  <2>9. Character(bs)
    BY <2>6
  <2> HIDE DEF bs
  <2>10. Continuations(bs[1]) = n - 1 /\ \A j \in 1 .. n - 1 : bs[1 + j] \div 64 = 2
    BY <2>8, <2>9, CharacterIsRead
  <2>11. bs[1] = buf[i] /\ \A j \in 1 .. n - 1 : bs[1 + j] = buf[i + j]
    <3>1. 1 \in 1 .. n /\ i + 1 - 1 = i
      OBVIOUS
    <3>2. ASSUME NEW j \in 1 .. n - 1 PROVE bs[1 + j] = buf[i + j]
      <4>1. 1 + j \in 1 .. n /\ i + (1 + j) - 1 = i + j
        BY <3>2
      <4> QED BY <2>8, <4>1
    <3>3. bs[1] = buf[i + 1 - 1]
      BY <2>8, <3>1
    <3> QED BY <3>1, <3>2, <3>3
  <2>12. Continuations(buf[i]) = n - 1 /\ \A j \in 1 .. n - 1 : buf[i + j] \div 64 = 2
    BY <2>10, <2>11
  <2>13. Follows(buf, i, n - 1)
    BY <1>0, <2>6, <2>12 DEF Follows
  <2>14. i + (n - 1) + 1 = i + n
    OBVIOUS
  <2>15. i \in V
    BY <1>1, <2>7, <2>12, <2>13, <2>14 DEF ValidFrom
  <2> QED BY <2>3, <2>4, <2>15
<1>4. 1 \in V
  <2>1. m \in 0 .. m /\ m + 1 - m = 1
    BY <1>0
  <2> QED BY <1>2, <1>3, <2>1
<1> QED BY <1>1, <1>4 DEF decodeBytes

(* A file in well-formed UTF-8 is never taken for Latin-1, which would     *)
(* garble its accents: neither by commit nor by preview (decodeBytes).     *)
THEOREM AccentsComeThrough == Spec => []AccentsKept
<1>1. Typed => AccentsKept
  <2> SUFFICES ASSUME Typed, NEW c \in Calls, WellFormed(call[c].bytes)
               PROVE  decodeBytes(call[c].bytes) = "utf-8"
    BY DEF AccentsKept
  <2>1. call[c].bytes \in Buffers \cup {<< >>}
    BY DEF Typed, TypeOK, Call
  <2>2. << >> \in Seq(Byte)
    BY EmptySeq
  <2>3. call[c].bytes \in Seq(Byte)
    BY <2>1, <2>2, ImportAssumption DEF Byte
  <2> QED BY <2>3, AccentsAreKept
<1> QED BY <1>1, TypeCorrect, PTL

-----------------------------------------------------------------------------
(* Exports.  A row with a name is not blank. *)

(* The cell of a date is empty or one character. *)
LEMMA DateCellIs ==
  ASSUME NEW b
  PROVE  \E t : DateCell(b) \in {<< >>, <<t>>}
BY Zenon DEF DateCell

(* No row is dropped as blank when each has a cell that is not. *)
IsKept(f, rows) ==
  f = [i \in 0 .. Len(rows) |->
         IF i = 0 THEN << >>
         ELSE IF \A j \in DOMAIN rows[i] : IsBlank(rows[i][j]) THEN f[i - 1]
         ELSE Append(f[i - 1], rows[i])]

LEMMA AllKept ==
  ASSUME NEW S, NEW rows \in Seq(S),
         \A i \in 1 .. Len(rows) : \E j \in DOMAIN rows[i] : ~IsBlank(rows[i][j])
  PROVE  NonEmpty(rows) = rows
<1> DEFINE n == Len(rows)
           kept == CHOOSE f : IsKept(f, rows)
           whole == [i \in 0 .. n |-> SubSeq(rows, 1, i)]
<1>0. n \in Nat
  BY LenProperties
<1>1. NonEmpty(rows) = kept[n]
  BY DEF NonEmpty, IsKept
<1>2. whole[0] = << >>
  BY <1>0
<1>3. ASSUME NEW i \in 0 .. n, i < n
      PROVE  whole[i + 1] = Append(whole[i], rows[i + 1])
  <2>1. SubSeq(rows, 1, i + 1) = Append(SubSeq(rows, 1, i), rows[i + 1])
    BY <1>3, SubSeqGrows
  <2>2. i + 1 \in 0 .. n
    BY <1>0, <1>3
  <2> QED BY <2>1, <2>2
<1>4. IsKept(whole, rows)
  <2> DEFINE step == [i \in 0 .. n |->
                        IF i = 0 THEN << >>
                        ELSE IF \A j \in DOMAIN rows[i] : IsBlank(rows[i][j]) THEN whole[i - 1]
                        ELSE Append(whole[i - 1], rows[i])]
  <2>1. ASSUME NEW i \in 0 .. n PROVE whole[i] = step[i]
    <3>1. CASE i = 0
      BY <1>2, <3>1
    <3>2. CASE i # 0
      <4>1. i - 1 \in 0 .. n /\ i - 1 < n /\ (i - 1) + 1 = i /\ i \in 1 .. n
        BY <1>0, <3>2
      <4>2. whole[i] = Append(whole[i - 1], rows[i])
        <5> HIDE DEF whole, n
        <5> QED BY <1>3, <4>1
      <4> QED BY <3>2, <4>1, <4>2
    <3> QED BY <3>1, <3>2
  <2>2. whole = step
    <3>1. DOMAIN whole = 0 .. n /\ DOMAIN step = 0 .. n
      OBVIOUS
    <3> QED BY <2>1
  <2> HIDE DEF whole
  <2> QED BY <2>2 DEF IsKept
<1>5. IsKept(kept, rows)
  <2> HIDE DEF whole
  <2> QED BY <1>4
<1>6. kept[0] = << >>
  <2>1. 0 \in 0 .. n
    BY <1>0
  <2> HIDE DEF kept
  <2> QED BY <1>5, <2>1 DEF IsKept
<1>7. ASSUME NEW i \in 0 .. n, i < n
      PROVE  kept[i + 1] = Append(kept[i], rows[i + 1])
  <2>1. i + 1 \in 0 .. n /\ i + 1 # 0 /\ (i + 1) - 1 = i /\ i + 1 \in 1 .. n
    BY <1>0, <1>7
  <2>2. PICK k : k = i + 1
    OBVIOUS
  <2>3. kept[k] = IF k = 0 THEN << >>
                  ELSE IF \A j \in DOMAIN rows[k] : IsBlank(rows[k][j]) THEN kept[k - 1]
                  ELSE Append(kept[k - 1], rows[k])
    <3> HIDE DEF kept
    <3> QED BY <1>5, <2>1, <2>2 DEF IsKept
  <2>4. \E j \in DOMAIN rows[k] : ~IsBlank(rows[k][j])
    BY <2>1, <2>2
  <2> HIDE DEF kept, n
  <2> QED BY <2>1, <2>2, <2>3, <2>4
<1> DEFINE Same == {i \in 0 .. n : kept[i] = whole[i]}
<1>8. 0 \in Same
  <2>1. 0 \in 0 .. n
    BY <1>0
  <2> HIDE DEF kept, whole
  <2> QED BY <1>2, <1>6, <2>1
<1>9. ASSUME NEW i \in 0 .. n, i < n, i \in Same PROVE i + 1 \in Same
  <2>1. i + 1 \in 0 .. n
    BY <1>0, <1>9
  <2> HIDE DEF kept, whole
  <2> QED BY <1>3, <1>7, <1>9, <2>1
<1>10. n \in Same
  <2> HIDE DEF Same
  <2>1. \A i \in 0 .. n : i \in Same
    BY <1>0, <1>8, <1>9, UpTo
  <2> QED BY <1>0, <2>1
<1>11. whole[n] = rows
  BY <1>0, SubSeqFull
<1> QED BY <1>1, <1>10, <1>11

LEMMA NameIsWritten ==
  ASSUME NEW n \in Names
  PROVE  ~IsBlank(n)
<1>1. n # << >> /\ Trim(n) = n
  BY ImportAssumption
<1> DEFINE kept == {i \in DOMAIN n : n[i] \notin Blank}
<1>2. kept # {}
  BY <1>1 DEF Trim
<1> QED BY <1>2 DEF IsBlank

LEMMA ListedOnce ==
  ASSUME NEW S, IsFiniteSet(S)
  PROVE  SetToSeq(S) \in Seq(S)
<1>1. PICK n \in Nat : n = Cardinality(S)
  BY FS_CardinalityType
<1>2. PICK f : f \in Bijection(1 .. n, S)
  BY <1>1, FS_CardinalityType DEF ExistsBijection
<1>3. f \in [1 .. n -> S] /\ IsInjective(f)
  BY <1>2 DEF Bijection, Injection
<1>4. SetToSeq(S) \in [1 .. n -> S]
  BY <1>1, <1>3 DEF SetToSeq
<1> QED BY <1>4

-----------------------------------------------------------------------------
(* The delimiter of a file with commas is found.                           *)

(* A first line without semicolons and tabs is taken for one with commas. *)
LEMMA CommaByDefault ==
  ASSUME NEW line, \A i \in DOMAIN line : line[i] \notin {SEMI, TAB}, IsFiniteSet(DOMAIN line)
  PROVE  detectDelimiter(line) = COMMA
<1> DEFINE quotes(i) == Cardinality({j \in 1 .. i - 1 : line[j] = QUOTE})
           places(d) == {i \in DOMAIN line : line[i] = d /\ quotes(i) % 2 = 0}
           count(d) == Cardinality(places(d))
           more(d, e) == count(d) > count(e)
<1>1. places(SEMI) = {} /\ places(TAB) = {}
  OBVIOUS
<1>2. count(SEMI) = 0 /\ count(TAB) = 0
  <2> HIDE DEF places
  <2> QED BY <1>1, FS_EmptySet
<1>3. IsFiniteSet(places(COMMA))
  <2>1. places(COMMA) \subseteq DOMAIN line
    OBVIOUS
  <2> HIDE DEF places
  <2> QED BY <2>1, FS_Subset
<1>4. count(COMMA) \in Nat
  <2> HIDE DEF places
  <2> QED BY <1>3, FS_CardinalityType
<1>5. detectDelimiter(line) = IF more(TAB, COMMA) /\ more(TAB, SEMI) THEN TAB
                              ELSE IF more(SEMI, COMMA) THEN SEMI ELSE COMMA
  BY DEF detectDelimiter
<1> HIDE DEF count
<1>6. ~more(TAB, COMMA) /\ ~more(SEMI, COMMA)
  BY <1>2, <1>4
<1> HIDE DEF more
<1> QED BY <1>5, <1>6

(* The first line of a text that starts with a part and a line end. *)
LEMMA FirstLineIs ==
  ASSUME NEW C, NEW text \in Seq(C), NEW part \in Seq(C), Holds(text, 0, part),
         \/ Len(text) = Len(part)
         \/ /\ Len(text) >= Len(part) + 2
            /\ text[Len(part) + 1] = CR /\ text[Len(part) + 2] = LF
  PROVE  \E n \in 0 .. Len(text) :
           /\ DOMAIN FirstLine(text) = 1 .. n
           /\ \A i \in 1 .. n : /\ FirstLine(text)[i] = text[i]
                                /\ i \in 1 .. Len(part) \/ text[i] = CR
<1> DEFINE ends == {i \in DOMAIN text : text[i] = LF}
           m == Len(part)
<1>0. m \in Nat /\ Len(text) \in Nat /\ DOMAIN text = 1 .. Len(text)
  BY LenProperties
<1>1. CASE ends = {}
  <2>1. FirstLine(text) = text
    BY <1>1 DEF FirstLine
  <2>2. Len(text) = m
    <3>1. ASSUME Len(text) >= m + 2, text[m + 2] = LF PROVE FALSE
      <4>1. m + 2 \in DOMAIN text
        BY <1>0, <3>1
      <4> QED BY <1>1, <3>1, <4>1
    <3> QED BY <3>1
  <2>3. PICK n \in Nat : n = Len(text)
    BY <1>0
  <2>a. n = Len(part)
    BY <2>2, <2>3
  <2>b. n \in 0 .. Len(text)
    <3>1. n \in 0 .. n
      OBVIOUS
    <3> QED BY <2>3, <3>1
  <2>4. DOMAIN FirstLine(text) = 1 .. n
    BY <1>0, <2>1, <2>3
  <2> HIDE DEF ends, m
  <2> QED BY <2>1, <2>3, <2>a, <2>b, <2>4
<1>2. CASE ends # {}
  <2>1. ends \subseteq Nat
    BY <1>0
  <2>2. PICK e : e = CHOOSE i \in ends : \A j \in ends : i <= j
    OBVIOUS
  <2>3. \E i \in ends : \A j \in ends : i <= j
    <3> HIDE DEF ends
    <3> QED BY <1>2, <2>1, LeastOf
  <2>4. e \in ends /\ \A j \in ends : e <= j
    BY <2>2, <2>3
  <2>5. e \in 1 .. Len(text)
    BY <1>0, <2>4
  <2>6. FirstLine(text) = SubSeq(text, 1, e - 1)
    BY <1>2, <2>2 DEF FirstLine
  <2>7. ASSUME NEW i \in 1 .. e - 1 PROVE i \in 1 .. m \/ text[i] = CR
    <3>1. CASE Len(text) = m
      BY <1>0, <2>5, <2>7, <3>1
    <3>2. CASE Len(text) >= m + 2 /\ text[m + 1] = CR /\ text[m + 2] = LF
      <4>1. m + 2 \in ends
        BY <1>0, <3>2
      <4>2. e <= m + 2
        <5> HIDE DEF ends
        <5> QED BY <2>4, <4>1
      <4>3. i \in 1 .. m \/ i = m + 1
        BY <1>0, <2>5, <2>7, <4>2
      <4> QED BY <3>2, <4>3
    <3> QED BY <3>1, <3>2
  <2>8. PICK n \in 0 .. Len(text) : n = e - 1
    BY <1>0, <2>5
  <2>9. FirstLine(text) = SubSeq(text, 1, n)
    BY <2>6, <2>8
  <2>10. DOMAIN SubSeq(text, 1, n) = 1 .. n /\ \A i \in 1 .. n : SubSeq(text, 1, n)[i] = text[i]
    BY <1>0
  <2> QED BY <2>7, <2>8, <2>9, <2>10
<1> QED BY <1>1, <1>2

(* The headers of a file that is written with commas do not mislead the    *)
(* detection, unless they contain semicolons or tabs.                      *)
LEMMA CommaDetected ==
  ASSUME NEW C, {QUOTE, LF, CR, COMMA} \subseteq C, NEW rows \in Table(C), rows # << >>,
         NEW D, {QUOTE, COMMA} \subseteq D, D \subseteq C, SEMI \notin D, TAB \notin D,
         rows[1] \in Seq(Seq(D))
  PROVE  detectDelimiter(FirstLine(toCsv(rows, COMMA))) = COMMA
<1> DEFINE n == Len(rows)
           parts == [i \in DOMAIN rows |-> Line(rows[i], COMMA)]
           sep == <<CR, LF>>
           text == toCsv(rows, COMMA)
<1>1. rows \in Seq(Seq(Seq(C))) /\ n \in Nat /\ DOMAIN rows = 1 .. n /\ n > 0
  <2>1. rows \in Seq(Seq(Seq(C)))
    BY DEF Table
  <2> QED BY <2>1, LenProperties, EmptySeq
<1>2. ASSUME NEW i \in 1 .. n PROVE Line(rows[i], COMMA) \in Seq(C)
  <2>1. rows[i] \in Seq(Seq(C)) /\ rows[i] # << >>
    BY <1>1, ElementOfSeq DEF Table
  <2>2. Len(rows[i]) > 0
    BY <2>1, EmptySeq
  <2> QED BY <2>1, <2>2, LineTyped
<1>3. parts \in Seq(Seq(C)) /\ Len(parts) = n
  <2>1. parts \in [1 .. n -> Seq(C)]
    BY <1>1, <1>2
  <2> QED BY <1>1, <2>1
<1>4. sep \in Seq(C) /\ Len(sep) = 2 /\ sep[1] = CR /\ sep[2] = LF
  OBVIOUS
<1>5. text = JoinWith(parts, sep)
  BY DEF toCsv, Line
<1>6. parts[1] = Line(rows[1], COMMA)
  BY <1>1
<1>7. parts[1] \in Seq(D) /\ parts[1] \in Seq(C)
  <2>1. 1 \in 1 .. n
    BY <1>1
  <2>2. rows[1] # << >>
    BY <2>1 DEF Table
  <2>3. Len(rows[1]) > 0
    BY <2>2, EmptySeq
  <2>4. Line(rows[1], COMMA) \in Seq(D)
    BY <2>3, LineTyped
  <2> QED BY <1>2, <1>6, <2>1, <2>4
<1> HIDE DEF parts, sep, text, n
<1>8. text \in Seq(C) /\ \E start, end : Joins(start, end, parts, sep, text)
  BY <1>1, <1>3, <1>4, <1>5, Joined
<1>9. PICK start, end : Joins(start, end, parts, sep, text)
  BY <1>8
<1>10. PICK part : part = parts[1]
  OBVIOUS
<1>11. part \in Seq(C) /\ part \in Seq(D) /\ Len(part) \in Nat /\ Len(text) \in Nat
  BY <1>7, <1>8, <1>10, LenProperties
<1>12. Holds(text, 0, part) /\ end[1] = Len(part)
  <2>1. 1 \in 1 .. Len(parts)
    BY <1>1, <1>3
  <2> QED BY <1>9, <1>10, <1>11, <2>1 DEF Joins
<1>13. \/ Len(text) = Len(part)
       \/ Len(text) >= Len(part) + 2 /\ text[Len(part) + 1] = CR /\ text[Len(part) + 2] = LF
  <2>1. CASE n = 1
    BY <1>3, <1>9, <1>12, <2>1 DEF Joins
  <2>2. CASE n # 1
    <3>1. 1 \in 1 .. Len(parts) /\ 1 < Len(parts)
      BY <1>1, <1>3, <2>2
    <3>2. Holds(text, Len(part), sep)
      BY <1>9, <1>12, <3>1 DEF Joins
    <3>3. 1 \in 1 .. 2 /\ 2 \in 1 .. 2
      OBVIOUS
    <3> QED BY <1>4, <1>11, <3>2, <3>3 DEF Holds
  <2> QED BY <2>1, <2>2
<1>14. PICK k \in 0 .. Len(text) :
         /\ DOMAIN FirstLine(text) = 1 .. k
         /\ \A i \in 1 .. k : /\ FirstLine(text)[i] = text[i]
                              /\ i \in 1 .. Len(part) \/ text[i] = CR
  BY <1>8, <1>11, <1>12, <1>13, FirstLineIs
<1>15. ASSUME NEW i \in DOMAIN FirstLine(text) PROVE FirstLine(text)[i] \notin {SEMI, TAB}
  <2>1. i \in 1 .. k /\ FirstLine(text)[i] = text[i]
    BY <1>14
  <2>2. CASE i \in 1 .. Len(part)
    <3>1. text[i] = part[i]
      BY <1>11, <1>12, <2>2 DEF Holds
    <3>2. part[i] \in D
      BY <1>11, <2>2, ElementOfSeq
    <3> QED BY <2>1, <3>1, <3>2
  <2>3. CASE text[i] = CR
    BY <2>1, <2>3 DEF CR, SEMI, TAB
  <2> QED BY <1>14, <2>1, <2>2, <2>3
<1>16. IsFiniteSet(DOMAIN FirstLine(text))
  <2>1. k \in Int /\ 1 \in Int
    BY <1>11, <1>14
  <2> QED BY <1>14, <2>1, FS_Interval
<1> QED BY <1>15, <1>16, CommaByDefault DEF text

-----------------------------------------------------------------------------
(* Who is hired exists, and so does the person a handler has created.      *)
HiredExist ==
  /\ hired \subseteq Existing
  /\ \A c \in Calls : call[c].on # None => call[c].on \in Existing

LEMMA StepHired == Typed /\ HiredExist /\ Steps => HiredExist'
<1> SUFFICES ASSUME Typed, HiredExist, Steps PROVE HiredExist'
  OBVIOUS
<1>0. /\ call \in [Calls -> Call] /\ person \in [Persons -> Identity \cup {NoPerson}]
      /\ None \notin Persons
      /\ \A c \in Calls : HeldFor(c)
  BY ImportAssumption DEF Typed, TypeOK
<1>1. Existing \subseteq Existing'
  BY PersonsStay
<1>2. CASE Stays /\ call' = call
  BY <1>1, <1>2 DEF HiredExist, Stays
<1>3. ASSUME NEW c \in Calls, NEW held \in Call, Begins(c, held) \/ Previews(c, held)
      PROVE  HiredExist'
  <2>1. hired' = hired /\ call' = [call EXCEPT ![c] = held] /\ held.on = None
    BY <1>3 DEF Begins, Previews, Stays, Becomes
  <2> QED BY <1>0, <1>1, <2>1 DEF HiredExist
<1>4. ASSUME NEW c \in Calls, NEW held \in Call, Employs(c, held) PROVE HiredExist'
  <2>1. /\ hired' = hired \cup {call[c].on} /\ call' = [call EXCEPT ![c] = held]
        /\ held.on = None /\ call[c].pc = "employment"
    BY <1>4 DEF Employs, Becomes
  <2>2. call[c].on \in Existing
    BY <1>0, <2>1 DEF HiredExist, HeldFor
  <2> QED BY <1>0, <1>1, <2>1, <2>2 DEF HiredExist
<1>5. ASSUME NEW c \in Calls, NEW p \in Persons, NEW held \in Call,
             NEW i \in 1 .. Len(call[c].file), Hires(c, p, i, held)
      PROVE  HiredExist'
  <2>1. /\ hired' = hired /\ call' = [call EXCEPT ![c] = held] /\ held.on = p
        /\ person' = [person EXCEPT ![p] = IdentityOf(call[c].file[i])]
        /\ call[c].pc = "hire" /\ call[c].report[i] = "toImport"
    BY <1>5 DEF Hires, Becomes
  <2>2. ~Hard(call[c].file[i]) /\ call[c].file[i] \in Row
    <3>1. call[c].file \in Files \cup {<< >>}
      BY <1>0 DEF Call
    <3>2. ~Hard(call[c].file[i])
      BY <1>0, <2>1 DEF HeldFor
    <3> QED BY <3>1, <3>2, FileType
  <2>3. IdentityOf(call[c].file[i]) # NoPerson
    BY <2>2, IdentityType, IdentityIsSomebody
  <2>4. p \in Existing'
    BY <1>0, <2>1, <2>3 DEF Existing
  <2> QED BY <1>0, <1>1, <2>1, <2>4 DEF HiredExist
<1>6. ASSUME NEW c \in Calls, Ends(c) PROVE HiredExist'
  BY <1>0, <1>1, <1>6, IdleType DEF HiredExist, Ends, Stays, Becomes
<1>7. ASSUME NEW c \in Calls, NEW p \in Persons, Creates(c, p) PROVE HiredExist'
  BY <1>0, <1>1, <1>7, IdleType DEF HiredExist, Creates, Becomes
<1> QED BY <1>2, <1>3, <1>4, <1>5, <1>6, <1>7 DEF Steps

LEMMA HiredInductive == Spec => []HiredExist
<1>1. Init => HiredExist
  BY IdleType DEF Init, HiredExist
<1> QED BY <1>1, StepHired, TypeCorrect, NextStep, PTL DEF Spec

-----------------------------------------------------------------------------
(* The rows of an export: a name and a date for each person. *)
Record(p) == <<person[p].name, DateCell(person[p].birth)>>
Letters == STRING \cup {QUOTE, LF, CR, COMMA, "h", "k"} \cup {DateCell(b)[1] : b \in Births}

LEMMA TwoCells ==
  ASSUME NEW S, NEW a \in Seq(S), NEW b \in Seq(S), NEW r, r = <<a, b>>
  PROVE  r \in Seq(Seq(S)) /\ r # << >> /\ r # << << >> >>
<1>1. r \in Seq(Seq(S)) /\ Len(r) = 2
  OBVIOUS
<1>2. r # << >>
  BY <1>1, EmptySeq
<1>3. ASSUME r = << << >> >> PROVE FALSE
  <2>1. Len(r) = 1
    BY <1>3
  <2> QED BY <1>1, <2>1
<1> QED BY <1>1, <1>2, <1>3, Zenon

LEMMA LettersAre ==
  /\ {QUOTE, LF, CR, COMMA, "h", "k"} \subseteq Letters
  /\ \A b \in Births : DateCell(b) \in Seq(Letters)
<1>1. {QUOTE, LF, CR, COMMA, "h", "k"} \subseteq Letters
  BY DEF Letters
<1>2. ASSUME NEW b \in Births PROVE DateCell(b) \in Seq(Letters)
  <2>1. PICK t : DateCell(b) \in {<< >>, <<t>>}
    BY DateCellIs
  <2>2. CASE DateCell(b) = << >>
    BY <2>2
  <2>3. CASE DateCell(b) = <<t>>
    <3>1. PICK cell : cell = DateCell(b)
      OBVIOUS
    <3>2. cell[1] = t
      BY <2>3, <3>1
    <3>3. t \in Letters
      BY <3>1, <3>2 DEF Letters
    <3> QED BY <2>3, <3>3
  <2> QED BY <2>1, <2>2, <2>3
<1> QED BY <1>1, <1>2

LEMMA ExportIs ==
  ASSUME Typed, HiredExist
  PROVE  /\ Export \in Table(Letters) /\ Export # << >>
         /\ Export[1] = <<<<"h">>, <<"k">>>>
         /\ \A i \in 1 .. Len(Export) : \E j \in DOMAIN Export[i] : ~IsBlank(Export[i][j])
<1> DEFINE rows == SetToSeq(hired)
           body == [i \in DOMAIN rows |-> Record(rows[i])]
           headers == << <<<<"h">>, <<"k">>>> >>
           n == Len(rows)
           Line2 == {<<a, b>> : a \in Seq(Letters), b \in Seq(Letters)}
<1>1. rows \in Seq(hired)
  <2>1. IsFiniteSet(hired)
    BY ImportAssumption, FS_Subset DEF Typed, TypeOK
  <2> QED BY <2>1, ListedOnce
<1>2. n \in Nat /\ DOMAIN rows = 1 .. n /\ \A i \in 1 .. n : rows[i] \in hired
  BY <1>1, LenProperties, ElementOfSeq
<1>3. Export = headers \o body
  BY DEF Export, Record
<1>4. ASSUME NEW p \in hired
      PROVE  /\ person[p].name \in Names /\ person[p].name \in Seq(Letters)
             /\ DateCell(person[p].birth) \in Seq(Letters)
  <2>1. p \in Persons /\ person[p] \in Identity
    BY DEF HiredExist, Existing, Typed, TypeOK
  <2>2. person[p].name \in Names /\ person[p].birth \in Births
    BY <2>1 DEF Identity
  <2>3. person[p].name \in Seq(Letters)
    <3>1. STRING \subseteq Letters
      BY DEF Letters
    <3>2. person[p].name \in Seq(STRING)
      BY <2>2, ImportAssumption
    <3> QED BY <3>1, <3>2, SeqMonotonic
  <2> QED BY <2>2, <2>3, LettersAre
<1>5. \A i \in 1 .. n : Record(rows[i]) \in Line2
  BY <1>2, <1>4 DEF Record
<1>6. <<<<"h">>, <<"k">>>> \in Line2
  <2>1. "h" \in Letters /\ "k" \in Letters
    BY LettersAre
  <2>2. <<"h">> \in Seq(Letters) /\ <<"k">> \in Seq(Letters)
    BY <2>1
  <2>3. PICK a \in Seq(Letters), b \in Seq(Letters) : a = <<"h">> /\ b = <<"k">>
    BY <2>2
  <2>4. <<a, b>> \in Line2
    OBVIOUS
  <2> QED BY <2>3, <2>4
<1>7. headers \in Seq(Line2) /\ Len(headers) = 1
  BY <1>6
<1>8. body \in Seq(Line2) /\ Len(body) = n
  <2>1. body \in [1 .. n -> Line2]
    BY <1>2, <1>5
  <2> QED BY <1>2, <2>1
<1>9. \A i \in 1 .. n : body[i] = Record(rows[i])
  BY <1>2
<1>10. headers[1] = <<<<"h">>, <<"k">>>>
  OBVIOUS
<1> HIDE DEF headers, body
<1>11. /\ Export \in Seq(Line2) /\ Len(Export) = 1 + n
       /\ \A i \in 1 .. 1 + n : Export[i] = IF i <= 1 THEN headers[i] ELSE body[i - 1]
  <2> HIDE DEF Line2, n
  <2>1. /\ headers \o body \in Seq(Line2) /\ Len(headers \o body) = Len(headers) + Len(body)
        /\ \A i \in 1 .. Len(headers) + Len(body) :
             (headers \o body)[i] = IF i <= Len(headers) THEN headers[i] ELSE body[i - Len(headers)]
    BY <1>7, <1>8, ConcatProperties
  <2> QED BY <1>3, <1>7, <1>8, <2>1
<1>12. Export[1] = <<<<"h">>, <<"k">>>>
  <2>1. 1 \in 1 .. 1 + n
    BY <1>2
  <2> QED BY <1>10, <1>11, <2>1
<1>13. Export # << >>
  <2>1. Len(Export) # 0
    BY <1>2, <1>11
  <2> HIDE DEF n
  <2> QED BY <2>1
<1>14. ASSUME NEW r \in Line2 PROVE r \in Seq(Seq(Letters)) /\ r # << >> /\ r # << << >> >>
  <2>1. PICK a \in Seq(Letters), b \in Seq(Letters) : r = <<a, b>>
    BY <1>14
  <2> HIDE DEF Line2
  <2> QED BY <2>1, TwoCells
<1>15. Export \in Table(Letters)
  <2>1. Line2 \subseteq Seq(Seq(Letters))
    BY <1>14
  <2>2. \A i \in 1 .. Len(Export) : Export[i] \in Line2
    BY <1>11, ElementOfSeq
  <2> HIDE DEF Line2
  <2>3. Export \in Seq(Seq(Seq(Letters)))
    BY <1>11, <2>1, SeqMonotonic
  <2>4. Len(Export) \in 1 .. Len(Export)
    BY <1>2, <1>11
  <2> QED BY <1>14, <2>2, <2>3, <2>4 DEF Table
<1>16. ASSUME NEW i \in 1 .. Len(Export)
       PROVE  \E j \in DOMAIN Export[i] : ~IsBlank(Export[i][j])
  <2>1. CASE i = 1
    <3>1. PICK h : h = <<<<"h">>, <<"k">>>>
      OBVIOUS
    <3>2. 1 \in DOMAIN h /\ h[1] = <<"h">>
      BY <3>1
    <3>3. ~IsBlank(<<"h">>)
      <4>1. PICK cell : cell = <<"h">>
        OBVIOUS
      <4>2. 1 \in DOMAIN cell /\ cell[1] = "h"
        BY <4>1
      <4> QED BY <4>1, <4>2 DEF IsBlank, Blank, SPACE, TAB, LF, CR, BOM
    <3> QED BY <1>12, <2>1, <3>1, <3>2, <3>3
  <2>2. CASE i # 1
    <3>1. i - 1 \in 1 .. n /\ ~(i <= 1) /\ i \in 1 .. 1 + n
      BY <1>2, <1>11, <2>2
    <3>a. PICK k \in 1 .. n : k = i - 1
      BY <3>1
    <3>b. Export[i] = body[k]
      BY <1>11, <3>1, <3>a
    <3>2. Export[i] = Record(rows[k]) /\ rows[k] \in hired
      BY <1>2, <1>9, <3>b
    <3>3. PICK r, name : r = Record(rows[k]) /\ name = person[rows[k]].name
      OBVIOUS
    <3>4. 1 \in DOMAIN r /\ r[1] = name
      BY <3>3 DEF Record
    <3>5. ~IsBlank(name)
      BY <1>4, <3>2, <3>3, NameIsWritten
    <3> QED BY <3>2, <3>3, <3>4, <3>5
  <2> QED BY <2>1, <2>2
<1> QED BY <1>12, <1>13, <1>15, <1>16

(* An export is read as it was written, at every state.                    *)
LEMMA ExportReturns ==
  ASSUME Typed, HiredExist
  PROVE  ExportComesBack
<1>1. PICK rows : rows = Export
  OBVIOUS
<1>2. /\ rows \in Table(Letters) /\ rows # << >> /\ rows[1] = <<<<"h">>, <<"k">>>>
      /\ \A i \in 1 .. Len(rows) : \E j \in DOMAIN rows[i] : ~IsBlank(rows[i][j])
  BY <1>1, ExportIs
<1> DEFINE D == {QUOTE, COMMA, "h", "k"}
<1>3. detectDelimiter(FirstLine(toCsv(rows, COMMA))) = COMMA
  <2>1. rows[1] \in Seq(Seq(D))
    BY <1>2
  <2>2. {QUOTE, COMMA} \subseteq D /\ D \subseteq Letters /\ SEMI \notin D /\ TAB \notin D
    BY LettersAre DEF QUOTE, COMMA, SEMI, TAB
  <2>3. {QUOTE, LF, CR, COMMA} \subseteq Letters
    BY LettersAre
  <2> HIDE DEF D
  <2> QED BY <1>2, <2>1, <2>2, <2>3, CommaDetected
<1>4. parseCsv(<<BOM>> \o toCsv(rows, COMMA)) = Headed(NonEmpty(rows))
  BY <1>2, <1>3, LettersAre, ExportIsRead DEF Delimiters
<1>5. NonEmpty(rows) = rows
  <2>1. rows \in Seq(Seq(Seq(Letters)))
    BY <1>2 DEF Table
  <2> QED BY <1>2, <2>1, AllKept
<1>6. Headed(rows).rows = Tail(rows)
  BY <1>2 DEF Headed
<1>7. \A p \in hired : isExisting(person[p])
  <2> SUFFICES ASSUME NEW p \in hired PROVE isExisting(person[p])
    OBVIOUS
  <2>1. p \in Existing
    BY DEF HiredExist
  <2> QED BY <2>1 DEF isExisting
<1> QED BY <1>1, <1>4, <1>5, <1>6, <1>7 DEF ExportComesBack

-----------------------------------------------------------------------------
(* The columns of the model file *)

(* Where all the pairs have the same column, it is the first. *)
LEMMA FirstIs ==
  ASSUME NEW pairs, pairs # {}, NEW c \in Nat,
         \A p \in pairs : p[1] \in Nat /\ p[2] = c
  PROVE  First(pairs) = c
<1> DEFINE ranks == {p[1] : p \in pairs}
           least(p) == \A q \in pairs : p[1] < q[1] \/ (p[1] = q[1] /\ p[2] <= q[2])
<1>1. ranks \subseteq Nat /\ ranks # {}
  OBVIOUS
<1>2. PICK r \in ranks : \A s \in ranks : r <= s
  <2> HIDE DEF ranks
  <2> QED BY <1>1, LeastOf
<1>3. PICK p \in pairs : p[1] = r
  OBVIOUS
<1>4. ASSUME NEW q \in pairs PROVE p[1] < q[1] \/ (p[1] = q[1] /\ p[2] <= q[2])
  <2>1. q[1] \in Nat /\ p[1] \in Nat /\ p[2] = c /\ q[2] = c /\ q[1] \in ranks
    OBVIOUS
  <2>2. p[1] <= q[1]
    BY <1>2, <1>3, <2>1
  <2> QED BY <2>1, <2>2
<1>5. least(p)
  BY <1>4
<1>6. First(pairs) = (CHOOSE q \in pairs : least(q))[2]
  BY DEF First
<1>7. (CHOOSE q \in pairs : least(q)) \in pairs
  <2> HIDE DEF least
  <2> QED BY <1>5
<1> HIDE DEF least
<1> QED BY <1>6, <1>7

(* What puts the columns in an order puts each at a place. *)
Ordered(order, pos) ==
  /\ pos \in Seq(1 .. Len(Fields)) /\ Len(pos) = Len(Fields)
  /\ \A k \in 1 .. Len(Fields) : order[pos[k]] = k
  /\ \A c \in 1 .. Len(Fields) : order[c] \in 1 .. Len(Fields) /\ pos[order[c]] = c

LEMMA OrderExists ==
  ASSUME NEW order \in Bijection(DOMAIN Template, DOMAIN Template)
  PROVE  \E pos : Ordered(order, pos)
<1> DEFINE n == Len(Fields)
           pos == [k \in 1 .. n |-> CHOOSE c \in 1 .. n : order[c] = k]
<1>0. n \in Nat /\ DOMAIN Template = 1 .. n
  BY ImportAssumption, TemplateAssumption, LenProperties
<1>1. order \in [1 .. n -> 1 .. n]
  BY <1>0 DEF Bijection, Injection
<1>2. \A k \in 1 .. n : \E c \in 1 .. n : order[c] = k
  BY <1>0 DEF Bijection, Surjection
<1>3. \A a, b \in 1 .. n : order[a] = order[b] => a = b
  BY <1>0 DEF Bijection, Injection, IsInjective
<1> HIDE DEF n
<1>4. ASSUME NEW k \in 1 .. n PROVE pos[k] \in 1 .. n /\ order[pos[k]] = k
  BY <1>2
<1>5. pos \in [1 .. n -> 1 .. n]
  <2>1. pos = [k \in 1 .. n |-> pos[k]]
    OBVIOUS
  <2> HIDE DEF pos
  <2> QED BY <1>4, <2>1
<1> HIDE DEF pos
<1>6. pos \in Seq(1 .. n) /\ Len(pos) = n
  BY <1>0, <1>5
<1>7. \A c \in 1 .. n : order[c] \in 1 .. n /\ pos[order[c]] = c
  BY <1>1, <1>3, <1>4
<1> QED BY <1>4, <1>6, <1>7 DEF Ordered, n

(* Once the columns of the fields before it are taken, a field finds its   *)
(* own: no other that is left has its name, and, where none has, no other  *)
(* resembles it.                                                           *)
HeadersIn(order) == [c \in DOMAIN Template |-> Template[order[c]]]
Taken(pos, i) == {pos[k] : k \in 1 .. i - 1}

LEMMA RightColumn ==
  ASSUME NEW order, NEW pos, Ordered(order, pos), NEW i \in 1 .. Len(Fields)
  PROVE  Column(Fields[i], HeadersIn(order), Taken(pos, i)) = pos[i]
<1> SUFFICES ASSUME NEW headers, headers = [c \in DOMAIN Template |-> Template[order[c]]],
                    NEW used, used = {pos[k] : k \in 1 .. i - 1}
             PROVE  Column(Fields[i], headers, used) = pos[i]
  BY DEF HeadersIn, Taken
<1> DEFINE n == Len(Fields)
           names == Fields[i]
           free == DOMAIN headers \ used
           exact == Exact(names, headers, free)
           close == Close(names, headers, free)
           named == {j \in i .. n : Named(i, j)}
           similar == {j \in i .. n : Resembles(i, j)}
<1>0. /\ n \in Nat /\ DOMAIN Template = 1 .. n /\ DOMAIN headers = 1 .. n
      /\ Len(names) \in Nat
  <2>1. Len(Template) = n
    BY TemplateAssumption
  <2>2. Fields[i] \in Seq(STRING)
    BY ImportAssumption, ElementOfSeq
  <2> QED BY <2>1, <2>2, ImportAssumption, LenProperties
<1>1. /\ \A k \in 1 .. n : pos[k] \in 1 .. n /\ order[pos[k]] = k
      /\ \A c \in 1 .. n : order[c] \in 1 .. n /\ pos[order[c]] = c
  BY ElementOfSeq DEF Ordered
<1>2. named = {i} \/ (named = {} /\ similar = {i})
  BY TemplateAssumption
<1>3. ASSUME NEW c \in free
      PROVE  /\ c \in 1 .. n /\ order[c] \in i .. n /\ pos[order[c]] = c
             /\ headers[c] = Template[order[c]]
  <2>1. c \in 1 .. n /\ c \notin used
    BY <1>0
  <2>2. order[c] \in 1 .. n /\ pos[order[c]] = c
    BY <1>1, <2>1
  <2>3. order[c] \notin 1 .. i - 1
    BY <2>1, <2>2
  <2>4. order[c] \in i .. n
    BY <1>0, <2>2, <2>3
  <2> QED BY <1>0, <2>1, <2>2, <2>4
<1>4. pos[i] \in free /\ pos[i] \in Nat /\ headers[pos[i]] = Template[i]
  <2>1. pos[i] \in 1 .. n /\ order[pos[i]] = i
    BY <1>1
  <2>2. pos[i] \notin used
    <3>1. ASSUME NEW k \in 1 .. i - 1, pos[k] = pos[i] PROVE FALSE
      <4>1. k \in 1 .. n /\ k # i
        BY <1>0, <3>1
      <4>2. order[pos[k]] = k
        BY <1>1, <4>1
      <4> QED BY <2>1, <3>1, <4>1, <4>2
    <3> QED BY <3>1
  <2> QED BY <1>0, <2>1, <2>2
<1> HIDE DEF free
<1>5. ASSUME NEW p \in exact
      PROVE  p[1] \in 1 .. Len(names) /\ p[2] \in free /\ order[p[2]] \in named
  <2>1. p[1] \in 1 .. Len(names) /\ p[2] \in free /\ headers[p[2]] = names[p[1]]
    BY DEF Exact
  <2>2. PICK j : j = order[p[2]]
    OBVIOUS
  <2>3. j \in i .. n /\ Template[j] = names[p[1]]
    BY <1>3, <2>1, <2>2
  <2>4. Named(i, j)
    BY <2>1, <2>3 DEF Named
  <2> QED BY <2>1, <2>2, <2>3, <2>4
<1>6. ASSUME NEW p \in close
      PROVE  p[1] \in 2 .. Len(names) /\ p[2] \in free /\ order[p[2]] \in similar
  <2>1. p[1] \in 2 .. Len(names) /\ p[2] \in free /\ <<headers[p[2]], names[p[1]]>> \in Includes
    BY DEF Close
  <2>2. PICK j : j = order[p[2]]
    OBVIOUS
  <2>3. j \in i .. n /\ <<Template[j], names[p[1]]>> \in Includes
    BY <1>3, <2>1, <2>2
  <2>4. Resembles(i, j)
    BY <2>1, <2>3 DEF Resembles
  <2> QED BY <2>1, <2>2, <2>3, <2>4
<1>7. CASE named = {i}
  <2>1. exact # {}
    <3>1. Named(i, i)
      BY <1>7
    <3>2. PICK k \in 1 .. Len(names) : Template[i] = names[k]
      BY <3>1 DEF Named
    <3>3. <<k, pos[i]>> \in exact
      BY <1>4, <3>2 DEF Exact
    <3> QED BY <3>3
  <2>2. ASSUME NEW p \in exact PROVE p[1] \in Nat /\ p[2] = pos[i]
    <3>1. p[1] \in 1 .. Len(names) /\ p[2] \in free /\ order[p[2]] = i
      BY <1>5, <1>7
    <3>2. PICK c \in free : c = p[2]
      BY <3>1
    <3>3. pos[order[c]] = c /\ order[c] = i
      BY <1>3, <3>1, <3>2
    <3>4. p[1] \in Nat
      BY <1>0, <3>1
    <3> QED BY <3>2, <3>3, <3>4
  <2> HIDE DEF exact
  <2>3. First(exact) = pos[i]
    BY <1>4, <2>1, <2>2, FirstIs
  <2> QED BY <2>1, <2>3 DEF Column, exact, free
<1>8. CASE named = {} /\ similar = {i}
  <2>1. exact = {}
    <3> HIDE DEF exact, named
    <3> QED BY <1>5, <1>8
  <2>2. close # {}
    <3>1. Resembles(i, i)
      BY <1>8
    <3>2. PICK k \in 2 .. Len(names) : <<Template[i], names[k]>> \in Includes
      BY <3>1 DEF Resembles
    <3>3. <<k, pos[i]>> \in close
      BY <1>4, <3>2 DEF Close
    <3> QED BY <3>3
  <2>3. ASSUME NEW p \in close PROVE p[1] \in Nat /\ p[2] = pos[i]
    <3>1. p[1] \in 2 .. Len(names) /\ p[2] \in free /\ order[p[2]] = i
      BY <1>6, <1>8
    <3>2. PICK c \in free : c = p[2]
      BY <3>1
    <3>3. pos[order[c]] = c /\ order[c] = i
      BY <1>3, <3>1, <3>2
    <3>4. p[1] \in Nat
      BY <1>0, <3>1
    <3> QED BY <3>2, <3>3, <3>4
  <2> HIDE DEF exact, close
  <2>4. First(close) = pos[i]
    BY <1>4, <2>2, <2>3, FirstIs
  <2> QED BY <2>1, <2>4 DEF Column, exact, close, free
<1> QED BY <1>2, <1>7, <1>8

(* suggestMapping finds the place of each field. *)
IsMapping(f, headers) ==
  f = [i \in 0 .. Len(Fields) |->
         IF i = 0 THEN << >>
         ELSE Append(f[i - 1], Column(Fields[i], headers, Range(f[i - 1])))]

LEMMA MappingIs ==
  ASSUME NEW order, NEW pos, Ordered(order, pos),
         NEW headers, headers = [c \in DOMAIN Template |-> Template[order[c]]]
  PROVE  suggestMapping(headers) = pos
<1> DEFINE n == Len(Fields)
           found == CHOOSE f : IsMapping(f, headers)
           whole == [i \in 0 .. n |-> SubSeq(pos, 1, i)]
<1>0. n \in Nat /\ pos \in Seq(1 .. n) /\ Len(pos) = n
  BY ImportAssumption, LenProperties DEF Ordered
<1>1. suggestMapping(headers) = found[n]
  BY DEF suggestMapping, IsMapping
<1>2. ASSUME NEW i \in 1 .. n
      PROVE  Column(Fields[i], headers, Range(SubSeq(pos, 1, i - 1))) = pos[i]
  <2>1. PICK k \in 0 .. n : k = i - 1
    BY <1>0
  <2>2. DOMAIN SubSeq(pos, 1, k) = 1 .. k /\ \A j \in 1 .. k : SubSeq(pos, 1, k)[j] = pos[j]
    BY <1>0
  <2>3. Range(SubSeq(pos, 1, k)) = {pos[j] : j \in 1 .. k}
    BY <2>2 DEF Range
  <2>4. Range(SubSeq(pos, 1, k)) = Taken(pos, i)
    BY <2>1, <2>3 DEF Taken
  <2>5. Column(Fields[i], headers, Taken(pos, i)) = pos[i]
    <3>1. headers = HeadersIn(order)
      BY DEF HeadersIn
    <3>2. i \in 1 .. Len(Fields)
      OBVIOUS
    <3> HIDE DEF whole, found
    <3> QED BY <3>1, <3>2, RightColumn
  <2> QED BY <2>1, <2>4, <2>5
<1>3. whole[0] = << >>
  BY <1>0
<1>4. ASSUME NEW i \in 1 .. n
      PROVE  whole[i] = Append(whole[i - 1], Column(Fields[i], headers, Range(whole[i - 1])))
  <2>1. i - 1 \in 0 .. n /\ i - 1 < n /\ (i - 1) + 1 = i /\ i \in 0 .. n
    BY <1>0
  <2>2. PICK k \in 0 .. n : k = i - 1
    BY <2>1
  <2>3. SubSeq(pos, 1, k + 1) = Append(SubSeq(pos, 1, k), pos[k + 1])
    BY <1>0, <2>1, <2>2, SubSeqGrows
  <2>4. whole[i] = SubSeq(pos, 1, k + 1) /\ whole[k] = SubSeq(pos, 1, k) /\ k + 1 = i
    BY <2>1, <2>2
  <2>5. Column(Fields[i], headers, Range(SubSeq(pos, 1, k))) = pos[i]
    BY <1>2, <2>2
  <2> HIDE DEF whole
  <2> QED BY <2>2, <2>3, <2>4, <2>5
<1>5. IsMapping(whole, headers)
  <2> DEFINE step == [i \in 0 .. n |->
                        IF i = 0 THEN << >>
                        ELSE Append(whole[i - 1], Column(Fields[i], headers, Range(whole[i - 1])))]
  <2>1. ASSUME NEW i \in 0 .. n PROVE whole[i] = step[i]
    <3>1. i = 0 \/ i \in 1 .. n
      BY <1>0
    <3> HIDE DEF whole
    <3> QED BY <1>3, <1>4, <3>1
  <2>2. whole = step
    <3>1. DOMAIN whole = 0 .. n /\ DOMAIN step = 0 .. n
      OBVIOUS
    <3> QED BY <2>1
  <2> HIDE DEF whole
  <2> QED BY <2>2 DEF IsMapping
<1>6. IsMapping(found, headers)
  <2> HIDE DEF whole
  <2> QED BY <1>5
<1> HIDE DEF found
<1>7. ASSUME NEW i \in 0 .. n
      PROVE  found[i] = IF i = 0 THEN << >>
                        ELSE Append(found[i - 1], Column(Fields[i], headers, Range(found[i - 1])))
  BY <1>6 DEF IsMapping
<1> DEFINE Same == {i \in 0 .. n : found[i] = whole[i]}
<1>8. 0 \in Same
  <2>1. 0 \in 0 .. n
    BY <1>0
  <2> HIDE DEF whole
  <2> QED BY <1>3, <1>7, <2>1
<1>9. ASSUME NEW i \in 0 .. n, i < n, i \in Same PROVE i + 1 \in Same
  <2>1. PICK k \in 1 .. n : k = i + 1
    BY <1>0, <1>9
  <2>2. k \in 0 .. n /\ k # 0 /\ k - 1 = i
    BY <1>0, <2>1
  <2> HIDE DEF whole
  <2>3. found[k] = Append(found[i], Column(Fields[k], headers, Range(found[i])))
    BY <1>7, <2>2
  <2>4. whole[k] = Append(whole[i], Column(Fields[k], headers, Range(whole[i])))
    BY <1>4, <2>2
  <2>5. found[i] = whole[i]
    BY <1>9
  <2> QED BY <2>1, <2>2, <2>3, <2>4, <2>5
<1>10. n \in Same
  <2> HIDE DEF Same
  <2>1. \A i \in 0 .. n : i \in Same
    BY <1>0, <1>8, <1>9, UpTo
  <2> QED BY <1>0, <2>1
<1>11. whole[n] = pos
  BY <1>0, SubSeqFull
<1> QED BY <1>1, <1>10, <1>11

(* In whatever order its columns are put, the model file is understood:    *)
(* each column is taken for the field it is for (suggestMapping).          *)
THEOREM ColumnsAreUnderstood == ColumnsUnderstood
<1> SUFFICES ASSUME NEW order \in Bijection(DOMAIN Template, DOMAIN Template),
                    NEW headers, headers = [i \in DOMAIN Template |-> Template[order[i]]],
                    NEW i \in DOMAIN Fields
             PROVE  headers[suggestMapping(headers)[i]] = Template[i]
  BY DEF ColumnsUnderstood
<1>1. PICK pos : Ordered(order, pos)
  BY OrderExists
<1>2. suggestMapping(headers) = pos
  BY <1>1, MappingIs
<1>3. DOMAIN Template = 1 .. Len(Fields) /\ i \in 1 .. Len(Fields)
  <2>1. Len(Template) = Len(Fields)
    BY TemplateAssumption
  <2> QED BY <2>1, ImportAssumption, LenProperties
<1>4. pos[i] \in 1 .. Len(Fields) /\ order[pos[i]] = i
  BY <1>1, <1>3, ElementOfSeq DEF Ordered
<1> QED BY <1>2, <1>3, <1>4

-----------------------------------------------------------------------------
(* Files are read as they were meant: at every state, what is exported     *)
(* would come back, with nobody added; no upload in UTF-8 is taken for     *)
(* Latin-1; and the columns of the model file are told apart               *)
(* (exportCollaborators, parseCsv, decodeBytes, suggestMapping).           *)
THEOREM FilesAreRead == Spec => []FilesComeThrough
<1>1. Typed /\ HiredExist => ExportComesBack
  BY ExportReturns
<1>2. AccentsKept /\ ExportComesBack => FilesComeThrough
  BY ColumnsAreUnderstood DEF FilesComeThrough
<1> QED BY <1>1, <1>2, TypeCorrect, HiredInductive, AccentsComeThrough, PTL
=============================================================================
