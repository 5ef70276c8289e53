------------------------------- MODULE Import -------------------------------
(***************************************************************************)
(* The import of collaborators from a file (src/services-import.ts): the   *)
(* rows are classified against the persons there are, then those that      *)
(* conform are hired one by one.  Beside it, createPerson and              *)
(* createEstablishment (src/services.ts), which change what it compares    *)
(* with, and the export, which writes files it can read.  Calls and `live` *)
(* are those of Leave; what follows the employment within a hiring is      *)
(* modelled in Employment and Workforce.                                   *)
(***************************************************************************)
EXTENDS Csv, FiniteSets

CONSTANTS
  Calls,      \* slots for handlers in flight
  Persons,    \* identifiers of person rows
  Names,      \* last and first names, in lower case: sequences of characters
  Sirets,     \* the SIRET numbers of establishments
  Fields,     \* IMPORT_FIELDS: the names of each field, its key first
  Includes,   \* the pairs of a header and a name, one of which contains the other
  Template,   \* the headers of the model file, one for each field
  Files,      \* the files that are uploaded: sequences of rows
  Buffers,    \* the bytes of an accented cell of such a file
  Today,      \* the current year
  Stores,     \* the stores a deployment may select: TRUE in-memory, FALSE database
  None,       \* an empty cell, no person
  Malformed   \* a cell its normalisation refuses

(* The cells of a row, after normalisation (normDate, normContract,        *)
(* normNumber); dates are counted in years, pay stands for both numbers.   *)
Row == [name : Names \cup {None}, birth : Nat \cup {None, Malformed},
        start : Nat \cup {None, Malformed}, contractType : {"CDI", None, Malformed},
        pay : {"number", None, Malformed}, siret : Sirets \cup {None}]

Births == Nat \cup {None}

ASSUME ImportAssumption ==
  /\ IsFiniteSet(Calls) /\ IsFiniteSet(Persons)
  /\ \A f \in Files : f \in Seq(Row)
  /\ \A n \in Names : n \in Seq(STRING) /\ n # << >> /\ Trim(n) = n
  /\ Buffers \subseteq Seq(0 .. 255)
  /\ Fields \in Seq(Seq(STRING)) /\ Template \in Seq(STRING)
  /\ Today \in Nat
  /\ Stores \subseteq BOOLEAN
  /\ None \notin Names \cup Sirets \cup Persons \cup Nat
  /\ Malformed \notin Nat \cup {None}

(* The j-th header of the model file is a name of the i-th field, or       *)
(* resembles one.                                                          *)
Named(i, j) == \E k \in 1 .. Len(Fields[i]) : Template[j] = Fields[i][k]
Resembles(i, j) == \E k \in 2 .. Len(Fields[i]) : <<Template[j], Fields[i][k]>> \in Includes

(* The model file has a header for each field, and no other header of the  *)
(* fields that follow fits as well.                                        *)
ASSUME TemplateAssumption ==
  /\ Len(Template) = Len(Fields)
  /\ \A i \in 1 .. Len(Fields) :
       LET named == {j \in i .. Len(Fields) : Named(i, j)}
           similar == {j \in i .. Len(Fields) : Resembles(i, j)}
       IN  named = {i} \/ (named = {} /\ similar = {i})

VARIABLES
  live,       \* the store of this deployment is the in-memory one
  person,     \* the name and the birth date of each person
  byHand,     \* the persons created by createPerson
  hired,      \* the persons who have an employment
  sirets,     \* the establishments there are
  call        \* the handlers in flight

vars == <<live, person, byHand, hired, sirets, call>>

Identity == [name : Names, birth : Births]
NoPerson == [name |-> None, birth |-> None]
RowStatus == {"toImport", "review", "rejected", "skipped", "imported"}
Stages == {"idle", "preview", "hire", "employment", "person"}

(* What a handler holds: the file, the bytes it came in until they are     *)
(* decoded, its report, the establishments it listed, the identity and the *)
(* row of the person it is about to create.                                *)
Call == [pc : Stages, file : Files \cup {<< >>}, bytes : Buffers \cup {<< >>}, known : SUBSET Sirets,
         report : Seq(RowStatus), who : Identity \cup {NoPerson}, on : Persons \cup {None}]
Idle == [pc |-> "idle", file |-> << >>, bytes |-> << >>, known |-> {}, report |-> << >>,
         who |-> NoPerson, on |-> None]

TypeOK ==
  /\ live \in BOOLEAN
  /\ person \in [Persons -> Identity \cup {NoPerson}]
  /\ byHand \subseteq Persons /\ hired \subseteq Persons
  /\ sirets \subseteq Sirets
  /\ call \in [Calls -> Call]

Init ==
  /\ live \in Stores
  /\ person = [p \in Persons |-> NoPerson]
  /\ byHand = {} /\ hired = {}
  /\ sirets = {}
  /\ call = [c \in Calls |-> Idle]

-----------------------------------------------------------------------------
(* Mistakes: the operators named Bad... are not part of the specification; *)
(* each is a plausible slip in the definition of the same name below it.   *)

(* The column of the first name that finds one, the leftmost. *)
First(pairs) ==
  IF pairs = {} THEN 0
  ELSE (CHOOSE p \in pairs : \A q \in pairs : p[1] < q[1] \/ (p[1] = q[1] /\ p[2] <= q[2]))[2]

(* A header that is a name of the field, or else one that contains, or is  *)
(* contained in, a synonym.                                                *)
Exact(names, headers, free) ==
  {p \in (1 .. Len(names)) \X free : headers[p[2]] = names[p[1]]}
Close(names, headers, free) ==
  {p \in (2 .. Len(names)) \X free : <<headers[p[2]], names[p[1]]>> \in Includes}

BadColumn(names, headers, used) ==
  LET free == DOMAIN headers \ used IN
  First(Exact(names, headers, free) \cup Close(names, headers, free))

Column(names, headers, used) ==
  LET free == DOMAIN headers \ used
      exact == Exact(names, headers, free)
  IN
  First(IF exact # {} THEN exact ELSE Close(names, headers, free))

(* suggestMapping: the column of each field, of those that are left. *)
suggestMapping(headers) ==
  LET found[i \in 0 .. Len(Fields)] ==
        IF i = 0 THEN << >>
        ELSE Append(found[i - 1], Column(Fields[i], headers, Range(found[i - 1])))
  IN  found[Len(Fields)]

-----------------------------------------------------------------------------
Existing == {p \in Persons : person[p] # NoPerson}

(* findPersonDuplicates: a person without a birth date is no duplicate of  *)
(* one who has it.                                                         *)
Duplicates(who) ==
  {p \in Existing : person[p].name = who.name /\ who.birth \in {None, person[p].birth}}

BadIsExisting(row) ==
  \E p \in Existing : person[p].name = row.name /\ person[p].birth = row.birth

(* existingIndex, isExisting: the same name, and the same birth date or    *)
(* one of the two unknown.                                                 *)
isExisting(row) ==
  \E p \in Existing : /\ person[p].name = row.name
                      /\ row.birth = None \/ person[p].birth \in {None, row.birth}

(* What makes a row impossible to import, ... *)
Hard(row) ==
  \/ None \in {row.name, row.start, row.contractType}
  \/ Malformed \in {row.start, row.contractType, row.birth, row.pay}

(* ... and what makes it one to look at: a birth in the future, an age at  *)
(* the start below 16 or above 90, a start before 2000 or in more than two *)
(* years, an unknown establishment.                                        *)
Soft(row, known) ==
  \/ /\ row.birth # None
     /\ row.birth > Today \/ row.start - row.birth \notin 16 .. 90
  \/ row.start < 2000 \/ row.start > Today + 2
  \/ row.siret \notin known \cup {None}

dupKey(row) == <<row.name, row.birth>>

(* A row with the same key went before, whether or not it was to import. *)
Seen(file, i) ==
  \E j \in 1 .. i - 1 : ~Hard(file[j]) /\ dupKey(file[j]) = dupKey(file[i])

classify(file, known) ==
  [i \in 1 .. Len(file) |->
    CASE Hard(file[i]) -> "rejected"
      [] ~Hard(file[i]) /\ isExisting(file[i]) -> "skipped"
      [] /\ ~Hard(file[i]) /\ ~isExisting(file[i])
         /\ Seen(file, i) \/ Soft(file[i], known) -> "review"
      [] OTHER -> "toImport"]

-----------------------------------------------------------------------------
Update(c, new) == call' = [call EXCEPT ![c] = new]
Return(c) == Update(c, Idle)
At(c, stage) == call[c].pc = stage /\ UNCHANGED <<live, sirets>>

(* commit: preview decodes and parses the file and lists the               *)
(* establishments, ...                                                     *)
Upload(c, f, buf) ==
  /\ call[c] = Idle
  /\ Update(c, [Idle EXCEPT !.pc = "preview", !.file = f, !.bytes = buf, !.known = sirets])
  /\ UNCHANGED <<live, person, byHand, hired, sirets>>

(* ... then the persons, and classifies the rows. *)
Preview(c) ==
  /\ At(c, "preview")
  /\ Update(c, [call[c] EXCEPT !.pc = "hire", !.known = {}, !.bytes = << >>,
                               !.report = classify(call[c].file, call[c].known)])
  /\ UNCHANGED <<person, byHand, hired>>

ToImport(c) == {i \in 1 .. Len(call[c].report) : call[c].report[i] = "toImport"}
IdentityOf(row) == [name |-> row.name, birth |-> row.birth]

(* createPerson(r) of the repository, under a fresh identifier. *)
CreateRow(p, who) ==
  /\ person[p] = NoPerson
  /\ person' = [person EXCEPT ![p] = who]

(* The hiring of the next conforming row: the person, without looking for  *)
(* duplicates again, ...                                                   *)
HirePerson(c, p) ==
  \E i \in ToImport(c) :
    /\ At(c, "hire")
    /\ \A j \in ToImport(c) : i <= j
    /\ CreateRow(p, IdentityOf(call[c].file[i]))
    /\ Update(c, [call[c] EXCEPT !.pc = "employment", !.on = p, !.report[i] = "imported"])
    /\ UNCHANGED <<byHand, hired>>

(* A row whose hiring throws is passed over. *)
BadHireEmployment(c) ==
  /\ At(c, "employment")
  /\ hired' \in {hired, hired \cup {call[c].on}}
  /\ Update(c, [call[c] EXCEPT !.pc = "hire", !.on = None])
  /\ UNCHANGED <<person, byHand>>

(* ... then the employment. *)
HireEmployment(c) ==
  /\ At(c, "employment")
  /\ hired' = hired \cup {call[c].on}
  /\ Update(c, [call[c] EXCEPT !.pc = "hire", !.on = None])
  /\ UNCHANGED <<person, byHand>>

(* When no row is left, CollaboratorsImported and the audit. *)
Imported(c) ==
  /\ At(c, "hire") /\ ToImport(c) = {}
  /\ Return(c)
  /\ UNCHANGED <<person, byHand, hired>>

-----------------------------------------------------------------------------
BadFindDuplicates(c, who) ==
  /\ call[c] = Idle
  /\ Update(c, [Idle EXCEPT !.pc = "person", !.who = who])
  /\ UNCHANGED <<live, person, byHand, hired, sirets>>

(* createPerson: look for duplicates (409 duplicate_candidate), create. *)
FindDuplicates(c, who) ==
  /\ call[c] = Idle
  /\ Duplicates(who) = {}
  /\ Update(c, [Idle EXCEPT !.pc = "person", !.who = who])
  /\ UNCHANGED <<live, person, byHand, hired, sirets>>

CreatePerson(c, p) ==
  /\ At(c, "person")
  /\ CreateRow(p, call[c].who)
  /\ byHand' = byHand \cup {p}
  /\ Return(c)
  /\ UNCHANGED hired

(* createEstablishment (modelled in Registers). *)
CreateEstablishment(s) ==
  /\ sirets' = sirets \cup {s}
  /\ UNCHANGED <<live, person, byHand, hired, call>>

(* A call to the database rejects: the handler is abandoned. *)
Fail(c) ==
  /\ ~live /\ call[c] # Idle
  /\ Return(c)
  /\ UNCHANGED <<live, person, byHand, hired, sirets>>

Continue(c) ==
  \/ Preview(c) \/ HireEmployment(c) \/ Imported(c)
  \/ \E p \in Persons : HirePerson(c, p) \/ CreatePerson(c, p)

Next ==
  \/ \E c \in Calls : Continue(c) \/ Fail(c)
  \/ \E c \in Calls, f \in Files, buf \in Buffers : Upload(c, f, buf)
  \/ \E c \in Calls, f \in Files : \E i \in 1 .. Len(f) :
       ~Hard(f[i]) /\ FindDuplicates(c, IdentityOf(f[i]))
  \/ \E s \in Sirets : CreateEstablishment(s)

Spec == Init /\ [][Next]_vars

-----------------------------------------------------------------------------
(* exportCollaborators: a row for each employment.  Its first row has      *)
(* headers only, and at least two of them.                                 *)
DateCell(birth) == IF birth = None THEN << >> ELSE <<ToString(birth)>>
Export ==
  LET rows == SetToSeq(hired) IN
  << <<<<"h">>, <<"k">>>> >>
    \o [i \in DOMAIN rows |-> <<person[rows[i]].name, DateCell(person[rows[i]].birth)>>]

-----------------------------------------------------------------------------
(* A person, known by name and birth date, is created once for each        *)
(* handler in flight at most: with one at a time, importing a file again,  *)
(* or what was entered by hand, adds nobody twice (commit, createPerson).  *)
OncePerHandler ==
  \A who \in {person[p] : p \in Existing} :
    Cardinality({p \in Persons : person[p] = who}) <= Cardinality(Calls)

(* The import is at least as strict as the search for duplicates its       *)
(* comment refers to: it never imports a row createPerson would refuse     *)
(* (isExisting, findPersonDuplicates).                                     *)
NoKnownDuplicate ==
  \A f \in Files : \A i \in 1 .. Len(f) :
    ~Hard(f[i]) /\ Duplicates(IdentityOf(f[i])) # {} => classify(f, sirets)[i] = "skipped"

(* Somebody the row describes is employed, or being hired, or was entered  *)
(* by hand.                                                                *)
Covered(row) ==
  \E p \in Existing :
    /\ person[p].name = row.name
    /\ p \in hired \cup byHand \/ \E c \in Calls : call[c].on = p

(* When an import has gone through its report, everyone it imported or     *)
(* passed over as present is employed.                                     *)
NobodyLeftBehind ==
  \A c \in Calls : call[c].pc = "hire" =>
    \A i \in 1 .. Len(call[c].report) :
      call[c].report[i] \in {"imported", "skipped"} => Covered(call[c].file[i])

(* In memory, where nothing fails, an import leaves nobody behind. *)
NobodyLeftInMemory == live => NobodyLeftBehind

(* What is exported comes back: the file reads as it was written, whatever *)
(* quotes, delimiters and line breaks its names contain, and importing it  *)
(* again adds nobody (exportCollaborators, toCsv, parseCsv, isExisting).   *)
ExportComesBack ==
  /\ parseCsv(<<BOM>> \o toCsv(Export, COMMA)).rows = Tail(Export)
  /\ \A p \in hired : isExisting(person[p])

(* A file in well-formed UTF-8 is never taken for Latin-1, which would     *)
(* garble its accents (decodeBytes).                                       *)
AccentsKept ==
  \A c \in Calls : WellFormed(call[c].bytes) => decodeBytes(call[c].bytes) = "utf-8"

(* In whatever order its columns are put, the model file is understood:    *)
(* each column is taken for the field it is for (suggestMapping).          *)
ColumnsUnderstood ==
  \A order \in Bijection(DOMAIN Template, DOMAIN Template) :
    LET headers == [i \in DOMAIN Template |-> Template[order[i]]] IN
    \A i \in DOMAIN Fields : headers[suggestMapping(headers)[i]] = Template[i]

(* Files are read as they were meant. *)
FilesComeThrough == ExportComesBack /\ AccentsKept /\ ColumnsUnderstood
=============================================================================
