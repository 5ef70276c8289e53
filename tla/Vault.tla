-------------------------------- MODULE Vault --------------------------------
(***************************************************************************)
(* The document vault of MvpServices (src/services-mvp.ts): deposit,       *)
(* validation, signature, publication, archiving, legal hold, anonymising  *)
(* and deletion of the documents of one person, whose content lives in an  *)
(* object store next to the register, and the archiving that the departure *)
(* of the person triggers (src/app.ts).                                    *)
(*                                                                         *)
(* Calls and `live` are those of Leave.  Events change nothing here but    *)
(* for EmployeeDeparture; the others are left out.                         *)
(***************************************************************************)
EXTENDS Integers, FiniteSets

CONSTANTS
  Calls,         \* slots for handlers in flight
  Documents,     \* document identifiers
  MaxDay,        \* bound: the days that are modelled are 0..MaxDay
  Keep,          \* RETENTION.years, in days of the model
  GivenDates,    \* the ends of retention a caller may ask for
  EndDates,      \* the ends of employment a deposit may find, if any is known
  Stores,        \* the stores a deployment may select: TRUE in-memory, FALSE database
  None           \* no document

ASSUME VaultAssumption ==
  /\ MaxDay \in Nat /\ Keep \in Nat
  /\ GivenDates \cup EndDates \subseteq 0 .. MaxDay
  /\ Stores \subseteq BOOLEAN
  /\ None \notin Documents

VARIABLES
  live,       \* the store of this deployment is the in-memory one
  today,      \* the current day
  doc,        \* the register: the row of each document
  blob,       \* the documents whose content is in the object store
  challenge,  \* OtpSignatureProvider.challenges: the documents with a challenge
  requested,  \* the documents a signature was ever requested for
  call        \* the handlers in flight

vars == <<live, today, doc, blob, challenge, requested, call>>

Days == 0 .. MaxDay
Unset == -1                      \* undefined: no retention or no end date

(* A row: before, during and after its life in the register; `content`: it *)
(* refers to the object store (not vault://); `attached`: personId is set. *)
Row == [row : {"absent", "present", "deleted"},
        status : {"DRAFT", "VALIDATED", "SIGNED", "PUBLISHED", "ARCHIVED"},
        signature : {"NONE", "PENDING", "SIGNED"},
        content : BOOLEAN, until : Unset .. MaxDay + Keep,
        hold : BOOLEAN, attached : BOOLEAN]

Blank == [row |-> "absent", status |-> "DRAFT", signature |-> "NONE", content |-> FALSE,
          until |-> Unset, hold |-> FALSE, attached |-> TRUE]

Stages == {"idle", "create", "validate", "publish", "archive", "request", "issue",
           "sign", "signOwn", "hold", "release", "anonymize", "delete",
           "deleteContent", "deleteRow", "list", "archiveAll"}

(* What a handler holds: its document, the row it fetched or is about to   *)
(* insert, and the documents archivePersonDocuments has listed.            *)
Call == [pc : Stages, on : Documents \cup {None}, seen : Row, listed : SUBSET Documents]
Idle == [pc |-> "idle", on |-> None, seen |-> Blank, listed |-> {}]

TypeOK ==
  /\ live \in BOOLEAN
  /\ today \in Days
  /\ doc \in [Documents -> Row]
  /\ blob \subseteq Documents
  /\ challenge \subseteq Documents
  /\ requested \subseteq Documents
  /\ call \in [Calls -> Call]

Init ==
  /\ live \in Stores
  /\ today = 0
  /\ doc = [d \in Documents |-> Blank]
  /\ blob = {} /\ challenge = {} /\ requested = {}
  /\ call = [c \in Calls |-> Idle]

-----------------------------------------------------------------------------
(* Mistakes: the operators named Bad... are not part of the specification; *)
(* each is a plausible slip in the definition of the same name below it.   *)

(* The row a handler tests: the live one, or the copy it fetched. *)
Seen(c) == IF live THEN doc[call[c].on] ELSE call[c].seen

Goto(c, stage) == call' = [call EXCEPT ![c].pc = stage, ![c].seen = Blank]
Return(c) == call' = [call EXCEPT ![c] = Idle]
Begin(c, stage, d, seen) ==
  /\ call[c] = Idle
  /\ call' = [call EXCEPT ![c] = [Idle EXCEPT !.pc = stage, !.on = d, !.seen = seen]]

(* updateDocument: of a row that is still there. *)
Update(d, new) == doc' = IF doc[d].row = "present" THEN [doc EXCEPT ![d] = new] ELSE doc

(* computeRetentionUntil, unless the caller gave a date: the deposit or the*)
(* end of the employment, which may not be known, plus the legal duration. *)
RetentionUntil(basis, given, end) ==
  CASE given # Unset -> given
    [] given = Unset /\ basis = "deposit" -> today + Keep
    [] given = Unset /\ basis = "employmentEnd" /\ end # Unset -> end + Keep
    [] OTHER -> Unset

-----------------------------------------------------------------------------
(* depositDocument: the content is put in the object store first, ...      *)
Deposit(c, d, content, hold, until) ==
  /\ doc[d].row = "absent"
  /\ \A o \in Calls : call[o].on # d
  /\ Begin(c, "create", d, [Blank EXCEPT !.row = "present", !.content = content,
                                          !.hold = hold, !.until = until])
  /\ blob' = IF content THEN blob \cup {d} ELSE blob
  /\ UNCHANGED <<live, today, doc, challenge, requested>>

(* ... then the row is inserted. *)
Create(c) ==
  /\ call[c].pc = "create"
  /\ doc' = [doc EXCEPT ![call[c].on] = call[c].seen]
  /\ Return(c)
  /\ UNCHANGED <<live, today, blob, challenge, requested>>

(* Every other operation on a document fetches it (404 when absent), and   *)
(* tests what it fetched, but for setLegalHold.                            *)
Fetch(c, d, stage) ==
  /\ doc[d].row = "present"
  /\ Begin(c, stage, d, IF live \/ stage \in {"hold", "release"} THEN Blank ELSE doc[d])
  /\ UNCHANGED <<live, today, doc, blob, challenge, requested>>

(* The step that follows the fetch: refuse with 409, or write and return.  *)
CheckAndUpdate(c, stage, ok, new) ==
  /\ call[c].pc = stage
  /\ IF ok THEN Update(call[c].on, new) ELSE UNCHANGED doc
  /\ Return(c)
  /\ UNCHANGED <<live, today, blob, requested>>

BadTransition(c, stage, from, to) ==
  LET d == call[c].on IN
  /\ CheckAndUpdate(c, stage, Seen(c).status \in from \cup {"SIGNED"}, [doc[d] EXCEPT !.status = to])
  /\ UNCHANGED challenge

(* transitionStatus: what is signed is only published or archived. *)
Transition(c, stage, from, to) ==
  LET d == call[c].on IN
  /\ CheckAndUpdate(c, stage,
       /\ Seen(c).signature = "SIGNED" => to \in {"PUBLISHED", "ARCHIVED"}
       /\ Seen(c).status \in from,
       [doc[d] EXCEPT !.status = to])
  /\ UNCHANGED challenge

Validate(c) == Transition(c, "validate", {"DRAFT"}, "VALIDATED")
Publish(c) == Transition(c, "publish", {"VALIDATED", "SIGNED"}, "PUBLISHED")
Archive(c) == Transition(c, "archive", {"DRAFT", "VALIDATED", "SIGNED", "PUBLISHED"}, "ARCHIVED")

-----------------------------------------------------------------------------
(* requestSignature: PENDING in the register, then a challenge in memory.  *)
RequestSignature(c) ==
  LET d == call[c].on IN
  /\ call[c].pc = "request"
  /\ IF Seen(c).signature # "SIGNED"
       THEN /\ Update(d, [doc[d] EXCEPT !.signature = "PENDING"])
            /\ requested' = requested \cup {d}
            /\ Goto(c, "issue")
       ELSE Return(c) /\ UNCHANGED <<doc, requested>>
  /\ UNCHANGED <<live, today, blob, challenge>>

IssueChallenge(c) ==
  /\ call[c].pc = "issue"
  /\ challenge' = challenge \cup {call[c].on}
  /\ Return(c)
  /\ UNCHANGED <<live, today, doc, blob, requested>>

Signed(d) == [doc[d] EXCEPT !.signature = "SIGNED", !.status = "SIGNED"]

BadSign(c) ==
  /\ CheckAndUpdate(c, "sign", Seen(c).signature # "SIGNED", Signed(call[c].on))
  /\ UNCHANGED challenge

(* signDocument: with the OTP of a challenge, whatever the status.  Every  *)
(* check fails or passes here: the OTP may be missing or wrong.            *)
Sign(c) ==
  /\ CheckAndUpdate(c, "sign", Seen(c).signature # "SIGNED" /\ call[c].on \in challenge,
                    Signed(call[c].on))
  /\ UNCHANGED challenge

(* signOwnDocument: of one's own document, which must be pending. *)
SignOwn(c) ==
  LET ok == Seen(c).attached /\ Seen(c).signature = "PENDING" IN
  /\ CheckAndUpdate(c, "signOwn", ok, Signed(call[c].on))
  /\ challenge' = IF ok THEN challenge \cup {call[c].on} ELSE challenge

-----------------------------------------------------------------------------
SetHold(c, stage, hold) ==
  LET d == call[c].on IN
  /\ CheckAndUpdate(c, stage, TRUE, [doc[d] EXCEPT !.hold = hold])
  /\ UNCHANGED challenge

(* anonymizeDocument: the patch sets personId to undefined, which empties  *)
(* the field of the live object; Prisma leaves an undefined field alone.   *)
Anonymize(c) ==
  LET d == call[c].on IN
  /\ CheckAndUpdate(c, "anonymize", ~Seen(c).hold,
       [doc[d] EXCEPT !.attached = @ /\ ~live])
  /\ UNCHANGED challenge

BadMayDeleteUnset(c) == ~Seen(c).hold /\ Seen(c).until < today

MayDelete(c) == ~Seen(c).hold /\ Seen(c).until # Unset /\ Seen(c).until < today

Remove(d) == Update(d, [doc[d] EXCEPT !.row = "deleted"])

(* deleteDocument: no hold and an expired retention, or 409; a document    *)
(* without content goes at once, for one with content ...                  *)
Delete(c) ==
  /\ call[c].pc = "delete"
  /\ \/ ~MayDelete(c) /\ Return(c) /\ UNCHANGED doc
     \/ MayDelete(c) /\ ~Seen(c).content /\ Return(c) /\ Remove(call[c].on)
     \/ MayDelete(c) /\ Seen(c).content /\ Goto(c, "deleteContent") /\ UNCHANGED doc
  /\ UNCHANGED <<live, today, blob, challenge, requested>>

BadDeleteContent(c) ==
  /\ call[c].pc = "deleteContent"
  /\ blob' \in {blob, blob \ {call[c].on}}
  /\ Return(c)
  /\ UNCHANGED <<live, today, doc, challenge, requested>>

(* ... the object store is awaited first; a failure of it is ignored ...   *)
DeleteContent(c) ==
  /\ call[c].pc = "deleteContent"
  /\ blob' \in {blob, blob \ {call[c].on}}
  /\ Goto(c, "deleteRow")
  /\ UNCHANGED <<live, today, doc, challenge, requested>>

(* ... and then the row goes, without another look at it.                  *)
DeleteRow(c) ==
  /\ call[c].pc = "deleteRow"
  /\ Remove(call[c].on)
  /\ Return(c)
  /\ UNCHANGED <<live, today, blob, challenge, requested>>

-----------------------------------------------------------------------------
Owned == {d \in Documents : doc[d].row = "present" /\ doc[d].attached}

(* The subscriber of EmployeeDeparture starts archivePersonDocuments. *)
EmployeeDeparture(c) ==
  /\ call[c] = Idle
  /\ call' = [call EXCEPT ![c].pc = "list"]
  /\ UNCHANGED <<live, today, doc, blob, challenge, requested>>

BadList(c) ==
  /\ call[c].pc = "list"
  /\ call' = [call EXCEPT ![c].pc = "archiveAll",
                ![c].listed = {d \in Owned : doc[d].status \in {"SIGNED", "PUBLISHED"}}]
  /\ UNCHANGED <<live, today, doc, blob, challenge, requested>>

List(c) ==
  /\ call[c].pc = "list"
  /\ call' = [call EXCEPT ![c].pc = "archiveAll",
                ![c].listed = {d \in Owned : live \/ doc[d].status # "ARCHIVED"}]
  /\ UNCHANGED <<live, today, doc, blob, challenge, requested>>

ArchiveNext(c, d) ==
  /\ call[c].pc = "archiveAll" /\ d \in call[c].listed
  /\ Update(d, [doc[d] EXCEPT !.status = "ARCHIVED"])
  /\ call' = [call EXCEPT ![c].listed = @ \ {d}]
  /\ UNCHANGED <<live, today, blob, challenge, requested>>

ArchivedAll(c) ==
  /\ call[c].pc = "archiveAll" /\ call[c].listed = {}
  /\ Return(c)
  /\ UNCHANGED <<live, today, doc, blob, challenge, requested>>

(* Over the database a handler may be abandoned where it stands, ... *)
Fail(c) ==
  /\ ~live
  /\ call[c] # Idle
  /\ Return(c)
  /\ UNCHANGED <<live, today, doc, blob, challenge, requested>>

(* ... or the process restarts, and forgets its handlers and challenges. *)
Restart ==
  /\ ~live
  /\ call' = [c \in Calls |-> Idle]
  /\ challenge' = {}
  /\ UNCHANGED <<live, today, doc, blob, requested>>

NextDay ==
  /\ today < MaxDay
  /\ today' = today + 1
  /\ UNCHANGED <<live, doc, blob, challenge, requested, call>>

Continue(c) ==
  \/ Create(c) \/ Validate(c) \/ Publish(c) \/ Archive(c)
  \/ RequestSignature(c) \/ IssueChallenge(c) \/ Sign(c) \/ SignOwn(c)
  \/ SetHold(c, "hold", TRUE) \/ SetHold(c, "release", FALSE) \/ Anonymize(c)
  \/ Delete(c) \/ DeleteContent(c) \/ DeleteRow(c)
  \/ List(c) \/ (\E d \in Documents : ArchiveNext(c, d)) \/ ArchivedAll(c)

Fetches == {"validate", "publish", "archive", "request", "sign", "signOwn",
            "hold", "release", "anonymize", "delete"}

Start(c) ==
  \/ \E d \in Documents, content, hold \in BOOLEAN, basis \in {"deposit", "employmentEnd"},
        given \in {Unset} \cup GivenDates, end \in {Unset} \cup EndDates :
       Deposit(c, d, content, hold, RetentionUntil(basis, given, end))
  \/ \E d \in Documents, stage \in Fetches : Fetch(c, d, stage)
  \/ EmployeeDeparture(c)

Next ==
  \/ \E c \in Calls : Start(c) \/ Continue(c) \/ Fail(c)
  \/ Restart
  \/ NextDay

Spec == Init /\ [][Next]_vars

(* The event loop settles what a handler awaits; nothing else is obliged.  *)
FairSpec == Spec /\ \A c \in Calls : WF_vars(Continue(c))

-----------------------------------------------------------------------------
(* Over the in-memory store a document in the register can be downloaded:  *)
(* its content is there unless a deletion of it is under way, although     *)
(* content and row are written and removed by separate steps.              *)
ContentIsKept ==
  \A d \in Documents :
    live /\ doc[d].row = "present" /\ doc[d].content =>
      d \in blob \/ \E c \in Calls : call[c].pc = "deleteRow" /\ call[c].on = d

(* Only what a signature was requested for is ever signed: signDocument    *)
(* needs a challenge, which requestSignature issues after marking the row, *)
(* and signOwnDocument a row that is so marked.                            *)
SignedOnRequest == \A d \in Documents : doc[d].signature = "SIGNED" => d \in requested

(* Over the in-memory store a signature is final and what is signed never  *)
(* becomes a draft or merely validated again (transitionStatus,            *)
(* requestSignature and signDocument test the row before they write it).   *)
SignedIsFinal ==
  [][\A d \in Documents :
       live /\ doc[d].signature = "SIGNED" =>
         /\ doc'[d].signature = "SIGNED"
         /\ doc[d].status \in {"SIGNED", "PUBLISHED", "ARCHIVED"} =>
              doc'[d].status \in {"SIGNED", "PUBLISHED", "ARCHIVED"}]_vars

(* Nothing goes before its retention has expired, over either store and    *)
(* whatever happens between the check of deleteDocument and its writes.    *)
DeletedIsExpired ==
  [][\A d \in Documents :
       \/ doc[d].row = "present" /\ doc'[d].row = "deleted"
       \/ d \in blob /\ d \notin blob'
       => doc[d].until # Unset /\ doc[d].until < today]_vars

(* A legal hold bars the deletion of the document until it is released, as *)
(* the comment of deleteDocument has it.  False: the hold is tested before *)
(* the object store is awaited, and the row goes after.                    *)
HoldBarsDeletion ==
  [][\A d \in Documents :
       doc[d].row = "present" /\ doc[d].hold => doc'[d].row = "present"]_vars

(* Over the store that does not fail, the departure archives every document*)
(* the person had, unless it was deleted or anonymised in the meantime.    *)
DepartureArchives ==
  \A d \in Documents :
    (live /\ d \in Owned /\ \E c \in Calls : call[c].pc = "list") ~>
      (doc[d].status = "ARCHIVED" \/ doc[d].row = "deleted" \/ ~doc[d].attached)
=============================================================================
