------------------------------- MODULE Dossier -------------------------------
(***************************************************************************)
(* The dossier of one person: bank accounts, addresses, sensitive          *)
(* identifiers and change requests (src/services-sensitive.ts), and the    *)
(* anonymising of the person (src/services-privacy.ts).  Accounts and      *)
(* addresses are historised: a registration closes what is open and adds a *)
(* row.  Calls and `live` are those of Leave; dossiers of two persons      *)
(* share nothing.  Readings write nothing but the audit log and are left   *)
(* out, as are the audit rows of the others.                               *)
(***************************************************************************)
EXTENDS Naturals, FiniteSets

CONSTANTS
  Calls,     \* slots for handlers in flight
  Rows,      \* bound: the rows there may be
  Requests,  \* change requests of the address
  Stores,    \* the stores a deployment may select: TRUE in-memory, FALSE database
  None       \* no table, status, handler or request

Tables == {"bank", "address", "identifier"}
BankStatus == {"FURNISHED", "TO_VERIFY", "VALIDATED", "REJECTED", "REPLACED"}

ASSUME DossierAssumption ==
  /\ Stores \subseteq BOOLEAN
  /\ None \notin Calls \cup Requests \cup Tables \cup BankStatus
  /\ None \notin {"REQUESTED", "APPROVED", "REFUSED"}

VARIABLES
  live,        \* the store of this deployment is the in-memory one
  row,         \* the rows of the three tables
  request,     \* ChangeRequest.status
  person,      \* whether the name, and the birth date and e-mail, are there
  call         \* the handlers in flight

vars == <<live, row, request, person, call>>

RequestStatus == {"REQUESTED", "APPROVED", "REFUSED", None}

(* open: validTo is not set.  value: the personal value is there.  by, for:*)
(* the handler that created the row and the request it applied.            *)
Row == [table : Tables \cup {None}, open : BOOLEAN, status : BankStatus \cup {None},
        value : BOOLEAN, by : Calls \cup {None}, for : Requests \cup {None}]
NoRow == [table |-> None, open |-> FALSE, status |-> None, value |-> FALSE,
          by |-> None, for |-> None]

(* What a handler holds: the table it writes, the rows it has yet to visit,*)
(* the request or the account and the status it fetched, and, anonymising, *)
(* the rows there were.                                                    *)
Stages == {"idle", "register", "decide", "approve", "status", "purge"}
Call == [pc : Stages, table : Tables \cup {None}, rows : SUBSET Rows,
         for : Requests \cup {None}, on : Rows \cup {None},
         seen : RequestStatus \cup BankStatus, before : SUBSET Rows]
Idle == [pc |-> "idle", table |-> None, rows |-> {}, for |-> None, on |-> None,
         seen |-> None, before |-> {}]

TypeOK ==
  /\ live \in BOOLEAN
  /\ row \in [Rows -> Row]
  /\ request \in [Requests -> RequestStatus]
  /\ person \in [name : BOOLEAN, contact : BOOLEAN]
  /\ call \in [Calls -> Call]

Init ==
  /\ live \in Stores
  /\ row = [r \in Rows |-> NoRow]
  /\ request = [q \in Requests |-> None]
  /\ person = [name |-> TRUE, contact |-> TRUE]
  /\ call = [c \in Calls |-> Idle]

-----------------------------------------------------------------------------
(* Mistakes: the operators named Bad... are not part of the specification; *)
(* each is a plausible slip in the definition of the same name below it.   *)

Begin(c, held) == call[c] = Idle /\ call' = [call EXCEPT ![c] = held]
Return(c) == call' = [call EXCEPT ![c] = Idle]
At(c, stage) == call[c].pc = stage /\ UNCHANGED live

(* The rows of a table; validTo is set once and for all, so the open ones  *)
(* are all that a registration ever closes.                                *)
Listed(table) == {r \in Rows : row[r].table = table}
Open(table) == {r \in Listed(table) : row[r].open}

(* What a handler keeps of the status it fetched: nothing, if it is live.  *)
Copy(status) == IF live THEN None ELSE status

(* Bound: a handler that may add a row starts while there is room for it. *)
Room ==
  Cardinality(Listed(None)) > Cardinality({c \in Calls : call[c].pc \in {"register", "decide"}})

-----------------------------------------------------------------------------
(* registerBankAccount and registerAddress: list what there is, ...        *)
Registering(table, q) ==
  [Idle EXCEPT !.pc = "register", !.table = table, !.rows = Open(table), !.for = q]

Register(c, table) ==
  /\ Room
  /\ table \in {"bank", "address"}
  /\ Begin(c, Registering(table, None))
  /\ UNCHANGED <<live, row, request, person>>

(* registerSensitiveId closes nothing. *)
RegisterSensitiveId(c) ==
  /\ Room
  /\ Begin(c, [Idle EXCEPT !.pc = "register", !.table = "identifier"])
  /\ UNCHANGED <<live, row, request, person>>

BadToClose(c) == {r \in call[c].rows : row[r].status # "VALIDATED" /\ (live => row[r].open)}

(* (a live row that was closed in the meantime is skipped) *)
ToClose(c) == {r \in call[c].rows : live => row[r].open}

(* ... close each, in no particular order, ... *)
Close(c, r) ==
  /\ At(c, "register")
  /\ r \in ToClose(c)
  /\ row' = [row EXCEPT ![r].open = FALSE,
                        ![r].status = IF call[c].table = "bank" THEN "REPLACED" ELSE @]
  /\ call' = [call EXCEPT ![c].rows = @ \ {r}]
  /\ UNCHANGED <<request, person>>

(* ... and add a row (r: uid()).  The event and the audit row of a write   *)
(* change nothing here.                                                    *)
Create(c, r) ==
  /\ At(c, "register")
  /\ ToClose(c) = {}
  /\ row[r].table = None
  /\ row' = [row EXCEPT ![r] =
       [table |-> call[c].table, open |-> TRUE, value |-> TRUE, by |-> c, for |-> call[c].for,
        status |-> IF call[c].table = "bank" THEN "FURNISHED" ELSE None]]
  /\ IF call[c].for = None
       THEN Return(c)
       ELSE call' = [call EXCEPT ![c] = [Idle EXCEPT !.pc = "approve", !.for = call[c].for]]
  /\ UNCHANGED <<request, person>>

-----------------------------------------------------------------------------
(* submitChangeRequest.  (A request for a field other than the address is  *)
(* never applied.)                                                         *)
Submit(q) ==
  /\ request[q] = None
  /\ request' = [request EXCEPT ![q] = "REQUESTED"]
  /\ UNCHANGED <<live, row, person, call>>

(* decideChangeRequest: fetch the request, ... *)
Decide(c, q) ==
  /\ Room
  /\ request[q] # None
  /\ Begin(c, [Idle EXCEPT !.pc = "decide", !.for = q, !.seen = Copy(request[q])])
  /\ UNCHANGED <<live, row, request, person>>

Asked(c) == IF live THEN request[call[c].for] ELSE call[c].seen

(* (409) *)
DecidedBefore(c) ==
  /\ At(c, "decide")
  /\ Asked(c) # "REQUESTED"
  /\ Return(c)
  /\ UNCHANGED <<row, request, person>>

(* ... refuse it, ... *)
Refuse(c) ==
  /\ At(c, "decide")
  /\ Asked(c) = "REQUESTED"
  /\ request' = [request EXCEPT ![call[c].for] = "REFUSED"]
  /\ Return(c)
  /\ UNCHANGED <<row, person>>

BadApply(c) ==
  /\ At(c, "decide")
  /\ Asked(c) = "REQUESTED"
  /\ request' = [request EXCEPT ![call[c].for] = "APPROVED"]
  /\ call' = [call EXCEPT ![c] = Registering("address", call[c].for)]
  /\ UNCHANGED <<row, person>>

(* ... or register the address ... *)
Apply(c) ==
  /\ At(c, "decide")
  /\ Asked(c) = "REQUESTED"
  /\ call' = [call EXCEPT ![c] = Registering("address", call[c].for)]
  /\ UNCHANGED <<row, request, person>>

(* ... and then mark the request. *)
Approve(c) ==
  /\ At(c, "approve")
  /\ request' = [request EXCEPT ![call[c].for] = "APPROVED"]
  /\ Return(c)
  /\ UNCHANGED <<row, person>>

-----------------------------------------------------------------------------
BankTransitions(status) ==
  CASE status = "FURNISHED" -> {"TO_VERIFY", "REJECTED"}
    [] status = "TO_VERIFY" -> {"VALIDATED", "REJECTED"}
    [] status \in {"VALIDATED", "REJECTED"} -> {"REPLACED"}
    [] OTHER -> {}

(* setBankStatus: fetch the account, and move it on or refuse (409). *)
FetchBank(c, r) ==
  /\ row[r].table = "bank"
  /\ Begin(c, [Idle EXCEPT !.pc = "status", !.on = r, !.seen = Copy(row[r].status)])
  /\ UNCHANGED <<live, row, request, person>>

BadMoves(c) == UNION {BankTransitions(s) : s \in BankStatus}

Moves(c) == BankTransitions(IF live THEN row[call[c].on].status ELSE call[c].seen)

SetBankStatus(c) ==
  /\ At(c, "status")
  /\ \/ UNCHANGED row
     \/ \E to \in Moves(c) : row' = [row EXCEPT ![call[c].on].status = to]
  /\ Return(c)
  /\ UNCHANGED <<request, person>>

-----------------------------------------------------------------------------
BadPurging(table, before) ==
  [Idle EXCEPT !.pc = "purge", !.table = table, !.rows = Open(table), !.before = before]

Purging(table, before) ==
  [Idle EXCEPT !.pc = "purge", !.table = table, !.rows = Listed(table), !.before = before]

(* anonymizePerson, where no employment is active: update the person (over *)
(* the database the fields set to undefined stay) and list the accounts;   *)
(* nothing here reads the person, so the two are one step; ...             *)
AnonymizePerson(c) ==
  /\ Begin(c, Purging("bank", Listed("bank") \cup Listed("identifier")))
  /\ person' = [name |-> FALSE, contact |-> person.contact /\ ~live]
  /\ UNCHANGED <<live, row, request>>

(* ... erase each of them, ... *)
Purge(c, r) ==
  /\ At(c, "purge")
  /\ r \in call[c].rows
  /\ row' = [row EXCEPT ![r].open = FALSE, ![r].value = FALSE,
                        ![r].status = IF call[c].table = "bank" THEN "REPLACED" ELSE @]
  /\ call' = [call EXCEPT ![c].rows = @ \ {r}]
  /\ UNCHANGED <<request, person>>

(* ... list the identifiers, to do the same, ... *)
ListIdentifiers(c) ==
  /\ At(c, "purge")
  /\ call[c].table = "bank" /\ call[c].rows = {}
  /\ call' = [call EXCEPT ![c] = Purging("identifier", call[c].before)]
  /\ UNCHANGED <<row, request, person>>

(* ... and announce it (the documents are those of Vault). *)
Purged(c) == call[c].pc = "purge" /\ call[c].table = "identifier" /\ call[c].rows = {}

PersonAnonymized(c) ==
  /\ At(c, "purge")
  /\ Purged(c)
  /\ Return(c)
  /\ UNCHANGED <<row, request, person>>

(* A database call rejects: the handler is abandoned. *)
Fail(c) ==
  /\ ~live
  /\ call[c] # Idle
  /\ Return(c)
  /\ UNCHANGED <<live, row, request, person>>

Start(c) ==
  \/ \E table \in Tables : Register(c, table)
  \/ RegisterSensitiveId(c) \/ AnonymizePerson(c)
  \/ \E q \in Requests : Decide(c, q)
  \/ \E r \in Rows : FetchBank(c, r)

Continue(c) ==
  \/ \E r \in Rows : Close(c, r) \/ Create(c, r) \/ Purge(c, r)
  \/ DecidedBefore(c) \/ Refuse(c) \/ Apply(c) \/ Approve(c)
  \/ SetBankStatus(c)
  \/ ListIdentifiers(c) \/ PersonAnonymized(c)

Next ==
  \/ \E c \in Calls : Start(c) \/ Continue(c) \/ Fail(c)
  \/ \E q \in Requests : Submit(q)

Spec == Init /\ [][Next]_vars

-----------------------------------------------------------------------------
(* Two bank accounts, or two addresses, of a person are current only if the*)
(* handlers that registered them overlapped: of those one slot registered, *)
(* one after the other, at most one is open (registerBankAccount).         *)
OneCurrentPerHandler ==
  \A r1, r2 \in Rows :
    /\ row[r1].open /\ row[r2].open
    /\ row[r1].table = row[r2].table /\ row[r1].table # "identifier"
    /\ row[r1].by = row[r2].by
    => r1 = r2

(* An approved request was applied (decideChangeRequest). *)
ApprovedIsApplied ==
  \A q \in Requests : request[q] = "APPROVED" => \E r \in Rows : row[r].for = q

(* Over the in-memory store a request that was applied is approved, or a   *)
(* handler is about to mark it, whatever another handler has decided in the*)
(* meantime (decideChangeRequest).                                         *)
AppliedIsApproved ==
  live => \A r \in Rows : row[r].for # None =>
    \/ request[row[r].for] = "APPROVED"
    \/ \E c \in Calls : call[c].pc = "approve" /\ call[c].for = row[r].for

(* Over the in-memory store a request is applied once for each handler in  *)
(* flight at most: with one at a time, once (decideChangeRequest).         *)
AppliedOncePerHandler ==
  live => \A r1, r2 \in Rows :
    row[r1].for # None /\ row[r1].for = row[r2].for /\ row[r1].by = row[r2].by => r1 = r2

(* A request and the address it asks for agree, whatever handlers overlap  *)
(* (decideChangeRequest): approved because applied, applied because        *)
(* approved, and applied once a handler.                                   *)
RequestsSettled == ApprovedIsApplied /\ AppliedIsApproved /\ AppliedOncePerHandler

(* Over the in-memory store the status of an account follows the table of  *)
(* setBankStatus, or is replaced.                                          *)
BankAdvances ==
  [][live => \A r \in Rows : row[r].table = "bank" =>
       row'[r].status \in {row[r].status, "REPLACED"} \cup BankTransitions(row[r].status)]_vars

(* When an anonymising is announced no account and no identifier that was  *)
(* there when it began holds a value, whatever was registered or moved on  *)
(* in the meantime (anonymizePerson).                                      *)
PurgedIsErased == \A c \in Calls : Purged(c) => \A r \in call[c].before : ~row[r].value

(* docs/rgpd/droits-des-personnes.md:51: the anonymised identity has no    *)
(* birth date and no e-mail.  Over the database it keeps both.             *)
IdentityIsRemoved == ~person.name => ~person.contact
=============================================================================
