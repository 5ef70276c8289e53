# Rheos core: specifications, model checking and proofs

`rheos-core` is a human-resources back end in TypeScript: Fastify routes
(`src/src/app.ts`) call service classes, which read and write through one port,
`Repository`, implemented by `MemoryRepository` and by `PrismaRepository`
(PostgreSQL), and publish domain events on an in-process `EventBus`. This
directory holds TLA+ modules of its stateful parts, TLC configurations that
check them on small instances, and TLAPS proofs of the results that matter most
for every value of the constants. Paths below are relative to `src/`.

## The two facts that shape every module

**A handler is atomic between two `await`s.** Node runs one handler at a time
and may switch at each `await`. In the modules a handler in flight is a *call*:
it occupies a slot of the constant `Calls`, its record holds the stage it is
waiting at (`pc`) and the local variables that matter, and one action takes it
from one `await` to the next: what follows the await, up to and including the
effect of the next repository call. Where two synchronous effects follow each
other they are one action; where a database round trip separates them they are
two.

**What a fetched record shows depends on the store.** `MemoryRepository` hands
out the object it holds, so a field tested after an `await` is the current one.
`PrismaRepository` hands out a copy. The variable `live` (chosen from the
constant `Stores`) is TRUE over the in-memory store; the operators `Seen`,
`StatusRead`, `SeenAccount` and the like read the current row or the copy
accordingly. Only over the database store may a repository call reject
(`Fail`) or the process restart with its rows intact (`Restart`): over the
in-memory store a restart loses everything, and the story begins again at
`Init`. Nothing in the services opens a transaction around several calls, so an
abandoned handler leaves what it had written.

Several properties below hold over the in-memory store only, and say so
(`live => ...`). That is a result: over the database the corresponding
read-test-write is not protected by a lock, a version or a transaction.

## Inventory

| Component | State | Operations | Hard part | What makes it correct |
|---|---|---|---|---|
| Leave (`src/services-mvp.ts`, `src/domain/leave.ts`) | requests, append-only ledger | request, approve (manager, HR), refuse, correct, balance | the deduction, the status and the event are three steps; two approvals may overlap; a failure in between invites a retry | an approval rests on a deduction; charges, and what a balance is overdrawn by, are bounded by the handlers that overlap |
| Employment, contracts, amendments, assignments (`src/services.ts`) | five tables | hire, create/validate/sign contract, amend, assign, depart, archive | each operation writes several rows one by one and publishes in between | what is announced or marked is backed by rows; ends are past; history is kept |
| Vault (`src/services-mvp.ts`, `src/signature.ts`, `src/doc-store.ts`, `src/domain/retention.ts`) | register, object store, challenges in memory | deposit, validate, sign, publish, archive, hold, anonymise, delete, departure | two stores without a common transaction; a detached loop archives at departure; challenges do not survive a restart | content follows its row; signatures are final; retention protects |
| Accounts and resets (`src/auth-service.ts`, `src/services-reset.ts`, `src/security.ts`, `src/app.ts`) | accounts with `tokenVersion`, reset links, limiter buckets | login, forgot, reset, reset by HR, check of each session | the next version is computed from a fetched account; several links, several resets at once | a change of password ends sessions and links; the limiter bounds requests |
| Workforce (`src/services.ts`, `src/domain/thresholds.ts`) | employments, obligations | count, cross thresholds, create obligations | hirings overlap, stop half-way, start in the future | no obligation of a counted headcount is missing; duplicates are bounded |
| Event bus (`src/events.ts`, `src/app.ts`, `prisma/schema.prisma`) | counters in memory, journal in the database | publish, persist without waiting, restart | inserts overtake each other, counters restart at zero | no event is lost while the process runs; numbers are free |
| Stores (`src/repository.ts`, `src/prisma-repository.ts`) | the rows | find, create, update | live rows or copies; ignored `undefined` fields | modelled through what the services observe |
| Referential (`src/services.ts`) | companies, establishments, sites, positions, agreements | look for the number, then create; close | look and insert are apart | unique SIREN and SIRET; an establishment is closed once |
| Sensitive data, privacy (`src/services-sensitive.ts`, `src/services-privacy.ts`) | historised bank accounts and addresses, identifiers, change requests | register, submit, decide, set a bank status, anonymise | a registration closes, then inserts; a decision applies the change before it marks the request; anonymising loops over tables while others write | one current value; an approved request was applied, and once; what was there is erased |
| Regulatory texts, budgets (`src/services-regulatory.ts`, `-finance.ts`) | versions | ingest a text with its source, set a budget | the next version is computed from the latest one read | versions without gaps or doubles; ingesting is idempotent |
| Health, social dialogue, authorities, career, time, deadlines (`src/services-*.ts`) | rows with a status, deadlines | create, set a status, watch | a case and its deadline are two inserts that nothing links | what has a due date is watched |
| Import and export (`src/services-import.ts`, `src/domain/csv.ts`) | rows through `hire` | decode, parse, map the columns, preview, commit row by row, export | partial failure, the same file twice, guessed encoding, delimiter and columns | nobody twice, nobody left without employment, what is written can be read |
| Organisation chart, alerts, watch, payroll preparation (`src/services-org.ts`, `-notifications.ts`, `-deadlines.ts`, `src/domain/payroll-prep.ts`) | none: views of the rows of others | read | rows in every order of moves, departures and days; boundaries of months | nobody missing, two views agree, each day paid once |
| Authorisation (`src/auth.ts`, `src/services-reset.ts`) | constant tables | rank and reach of HR over accounts | two ways to locate an account | reach follows the organisation |
| RH officer, self-service, assistant, extraction, templates, PDF | none | derived reads and text | none | pure functions |
| Encryption, e-mail, S3, tokens, database guard | none or external | input and output | none | outside |

Components interact by calls (routes to services, `hire` from the import,
deposit from hiring documents), by shared rows (the workforce counts the
employments that hiring and departure write, the views read the rows of
everybody, the small services add to one table of deadlines), and by one
subscription: the vault archives a person's documents when `EmployeeDeparture`
is published, in a detached task nobody waits for.

## Modules

| Module | Models | State and actions |
|---|---|---|
| `Leave` | the absence workflow | `terms`, `status`, `ledger`, `announced`; `RequestLeave`, `ApproveLeave` -> `ManagerDecides` -> `PublishManagerApproved`, `ApproveLeaveHr`, `FinalizeRead` -> `FinalizeAppend` -> `FinalizeUpdate` -> `PublishApproved` (`_finalizeLeave`), `RefuseLeave` -> `RefusalDecides`, `CorrectLeaveBalance` |
| `LeavePromise` | what the workflow promises for a number of handlers and a store: a request is granted only with its deduction, and how far handlers that overlap and a store that fails take away from "once" | `live`, `counted`, `decision`, `charge`; the abstract specification `Leave` is mapped to |
| `Employment` | hiring to archiving | one row variable per table; `Hire` -> `HireContract` -> `HireAssign` -> `Hired`, `Validate`, `Sign` -> `SetContract` -> `Activate` -> `ActivateEmployment`, `SignAmendment` -> `PatchContract` -> `ApplyAmendment` -> `Amended`, `AddAssignment` -> `CloseCurrent` -> `InsertAssignment`, `Depart` -> `DepartList` -> `DepartClose` -> `Departed`, `Archive` |
| `Vault` | the document vault | `doc` (register), `blob` (object store), challenges; one action per status change and per half of deposit and deletion; `EmployeeDeparture` -> `List` -> `ArchiveNext` is the subscriber of `src/app.ts` |
| `Access` | accounts, links, sessions, the limiter, the reach of HR | `account`, `link`, `session`, `bucket`; `FetchLogin` -> `Login`, `ForgotPassword` -> `InvalidateLinks` -> `CreateLink`, `PresentLink` -> `CheckLink` -> `ChangePassword` -> `MarkUsed` -> `InvalidateRest`, `RhReset` (rank) -> `RhDecide` (reach) -> link or `TemporaryPassword` |
| `Dossier` | the sensitive data of one person | `row` (accounts, addresses, identifiers), `request`, `person`; `Register` -> `Close` -> `Create`, `Decide` -> `Refuse` or `Apply` -> `Close` -> `Create` -> `Approve`, `FetchBank` -> `SetBankStatus`, `AnonymizePerson` -> `Purge` -> `ListIdentifiers` -> `Purge` -> `PersonAnonymized` |
| `EventBus` | numbering and persistence of events | `sequence`, `unpersisted`, `journal`; `Publish`, `Persist`, `Stop` |
| `Workforce` | extends `EventBus` with the tail of `hire`, and what a company is told of thresholds | `employment`, `obligation`; `Hire` -> `List` -> `Count` -> `Cross` -> `CreateObligation`, `HireRefused`, `Depart`, `Tick`; `computeWorkforce`, `nextThreshold`, `simulateWorkforce` |
| `Registers` | the rows of the referential and of the small services | one `row` per identifier, of any table, and the `desk` the behaviour works at; a read and an insert (`CreateLegalEntity`, `CreateEstablishment`, `IngestText` -> `CreateSource`, `SetBudget`), a fetch and an update (`CloseEstablishment`, `AdvanceObligation`), a case and its deadline (`DeclareAccident`, `CreateInteraction`, `AddCompetency`, `PlanTraining` -> `Watch`), the operations of one row (`Attach`, `Set`) |
| `Csv` | `src/domain/csv.ts` as operators | `toCsv`, `detectDelimiter`, `parseCsv` (`Scan` from character to character), `decodeBytes` |
| `Import` | import and export of collaborators | extends `Csv`; `Upload` -> `Preview` -> `HirePerson` -> `HireEmployment` ... -> `Imported`, `FindDuplicates` -> `CreatePerson` beside it; `suggestMapping`, `classify`, `Export` |
| `Views` | what services compute from the rows of others | `emp`, `place`, `row`, `day` change as the other modules let them; `Roots`, `strip` and `Listed` (chart), `build` and `forCompany` (alerts and watch), `preparePayrollInput` (pay) are read at every state |
| `LeaveProofs`, `EmploymentProofs`, `VaultProofs`, `AccessProofs`, `DossierProofs`, `WorkforceProofs`, `RegistersProofs`, `ImportProofs` | theorems about the module of that name; those about `Csv` are in `ImportProofs`, those about `Views` at the end of `LeaveProofs`, whose sums they share | |
| `MC...` | the instances for TLC: values of constants that are not atoms, symmetry sets, constraints | |

Operators named `Bad...` are plausible slips in the definition below them. They
are not part of any specification: each property was checked to fail when the
definition is replaced by its slip, so no property holds for want of behaviour.

### What is abstracted

Amounts, names, texts, files and hashes are model values or left out, but for
the file format, which `Csv` models character by character over an alphabet of
the characters it distinguishes. Dates are small numbers, compared as the code
compares them. Permissions, tenants and input validation come before the
modelled part of a handler: the models start where the permission was granted.
In `Workforce` what precedes in a hiring and what a departure does to
assignments take one step (they are modelled step by step in `Employment`), the
order of the rules within one refresh is free, and events that are the first and
only one of their aggregate are left out. In `Dossier` the three tables share
one variable, a dated row is open or closed, a value is there or erased, the
order of a loop over rows is free, and the audit log, which nothing modelled
reads, is left out; the guard of `anonymizePerson` on active employments is taken
as passed, and the documents it then anonymises one by one are those of `Vault`.
In `Registers` an operation that writes one row and reads only the existence of
another is one step, since rows are never removed. In `Import` the hiring of a
row is two steps, person and employment, and what can be wrong with a cell is
that it is missing, malformed or out of range. In `Views` rows change by
transitions that are wider than those of their services (any status of a table),
and a view is taken at one moment.

## Runs

All runs that check overlapping handlers use two slots: every hazard listed is a
race of two handlers, or of one handler with a failure, a restart or the clock.
A third handler repeats what the second does; the proofs cover any number of
handlers (`Views` has none, and is proved for any number of people and rows).

| Run | Instance | Shows |
|---|---|---|
| `leave` | 2 handlers, 1 request for a day in either of 2 periods or both, 1 day acquired in the first period, a correction of 1 day in either, either store, fair | `DeductionSound`, `OverdraftBounded` and `KeepsPromise` (`Leave` implements `LeavePromise` for two handlers) under any overlap and failure; in memory `ApprovalFinal` and `ApprovalAnnounced` |
| `employment` | 2 handlers, 1 employment, contract and amendment, 3 assignments, 2 days, either store | `AnnouncedIsTrue`, `EndIsPast` under any overlap and failure; in memory `ContractAdvances`, `HistoryKept` |
| `vault` | 2 handlers, 1 document, 2 days, either store, restarts, fair | `SignedOnRequest`, `DeletedIsExpired` anywhere; in memory `ContentIsKept`, `SignedIsFinal`, `DepartureArchives` |
| `vault_hold` (fails) | 2 handlers, 1 document, in memory | `HoldBarsDeletion` is false |
| `access` | 2 handlers, 1 account, 2 links, 2 passwords, a window and a limit of 2, 3 instants, 3 establishments of 2 companies, either store | in memory `SessionsRevoked`, `LinksDieWithReset`; anywhere `UnderTwiceTheLimit`, `ReachFollowsOrganisation` |
| `dossier` | 2 handlers, 3 rows, 1 change request, either store | `OneCurrentPerHandler`, `PurgedIsErased` under any overlap and failure, `RequestsSettled` (two of its three parts in memory), in memory `BankAdvances` |
| `dossier_anonymized` (fails) | 1 handler, database | `IdentityIsRemoved` is false |
| `workforce` | 2 hirings, 3 employments, codes at 1 and 2 employees, 2 days, either store, restarts | `NoObligationMissed`, `OncePerHiring`, `JournalIsComplete`, and `SimulationForetells`: what a company is told in advance is what hirings do |
| `workforce_journal` (fails) | 1 hiring, database | `NumberIsFree` is false after a restart |
| `import` | 2 handlers, 4 persons, 2 files of 3 rows (a twin without birth date, an establishment that may be unknown, malformed and suspicious rows), either store | `OncePerHandler`, `NoKnownDuplicate` under any overlap and failure; in memory `NobodyLeftInMemory`; `FilesComeThrough` for every export, every order of the columns of `docs/modele-import-collaborateurs.csv` and characters of 1 to 4 bytes |
| `registers` | 2 handlers, 3 rows, 2 numbers, 2 dates, one desk at a time, either store | `NumberedOnce`, `VersionsFollow` under any overlap and failure; in memory `HistoryStands`, `SecondRowFollows` |
| `views` | 2 employments with up to 2 moves, or 2 rows; 3 days, months of 2 and 1 days | `ChartComplete`, `AlertsAgree`, `UrgencyGrows`, `PaidOnce` |

**Bounds.** Documents, accounts and requests of one employment or person do not
share state with those of another, so one shows every interaction; what
requests share is the balance, and one request of which two approvals overlap, or
one is repeated after a failure, charges it twice just as two requests do. Days
of two periods, with a day acquired in the first only and a correction of either,
let the balance that is compared be that of another period than the one charged. Three assignments allow one closed, one open and one
being inserted. Two days give a past, a present and a future relative to the
clock once it has moved; three days in `views` give overdue, due soon and later,
and a seam of two months inside an absence. `MaxRows`, `MaxCorrections` and `MaxVersion`
stop new operations, never one in flight. Four obligation rows are two codes times two
hirings, the most that can be needed; three employments let one hiring stop
half-way and two others follow. With a window and a limit of 2 the instants 0..2
contain a seam of two windows and more requests around it than one window
allows. Three rows of a dossier let two handlers overlap on what a third
registration left. Three rows of `registers` are a parent and two that should be
one, or two versions and what overlaps them, or a case with its deadline beside
another. Four persons are two identities for two handlers. Two employments are
enough for a manager, a manager who is gone and a circle.

**Constraints and splits.** `MCOneTopic` (run `employment`) looks at mobility and
at contracts one at a time: `AddAssignment` and the writes of a signature touch
no common row. `MCOverlap` (run `vault`) asks of two handlers that overlap over
the database that one of them signs or deletes; it leaves the in-memory
store, and with it the liveness property, alone. The safety properties of both
runs are also proved, without the constraints. `desk` in `Registers` and
`topic` in `Views` split behaviours that have no row in common; they are chosen
in `Init`. Deadlock is not checked where the instance really ends (every document
deleted, everyone hired, every row taken).

**Fairness.** `FairSpec` of `Leave` and `Vault` assumes weak fairness of
`Continue(c)` for each slot. The event loop resumes every settled promise, and
the promises of the in-memory store always settle. Over the database nothing of
the kind is needed, since a call may reject: the liveness properties are about
the in-memory store. No fairness is assumed of users, the clock or `Fail`.

## What the failing runs show

* **`dossier_anonymized`** - `anonymizePerson` (`src/services-privacy.ts:103`)
  sets the birth date and the e-mail to `undefined`, which Prisma ignores
  (`src/prisma-repository.ts:26`): over the database they stay, though
  `docs/rgpd/droits-des-personnes.md:51` lists them as removed. The same cause
  keeps the attachment of an anonymised document to its person
  (`src/services-mvp.ts:193`, `Anonymize` of `Vault`).
* **`vault_hold`** - `deleteDocument` (`src/services-mvp.ts:208`) tests the hold,
  then awaits the object store and deletes the row without looking again: a
  hold that `setLegalHold` confirmed meanwhile does not keep the document, though
  the comment at `src/services-mvp.ts:198-199` and `src/domain/retention.ts:4` let
  a hold prevail over any deletion.
* **`workforce_journal`** - `EventBus.publish` (`src/events.ts:18`) counts from
  zero in each process while `prisma/schema.prisma:647` makes the number unique
  within the aggregate. After a restart the next event of a known aggregate is
  refused, and `src/app.ts:41` leaves the rejection unhandled, which ends a
  Node 20 process. `docs/etat-des-lieux.md:242` says events are persisted.

## What the properties leave open

Some limits are shown by properties that hold and say exactly how much.
`OneCurrentPerHandler`, `AppliedOncePerHandler`, `OncePerHiring`, `OncePerHandler`
and (in memory) `NumberedOnce` allow one value, one application, one duplicate
per overlapping handler. `BankAdvances`, `AppliedIsApproved`, `ContractAdvances`,
`HistoryKept`, `HistoryStands`, `SessionsRevoked` and `LinksDieWithReset` hold in
memory only. `KeepsPromise` lets a request be charged once per overlapping handler
in memory, and `OverdraftBounded` lets a period be overdrawn by one absence per
handler. `SecondRowFollows` and `NobodyLeftInMemory` end where a call may fail.
`ChartComplete` says that who is in or below a circle of managers is on no page.
Budgets have no unique
index: `NumberedOnce` allows them one duplicate per overlapping handler over the
database too.

Other behaviour of the code that a reader may not expect, in the models but
without a run of its own:

* `_finalizeLeave` (`src/services-mvp.ts:273`) compares the days with the balance
  of *today's* reference period and dates the movement at the start of the
  absence. `docs/spec-absences.md:33-35` promises the rule in force at the date of
  the absence and `:124-125` a refusal when the balance is short. One handler in
  memory is enough to break both: with one day a year, two absences of one day
  in the coming period are each compared with the day of this one and both
  approved, and the coming period stands at minus one. So nothing bounds what a
  period is charged before it begins, and `OverdraftBounded` is about what it is
  charged while it is the current one. An absence that crosses the seam is
  charged wholly to the period it starts in, and one that lies on days off is
  approved with a movement of 0 days.
* `signContract` (`src/services.ts:309`) makes the employment ACTIVE without
  looking at its status, so an archived one, terminal according to
  `src/types.ts:3`, comes back to life. An employment that left ENDED for
  ARCHIVED is on the chart again (`src/services-org.ts:18`). No operation turns
  EXITING into ENDED at the end date (`src/services.ts:365`).
* `addAssignment` (`src/services.ts:349`) drops the manager unless the request
  carries one, and closes only the latest open assignment; a move in the past
  leaves two in force. People below a circle of managers are on no page of the
  chart (`src/services-org.ts:30`).
* A mobility does not change the administrative establishment, so the reach of
  HR over the account follows the old site (`src/services-reset.ts:147`).
* An import that stops after the person of a row was written and before its
  employment (`src/services-import.ts:239`) is not repaired by uploading the file
  again: the person is then skipped as present. In `Import` this is `Fail`.
* A text whose source failed to be written stays without one: the next ingestion
  finds its hash and says unchanged (`src/services-regulatory.ts:28`). A case
  whose deadline failed is not watched. Nothing closes the deadline of a training
  that is done or of an authority that was answered, and `respond` after `close`
  opens an interaction again (`Set` of `Registers` tests nothing).
* Alerts pass over leaves that wait for HR (`src/services-notifications.ts:42`).
* A hiring with a later start is counted by no one on that day
  (`src/services.ts:228`), and two overlapping hirings may announce no threshold
  between them (`src/services.ts:231`).
* The buckets of the limiter are those of one process (`src/app.ts:84`).

Seen beside the models, in code that is not modelled: the payroll batch takes the
28th for the end of a month and, like the registry, the contract with the latest
start even if it lies ahead (`src/services.ts:155`, `:408`); amendments patch the
contract at once, so a view of an earlier date shows the new terms
(`src/services.ts:331`); the retention that a comment leaves open until departure
is never set (`src/domain/retention.ts:30`), which `DeletedIsExpired` reads as
not expired.

## Proofs

tlapm checks every obligation of eight modules, one for each component, but that
`LeaveProofs` extends `Views` as well as `Leave` and is about both. The provers cannot instantiate an induction theorem with a predicate, so
induction over data is done with sets: the places at which a statement fails form
a set of naturals, or of finite sets, and a least element of it (`WFMin` of the
library) is refuted. That is how the sum over the ledger, the counts of the
limiter and what the functions of `Csv` compute along a text are proved. In each
module the type invariant is strengthened, where needed, by what a handler
holds at each stage, and lemmas named `Next...` say once, by cases on the actions,
what a step does to a table or to a handler; the theorems rest on those.

**`LeaveProofs`** (assumption `LeaveAssumption`):

* `TypeCorrect`: `Spec => []TypeOK`. One step per action; the lemmas
  `GotoSlots`, `ReturnSlots`, `BeginSlots` say once what a handler's moves do to
  its slot.
* `DeductionSafety`: `DeductionSound`. It is not inductive: the strengthening
  says of each stage of a handler what is already in the ledger (a handler past
  the append has its row) and that the row it is about to add follows the
  approvals.
* `ApprovalIsFinal`: the action property `ApprovalFinal`, from the fact that in
  memory a refusal tests the status it overwrites in the same step.
* `PromiseIsKept`: `KeepsPromise`, for every number of handlers and either store.
  Every step is a step of `LeavePromise` or a stutter. The strengthening
  `OverlapInv` counts in memory: until a request is marked, its rows are at most as
  many as the handlers about to mark it (`Marking`); from then on its rows and
  the handlers still on their way to charge it (`Charging`), which nobody joins any
  more, are together at most as many as there are handlers (`Room`). `Overtakes`
  says that with a single handler no approval on its way was refused.
* `OverdraftIsBounded`: `OverdraftBounded`. The strengthening `OverdraftInv` says, while
  a period is the current one, that what it was charged in time and one longest
  absence for each handler that has compared but not yet appended (`Pending`) are
  together within the bound. What an append does to a balance needs lemmas about
  `MapThenSumSet`: `SumsAgree` (the sum does not depend on the order `CHOOSE` takes the rows in, by a minimal finite set),
  `SumTakesOut`, `SumDependsOn`, `SumGrows`, and `RowMoves` for one row; `LongestIs`
  needs that a finite set of numbers has a maximum (`MaxExists`).

**`Views`, in `LeaveProofs`** (assumption `ViewsAssumption`): a view is a function of
the state, so most of the work is about what it computes, and the invariant is
small.

* `ViewsTypeCorrect`: `ViewsTypeOK`. `ViewsInv` adds `RowsDated`: a deadline, a time entry
  and a leave have a day, and no leave ends before it starts. `RowSteps`,
  `StatusSteps` and `ChangeSteps` keep it.
* `AlertsMatch`: `AlertsAgree`, at any state: what has a deadline's or a contract
  end's alert is what the watch does not call upcoming.
* `AlertsPress`: `UrgencyGrows`, for every horizon of the watch. `Pressing` is about
  one date, `DateAlertsGrow` about a table; alerts without a date do not look at the
  day.
* `ChartIsComplete`: `ChartComplete`, for every organisation. `Listed` takes the
  levels of the chart down to a depth of as many people as there are, and the
  theorem says that this is deep enough. `StripIs` says what a level is,
  `LineIs` what the line of managers above somebody is. `LineStaysOut`: nobody in
  a circle has a line that leaves the people of the chart, so no level reaches
  them. `ListedByDepth`: whose line leaves them after n steps is at level n.
  `CircleIsLong`: a line that has not left after one step more than there are
  people has met somebody twice, since the numbers `0 .. N` do not fit into N
  people.
* `DaysArePaidOnce`: `PaidOnce`, for every calendar of months. `OneMonth`: every day
  has one month, `MonthBounds`: which is the one whose bounds it is within;
  `OverlapIs`: `overlapDays` is the number of days of the leave in the bounds, hence
  of the leave in the month, so that with `DisjointCards` the months share out one
  leave (`LeaveShared`). `SumFunctionIs` relates the sums of the code to those the
  lemmas are about, and `SumsSwap` shows that a sum by months of sums by rows is
  the sum by rows of sums by months.

**`EmploymentProofs`** (assumption `EmploymentAssumption`): one lemma for each
table (`NextContract`, `NextAmendment`, `NextEmployment`, `NextAssignment`), for
what is announced (`NextAnnounced`) and for handlers (`NextCalls`).

* `TypeCorrect`: `Typed`, the types and that a handler is about a row that is
  there.
* `AnnouncementsAreTrue`: `AnnouncedIsTrue`. The strengthening `Backed` says at
  each stage of a hiring and of an amendment which rows are written.
* `EndsArePast`, `ContractsAdvance`, `HistoryIsKept`: `EndIsPast`,
  `ContractAdvances`, `HistoryKept`, from the same lemmas.

**`VaultProofs`** (assumption `VaultAssumption`): `NextSteps`, `NextRows`,
`NextCalls` and `NextStores` relate a step to a document, a handler and the
object store; `Shape` says that a row that was never inserted is blank and that
who is inserting a document is alone with it.

* `SignaturesAreRequested`: `SignedOnRequest`. The strengthening `Requested`
  covers the challenges, the copies handlers hold and the handlers about to issue
  a challenge; a restart only forgets some of them.
* `DeletionsAreExpired`: `DeletedIsExpired`, from `Expired`: what a handler is
  about to delete has a retention that is over, and no step changes it.
* `SignaturesAreFinal`: `SignedIsFinal`.
* `ContentFollowsRow`: `ContentIsKept`, from `Stored` (a deposit about to insert
  its row has stored the content) and `DeletionEnds`.

**`AccessProofs`** (assumption `AccessAssumption`): `NextCalls`, `NextLinks`,
`NextSessions`, `NextBuckets`.

* `TypeCorrect`: `Typed`, the types and that a handler has the account, and where
  it needs one the link, that it is about.
* `ChangesRevoke`: `SessionsRevoked`, from `Versions`: in memory no session is
  ahead of its account, and a change makes the version one more.
* `LinksDie`: `LinksDieWithReset`, inductive because a handler that changed a
  password can only end by withdrawing the links.
* `LimiterHolds`: `UnderTwiceTheLimit`, for every limit and window. A bucket says
  nothing of the requests before its window, so the invariant speaks of the list
  of all requests of an account: they are in order, those since the window
  opened are at most the limit, and those more than a window's worth before are an
  hour older (`Windows`); hence twice the limit of requests take an hour (`Spread`).
* `ReachFollows`: `ReachFollowsOrganisation`, for every organisation and list of
  scopes, by cases on the scope that covers the target.

**`DossierProofs`** (assumption `DossierAssumption`):

* `TypeCorrect`, then `Shape`, which relates rows and handlers (an unused row is
  `NoRow`; what a handler holds fits its stage), and `NextRows`: a step leaves a
  row, changes it within `Kept` (same table, handler and request; closed and
  erased stay so), or creates it. The theorems rest on these two.
* `OneCurrent`: `OneCurrentPerHandler`. The strengthening `OnTheList` says that
  what a handler has registered and is still open is among the rows its present
  registration will close.
* `RequestsAreSettled`: `RequestsSettled`, from `ApprovedApplied` (an approved
  request was applied) and `AppliedOnce`. `Settled` says who marks an applied
  request (the handler that applied it), `FirstTime` that a handler registering
  for a request has no row for it yet.
* `PurgeErases`: `PurgedIsErased`. `Erases` says what remains of the rows an
  anonymising began with at each of its stages.
* `BankFollowsTable`: `BankAdvances`, a property of each step from a well-typed
  state.

**`WorkforceProofs`** (assumption `WorkforceAssumption`: finite sets, positive
thresholds):

* `TypeCorrect`: the headcount and the number of crossed thresholds are naturals
  because the sets counted are finite.
* `ObligationsComplete`: `NoObligationMissed`. The strengthening `Covered` says
  that the codes a hiring found applicable exist or are among those it has yet
  to create; obligations are never deleted, so other hirings only help.
* `DuplicatesAreBounded`: `OncePerHiring`, for any number of slots. The
  inductive form `RoomLeft` counts the rows of a code together with the hirings
  that are about to add one: a hiring joins only while there is no row, and
  turns its own place into a row. With a single slot this is the idempotence
  the code promises.
* `JournalComplete`: `JournalIsComplete`, already inductive; `PublishComplete`
  shows that publishing continues the numbers of one aggregate only.

* `SimulationsForetell`: `SimulationForetells`. The first part needs
  `NoObligationMissed`; the second is about thresholds alone (`nextThreshold` is
  the least one above the headcount), for every table of them.

**`RegistersProofs`** (assumption `RegistersAssumption`): `Steps` lists the forms a
step can take (an insertion that a numbered row was held for, a row with nothing
to follow it, a case to watch, a second row, a status set, a closing, an
advance), `NextStep` shows that every action has one of them, and each theorem
goes through the forms and not through the actions.

* `TypeCorrect`: `Typed`, the types and that a handler holds what its stage needs.
* `HistoryKept`: the action property `HistoryStands`; a step that closes or
  advances tests the row it changes.
* `VersionsHaveNoGap`: `VersionsFollow`. It is not inductive, a version comes from a
  row that was read before: `AllFollow` says the same of the rows to be
  inserted. `VersionIsLast` shows that `Version` is the greatest there is.
* `NumbersAreBounded`: `NumberedOnce`. In memory, and for budgets, the inductive form
  `RoomLeft` counts the rows of one number together with the handlers about to
  insert one; over the database `Indexed` is the unique index.
* `SecondRowsFollow`: `SecondRowFollows`. Rows are not linked to the second rows they
  ask for, so the inductive form `Counts` compares cardinalities: the cases due
  on a date with its deadlines and the handlers about to add one, the texts with
  their sources and the handlers about to add one.

**`ImportProofs`** (assumptions `ImportAssumption` and, for the columns,
`TemplateAssumption`), again by the forms of a step:

* `TypeCorrect`: `Typed`, the types and what a report is worth at each stage: a row
  that is not rejected can be imported, and no two rows to import are of one
  person, which `Classified` shows of `classify`.
* `DuplicatesAreSkipped`: `NoKnownDuplicate`, from `Classified`.
* `PersonsAreBounded`: `OncePerHandler`. `RoomLeft` counts the persons of an identity
  together with the handlers about to create one; a report is about each
  identity once, so a handler turns one place into one person.
* `NobodyIsLeft`: `NobodyLeftInMemory`, from `Reported` (whoever a report passed over
  or imported is there) and `AllAccounted` (in memory whoever is there is
  employed, in hand or entered by hand).
* `WrittenIsRead`: for every table whose rows have a cell and whose last row is not a
  single empty cell (nothing of that row is in the file), `parseRows` of `toCsv` is
  the table. `Flattened` and `Joined` say where each part stands in a joined
  text; `QuotedCell`, `CellReads`, `LineReads` say in which state the loop of
  `parseCsv` is at the end of each character, cell and row. `ExportIsRead` adds the
  byte order mark and the headers, if the delimiter that was written is the one
  that is detected.
* `AccentsAreKept`: `WellFormed` implies `decodeBytes` says UTF-8, for buffers of every
  length: wherever a buffer can be cut into characters, `isValidUtf8` goes on.
  `AccentsComeThrough` states it of every handler's buffer (`AccentsKept`).
* `ColumnsAreUnderstood`: `ColumnsUnderstood`, for every list of fields and model file
  that satisfy `TemplateAssumption`: among the headers from a field's own on, its own
  is the only one with a name of the field, or none has one and its own is the only
  one that resembles one. The nine fields of `IMPORT_FIELDS` and
  `docs/modele-import-collaborateurs.csv` satisfy it; the assumption is about the
  order of the fields alone, the theorem about every order of the columns. By
  induction over the fields, those before it have taken their own columns
  (`RightColumn`, `MappingIs`).
* `FilesAreRead`: `FilesComeThrough` at every state. Besides the two above, every export
  comes back (`ExportReturns`): who is hired exists (`HiredExist`), so the export is
  a table in the sense of `WrittenIsRead`; its first line has headers only, so a
  comma is detected whatever the names below contain (`CommaDetected`); and a name
  has a character that is not blank, so no row is dropped (`AllKept`).

**Model-checked only:**

* `ApprovalAnnounced` and `DepartureArchives`: liveness under fairness.

There is no recursive operator in a module that is proved about.

## Not modelled

* The RH officer's briefing, self-service pages, `employee360`, the registry, the
  payroll mass and the pay scales by agreement: derived reads, without state, of
  rows that are modelled.
* Assistant, extraction, templates and PDF: text processing without state.
* PostgreSQL's row-level security, encryption, S3, e-mail and tokens: input and
  output. Prisma's own behaviour is taken from how `src/prisma-repository.ts`
  uses it.
* Permissions: lookups in a constant table before the modelled part begins.
* Several processes over one database, beyond what `Fail` and copies show.

## Plan

1. *Done:* `Leave`, `LeavePromise`, `Employment`, `Vault`, `Access`, `EventBus`,
   `Workforce`, `Dossier`; then `Registers`, `Csv`, `Import`, `Views`, the reach of
   HR in `Access` and the simulation in `Workforce`; proofs for the first six
   stateful components.
2. *Done:* proofs about `Registers`, `Import` and the file format of `Csv`;
   `UnderTwiceTheLimit` and `ReachFollowsOrganisation` of `Access`,
   `SimulationForetells` of `Workforce`.
3. *Done:* proofs about `Views`; `FilesComeThrough` of `Import` as a whole. Every invariant
   of a passing run is stated by a theorem.
4. *Done:* the balance over several reference periods and the promise to users of
   the absence workflow for handlers that overlap (`OverdraftBounded`,
   `KeepsPromise`), checked and proved.
