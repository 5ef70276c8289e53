----------------------------- MODULE Workforce -----------------------------
(***************************************************************************)
(* Workforce, thresholds and obligations (src/services.ts,                 *)
(* src/domain/thresholds.ts): each hiring counts the company's headcount,  *)
(* announces the thresholds it crosses and creates the obligations that    *)
(* are missing.  What precedes in a hiring, and departures, are modelled   *)
(* in Employment and take one step here.  Calls and `live` are those of    *)
(* Leave; events go through EventBus.                                      *)
(***************************************************************************)
EXTENDS EventBus, FiniteSets

CONSTANTS
  Calls,        \* slots for hirings in flight
  Employments,
  Obligations,  \* identifiers of obligation rows
  Codes,        \* the kinds of obligations
  Threshold,    \* THRESHOLD_RULES: the headcount from which each code applies
  Company,      \* the aggregate of the company
  Days,         \* bound: the days that are modelled are 0..Days
  Stores,       \* the stores a deployment may select: TRUE in-memory, FALSE database
  None          \* no code, no employment

ASSUME WorkforceAssumption ==
  /\ \A S \in {Calls, Employments, Obligations, Codes} : IsFiniteSet(S)
  /\ Threshold \in [Codes -> Nat \ {0}]
  /\ Company \in Aggregates
  /\ Days \in Nat
  /\ Stores \subseteq BOOLEAN
  /\ None \notin Codes \cup Nat

VARIABLES
  today,       \* the clock
  employment,  \* the row of each employment
  obligation,  \* the code of each obligation row
  reached,     \* the highest headcount a completed hiring has counted
  call         \* the hirings in flight

vars == <<live, busVars, today, employment, obligation, reached, call>>

(* ended: the status is ENDED; without an end, end is a day that does not  *)
(* come.                                                                   *)
Employment == [exists : BOOLEAN, start : 0 .. Days, end : 0 .. Days + 1, ended : BOOLEAN]
NoEmployment == [exists |-> FALSE, start |-> 0, end |-> 0, ended |-> FALSE]

(* What a hiring holds: the employments it listed, the headcount, the      *)
(* codes it has yet to create.                                             *)
Stages == {"idle", "list", "count", "cross", "create"}
Call == [pc : Stages, listed : SUBSET Employments, headcount : Nat,
         missing : SUBSET Codes]
Idle == [pc |-> "idle", listed |-> {}, headcount |-> 0, missing |-> {}]

TypeOK ==
  /\ live \in BOOLEAN
  /\ BusTypeOK
  /\ today \in 0 .. Days
  /\ employment \in [Employments -> Employment]
  /\ obligation \in [Obligations -> Codes \cup {None}]
  /\ reached \in Nat
  /\ call \in [Calls -> Call]

(* The company was created and CompanyCreated persisted. *)
Init ==
  /\ live \in Stores
  /\ sequence = [a \in Aggregates |-> IF a = Company THEN 1 ELSE 0]
  /\ unpersisted = {}
  /\ journal = {[of |-> Company, number |-> 1]}
  /\ old = {}
  /\ today = 0
  /\ employment = [e \in Employments |-> NoEmployment]
  /\ obligation = [o \in Obligations |-> None]
  /\ reached = 0
  /\ call = [c \in Calls |-> Idle]

-----------------------------------------------------------------------------
(* Mistakes: the operators named Bad... are not part of the specification; *)
(* each is a plausible slip in the definition of the same name below it.   *)

At(c, stage) == call[c].pc = stage /\ UNCHANGED <<live, today, employment>>
Return(c) == call' = [call EXCEPT ![c] = Idle]

(* Go on with the codes that are left to create, or complete the hiring.   *)
Create(c, codes) ==
  IF codes # {}
    THEN /\ call' = [call EXCEPT ![c].pc = "create", ![c].missing = codes]
         /\ UNCHANGED reached
    ELSE /\ Return(c)
         /\ reached' = IF call[c].headcount > reached THEN call[c].headcount ELSE reached

(* hire, up to the rows it creates. *)
Hire(c, e, start) ==
  /\ call[c] = Idle
  /\ ~employment[e].exists
  /\ employment' = [employment EXCEPT ![e] =
                      [exists |-> TRUE, start |-> start, end |-> Days + 1, ended |-> FALSE]]
  /\ call' = [call EXCEPT ![c].pc = "list"]
  /\ UNCHANGED <<live, busVars, today, obligation, reached>>

(* A hiring below the minimum of the agreement is refused after its        *)
(* employment was created.                                                 *)
HireRefused(c) ==
  /\ At(c, "list")
  /\ Return(c)
  /\ UNCHANGED <<busVars, obligation, reached>>

isActiveAt(row) == row.exists /\ ~row.ended /\ row.start <= today /\ today <= row.end

(* The live rows there are, or copies: those that are active will stay so. *)
List(c) ==
  /\ At(c, "list")
  /\ call' = [call EXCEPT ![c].pc = "count", ![c].listed =
                {e \in Employments : employment[e].exists /\ (live \/ isActiveAt(employment[e]))}]
  /\ UNCHANGED <<busVars, obligation, reached>>

Headcount(c) == Cardinality({e \in call[c].listed : ~live \/ isActiveAt(employment[e])})

(* The headcount and its WorkforceSnapshot. *)
Count(c) ==
  /\ At(c, "count")
  /\ call' = [call EXCEPT ![c].pc = "cross", ![c].listed = {}, ![c].headcount = Headcount(c)]
  /\ UNCHANGED <<busVars, obligation, reached>>

crossedThresholds(from, to) == {t \in {Threshold[k] : k \in Codes} : from < t /\ to >= t}
obligationsForHeadcount(n) == {k \in Codes : n >= Threshold[k]}
Existing == {obligation[o] : o \in Obligations} \ {None}

BadMissing(n) == {k \in Codes : Threshold[k] \in crossedThresholds(n - 1, n)} \ Existing
BadMissingAll(n) == obligationsForHeadcount(n)

(* The codes _refreshObligations finds missing. *)
Missing(n) == obligationsForHeadcount(n) \ Existing

(* Announce the thresholds crossed, list the obligations there are.        *)
Cross(c) ==
  LET n == call[c].headcount IN
  /\ At(c, "cross")
  /\ Publish(Company, Cardinality(crossedThresholds(n - 1, n)))
  /\ Create(c, Missing(n))
  /\ UNCHANGED obligation

(* Create the next obligation (the rules are in no particular order); the  *)
(* hiring ends with the last one.  ObligationTriggered is the first event  *)
(* of its aggregate and is left out.                                       *)
CreateObligation(c, k) ==
  LET new == CHOOSE o \in Obligations : obligation[o] = None IN   (* uid() *)
  /\ At(c, "create")
  /\ k \in call[c].missing
  /\ \E o \in Obligations : obligation[o] = None
  /\ obligation' = [obligation EXCEPT ![new] = k]
  /\ Create(c, call[c].missing \ {k})
  /\ UNCHANGED busVars

-----------------------------------------------------------------------------
(* What a company is told of its headcount. *)
computeWorkforce == Cardinality({e \in Employments : isActiveAt(employment[e])})

(* simulateWorkforce: what n more employees would bring, without a write.  *)
simulateWorkforce(n) ==
  LET current == computeWorkforce projected == current + n IN
  [projected |-> projected, crossed |-> crossedThresholds(current, projected),
   new |-> obligationsForHeadcount(projected) \ obligationsForHeadcount(current)]

Distance(n, above) ==
  IF above = {} THEN None ELSE (CHOOSE t \in above : \A u \in above : t <= u) - n

BadNextThreshold(n) == Distance(n, {t \in {Threshold[k] : k \in Codes} : t >= n})

(* nextThreshold: how many employees are missing to the next one, if any. *)
nextThreshold(n) == Distance(n, {t \in {Threshold[k] : k \in Codes} : t > n})

-----------------------------------------------------------------------------
(* declareDeparture, with or without a previous one. *)
Depart(e, end) ==
  /\ employment[e].exists /\ ~employment[e].ended
  /\ employment' = [employment EXCEPT ![e].end = end, ![e].ended = end <= today]
  /\ UNCHANGED <<live, busVars, today, obligation, reached, call>>

Tick ==
  /\ today < Days
  /\ today' = today + 1
  /\ UNCHANGED <<live, busVars, employment, obligation, reached, call>>

(* A database call rejects: the hiring is abandoned. *)
Fail(c) ==
  /\ ~live
  /\ call[c] # Idle
  /\ Return(c)
  /\ UNCHANGED <<live, busVars, today, employment, obligation, reached>>

Restart ==
  /\ Stop
  /\ call' = [c \in Calls |-> Idle]
  /\ UNCHANGED <<live, today, employment, obligation, reached>>

Journaled ==
  /\ \E e \in unpersisted : Persist(e)
  /\ UNCHANGED <<live, today, employment, obligation, reached, call>>

Continue(c) ==
  \/ HireRefused(c) \/ List(c) \/ Count(c) \/ Cross(c)
  \/ \E k \in Codes : CreateObligation(c, k)

Next ==
  \/ \E c \in Calls, e \in Employments, start \in 0 .. Days : Hire(c, e, start)
  \/ \E c \in Calls : Continue(c) \/ Fail(c)
  \/ \E e \in Employments, end \in 0 .. Days : Depart(e, end)
  \/ Tick \/ Journaled \/ Restart

Spec == Init /\ [][Next]_vars

-----------------------------------------------------------------------------
(* Once a hiring has completed, every obligation of the headcount it       *)
(* counted exists, even if an earlier hiring stopped before creating them  *)
(* or another was creating them at the same time (_refreshObligations).    *)
NoObligationMissed == \A k \in Codes : Threshold[k] <= reached => k \in Existing

(* What a company is told in advance is what hirings then do: unless the   *)
(* headcount has grown without a hiring that counted it, the obligations n *)
(* more employees would find missing are among those the simulation        *)
(* foretells, and it foretells a threshold exactly when n reaches the next *)
(* one (simulateWorkforce, nextThreshold, hire).                           *)
SimulationForetells ==
  \A n \in 0 .. Cardinality(Employments) :
    LET told == simulateWorkforce(n) next == nextThreshold(computeWorkforce) IN
    /\ computeWorkforce <= reached => Missing(told.projected) \subseteq told.new
    /\ told.crossed # {} <=> next \in 0 .. n

(* An obligation is created once for each hiring in flight at most: with   *)
(* one at a time it is never duplicated (_refreshObligations).             *)
OncePerHiring ==
  \A k \in Codes : Cardinality({o \in Obligations : obligation[o] = k}) <= Cardinality(Calls)
=============================================================================
