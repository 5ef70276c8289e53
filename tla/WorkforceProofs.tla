--------------------------- MODULE WorkforceProofs ---------------------------
(***************************************************************************)
(* Theorems about headcount, obligations and the journal, for every number *)
(* of hirings, employments, codes and thresholds.                          *)
(***************************************************************************)
EXTENDS Workforce, FiniteSetTheorems, TLAPS

-----------------------------------------------------------------------------
(* Types *)

LEMMA HeadcountType ==
  ASSUME TypeOK, NEW c \in Calls
  PROVE  Headcount(c) \in Nat
<1> DEFINE S == {e \in call[c].listed : ~live \/ isActiveAt(employment[e])}
<1>1. S \in SUBSET Employments
  BY DEF TypeOK, Call
<1>2. IsFiniteSet(Employments)
  BY WorkforceAssumption
<1>3. IsFiniteSet(S)
  BY <1>1, <1>2, FS_Subset
<1> HIDE DEF S
<1>4. Cardinality(S) \in Nat
  BY <1>3, FS_CardinalityType
<1> QED BY <1>4 DEF S, Headcount

LEMMA CrossedType ==
  ASSUME NEW m, NEW n
  PROVE  Cardinality(crossedThresholds(m, n)) \in Nat
<1> DEFINE All == {Threshold[k] : k \in Codes}
<1>1. Threshold \in Surjection(Codes, All)
  BY WorkforceAssumption DEF Surjection
<1>2. IsFiniteSet(Codes)
  BY WorkforceAssumption
<1> HIDE DEF All
<1>3. IsFiniteSet(All)
  BY <1>1, <1>2, FS_Surjection
<1>4. crossedThresholds(m, n) \in SUBSET All
  BY DEF crossedThresholds, All
<1>5. IsFiniteSet(crossedThresholds(m, n))
  BY <1>3, <1>4, FS_Subset
<1> QED BY <1>5, FS_CardinalityType

LEMMA PublishType ==
  ASSUME BusTypeOK, NEW a \in Aggregates, NEW n \in Nat, Publish(a, n)
  PROVE  BusTypeOK'
<1>1. sequence[a] \in Nat
  BY DEF BusTypeOK
<1>2. Numbered(a, n) \subseteq Event
  BY <1>1 DEF Numbered, Event
<1>3. sequence[a] + n \in Nat
  BY <1>1
<1> QED BY <1>2, <1>3 DEF BusTypeOK, Publish

LEMMA CreateType ==
  ASSUME TypeOK, NEW c \in Calls, NEW codes \in SUBSET Codes, Create(c, codes)
  PROVE  call' \in [Calls -> Call] /\ reached' \in Nat
<1>1. call[c] \in Call /\ call[c].headcount \in Nat
  BY DEF TypeOK, Call
<1>2. Idle \in Call
  BY DEF Idle, Call, Stages
<1>3. [call[c] EXCEPT !.pc = "create", !.missing = codes] \in Call
  BY <1>1 DEF Call, Stages
<1>4. CASE codes # {}
  <2>1. call' = [call EXCEPT ![c] = [call[c] EXCEPT !.pc = "create", !.missing = codes]]
    BY <1>4 DEF Create, TypeOK
  <2>2. reached' = reached
    BY <1>4 DEF Create
  <2> QED BY <1>3, <2>1, <2>2 DEF TypeOK
<1>5. CASE codes = {}
  BY <1>1, <1>2, <1>5 DEF Create, Return, TypeOK
<1> QED BY <1>4, <1>5

(* The variables keep their types, whatever hirings overlap and fail. *)
THEOREM TypeCorrect == Spec => []TypeOK
<1>1. Init => TypeOK
  <2> SUFFICES ASSUME Init PROVE TypeOK
    OBVIOUS
  <2>1. Stores \subseteq BOOLEAN /\ Days \in Nat /\ Company \in Aggregates
    BY WorkforceAssumption
  <2>2. BusTypeOK
    BY <2>1 DEF Init, BusTypeOK, Event
  <2>3. NoEmployment \in Employment /\ Idle \in Call
    BY <2>1 DEF NoEmployment, Employment, Idle, Call, Stages
  <2>4. employment \in [Employments -> Employment] /\ call \in [Calls -> Call]
    BY <2>3 DEF Init
  <2>5. live \in BOOLEAN /\ today \in 0 .. Days
    BY <2>1 DEF Init
  <2> QED BY <2>2, <2>4, <2>5 DEF Init, TypeOK
<1>2. TypeOK /\ [Next]_vars => TypeOK'
  <2> SUFFICES ASSUME TypeOK, [Next]_vars PROVE TypeOK'
    OBVIOUS
  <2>0. /\ Days \in Nat /\ Company \in Aggregates
        /\ Idle \in Call /\ \A c \in Calls : call[c] \in Call
    BY WorkforceAssumption DEF TypeOK, Idle, Call, Stages
  <2>a. BusTypeOK
    BY DEF TypeOK
  <2>b. ASSUME UNCHANGED <<live, today, employment, obligation, reached>>, BusTypeOK',
               call' \in [Calls -> Call]
        PROVE  TypeOK'
    BY <2>b DEF TypeOK
  <2>c. ASSUME UNCHANGED busVars PROVE BusTypeOK'
    BY <2>c, <2>a DEF BusTypeOK, busVars
  <2>d. ASSUME NEW c \in Calls, Return(c) PROVE call' \in [Calls -> Call]
    BY <2>d, <2>0 DEF Return, TypeOK
  <2>1. ASSUME NEW c \in Calls, NEW e \in Employments, NEW start \in 0 .. Days, Hire(c, e, start)
        PROVE  TypeOK'
    <3>1. [exists |-> TRUE, start |-> start, end |-> Days + 1, ended |-> FALSE] \in Employment
      BY <2>0 DEF Employment
    <3>2. [call[c] EXCEPT !.pc = "list"] \in Call
      BY <2>0 DEF Call, Stages
    <3>3. employment' \in [Employments -> Employment]
      BY <2>1, <3>1 DEF Hire, TypeOK
    <3>4. call' \in [Calls -> Call]
      BY <2>1, <3>2 DEF Hire, TypeOK
    <3>5. BusTypeOK'
      BY <2>1, <2>c DEF Hire
    <3>6. UNCHANGED <<live, today, obligation, reached>>
      BY <2>1 DEF Hire
    <3> QED BY <3>3, <3>4, <3>5, <3>6 DEF TypeOK
  <2>2. ASSUME NEW c \in Calls, HireRefused(c) PROVE TypeOK'
    BY <2>2, <2>b, <2>c, <2>d DEF HireRefused, At
  <2>3. ASSUME NEW c \in Calls, List(c) PROVE TypeOK'
    <3> DEFINE ids == {e \in Employments : employment[e].exists /\ (live \/ isActiveAt(employment[e]))}
    <3>1. [call[c] EXCEPT !.pc = "count", !.listed = ids] \in Call
      BY <2>0 DEF Call, Stages
    <3>2. call' = [call EXCEPT ![c] = [call[c] EXCEPT !.pc = "count", !.listed = ids]]
      BY <2>3 DEF List, TypeOK
    <3>3. call' \in [Calls -> Call]
      BY <3>1, <3>2 DEF TypeOK
    <3> QED BY <2>3, <2>b, <2>c, <3>3 DEF List, At
  <2>4. ASSUME NEW c \in Calls, Count(c) PROVE TypeOK'
    <3>1. Headcount(c) \in Nat
      BY HeadcountType
    <3>2. [call[c] EXCEPT !.pc = "cross", !.listed = {}, !.headcount = Headcount(c)] \in Call
      BY <2>0, <3>1 DEF Call, Stages
    <3>3. call' = [call EXCEPT ![c] = [call[c] EXCEPT !.pc = "cross", !.listed = {},
                                                      !.headcount = Headcount(c)]]
      BY <2>4 DEF Count, TypeOK
    <3>4. call' \in [Calls -> Call]
      BY <3>2, <3>3 DEF TypeOK
    <3> QED BY <2>4, <2>b, <2>c, <3>4 DEF Count, At
  <2>5. ASSUME NEW c \in Calls, Cross(c) PROVE TypeOK'
    <3> DEFINE n == call[c].headcount
    <3>1. Missing(n) \in SUBSET Codes
      BY DEF Missing, obligationsForHeadcount
    <3>2. Create(c, Missing(n)) /\ Publish(Company, Cardinality(crossedThresholds(n - 1, n)))
      BY <2>5 DEF Cross
    <3>3. call' \in [Calls -> Call] /\ reached' \in Nat
      BY <3>1, <3>2, CreateType
    <3>4. BusTypeOK'
      BY <2>0, <2>a, <3>2, CrossedType, PublishType
    <3>5. UNCHANGED <<live, today, employment, obligation>>
      BY <2>5 DEF Cross, At
    <3> QED BY <3>3, <3>4, <3>5 DEF TypeOK
  <2>6. ASSUME NEW c \in Calls, NEW k \in Codes, CreateObligation(c, k) PROVE TypeOK'
    <3>1. call[c].missing \ {k} \in SUBSET Codes
      BY <2>0 DEF Call
    <3>2. call' \in [Calls -> Call] /\ reached' \in Nat
      BY <2>6, <3>1, CreateType DEF CreateObligation
    <3>3. obligation' \in [Obligations -> Codes \cup {None}]
      BY <2>6 DEF CreateObligation, TypeOK
    <3>4. BusTypeOK' /\ UNCHANGED <<live, today, employment>>
      BY <2>6, <2>c DEF CreateObligation, At
    <3> QED BY <3>2, <3>3, <3>4 DEF TypeOK
  <2>7. ASSUME NEW e \in Employments, NEW end \in 0 .. Days, Depart(e, end) PROVE TypeOK'
    <3> DEFINE over == end <= today
    <3>0. over \in BOOLEAN /\ end \in 0 .. Days + 1 /\ employment[e] \in Employment
      BY <2>0 DEF TypeOK
    <3> HIDE DEF over
    <3>1. [employment[e] EXCEPT !.end = end, !.ended = over] \in Employment
      BY <3>0 DEF Employment
    <3>2. employment' = [employment EXCEPT ![e] =
                           [employment[e] EXCEPT !.end = end, !.ended = over]]
      BY <2>7 DEF Depart, TypeOK, over
    <3>3. employment' \in [Employments -> Employment]
      BY <3>1, <3>2 DEF TypeOK
    <3>4. BusTypeOK' /\ UNCHANGED <<live, today, obligation, reached, call>>
      BY <2>7, <2>c DEF Depart
    <3> QED BY <3>3, <3>4 DEF TypeOK
  <2>8. CASE Tick
    <3>1. today' \in 0 .. Days
      BY <2>8, <2>0 DEF Tick, TypeOK
    <3>2. BusTypeOK' /\ UNCHANGED <<live, employment, obligation, reached, call>>
      BY <2>8, <2>c DEF Tick
    <3> QED BY <3>1, <3>2 DEF TypeOK
  <2>9. ASSUME NEW c \in Calls, Fail(c) PROVE TypeOK'
    BY <2>9, <2>b, <2>c, <2>d DEF Fail
  <2>10. CASE Restart
    <3>1. BusTypeOK'
      BY <2>10, <2>a DEF Restart, Stop, BusTypeOK, Event
    <3>2. call' \in [Calls -> Call]
      BY <2>10, <2>0 DEF Restart
    <3> QED BY <2>10, <2>b, <3>1, <3>2 DEF Restart
  <2>11. CASE Journaled
    <3>1. BusTypeOK'
      BY <2>11, <2>a DEF Journaled, Persist, BusTypeOK
    <3> QED BY <2>11, <2>b, <3>1 DEF Journaled, TypeOK
  <2>12. CASE UNCHANGED vars
    BY <2>12, <2>b, <2>c DEF vars, busVars, TypeOK
  <2> QED BY <2>1, <2>2, <2>3, <2>4, <2>5, <2>6, <2>7, <2>8, <2>9, <2>10, <2>11, <2>12
          DEF Next, Continue
<1> QED BY <1>1, <1>2, PTL DEF Spec

-----------------------------------------------------------------------------
(* Obligations *)

(* What each hiring has yet to create covers what it found applicable. *)
Covered ==
  \A c \in Calls : call[c].pc = "create" =>
    \A k \in Codes : Threshold[k] <= call[c].headcount => k \in Existing \cup call[c].missing

ObligationInv == TypeOK /\ NoObligationMissed /\ Covered

(* A hiring that goes on with the codes that are left keeps both facts, if *)
(* they are all that is missing.                                           *)
LEMMA CreateCovers ==
  ASSUME ObligationInv, NEW c \in Calls, NEW codes \in SUBSET Codes, Create(c, codes),
         Existing \subseteq Existing',
         \A k \in Codes : Threshold[k] <= call[c].headcount => k \in Existing' \cup codes
  PROVE  NoObligationMissed' /\ Covered'
<1>0. \A d \in Calls : call[d] \in Call
  BY DEF ObligationInv, TypeOK
<1>1. CASE codes # {}
  <2>1. call' = [call EXCEPT ![c] = [call[c] EXCEPT !.pc = "create", !.missing = codes]]
    BY <1>1 DEF Create, ObligationInv, TypeOK
  <2>2. call'[c].headcount = call[c].headcount /\ call'[c].missing = codes
    BY <1>0, <2>1 DEF ObligationInv, TypeOK, Call
  <2>3. \A d \in Calls \ {c} : call'[d] = call[d]
    BY <2>1 DEF ObligationInv, TypeOK
  <2>4. reached' = reached
    BY <1>1 DEF Create
  <2>5. NoObligationMissed'
    BY <2>4 DEF ObligationInv, NoObligationMissed
  <2>6. Covered'
    BY <2>2, <2>3 DEF ObligationInv, Covered
  <2> QED BY <2>5, <2>6
<1>2. CASE codes = {}
  <2>1. call'[c].pc = "idle" /\ \A d \in Calls \ {c} : call'[d] = call[d]
    BY <1>2 DEF Create, Return, Idle, ObligationInv, TypeOK
  <2>2. reached' = reached \/ reached' = call[c].headcount
    BY <1>2 DEF Create
  <2>3. NoObligationMissed'
    BY <1>2, <2>2 DEF ObligationInv, NoObligationMissed
  <2>4. Covered'
    BY <2>1 DEF ObligationInv, Covered
  <2> QED BY <2>3, <2>4
<1> QED BY <1>1, <1>2

(* Whatever overlaps, fails or stops, every obligation of a headcount that *)
(* a completed hiring counted exists (_refreshObligations).                *)
THEOREM ObligationsComplete == Spec => []NoObligationMissed
<1>1. Init => NoObligationMissed /\ Covered
  <2> SUFFICES ASSUME Init PROVE NoObligationMissed /\ Covered
    OBVIOUS
  <2>1. \A k \in Codes : Threshold[k] \in Nat \ {0}
    BY WorkforceAssumption
  <2> QED BY <2>1 DEF Init, Idle, NoObligationMissed, Covered
<1>2. TypeOK /\ NoObligationMissed /\ Covered /\ [Next]_vars => NoObligationMissed' /\ Covered'
  <2> SUFFICES ASSUME ObligationInv, [Next]_vars PROVE NoObligationMissed' /\ Covered'
    BY DEF ObligationInv
  <2>0. \A d \in Calls : call[d] \in Call
    BY DEF ObligationInv, TypeOK
  <2>a. ASSUME UNCHANGED <<obligation, reached>>,
               \A c \in Calls : call'[c].pc = "create" => call'[c] = call[c]
        PROVE  NoObligationMissed' /\ Covered'
    BY <2>a DEF ObligationInv, NoObligationMissed, Covered, Existing
  <2>b. ASSUME NEW c \in Calls, Return(c)
        PROVE  \A d \in Calls : call'[d].pc = "create" => call'[d] = call[d]
    BY <2>b DEF Return, Idle, ObligationInv, TypeOK
  <2>1. ASSUME NEW c \in Calls, NEW e \in Employments, NEW start \in 0 .. Days, Hire(c, e, start)
        PROVE  NoObligationMissed' /\ Covered'
    <3>1. \A d \in Calls : call'[d].pc = "create" => call'[d] = call[d]
      BY <2>0, <2>1 DEF Hire, ObligationInv, TypeOK, Call
    <3> QED BY <2>1, <2>a, <3>1 DEF Hire
  <2>2. ASSUME NEW c \in Calls, HireRefused(c) PROVE NoObligationMissed' /\ Covered'
    BY <2>2, <2>a, <2>b DEF HireRefused
  <2>3. ASSUME NEW c \in Calls, List(c) PROVE NoObligationMissed' /\ Covered'
    <3>1. \A d \in Calls : call'[d].pc = "create" => call'[d] = call[d]
      BY <2>0, <2>3 DEF List, ObligationInv, TypeOK, Call
    <3> QED BY <2>3, <2>a, <3>1 DEF List
  <2>4. ASSUME NEW c \in Calls, Count(c) PROVE NoObligationMissed' /\ Covered'
    <3>1. \A d \in Calls : call'[d].pc = "create" => call'[d] = call[d]
      BY <2>0, <2>4 DEF Count, ObligationInv, TypeOK, Call
    <3> QED BY <2>4, <2>a, <3>1 DEF Count
  <2>5. ASSUME NEW c \in Calls, Cross(c) PROVE NoObligationMissed' /\ Covered'
    <3> DEFINE n == call[c].headcount
    <3>1. Create(c, Missing(n)) /\ Existing' = Existing
      BY <2>5 DEF Cross, Existing
    <3>2. Missing(n) \in SUBSET Codes
      BY DEF Missing, obligationsForHeadcount
    <3>3. n \in Nat /\ \A k \in Codes : Threshold[k] \in Nat
      BY <2>0, WorkforceAssumption DEF Call
    <3>4. \A k \in Codes : Threshold[k] <= n => k \in Existing \cup Missing(n)
      BY <3>3 DEF Missing, obligationsForHeadcount
    <3> QED BY <3>1, <3>2, <3>4, CreateCovers
  <2>6. ASSUME NEW c \in Calls, NEW k \in Codes, CreateObligation(c, k)
        PROVE  NoObligationMissed' /\ Covered'
    <3> DEFINE new == CHOOSE o \in Obligations : obligation[o] = None
    <3>1. new \in Obligations /\ obligation[new] = None
      BY <2>6 DEF CreateObligation
    <3>2. obligation' = [obligation EXCEPT ![new] = k]
      BY <2>6 DEF CreateObligation
    <3>3. k # None
      BY WorkforceAssumption
    <3> HIDE DEF new
    <3>4. Existing' = Existing \cup {k}
      BY <3>1, <3>2, <3>3 DEF Existing, ObligationInv, TypeOK
    <3>5. Create(c, call[c].missing \ {k}) /\ call[c].missing \ {k} \in SUBSET Codes
      BY <2>6, <2>0 DEF CreateObligation, Call
    <3>6. \A l \in Codes : Threshold[l] <= call[c].headcount =>
            l \in Existing' \cup (call[c].missing \ {k})
      BY <2>6, <3>4 DEF CreateObligation, At, ObligationInv, Covered
    <3>7. Existing \subseteq Existing'
      BY <3>4
    <3> QED BY <3>5, <3>6, <3>7, CreateCovers
  <2>7. ASSUME NEW e \in Employments, NEW end \in 0 .. Days, Depart(e, end)
        PROVE  NoObligationMissed' /\ Covered'
    BY <2>7, <2>a DEF Depart
  <2>8. CASE Tick
    BY <2>8, <2>a DEF Tick
  <2>9. ASSUME NEW c \in Calls, Fail(c) PROVE NoObligationMissed' /\ Covered'
    BY <2>9, <2>a, <2>b DEF Fail
  <2>10. CASE Restart
    <3>1. \A d \in Calls : call'[d].pc # "create"
      BY <2>10 DEF Restart, Idle
    <3> QED BY <2>10, <2>a, <3>1 DEF Restart
  <2>11. CASE Journaled
    BY <2>11, <2>a DEF Journaled
  <2>12. CASE UNCHANGED vars
    BY <2>12, <2>a DEF vars
  <2> QED BY <2>1, <2>2, <2>3, <2>4, <2>5, <2>6, <2>7, <2>8, <2>9, <2>10, <2>11, <2>12
          DEF Next, Continue
<1> QED BY <1>1, <1>2, TypeCorrect, PTL DEF Spec

-----------------------------------------------------------------------------
(* Duplicates *)

(* The rows of a code, and the hirings that are about to add one. *)
RowsOf(k) == {o \in Obligations : obligation[o] = k}
Pending(k) == {c \in Calls : k \in call[c].missing}

(* Each hiring in flight accounts for one row that is there or to come. *)
RoomLeft == \A k \in Codes : Cardinality(RowsOf(k)) + Cardinality(Pending(k)) <= Cardinality(Calls)

LEMMA Counted ==
  ASSUME NEW k \in Codes
  PROVE  /\ IsFiniteSet(RowsOf(k)) /\ Cardinality(RowsOf(k)) \in Nat
         /\ IsFiniteSet(Pending(k)) /\ Cardinality(Pending(k)) \in Nat
         /\ Cardinality(Pending(k)) <= Cardinality(Calls) /\ Cardinality(Calls) \in Nat
<1>1. IsFiniteSet(Obligations) /\ IsFiniteSet(Calls)
  BY WorkforceAssumption
<1>2. RowsOf(k) \in SUBSET Obligations /\ Pending(k) \in SUBSET Calls
  BY DEF RowsOf, Pending
<1> QED BY <1>1, <1>2, FS_Subset, FS_CardinalityType

LEMMA CountedNext ==
  ASSUME NEW k \in Codes
  PROVE  /\ IsFiniteSet(RowsOf(k)') /\ Cardinality(RowsOf(k)') \in Nat
         /\ IsFiniteSet(Pending(k)') /\ Cardinality(Pending(k)') \in Nat
         /\ Cardinality(Pending(k)') <= Cardinality(Calls)
<1>1. IsFiniteSet(Obligations) /\ IsFiniteSet(Calls)
  BY WorkforceAssumption
<1>2. RowsOf(k)' \in SUBSET Obligations /\ Pending(k)' \in SUBSET Calls
  BY DEF RowsOf, Pending
<1> QED BY <1>1, <1>2, FS_Subset, FS_CardinalityType

(* No room is taken where no row is added and no hiring wants one more. *)
LEMMA FewerPending ==
  ASSUME RoomLeft, NEW k \in Codes, RowsOf(k)' = RowsOf(k), Pending(k)' \subseteq Pending(k)
  PROVE  Cardinality(RowsOf(k)') + Cardinality(Pending(k)') <= Cardinality(Calls)
<1>1. Pending(k)' \in SUBSET Pending(k)
  OBVIOUS
<1>2. IsFiniteSet(Pending(k))
  BY Counted
<1> HIDE DEF Pending
<1>3. Cardinality(Pending(k)') <= Cardinality(Pending(k))
  BY <1>1, <1>2, FS_Subset
<1>4. Cardinality(RowsOf(k)) + Cardinality(Pending(k)) <= Cardinality(Calls)
  BY DEF RoomLeft
<1> QED BY <1>3, <1>4, Counted, CountedNext

(* How the hirings that want a code change with the one that goes on. *)
LEMMA CreatePending ==
  ASSUME TypeOK, NEW c \in Calls, NEW codes \in SUBSET Codes, Create(c, codes), NEW k \in Codes
  PROVE  Pending(k)' = IF k \in codes THEN Pending(k) \cup {c} ELSE Pending(k) \ {c}
<1>0. call[c] \in Call
  BY DEF TypeOK
<1>1. CASE codes # {}
  <2>1. call' = [call EXCEPT ![c] = [call[c] EXCEPT !.pc = "create", !.missing = codes]]
    BY <1>1 DEF Create, TypeOK
  <2>2. call'[c].missing = codes /\ \A d \in Calls \ {c} : call'[d] = call[d]
    BY <1>0, <2>1 DEF TypeOK, Call
  <2> QED BY <2>2 DEF Pending
<1>2. CASE codes = {}
  BY <1>2 DEF Create, Return, Idle, Pending, TypeOK
<1> QED BY <1>1, <1>2

(* At most as many rows of a code as hirings can be in flight: the check   *)
(* of _refreshObligations suffices for one at a time, whatever fails.      *)
THEOREM DuplicatesAreBounded == Spec => []OncePerHiring
<1>1. Init => RoomLeft
  <2> SUFFICES ASSUME Init, NEW k \in Codes
               PROVE  Cardinality(RowsOf(k)) + Cardinality(Pending(k)) <= Cardinality(Calls)
    BY DEF RoomLeft
  <2>1. RowsOf(k) = {} /\ Pending(k) = {}
    BY WorkforceAssumption DEF Init, RowsOf, Pending, Idle
  <2> QED BY <2>1, Counted, FS_EmptySet
<1>2. TypeOK /\ RoomLeft /\ [Next]_vars => RoomLeft'
  <2> SUFFICES ASSUME TypeOK, RoomLeft, [Next]_vars, NEW k \in Codes
               PROVE  Cardinality(RowsOf(k)') + Cardinality(Pending(k)') <= Cardinality(Calls)
    BY DEF RoomLeft
  <2>0. \A d \in Calls : call[d] \in Call
    BY DEF TypeOK
  <2>a. ASSUME UNCHANGED obligation, \A d \in Calls : call'[d].missing \subseteq call[d].missing
        PROVE  Cardinality(RowsOf(k)') + Cardinality(Pending(k)') <= Cardinality(Calls)
    <3>1. RowsOf(k)' = RowsOf(k) /\ Pending(k)' \subseteq Pending(k)
      BY <2>a DEF RowsOf, Pending
    <3> QED BY <3>1, FewerPending
  <2>b. ASSUME NEW c \in Calls, Return(c)
        PROVE  \A d \in Calls : call'[d].missing \subseteq call[d].missing
    BY <2>b DEF Return, Idle, TypeOK
  <2>1. ASSUME NEW c \in Calls, NEW e \in Employments, NEW start \in 0 .. Days, Hire(c, e, start)
        PROVE  Cardinality(RowsOf(k)') + Cardinality(Pending(k)') <= Cardinality(Calls)
    <3>1. \A d \in Calls : call'[d].missing = call[d].missing
      BY <2>0, <2>1 DEF Hire, TypeOK, Call
    <3> QED BY <2>1, <2>a, <3>1 DEF Hire
  <2>2. ASSUME NEW c \in Calls, HireRefused(c)
        PROVE  Cardinality(RowsOf(k)') + Cardinality(Pending(k)') <= Cardinality(Calls)
    BY <2>2, <2>a, <2>b DEF HireRefused
  <2>3. ASSUME NEW c \in Calls, List(c)
        PROVE  Cardinality(RowsOf(k)') + Cardinality(Pending(k)') <= Cardinality(Calls)
    <3>1. \A d \in Calls : call'[d].missing = call[d].missing
      BY <2>0, <2>3 DEF List, TypeOK, Call
    <3> QED BY <2>3, <2>a, <3>1 DEF List
  <2>4. ASSUME NEW c \in Calls, Count(c)
        PROVE  Cardinality(RowsOf(k)') + Cardinality(Pending(k)') <= Cardinality(Calls)
    <3>1. \A d \in Calls : call'[d].missing = call[d].missing
      BY <2>0, <2>4 DEF Count, TypeOK, Call
    <3> QED BY <2>4, <2>a, <3>1 DEF Count
  <2>5. ASSUME NEW c \in Calls, Cross(c)
        PROVE  Cardinality(RowsOf(k)') + Cardinality(Pending(k)') <= Cardinality(Calls)
    <3> DEFINE missing == Missing(call[c].headcount)
    <3>1. Create(c, missing) /\ RowsOf(k)' = RowsOf(k)
      BY <2>5 DEF Cross, RowsOf
    <3>2. missing \in SUBSET Codes
      BY DEF Missing, obligationsForHeadcount
    <3>3. CASE k \in missing
      <4>1. k \notin Existing /\ k # None
        BY <3>3, WorkforceAssumption DEF Missing
      <4>2. RowsOf(k) = {}
        BY <4>1 DEF RowsOf, Existing
      <4>3. Cardinality(RowsOf(k)') = 0
        BY <3>1, <4>2, FS_EmptySet
      <4> QED BY <4>3, CountedNext
    <3>4. CASE k \notin missing
      <4>1. Pending(k)' \subseteq Pending(k)
        BY <3>1, <3>2, <3>4, CreatePending
      <4> QED BY <3>1, <4>1, FewerPending
    <3> QED BY <3>3, <3>4
  <2>6. ASSUME NEW c \in Calls, NEW l \in Codes, CreateObligation(c, l)
        PROVE  Cardinality(RowsOf(k)') + Cardinality(Pending(k)') <= Cardinality(Calls)
    <3> DEFINE new == CHOOSE o \in Obligations : obligation[o] = None
               left == call[c].missing \ {l}
    <3>1. new \in Obligations /\ obligation[new] = None
      BY <2>6 DEF CreateObligation
    <3>2. obligation' = [obligation EXCEPT ![new] = l] /\ l \in call[c].missing
      BY <2>6 DEF CreateObligation
    <3>3. k # None /\ l # None
      BY WorkforceAssumption
    <3>4. left \in SUBSET Codes /\ Create(c, left)
      BY <2>6, <2>0 DEF CreateObligation, Call
    <3> HIDE DEF new
    <3>5. CASE k = l
      <4>1. RowsOf(k)' = RowsOf(k) \cup {new} /\ new \notin RowsOf(k)
        BY <3>1, <3>2, <3>3, <3>5 DEF RowsOf, TypeOK
      <4>2. Pending(k)' = Pending(k) \ {c} /\ c \in Pending(k)
        BY <3>2, <3>4, <3>5, CreatePending DEF Pending
      <4> HIDE DEF left
      <4>3. Cardinality(RowsOf(k)') = Cardinality(RowsOf(k)) + 1
        BY <4>1, Counted, FS_AddElement
      <4>4. Cardinality(Pending(k)') = Cardinality(Pending(k)) - 1
        BY <4>2, Counted, FS_RemoveElement
      <4>5. Cardinality(RowsOf(k)) + Cardinality(Pending(k)) <= Cardinality(Calls)
        BY DEF RoomLeft
      <4> QED BY <4>3, <4>4, <4>5, Counted
    <3>6. CASE k # l
      <4>1. RowsOf(k)' = RowsOf(k)
        BY <3>1, <3>2, <3>3, <3>6 DEF RowsOf, TypeOK
      <4>2. Pending(k)' \subseteq Pending(k)
        <5>1. CASE k \in left
          <6>1. c \in Pending(k)
            BY <5>1 DEF Pending
          <6> QED BY <5>1, <6>1, <3>4, CreatePending
        <5>2. CASE k \notin left
          BY <5>2, <3>4, CreatePending
        <5> QED BY <5>1, <5>2
      <4> QED BY <4>1, <4>2, FewerPending
    <3> QED BY <3>5, <3>6
  <2>7. ASSUME NEW e \in Employments, NEW end \in 0 .. Days, Depart(e, end)
        PROVE  Cardinality(RowsOf(k)') + Cardinality(Pending(k)') <= Cardinality(Calls)
    BY <2>7, <2>a DEF Depart
  <2>8. CASE Tick
    BY <2>8, <2>a DEF Tick
  <2>9. ASSUME NEW c \in Calls, Fail(c)
        PROVE  Cardinality(RowsOf(k)') + Cardinality(Pending(k)') <= Cardinality(Calls)
    BY <2>9, <2>a, <2>b DEF Fail
  <2>10. CASE Restart
    <3>1. \A d \in Calls : call'[d].missing = {}
      BY <2>10 DEF Restart, Idle
    <3> QED BY <2>10, <2>a, <3>1 DEF Restart
  <2>11. CASE Journaled
    BY <2>11, <2>a DEF Journaled
  <2>12. CASE UNCHANGED vars
    BY <2>12, <2>a DEF vars
  <2> QED BY <2>1, <2>2, <2>3, <2>4, <2>5, <2>6, <2>7, <2>8, <2>9, <2>10, <2>11, <2>12
          DEF Next, Continue
<1>3. RoomLeft => OncePerHiring
  <2> SUFFICES ASSUME RoomLeft, NEW k \in Codes
               PROVE  Cardinality(RowsOf(k)) <= Cardinality(Calls)
    BY DEF OncePerHiring, RowsOf
  <2>1. Cardinality(RowsOf(k)) + Cardinality(Pending(k)) <= Cardinality(Calls)
    BY DEF RoomLeft
  <2> QED BY <2>1, Counted
<1> QED BY <1>1, <1>2, <1>3, TypeCorrect, PTL DEF Spec

-----------------------------------------------------------------------------
(* The journal *)

JournalInv == TypeOK /\ JournalIsComplete

NumbersOf(a, events) == {e.number : e \in {e \in events : e.of = a}}

LEMMA Continued ==
  ASSUME NEW m \in Nat, NEW n \in Nat
  PROVE  (1 .. m) \cup (m + 1 .. m + n) = 1 .. m + n
  OBVIOUS

LEMMA NumberedOf ==
  ASSUME TypeOK, NEW a \in Aggregates, NEW n \in Nat
  PROVE  /\ NumbersOf(a, Numbered(a, n)) = sequence[a] + 1 .. sequence[a] + n
         /\ \A e \in Numbered(a, n) : e.of = a /\ e.number > sequence[a]
<1>1. sequence[a] \in Nat
  BY DEF TypeOK, BusTypeOK
<1>2. \A e \in Numbered(a, n) : e.of = a /\ e.number > sequence[a] /\ e.number \in sequence[a] + 1 .. sequence[a] + n
  BY <1>1 DEF Numbered
<1>3. ASSUME NEW i \in sequence[a] + 1 .. sequence[a] + n
      PROVE  i \in NumbersOf(a, Numbered(a, n))
  <2>1. i - sequence[a] \in 1 .. n /\ sequence[a] + (i - sequence[a]) = i
    BY <1>1, <1>3
  <2>2. [of |-> a, number |-> i] \in Numbered(a, n)
    BY <2>1 DEF Numbered
  <2> QED BY <2>2 DEF NumbersOf
<1> QED BY <1>2, <1>3 DEF NumbersOf

(* Publishing continues the numbers of one aggregate and leaves the others.*)
LEMMA PublishComplete ==
  ASSUME JournalInv, NEW a \in Aggregates, NEW n \in Nat, Publish(a, n), live' = live
  PROVE  JournalIsComplete'
<1> SUFFICES ASSUME NEW b \in Aggregates \ old
             PROVE  /\ NumbersOf(b, journal' \cup unpersisted') = 1 .. sequence'[b]
                    /\ \A e \in unpersisted' : e.of = b => e \notin journal'
  BY DEF JournalIsComplete, NumbersOf, Publish
<1>1. /\ NumbersOf(b, journal \cup unpersisted) = 1 .. sequence[b]
      /\ \A e \in unpersisted : e.of = b => e \notin journal
      /\ sequence[b] \in Nat /\ sequence[a] \in Nat
  BY DEF JournalInv, JournalIsComplete, NumbersOf, TypeOK, BusTypeOK
<1>2. journal' \cup unpersisted' = (journal \cup unpersisted) \cup Numbered(a, n)
  BY DEF Publish
<1>3. \A e \in Numbered(a, n) : e.of = a /\ e.number > sequence[a]
  BY NumberedOf DEF JournalInv
<1>4. \A e \in journal \cup unpersisted : e.of = b => e.number <= sequence[b] /\ e.number \in Nat
  BY <1>1 DEF NumbersOf
<1>5. CASE a = b
  <2>1. NumbersOf(b, journal' \cup unpersisted')
          = NumbersOf(b, journal \cup unpersisted) \cup NumbersOf(b, Numbered(a, n))
    BY <1>2 DEF NumbersOf
  <2>2. NumbersOf(b, Numbered(a, n)) = sequence[b] + 1 .. sequence[b] + n
    BY <1>5, NumberedOf DEF JournalInv
  <2>3. sequence'[b] = sequence[b] + n
    BY <1>5 DEF Publish, JournalInv, TypeOK, BusTypeOK
  <2>4. NumbersOf(b, journal' \cup unpersisted') = 1 .. sequence'[b]
    BY <1>1, <2>1, <2>2, <2>3, Continued
  <2>5. \A e \in Numbered(a, n) : e \notin journal \cup unpersisted
    BY <1>1, <1>3, <1>4, <1>5
  <2>6. \A e \in unpersisted' : e.of = b => e \notin journal'
    BY <1>1, <2>5 DEF Publish
  <2> QED BY <2>4, <2>6
<1>6. CASE a # b
  <2>1. NumbersOf(b, journal' \cup unpersisted') = NumbersOf(b, journal \cup unpersisted)
    BY <1>2, <1>3, <1>6 DEF NumbersOf
  <2>2. sequence'[b] = sequence[b]
    BY <1>6 DEF Publish, JournalInv, TypeOK, BusTypeOK
  <2>3. \A e \in unpersisted' : e.of = b => e \notin journal'
    BY <1>1, <1>3, <1>6 DEF Publish
  <2> QED BY <1>1, <2>1, <2>2, <2>3
<1> QED BY <1>5, <1>6

(* While a process runs, no event of an aggregate it created is lost or    *)
(* skipped (EventBus.publish, onPersist).                                  *)
THEOREM JournalComplete == Spec => []JournalIsComplete
<1>1. Init => JournalIsComplete
  <2> SUFFICES ASSUME Init, NEW a \in Aggregates
               PROVE  /\ NumbersOf(a, journal \cup unpersisted) = 1 .. sequence[a]
                      /\ \A e \in unpersisted : e.of = a => e \notin journal
    BY DEF JournalIsComplete, NumbersOf
  <2>1. CASE a = Company
    <3>1. journal \cup unpersisted = {[of |-> a, number |-> 1]} /\ unpersisted = {}
      BY <2>1 DEF Init
    <3>2. sequence[a] = 1
      BY <2>1 DEF Init
    <3>3. NumbersOf(a, journal \cup unpersisted) = {1}
      <4> DEFINE first == [of |-> a, number |-> 1]
      <4>1. first.of = a /\ first.number = 1
        OBVIOUS
      <4> HIDE DEF first
      <4>2. NumbersOf(a, {first}) = {1}
        BY <4>1 DEF NumbersOf
      <4> QED BY <3>1, <4>2 DEF first
    <3>4. 1 .. 1 = {1}
      OBVIOUS
    <3> QED BY <3>1, <3>2, <3>3, <3>4
  <2>2. CASE a # Company
    BY <2>2 DEF Init, NumbersOf
  <2> QED BY <2>1, <2>2
<1>2. TypeOK /\ JournalIsComplete /\ [Next]_vars => JournalIsComplete'
  <2> SUFFICES ASSUME JournalInv, [Next]_vars PROVE JournalIsComplete'
    BY DEF JournalInv
  <2>a. ASSUME UNCHANGED busVars PROVE JournalIsComplete'
    BY <2>a DEF JournalInv, JournalIsComplete, busVars
  <2>1. ASSUME NEW c \in Calls, Cross(c) PROVE JournalIsComplete'
    <3> DEFINE n == Cardinality(crossedThresholds(call[c].headcount - 1, call[c].headcount))
    <3>1. n \in Nat
      BY CrossedType
    <3>2. Publish(Company, n) /\ live' = live
      BY <2>1 DEF Cross, At
    <3>3. Company \in Aggregates
      BY WorkforceAssumption
    <3> HIDE DEF n
    <3> QED BY <3>1, <3>2, <3>3, PublishComplete
  <2>2. CASE Restart
    <3>1. unpersisted' = {} /\ old' = {e.of : e \in journal} /\ journal' = journal
          /\ sequence' = [a \in Aggregates |-> 0]
      BY <2>2 DEF Restart, Stop
    <3>2. ASSUME NEW a \in Aggregates \ old'
          PROVE  NumbersOf(a, journal' \cup unpersisted') = 1 .. sequence'[a]
      BY <3>1 DEF NumbersOf
    <3> QED BY <3>1, <3>2 DEF JournalIsComplete, NumbersOf
  <2>3. CASE Journaled
    <3>1. PICK e \in unpersisted : Persist(e)
      BY <2>3 DEF Journaled
    <3>2. journal' \cup unpersisted' = journal \cup unpersisted
      BY <3>1 DEF Persist
    <3>3. \A f \in unpersisted' : f \in unpersisted /\ (f \in journal' => f \in journal)
      BY <3>1 DEF Persist
    <3>4. UNCHANGED <<sequence, old>>
      BY <3>1 DEF Persist
    <3> QED BY <3>2, <3>3, <3>4 DEF JournalInv, JournalIsComplete
  <2>4. ASSUME NEW c \in Calls, Continue(c) PROVE JournalIsComplete'
    BY <2>4, <2>1, <2>a DEF Continue, HireRefused, List, Count, CreateObligation
  <2> QED BY <2>2, <2>3, <2>4, <2>a
          DEF Next, vars, Hire, Fail, Depart, Tick
<1> QED BY <1>1, <1>2, TypeCorrect, PTL DEF Spec

-----------------------------------------------------------------------------
(* Simulations *)

LEMMA WorkforceType == computeWorkforce \in Nat /\ Cardinality(Employments) \in Nat
<1> DEFINE S == {e \in Employments : isActiveAt(employment[e])}
<1>1. IsFiniteSet(Employments) /\ S \in SUBSET Employments
  BY WorkforceAssumption
<1> HIDE DEF S
<1>2. IsFiniteSet(S)
  BY <1>1, FS_Subset
<1> QED BY <1>1, <1>2, FS_CardinalityType DEF S, computeWorkforce

(* A set of naturals that is not empty has a least element.                *)
LEMMA LeastOf ==
  ASSUME NEW S \in SUBSET Nat, S # {}
  PROVE  \E m \in S : \A i \in S : m <= i
<1> DEFINE R == OpToRel(<, Nat)
<1>1. IsWellFoundedOn(R, Nat)
  BY NatLessThanWellFounded
<1>2. \A i, j \in Nat : i < j => <<i, j>> \in R
  BY DEF OpToRel
<1> HIDE DEF R
<1>3. PICK m \in S : \A i \in S : ~(<<i, m>> \in R)
  BY <1>1, WFMin
<1>4. \A i \in S : ~(i < m) /\ i \in Nat /\ m \in Nat
  BY <1>2, <1>3
<1> QED BY <1>4

(* The next threshold is reached by n more employees exactly when one is   *)
(* crossed on the way.                                                     *)
LEMMA NextIsCrossed ==
  ASSUME NEW current \in Nat, NEW n \in Nat
  PROVE  crossedThresholds(current, current + n) # {} <=> nextThreshold(current) \in 0 .. n
<1> DEFINE All == {Threshold[k] : k \in Codes}
           above == {t \in All : t > current}
           first == CHOOSE t \in above : \A u \in above : t <= u
<1>1. All \subseteq Nat
  BY WorkforceAssumption
<1>2. None \notin Nat
  BY WorkforceAssumption
<1>3. /\ crossedThresholds(current, current + n) = {t \in All : current < t /\ current + n >= t}
      /\ nextThreshold(current) = IF above = {} THEN None ELSE first - current
  BY DEF crossedThresholds, nextThreshold, Distance
<1> HIDE DEF All
<1>4. CASE above = {}
  <2>1. {t \in All : current < t /\ current + n >= t} = {}
    BY <1>1, <1>4
  <2>2. None \notin 0 .. n
    BY <1>2
  <2> QED BY <1>3, <1>4, <2>1, <2>2
<1>5. CASE above # {}
  <2>1. above \in SUBSET Nat
    BY <1>1
  <2>2. first \in above /\ \A u \in above : first <= u
    BY <1>5, <2>1, LeastOf
  <2> HIDE DEF first
  <2>3. first \in Nat /\ first \in All /\ first > current
    BY <1>1, <2>2
  <2>4. ASSUME NEW t \in All, current < t, current + n >= t
        PROVE  first - current \in 0 .. n
    <3>1. t \in Nat /\ first <= t
      BY <1>1, <2>2, <2>4
    <3> QED BY <2>3, <2>4, <3>1
  <2>5. ASSUME first - current \in 0 .. n
        PROVE  current + n >= first
    BY <2>3, <2>5
  <2> QED BY <1>3, <1>5, <2>3, <2>4, <2>5
<1> QED BY <1>4, <1>5

(* For every table of thresholds: what is simulated in advance covers what *)
(* a hiring finds missing, and foretells a threshold exactly when the next *)
(* one is reached (simulateWorkforce, nextThreshold, _refreshObligations). *)
THEOREM SimulationsForetell == Spec => []SimulationForetells
<1>1. TypeOK /\ NoObligationMissed => SimulationForetells
  <2> SUFFICES ASSUME TypeOK, NoObligationMissed, NEW n \in 0 .. Cardinality(Employments)
               PROVE  LET told == simulateWorkforce(n) next == nextThreshold(computeWorkforce) IN
                      /\ computeWorkforce <= reached => Missing(told.projected) \subseteq told.new
                      /\ told.crossed # {} <=> next \in 0 .. n
    BY DEF SimulationForetells
  <2> DEFINE current == computeWorkforce
  <2>1. current \in Nat /\ n \in Nat /\ reached \in Nat /\ current + n \in Nat
    BY WorkforceType DEF TypeOK
  <2>2. /\ simulateWorkforce(n).projected = current + n
        /\ simulateWorkforce(n).crossed = crossedThresholds(current, current + n)
        /\ simulateWorkforce(n).new
             = obligationsForHeadcount(current + n) \ obligationsForHeadcount(current)
    BY DEF simulateWorkforce
  <2> HIDE DEF current
  <2>3. ASSUME current <= reached
        PROVE  Missing(current + n) \subseteq obligationsForHeadcount(current + n)
                                              \ obligationsForHeadcount(current)
    <3>1. ASSUME NEW k \in Codes, k \notin Existing, current >= Threshold[k]
          PROVE  FALSE
      <4>1. Threshold[k] \in Nat
        BY WorkforceAssumption
      <4>2. Threshold[k] <= reached
        BY <2>1, <2>3, <3>1, <4>1
      <4> QED BY <3>1, <4>2 DEF NoObligationMissed
    <3> QED BY <3>1 DEF Missing, obligationsForHeadcount
  <2>4. crossedThresholds(current, current + n) # {} <=> nextThreshold(current) \in 0 .. n
    BY <2>1, NextIsCrossed
  <2> QED BY <2>2, <2>3, <2>4 DEF current
<1> QED BY <1>1, TypeCorrect, ObligationsComplete, PTL
=============================================================================
