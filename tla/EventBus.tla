------------------------------ MODULE EventBus ------------------------------
(***************************************************************************)
(* The event bus (src/events.ts) and the journal its events are persisted  *)
(* in (src/app.ts).  publish numbers the events of an aggregate from a     *)
(* counter of the process and hands each to appendDomainEvent without      *)
(* waiting for it.  The journal of the database accepts a number of an     *)
(* aggregate once; an insert it refuses is a rejection nobody handles and  *)
(* stops the process.                                                      *)
(***************************************************************************)
EXTENDS Integers

CONSTANT Aggregates

VARIABLES
  live,         \* the store of this deployment is the in-memory one
  sequence,     \* EventBus.seq: the last number given to an event of each aggregate
  unpersisted,  \* the events whose insert is under way
  journal,      \* the events in the journal
  old           \* the aggregates that had events in the journal when the process started

busVars == <<sequence, unpersisted, journal, old>>

Event == [of : Aggregates, number : Nat \ {0}]

BusTypeOK ==
  /\ sequence \in [Aggregates -> Nat]
  /\ unpersisted \subseteq Event
  /\ journal \subseteq Event
  /\ old \subseteq Aggregates

BadNumbered(a, n) == {[of |-> a, number |-> sequence[a] + i - 1] : i \in 1 .. n}

(* The next n events of an aggregate. *)
Numbered(a, n) == {[of |-> a, number |-> sequence[a] + i] : i \in 1 .. n}

(* n calls of publish with nothing in between; the in-memory journal takes *)
(* the events at once.                                                     *)
Publish(a, n) ==
  /\ sequence' = [sequence EXCEPT ![a] = @ + n]
  /\ unpersisted' = IF live THEN unpersisted ELSE unpersisted \cup Numbered(a, n)
  /\ journal' = IF live THEN journal \cup Numbered(a, n) ELSE journal
  /\ old' = old

(* An insert ends; inserts overtake each other. *)
Persist(e) ==
  /\ e \in unpersisted \ journal
  /\ journal' = journal \cup {e}
  /\ unpersisted' = unpersisted \ {e}
  /\ UNCHANGED <<sequence, old>>

(* The process stops, for whatever reason or because an insert is refused, *)
(* and starts again: the counters and the inserts under way are gone.      *)
Stop ==
  /\ ~live
  /\ sequence' = [a \in Aggregates |-> 0]
  /\ unpersisted' = {}
  /\ old' = {e.of : e \in journal}
  /\ journal' = journal

-----------------------------------------------------------------------------
(* No event of an aggregate is lost or skipped while the process in which  *)
(* the aggregate was created runs (EventBus.publish, onPersist): its       *)
(* events are in the journal or on their way, numbered without a gap.      *)
JournalIsComplete ==
  \A a \in Aggregates \ old :
    /\ {e.number : e \in {e \in journal \cup unpersisted : e.of = a}} = 1 .. sequence[a]
    /\ \A e \in unpersisted : e.of = a => e \notin journal

(* The journal accepts every event (@@unique of DomainEvent): no event on  *)
(* its way has a number that an event of its aggregate already has.        *)
NumberIsFree == \A e \in unpersisted : e \notin journal
=============================================================================
