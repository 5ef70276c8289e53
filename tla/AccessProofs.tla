----------------------------- MODULE AccessProofs -----------------------------
(***************************************************************************)
(* Theorems about accounts, sessions and resets, for every number of       *)
(* handlers, accounts, links and passwords, over either store.             *)
(***************************************************************************)
EXTENDS Access, FiniteSetTheorems, TLAPS

-----------------------------------------------------------------------------
(* Types *)

(* Who is at work is about an account and, from its stage on, a link.      *)
PlacedFor(c) ==
  /\ call[c].pc # "idle" => call[c].on \in Accounts
  /\ call[c].pc \in {"invalidate", "create", "check", "change", "markUsed"} =>
       call[c].link \in Links

Placed == \A c \in Calls : PlacedFor(c)

Typed == TypeOK /\ Placed

LEMMA RecordTypes ==
  /\ NoAccount \in Account /\ NoLink \in Link /\ Idle \in Call
  /\ Idle.pc = "idle" /\ NoLink.of = None /\ ~NoLink.outdated
BY AccessAssumption DEF NoAccount, Account, NoLink, Link, Idle, Call, Stages

LEMMA CopyTypes ==
  ASSUME TypeOK, NEW a \in Accounts
  PROVE  Copy(a) \in Account /\ CopyVersion(a) \in Account
<1>1. Copy(a) \in Account
  BY RecordTypes DEF Copy, TypeOK
<1> QED BY <1>1 DEF CopyVersion, Account

LEMMA SeenTypes ==
  ASSUME Typed, NEW c \in Calls, call[c].pc # "idle"
  PROVE  SeenAccount(c) \in Account
BY DEF Typed, TypeOK, Placed, PlacedFor, SeenAccount, Call

(* A move of one handler leaves the others where they are. *)
LEMMA OneHandler ==
  ASSUME TypeOK, NEW c \in Calls
  PROVE  /\ Return(c) => /\ call' \in [Calls -> Call] /\ call'[c] = Idle
                         /\ \A o \in Calls \ {c} : call'[o] = call[o]
         /\ \A stage \in Stages : Goto(c, stage) =>
              /\ call' \in [Calls -> Call]
              /\ call'[c].pc = stage /\ call'[c].on = call[c].on /\ call'[c].link = call[c].link
              /\ \A o \in Calls \ {c} : call'[o] = call[o]
         /\ \A held \in Call : call' = [call EXCEPT ![c] = held] =>
              /\ call' \in [Calls -> Call] /\ call'[c] = held
              /\ \A o \in Calls \ {c} : call'[o] = call[o]
<1>0. Idle \in Call /\ call[c] \in Call /\ call \in [Calls -> Call] /\ NoAccount \in Account
  BY RecordTypes DEF TypeOK
<1>1. Return(c) => /\ call' \in [Calls -> Call] /\ call'[c] = Idle
                   /\ \A o \in Calls \ {c} : call'[o] = call[o]
  BY <1>0 DEF Return
<1>2. ASSUME NEW stage \in Stages, Goto(c, stage)
      PROVE  /\ call' \in [Calls -> Call]
             /\ call'[c].pc = stage /\ call'[c].on = call[c].on /\ call'[c].link = call[c].link
             /\ \A o \in Calls \ {c} : call'[o] = call[o]
  <2> DEFINE held == [call[c] EXCEPT !.pc = stage, !.password = None, !.seen = NoAccount]
  <2>1. held \in Call /\ held.pc = stage /\ held.on = call[c].on /\ held.link = call[c].link
    BY <1>0 DEF Call
  <2>2. call' = [call EXCEPT ![c] = held]
    BY <1>0, <1>2 DEF Goto, Call
  <2> HIDE DEF held
  <2> QED BY <1>0, <2>1, <2>2
<1>3. ASSUME NEW held \in Call, call' = [call EXCEPT ![c] = held]
      PROVE  /\ call' \in [Calls -> Call] /\ call'[c] = held
             /\ \A o \in Calls \ {c} : call'[o] = call[o]
  BY <1>0, <1>3
<1> QED BY <1>1, <1>2, <1>3

-----------------------------------------------------------------------------
(* What a step does to one handler *)

(* In memory a handler that changed a password ends by withdrawing links.  *)
Ended(c) ==
  live => call[c].pc \notin {"markUsed", "invalidateRest"} \/ link' = Used(call[c].on)

(* It begins, ends, or goes on with the account and the link it has. *)
Moved(c) ==
  LET old == call[c]
      new == call'[c]
  IN \/ new = old
     \/ new.pc = "idle" /\ Ended(c)
     \/ /\ old.pc = "idle" /\ new.on \in Accounts
        /\ new.pc \in {"login", "scope", "invalidate", "check"}
        /\ new.pc \in {"invalidate", "check"} => new.link \in Links
     \/ /\ new.on = old.on
        /\ \/ old.pc = "scope" /\ new.pc = "temporary"
           \/ old.pc = "scope" /\ new.pc = "invalidate" /\ new.link \in Links
           \/ /\ <<old.pc, new.pc>> \in {<<"invalidate", "create">>, <<"check", "change">>,
                                         <<"change", "markUsed">>}
              /\ new.link = old.link
           \/ <<old.pc, new.pc>> \in {<<"markUsed", "invalidateRest">>,
                                      <<"temporary", "invalidateRest">>}

LEMMA NextCalls ==
  ASSUME Typed, [Next]_vars
  PROVE  call' \in [Calls -> Call] /\ \A o \in Calls : Moved(o)
<1> DEFINE Goal == call' \in [Calls -> Call] /\ \A o \in Calls : Moved(o)
<1>0. /\ TypeOK /\ call \in [Calls -> Call] /\ \A c \in Calls : call[c] \in Call
      /\ \A c \in Calls : PlacedFor(c)
  BY DEF Typed, TypeOK, Placed
<1>a. ASSUME NEW c \in Calls, NEW held \in Call, call' = [call EXCEPT ![c] = held], Moved(c)
      PROVE  Goal
  BY <1>0, <1>a DEF Moved
<1>b. ASSUME NEW c \in Calls, Return(c), Ended(c) PROVE Goal
  BY <1>0, <1>b, OneHandler, RecordTypes DEF Moved
<1>c. ASSUME NEW c \in Calls, NEW from \in Stages, NEW stage \in Stages, Goto(c, stage), call[c].pc = from,
             <<from, stage>> \in {<<"invalidate", "create">>, <<"change", "markUsed">>,
                                  <<"markUsed", "invalidateRest">>, <<"temporary", "invalidateRest">>}
      PROVE  Goal
  <2>1. Moved(c)
    BY <1>0, <1>c, OneHandler DEF Moved
  <2> QED BY <1>0, <1>c, <2>1, OneHandler DEF Moved
<1>d. ASSUME NEW c \in Calls, NEW held \in Call, Begin(c, held), held.on \in Accounts,
             held.pc \in {"login", "scope", "invalidate", "check"},
             held.pc \in {"invalidate", "check"} => held.link \in Links
      PROVE  Goal
  <2>1. call' = [call EXCEPT ![c] = held] /\ call[c].pc = "idle"
    BY <1>d, RecordTypes DEF Begin
  <2>2. Moved(c)
    BY <1>0, <1>d, <2>1 DEF Moved
  <2> QED BY <2>1, <2>2, <1>a
<1>e. ASSUME UNCHANGED call PROVE Goal
  BY <1>0, <1>e DEF Moved
<1> HIDE DEF Goal
<1>1. ASSUME NEW c \in Calls, NEW a \in Accounts, NEW p \in Passwords, FetchLogin(c, a, p) PROVE Goal
  <2> DEFINE held == [Idle EXCEPT !.pc = "login", !.on = a, !.password = p, !.seen = Copy(a)]
  <2>0. Copy(a) \in Account
    BY <1>0, CopyTypes
  <2>1. held \in Call /\ held.pc = "login" /\ held.on = a
    BY <2>0, RecordTypes DEF Call, Stages, Idle
  <2>2. Begin(c, held)
    BY <1>1 DEF FetchLogin
  <2> HIDE DEF held
  <2> QED BY <2>1, <2>2, <1>d
<1>2. ASSUME NEW c \in Calls, NEW a \in Accounts, NEW x \in Actors, RhReset(c, x, a) PROVE Goal
  <2> DEFINE held == [Idle EXCEPT !.pc = "scope", !.on = a, !.actor = x, !.seen = CopyVersion(a)]
  <2>0. CopyVersion(a) \in Account
    BY <1>0, CopyTypes
  <2>1. held \in Call /\ held.pc = "scope" /\ held.on = a
    BY <2>0, RecordTypes DEF Call, Stages, Idle
  <2>2. Begin(c, held)
    BY <1>2 DEF RhReset
  <2> HIDE DEF held
  <2> QED BY <2>1, <2>2, <1>d
<1>3. ASSUME NEW c \in Calls, NEW a \in Accounts, NEW l \in Links, ForgotPassword(c, a, l) PROVE Goal
  <2> DEFINE held == [Idle EXCEPT !.pc = "invalidate", !.on = a, !.link = l]
  <2>1. held \in Call /\ held.pc = "invalidate" /\ held.on = a /\ held.link = l
    BY RecordTypes DEF Call, Stages, Idle
  <2>2. Begin(c, held)
    BY <1>3 DEF ForgotPassword
  <2> HIDE DEF held
  <2> QED BY <2>1, <2>2, <1>d
<1>4. ASSUME NEW c \in Calls, NEW l \in Links, NEW p \in Passwords, PresentLink(c, l, p) PROVE Goal
  <2> DEFINE row == IF live THEN NoLink ELSE link[l]
             held == [Idle EXCEPT !.pc = "check", !.on = link[l].of, !.link = l, !.password = p, !.row = row]
  <2>1. link[l].of \in Accounts /\ row \in Link
    BY <1>0, <1>4, RecordTypes DEF PresentLink, TypeOK, Link
  <2>2. held \in Call /\ held.pc = "check" /\ held.on = link[l].of /\ held.link = l
    BY <2>1, RecordTypes DEF Call, Stages, Idle
  <2>3. Begin(c, held)
    BY <1>4 DEF PresentLink
  <2> HIDE DEF held
  <2> QED BY <2>1, <2>2, <2>3, <1>d
<1>5. ASSUME NEW c \in Calls, CheckLink(c) PROVE Goal
  <2>1. CASE Return(c)
    <3>1. Ended(c)
      BY <1>5 DEF CheckLink, At, Ended
    <3> QED BY <2>1, <3>1, <1>b
  <2>2. CASE call' = [call EXCEPT ![c].pc = "change", ![c].row = NoLink, ![c].seen = CopyVersion(call[c].on)]
    <3> DEFINE held == [call[c] EXCEPT !.pc = "change", !.row = NoLink, !.seen = CopyVersion(call[c].on)]
    <3>1. call[c].pc = "check" /\ call[c].on \in Accounts
      BY <1>0, <1>5 DEF CheckLink, At, PlacedFor
    <3>2. CopyVersion(call[c].on) \in Account
      BY <1>0, <3>1, CopyTypes
    <3>3. held \in Call /\ held.pc = "change" /\ held.on = call[c].on /\ held.link = call[c].link
      BY <1>0, <3>2, RecordTypes DEF Call, Stages
    <3>4. call' = [call EXCEPT ![c] = held]
      BY <1>0, <2>2 DEF Call
    <3> HIDE DEF held
    <3>5. Moved(c)
      BY <1>0, <3>1, <3>3, <3>4 DEF Moved
    <3> QED BY <3>3, <3>4, <3>5, <1>a
  <2> QED BY <1>5, <2>1, <2>2 DEF CheckLink
<1>6. ASSUME NEW c \in Calls, RhDecide(c) PROVE Goal
  <2> DEFINE base == [call[c] EXCEPT !.actor = None]
             temporary == [base EXCEPT !.pc = "temporary"]
             mailed(l) == [base EXCEPT !.pc = "invalidate", !.link = l]
  <2>0. call[c].pc = "scope" /\ base \in Call /\ base.on = call[c].on
    BY <1>0, <1>6 DEF RhDecide, At, Call
  <2>1. temporary \in Call /\ temporary.pc = "temporary" /\ temporary.on = call[c].on
    BY <2>0 DEF Call, Stages
  <2>2. \A l \in Links : /\ mailed(l) \in Call /\ mailed(l).pc = "invalidate"
                         /\ mailed(l).on = call[c].on /\ mailed(l).link = l
    BY <2>0 DEF Call, Stages
  <2>3. \/ Return(c) \/ call' = [call EXCEPT ![c] = temporary]
        \/ \E l \in Links : call' = [call EXCEPT ![c] = mailed(l)]
    BY <1>6 DEF RhDecide
  <2> HIDE DEF base, temporary, mailed
  <2>4. CASE call' = [call EXCEPT ![c] = temporary]
    <3>1. Moved(c)
      BY <1>0, <2>0, <2>1, <2>4 DEF Moved
    <3> QED BY <2>1, <2>4, <3>1, <1>a
  <2>5. ASSUME NEW l \in Links, call' = [call EXCEPT ![c] = mailed(l)] PROVE Goal
    <3>1. Moved(c)
      BY <1>0, <2>0, <2>2, <2>5 DEF Moved
    <3> QED BY <2>2, <2>5, <3>1, <1>a
  <2>6. Ended(c)
    BY <2>0 DEF Ended
  <2> QED BY <2>3, <2>4, <2>5, <2>6, <1>b
<1>7. ASSUME NEW c \in Calls,
             \/ InvalidateLinks(c) \/ ChangePassword(c) \/ MarkUsed(c)
             \/ \E p \in Passwords : TemporaryPassword(c, p)
      PROVE  Goal
  BY <1>7, <1>c DEF InvalidateLinks, ChangePassword, MarkUsed, TemporaryPassword, At, Stages
<1>8. ASSUME NEW c \in Calls, Login(c) \/ CreateLink(c) \/ InvalidateRest(c) \/ Fail(c) PROVE Goal
  <2>1. Return(c) /\ Ended(c)
    BY <1>8 DEF Login, CreateLink, InvalidateRest, Fail, At, Ended
  <2> QED BY <2>1, <1>b
<1>9. ASSUME Restart PROVE Goal
  <2>1. call' = [c \in Calls |-> Idle]
    BY <1>9 DEF Restart
  <2>2. call' \in [Calls -> Call] /\ \A c \in Calls : call'[c].pc = "idle" /\ Ended(c)
    BY <1>9, <2>1, RecordTypes DEF Restart, Ended
  <2> QED BY <2>2 DEF Moved, Goal
<1>10. ASSUME NEW c \in Calls, Start(c) \/ Continue(c) PROVE Goal
  BY <1>10, <1>1, <1>2, <1>3, <1>4, <1>5, <1>6, <1>7, <1>8 DEF Start, Continue
<1>11. ASSUME NEW a \in Accounts, ForgotTooOften(a) PROVE Goal
  BY <1>11, <1>e DEF ForgotTooOften
<1>12. ASSUME Tick PROVE Goal
  BY <1>12, <1>e DEF Tick
<1>13. ASSUME UNCHANGED vars PROVE Goal
  BY <1>13, <1>e DEF vars
<1>14. ASSUME NEW c \in Calls, Start(c) \/ Continue(c) \/ Fail(c) PROVE Goal
  BY <1>14, <1>8, <1>10
<1>15. Goal
  BY <1>9, <1>11, <1>12, <1>13, <1>14 DEF Next
<1> QED BY <1>15 DEF Goal

-----------------------------------------------------------------------------
(* What a step does to one account, one link and the sessions *)

(* A handler writes a new password and the version after the one it read,  *)
(* and has the links of the account to withdraw.                           *)
Changes(a) ==
  \E c \in Calls : /\ call[c].pc \in {"change", "temporary"} /\ call[c].on = a
                   /\ account'[a].version = SeenAccount(c).version + 1
                   /\ call'[c].pc \in {"markUsed", "invalidateRest"} /\ call'[c].on = a

LEMMA Setting ==
  ASSUME Typed, NEW c \in Calls, NEW p \in Passwords \cup {None}, NEW stage \in {"markUsed", "invalidateRest"},
         call[c].pc \in {"change", "temporary"}, SetPassword(c, p), Goto(c, stage)
  PROVE  /\ account' \in [Accounts -> Account]
         /\ \A a \in Accounts : account'[a] = account[a] \/ Changes(a)
         /\ link' \in [Links -> Link]
         /\ \A l \in Links : \/ link'[l] = link[l]
                             \/ /\ link'[l].of = link[l].of /\ link'[l].used = link[l].used
                                /\ \E o \in Calls : /\ call'[o].on = link[l].of
                                                    /\ call'[o].pc \in {"markUsed", "invalidateRest"}
<1>0. call[c].on \in Accounts /\ call[c].pc # "idle" /\ stage \in Stages /\ TypeOK
  BY DEF Typed, Placed, PlacedFor, Stages
<1>1. SeenAccount(c) \in Account
  BY <1>0, SeenTypes
<1>2. call'[c].pc = stage /\ call'[c].on = call[c].on
  BY <1>0, OneHandler
<1> DEFINE new == [password |-> p, version |-> NextVersion(c)]
<1>3. new \in Account /\ new.version = SeenAccount(c).version + 1
  BY <1>1 DEF Account, NextVersion
<1>4. account' = [account EXCEPT ![call[c].on] = new]
  BY DEF SetPassword
<1> HIDE DEF new
<1>5. account' \in [Accounts -> Account] /\ \A a \in Accounts : account'[a] = account[a] \/ Changes(a)
  BY <1>0, <1>2, <1>3, <1>4 DEF TypeOK, Changes
<1>6. ASSUME NEW l \in Links
      PROVE  /\ link'[l] \in Link
             /\ \/ link'[l] = link[l]
                \/ /\ link'[l].of = link[l].of /\ link'[l].used = link[l].used
                   /\ \E o \in Calls : /\ call'[o].on = link[l].of
                                       /\ call'[o].pc \in {"markUsed", "invalidateRest"}
  <2>1. link[l] \in Link
    BY <1>0 DEF TypeOK
  <2>2. link'[l] = [link[l] EXCEPT !.outdated = @ \/ link[l].of = call[c].on]
    BY DEF SetPassword
  <2>3. CASE link[l].of = call[c].on
    BY <1>2, <2>1, <2>2, <2>3 DEF Link
  <2>4. CASE link[l].of # call[c].on
    <3>1. link'[l] = link[l]
      BY <2>1, <2>2, <2>4 DEF Link
    <3> QED BY <2>1, <3>1
  <2> QED BY <2>3, <2>4
<1>7. link' \in [Links -> Link]
  BY <1>6 DEF SetPassword
<1> QED BY <1>5, <1>6, <1>7

(* A link is new, used, as it was, or outdated by who will withdraw it.    *)
LinkMoves(l) ==
  \/ link'[l] = link[l]
  \/ link'[l].used
  \/ ~link'[l].outdated
  \/ /\ link'[l].of = link[l].of /\ link'[l].used = link[l].used
     /\ \E o \in Calls : call'[o].on = link[l].of /\ call'[o].pc \in {"markUsed", "invalidateRest"}

LEMMA NextLinks ==
  ASSUME Typed, [Next]_vars
  PROVE  /\ account' \in [Accounts -> Account]
         /\ \A a \in Accounts : account'[a] = account[a] \/ Changes(a)
         /\ link' \in [Links -> Link]
         /\ \A l \in Links : LinkMoves(l)
<1> DEFINE Goal == /\ account' \in [Accounts -> Account]
                   /\ \A a \in Accounts : account'[a] = account[a] \/ Changes(a)
                   /\ link' \in [Links -> Link]
                   /\ \A l \in Links : LinkMoves(l)
<1>0. /\ account \in [Accounts -> Account] /\ link \in [Links -> Link]
      /\ \A c \in Calls : PlacedFor(c) /\ call[c] \in Call
  BY DEF Typed, TypeOK, Placed
<1>a. ASSUME UNCHANGED <<account, link>> PROVE Goal
  BY <1>0, <1>a DEF LinkMoves
<1>b. ASSUME NEW c \in Calls, link' = Used(call[c].on), UNCHANGED account PROVE Goal
  <2>1. ASSUME NEW l \in Links PROVE link'[l] \in Link /\ (link'[l] = link[l] \/ link'[l].used)
    BY <1>0, <1>b DEF Used, Link
  <2>2. link' \in [Links -> Link]
    BY <1>b, <2>1 DEF Used
  <2> QED BY <1>0, <1>b, <2>1, <2>2 DEF LinkMoves
<1>c. ASSUME NEW c \in Calls, NEW p \in Passwords \cup {None}, NEW stage \in {"markUsed", "invalidateRest"},
             call[c].pc \in {"change", "temporary"}, SetPassword(c, p), Goto(c, stage)
      PROVE  Goal
  BY <1>c, Setting DEF LinkMoves
<1> HIDE DEF Goal
<1>1. ASSUME NEW c \in Calls, ChangePassword(c) PROVE Goal
  <2>1. call[c].password \in Passwords \cup {None}
    BY <1>0 DEF Call
  <2> QED BY <1>1, <2>1, <1>c DEF ChangePassword, At
<1>2. ASSUME NEW c \in Calls, NEW p \in Passwords, TemporaryPassword(c, p) PROVE Goal
  BY <1>2, <1>c DEF TemporaryPassword, At
<1>3. ASSUME NEW c \in Calls, InvalidateLinks(c) \/ InvalidateRest(c) PROVE Goal
  BY <1>3, <1>b DEF InvalidateLinks, InvalidateRest
<1>4. ASSUME NEW c \in Calls, CreateLink(c) PROVE Goal
  <2> DEFINE new == [NoLink EXCEPT !.of = call[c].on, !.expires = now + Hour]
  <2>0. call[c].on \in Accounts
    BY <1>0, <1>4 DEF CreateLink, At, PlacedFor
  <2>1. now + Hour \in 0 .. MaxTime + Hour
    BY AccessAssumption DEF Typed, TypeOK, Times
  <2>2. new \in Link /\ ~new.outdated
    BY <2>0, <2>1, RecordTypes DEF Link, NoLink
  <2>3. link' = [link EXCEPT ![call[c].link] = new] /\ UNCHANGED account
    BY <1>4 DEF CreateLink
  <2> HIDE DEF new
  <2> QED BY <1>0, <2>2, <2>3 DEF LinkMoves, Goal
<1>5. ASSUME NEW c \in Calls, MarkUsed(c) PROVE Goal
  <2> DEFINE new == [link[call[c].link] EXCEPT !.used = TRUE]
  <2>0. call[c].link \in Links
    BY <1>0, <1>5 DEF MarkUsed, At, PlacedFor
  <2>1. new \in Link /\ new.used
    BY <1>0, <2>0 DEF Link
  <2>2. link' = [link EXCEPT ![call[c].link] = new] /\ UNCHANGED account
    BY <1>0, <1>5, <2>0 DEF MarkUsed
  <2> HIDE DEF new
  <2> QED BY <1>0, <2>1, <2>2 DEF LinkMoves, Goal
<1>6. ASSUME NEW c \in Calls, Start(c) \/ Login(c) \/ CheckLink(c) \/ RhDecide(c) \/ Fail(c) PROVE Goal
  BY <1>6, <1>a DEF Start, FetchLogin, RhReset, ForgotPassword, PresentLink, Login, CheckLink, RhDecide, Fail
<1>7. ASSUME (\E a \in Accounts : ForgotTooOften(a)) \/ Restart \/ Tick \/ UNCHANGED vars PROVE Goal
  BY <1>7, <1>a DEF ForgotTooOften, Restart, Tick, vars
<1>8. ASSUME NEW c \in Calls, Continue(c) PROVE Goal
  BY <1>8, <1>1, <1>2, <1>3, <1>4, <1>5, <1>6 DEF Continue
<1>9. Goal
  BY <1>6, <1>7, <1>8 DEF Next
<1> QED BY <1>9 DEF Goal

(* A session is handed out with the version of the account it logged into. *)
LEMMA NextSessions ==
  ASSUME Typed, [Next]_vars
  PROVE  /\ session' \subseteq Session
         /\ \A s \in session' : \/ s \in session
                               \/ \E c \in Calls : /\ call[c].pc = "login" /\ s.of = call[c].on
                                                   /\ s.version = SeenAccount(c).version
<1> DEFINE Goal == /\ session' \subseteq Session
                   /\ \A s \in session' : \/ s \in session
                                         \/ \E c \in Calls : /\ call[c].pc = "login" /\ s.of = call[c].on
                                                             /\ s.version = SeenAccount(c).version
<1>1. ASSUME NEW c \in Calls, Login(c) PROVE Goal
  <2> DEFINE acc == SeenAccount(c)
             new == [of |-> call[c].on, version |-> acc.version, password |-> acc.password]
  <2>1. call[c].on \in Accounts /\ acc \in Account
    BY <1>1, SeenTypes DEF Login, At, Typed, Placed, PlacedFor
  <2>2. new \in Session /\ new.of = call[c].on /\ new.version = SeenAccount(c).version
    BY <2>1 DEF Session, Account
  <2>3. session' \subseteq session \cup {new} /\ session \subseteq Session /\ call[c].pc = "login"
    BY <1>1 DEF Login, At, Typed, TypeOK
  <2> HIDE DEF new
  <2> QED BY <2>2, <2>3
<1>2. ASSUME UNCHANGED session PROVE Goal
  BY <1>2 DEF Typed, TypeOK
<1> HIDE DEF Goal
<1>3. ASSUME NEW c \in Calls, Start(c) PROVE Goal
  BY <1>3, <1>2 DEF Start, FetchLogin, RhReset, ForgotPassword, PresentLink
<1>4. ASSUME NEW c \in Calls, Continue(c) PROVE Goal
  BY <1>4, <1>1, <1>2
     DEF Continue, InvalidateLinks, CreateLink, CheckLink, ChangePassword, MarkUsed, InvalidateRest,
         RhDecide, TemporaryPassword, SetPassword
<1>5. ASSUME NEW c \in Calls, Fail(c) PROVE Goal
  BY <1>5, <1>2 DEF Fail
<1>6. ASSUME (\E a \in Accounts : ForgotTooOften(a)) \/ Restart \/ Tick \/ UNCHANGED vars PROVE Goal
  BY <1>6, <1>2 DEF ForgotTooOften, Restart, Tick, vars
<1>7. Goal
  BY <1>3, <1>4, <1>5, <1>6 DEF Next
<1> QED BY <1>7 DEF Goal

(* The store stays, the clock goes on, and the limiter counts. *)
LEMMA NextBuckets ==
  ASSUME Typed, [Next]_vars
  PROVE  /\ live' = live /\ now' \in Times
         /\ bucket' \in [Accounts -> [count : Nat, resetAt : 0 .. MaxTime + Hour]]
         /\ asked' \in [Accounts -> Seq(Times)]
<1> DEFINE Goal == /\ live' = live /\ now' \in Times
                   /\ bucket' \in [Accounts -> [count : Nat, resetAt : 0 .. MaxTime + Hour]]
                   /\ asked' \in [Accounts -> Seq(Times)]
<1>0. /\ now \in Times /\ MaxTime \in Nat /\ Hour \in Nat
      /\ bucket \in [Accounts -> [count : Nat, resetAt : 0 .. MaxTime + Hour]]
      /\ asked \in [Accounts -> Seq(Times)]
  BY AccessAssumption DEF Typed, TypeOK
<1>a. ASSUME UNCHANGED <<live, now, bucket, asked>> PROVE Goal
  BY <1>0, <1>a
<1>b. ASSUME NEW a \in Accounts PROVE Hit(a) \in [count : Nat, resetAt : 0 .. MaxTime + Hour]
  BY <1>0 DEF Hit, Times
<1>1. ASSUME NEW c \in Calls, NEW a \in Accounts, NEW l \in Links, ForgotPassword(c, a, l) PROVE Goal
  <2>1. Append(asked[a], now) \in Seq(Times)
    BY <1>0
  <2>2. asked' = [asked EXCEPT ![a] = Append(asked[a], now)] /\ bucket' = [bucket EXCEPT ![a] = Hit(a)]
    BY <1>0, <1>1 DEF ForgotPassword
  <2>3. UNCHANGED <<live, now>>
    BY <1>1 DEF ForgotPassword
  <2> QED BY <1>0, <1>b, <2>1, <2>2, <2>3
<1>2. ASSUME NEW a \in Accounts, ForgotTooOften(a) PROVE Goal
  BY <1>0, <1>b, <1>2 DEF ForgotTooOften
<1>3. ASSUME Restart PROVE Goal
  BY <1>0, <1>3 DEF Restart
<1>4. ASSUME Tick PROVE Goal
  BY <1>0, <1>4 DEF Tick, Times
<1> HIDE DEF Goal
<1>5. ASSUME NEW c \in Calls, Start(c) PROVE Goal
  BY <1>5, <1>1, <1>a DEF Start, FetchLogin, RhReset, PresentLink
<1>6. ASSUME NEW c \in Calls, Continue(c) PROVE Goal
  BY <1>6, <1>a
     DEF Continue, Login, InvalidateLinks, CreateLink, CheckLink, ChangePassword, MarkUsed, InvalidateRest,
         RhDecide, TemporaryPassword, SetPassword, At
<1>7. ASSUME NEW c \in Calls, Fail(c) PROVE Goal
  BY <1>7, <1>a DEF Fail
<1>8. ASSUME UNCHANGED vars PROVE Goal
  BY <1>8, <1>a DEF vars
<1>9. Goal
  BY <1>2, <1>3, <1>4, <1>5, <1>6, <1>7, <1>8 DEF Next
<1> QED BY <1>9 DEF Goal

-----------------------------------------------------------------------------
(* Theorems *)

LEMMA InitTyped == Init => Typed
<1> SUFFICES ASSUME Init PROVE Typed
  OBVIOUS
<1>1. TypeOK
  BY RecordTypes, AccessAssumption DEF Init, TypeOK, Times, Account, Session
<1>2. Placed
  BY RecordTypes DEF Init, Placed, PlacedFor
<1> QED BY <1>1, <1>2 DEF Typed

LEMMA StepTyped == Typed /\ [Next]_vars => Typed'
<1> SUFFICES ASSUME Typed, [Next]_vars PROVE Typed'
  OBVIOUS
<1>1. call' \in [Calls -> Call] /\ \A c \in Calls : Moved(c)
  BY NextCalls
<1>2. TypeOK'
  BY <1>1, NextLinks, NextSessions, NextBuckets DEF Typed, TypeOK
<1>3. ASSUME NEW c \in Calls PROVE PlacedFor(c)'
  <2>1. Moved(c) /\ PlacedFor(c)
    BY <1>1 DEF Typed, Placed
  <2> QED BY <2>1 DEF Moved, PlacedFor
<1> QED BY <1>2, <1>3 DEF Typed, Placed

(* Type correctness: what a handler is about stays an account, and where   *)
(* its stage needs one a link (AuthService, PasswordResetService).         *)
THEOREM TypeCorrect == Spec => []Typed
BY InitTyped, StepTyped, PTL DEF Spec

(* Over the in-memory store no session is ahead of its account.            *)
Versions == live => \A s \in session : s.version <= account[s.of].version

(* In memory the next version is computed from the current one.            *)
LEMMA VersionGrows ==
  ASSUME Typed, [Next]_vars, live, NEW a \in Accounts
  PROVE  \/ account'[a] = account[a]
         \/ account'[a].version = account[a].version + 1
<1>1. account'[a] = account[a] \/ Changes(a)
  BY NextLinks
<1> QED BY <1>1 DEF Changes, SeenAccount

LEMMA StepVersions == Typed /\ Versions /\ [Next]_vars => Versions'
<1> SUFFICES ASSUME Typed, Versions, [Next]_vars, live', NEW s \in session'
             PROVE  s.version <= account'[s.of].version
  BY DEF Versions
<1>1. live /\ account \in [Accounts -> Account] /\ s \in Session
  BY NextBuckets, NextSessions DEF Typed, TypeOK
<1>2. s.of \in Accounts /\ s.version \in Nat /\ account[s.of] \in Account
  BY <1>1 DEF Session
<1>3. s.version <= account[s.of].version
  <2>1. CASE s \in session
    BY <1>1, <2>1 DEF Versions
  <2>2. ASSUME NEW c \in Calls, call[c].pc = "login", s.of = call[c].on, s.version = SeenAccount(c).version
        PROVE  s.version <= account[s.of].version
    BY <1>1, <1>2, <2>2 DEF SeenAccount
  <2> QED BY <2>1, <2>2, NextSessions
<1>4. account[s.of].version \in Nat
  BY <1>2 DEF Account
<1> QED BY <1>1, <1>2, <1>3, <1>4, VersionGrows

(* Over the in-memory store a change of password logs every session of the *)
(* account out (completeReset, rhReset, preHandler).                       *)
THEOREM ChangesRevoke == Spec => SessionsRevoked
<1>1. Init => Versions
  BY DEF Init, Versions
<1>2. Spec => []Versions
  BY <1>1, TypeCorrect, StepVersions, PTL DEF Spec
<1>3. ASSUME Typed, Versions, [Next]_vars, live, NEW a \in Accounts, account'[a] # account[a],
             NEW s \in session, s.of = a
      PROVE  ~Accepted(s)'
  <2>1. account[a] \in Account /\ s \in Session /\ s.version <= account[a].version
    BY <1>3 DEF Typed, TypeOK, Versions
  <2>2. account'[a].version = account[a].version + 1
    BY <1>3, VersionGrows
  <2>3. s.version # account'[a].version
    BY <2>1, <2>2 DEF Account, Session
  <2> QED BY <1>3, <2>3 DEF Accepted
<1>4. Typed /\ Versions /\ [Next]_vars =>
        [live => \A a \in Accounts : account'[a] # account[a] =>
           \A s \in session : s.of = a => ~Accepted(s)']_vars
  BY <1>3
<1> QED BY <1>2, <1>4, TypeCorrect, PTL DEF Spec, SessionsRevoked

LEMMA StepLinks == Typed /\ LinksDieWithReset /\ [Next]_vars => LinksDieWithReset'
<1> DEFINE Ends == {"markUsed", "invalidateRest"}
<1> SUFFICES ASSUME Typed, LinksDieWithReset, [Next]_vars, live', NEW l \in Links,
                    link'[l].outdated, ~link'[l].used
             PROVE  \E c \in Calls : call'[c].on = link'[l].of /\ call'[c].pc \in Ends
  BY DEF LinksDieWithReset
<1>1. live /\ LinkMoves(l) /\ \A c \in Calls : Moved(c)
  BY NextBuckets, NextLinks, NextCalls
<1>2. CASE link'[l] = link[l]
  <2>1. PICK c \in Calls : call[c].on = link[l].of /\ call[c].pc \in Ends
    BY <1>1, <1>2 DEF LinksDieWithReset
  <2>2. CASE link' = Used(call[c].on)
    <3>1. link[l] \in Link
      BY DEF Typed, TypeOK
    <3>2. link'[l].used
      BY <2>1, <2>2, <3>1 DEF Used, Link
    <3> QED BY <3>2
  <2>3. CASE link' # Used(call[c].on)
    <3>1. call'[c].on = call[c].on /\ call'[c].pc \in Ends
      BY <1>1, <2>1, <2>3 DEF Moved, Ended
    <3> QED BY <1>2, <2>1, <3>1
  <2> QED BY <2>2, <2>3
<1>3. CASE link'[l] # link[l]
  BY <1>1, <1>3 DEF LinkMoves
<1> QED BY <1>2, <1>3

(* Over the in-memory store no link created before a change of password    *)
(* can be used once the handler that made it is through                    *)
(* (invalidateAccountResetTokens).                                         *)
THEOREM LinksDie == Spec => []LinksDieWithReset
<1>1. Init => LinksDieWithReset
  BY RecordTypes DEF Init, LinksDieWithReset
<1> QED BY <1>1, TypeCorrect, StepLinks, PTL DEF Spec

-----------------------------------------------------------------------------
(* The limiter *)

(* What a step does to the limiter of one account.                         *)
LimiterMoves(a) ==
  \/ bucket'[a] = bucket[a] /\ asked'[a] = asked[a] /\ now' >= now
  \/ bucket'[a] = Hit(a) /\ asked'[a] = asked[a] /\ now' = now /\ ~Allowed(Hit(a))
  \/ bucket'[a] = Hit(a) /\ asked'[a] = Append(asked[a], now) /\ now' = now /\ Allowed(Hit(a))
  \/ bucket'[a].resetAt = 0 /\ asked'[a] = <<>>

LEMMA LimiterTypes ==
  ASSUME Typed, NEW a \in Accounts
  PROVE  /\ now \in Nat /\ asked[a] \in Seq(Nat) /\ MaxTime + Hour \in Nat
         /\ bucket[a] \in [count : Nat, resetAt : 0 .. MaxTime + Hour]
<1>1. MaxTime \in Nat /\ Hour \in Nat /\ Times \subseteq Nat
  BY AccessAssumption DEF Times
<1>2. now \in Times /\ asked[a] \in Seq(Times)
      /\ bucket[a] \in [count : Nat, resetAt : 0 .. MaxTime + Hour]
  BY DEF Typed, TypeOK
<1>3. asked[a] \in Seq(Nat)
  <2>1. /\ asked[a] = [i \in 1 .. Len(asked[a]) |-> asked[a][i]] /\ Len(asked[a]) \in Nat
        /\ \A i \in 1 .. Len(asked[a]) : asked[a][i] \in Times
    BY <1>2
  <2>2. \A i \in 1 .. Len(asked[a]) : asked[a][i] \in Nat
    BY <1>1, <2>1
  <2> QED BY <2>1, <2>2
<1> QED BY <1>1, <1>2, <1>3

LEMMA NextLimiter ==
  ASSUME Typed, [Next]_vars, NEW a \in Accounts
  PROVE  LimiterMoves(a)
<1>0. /\ now \in Nat
      /\ bucket \in [Accounts -> [count : Nat, resetAt : 0 .. MaxTime + Hour]]
      /\ asked \in [Accounts -> Seq(Times)]
  BY AccessAssumption DEF Typed, TypeOK, Times
<1>a. ASSUME UNCHANGED <<now, bucket, asked>> PROVE LimiterMoves(a)
  BY <1>0, <1>a DEF LimiterMoves
<1>1. ASSUME NEW c \in Calls, NEW b \in Accounts, NEW l \in Links, ForgotPassword(c, b, l)
      PROVE  LimiterMoves(a)
  BY <1>0, <1>1 DEF ForgotPassword, LimiterMoves
<1>2. ASSUME NEW b \in Accounts, ForgotTooOften(b) PROVE LimiterMoves(a)
  BY <1>0, <1>2 DEF ForgotTooOften, LimiterMoves
<1>3. ASSUME Restart PROVE LimiterMoves(a)
  BY <1>0, <1>3 DEF Restart, LimiterMoves
<1>4. ASSUME Tick PROVE LimiterMoves(a)
  BY <1>0, <1>4 DEF Tick, LimiterMoves
<1>5. ASSUME NEW c \in Calls, Start(c) PROVE LimiterMoves(a)
  BY <1>5, <1>1, <1>a DEF Start, FetchLogin, RhReset, PresentLink
<1>6. ASSUME NEW c \in Calls, Continue(c) PROVE LimiterMoves(a)
  BY <1>6, <1>a
     DEF Continue, Login, InvalidateLinks, CreateLink, CheckLink, ChangePassword, MarkUsed, InvalidateRest,
         RhDecide, TemporaryPassword, SetPassword, At
<1>7. ASSUME NEW c \in Calls, Fail(c) PROVE LimiterMoves(a)
  BY <1>7, <1>a DEF Fail
<1>8. ASSUME UNCHANGED vars PROVE LimiterMoves(a)
  BY <1>8, <1>a DEF vars
<1> QED BY <1>2, <1>3, <1>4, <1>5, <1>6, <1>7, <1>8 DEF Next

(* The requests are in order; those since the b-th are in the window that  *)
(* is open and at most the limit, and those more than a window's worth     *)
(* before it are an hour older than it.                                    *)
Windows(s, b, window, time) ==
  /\ \A i, j \in 1 .. Len(s) : i <= j => s[i] <= s[j] /\ s[j] <= time
  /\ Len(s) = 0 => window.resetAt <= time
  /\ Len(s) # 0 => /\ b \in 1 .. Len(s)
                   /\ window.resetAt = s[b] + Hour
                   /\ Len(s) - b < window.count /\ Len(s) - b < Limit
                   /\ \A i \in 1 .. Len(s) : i <= b - Limit => s[i] + Hour <= s[b]

(* Twice the limit of requests, the last of them included, take an hour.   *)
Spread(s) ==
  \A i, j \in 1 .. Len(s) : i + 2 * Limit - 1 <= j => s[i] + Hour <= s[j]

Limited(a) == (\E b \in Nat : Windows(asked[a], b, bucket[a], now)) /\ Spread(asked[a])

AllLimited == \A a \in Accounts : Limited(a)

LEMMA OneLonger ==
  ASSUME NEW s \in Seq(Nat), NEW x \in Nat
  PROVE  /\ Append(s, x) \in Seq(Nat) /\ Len(s) \in Nat
         /\ Len(Append(s, x)) = Len(s) + 1 /\ Append(s, x)[Len(s) + 1] = x
         /\ \A i \in 1 .. Len(s) : s[i] \in Nat /\ Append(s, x)[i] = s[i]
OBVIOUS

(* One more request is the first of a new window, ...                      *)
LEMMA NewWindow ==
  ASSUME NEW s \in Seq(Nat), NEW b \in Nat, NEW window, NEW time \in Nat,
         window.resetAt \in Nat, Windows(s, b, window, time), Spread(s),
         window.resetAt <= time
  PROVE  LET new == Append(s, time) IN
         /\ Windows(new, Len(new), [count |-> 1, resetAt |-> time + Hour], time)
         /\ Spread(new)
<1> DEFINE new == Append(s, time)
           n == Len(s)
<1>0. Hour \in Nat \ {0} /\ Limit \in Nat \ {0}
  BY AccessAssumption
<1>1. /\ n \in Nat /\ Len(new) = n + 1 /\ new[n + 1] = time
      /\ \A i \in 1 .. n : s[i] \in Nat /\ new[i] = s[i]
  BY OneLonger
<1>2. /\ \A i, j \in 1 .. n : i <= j => s[i] <= s[j] /\ s[j] <= time
      /\ n # 0 => /\ b \in 1 .. n
                  /\ window.resetAt = s[b] + Hour
                  /\ n - b < Limit
      /\ \A i, j \in 1 .. n : i + 2 * Limit - 1 <= j => s[i] + Hour <= s[j]
  BY DEF Windows, Spread
<1> HIDE DEF new, n
<1>3. \A i, j \in 1 .. n + 1 : i <= j => new[i] <= new[j] /\ new[j] <= time
  <2> SUFFICES ASSUME NEW i \in 1 .. n + 1, NEW j \in 1 .. n + 1, i <= j
               PROVE  new[i] <= new[j] /\ new[j] <= time
    OBVIOUS
  <2>1. CASE j \in 1 .. n
    <3>1. i \in 1 .. n
      BY <1>1, <2>1
    <3> QED BY <1>1, <1>2, <2>1, <3>1
  <2>2. CASE j = n + 1
    <3>1. CASE i \in 1 .. n
      <4>1. i <= i /\ s[i] <= time
        BY <1>1, <1>2, <3>1
      <4> QED BY <1>1, <2>2, <3>1, <4>1
    <3>2. CASE i = n + 1
      BY <1>1, <2>2, <3>2
    <3> QED BY <1>1, <3>1, <3>2
  <2> QED BY <1>1, <2>1, <2>2
<1>4. ASSUME NEW i \in 1 .. n + 1, i <= n + 1 - Limit
      PROVE  new[i] + Hour <= time
  <2>1. i \in 1 .. n /\ n # 0
    BY <1>0, <1>1, <1>4
  <2>2. i <= b /\ s[i] <= s[b] /\ b \in 1 .. n
    BY <1>0, <1>1, <1>2, <1>4, <2>1
  <2> QED BY <1>0, <1>1, <1>2, <2>1, <2>2
<1>5. Windows(new, n + 1, [count |-> 1, resetAt |-> time + Hour], time)
  BY <1>0, <1>1, <1>3, <1>4 DEF Windows
<1>6. \A i, j \in 1 .. n + 1 : i + 2 * Limit - 1 <= j => new[i] + Hour <= new[j]
  <2> SUFFICES ASSUME NEW i \in 1 .. n + 1, NEW j \in 1 .. n + 1, i + 2 * Limit - 1 <= j
               PROVE  new[i] + Hour <= new[j]
    OBVIOUS
  <2>1. CASE j = n + 1
    BY <1>0, <1>1, <1>4, <2>1
  <2>2. CASE j # n + 1
    <3>1. i \in 1 .. n /\ j \in 1 .. n
      BY <1>0, <1>1, <2>2
    <3> QED BY <1>1, <1>2, <3>1
  <2> QED BY <2>1, <2>2
<1>7. Spread(new)
  BY <1>1, <1>6 DEF Spread
<1> QED BY <1>1, <1>5, <1>7 DEF new

(* ... or is in the one that is open, if it is not yet full.               *)
LEMMA SameWindow ==
  ASSUME NEW s \in Seq(Nat), NEW b \in Nat, NEW window, NEW count \in Nat, NEW reset \in Nat, NEW time \in Nat,
         window.count = count, window.resetAt = reset, Windows(s, b, window, time), Spread(s),
         time < reset, count + 1 <= Limit
  PROVE  LET new == Append(s, time) IN
         /\ Windows(new, b, [count |-> count + 1, resetAt |-> reset], time)
         /\ Spread(new)
<1> DEFINE new == Append(s, time)
           n == Len(s)
<1>0. Hour \in Nat \ {0} /\ Limit \in Nat \ {0}
  BY AccessAssumption
<1>1. /\ n \in Nat /\ Len(new) = n + 1 /\ new[n + 1] = time
      /\ \A i \in 1 .. n : s[i] \in Nat /\ new[i] = s[i]
  BY OneLonger
<1>2. n # 0
  BY DEF Windows
<1>3. /\ \A i, j \in 1 .. n : i <= j => s[i] <= s[j] /\ s[j] <= time
      /\ b \in 1 .. n
      /\ reset = s[b] + Hour
      /\ n - b < count
      /\ \A i \in 1 .. n : i <= b - Limit => s[i] + Hour <= s[b]
      /\ \A i, j \in 1 .. n : i + 2 * Limit - 1 <= j => s[i] + Hour <= s[j]
  BY <1>2 DEF Windows, Spread
<1> HIDE DEF new, n
<1>4. \A i, j \in 1 .. n + 1 : i <= j => new[i] <= new[j] /\ new[j] <= time
  <2> SUFFICES ASSUME NEW i \in 1 .. n + 1, NEW j \in 1 .. n + 1, i <= j
               PROVE  new[i] <= new[j] /\ new[j] <= time
    OBVIOUS
  <2>1. CASE j \in 1 .. n
    <3>1. i \in 1 .. n
      BY <1>1, <2>1
    <3> QED BY <1>1, <1>3, <2>1, <3>1
  <2>2. CASE j = n + 1
    <3>1. CASE i \in 1 .. n
      <4>1. i <= i /\ s[i] <= time
        BY <1>1, <1>3, <3>1
      <4> QED BY <1>1, <2>2, <3>1, <4>1
    <3>2. CASE i = n + 1
      BY <1>1, <2>2, <3>2
    <3> QED BY <1>1, <3>1, <3>2
  <2> QED BY <1>1, <2>1, <2>2
<1>5. b \in 1 .. n + 1 /\ n + 1 - b < count + 1 /\ n + 1 - b < Limit
  BY <1>0, <1>1, <1>3
<1>6. ASSUME NEW i \in 1 .. n + 1, i <= b - Limit
      PROVE  new[i] + Hour <= new[b]
  <2>1. i \in 1 .. n
    BY <1>0, <1>1, <1>3, <1>6
  <2> QED BY <1>1, <1>3, <1>6, <2>1
<1>7. Windows(new, b, [count |-> count + 1, resetAt |-> reset], time)
  BY <1>0, <1>1, <1>3, <1>4, <1>5, <1>6 DEF Windows
<1>8. ASSUME NEW i \in 1 .. n + 1, NEW j \in 1 .. n + 1, i + 2 * Limit - 1 <= j
      PROVE  new[i] + Hour <= new[j]
  <2>1. CASE j = n + 1
    <3>1. i <= b - Limit
      BY <1>0, <1>1, <1>3, <1>5, <1>8, <2>1
    <3>2. new[i] + Hour <= new[b] /\ new[b] \in Nat /\ new[b] <= new[j]
      BY <1>1, <1>3, <1>4, <1>6, <2>1, <3>1
    <3>3. new[i] \in Nat /\ new[j] \in Nat
      BY <1>1
    <3> QED BY <1>0, <3>2, <3>3
  <2>2. CASE j # n + 1
    <3>1. i \in 1 .. n /\ j \in 1 .. n
      BY <1>0, <1>1, <1>8, <2>2
    <3> QED BY <1>1, <1>3, <1>8, <3>1
  <2> QED BY <2>1, <2>2
<1>9. Spread(new)
  BY <1>1, <1>8 DEF Spread
<1> QED BY <1>1, <1>7, <1>9 DEF new

LEMMA HitInWindow ==
  ASSUME Typed, NEW a \in Accounts, now < bucket[a].resetAt
  PROVE  Hit(a) = [count |-> bucket[a].count + 1, resetAt |-> bucket[a].resetAt]
<1>1. bucket[a] \in [count : Nat, resetAt : 0 .. MaxTime + Hour] /\ now \in Nat /\ MaxTime + Hour \in Nat
  BY LimiterTypes
<1>2. ~(now >= bucket[a].resetAt)
  BY <1>1
<1>3. Hit(a) = [bucket[a] EXCEPT !.count = bucket[a].count + 1]
  BY <1>2 DEF Hit
<1> QED BY <1>1, <1>3

(* Time goes on, or a request beyond the limit is counted. *)
LEMMA SameRequests ==
  ASSUME NEW s \in Seq(Nat), NEW b \in Nat, NEW old, NEW new, NEW time \in Nat, NEW later \in Nat,
         Windows(s, b, old, time), time <= later, old.resetAt \in Nat, old.count \in Nat,
         new.resetAt = old.resetAt, new.count \in {old.count, old.count + 1}
  PROVE  Windows(s, b, new, later)
<1>1. Len(s) \in Nat /\ \A i \in 1 .. Len(s) : s[i] \in Nat
  OBVIOUS
<1>2. \A i, j \in 1 .. Len(s) : i <= j => s[i] <= s[j] /\ s[j] <= later
  BY <1>1 DEF Windows
<1>3. Len(s) = 0 => new.resetAt <= later
  BY DEF Windows
<1>4. Len(s) # 0 => /\ b \in 1 .. Len(s)
                    /\ new.resetAt = s[b] + Hour
                    /\ Len(s) - b < new.count /\ Len(s) - b < Limit
                    /\ \A i \in 1 .. Len(s) : i <= b - Limit => s[i] + Hour <= s[b]
  BY <1>1 DEF Windows
<1> QED BY <1>2, <1>3, <1>4 DEF Windows

LEMMA OneMore ==
  ASSUME Typed, NEW a \in Accounts, Limited(a), Allowed(Hit(a)),
         bucket'[a] = Hit(a), asked'[a] = Append(asked[a], now), now' = now
  PROVE  Limited(a)'
<1>0. /\ now \in Nat /\ asked[a] \in Seq(Nat) /\ MaxTime + Hour \in Nat
      /\ bucket[a] \in [count : Nat, resetAt : 0 .. MaxTime + Hour]
  BY LimiterTypes
<1>1. PICK b \in Nat : Windows(asked[a], b, bucket[a], now)
  BY DEF Limited
<1>2. Spread(asked[a])
  BY DEF Limited
<1>3. bucket[a].count \in Nat /\ bucket[a].resetAt \in Nat
  BY <1>0
<1>4. CASE now >= bucket[a].resetAt
  <2>1. Hit(a) = [count |-> 1, resetAt |-> now + Hour] /\ bucket[a].resetAt <= now
    BY <1>0, <1>3, <1>4 DEF Hit
  <2>2. Len(asked'[a]) \in Nat
    BY <1>0, OneLonger
  <2>3. Windows(asked'[a], Len(asked'[a]), bucket'[a], now') /\ Spread(asked'[a])
    BY <1>0, <1>1, <1>2, <1>3, <2>1, NewWindow
  <2> QED BY <2>2, <2>3 DEF Limited
<1>5. CASE now < bucket[a].resetAt
  <2>1. Hit(a) = [count |-> bucket[a].count + 1, resetAt |-> bucket[a].resetAt]
    BY <1>0, <1>5, HitInWindow
  <2>2. bucket[a].count + 1 <= Limit
    BY <2>1 DEF Allowed
  <2>3. Windows(asked'[a], b, bucket'[a], now') /\ Spread(asked'[a])
    BY <1>0, <1>1, <1>2, <1>3, <1>5, <2>1, <2>2, SameWindow
  <2> QED BY <2>3 DEF Limited
<1> QED BY <1>0, <1>3, <1>4, <1>5

LEMMA StepLimited == Typed /\ AllLimited /\ [Next]_vars => AllLimited'
<1> SUFFICES ASSUME Typed, AllLimited, [Next]_vars, NEW a \in Accounts PROVE Limited(a)'
  BY DEF AllLimited
<1>0. /\ now \in Nat /\ asked[a] \in Seq(Nat) /\ MaxTime + Hour \in Nat
      /\ bucket[a] \in [count : Nat, resetAt : 0 .. MaxTime + Hour]
  BY LimiterTypes
<1>1. /\ bucket[a].count \in Nat /\ bucket[a].resetAt \in Nat /\ Hour \in Nat /\ now' \in Nat /\ Limit \in Nat \ {0}
  BY <1>0, NextBuckets, AccessAssumption DEF Times
<1>2. Limited(a) /\ Spread(asked[a])
  BY DEF AllLimited, Limited
<1>3. PICK b \in Nat : Windows(asked[a], b, bucket[a], now)
  BY <1>2 DEF Limited
<1>l. Len(asked[a]) \in Nat /\ \A i \in 1 .. Len(asked[a]) : asked[a][i] \in Nat
  BY <1>0
<1>4. CASE bucket'[a] = bucket[a] /\ asked'[a] = asked[a] /\ now' >= now
  <2>1. Windows(asked[a], b, bucket[a], now')
    BY <1>0, <1>1, <1>3, <1>4, SameRequests
  <2> QED BY <1>2, <1>4, <2>1 DEF Limited
<1>5. CASE bucket'[a] = Hit(a) /\ asked'[a] = asked[a] /\ now' = now /\ ~Allowed(Hit(a))
  <2>0. now < bucket[a].resetAt
    BY <1>0, <1>1, <1>5 DEF Hit, Allowed
  <2>1. Hit(a) = [count |-> bucket[a].count + 1, resetAt |-> bucket[a].resetAt]
    BY <2>0, HitInWindow
  <2>2. Windows(asked[a], b, Hit(a), now)
    <3>1. Hit(a).count = bucket[a].count + 1 /\ Hit(a).resetAt = bucket[a].resetAt
      BY <2>1
    <3>2. now <= now /\ Hit(a).count \in {bucket[a].count, bucket[a].count + 1}
      BY <1>0, <3>1
    <3> QED BY <1>0, <1>1, <1>3, <3>1, <3>2, SameRequests
  <2> QED BY <1>2, <1>5, <2>2 DEF Limited
<1>6. CASE bucket'[a] = Hit(a) /\ asked'[a] = Append(asked[a], now) /\ now' = now /\ Allowed(Hit(a))
  BY <1>2, <1>6, OneMore
<1>7. CASE bucket'[a].resetAt = 0 /\ asked'[a] = <<>>
  <2>1. Len(<<>>) = 0
    OBVIOUS
  <2>2. Windows(asked'[a], 0, bucket'[a], now') /\ Spread(asked'[a])
    BY <1>1, <1>7, <2>1 DEF Windows, Spread
  <2> QED BY <2>2 DEF Limited
<1> QED BY <1>4, <1>5, <1>6, <1>7, NextLimiter DEF LimiterMoves

(* A set of naturals that is not empty has a least element.                *)
LEMMA LeastOf ==
  ASSUME NEW S \in SUBSET Nat, S # {}
  PROVE  \E m \in S : \A i \in S : m <= i
<1> DEFINE R == OpToRel(<, Nat)
<1>1. IsWellFoundedOn(R, Nat)
  BY NatLessThanWellFounded
<1>2. \A i, j \in Nat : i < j => <<i, j>> \in R
  BY DEF OpToRel
<1> HIDE DEF R
<1>3. PICK m \in S : \A i \in S : ~(<<i, m>> \in R)
  BY <1>1, WFMin
<1>4. \A i \in S : ~(i < m) /\ i \in Nat /\ m \in Nat
  BY <1>2, <1>3
<1> QED BY <1>4

(* As many requests as fit before twice the limit: a set of instants an    *)
(* hour wide holds less than that.                                         *)
LEMMA FewInAnHour ==
  ASSUME NEW s \in Seq(Nat), Spread(s), NEW t \in Nat
  PROVE  Cardinality({i \in DOMAIN s : s[i] \in t .. t + Hour - 1}) < 2 * Limit
<1> DEFINE I == {i \in DOMAIN s : s[i] \in t .. t + Hour - 1}
<1>0. Hour \in Nat \ {0} /\ Limit \in Nat \ {0} /\ Len(s) \in Nat /\ DOMAIN s = 1 .. Len(s)
  BY AccessAssumption
<1>1. \A i, j \in I : j <= i + 2 * Limit - 2
  <2> SUFFICES ASSUME NEW i \in I, NEW j \in I, ~(j <= i + 2 * Limit - 2) PROVE FALSE
    OBVIOUS
  <2>1. i \in 1 .. Len(s) /\ j \in 1 .. Len(s) /\ i + 2 * Limit - 1 <= j
    BY <1>0
  <2>2. s[i] + Hour <= s[j]
    BY <2>1 DEF Spread
  <2>3. s[i] \in t .. t + Hour - 1 /\ s[j] \in t .. t + Hour - 1
    OBVIOUS
  <2> QED BY <1>0, <2>2, <2>3
<1>2. I \subseteq Nat /\ I \subseteq 1 .. Len(s)
  BY <1>0
<1> HIDE DEF I
<1>3. CASE I = {}
  <2>1. Cardinality(I) = 0
    BY <1>3, FS_EmptySet
  <2> QED BY <1>0, <2>1 DEF I
<1>4. CASE I # {}
  <2>1. PICK lo \in I : \A i \in I : lo <= i
    BY <1>2, <1>4, LeastOf
  <2>2. I \subseteq lo .. lo + 2 * Limit - 2
    BY <1>0, <1>1, <1>2, <2>1
  <2>3. lo \in Int /\ lo + 2 * Limit - 2 \in Int /\ lo + 2 * Limit - 2 >= lo
    BY <1>0, <1>2, <2>1
  <2>4. /\ IsFiniteSet(lo .. lo + 2 * Limit - 2)
        /\ Cardinality(lo .. lo + 2 * Limit - 2) = 2 * Limit - 1
    BY <1>0, <2>3, FS_Interval
  <2>5. Cardinality(I) <= 2 * Limit - 1 /\ Cardinality(I) \in Nat
    BY <2>2, <2>4, FS_Subset, FS_CardinalityType
  <2> QED BY <1>0, <2>5 DEF I
<1> QED BY <1>3, <1>4

(* The limiter lets through less than twice the limit in any hour, for     *)
(* every limit and length of the window, while the process runs            *)
(* (RateLimiter.hit behind forgot-password).                               *)
THEOREM LimiterHolds == Spec => []UnderTwiceTheLimit
<1>1. Init => AllLimited
  <2> SUFFICES ASSUME Init, NEW a \in Accounts PROVE Limited(a)
    BY DEF AllLimited
  <2>1. asked[a] = <<>> /\ bucket[a].resetAt = 0 /\ now = 0
    BY DEF Init
  <2>2. Len(<<>>) = 0
    OBVIOUS
  <2>3. Windows(asked[a], 0, bucket[a], now) /\ Spread(asked[a])
    BY <2>1, <2>2 DEF Windows, Spread
  <2> QED BY <2>3 DEF Limited
<1>2. Typed /\ AllLimited => UnderTwiceTheLimit
  <2> SUFFICES ASSUME Typed, AllLimited, NEW a \in Accounts, NEW t \in Times
               PROVE  Cardinality({i \in DOMAIN asked[a] : asked[a][i] \in t .. t + Hour - 1}) < 2 * Limit
    BY DEF UnderTwiceTheLimit
  <2>1. asked[a] \in Seq(Nat) /\ Spread(asked[a]) /\ t \in Nat
    BY LimiterTypes, AccessAssumption DEF AllLimited, Limited, Times
  <2> QED BY <2>1, FewInAnHour
<1> QED BY <1>1, <1>2, TypeCorrect, StepLimited, PTL DEF Spec

-----------------------------------------------------------------------------
(* The reach of HR *)

(* A single scope reaches its own identifier; that of a company reaches    *)
(* its establishments.                                                     *)
LEMMA ReachOfOne ==
  ASSUME NEW type \in {"TENANT", "LEGAL_ENTITY", "ESTABLISHMENT"}, NEW id
  PROVE  LET own == <<[type |-> type, id |-> id]>> IN
         /\ Own(own, "TENANT") # {} <=> type = "TENANT"
         /\ type = "ESTABLISHMENT" => Reach(own) = {id}
         /\ type = "LEGAL_ENTITY" => Reach(own) = {id} \cup {s \in Sites : EntityOf[s] = id}
<1> DEFINE own == <<[type |-> type, id |-> id]>>
<1>1. DOMAIN own = {1} /\ own[1].type = type /\ own[1].id = id
  OBVIOUS
<1> HIDE DEF own
<1>2. \A k : Own(own, k) = IF k = type THEN {1} ELSE {}
  BY <1>1 DEF Own
<1>3. \A k : Ids(own, k) = IF k = type THEN {id} ELSE {}
  BY <1>1, <1>2 DEF Ids
<1>4. Own(own, "TENANT") # {} <=> type = "TENANT"
  BY <1>2
<1>5. type = "ESTABLISHMENT" => Reach(own) = {id}
  BY <1>3 DEF Reach
<1>6. type = "LEGAL_ENTITY" => Reach(own) = {id} \cup {s \in Sites : EntityOf[s] = id}
  BY <1>3 DEF Reach
<1> QED BY <1>4, <1>5, <1>6 DEF own

(* Whom HR of an establishment reaches, HR of its company and HR of the    *)
(* tenant reach, for every organisation, place and list of scopes          *)
(* (actorCoversTarget, resolveAccountLocation).                            *)
LEMMA OrganisationFollowed == FollowsOrganisation
<1> SUFFICES ASSUME NEW target, NEW s \in Sites, Covers(<<[type |-> "ESTABLISHMENT", id |-> s]>>, target)
             PROVE  /\ Covers(<<[type |-> "LEGAL_ENTITY", id |-> EntityOf[s]]>>, target)
                    /\ Covers(<<[type |-> "TENANT", id |-> None]>>, target)
  BY DEF FollowsOrganisation
<1> DEFINE where == {Location(target).site, Location(target).entity}
<1>1. where \cap Reach(<<[type |-> "ESTABLISHMENT", id |-> s]>>) # {}
  BY ReachOfOne DEF Covers
<1>2. s \in where
  BY <1>1, ReachOfOne
<1>3. s \in Reach(<<[type |-> "LEGAL_ENTITY", id |-> EntityOf[s]]>>)
  BY ReachOfOne
<1> QED BY <1>2, <1>3, ReachOfOne DEF Covers

(* Whatever HR of an establishment reaches when a reset is decided, HR of  *)
(* its company and of the tenant reach too (rhReset).                      *)
THEOREM ReachFollows == Spec => []ReachFollowsOrganisation
<1>1. ReachFollowsOrganisation
  BY OrganisationFollowed DEF ReachFollowsOrganisation
<1> QED BY <1>1, PTL
=============================================================================
