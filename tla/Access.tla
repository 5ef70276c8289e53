-------------------------------- MODULE Access --------------------------------
(***************************************************************************)
(* Accounts, sessions and password resets: AuthService (login),            *)
(* PasswordResetService (reset links, completion, reset by HR), the rate   *)
(* limit of reset requests, the reach of HR over accounts (with            *)
(* src/auth.ts) and the check of the session on each request               *)
(* (src/app.ts).  A session is the token login signs: it carries the       *)
(* version the account had and is accepted while the account has it.       *)
(*                                                                         *)
(* Calls and `live` are those of Leave.  Accounts are the enabled ones.    *)
(***************************************************************************)
EXTENDS Integers, SequencesExt

CONSTANTS
  Calls,       \* slots for handlers in flight
  Accounts,
  Links,       \* reset tokens
  Passwords,
  Actors,      \* the users who have the permission account.reset
  EntityOf,    \* the company of each establishment
  Rank,        \* ROLE_RANK
  User,        \* roles, scopes and, if employed, place of each account and actor
  Hour,        \* RESET_TTL_MS, and the window of resetEmailLimiter
  Limit,       \* the requests resetEmailLimiter allows in a window
  MaxTime,     \* bound: the instants that are modelled are 0..MaxTime
  MaxVersion,  \* bound: no reset starts on an account beyond this version
  Stores,      \* the stores a deployment may select: TRUE in-memory, FALSE database
  None         \* no account, link or password

Sites == DOMAIN EntityOf
Entities == {EntityOf[s] : s \in Sites}

(* Scope: all of the tenant, a company or an establishment (one's own      *)
(* person, or an ORG_UNIT, covers no account).                             *)
Scope == [type : {"TENANT", "SELF"}, id : {None}]
           \cup [type : {"LEGAL_ENTITY"}, id : Entities]
           \cup [type : {"ESTABLISHMENT"}, id : Sites]

(* The establishment and the company of the active employment, if any. *)
Place == [site : Sites \cup {None}, entity : Entities \cup {None}]
Nowhere == [site |-> None, entity |-> None]

ASSUME AccessAssumption ==
  /\ User \in [Accounts \cup Actors -> [roles : SUBSET DOMAIN Rank, scopes : Seq(Scope), place : Place]]
  /\ Rank \in [DOMAIN Rank -> Nat]
  /\ Hour \in Nat \ {0} /\ Limit \in Nat \ {0} /\ MaxTime \in Nat /\ MaxVersion \in Nat
  /\ Stores \subseteq BOOLEAN
  /\ None \notin Accounts \cup Links \cup Passwords \cup Actors \cup Sites \cup Entities

VARIABLES
  live,      \* the store of this deployment is the in-memory one
  now,       \* the clock
  account,   \* password and tokenVersion of each account
  link,      \* the row of each reset token
  session,   \* the sessions handed out, each with the password it was given for
  bucket,    \* RateLimiter.buckets, by account
  asked,     \* the instants of the requests the limiter let through since the process started
  call       \* the handlers in flight

vars == <<live, now, account, link, session, bucket, asked, call>>

Times == 0 .. MaxTime
Account == [password : Passwords \cup {None}, version : Nat]
Session == [of : Accounts, version : Nat, password : Passwords \cup {None}]

(* outdated: the password of the account was changed after the link was    *)
(* created.                                                                *)
Link == [of : Accounts \cup {None}, used : BOOLEAN, outdated : BOOLEAN,
         expires : 0 .. MaxTime + Hour]

NoAccount == [password |-> None, version |-> 0]
NoLink == [of |-> None, used |-> FALSE, outdated |-> FALSE, expires |-> 0]

Stages == {"idle", "login", "invalidate", "create", "check", "change",
           "markUsed", "scope", "temporary", "invalidateRest"}

(* What a handler holds: account, link, the password it was given or drew, *)
(* the account and the link it fetched, and the actor of a reset by HR.    *)
Call == [pc : Stages, on : Accounts \cup {None}, link : Links \cup {None},
         password : Passwords \cup {None}, seen : Account, row : Link, actor : Actors \cup {None}]
Idle == [pc |-> "idle", on |-> None, link |-> None, password |-> None,
         seen |-> NoAccount, row |-> NoLink, actor |-> None]

TypeOK ==
  /\ live \in BOOLEAN
  /\ now \in Times
  /\ account \in [Accounts -> Account]
  /\ link \in [Links -> Link]
  /\ session \subseteq Session
  /\ bucket \in [Accounts -> [count : Nat, resetAt : 0 .. MaxTime + Hour]]
  /\ asked \in [Accounts -> Seq(Times)]
  /\ call \in [Calls -> Call]

Init ==
  /\ live \in Stores
  /\ now = 0
  /\ account \in [Accounts -> [password : Passwords, version : {0}]]
  /\ link = [l \in Links |-> NoLink]
  /\ session = {}
  /\ bucket = [a \in Accounts |-> [count |-> 0, resetAt |-> 0]]
  /\ asked = [a \in Accounts |-> <<>>]
  /\ call = [c \in Calls |-> Idle]

-----------------------------------------------------------------------------
(* Mistakes: the operators named Bad... are not part of the specification; *)
(* each is a plausible slip in the definition of the same name below it.   *)

(* The records a handler uses: the live ones, or the copies it fetched.    *)
SeenAccount(c) == IF live THEN account[call[c].on] ELSE call[c].seen
SeenLink(c) == IF live THEN link[call[c].link] ELSE call[c].row
Copy(a) == IF live THEN NoAccount ELSE account[a]
CopyVersion(a) == [Copy(a) EXCEPT !.password = None]

Begin(c, held) == call[c] = Idle /\ call' = [call EXCEPT ![c] = held]
Goto(c, stage) == call' = [call EXCEPT ![c].pc = stage, ![c].password = None, ![c].seen = NoAccount]
Return(c) == call' = [call EXCEPT ![c] = Idle]
At(c, stage) == call[c].pc = stage /\ UNCHANGED <<live, now>>

(* A session is accepted (preHandler): the version is still the account's. *)
Accepted(s) == s.version = account[s.of].version

-----------------------------------------------------------------------------
(* login: fetch the account, compare the password, sign a token. *)
FetchLogin(c, a, p) ==
  /\ Begin(c, [Idle EXCEPT !.pc = "login", !.on = a, !.password = p, !.seen = Copy(a)])
  /\ UNCHANGED <<live, now, account, link, session, bucket, asked>>

Login(c) ==
  LET acc == SeenAccount(c) IN
  /\ At(c, "login")
  /\ session' = IF acc.password = call[c].password
                  THEN session \cup {[of |-> call[c].on, version |-> acc.version,
                                      password |-> acc.password]}
                  ELSE session
  /\ Return(c)
  /\ UNCHANGED <<account, link, bucket, asked>>

-----------------------------------------------------------------------------
(* RateLimiter.hit: the bucket after one more request, in a new window if  *)
(* the last one is over.                                                   *)
Hit(a) ==
  IF now >= bucket[a].resetAt THEN [count |-> 1, resetAt |-> now + Hour]
                              ELSE [bucket[a] EXCEPT !.count = @ + 1]

(* uid() and randomBytes: a token no row and no handler has. *)
Fresh(l) == link[l].of = None /\ \A c \in Calls : call[c].link # l

BadAllowed(b) == b.count <= Limit + 1

Allowed(b) == b.count <= Limit

(* forgot-password: the answer is always the same; within the limit        *)
(* requestReset starts behind it.                                          *)
ForgotPassword(c, a, l) ==
  /\ Allowed(Hit(a))
  /\ Fresh(l)
  /\ Begin(c, [Idle EXCEPT !.pc = "invalidate", !.on = a, !.link = l])
  /\ bucket' = [bucket EXCEPT ![a] = Hit(a)]
  /\ asked' = [asked EXCEPT ![a] = Append(@, now)]
  /\ UNCHANGED <<live, now, account, link, session>>

(* (beyond the limit one more request is like another: only one is counted)*)
ForgotTooOften(a) ==
  /\ ~Allowed(Hit(a)) /\ Allowed(bucket[a])
  /\ bucket' = [bucket EXCEPT ![a] = Hit(a)]
  /\ UNCHANGED <<live, now, account, link, session, asked, call>>

Used(a) == [l \in Links |-> IF link[l].of = a THEN [link[l] EXCEPT !.used = TRUE] ELSE link[l]]

(* requestReset, and rhReset by e-mail: withdraw the links there are, ...  *)
InvalidateLinks(c) ==
  /\ At(c, "invalidate")
  /\ link' = Used(call[c].on)
  /\ Goto(c, "create")
  /\ UNCHANGED <<account, session, bucket, asked>>

(* ... and create a new one.  The e-mail that follows may fail: then nobody*)
(* presents the link.                                                      *)
CreateLink(c) ==
  /\ At(c, "create")
  /\ link' = [link EXCEPT ![call[c].link] =
                [NoLink EXCEPT !.of = call[c].on, !.expires = now + Hour]]
  /\ Return(c)
  /\ UNCHANGED <<account, session, bucket, asked>>

-----------------------------------------------------------------------------
(* completeReset: fetch the link, ...  *)
PresentLink(c, l, p) ==
  /\ link[l].of # None
  /\ account[link[l].of].version < MaxVersion
  /\ Begin(c, [Idle EXCEPT !.pc = "check", !.on = link[l].of, !.link = l, !.password = p,
                           !.row = IF live THEN NoLink ELSE link[l]])
  /\ UNCHANGED <<live, now, account, link, session, bucket, asked>>

(* ... refuse it if it is used or expired, or else fetch the account, ...  *)
CheckLink(c) ==
  /\ At(c, "check")
  /\ IF ~SeenLink(c).used /\ SeenLink(c).expires >= now
       THEN call' = [call EXCEPT ![c].pc = "change", ![c].row = NoLink,
                                 ![c].seen = CopyVersion(call[c].on)]
       ELSE Return(c)
  /\ UNCHANGED <<account, link, session, bucket, asked>>

BadNextVersion(c) == SeenAccount(c).version

NextVersion(c) == SeenAccount(c).version + 1

(* (the account gets a password and a version of which no session has yet) *)
SetPassword(c, password) ==
  /\ account' = [account EXCEPT ![call[c].on] = [password |-> password, version |-> NextVersion(c)]]
  /\ link' = [l \in Links |-> [link[l] EXCEPT !.outdated = @ \/ link[l].of = call[c].on]]
  /\ UNCHANGED <<session, bucket, asked>>

(* ... change the password, ... *)
ChangePassword(c) ==
  /\ At(c, "change")
  /\ SetPassword(c, call[c].password)
  /\ Goto(c, "markUsed")

(* ... mark the link used, ... *)
MarkUsed(c) ==
  /\ At(c, "markUsed")
  /\ link' = [link EXCEPT ![call[c].link].used = TRUE]
  /\ Goto(c, "invalidateRest")
  /\ UNCHANGED <<account, session, bucket, asked>>

BadInvalidateRest(c) ==
  /\ At(c, "invalidateRest")
  /\ Return(c)
  /\ UNCHANGED <<account, link, session, bucket, asked>>

(* ... and the others of the account with it.  The audit row and the e-mail*)
(* that follow change nothing here.                                        *)
InvalidateRest(c) ==
  /\ At(c, "invalidateRest")
  /\ link' = Used(call[c].on)
  /\ Return(c)
  /\ UNCHANGED <<account, session, bucket, asked>>

-----------------------------------------------------------------------------
(* The rank of the highest role. *)
roleRank(roles) == Max({0} \cup {Rank[r] : r \in roles})

Own(scopes, type) == {i \in DOMAIN scopes : scopes[i].type = type}
FirstOwn(scopes, type) ==
  IF Own(scopes, type) = {} THEN None ELSE scopes[Min(Own(scopes, type))].id

(* resolveAccountLocation: by the active employment, or else by one's own  *)
(* scopes, and the company of the establishment unless there is another.   *)
Location(user) ==
  LET site == FirstOwn(user.scopes, "ESTABLISHMENT")
      entity == FirstOwn(user.scopes, "LEGAL_ENTITY")
  IN IF user.place # Nowhere THEN user.place
     ELSE [site |-> site,
           entity |-> IF entity = None /\ site # None THEN EntityOf[site] ELSE entity]

Ids(scopes, type) == {scopes[i].id : i \in Own(scopes, type)}

BadReach(scopes) ==
  Ids(scopes, "LEGAL_ENTITY") \cup Ids(scopes, "ESTABLISHMENT")

(* The companies of an actor, their establishments, and those of its own.  *)
Reach(scopes) ==
  LET entities == Ids(scopes, "LEGAL_ENTITY") IN
  entities \cup {s \in Sites : EntityOf[s] \in entities} \cup Ids(scopes, "ESTABLISHMENT")

(* actorCoversTarget *)
Covers(scopes, target) ==
  \/ Own(scopes, "TENANT") # {}
  \/ {Location(target).site, Location(target).entity} \cap Reach(scopes) # {}

(* rhReset: fetch the target, refuse (403) if its rank is higher, ... *)
RhReset(c, x, a) ==
  /\ account[a].version < MaxVersion
  /\ roleRank(User[a].roles) <= roleRank(User[x].roles)
  /\ Begin(c, [Idle EXCEPT !.pc = "scope", !.on = a, !.actor = x, !.seen = CopyVersion(a)])
  /\ UNCHANGED <<live, now, account, link, session, bucket, asked>>

(* ... read what the actor reaches and where the target is, refuse (404)   *)
(* what is not covered, or go on with a link or a password.                *)
RhDecide(c) ==
  LET held == [call[c] EXCEPT !.actor = None] IN
  /\ At(c, "scope")
  /\ IF Covers(User[call[c].actor].scopes, User[call[c].on])
       THEN \/ call' = [call EXCEPT ![c] = [held EXCEPT !.pc = "temporary"]]
            \/ \E l \in Links : Fresh(l)
                 /\ call' = [call EXCEPT ![c] = [held EXCEPT !.pc = "invalidate", !.link = l]]
       ELSE Return(c)
  /\ UNCHANGED <<account, link, session, bucket, asked>>

TemporaryPassword(c, p) ==
  /\ At(c, "temporary")
  /\ SetPassword(c, p)
  /\ Goto(c, "invalidateRest")

(* A database call rejects or the process stops: the handler is abandoned. *)
Fail(c) ==
  /\ ~live
  /\ call[c] # Idle
  /\ Return(c)
  /\ UNCHANGED <<live, now, account, link, session, bucket, asked>>

(* The process restarts, and forgets its handlers and its buckets. *)
Restart ==
  /\ ~live
  /\ call' = [c \in Calls |-> Idle]
  /\ bucket' = [a \in Accounts |-> [count |-> 0, resetAt |-> 0]]
  /\ asked' = [a \in Accounts |-> <<>>]
  /\ UNCHANGED <<live, now, account, link, session>>

Tick ==
  /\ now < MaxTime
  /\ now' = now + 1
  /\ UNCHANGED <<live, account, link, session, bucket, asked, call>>

Continue(c) ==
  \/ Login(c) \/ InvalidateLinks(c) \/ CreateLink(c)
  \/ CheckLink(c) \/ ChangePassword(c) \/ MarkUsed(c) \/ InvalidateRest(c)
  \/ RhDecide(c) \/ \E p \in Passwords : TemporaryPassword(c, p)

Start(c) ==
  \/ \E a \in Accounts, p \in Passwords : FetchLogin(c, a, p)
  \/ \E a \in Accounts, x \in Actors : RhReset(c, x, a)
  \/ \E a \in Accounts, l \in Links : ForgotPassword(c, a, l)
  \/ \E l \in Links, p \in Passwords : PresentLink(c, l, p)

Next ==
  \/ \E c \in Calls : Start(c) \/ Continue(c) \/ Fail(c)
  \/ \E a \in Accounts : ForgotTooOften(a)
  \/ Restart
  \/ Tick

Spec == Init /\ [][Next]_vars

-----------------------------------------------------------------------------
(* Over the in-memory store a change of password logs every session of the *)
(* account out, however many resets are under way (updateAuthAccount in    *)
(* completeReset and rhReset, preHandler).                                 *)
SessionsRevoked ==
  [][live => \A a \in Accounts : account'[a] # account[a] =>
       \A s \in session : s.of = a => ~Accepted(s)']_vars

(* Over the in-memory store no link created before a change of password    *)
(* can be used after it: while one still could, the handler that made the  *)
(* change has yet to withdraw it (invalidateAccountResetTokens).           *)
LinksDieWithReset ==
  live => \A l \in Links : link[l].outdated /\ ~link[l].used =>
    \E c \in Calls : call[c].on = link[l].of /\ call[c].pc \in {"markUsed", "invalidateRest"}

(* In an hour the fixed windows of RateLimiter let more than the limit     *)
(* through, at the seam of two of them, but never twice the limit (the     *)
(* first window began before that hour), while the process runs.           *)
UnderTwiceTheLimit ==
  \A a \in Accounts, t \in Times :
    Cardinality({i \in DOMAIN asked[a] : asked[a][i] \in t .. t + Hour - 1}) < 2 * Limit

(* Of every target: what covers its establishment, or one of its own, is   *)
(* covered from the company of that establishment and from the tenant.     *)
FollowsOrganisation ==
  \A place \in Place, scopes \in SeqOf(Scope, 2), s \in Sites :
    LET target == [roles |-> {}, scopes |-> scopes, place |-> place]
        covered(type, id) == Covers(<<[type |-> type, id |-> id]>>, target)
    IN covered("ESTABLISHMENT", s) =>
         covered("LEGAL_ENTITY", EntityOf[s]) /\ covered("TENANT", None)

(* When a reset by HR is decided, whatever HR of an establishment reaches, *)
(* by the employment or by the scopes of the account, HR of its company    *)
(* reaches too, and HR of the tenant (actorCoversTarget,                   *)
(* resolveAccountLocation).                                                *)
ReachFollowsOrganisation == \A c \in Calls : call[c].pc = "scope" => FollowsOrganisation
=============================================================================
