--------------------------------- MODULE Iam --------------------------------
(***************************************************************************)
(* Users and sessions (domain/iam, uc/bootstrap.go, api/auth.go) and the   *)
(* middleware that lets requests to the management API in.                 *)
(*                                                                         *)
(* A request is a series of calls to MongoDB in a goroutine of its own;    *)
(* one call is one action, together with the local computation after it.   *)
(* Any call may fail if Faulty, and a write that fails may have been       *)
(* applied.  The process may die and start again at any point.             *)
(***************************************************************************)
EXTENDS Naturals, FiniteSets

CONSTANTS
  Caller,          \* requests in progress, reused in turn
  Mailbox, Password,  \* e-mail addresses up to case; passwords
  UserId,          \* RandomId returns one not in use
  SessionId,       \* NewId returns one never used before
  TTL,             \* SessionTTL, an hour, in ticks of the clock
  MaxTime,         \* bound on the clock
  Faulty,          \* whether calls to MongoDB may fail
  None             \* nothing: an absent document or argument

\* An e-mail address as a string: with capitals or not.
Address == [box : Mailbox, upper : BOOLEAN]
LowerCase(a) == [a EXCEPT !.upper = FALSE]

User == [email : Address, password : Password]
Session == [user : UserId, expires : 0..MaxTime + TTL]

ASSUME CallerAssumption == IsFiniteSet(Caller)
ASSUME TimeAssumption == TTL \in Nat /\ MaxTime \in Nat
ASSUME FaultyAssumption == Faulty \in BOOLEAN
ASSUME NoneAssumption ==
  /\ None \notin User /\ None \notin Session /\ None \notin SessionId

VARIABLES
  users,     \* the iam_users collection
  indexed,   \* whether the unique index on email exists
  sessions,  \* the iam_sessions collection
  now,       \* the clock
  pc,        \* what each request does next
  req,       \* what it works on: the user to be created or logged in, the
             \* session to be stored or presented
  \* Auxiliary, read by no guard but for the freshness of ids:
  issued,    \* sessions ever stored
  ended,     \* sessions whose logout was answered with success
  owners     \* address and password of users whose creation was answered
             \* with success

collections == <<users, indexed, sessions>>
history == <<issued, ended, owners>>
vars == <<collections, now, pc, req, history>>

NoReq == [user |-> None, session |-> None, doc |-> None]

Init ==
  /\ users = [u \in UserId |-> None]
  /\ indexed \in BOOLEAN       \* Configure only logs a failed CreateOne
  /\ sessions = [s \in SessionId |-> None]
  /\ now = 0
  /\ pc = [c \in Caller |-> "idle"]
  /\ req = [c \in Caller |-> NoReq]
  /\ issued = {}
  /\ ended = {}
  /\ owners = {}

-----------------------------------------------------------------------------
Users == {u \in UserId : users[u] # None}

\* Mutant of Named: addresses are looked up as they are typed.
NamedAsTyped(a) == {u \in Users : users[u].email = a}

\* The documents FindUserByEmail may return.
Named(a) == {u \in Users : users[u].email = LowerCase(a)}

\* Mutant of IsExpired: a session never ends.
NeverExpired(s) == FALSE

IsExpired(s) == sessions[s].expires < now

Goto(c, label, r) ==
  /\ pc' = [pc EXCEPT ![c] = label]
  /\ req' = [req EXCEPT ![c] = r]

Begin(c, label, r) ==
  /\ pc[c] = "idle"
  /\ Goto(c, label, r)
  /\ UNCHANGED <<collections, now, history>>

\* Any answer that leaves the collections alone.
Refuse(c) ==
  /\ Goto(c, "idle", NoReq)
  /\ UNCHANGED <<collections, now, history>>

\* A call that only reads fails: the request is answered 500.
ReadFails(c) ==
  /\ Faulty
  /\ pc[c] \in {"count", "find", "check", "principal"}
  /\ Refuse(c)

\* A write fails and was not applied.
WriteFails(c) ==
  /\ Faulty
  /\ pc[c] \in {"create", "open", "delete"}
  /\ Refuse(c)

-----------------------------------------------------------------------------
(* Bootstrap: CountUsers, then CreateUser.                                 *)

Bootstrap(c) ==
  \E a \in Address, p \in Password :
    Begin(c, "count", [NoReq EXCEPT !.doc = [email |-> a, password |-> p]])

\* The application is bootstrapped already: nothing is done.
CountSome(c) ==
  /\ pc[c] = "count"
  /\ Users # {}
  /\ Refuse(c)

\* Mutant of CountNone: whoever asks is a first user.
CountIgnored(c) ==
  /\ pc[c] = "count"
  /\ Goto(c, "create", req[c])
  /\ UNCHANGED <<collections, now, history>>

CountNone(c) ==
  /\ pc[c] = "count"
  /\ Users = {}
  /\ Goto(c, "create", req[c])
  /\ UNCHANGED <<collections, now, history>>

Taken(a) == indexed /\ \E u \in Users : users[u].email = a

\* Mutant of Insert: the address is stored as it was typed.
InsertAsTyped(c) ==
  \E u \in UserId \ Users :
    /\ ~Taken(LowerCase(req[c].doc.email))
    /\ users' = [users EXCEPT ![u] = req[c].doc]
    /\ UNCHANGED <<indexed, sessions, now, issued, ended>>

Insert(c) ==
  \E u \in UserId \ Users :
    /\ ~Taken(LowerCase(req[c].doc.email))
    /\ users' = [users EXCEPT ![u] = [req[c].doc EXCEPT !.email = LowerCase(@)]]
    /\ UNCHANGED <<indexed, sessions, now, issued, ended>>

CreateUser(c) ==
  /\ pc[c] = "create"
  /\ Insert(c)
  /\ owners' = owners \cup {req[c].doc}
  /\ Goto(c, "idle", NoReq)

\* Applied, but the client is answered 500.
CreateUnacknowledged(c) ==
  /\ Faulty
  /\ pc[c] = "create"
  /\ Insert(c)
  /\ UNCHANGED owners
  /\ Goto(c, "idle", NoReq)

EmailNotAvailable(c) ==
  /\ pc[c] = "create"
  /\ Taken(LowerCase(req[c].doc.email))
  /\ Refuse(c)

-----------------------------------------------------------------------------
(* Login: AuthenticateUser, then CreateSession.                            *)

\* Bound: session ids do not run out while a login is under way.
IdsLeft == Cardinality({d \in Caller : pc[d] \in {"find", "open"}})
             < Cardinality(SessionId \ issued)

Login(c) ==
  /\ IdsLeft
  /\ \E a \in Address, p \in Password :
       Begin(c, "find", [NoReq EXCEPT !.doc = [email |-> a, password |-> p]])

InvalidCredentials(c) ==
  /\ pc[c] = "find"
  /\ \/ Named(req[c].doc.email) = {}
     \/ \E u \in Named(req[c].doc.email) : users[u].password # req[c].doc.password
  /\ Refuse(c)

\* The session is made with the time it expires at, and stored in a call.
Authenticated(c) ==
  /\ pc[c] = "find"
  /\ \E u \in Named(req[c].doc.email) :
       /\ users[u].password = req[c].doc.password
       /\ Goto(c, "open",
               [NoReq EXCEPT !.doc = [user |-> u, expires |-> now + TTL]])
  /\ UNCHANGED <<collections, now, history>>

\* CreateSession, with or without an acknowledgement: a token that is never
\* answered is known to nobody, which the model does not rely on.
CreateSession(c) ==
  /\ pc[c] = "open"
  /\ \E s \in SessionId \ issued :
       /\ sessions' = [sessions EXCEPT ![s] = req[c].doc]
       /\ issued' = issued \cup {s}
  /\ Goto(c, "idle", NoReq)
  /\ UNCHANGED <<users, indexed, now, ended, owners>>

-----------------------------------------------------------------------------
(* Requests with a bearer token: the middleware authenticated, then the    *)
(* handler behind it.  That of logout deletes the session; what the others *)
(* do is not Iam's concern.                                                *)

Request(c) == \E s \in SessionId : Begin(c, "check", [NoReq EXCEPT !.session = s])

Stored(s) == sessions[s] # None

\* The check of authenticatedSession, and that of handleGetMe.
Admits(s) == Stored(s) /\ ~IsExpired(s)

SessionRefused(c) ==
  /\ pc[c] = "check"
  /\ ~Admits(req[c].session)
  /\ Refuse(c)

SessionFound(c) ==
  /\ pc[c] = "check"
  /\ Admits(req[c].session)
  /\ Goto(c, "principal", [req[c] EXCEPT !.user = sessions[req[c].session].user])
  /\ UNCHANGED <<collections, now, history>>

\* Users are never deleted, so that GetPrincipal finds one (IamTypeOK).
PrincipalFound(c) ==
  /\ pc[c] = "principal"
  /\ users[req[c].user] # None
  /\ \E label \in {"delete", "other"} : Goto(c, label, req[c])
  /\ UNCHANGED <<collections, now, history>>

OtherHandler(c) ==
  /\ pc[c] = "other"
  /\ Refuse(c)

\* Mutant of Delete: the session is marked, not removed.
DeleteNothing(c) == UNCHANGED sessions

Delete(c) == sessions' = [sessions EXCEPT ![req[c].session] = None]

DeleteSession(c) ==
  /\ pc[c] = "delete"
  /\ Delete(c)
  /\ ended' = ended \cup {req[c].session}
  /\ Goto(c, "idle", NoReq)
  /\ UNCHANGED <<users, indexed, now, issued, owners>>

DeleteUnacknowledged(c) ==
  /\ Faulty
  /\ pc[c] = "delete"
  /\ Delete(c)
  /\ Goto(c, "idle", NoReq)
  /\ UNCHANGED <<users, indexed, now, history>>

-----------------------------------------------------------------------------
Tick ==
  /\ now < MaxTime
  /\ now' = now + 1
  /\ UNCHANGED <<collections, pc, req, history>>

\* Requests are gone, the collections stay, and Configure tries once more to
\* build the index, which MongoDB refuses while two users share an address.
Indexable == \A u, v \in Users : users[u].email = users[v].email => u = v

Restart ==
  /\ indexed' \in {indexed, indexed \/ Indexable}
  /\ pc' = [c \in Caller |-> "idle"]
  /\ req' = [c \in Caller |-> NoReq]
  /\ UNCHANGED <<users, sessions, now, history>>

Step(c) ==
  \/ Bootstrap(c) \/ CountSome(c) \/ CountNone(c)
  \/ CreateUser(c) \/ CreateUnacknowledged(c) \/ EmailNotAvailable(c)
  \/ Login(c) \/ InvalidCredentials(c) \/ Authenticated(c) \/ CreateSession(c)
  \/ Request(c) \/ SessionRefused(c) \/ SessionFound(c)
  \/ PrincipalFound(c) \/ OtherHandler(c)
  \/ DeleteSession(c) \/ DeleteUnacknowledged(c)
  \/ ReadFails(c) \/ WriteFails(c)

Next == (\E c \in Caller : Step(c)) \/ Tick \/ Restart

Spec == Init /\ [][Next]_vars

-----------------------------------------------------------------------------
Labels == {"idle", "count", "create", "find", "open", "check", "principal",
           "delete", "other"}

\* What a request holds for its next step.
Holds(c) ==
  /\ pc[c] = "idle" => req[c] = NoReq
  /\ pc[c] \in {"count", "create", "find"} => req[c].doc \in User
  /\ pc[c] = "open" =>
       /\ req[c].doc \in Session /\ req[c].doc.user \in Users
       /\ req[c].doc.expires <= now + TTL
  /\ pc[c] = "check" => req[c].session \in SessionId
  /\ pc[c] \in {"principal", "delete", "other"} =>
       req[c].session \in issued /\ req[c].user \in Users

(* Every variable keeps its type, a request holds what its next step uses,  *)
(* and the user of a session exists: GetPrincipal never comes back empty,   *)
(* and no session has more than an hour left.                               *)
IamTypeOK ==
  /\ users \in [UserId -> User \cup {None}]
  /\ \A u \in Users : ~users[u].email.upper
  /\ indexed \in BOOLEAN
  /\ sessions \in [SessionId -> Session \cup {None}]
  /\ \A s \in SessionId : Stored(s) =>
       s \in issued /\ sessions[s].user \in Users /\ sessions[s].expires <= now + TTL
  /\ now \in 0..MaxTime
  /\ pc \in [Caller -> Labels]
  /\ req \in [Caller -> [user : UserId \cup {None}, session : SessionId \cup {None},
                         doc : User \cup Session \cup {None}]]
  /\ issued \subseteq SessionId /\ ended \subseteq issued
  /\ owners \subseteq User
  /\ \A c \in Caller : Holds(c)

(* "The one-time bootstrap endpoint creates the initial user" (README).     *)
(* Count and insert are separate calls, so that requests that run together  *)
(* may each create a user, but no more of them than run at once, however    *)
(* many are sent, repeated after an error or cut off by restarts.           *)
UsersBounded == Cardinality(Users) <= Cardinality(Caller)

(* Who was told that a user was created can log in with the address and     *)
(* password given, in whatever case the address is typed later, as long as  *)
(* the unique index exists: the one other bootstrap that ran at the same    *)
(* time cannot have taken the address.                                      *)
OwnersCanLogIn ==
  indexed => \A o \in owners :
    /\ Named(o.email) # {}
    /\ \A u \in Named(o.email) : users[u].password = o.password

(* "Invalidates the current session" (README, logout): when the logout was  *)
(* answered with success the session is gone, and no login that was under   *)
(* way and no restart brings it back.                                       *)
EndedSessionsGone == \A s \in ended : ~Stored(s)

\* What Access calls the status of a session, and who is inside.
Status ==
  [s \in SessionId |->
     IF s \notin issued THEN "unused"
     ELSE IF Stored(s) /\ now <= sessions[s].expires THEN "open" ELSE "closed"]

Inside ==
  [c \in Caller |-> IF pc[c] \in {"principal", "delete", "other"}
                   THEN req[c].session ELSE None]

(* A request is let in only with a session that is stored and has not       *)
(* expired at that moment, and a session that has ended never opens again.  *)
Sessions == INSTANCE Access WITH status <- Status, inside <- Inside
AccessRefined == Sessions!Spec
=============================================================================
