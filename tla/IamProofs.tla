------------------------------ MODULE IamProofs -----------------------------
(***************************************************************************)
(* Theorems about Iam, for any number of callers, users and sessions, with *)
(* the unique index and without it, whatever calls fail and whenever the   *)
(* process restarts.                                                       *)
(***************************************************************************)
EXTENDS Iam, FiniteSetTheorems, TLAPS

\* An address in small letters is an address, and the user who has it a user.
LEMMA LowerCaseType ==
  ASSUME NEW d \in User
  PROVE  /\ LowerCase(d.email) \in Address /\ ~LowerCase(d.email).upper
         /\ LowerCase(LowerCase(d.email)) = LowerCase(d.email)
         /\ [d EXCEPT !.email = LowerCase(@)] \in User
         /\ [d EXCEPT !.email = LowerCase(@)].email = LowerCase(d.email)
         /\ [d EXCEPT !.email = LowerCase(@)].password = d.password
  BY DEF User, Address, LowerCase

\* What an insert does to the users.
LEMMA InsertAdds ==
  ASSUME IamTypeOK, NEW c \in Caller, req[c].doc \in User, Insert(c)
  PROVE  /\ users' \in [UserId -> User \cup {None}]
         /\ \A u \in Users' : ~users'[u].email.upper
         /\ ~Taken(LowerCase(req[c].doc.email))
         /\ \E u \in UserId \ Users :
              /\ users' = [users EXCEPT ![u] = [req[c].doc EXCEPT !.email = LowerCase(@)]]
              /\ Users' = Users \cup {u}
              /\ users'[u].email = LowerCase(req[c].doc.email)
              /\ users'[u].password = req[c].doc.password
<1> DEFINE d == [req[c].doc EXCEPT !.email = LowerCase(@)]
<1>1. PICK u \in UserId \ Users :
        ~Taken(LowerCase(req[c].doc.email)) /\ users' = [users EXCEPT ![u] = d]
  BY DEF Insert
<1>2. /\ d \in User /\ d.email = LowerCase(req[c].doc.email)
      /\ d.password = req[c].doc.password /\ ~d.email.upper
  BY LowerCaseType
<1> HIDE DEF d
<1>3. d # None
  BY <1>2, NoneAssumption
<1>4. users \in [UserId -> User \cup {None}]
  BY DEF IamTypeOK
<1>5. users'[u] = d /\ \A v \in UserId \ {u} : users'[v] = users[v]
  BY <1>1, <1>4
<1>6. Users' = Users \cup {u}
  BY <1>3, <1>5 DEF Users
<1>7. \A v \in Users' : ~users'[v].email.upper
  BY <1>2, <1>5, <1>6 DEF IamTypeOK, Users
<1>8. users' \in [UserId -> User \cup {None}]
  BY <1>1, <1>2, <1>4
<1> QED
  BY <1>1, <1>2, <1>5, <1>6, <1>7, <1>8 DEF d

-----------------------------------------------------------------------------
(* Type correctness.                                                       *)

LEMMA InitType == Init => IamTypeOK
  BY TimeAssumption, NoneAssumption DEF Init, IamTypeOK, Users, Stored, NoReq, Labels, Holds, User

\* The requests of the others are as they were, and so is what they rest on.
LEMMA OthersHold ==
  ASSUME IamTypeOK, NEW c \in Caller, NEW label \in Labels, NEW r,
         r \in [user : UserId \cup {None}, session : SessionId \cup {None},
                doc : User \cup Session \cup {None}],
         Goto(c, label, r), now' = now, Users \subseteq Users', issued \subseteq issued'
  PROVE  /\ pc' \in [Caller -> Labels]
         /\ req' \in [Caller -> [user : UserId \cup {None}, session : SessionId \cup {None},
                                 doc : User \cup Session \cup {None}]]
         /\ pc'[c] = label /\ req'[c] = r
         /\ \A b \in Caller \ {c} : Holds(b)'
<1>1. /\ pc \in [Caller -> Labels] /\ pc' = [pc EXCEPT ![c] = label]
      /\ req' = [req EXCEPT ![c] = r]
      /\ req \in [Caller -> [user : UserId \cup {None}, session : SessionId \cup {None},
                             doc : User \cup Session \cup {None}]]
  BY DEF IamTypeOK, Goto
<1>2. \A b \in Caller \ {c} : pc'[b] = pc[b] /\ req'[b] = req[b] /\ Holds(b)
  BY <1>1 DEF IamTypeOK
<1>3. \A b \in Caller \ {c} : Holds(b)'
  BY <1>2 DEF Holds
<1> QED
  BY <1>1, <1>3

\* A request moves and the collections stay.
LEMMA MoveType ==
  ASSUME IamTypeOK, NEW c \in Caller, NEW label \in Labels, NEW r,
         r \in [user : UserId \cup {None}, session : SessionId \cup {None},
                doc : User \cup Session \cup {None}],
         Goto(c, label, r), UNCHANGED <<collections, now, history>>,
         Holds(c)'
  PROVE  IamTypeOK'
<1>1. /\ users' = users /\ indexed' = indexed /\ sessions' = sessions /\ now' = now
      /\ issued' = issued /\ ended' = ended /\ owners' = owners
  BY DEF collections, history
<1>2. Users' = Users /\ \A s \in SessionId : Stored(s)' <=> Stored(s)
  BY <1>1 DEF Users, Stored
<1>3. /\ pc' \in [Caller -> Labels]
      /\ req' \in [Caller -> [user : UserId \cup {None}, session : SessionId \cup {None},
                              doc : User \cup Session \cup {None}]]
      /\ \A b \in Caller : Holds(b)'
  BY <1>1, <1>2, OthersHold
<1> QED
  BY <1>1, <1>2, <1>3 DEF IamTypeOK

LEMMA NoReqType ==
  NoReq \in [user : UserId \cup {None}, session : SessionId \cup {None},
             doc : User \cup Session \cup {None}]
  BY DEF NoReq

LEMMA RefuseType ==
  ASSUME IamTypeOK, NEW c \in Caller, Refuse(c)
  PROVE  IamTypeOK'
<1>1. Goto(c, "idle", NoReq) /\ UNCHANGED <<collections, now, history>>
  BY DEF Refuse
<1>2. pc'[c] = "idle" /\ req'[c] = NoReq
  BY <1>1 DEF Goto, IamTypeOK
<1>3. Holds(c)'
  BY <1>2 DEF Holds
<1> QED
  BY <1>1, <1>3, MoveType, NoReqType DEF Labels

\* A request that was started or goes on, and those that write.
LEMMA BootstrapType ==
  ASSUME IamTypeOK, NEW c \in Caller, Bootstrap(c) \/ CountSome(c) \/ CountNone(c)
  PROVE  IamTypeOK'
<1>1. CASE Bootstrap(c)
  <2>1. PICK a \in Address, p \in Password :
          Begin(c, "count", [NoReq EXCEPT !.doc = [email |-> a, password |-> p]])
    BY <1>1 DEF Bootstrap
  <2> DEFINE r == [NoReq EXCEPT !.doc = [email |-> a, password |-> p]]
  <2>2. r \in [user : UserId \cup {None}, session : SessionId \cup {None},
               doc : User \cup Session \cup {None}] /\ r.doc \in User
    BY DEF NoReq, User
  <2>3. Goto(c, "count", r) /\ UNCHANGED <<collections, now, history>>
    BY <2>1 DEF Begin
  <2>4. pc'[c] = "count" /\ req'[c] = r
    BY <2>3 DEF Goto, IamTypeOK
  <2> HIDE DEF r
  <2>5. Holds(c)'
    BY <2>2, <2>4 DEF Holds
  <2> QED
    BY <2>2, <2>3, <2>5, MoveType DEF Labels
<1>2. CASE CountSome(c)
  BY <1>2, RefuseType DEF CountSome
<1>3. CASE CountNone(c)
  <2>1. pc[c] = "count" /\ Goto(c, "create", req[c]) /\ UNCHANGED <<collections, now, history>>
    BY <1>3 DEF CountNone
  <2>2. pc'[c] = "create" /\ req'[c] = req[c]
    BY <2>1 DEF Goto, IamTypeOK
  <2>3. Holds(c)'
    BY <2>1, <2>2 DEF Holds, IamTypeOK
  <2>4. req[c] \in [user : UserId \cup {None}, session : SessionId \cup {None},
                    doc : User \cup Session \cup {None}]
    BY DEF IamTypeOK
  <2> QED
    BY <2>1, <2>3, <2>4, MoveType DEF Labels
<1> QED
  BY <1>1, <1>2, <1>3

\* One more user: all that rests on the others still holds.
LEMMA CreateType ==
  ASSUME IamTypeOK, NEW c \in Caller, CreateUser(c) \/ CreateUnacknowledged(c)
  PROVE  IamTypeOK'
<1>1. /\ pc[c] = "create" /\ Insert(c) /\ Goto(c, "idle", NoReq)
      /\ UNCHANGED <<indexed, sessions, now, issued, ended>>
      /\ owners' \in {owners, owners \cup {req[c].doc}}
  BY DEF CreateUser, CreateUnacknowledged, Insert
<1>2. req[c].doc \in User
  BY <1>1 DEF IamTypeOK, Holds
<1>3. /\ users' \in [UserId -> User \cup {None}] /\ Users \subseteq Users'
      /\ \A u \in Users' : ~users'[u].email.upper
  BY <1>1, <1>2, InsertAdds
<1>4. \A s \in SessionId : Stored(s)' <=> Stored(s)
  BY <1>1 DEF Stored
<1>5. /\ pc' \in [Caller -> Labels]
      /\ req' \in [Caller -> [user : UserId \cup {None}, session : SessionId \cup {None},
                              doc : User \cup Session \cup {None}]]
      /\ pc'[c] = "idle" /\ req'[c] = NoReq
      /\ \A b \in Caller \ {c} : Holds(b)'
  BY <1>1, <1>3, NoReqType, OthersHold DEF Labels
<1>6. Holds(c)'
  BY <1>5 DEF Holds
<1>7. owners' \subseteq User
  BY <1>1, <1>2 DEF IamTypeOK
<1>8. \A s \in SessionId : Stored(s)' =>
        s \in issued' /\ sessions'[s].user \in Users' /\ sessions'[s].expires <= now' + TTL
  BY <1>1, <1>3, <1>4 DEF IamTypeOK
<1> QED
  BY <1>1, <1>3, <1>5, <1>6, <1>7, <1>8 DEF IamTypeOK

LEMMA LoginType ==
  ASSUME IamTypeOK, NEW c \in Caller,
         EmailNotAvailable(c) \/ Login(c) \/ InvalidCredentials(c) \/ Authenticated(c)
  PROVE  IamTypeOK'
<1>1. CASE EmailNotAvailable(c)
  BY <1>1, RefuseType DEF EmailNotAvailable
<1>2. CASE Login(c)
  <2>1. PICK a \in Address, p \in Password :
          Begin(c, "find", [NoReq EXCEPT !.doc = [email |-> a, password |-> p]])
    BY <1>2 DEF Login
  <2> DEFINE r == [NoReq EXCEPT !.doc = [email |-> a, password |-> p]]
  <2>2. r \in [user : UserId \cup {None}, session : SessionId \cup {None},
               doc : User \cup Session \cup {None}] /\ r.doc \in User
    BY DEF NoReq, User
  <2>3. Goto(c, "find", r) /\ UNCHANGED <<collections, now, history>>
    BY <2>1 DEF Begin
  <2>4. pc'[c] = "find" /\ req'[c] = r
    BY <2>3 DEF Goto, IamTypeOK
  <2> HIDE DEF r
  <2>5. Holds(c)'
    BY <2>2, <2>4 DEF Holds
  <2> QED
    BY <2>2, <2>3, <2>5, MoveType DEF Labels
<1>3. CASE InvalidCredentials(c)
  BY <1>3, RefuseType DEF InvalidCredentials
<1>4. CASE Authenticated(c)
  <2>1. PICK u \in Named(req[c].doc.email) :
          Goto(c, "open", [NoReq EXCEPT !.doc = [user |-> u, expires |-> now + TTL]])
    BY <1>4 DEF Authenticated
  <2> DEFINE r == [NoReq EXCEPT !.doc = [user |-> u, expires |-> now + TTL]]
  <2>2. u \in Users /\ u \in UserId
    BY DEF Named, Users
  <2>3. now + TTL \in 0..MaxTime + TTL /\ now + TTL <= now + TTL
    BY TimeAssumption DEF IamTypeOK
  <2>4. /\ r \in [user : UserId \cup {None}, session : SessionId \cup {None},
                  doc : User \cup Session \cup {None}]
        /\ r.doc \in Session /\ r.doc.user = u /\ r.doc.expires = now + TTL
    BY <2>2, <2>3 DEF NoReq, Session
  <2>5. UNCHANGED <<collections, now, history>>
    BY <1>4 DEF Authenticated
  <2>6. pc'[c] = "open" /\ req'[c] = r
    BY <2>1 DEF Goto, IamTypeOK
  <2>7. Users' = Users /\ now' = now
    BY <2>5 DEF Users, collections
  <2> HIDE DEF r
  <2>8. Holds(c)'
    BY <2>2, <2>3, <2>4, <2>6, <2>7 DEF Holds
  <2> QED
    BY <2>1, <2>4, <2>5, <2>8, MoveType DEF Labels, r
<1> QED
  BY <1>1, <1>2, <1>3, <1>4

LEMMA CreateSessionType ==
  ASSUME IamTypeOK, NEW c \in Caller, CreateSession(c)
  PROVE  IamTypeOK'
<1>1. PICK s \in SessionId \ issued :
        sessions' = [sessions EXCEPT ![s] = req[c].doc] /\ issued' = issued \cup {s}
  BY DEF CreateSession
<1>2. /\ pc[c] = "open" /\ Goto(c, "idle", NoReq)
      /\ UNCHANGED <<users, indexed, now, ended, owners>>
  BY DEF CreateSession
<1>3. /\ req[c].doc \in Session /\ req[c].doc.user \in Users
      /\ req[c].doc.expires <= now + TTL
  BY <1>2 DEF IamTypeOK, Holds
<1>4. Users' = Users /\ now' = now
  BY <1>2 DEF Users
<1>5. sessions \in [SessionId -> Session \cup {None}]
  BY DEF IamTypeOK
<1>6. sessions' \in [SessionId -> Session \cup {None}]
  BY <1>1, <1>3, <1>5
<1>7. \A t \in SessionId : Stored(t)' =>
        t \in issued' /\ sessions'[t].user \in Users' /\ sessions'[t].expires <= now' + TTL
  <2> SUFFICES ASSUME NEW t \in SessionId, Stored(t)'
               PROVE  t \in issued' /\ sessions'[t].user \in Users' /\ sessions'[t].expires <= now' + TTL
    OBVIOUS
  <2>1. CASE t = s
    BY <2>1, <1>1, <1>3, <1>4, <1>5
  <2>2. CASE t # s
    <3>1. sessions'[t] = sessions[t] /\ Stored(t)
      BY <2>2, <1>1, <1>5 DEF Stored
    <3> QED
      BY <3>1, <1>1, <1>4 DEF IamTypeOK
  <2> QED
    BY <2>1, <2>2
<1>8. /\ pc' \in [Caller -> Labels]
      /\ req' \in [Caller -> [user : UserId \cup {None}, session : SessionId \cup {None},
                              doc : User \cup Session \cup {None}]]
      /\ pc'[c] = "idle" /\ req'[c] = NoReq
      /\ \A b \in Caller \ {c} : Holds(b)'
  BY <1>1, <1>2, <1>4, NoReqType, OthersHold DEF Labels
<1>9. Holds(c)'
  BY <1>8 DEF Holds
<1> QED
  BY <1>1, <1>2, <1>4, <1>6, <1>7, <1>8, <1>9 DEF IamTypeOK

LEMMA RequestType ==
  ASSUME IamTypeOK, NEW c \in Caller,
         Request(c) \/ SessionRefused(c) \/ SessionFound(c) \/ PrincipalFound(c) \/ OtherHandler(c)
  PROVE  IamTypeOK'
<1>1. CASE Request(c)
  <2>1. PICK s \in SessionId : Begin(c, "check", [NoReq EXCEPT !.session = s])
    BY <1>1 DEF Request
  <2> DEFINE r == [NoReq EXCEPT !.session = s]
  <2>2. r \in [user : UserId \cup {None}, session : SessionId \cup {None},
               doc : User \cup Session \cup {None}] /\ r.session = s
    BY DEF NoReq
  <2>3. Goto(c, "check", r) /\ UNCHANGED <<collections, now, history>>
    BY <2>1 DEF Begin
  <2>4. pc'[c] = "check" /\ req'[c] = r
    BY <2>3 DEF Goto, IamTypeOK
  <2> HIDE DEF r
  <2>5. Holds(c)'
    BY <2>2, <2>4 DEF Holds
  <2> QED
    BY <2>2, <2>3, <2>5, MoveType DEF Labels
<1>2. CASE SessionRefused(c) \/ OtherHandler(c)
  BY <1>2, RefuseType DEF SessionRefused, OtherHandler
<1>3. CASE SessionFound(c)
  <2> DEFINE s == req[c].session
             r == [req[c] EXCEPT !.user = sessions[s].user]
  <2>1. /\ pc[c] = "check" /\ Admits(s) /\ Goto(c, "principal", r)
        /\ UNCHANGED <<collections, now, history>>
    BY <1>3 DEF SessionFound
  <2>2. s \in SessionId
    BY <2>1 DEF IamTypeOK, Holds
  <2>3. s \in issued /\ sessions[s].user \in Users
    BY <2>1, <2>2 DEF IamTypeOK, Admits
  <2>4. /\ r \in [user : UserId \cup {None}, session : SessionId \cup {None},
                  doc : User \cup Session \cup {None}]
        /\ r.session = s /\ r.user = sessions[s].user
    BY <2>3 DEF IamTypeOK, Users
  <2>5. pc'[c] = "principal" /\ req'[c] = r
    BY <2>1 DEF Goto, IamTypeOK
  <2>6. Users' = Users /\ issued' = issued
    BY <2>1 DEF Users, collections, history
  <2> HIDE DEF r, s
  <2>7. Holds(c)'
    BY <2>3, <2>4, <2>5, <2>6 DEF Holds
  <2> QED
    BY <2>1, <2>4, <2>7, MoveType DEF Labels
<1>4. CASE PrincipalFound(c)
  <2>1. PICK label \in {"delete", "other"} : Goto(c, label, req[c])
    BY <1>4 DEF PrincipalFound
  <2>2. pc[c] = "principal" /\ UNCHANGED <<collections, now, history>>
    BY <1>4 DEF PrincipalFound
  <2>3. req[c].session \in issued /\ req[c].user \in Users
    BY <2>2 DEF IamTypeOK, Holds
  <2>4. pc'[c] = label /\ req'[c] = req[c]
    BY <2>1 DEF Goto, IamTypeOK
  <2>5. Users' = Users /\ issued' = issued
    BY <2>2 DEF Users, collections, history
  <2>6. Holds(c)'
    BY <2>3, <2>4, <2>5 DEF Holds
  <2>7. req[c] \in [user : UserId \cup {None}, session : SessionId \cup {None},
                    doc : User \cup Session \cup {None}]
    BY DEF IamTypeOK
  <2> QED
    BY <2>1, <2>2, <2>6, <2>7, MoveType DEF Labels
<1> QED
  BY <1>1, <1>2, <1>3, <1>4

LEMMA DeleteType ==
  ASSUME IamTypeOK, NEW c \in Caller, DeleteSession(c) \/ DeleteUnacknowledged(c)
  PROVE  IamTypeOK'
<1> DEFINE s == req[c].session
<1>1. /\ pc[c] = "delete" /\ Goto(c, "idle", NoReq)
      /\ sessions' = [sessions EXCEPT ![s] = None]
      /\ UNCHANGED <<users, indexed, now, issued, owners>>
      /\ ended' \in {ended, ended \cup {s}}
  BY DEF DeleteSession, DeleteUnacknowledged, Delete, history
<1>2. s \in issued
  BY <1>1 DEF IamTypeOK, Holds
<1> HIDE DEF s
<1>3. Users' = Users
  BY <1>1 DEF Users
<1>4. sessions' \in [SessionId -> Session \cup {None}]
  BY <1>1 DEF IamTypeOK
<1>5. \A t \in SessionId : Stored(t)' => Stored(t) /\ sessions'[t] = sessions[t]
  BY <1>1 DEF IamTypeOK, Stored
<1>6. \A t \in SessionId : Stored(t)' =>
        t \in issued' /\ sessions'[t].user \in Users' /\ sessions'[t].expires <= now' + TTL
  BY <1>1, <1>3, <1>5 DEF IamTypeOK
<1>7. /\ pc' \in [Caller -> Labels]
      /\ req' \in [Caller -> [user : UserId \cup {None}, session : SessionId \cup {None},
                              doc : User \cup Session \cup {None}]]
      /\ pc'[c] = "idle" /\ req'[c] = NoReq
      /\ \A b \in Caller \ {c} : Holds(b)'
  BY <1>1, <1>3, NoReqType, OthersHold DEF Labels
<1>8. Holds(c)'
  BY <1>7 DEF Holds
<1> QED
  BY <1>1, <1>2, <1>3, <1>4, <1>6, <1>7, <1>8 DEF IamTypeOK

LEMMA FailType ==
  ASSUME IamTypeOK, NEW c \in Caller, ReadFails(c) \/ WriteFails(c)
  PROVE  IamTypeOK'
  BY RefuseType DEF ReadFails, WriteFails

LEMMA TickType ==
  ASSUME IamTypeOK, Tick
  PROVE  IamTypeOK'
<1>1. /\ now < MaxTime /\ now' = now + 1 /\ now \in Nat
      /\ UNCHANGED <<users, indexed, sessions, pc, req, issued, ended, owners>>
  BY TimeAssumption DEF Tick, collections, history, IamTypeOK
<1>2. Users' = Users /\ \A s \in SessionId : Stored(s)' <=> Stored(s)
  BY <1>1 DEF Users, Stored
<1>3. now' \in 0..MaxTime
  BY <1>1, TimeAssumption
<1>4. \A e \in 0..MaxTime + TTL : e <= now + TTL => e <= now' + TTL
  BY <1>1, TimeAssumption
<1>5. \A s \in SessionId : Stored(s) => sessions[s] \in Session
  BY DEF IamTypeOK, Stored
<1>6. \A s \in SessionId : Stored(s)' =>
        s \in issued' /\ sessions'[s].user \in Users' /\ sessions'[s].expires <= now' + TTL
  BY <1>1, <1>2, <1>4, <1>5 DEF IamTypeOK, Session
<1>7. \A b \in Caller : Holds(b)'
  <2> SUFFICES ASSUME NEW b \in Caller PROVE Holds(b)'
    OBVIOUS
  <2>1. Holds(b)
    BY DEF IamTypeOK
  <2>2. pc[b] = "open" => req[b].doc.expires <= now' + TTL
    BY <2>1, <1>4 DEF Holds, Session
  <2> QED
    BY <2>1, <2>2, <1>1, <1>2 DEF Holds
<1> QED
  BY <1>1, <1>2, <1>3, <1>6, <1>7 DEF IamTypeOK

LEMMA RestartType ==
  ASSUME IamTypeOK, Restart
  PROVE  IamTypeOK'
<1>1. /\ UNCHANGED <<users, sessions, now, issued, ended, owners>>
      /\ pc' = [c \in Caller |-> "idle"] /\ req' = [c \in Caller |-> NoReq]
  BY DEF Restart, history
<1>2. indexed' \in BOOLEAN
  <2>1. indexed' = indexed \/ indexed' = (indexed \/ Indexable)
    BY DEF Restart
  <2>2. indexed \in BOOLEAN /\ (indexed \/ Indexable) \in BOOLEAN
    BY DEF IamTypeOK
  <2> QED
    BY <2>1, <2>2
<1>3. Users' = Users /\ \A s \in SessionId : Stored(s)' <=> Stored(s)
  BY <1>1 DEF Users, Stored
<1>4. \A c \in Caller : Holds(c)'
  BY <1>1 DEF Holds
<1>5. /\ pc' \in [Caller -> Labels]
      /\ req' \in [Caller -> [user : UserId \cup {None}, session : SessionId \cup {None},
                              doc : User \cup Session \cup {None}]]
  BY <1>1, NoReqType DEF Labels
<1> QED
  BY <1>1, <1>2, <1>3, <1>4, <1>5 DEF IamTypeOK

LEMMA StutterType ==
  ASSUME IamTypeOK, UNCHANGED vars
  PROVE  IamTypeOK'
  BY DEF vars, collections, history, IamTypeOK, Users, Stored, Holds

LEMMA NextType ==
  ASSUME IamTypeOK, [Next]_vars
  PROVE  IamTypeOK'
<1>1. ASSUME NEW c \in Caller, Step(c) PROVE IamTypeOK'
  BY <1>1, BootstrapType, CreateType, LoginType, CreateSessionType, RequestType,
     DeleteType, FailType DEF Step
<1> QED
  BY <1>1, TickType, RestartType, StutterType DEF Next

(* Every variable keeps its type whatever fails: no step of a request works *)
(* on a document that is not there, and the user of a session exists.       *)
THEOREM IamTypeCorrect == Spec => []IamTypeOK
<1>1. Init => IamTypeOK
  BY InitType
<1>2. IamTypeOK /\ [Next]_vars => IamTypeOK'
  BY NextType
<1> QED
  BY <1>1, <1>2, PTL DEF Spec

-----------------------------------------------------------------------------
(* Bootstrap creates no more users than requests run at once.              *)

\* Requests that have found no user and are about to create one.
Creating == {c \in Caller : pc[c] = "create"}

\* All of them may still succeed.
CountInv ==
  /\ IsFiniteSet(Users)
  /\ Cardinality(Users) + Cardinality(Creating) <= Cardinality(Caller)

LEMMA CreatingFinite ==
  ASSUME NEW C \in SUBSET Caller
  PROVE  /\ IsFiniteSet(C) /\ Cardinality(C) \in Nat
         /\ Cardinality(Caller) \in Nat /\ Cardinality(C) <= Cardinality(Caller)
  BY CallerAssumption, FS_Subset, FS_CardinalityType

\* What the steps that create no user leave alone.
LEMMA StepFrame ==
  ASSUME IamTypeOK, NEW c \in Caller, Step(c)
  PROVE  \/ CreateUser(c) \/ CreateUnacknowledged(c)
         \/ /\ UNCHANGED <<users, indexed, owners>>
            /\ CountNone(c) \/ Creating' \subseteq Creating
<1>1. ASSUME NEW label \in Labels \ {"create"}, NEW r, Goto(c, label, r)
      PROVE  Creating' \subseteq Creating
  BY <1>1 DEF Goto, Creating, IamTypeOK
<1>2. \A label, r : Begin(c, label, r) =>
        Goto(c, label, r) /\ UNCHANGED <<users, indexed, owners>>
  BY DEF Begin, collections, history
<1>3. Refuse(c) => Creating' \subseteq Creating /\ UNCHANGED <<users, indexed, owners>>
  BY <1>1 DEF Refuse, Labels, collections, history
<1>4. CASE Bootstrap(c) \/ Login(c) \/ Request(c)
  BY <1>1, <1>2, <1>4 DEF Bootstrap, Login, Request, Labels
<1>5. CASE \/ CountSome(c) \/ EmailNotAvailable(c) \/ InvalidCredentials(c)
           \/ SessionRefused(c) \/ OtherHandler(c) \/ ReadFails(c) \/ WriteFails(c)
  BY <1>3, <1>5 DEF CountSome, EmailNotAvailable, InvalidCredentials, SessionRefused,
     OtherHandler, ReadFails, WriteFails
<1>6. CASE Authenticated(c)
  <2>1. UNCHANGED <<users, indexed, owners>>
    BY <1>6 DEF Authenticated, collections, history
  <2>2. \E r : Goto(c, "open", r)
    BY <1>6 DEF Authenticated
  <2> QED
    BY <1>1, <2>1, <2>2 DEF Labels
<1>7. CASE SessionFound(c) \/ PrincipalFound(c)
  <2>1. UNCHANGED <<users, indexed, owners>>
    BY <1>7 DEF SessionFound, PrincipalFound, collections, history
  <2>2. \E label \in {"principal", "delete", "other"} : \E r : Goto(c, label, r)
    BY <1>7 DEF SessionFound, PrincipalFound
  <2> QED
    BY <1>1, <2>1, <2>2 DEF Labels
<1>8. CASE CreateSession(c) \/ DeleteSession(c) \/ DeleteUnacknowledged(c)
  <2>1. UNCHANGED <<users, indexed, owners>> /\ Goto(c, "idle", NoReq)
    BY <1>8 DEF CreateSession, DeleteSession, DeleteUnacknowledged, history
  <2> QED
    BY <1>1, <2>1 DEF Labels
<1>9. CASE CountNone(c)
  BY <1>9 DEF CountNone, collections, history
<1> QED
  BY <1>4, <1>5, <1>6, <1>7, <1>8, <1>9 DEF Step

\* A created user takes the place of the request that created it.
LEMMA CreateCounts ==
  ASSUME IamTypeOK, CountInv, NEW c \in Caller, CreateUser(c) \/ CreateUnacknowledged(c)
  PROVE  CountInv'
<1>1. pc[c] = "create" /\ Insert(c) /\ pc' = [pc EXCEPT ![c] = "idle"]
  BY DEF CreateUser, CreateUnacknowledged, Goto
<1>2. req[c].doc \in User
  BY <1>1 DEF IamTypeOK, Holds
<1>3. PICK u \in UserId \ Users : Users' = Users \cup {u}
  BY <1>1, <1>2, InsertAdds
<1>4. IsFiniteSet(Users') /\ Cardinality(Users') = Cardinality(Users) + 1
  BY <1>3, FS_AddElement DEF CountInv
<1>5. c \in Creating /\ Creating' = Creating \ {c}
  BY <1>1 DEF Creating, IamTypeOK
<1>6. Creating \in SUBSET Caller
  BY DEF Creating
<1>7. Cardinality(Creating') = Cardinality(Creating) - 1
  BY <1>5, <1>6, CreatingFinite, FS_RemoveElement
<1>8. Cardinality(Users) \in Nat /\ Cardinality(Creating) \in Nat /\ Cardinality(Caller) \in Nat
  BY <1>6, CreatingFinite, FS_CardinalityType DEF CountInv
<1> QED
  BY <1>4, <1>7, <1>8 DEF CountInv

LEMMA FewerCreating ==
  ASSUME CountInv, Users' = Users, Creating' \subseteq Creating
  PROVE  CountInv'
<1>1. Creating \in SUBSET Caller
  BY DEF Creating
<1>2. IsFiniteSet(Creating) /\ Creating' \in SUBSET Creating
  BY <1>1, CreatingFinite
<1>3. /\ Cardinality(Creating') \in Nat /\ Cardinality(Creating) \in Nat
      /\ Cardinality(Creating') <= Cardinality(Creating)
  BY <1>2, FS_Subset, FS_CardinalityType
<1>4. Cardinality(Users) \in Nat /\ Cardinality(Caller) \in Nat
  BY CallerAssumption, FS_CardinalityType DEF CountInv
<1> QED
  BY <1>3, <1>4 DEF CountInv

LEMMA NextCounts ==
  ASSUME IamTypeOK, CountInv, [Next]_vars
  PROVE  CountInv'
<1>1. ASSUME NEW c \in Caller, Step(c) PROVE CountInv'
  <2>1. CASE CreateUser(c) \/ CreateUnacknowledged(c)
    BY <2>1, CreateCounts
  <2>2. CASE CountNone(c)
    <3>1. Users = {} /\ Users' = {}
      BY <2>2 DEF CountNone, Users, collections
    <3>2. Creating' \in SUBSET Caller
      BY DEF Creating
    <3>3. Cardinality(Creating') \in Nat /\ Cardinality(Creating') <= Cardinality(Caller)
      BY <3>2, CreatingFinite
    <3>4. IsFiniteSet(Users') /\ Cardinality(Users') = 0
      BY <3>1, FS_EmptySet
    <3> QED
      BY <3>3, <3>4 DEF CountInv
  <2>3. CASE UNCHANGED users /\ Creating' \subseteq Creating
    BY <2>3, FewerCreating DEF Users
  <2> QED
    BY <1>1, <2>1, <2>2, <2>3, StepFrame
<1>2. CASE Tick \/ UNCHANGED vars
  BY <1>2, FewerCreating DEF Tick, vars, collections, Users, Creating
<1>3. CASE Restart
  <2>1. Users' = Users /\ Creating' = {}
    BY <1>3 DEF Restart, Users, Creating
  <2> QED
    BY <2>1, FewerCreating
<1> QED
  BY <1>1, <1>2, <1>3 DEF Next

(* The bootstrap endpoint creates no more users than the requests that run  *)
(* at once, although the count and the insert are separate calls, and       *)
(* whatever is repeated, fails or is cut off.                               *)
THEOREM BootstrapBounded == Spec => []UsersBounded
<1>1. Init => IamTypeOK /\ CountInv
  <2> SUFFICES ASSUME Init PROVE CountInv
    BY InitType
  <2>1. Users = {} /\ Creating = {}
    BY DEF Init, Users, Creating
  <2>2. Cardinality(Caller) \in Nat
    BY CallerAssumption, FS_CardinalityType
  <2> QED
    BY <2>1, <2>2, FS_EmptySet DEF CountInv
<1>2. IamTypeOK /\ CountInv /\ [Next]_vars => IamTypeOK' /\ CountInv'
  BY NextType, NextCounts
<1>3. CountInv => UsersBounded
  <2> SUFFICES ASSUME CountInv PROVE UsersBounded
    OBVIOUS
  <2>1. Creating \in SUBSET Caller
    BY DEF Creating
  <2>2. Cardinality(Users) \in Nat /\ Cardinality(Creating) \in Nat /\ Cardinality(Caller) \in Nat
    BY <2>1, CreatingFinite, FS_CardinalityType DEF CountInv
  <2> QED
    BY <2>2 DEF CountInv, UsersBounded
<1> QED
  BY <1>1, <1>2, <1>3, PTL DEF Spec

-----------------------------------------------------------------------------
(* Owners, and sessions that have ended.                                   *)

\* The user that was promised is there, and the index has none besides.
OwnersStored ==
  \A o \in owners : \E u \in Users :
    users[u].email = LowerCase(o.email) /\ users[u].password = o.password

IndexKept == indexed => Indexable

LEMMA CreateKeepsOwners ==
  ASSUME IamTypeOK, OwnersStored, IndexKept,
         NEW c \in Caller, CreateUser(c) \/ CreateUnacknowledged(c)
  PROVE  OwnersStored' /\ IndexKept'
<1>1. /\ pc[c] = "create" /\ Insert(c) /\ indexed' = indexed
      /\ owners' \in {owners, owners \cup {req[c].doc}}
  BY DEF CreateUser, CreateUnacknowledged, Insert
<1>2. req[c].doc \in User
  BY <1>1 DEF IamTypeOK, Holds
<1>3. PICK u \in UserId \ Users :
        /\ users' = [users EXCEPT ![u] = [req[c].doc EXCEPT !.email = LowerCase(@)]]
        /\ Users' = Users \cup {u}
        /\ users'[u].email = LowerCase(req[c].doc.email)
        /\ users'[u].password = req[c].doc.password
  BY <1>1, <1>2, InsertAdds
<1>4. \A v \in Users : v # u /\ users'[v] = users[v]
  BY <1>3 DEF IamTypeOK, Users
<1>5. OwnersStored'
  BY <1>1, <1>3, <1>4 DEF OwnersStored
<1>6. indexed => \A v \in Users : users[v].email # LowerCase(req[c].doc.email)
  BY <1>1, <1>2, InsertAdds DEF Taken
<1>7. IndexKept'
  BY <1>1, <1>3, <1>4, <1>6 DEF IndexKept, Indexable
<1> QED
  BY <1>5, <1>7

LEMMA NextKeepsOwners ==
  ASSUME IamTypeOK, OwnersStored, IndexKept, [Next]_vars
  PROVE  OwnersStored' /\ IndexKept'
<1>1. ASSUME UNCHANGED <<users, owners>> PROVE OwnersStored' /\ (Indexable' <=> Indexable)
  BY <1>1 DEF OwnersStored, Indexable, Users
<1>2. ASSUME NEW c \in Caller, Step(c) PROVE OwnersStored' /\ IndexKept'
  BY <1>1, <1>2, StepFrame, CreateKeepsOwners DEF IndexKept
<1>3. CASE Tick \/ UNCHANGED vars
  BY <1>1, <1>3 DEF Tick, vars, collections, history, IndexKept
<1>4. CASE Restart
  <2>1. UNCHANGED <<users, owners>> /\ (indexed' = indexed \/ indexed' = (indexed \/ Indexable))
    BY <1>4 DEF Restart, history
  <2>2. OwnersStored' /\ (Indexable' <=> Indexable)
    BY <1>1, <2>1
  <2>3. ASSUME indexed' PROVE indexed \/ Indexable
    BY <2>1, <2>3
  <2> QED
    BY <2>2, <2>3 DEF IndexKept
<1> QED
  BY <1>2, <1>3, <1>4 DEF Next

(* Who was told that a user was created can log in while the unique index   *)
(* exists, however many bootstraps ran together, also when the index was    *)
(* only built later.                                                        *)
THEOREM OwnersKept == Spec => []OwnersCanLogIn
<1>1. Init => IamTypeOK /\ OwnersStored /\ IndexKept
  BY InitType DEF Init, OwnersStored, IndexKept, Indexable, Users
<1>2. IamTypeOK /\ OwnersStored /\ IndexKept /\ [Next]_vars
        => IamTypeOK' /\ OwnersStored' /\ IndexKept'
  BY NextType, NextKeepsOwners
<1>3. OwnersStored /\ IndexKept => OwnersCanLogIn
  BY DEF OwnersStored, IndexKept, Indexable, OwnersCanLogIn, Named
<1> QED
  BY <1>1, <1>2, <1>3, PTL DEF Spec

LEMMA NextEnds ==
  ASSUME IamTypeOK, EndedSessionsGone, [Next]_vars
  PROVE  EndedSessionsGone'
<1>1. ASSUME UNCHANGED <<sessions, ended>> PROVE EndedSessionsGone'
  BY <1>1 DEF EndedSessionsGone, Stored
<1>2. ASSUME NEW c \in Caller, Step(c) PROVE EndedSessionsGone'
  <2>1. CASE CreateSession(c)
    <3>1. PICK s \in SessionId \ issued : sessions' = [sessions EXCEPT ![s] = req[c].doc]
      BY <2>1 DEF CreateSession
    <3>2. ended' = ended /\ s \notin ended /\ ended \subseteq SessionId
      BY <2>1, <3>1 DEF CreateSession, IamTypeOK
    <3> QED
      BY <3>1, <3>2 DEF EndedSessionsGone, Stored, IamTypeOK
  <2>2. CASE DeleteSession(c) \/ DeleteUnacknowledged(c)
    <3> DEFINE s == req[c].session
    <3>1. /\ pc[c] = "delete" /\ sessions' = [sessions EXCEPT ![s] = None]
          /\ ended' \in {ended, ended \cup {s}}
      BY <2>2 DEF DeleteSession, DeleteUnacknowledged, Delete, history
    <3>2. s \in SessionId /\ ended \subseteq SessionId
      BY <3>1 DEF IamTypeOK, Holds
    <3> HIDE DEF s
    <3> QED
      BY <3>1, <3>2 DEF EndedSessionsGone, Stored, IamTypeOK
  <2>3. CASE Bootstrap(c) \/ Login(c) \/ Request(c)
    BY <1>1, <2>3 DEF Bootstrap, Login, Request, Begin, collections, history
  <2>4. CASE \/ CountSome(c) \/ EmailNotAvailable(c) \/ InvalidCredentials(c)
             \/ SessionRefused(c) \/ OtherHandler(c) \/ ReadFails(c) \/ WriteFails(c)
    BY <1>1, <2>4 DEF CountSome, EmailNotAvailable, InvalidCredentials, SessionRefused,
       OtherHandler, ReadFails, WriteFails, Refuse, collections, history
  <2>5. CASE CountNone(c) \/ Authenticated(c) \/ SessionFound(c) \/ PrincipalFound(c)
    BY <1>1, <2>5 DEF CountNone, Authenticated, SessionFound, PrincipalFound, collections, history
  <2>6. CASE CreateUser(c) \/ CreateUnacknowledged(c)
    BY <1>1, <2>6 DEF CreateUser, CreateUnacknowledged, Insert
  <2> QED
    BY <1>2, <2>1, <2>2, <2>3, <2>4, <2>5, <2>6 DEF Step
<1>3. CASE Tick \/ Restart \/ UNCHANGED vars
  BY <1>1, <1>3 DEF Tick, Restart, vars, collections, history
<1> QED
  BY <1>2, <1>3 DEF Next

(* A session whose logout was answered with success is gone for good.       *)
THEOREM LogoutFinal == Spec => []EndedSessionsGone
<1>1. Init => IamTypeOK /\ EndedSessionsGone
  BY InitType DEF Init, EndedSessionsGone
<1>2. IamTypeOK /\ EndedSessionsGone /\ [Next]_vars => IamTypeOK' /\ EndedSessionsGone'
  BY NextType, NextEnds
<1> QED
  BY <1>1, <1>2, PTL DEF Spec

-----------------------------------------------------------------------------
(* Iam implements Access: every step is one of Access or a stutter.        *)

AccessStep == Sessions!Next \/ UNCHANGED <<Status, Inside>>

LEMMA StatusStays ==
  ASSUME UNCHANGED <<sessions, now, issued>>
  PROVE  Status' = Status
  BY DEF Status, Stored

\* Who is inside after one request has moved.
LEMMA InsideMoves ==
  ASSUME IamTypeOK, NEW c \in Caller, NEW label, NEW r, Goto(c, label, r)
  PROVE  /\ Inside'[c] = IF label \in {"principal", "delete", "other"} THEN r.session ELSE None
         /\ \A d \in Caller \ {c} : Inside'[d] = Inside[d]
<1>1. /\ pc'[c] = label /\ req'[c] = r
      /\ \A d \in Caller \ {c} : pc'[d] = pc[d] /\ req'[d] = req[d]
  BY DEF Goto, IamTypeOK
<1> QED
  BY <1>1 DEF Inside

\* A request ends, or takes a step outside.
LEMMA OutsideLeaves ==
  ASSUME IamTypeOK, NEW c \in Caller, NEW label, NEW r, Goto(c, label, r),
         label \notin {"principal", "delete", "other"},
         UNCHANGED <<sessions, now, issued>>
  PROVE  AccessStep
<1>1. Status' = Status
  BY StatusStays
<1>2. Inside' = [d \in Caller |-> IF d \in {c} THEN None ELSE Inside[d]]
  BY InsideMoves DEF Inside
<1>3. Sessions!Leave({c})
  BY <1>1, <1>2 DEF Sessions!Leave
<1>4. {c} \in SUBSET Caller
  OBVIOUS
<1>5. Sessions!Next
  BY <1>3, <1>4 DEF Sessions!Next
<1> QED
  BY <1>5 DEF AccessStep

LEMMA OpenMaps ==
  ASSUME IamTypeOK, NEW c \in Caller, CreateSession(c)
  PROVE  AccessStep
<1>1. PICK s \in SessionId \ issued :
        sessions' = [sessions EXCEPT ![s] = req[c].doc] /\ issued' = issued \cup {s}
  BY DEF CreateSession
<1>2. pc[c] = "open" /\ Goto(c, "idle", NoReq) /\ now' = now
  BY DEF CreateSession
<1>3. Inside' = Inside
  <2>1. Inside[c] = None
    BY <1>2 DEF Inside
  <2>2. \A d \in Caller : Inside'[d] = Inside[d]
    BY <1>2, <2>1, InsideMoves
  <2> QED
    BY <2>2 DEF Inside
<1>4. \A t \in SessionId \ {s} : Status'[t] = Status[t]
  BY <1>1, <1>2 DEF Status, Stored, IamTypeOK
<1>5. Status[s] = "unused" /\ Status'[s] \in {"open", "closed"}
  BY <1>1 DEF Status
<1>6. CASE Status'[s] = "open"
  <2>1. Status' = [Status EXCEPT ![s] = "open"]
    BY <1>4, <1>6 DEF Status
  <2>2. Sessions!Open(s)
    BY <1>3, <1>5, <2>1 DEF Sessions!Open
  <2> QED
    BY <2>2 DEF Sessions!Next, AccessStep
<1>7. CASE Status'[s] = "closed"
  <2>1. Status' = [t \in SessionId |-> IF t \in {s} THEN "closed" ELSE Status[t]]
    BY <1>4, <1>7 DEF Status
  <2>2. Sessions!Expire({s}) /\ {s} \in SUBSET SessionId
    BY <1>3, <2>1 DEF Sessions!Expire
  <2>3. Sessions!Next
    BY <2>2 DEF Sessions!Next
  <2> QED
    BY <2>3 DEF AccessStep
<1> QED
  BY <1>5, <1>6, <1>7

LEMMA EnterMaps ==
  ASSUME IamTypeOK, NEW c \in Caller, SessionFound(c)
  PROVE  AccessStep
<1> DEFINE s == req[c].session
           r == [req[c] EXCEPT !.user = sessions[s].user]
<1>1. /\ pc[c] = "check" /\ Admits(s) /\ Goto(c, "principal", r)
      /\ UNCHANGED <<sessions, now, issued>>
  BY DEF SessionFound, collections, history
<1>2. s \in SessionId /\ r.session = s
  BY <1>1 DEF IamTypeOK, Holds
<1>3. Status' = Status
  BY <1>1, StatusStays
<1>4. Status[s] = "open"
  <2>1. s \in issued /\ Stored(s) /\ ~(sessions[s].expires < now) /\ sessions[s] \in Session
    BY <1>1, <1>2 DEF Admits, IsExpired, IamTypeOK, Stored
  <2>2. now <= sessions[s].expires
    BY <2>1, TimeAssumption DEF Session, IamTypeOK
  <2> QED
    BY <1>2, <2>1, <2>2 DEF Status
<1>5. Inside[c] = None
  BY <1>1 DEF Inside
<1> HIDE DEF s, r
<1>6. Inside' = [Inside EXCEPT ![c] = s]
  <2>1. Inside'[c] = s /\ \A d \in Caller \ {c} : Inside'[d] = Inside[d]
    BY <1>1, <1>2, InsideMoves
  <2>2. DOMAIN Inside = Caller /\ Inside' = [d \in Caller |-> Inside'[d]]
        /\ Inside = [d \in Caller |-> Inside[d]]
    BY DEF Inside
  <2> QED
    BY <2>1, <2>2
<1>7. Sessions!Enter(c, s)
  BY <1>3, <1>4, <1>5, <1>6 DEF Sessions!Enter
<1> QED
  BY <1>2, <1>7 DEF Sessions!Next, AccessStep

LEMMA LogOutMaps ==
  ASSUME IamTypeOK, NEW c \in Caller, DeleteSession(c) \/ DeleteUnacknowledged(c)
  PROVE  AccessStep
<1> DEFINE s == req[c].session
<1>1. /\ pc[c] = "delete" /\ Goto(c, "idle", NoReq)
      /\ sessions' = [sessions EXCEPT ![s] = None]
      /\ UNCHANGED <<now, issued>>
  BY DEF DeleteSession, DeleteUnacknowledged, Delete, history
<1>2. s \in issued /\ s \in SessionId /\ s # None /\ Inside[c] = s
  BY <1>1, NoneAssumption DEF IamTypeOK, Holds, Inside
<1> HIDE DEF s
<1>3. Inside' = [Inside EXCEPT ![c] = None]
  <2>1. Inside'[c] = None /\ \A d \in Caller \ {c} : Inside'[d] = Inside[d]
    BY <1>1, InsideMoves
  <2>2. DOMAIN Inside = Caller /\ Inside' = [d \in Caller |-> Inside'[d]]
        /\ Inside = [d \in Caller |-> Inside[d]]
    BY DEF Inside
  <2> QED
    BY <2>1, <2>2
<1>4. \A t \in SessionId \ {s} : Status'[t] = Status[t]
  BY <1>1 DEF Status, Stored, IamTypeOK
<1>5. Status'[s] = "closed"
  BY <1>1, <1>2 DEF Status, Stored, IamTypeOK
<1>6. Status' = [Status EXCEPT ![Inside[c]] = "closed"]
  BY <1>2, <1>4, <1>5 DEF Status
<1>7. Sessions!LogOut(c)
  BY <1>2, <1>3, <1>6 DEF Sessions!LogOut
<1> QED
  BY <1>7 DEF Sessions!Next, AccessStep

LEMMA TickMaps ==
  ASSUME IamTypeOK, Tick
  PROVE  AccessStep
<1> DEFINE S == {s \in SessionId : Status'[s] # Status[s]}
<1>1. /\ UNCHANGED <<sessions, pc, req, issued>> /\ now' = now + 1 /\ now \in Nat
  BY TimeAssumption DEF Tick, collections, history, IamTypeOK
<1>2. Inside' = Inside
  BY <1>1 DEF Inside
<1>3. ASSUME NEW s \in S PROVE Status'[s] = "closed"
  <2>1. s \in issued /\ Stored(s)
    BY <1>1 DEF Status, Stored
  <2>2. sessions[s].expires \in Nat
    BY <2>1, TimeAssumption DEF IamTypeOK, Stored, Session
  <2>3. now' <= sessions[s].expires => now <= sessions[s].expires
    BY <1>1, <2>2
  <2> QED
    BY <1>1, <2>1, <2>3 DEF Status, Stored
<1>4. Status' = [s \in SessionId |-> IF s \in S THEN "closed" ELSE Status[s]]
  BY <1>3 DEF Status
<1>5. Sessions!Expire(S) /\ S \in SUBSET SessionId
  BY <1>2, <1>4 DEF Sessions!Expire
<1> HIDE DEF S
<1>6. Sessions!Next
  BY <1>5 DEF Sessions!Next
<1> QED
  BY <1>6 DEF AccessStep

LEMMA RestartMaps ==
  ASSUME IamTypeOK, Restart
  PROVE  AccessStep
<1>1. UNCHANGED <<sessions, now, issued>> /\ pc' = [c \in Caller |-> "idle"]
  BY DEF Restart, history
<1>2. Inside' = [c \in Caller |-> IF c \in Caller THEN None ELSE Inside[c]]
  BY <1>1 DEF Inside
<1>3. Sessions!Leave(Caller)
  BY <1>1, <1>2, StatusStays DEF Sessions!Leave
<1>4. Sessions!Next
  BY <1>3 DEF Sessions!Next
<1> QED
  BY <1>4 DEF AccessStep

LEMMA StepMaps ==
  ASSUME IamTypeOK, NEW c \in Caller, Step(c)
  PROVE  AccessStep
<1>1. CASE CreateSession(c) \/ SessionFound(c) \/ DeleteSession(c) \/ DeleteUnacknowledged(c)
  BY <1>1, OpenMaps, EnterMaps, LogOutMaps
<1>2. ASSUME Refuse(c) PROVE AccessStep
  BY <1>2, OutsideLeaves DEF Refuse, collections, history
<1>3. CASE \/ CountSome(c) \/ EmailNotAvailable(c) \/ InvalidCredentials(c)
           \/ SessionRefused(c) \/ OtherHandler(c) \/ ReadFails(c) \/ WriteFails(c)
  BY <1>2, <1>3 DEF CountSome, EmailNotAvailable, InvalidCredentials, SessionRefused,
     OtherHandler, ReadFails, WriteFails
<1>4. CASE Bootstrap(c) \/ Login(c) \/ Request(c)
  <2>1. UNCHANGED <<sessions, now, issued>>
    BY <1>4 DEF Bootstrap, Login, Request, Begin, collections, history
  <2>2. \E label \in {"count", "find", "check"} : \E r : Goto(c, label, r)
    BY <1>4 DEF Bootstrap, Login, Request, Begin
  <2> QED
    BY <2>1, <2>2, OutsideLeaves
<1>5. CASE CountNone(c) \/ Authenticated(c) \/ CreateUser(c) \/ CreateUnacknowledged(c)
  <2>1. UNCHANGED <<sessions, now, issued>>
    BY <1>5 DEF CountNone, Authenticated, CreateUser, CreateUnacknowledged, Insert,
       collections, history
  <2>2. \E label \in {"create", "open", "idle"} : \E r : Goto(c, label, r)
    BY <1>5 DEF CountNone, Authenticated, CreateUser, CreateUnacknowledged
  <2> QED
    BY <2>1, <2>2, OutsideLeaves
<1>6. CASE PrincipalFound(c)
  <2>1. PICK label \in {"delete", "other"} : Goto(c, label, req[c])
    BY <1>6 DEF PrincipalFound
  <2>2. pc[c] = "principal" /\ UNCHANGED <<sessions, now, issued>>
    BY <1>6 DEF PrincipalFound, collections, history
  <2>3. \A d \in Caller : Inside'[d] = Inside[d]
    BY <2>1, <2>2, InsideMoves DEF Inside
  <2>4. Inside' = Inside
    BY <2>3 DEF Inside
  <2> QED
    BY <2>2, <2>4, StatusStays DEF AccessStep
<1> QED
  BY <1>1, <1>3, <1>4, <1>5, <1>6 DEF Step

(* Requests are let in only with a session that is open at that moment, and *)
(* what has ended never opens again: Iam implements Access.                 *)
THEOREM AccessImplemented == Spec => AccessRefined
<1>1. Init => IamTypeOK /\ Sessions!Init
  BY InitType DEF Init, Sessions!Init, Status, Inside
<1>2. IamTypeOK /\ [Next]_vars => IamTypeOK' /\ [Sessions!Next]_(Sessions!accessVars)
  <2> SUFFICES ASSUME IamTypeOK, [Next]_vars
               PROVE  IamTypeOK' /\ AccessStep
    BY DEF AccessStep, Sessions!accessVars
  <2>1. CASE UNCHANGED vars
    <3>1. Status' = Status
      BY <2>1, StatusStays DEF vars, collections, history
    <3>2. Inside' = Inside
      BY <2>1 DEF vars, Inside
    <3> QED
      BY <3>1, <3>2, NextType DEF AccessStep
  <2> QED
    BY <2>1, NextType, StepMaps, TickMaps, RestartMaps DEF Next
<1> QED
  BY <1>1, <1>2, PTL DEF Spec, AccessRefined, Sessions!Spec
=============================================================================
