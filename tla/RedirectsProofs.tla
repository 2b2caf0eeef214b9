--------------------------- MODULE RedirectsProofs --------------------------
(***************************************************************************)
(* The safety of module Redirects for any number of writers, domains and   *)
(* redirects, with the unique index and without it, whatever calls fail    *)
(* and whenever the process restarts.                                      *)
(***************************************************************************)
EXTENDS Redirects, TLAPS

\* Lowering a domain yields a domain, and lowering it again changes nothing.
LEMMA LowerType == \A d \in Domain : ToLower(d) \in Domain /\ ToLower(ToLower(d)) = ToLower(d)
  BY DEF Domain, ToLower

\* The redirect of a request, with its domains lowered, can be stored.
LEMMA LoweredType ==
  ASSUME NEW c \in Command
  PROVE  Lowered(c) \in Redirect /\ ToLower(Lowered(c).source) = Lowered(c).source
  <1>1. c.source \in Domain /\ c.target \in Domain
    BY InputAssumption DEF Command
  <1>2. ToLower(c.source) \in Domain /\ ToLower(c.target) \in Domain
    BY <1>1, LowerType
  <1>3. Lowered(c) \in Redirect
    BY <1>2, StatusAssumption DEF Redirect, Command, Lowered
  <1> QED
    BY <1>1, <1>3, LowerType DEF Lowered

\* What the $set of an update leaves is a redirect.
LEMMA WrittenType ==
  ASSUME TypeOK, NEW i \in Id, NEW doc \in Redirect
  PROVE  /\ Written(i, doc) \in Redirect
         /\ Written(i, doc).source = doc.source
         /\ Written(i, doc).target = doc.target
         /\ Written(i, doc).status = doc.status
  BY DEF Written, TypeOK, Redirect

-----------------------------------------------------------------------------
(* Type correctness.                                                       *)

\* A writer without a request has the type of one.
LEMMA NoReqType ==
  NoReq \in [op : {"none", "create", "update", "delete"},
             id : Id \cup {None}, doc : Redirect \cup {None}]
  BY DEF NoReq

\* The requests have their type still when one of them gets its document.
LEMMA DocumentedType ==
  ASSUME NEW r \in [Writer -> [op : {"none", "create", "update", "delete"},
                               id : Id \cup {None}, doc : Redirect \cup {None}]],
         NEW w \in Writer, NEW d \in Redirect
  PROVE  [r EXCEPT ![w].doc = d]
           \in [Writer -> [op : {"none", "create", "update", "delete"},
                           id : Id \cup {None}, doc : Redirect \cup {None}]]
  <1>1. [r[w] EXCEPT !.doc = d]
          \in [op : {"none", "create", "update", "delete"},
               id : Id \cup {None}, doc : Redirect \cup {None}]
    OBVIOUS
  <1> QED
    BY <1>1

\* The requests have their type still when one of them gets its id.
LEMMA IdentifiedType ==
  ASSUME NEW r \in [Writer -> [op : {"none", "create", "update", "delete"},
                               id : Id \cup {None}, doc : Redirect \cup {None}]],
         NEW w \in Writer, NEW i \in Id
  PROVE  [r EXCEPT ![w].id = i]
           \in [Writer -> [op : {"none", "create", "update", "delete"},
                           id : Id \cup {None}, doc : Redirect \cup {None}]]
  <1>1. [r[w] EXCEPT !.id = i]
          \in [op : {"none", "create", "update", "delete"},
               id : Id \cup {None}, doc : Redirect \cup {None}]
    OBVIOUS
  <1> QED
    BY <1>1

\* The initial state is type correct.
LEMMA InitType == RedirectsInit => TypeOK
  <1> SUFFICES ASSUME RedirectsInit PROVE TypeOK
    OBVIOUS
  <1>1. \A w \in Writer : Equipped(w)
    BY DEF RedirectsInit, Equipped, NoReq
  <1> QED
    BY <1>1, NoReqType DEF RedirectsInit, TypeOK, Labels

\* The documents and the request of an applied write.
LEMMA AppliedType ==
  ASSUME TypeOK, NEW w \in Writer, NEW i \in Target(w), pc[w] = "write", Apply(w, i)
  PROVE  /\ i \in Id
         /\ docs' \in [Id -> Redirect \cup {None}]
         /\ StoredIds' = StoredIds \cup {i}
         /\ req[w].doc \in Redirect
         /\ stale' \in [Writer -> BOOLEAN]
         /\ unchecked' \in BOOLEAN
         /\ crossed' \subseteq Id
  <1>1. req[w].doc \in Redirect
    BY DEF TypeOK, Equipped
  <1>2. i \in Id
    BY DEF TypeOK, Equipped, Target, StoredIds
  <1>3. Written(i, req[w].doc) \in Redirect
    BY <1>1, <1>2, WrittenType
  <1>4. docs' = [docs EXCEPT ![i] = Written(i, req[w].doc)]
    BY DEF Apply
  <1>5. docs' \in [Id -> Redirect \cup {None}]
    BY <1>2, <1>3, <1>4 DEF TypeOK
  <1>6. StoredIds' = StoredIds \cup {i}
    BY <1>2, <1>3, <1>4, NoRedirectAssumption DEF TypeOK, StoredIds
  <1>7. stale' \in [Writer -> BOOLEAN] /\ unchecked' \in BOOLEAN /\ crossed' \subseteq Id
    BY <1>2 DEF Apply, TypeOK
  <1> QED
    BY <1>1, <1>2, <1>5, <1>6, <1>7

\* What Answer does to the types.
LEMMA AnswerType ==
  ASSUME TypeOK, NEW w \in Writer, Answer(w), StoredIds \subseteq StoredIds'
  PROVE  /\ pc' \in [Writer -> Labels]
         /\ req' \in [Writer -> [op : {"none", "create", "update", "delete"},
                                 id : Id \cup {None}, doc : Redirect \cup {None}]]
         /\ at' \in [Writer -> Domain \cup {None}]
         /\ visited' \in [Writer -> SUBSET Domain]
         /\ \A v \in Writer : Equipped(v)'
  <1>1. pc' \in [Writer -> Labels]
    BY DEF Answer, Goto, TypeOK, Labels
  <1>2. req' \in [Writer -> [op : {"none", "create", "update", "delete"},
                             id : Id \cup {None}, doc : Redirect \cup {None}]]
    BY NoReqType DEF Answer, TypeOK
  <1>3. at' \in [Writer -> Domain \cup {None}] /\ visited' \in [Writer -> SUBSET Domain]
    BY DEF Answer, TypeOK
  <1>4. ASSUME NEW v \in Writer PROVE Equipped(v)'
    <2>1. CASE v = w
      BY <2>1 DEF Answer, Goto, TypeOK, Equipped, NoReq
    <2>2. CASE v # w
      <3>1. pc'[v] = pc[v] /\ req'[v] = req[v] /\ at'[v] = at[v]
        BY <2>2 DEF Answer, Goto, TypeOK
      <3> QED
        BY <3>1 DEF TypeOK, Equipped
    <2> QED
      BY <2>1, <2>2
  <1> QED
    BY <1>1, <1>2, <1>3, <1>4

\* A refused request leaves the types as they are.
LEMMA RefuseType ==
  ASSUME TypeOK, NEW w \in Writer, Refuse(w)
  PROVE  TypeOK'
  <1>1. StoredIds' = StoredIds
    BY DEF Refuse, store, StoredIds
  <1>2. /\ docs' = docs /\ indexed' = indexed /\ unchecked' = unchecked
        /\ behind' = behind /\ crossed' = crossed
        /\ stale' \in [Writer -> BOOLEAN] /\ Answer(w)
    BY DEF Refuse, store, trail, TypeOK
  <1> QED
    BY <1>1, <1>2, AnswerType DEF TypeOK

\* Steps that move w on to another label: the others stay as they are.
LEMMA MoveType ==
  ASSUME TypeOK, NEW w \in Writer, NEW label \in Labels,
         pc' = [pc EXCEPT ![w] = label],
         docs' = docs, indexed' = indexed, unchecked' = unchecked,
         behind' = behind, crossed' = crossed,
         \A v \in Writer \ {w} : req'[v] = req[v] /\ at'[v] = at[v],
         req' \in [Writer -> [op : {"none", "create", "update", "delete"},
                              id : Id \cup {None}, doc : Redirect \cup {None}]],
         at' \in [Writer -> Domain \cup {None}],
         visited' \in [Writer -> SUBSET Domain],
         stale' \in [Writer -> BOOLEAN],
         Equipped(w)'
  PROVE  TypeOK'
  <1>1. StoredIds' = StoredIds
    BY DEF StoredIds
  <1>2. pc' \in [Writer -> Labels]
    BY DEF TypeOK
  <1>3. ASSUME NEW v \in Writer PROVE Equipped(v)'
    <2>1. CASE v # w
      <3>1. pc'[v] = pc[v] /\ req'[v] = req[v] /\ at'[v] = at[v]
        BY <2>1 DEF TypeOK
      <3> QED
        BY <1>1, <3>1 DEF TypeOK, Equipped
    <2> QED
      BY <2>1
  <1> QED
    BY <1>2, <1>3 DEF TypeOK

\* A request that arrives has the type of its operation.
LEMMA ArriveType ==
  ASSUME TypeOK, NEW w \in Writer, Arrive(w)
  PROVE  TypeOK'
  <1>1. ASSUME NEW op \in {"create", "update", "delete"}, NEW i \in Id \cup {None},
               NEW doc \in Redirect \cup {None}, NEW label \in {"count", "find"},
               Begin(w, op, i, doc, label),
               label = "count" => doc # None,
               op # "create" => i \in StoredIds,
               label = "find" => i \in StoredIds
        PROVE  TypeOK'
    <2>1. pc' = [pc EXCEPT ![w] = label] /\ label \in Labels
      BY <1>1 DEF Begin, Goto, Labels
    <2>2. req' = [req EXCEPT ![w] = [op |-> op, id |-> i, doc |-> doc]]
      BY <1>1 DEF Begin
    <2>3. req' \in [Writer -> [op : {"none", "create", "update", "delete"},
                               id : Id \cup {None}, doc : Redirect \cup {None}]]
      BY <2>2 DEF TypeOK
    <2>4. /\ docs' = docs /\ indexed' = indexed /\ at' = at /\ visited' = visited
          /\ stale' = stale /\ unchecked' = unchecked
          /\ behind' = behind /\ crossed' = crossed
      BY <1>1 DEF Begin, store, trail
    <2>5. Equipped(w)'
      BY <1>1, <2>1, <2>2, <2>4 DEF Equipped, TypeOK, StoredIds
    <2>6. \A v \in Writer \ {w} : req'[v] = req[v] /\ at'[v] = at[v]
      BY <2>2, <2>4 DEF TypeOK
    <2> QED
      BY <2>1, <2>3, <2>4, <2>5, <2>6, MoveType DEF TypeOK
  <1>2. CASE Post(w)
    <2>1. PICK c \in Command : Begin(w, "create", None, Lowered(c), "count")
      BY <1>2 DEF Post
    <2> QED
      BY <1>1, <2>1, LoweredType, NoRedirectAssumption
  <1>3. CASE Put(w)
    <2>1. PICK i \in StoredIds, c \in Command : Begin(w, "update", i, Lowered(c), "count")
      BY <1>3 DEF Put
    <2> QED
      BY <1>1, <2>1, LoweredType, NoRedirectAssumption DEF StoredIds
  <1>4. CASE Delete(w)
    <2>1. PICK i \in StoredIds : Begin(w, "delete", i, None, "find")
      BY <1>4 DEF Delete
    <2> QED
      BY <1>1, <2>1 DEF StoredIds
  <1> QED
    BY <1>2, <1>3, <1>4 DEF Arrive

\* Each step of a writer preserves the types.
LEMMA ProceedType ==
  ASSUME TypeOK, NEW w \in Writer, Proceed(w)
  PROVE  TypeOK'
  <1>1. CASE CountSources(w)
    <2>1. CASE Refuse(w)
      BY <2>1, RefuseType
    <2>2. CASE ~Refuse(w)
      <3>1. /\ pc[w] = "count" /\ pc' = [pc EXCEPT ![w] = "walk"]
            /\ at' = [at EXCEPT ![w] = req[w].doc.target]
            /\ stale' = [stale EXCEPT ![w] = FALSE]
            /\ UNCHANGED <<docs, indexed, req, visited, unchecked, behind, crossed>>
        BY <1>1, <2>2 DEF CountSources, Goto, store, trail
      <3>2. req[w].doc \in Redirect
        BY <3>1 DEF TypeOK, Equipped
      <3>3. req[w].doc.target \in Domain
        BY <3>2 DEF Redirect
      <3>4. at' \in [Writer -> Domain \cup {None}] /\ stale' \in [Writer -> BOOLEAN]
        BY <3>1, <3>3 DEF TypeOK
      <3>5. Equipped(w)'
        BY <3>1, <3>3, NoneAssumption DEF TypeOK, Equipped, StoredIds
      <3> QED
        BY <3>1, <3>4, <3>5, MoveType DEF TypeOK, Labels
    <2> QED
      BY <2>1, <2>2
  <1>2. CASE CountFails(w) \/ WalkMeets(w) \/ DeleteFails(w) \/ WriteRefused(w) \/ WriteFails(w)
    BY <1>2, RefuseType DEF CountFails, WalkMeets, DeleteFails, WriteRefused, WriteFails
  <1>3. CASE WalkOn(w)
    <2>1. PICK i \in ActiveIds(at[w]) : at' = [at EXCEPT ![w] = docs[i].target]
      BY <1>3 DEF WalkOn
    <2>2. /\ pc[w] = "walk" /\ visited' = [visited EXCEPT ![w] = @ \cup {at[w]}]
          /\ UNCHANGED <<docs, indexed, pc, req, stale, unchecked, behind, crossed>>
      BY <1>3 DEF WalkOn, store, trail
    <2>3. docs[i].target \in Domain
      BY DEF ActiveIds, StoredIds, TypeOK, Redirect
    <2>4. at[w] \in Domain
      BY <2>2 DEF TypeOK, Equipped
    <2>5. visited' \in [Writer -> SUBSET Domain] /\ at' \in [Writer -> Domain \cup {None}]
      BY <2>1, <2>2, <2>3, <2>4 DEF TypeOK
    <2>6. Equipped(w)'
      BY <2>1, <2>2, <2>3, NoneAssumption DEF TypeOK, Equipped, StoredIds
    <2>7. pc' = [pc EXCEPT ![w] = "walk"]
      BY <2>2 DEF TypeOK
    <2> QED
      BY <2>1, <2>2, <2>5, <2>6, <2>7, MoveType DEF TypeOK, Labels
  <1>4. ASSUME NEW b \in BOOLEAN, pc[w] = "walk", Accept(w, b)
        PROVE  TypeOK'
    <2>1. CASE Refuse(w)
      BY <2>1, RefuseType
    <2>2. CASE ~Refuse(w)
      <3>1. /\ pc' = [pc EXCEPT ![w] = "write"] /\ at' = [at EXCEPT ![w] = None]
            /\ visited' = [visited EXCEPT ![w] = {}] /\ stale' = [stale EXCEPT ![w] = b]
            /\ UNCHANGED <<docs, indexed, req, unchecked, behind, crossed>>
        BY <1>4, <2>2 DEF Accept, Goto, store, trail
      <3>2. Equipped(w)'
        BY <1>4, <3>1 DEF TypeOK, Equipped, StoredIds
      <3>3. /\ at' \in [Writer -> Domain \cup {None}] /\ stale' \in [Writer -> BOOLEAN]
            /\ visited' \in [Writer -> SUBSET Domain]
        BY <3>1 DEF TypeOK
      <3> QED
        BY <3>1, <3>2, <3>3, MoveType DEF TypeOK, Labels
    <2> QED
      BY <2>1, <2>2
  <1>5. CASE WalkEnds(w)
    BY <1>4, <1>5 DEF WalkEnds, TypeOK
  <1>6. CASE WalkCut(w)
    BY <1>4, <1>6 DEF WalkCut
  <1>7. CASE DeleteFinds(w)
    <2>1. /\ pc[w] = "find" /\ pc' = [pc EXCEPT ![w] = "write"]
          /\ req' = [req EXCEPT ![w].doc = [docs[req[w].id] EXCEPT !.status = "deleted"]]
          /\ UNCHANGED <<docs, indexed, at, visited, stale, unchecked, behind, crossed>>
      BY <1>7 DEF DeleteFinds, Goto, store, trail
    <2>2. req[w].id \in StoredIds
      BY <2>1 DEF TypeOK, Equipped
    <2>3. docs[req[w].id] \in Redirect
      BY <2>2 DEF TypeOK, StoredIds
    <2>4. [docs[req[w].id] EXCEPT !.status = "deleted"] \in Redirect
      BY <2>3 DEF Redirect, Statuses
    <2>5. req'[w].doc \in Redirect /\ req'[w].id = req[w].id /\ req'[w].op = req[w].op
      BY <2>1, <2>4 DEF TypeOK
    <2>6. req' \in [Writer -> [op : {"none", "create", "update", "delete"},
                               id : Id \cup {None}, doc : Redirect \cup {None}]]
      <3>1. req \in [Writer -> [op : {"none", "create", "update", "delete"},
                                id : Id \cup {None}, doc : Redirect \cup {None}]]
        BY DEF TypeOK
      <3> QED
        BY <2>1, <2>4, <3>1, DocumentedType
    <2>7. Equipped(w)'
      BY <2>1, <2>2, <2>5, NoRedirectAssumption DEF TypeOK, Equipped, StoredIds
    <2>8. \A v \in Writer \ {w} : req'[v] = req[v]
      BY <2>1 DEF TypeOK
    <2> QED
      BY <2>1, <2>6, <2>7, <2>8, MoveType DEF TypeOK, Labels
  <1>8. CASE Write(w)
    <2>1. PICK i \in Target(w) : /\ Apply(w, i)
                                 /\ req' = [req EXCEPT ![w].id = i]
                                 /\ behind' = behind \cup {i}
      BY <1>8 DEF Write
    <2>2. /\ pc[w] = "write" /\ pc' = [pc EXCEPT ![w] = "invalidate"]
          /\ UNCHANGED <<indexed, at, visited>>
      BY <1>8, <2>1 DEF Write, Goto, Apply
    <2>3. /\ i \in Id
          /\ docs' \in [Id -> Redirect \cup {None}]
          /\ StoredIds' = StoredIds \cup {i}
          /\ stale' \in [Writer -> BOOLEAN]
          /\ unchecked' \in BOOLEAN
          /\ crossed' \subseteq Id
          /\ req[w].doc \in Redirect
      BY <2>1, <2>2, AppliedType
    <2>4. req' \in [Writer -> [op : {"none", "create", "update", "delete"},
                               id : Id \cup {None}, doc : Redirect \cup {None}]]
      <3>1. req' = [req EXCEPT ![w].id = i] /\ i \in Id
        BY <2>1, <2>3
      <3>2. req \in [Writer -> [op : {"none", "create", "update", "delete"},
                                id : Id \cup {None}, doc : Redirect \cup {None}]]
        BY DEF TypeOK
      <3> QED
        BY <3>1, <3>2, IdentifiedType
    <2>5. ASSUME NEW v \in Writer PROVE Equipped(v)'
      <3>1. CASE v = w
        BY <2>1, <2>2, <2>3, <3>1, NoRedirectAssumption DEF Equipped, TypeOK
      <3>2. CASE v # w
        <4>1. pc'[v] = pc[v] /\ req'[v] = req[v] /\ at'[v] = at[v]
          BY <2>1, <2>2, <3>2 DEF TypeOK
        <4> QED
          BY <2>3, <4>1 DEF TypeOK, Equipped
      <3> QED
        BY <3>1, <3>2
    <2> QED
      BY <2>1, <2>2, <2>3, <2>4, <2>5 DEF TypeOK, Labels
  <1>9. CASE WriteUnacknowledged(w)
    <2>1. PICK i \in Target(w) : Apply(w, i) /\ behind' = behind \ {i}
      BY <1>9 DEF WriteUnacknowledged
    <2>2. /\ docs' \in [Id -> Redirect \cup {None}]
          /\ StoredIds' = StoredIds \cup {i}
          /\ stale' \in [Writer -> BOOLEAN]
          /\ unchecked' \in BOOLEAN
          /\ crossed' \subseteq Id
      BY <1>9, <2>1, AppliedType DEF WriteUnacknowledged
    <2>3. Answer(w) /\ indexed' = indexed
      BY <1>9, <2>1 DEF WriteUnacknowledged, Apply
    <2> QED
      BY <2>1, <2>2, <2>3, AnswerType DEF TypeOK
  <1>10. CASE Invalidate(w)
    <2>1. /\ pc[w] = "invalidate" /\ pc' = [pc EXCEPT ![w] = "audit"]
          /\ UNCHANGED <<docs, indexed, req, at, visited, stale, unchecked, behind, crossed>>
      BY <1>10 DEF Invalidate, Goto, trail
    <2>2. Equipped(w)'
      BY <2>1 DEF TypeOK, Equipped, StoredIds
    <2> QED
      BY <2>1, <2>2, MoveType DEF TypeOK, Labels
  <1>11. CASE Audit(w) \/ AuditFails(w)
    <2>1. /\ Answer(w) /\ UNCHANGED <<docs, indexed, stale, unchecked, crossed>>
          /\ pc[w] = "audit"
      BY <1>11 DEF Audit, AuditFails, store
    <2>2. StoredIds' = StoredIds
      BY <2>1 DEF StoredIds
    <2>3. req[w].id \in Id
      BY <2>1 DEF TypeOK, Equipped, StoredIds
    <2>4. behind' \subseteq Id
      BY <1>11, <2>3 DEF Audit, AuditFails, TypeOK
    <2> QED
      BY <2>1, <2>2, <2>4, AnswerType DEF TypeOK
  <1> QED
    BY <1>1, <1>2, <1>3, <1>5, <1>6, <1>7, <1>8, <1>9, <1>10, <1>11 DEF Proceed

\* A restart preserves the types.
LEMMA RestartType ==
  ASSUME TypeOK, Restart
  PROVE  TypeOK'
  <1>1. \A w \in Writer : Equipped(w)'
    BY DEF Restart, Equipped, NoReq
  <1> QED
    BY <1>1, NoReqType DEF Restart, TypeOK, Labels

\* Type correctness is inductive.
LEMMA NextType == TypeOK /\ [RedirectsNext]_redirectVars => TypeOK'
  <1> SUFFICES ASSUME TypeOK, [RedirectsNext]_redirectVars PROVE TypeOK'
    OBVIOUS
  <1>1. CASE UNCHANGED redirectVars
    BY <1>1 DEF redirectVars, store, writers, trail, TypeOK, Equipped, StoredIds
  <1> QED
    BY <1>1, ArriveType, ProceedType, RestartType DEF RedirectsNext

(* Type correctness of the writers, with what each step relies on.          *)
THEOREM RedirectsTypeCorrect == RedirectsSpec => []TypeOK
  BY InitType, NextType, PTL DEF RedirectsSpec

-----------------------------------------------------------------------------
(* Loop freedom and the duplicate check.                                   *)
(*                                                                         *)
(* A set of domains is closed but for d when every other member has an     *)
(* active redirect into the set.  The walk for a redirect from d to t      *)
(* never leaves a closed set that holds t, because sources are distinct    *)
(* and the redirect it follows is the only one; a walk that ends has come  *)
(* to a domain without a redirect, so that no such set holds t; and a loop *)
(* that the write closed would be such a set.                              *)

Closed(S, d) ==
  \A x \in S : EqualFold(x, d) \/ \E i \in ActiveIds(x) : docs[i].target \in S

\* The writer will store a redirect that is not deleted, and nothing has
\* overtaken its checks.
Current(w) == req[w].doc.status # "deleted" /\ ~stale[w]

\* Its source is in lower case, and what it creates has no id yet.
Prepared(w) ==
  pc[w] \in {"count", "walk", "write"} /\ req[w].doc.status # "deleted" =>
    /\ ToLower(req[w].doc.source) = req[w].doc.source
    /\ req[w].op = "create" => req[w].id = None

Counted(w) ==
  pc[w] \in {"walk", "write"} /\ Current(w) =>
    LiveIds(req[w].doc.source) \subseteq {req[w].id}

Walked(w) ==
  pc[w] = "walk" /\ Current(w) /\ ~unchecked =>
    \A S \in SUBSET Domain :
      Closed(S, req[w].doc.source) /\ req[w].doc.target \in S => at[w] \in S

Accepted(w) ==
  pc[w] = "write" /\ Current(w) /\ ~unchecked =>
    \A S \in SUBSET Domain :
      Closed(S, req[w].doc.source) => req[w].doc.target \notin S

Safe(w) == Prepared(w) /\ Counted(w) /\ Walked(w) /\ Accepted(w)

CheckedDistinct ==
  ~unchecked => \A i, j \in StoredIds :
     /\ docs[i].source = docs[j].source
     /\ docs[i].status # "deleted"
     /\ docs[j].status # "deleted"
     => i = j

LoopFree == ~unchecked => \A S \in SUBSET Domain : ~Loop(S)

IInv ==
  /\ TypeOK
  /\ CheckedDistinct
  /\ LoopFree
  /\ \A w \in Writer : Safe(w)

\* Without documents there is no loop and no shared source.
LEMMA InitSafe == RedirectsInit => IInv
  <1> SUFFICES ASSUME RedirectsInit PROVE IInv
    OBVIOUS
  <1>1. StoredIds = {}
    BY DEF RedirectsInit, StoredIds
  <1>2. CheckedDistinct /\ LoopFree
    BY <1>1 DEF CheckedDistinct, LoopFree, Loop, ActiveIds
  <1>3. \A w \in Writer : Safe(w)
    BY DEF RedirectsInit, Safe, Prepared, Counted, Walked, Accepted
  <1> QED
    BY <1>2, <1>3, InitType DEF IInv

\* Steps that leave the documents alone.
LEMMA StoreSame ==
  ASSUME docs' = docs, unchecked' = unchecked, CheckedDistinct, LoopFree
  PROVE  CheckedDistinct' /\ LoopFree'
  BY DEF CheckedDistinct, LoopFree, Loop, ActiveIds, StoredIds

\* Safe depends on what it is stated about and on nothing else.
LEMMA SafeSame ==
  ASSUME NEW v \in Writer, Safe(v), docs' = docs, unchecked' = unchecked,
         pc'[v] = pc[v], req'[v] = req[v], at'[v] = at[v], stale'[v] = stale[v]
  PROVE  Safe(v)'
  BY DEF Safe, Prepared, Counted, Walked, Accepted, Current, Closed, LiveIds, ActiveIds, StoredIds

\* A writer that is not between its checks and its write has nothing to keep.
LEMMA SafeElsewhere ==
  ASSUME NEW v \in Writer, pc'[v] \notin {"count", "walk", "write"}
  PROVE  Safe(v)'
  BY DEF Safe, Prepared, Counted, Walked, Accepted

\* Steps of w that leave the documents and the other writers alone.
LEMMA LocalStep ==
  ASSUME IInv, NEW w \in Writer, docs' = docs, unchecked' = unchecked,
         \A v \in Writer \ {w} : /\ pc'[v] = pc[v] /\ req'[v] = req[v]
                                 /\ at'[v] = at[v] /\ stale'[v] = stale[v],
         Safe(w)', TypeOK'
  PROVE  IInv'
  <1>1. ASSUME NEW v \in Writer PROVE Safe(v)'
    <2>1. CASE v # w
      BY <2>1, SafeSame DEF IInv
    <2> QED
      BY <2>1
  <1> QED
    BY <1>1, StoreSame DEF IInv

\* A refusal leaves documents and the other writers alone.
LEMMA RefuseSafe ==
  ASSUME IInv, NEW w \in Writer, Refuse(w)
  PROVE  IInv'
  <1>1. /\ docs' = docs /\ unchecked' = unchecked
        /\ pc' = [pc EXCEPT ![w] = "idle"] /\ req' = [req EXCEPT ![w] = NoReq]
        /\ at' = [at EXCEPT ![w] = None] /\ stale' = [stale EXCEPT ![w] = FALSE]
    BY DEF Refuse, Answer, Goto, store
  <1>2. \A v \in Writer \ {w} : /\ pc'[v] = pc[v] /\ req'[v] = req[v]
                                /\ at'[v] = at[v] /\ stale'[v] = stale[v]
    BY <1>1 DEF IInv, TypeOK
  <1>3. pc'[w] = "idle"
    BY <1>1 DEF IInv, TypeOK
  <1> QED
    BY <1>1, <1>2, <1>3, SafeElsewhere, RefuseType, LocalStep DEF IInv

\* A request that arrives has had no check yet.
LEMMA ArriveSafe ==
  ASSUME IInv, NEW w \in Writer, Arrive(w)
  PROVE  IInv'
  <1>1. PICK op, i, doc, label :
          /\ Begin(w, op, i, doc, label)
          /\ label \in {"count", "find"}
          /\ label = "count" => /\ ToLower(doc.source) = doc.source
                                /\ op = "create" => i = None
    <2>1. CASE Post(w)
      <3>1. PICK c \in Command : Begin(w, "create", None, Lowered(c), "count")
        BY <2>1 DEF Post
      <3> QED
        BY <3>1, LoweredType
    <2>2. CASE Put(w)
      <3>1. PICK j \in StoredIds, c \in Command : Begin(w, "update", j, Lowered(c), "count")
        BY <2>2 DEF Put
      <3> QED
        BY <3>1, LoweredType
    <2>3. CASE Delete(w)
      BY <2>3 DEF Delete
    <2> QED
      BY <2>1, <2>2, <2>3 DEF Arrive
  <1>2. /\ pc' = [pc EXCEPT ![w] = label]
        /\ req' = [req EXCEPT ![w] = [op |-> op, id |-> i, doc |-> doc]]
        /\ docs' = docs /\ unchecked' = unchecked /\ at' = at /\ stale' = stale
    BY <1>1 DEF Begin, Goto, store
  <1>3. \A v \in Writer \ {w} : /\ pc'[v] = pc[v] /\ req'[v] = req[v]
                                /\ at'[v] = at[v] /\ stale'[v] = stale[v]
    BY <1>2 DEF IInv, TypeOK
  <1>4. pc'[w] = label /\ req'[w] = [op |-> op, id |-> i, doc |-> doc]
    BY <1>2 DEF IInv, TypeOK
  <1>5. Safe(w)'
    BY <1>1, <1>4 DEF Safe, Prepared, Counted, Walked, Accepted
  <1> QED
    BY <1>2, <1>3, <1>5, ArriveType, LocalStep DEF IInv

\* The count establishes Counted, and the walk starts at the target.
LEMMA CountSafe ==
  ASSUME IInv, NEW w \in Writer, CountSources(w)
  PROVE  IInv'
  <1>1. CASE Refuse(w)
    BY <1>1, RefuseSafe
  <1>2. CASE ~Refuse(w)
    <2>1. /\ pc[w] = "count" /\ pc' = [pc EXCEPT ![w] = "walk"]
          /\ LiveIds(req[w].doc.source) \ {req[w].id} = {}
          /\ at' = [at EXCEPT ![w] = req[w].doc.target]
          /\ stale' = [stale EXCEPT ![w] = FALSE]
          /\ UNCHANGED <<docs, req, unchecked>>
      BY <1>2 DEF CountSources, Goto, store
    <2>2. \A v \in Writer \ {w} : /\ pc'[v] = pc[v] /\ req'[v] = req[v]
                                  /\ at'[v] = at[v] /\ stale'[v] = stale[v]
      BY <2>1 DEF IInv, TypeOK
    <2>3. pc'[w] = "walk" /\ at'[w] = req[w].doc.target /\ req'[w] = req[w]
      BY <2>1 DEF IInv, TypeOK
    <2>4. Prepared(w)'
      BY <2>1, <2>3 DEF IInv, Safe, Prepared
    <2>5. Counted(w)'
      BY <2>1, <2>3 DEF Counted, LiveIds, StoredIds
    <2>6. Walked(w)' /\ Accepted(w)'
      BY <2>3 DEF Walked, Accepted
    <2>7. TypeOK'
      BY NextType DEF IInv, RedirectsNext, Proceed
    <2> QED
      BY <2>1, <2>2, <2>4, <2>5, <2>6, <2>7, LocalStep DEF Safe
  <1> QED
    BY <1>1, <1>2

\* Sources are distinct: two active redirects from one domain are the same.
LEMMA ActiveDistinct ==
  ASSUME CheckedDistinct, ~unchecked, NEW d, NEW i \in ActiveIds(d), NEW j \in ActiveIds(d)
  PROVE  i = j
  BY DEF CheckedDistinct, ActiveIds

\* A walk that goes on stays within every closed set that has its start.
LEMMA WalkOnSafe ==
  ASSUME IInv, NEW w \in Writer, WalkOn(w)
  PROVE  IInv'
  <1>1. PICK i \in ActiveIds(at[w]) : at' = [at EXCEPT ![w] = docs[i].target]
    BY DEF WalkOn
  <1>2. /\ pc[w] = "walk" /\ ~MetAgain(w)
        /\ UNCHANGED <<docs, pc, req, stale, unchecked>>
    BY DEF WalkOn, store
  <1>3. \A v \in Writer \ {w} : /\ pc'[v] = pc[v] /\ req'[v] = req[v]
                                /\ at'[v] = at[v] /\ stale'[v] = stale[v]
    BY <1>1, <1>2 DEF IInv, TypeOK
  <1>4. at'[w] = docs[i].target
    BY <1>1 DEF IInv, TypeOK
  <1>5. Prepared(w)' /\ Counted(w)' /\ Accepted(w)'
    BY <1>2 DEF IInv, Safe, Prepared, Counted, Accepted, Current, LiveIds, StoredIds
  <1>6. ASSUME Current(w), ~unchecked, NEW S \in SUBSET Domain,
               Closed(S, req[w].doc.source), req[w].doc.target \in S
        PROVE  docs[i].target \in S
    <2>1. at[w] \in S
      BY <1>2, <1>6 DEF IInv, Safe, Walked
    <2>2. ~EqualFold(at[w], req[w].doc.source)
      BY <1>2 DEF MetAgain
    <2>3. PICK j \in ActiveIds(at[w]) : docs[j].target \in S
      BY <1>6, <2>1, <2>2 DEF Closed
    <2> QED
      BY <1>6, <2>3, ActiveDistinct DEF IInv
  <1>7. Walked(w)'
    BY <1>2, <1>4, <1>6 DEF Walked, Current, Closed, ActiveIds, StoredIds
  <1>8. TypeOK'
    BY NextType DEF IInv, RedirectsNext, Proceed
  <1> QED
    BY <1>2, <1>3, <1>5, <1>7, <1>8, LocalStep DEF Safe

\* A walk that ends at a domain without a redirect has left every closed set.
LEMMA AcceptSafe ==
  ASSUME IInv, NEW w \in Writer, pc[w] = "walk", NEW b \in BOOLEAN, Accept(w, b), TypeOK',
         \/ b = TRUE
         \/ b = stale[w] /\ ~MetAgain(w) /\ ActiveIds(at[w]) = {}
  PROVE  IInv'
  <1>1. CASE Refuse(w)
    BY <1>1, RefuseSafe
  <1>2. CASE ~Refuse(w)
    <2>1. /\ pc' = [pc EXCEPT ![w] = "write"] /\ at' = [at EXCEPT ![w] = None]
          /\ stale' = [stale EXCEPT ![w] = b]
          /\ UNCHANGED <<docs, req, unchecked>>
      BY <1>2 DEF Accept, Goto, store
    <2>2. \A v \in Writer \ {w} : /\ pc'[v] = pc[v] /\ req'[v] = req[v]
                                  /\ at'[v] = at[v] /\ stale'[v] = stale[v]
      BY <2>1 DEF IInv, TypeOK
    <2>3. pc'[w] = "write" /\ req'[w] = req[w] /\ stale'[w] = b
      BY <2>1 DEF IInv, TypeOK
    <2>4. Prepared(w)'
      BY <2>3 DEF IInv, Safe, Prepared
    <2>5. CASE b = TRUE
      <3>1. Counted(w)' /\ Walked(w)' /\ Accepted(w)'
        BY <2>3, <2>5 DEF Counted, Walked, Accepted, Current
      <3> QED
        BY <2>1, <2>2, <2>4, <3>1, LocalStep DEF Safe
    <2>6. CASE b = stale[w] /\ ~MetAgain(w) /\ ActiveIds(at[w]) = {}
      <3>1. Counted(w)'
        BY <2>1, <2>3, <2>6 DEF IInv, Safe, Counted, Current, LiveIds, StoredIds
      <3>2. ASSUME Current(w), ~unchecked, NEW S \in SUBSET Domain,
                   Closed(S, req[w].doc.source), req[w].doc.target \in S
            PROVE  FALSE
        <4>1. at[w] \in S
          BY <3>2 DEF IInv, Safe, Walked
        <4>2. ~EqualFold(at[w], req[w].doc.source)
          BY <2>6 DEF MetAgain
        <4> QED
          BY <2>6, <3>2, <4>1, <4>2 DEF Closed
      <3>3. Accepted(w)'
        BY <2>1, <2>3, <2>6, <3>2 DEF Accepted, Current, Closed, ActiveIds, StoredIds
      <3>4. Walked(w)'
        BY <2>3 DEF Walked
      <3> QED
        BY <2>1, <2>2, <2>4, <3>1, <3>3, <3>4, LocalStep DEF Safe
    <2> QED
      BY <2>5, <2>6
  <1> QED
    BY <1>1, <1>2

\* A write of w: the other writers only have their checks overtaken.
LEMMA ApplySafe ==
  ASSUME IInv, NEW w \in Writer, pc[w] = "write", NEW i \in Target(w), Apply(w, i), TypeOK',
         pc'[w] \notin {"count", "walk", "write"},
         \A v \in Writer \ {w} : pc'[v] = pc[v] /\ req'[v] = req[v] /\ at'[v] = at[v]
  PROVE  IInv'
  <1> DEFINE doc == req[w].doc
  <1>1. /\ i \in Id
        /\ StoredIds' = StoredIds \cup {i}
        /\ doc \in Redirect
    BY AppliedType DEF IInv
  <1>2. /\ docs'[i].source = doc.source
        /\ docs'[i].target = doc.target
        /\ docs'[i].status = doc.status
        /\ \A j \in Id \ {i} : docs'[j] = docs[j]
    BY <1>1, WrittenType DEF Apply, IInv, TypeOK
  <1>3. StoredIds \subseteq Id
    BY DEF StoredIds
  <1> HIDE DEF doc
  <1>4. CASE doc.status = "deleted"
    <2>1. unchecked' = unchecked /\ \A v \in Writer \ {w} : stale'[v] = stale[v]
      BY <1>4 DEF Apply, IInv, TypeOK, doc
    <2>2. \A d : LiveIds(d)' \subseteq LiveIds(d)
      BY <1>1, <1>2, <1>3, <1>4 DEF LiveIds
    <2>3. \A d : \A j \in ActiveIds(d)' : j \in ActiveIds(d) /\ docs'[j] = docs[j]
      BY <1>1, <1>2, <1>3, <1>4 DEF ActiveIds
    <2>4. CheckedDistinct'
      <3> SUFFICES ASSUME ~unchecked, NEW j \in StoredIds', NEW k \in StoredIds',
                          docs'[j].source = docs'[k].source,
                          docs'[j].status # "deleted", docs'[k].status # "deleted"
                   PROVE  j = k
        BY <2>1 DEF CheckedDistinct
      <3>1. j # i /\ k # i
        BY <1>2, <1>4
      <3>2. j \in StoredIds /\ k \in StoredIds /\ docs'[j] = docs[j] /\ docs'[k] = docs[k]
        BY <1>1, <1>2, <1>3, <3>1
      <3> QED
        BY <3>2 DEF IInv, CheckedDistinct
    <2>5. LoopFree'
      <3>1. \A S : Loop(S)' => Loop(S)
        BY <2>3 DEF Loop
      <3> QED
        BY <2>1, <3>1 DEF IInv, LoopFree
    <2>6. ASSUME NEW v \in Writer \ {w} PROVE Safe(v)'
      <3>1. pc'[v] = pc[v] /\ req'[v] = req[v] /\ at'[v] = at[v] /\ stale'[v] = stale[v]
        BY <2>1
      <3>2. \A S, d : Closed(S, d)' => Closed(S, d)
        BY <2>3 DEF Closed
      <3>3. Safe(v)
        BY DEF IInv
      <3>4. Prepared(v)'
        BY <3>1, <3>3 DEF Safe, Prepared
      <3>5. Counted(v)'
        BY <2>2, <3>1, <3>3 DEF Safe, Counted, Current
      <3>6. Walked(v)' /\ Accepted(v)'
        BY <2>1, <3>1, <3>2, <3>3 DEF Safe, Walked, Accepted, Current
      <3> QED
        BY <3>4, <3>5, <3>6 DEF Safe
    <2> QED
      BY <2>4, <2>5, <2>6, SafeElsewhere DEF IInv
  <1>5. CASE doc.status # "deleted"
    <2>1. ASSUME NEW v \in Writer \ {w} PROVE Safe(v)'
      <3>1. pc[v] \in {"walk", "write"} => stale'[v] = TRUE
        BY <1>5 DEF Apply, Checking, doc, IInv, TypeOK
      <3>2. Counted(v)' /\ Walked(v)' /\ Accepted(v)'
        BY <3>1 DEF Counted, Walked, Accepted, Current
      <3>3. Prepared(v)'
        BY DEF IInv, Safe, Prepared
      <3> QED
        BY <3>2, <3>3 DEF Safe
    <2>2. ~unchecked' => ~unchecked /\ Current(w)
      BY <1>5 DEF Apply, Current, doc
    <2>3. ASSUME ~unchecked' PROVE LiveIds(doc.source) \subseteq {i}
      <3>1. LiveIds(doc.source) \subseteq {req[w].id}
        BY <2>2, <2>3 DEF IInv, Safe, Counted, doc
      <3>2. CASE req[w].op = "create"
        BY <1>5, <3>1, <3>2, NoneAssumption DEF IInv, Safe, Prepared, doc, LiveIds, StoredIds
      <3>3. CASE req[w].op # "create"
        BY <3>1, <3>3 DEF Target
      <3> QED
        BY <3>2, <3>3
    <2>4. CheckedDistinct'
      <3> SUFFICES ASSUME ~unchecked', NEW j \in StoredIds', NEW k \in StoredIds',
                          docs'[j].source = docs'[k].source,
                          docs'[j].status # "deleted", docs'[k].status # "deleted"
                   PROVE  j = k
        BY DEF CheckedDistinct
      <3>1. ASSUME NEW x \in StoredIds', x # i, docs'[x].source = doc.source,
                   docs'[x].status # "deleted"
            PROVE  FALSE
        <4>1. x \in StoredIds /\ docs'[x] = docs[x]
          BY <1>1, <1>2, <1>3, <3>1
        <4> QED
          BY <2>3, <3>1, <4>1 DEF LiveIds
      <3>2. CASE j = i \/ k = i
        BY <1>2, <3>1, <3>2
      <3>3. CASE j # i /\ k # i
        <4>1. j \in StoredIds /\ k \in StoredIds /\ docs'[j] = docs[j] /\ docs'[k] = docs[k]
          BY <1>1, <1>2, <1>3, <3>3
        <4> QED
          BY <2>2, <4>1 DEF IInv, CheckedDistinct
      <3> QED
        BY <3>2, <3>3
    <2>5. LoopFree'
      <3> SUFFICES ASSUME ~unchecked', NEW S \in SUBSET Domain, Loop(S)'
                   PROVE  FALSE
        BY DEF LoopFree
      <3>1. ASSUME NEW d, NEW k \in ActiveIds(d)', k # i
            PROVE  k \in ActiveIds(d) /\ docs'[k] = docs[k]
        BY <1>1, <1>2, <1>3, <3>1 DEF ActiveIds
      <3>2. ToLower(doc.source) = doc.source
        BY <1>5 DEF IInv, Safe, Prepared, doc
      <3>3. Closed(S, doc.source)
        <4> SUFFICES ASSUME NEW x \in S, ~EqualFold(x, doc.source)
                     PROVE  \E k \in ActiveIds(x) : docs[k].target \in S
          BY DEF Closed
        <4>1. PICK k \in ActiveIds(x)' : docs'[k].target \in S
          BY DEF Loop
        <4>2. k # i
          BY <1>2, <3>2, <4>1 DEF ActiveIds, EqualFold
        <4> QED
          BY <3>1, <4>1, <4>2
      <3>4. doc.target \notin S
        BY <2>2, <3>3 DEF IInv, Safe, Accepted, doc
      <3>5. Loop(S)
        <4> SUFFICES ASSUME NEW x \in S
                     PROVE  \E k \in ActiveIds(x) : docs[k].target \in S
          BY DEF Loop
        <4>1. PICK k \in ActiveIds(x)' : docs'[k].target \in S
          BY DEF Loop
        <4>2. k # i
          BY <1>2, <3>4, <4>1
        <4> QED
          BY <3>1, <4>1, <4>2
      <3> QED
        BY <2>2, <3>5 DEF IInv, LoopFree
    <2> QED
      BY <2>1, <2>4, <2>5, SafeElsewhere DEF IInv
  <1> QED
    BY <1>4, <1>5

\* Each step of a writer preserves the invariant of the checks.
LEMMA ProceedSafe ==
  ASSUME IInv, NEW w \in Writer, Proceed(w)
  PROVE  IInv'
  <1>1. TypeOK'
    BY ProceedType DEF IInv
  <1>2. CASE CountSources(w)
    BY <1>2, CountSafe
  <1>3. CASE CountFails(w) \/ WalkMeets(w) \/ DeleteFails(w) \/ WriteRefused(w) \/ WriteFails(w)
    BY <1>3, RefuseSafe DEF CountFails, WalkMeets, DeleteFails, WriteRefused, WriteFails
  <1>4. CASE WalkOn(w)
    BY <1>4, WalkOnSafe
  <1>5. CASE WalkEnds(w)
    BY <1>1, <1>5, AcceptSafe DEF WalkEnds, IInv, TypeOK
  <1>6. CASE WalkCut(w)
    BY <1>1, <1>6, AcceptSafe DEF WalkCut
  <1>7. CASE DeleteFinds(w)
    <2>1. /\ pc[w] = "find" /\ pc' = [pc EXCEPT ![w] = "write"]
          /\ req' = [req EXCEPT ![w].doc = [docs[req[w].id] EXCEPT !.status = "deleted"]]
          /\ UNCHANGED <<docs, at, stale, unchecked>>
      BY <1>7 DEF DeleteFinds, Goto, store
    <2>2. \A v \in Writer \ {w} : /\ pc'[v] = pc[v] /\ req'[v] = req[v]
                                  /\ at'[v] = at[v] /\ stale'[v] = stale[v]
      BY <2>1 DEF IInv, TypeOK
    <2>3. docs[req[w].id] \in Redirect
      BY <2>1 DEF IInv, TypeOK, Equipped, StoredIds
    <2>4. req'[w].doc.status = "deleted" /\ pc'[w] = "write"
      BY <2>1, <2>3 DEF IInv, TypeOK, Redirect
    <2>5. Safe(w)'
      BY <2>4 DEF Safe, Prepared, Counted, Walked, Accepted, Current
    <2> QED
      BY <1>1, <2>1, <2>2, <2>5, LocalStep
  <1>8. CASE Write(w)
    <2>1. PICK i \in Target(w) : Apply(w, i) /\ req' = [req EXCEPT ![w].id = i]
      BY <1>8 DEF Write
    <2>2. pc[w] = "write" /\ pc' = [pc EXCEPT ![w] = "invalidate"] /\ at' = at
      BY <1>8 DEF Write, Goto
    <2>3. /\ pc'[w] = "invalidate"
          /\ \A v \in Writer \ {w} : pc'[v] = pc[v] /\ req'[v] = req[v] /\ at'[v] = at[v]
      BY <2>1, <2>2 DEF IInv, TypeOK
    <2> QED
      BY <1>1, <2>1, <2>2, <2>3, ApplySafe
  <1>9. CASE WriteUnacknowledged(w)
    <2>1. PICK i \in Target(w) : Apply(w, i)
      BY <1>9 DEF WriteUnacknowledged
    <2>2. pc[w] = "write" /\ Answer(w)
      BY <1>9 DEF WriteUnacknowledged
    <2>3. /\ pc'[w] = "idle"
          /\ \A v \in Writer \ {w} : pc'[v] = pc[v] /\ req'[v] = req[v] /\ at'[v] = at[v]
      BY <2>2 DEF Answer, Goto, IInv, TypeOK
    <2> QED
      BY <1>1, <2>1, <2>2, <2>3, ApplySafe
  <1>10. CASE Invalidate(w)
    <2>1. /\ pc' = [pc EXCEPT ![w] = "audit"]
          /\ UNCHANGED <<docs, req, at, stale, unchecked>>
      BY <1>10 DEF Invalidate, Goto
    <2>2. /\ pc'[w] = "audit"
          /\ \A v \in Writer \ {w} : pc'[v] = pc[v] /\ req'[v] = req[v]
                                     /\ at'[v] = at[v] /\ stale'[v] = stale[v]
      BY <2>1 DEF IInv, TypeOK
    <2> QED
      BY <1>1, <2>1, <2>2, SafeElsewhere, LocalStep
  <1>11. CASE Audit(w) \/ AuditFails(w)
    <2>1. Answer(w) /\ UNCHANGED <<docs, stale, unchecked>>
      BY <1>11 DEF Audit, AuditFails, store
    <2>2. /\ pc'[w] = "idle"
          /\ \A v \in Writer \ {w} : /\ pc'[v] = pc[v] /\ req'[v] = req[v]
                                     /\ at'[v] = at[v] /\ stale'[v] = stale[v]
      BY <2>1 DEF Answer, Goto, IInv, TypeOK
    <2> QED
      BY <1>1, <2>1, <2>2, SafeElsewhere, LocalStep
  <1> QED
    BY <1>2, <1>3, <1>4, <1>5, <1>6, <1>7, <1>8, <1>9, <1>10, <1>11 DEF Proceed

\* The invariant of the checks is inductive.
LEMMA NextSafe == IInv /\ [RedirectsNext]_redirectVars => IInv'
  <1> SUFFICES ASSUME IInv, [RedirectsNext]_redirectVars PROVE IInv'
    OBVIOUS
  <1>1. TypeOK'
    BY NextType DEF IInv
  <1>2. CASE UNCHANGED redirectVars
    <2>1. UNCHANGED <<docs, unchecked, pc, req, at, stale>>
      BY <1>2 DEF redirectVars, store, writers
    <2> QED
      BY <1>1, <2>1, StoreSame, SafeSame DEF IInv
  <1>3. CASE Restart
    <2>1. docs' = docs /\ unchecked' = unchecked /\ \A w \in Writer : pc'[w] = "idle"
      BY <1>3 DEF Restart
    <2> QED
      BY <1>1, <2>1, StoreSame, SafeElsewhere DEF IInv
  <1> QED
    BY <1>2, <1>3, ArriveSafe, ProceedSafe DEF RedirectsNext

\* The invariant of the checks holds throughout.
LEMMA Invariant == RedirectsSpec => []IInv
  BY InitSafe, NextSafe, PTL DEF RedirectsSpec

(* Loop protection: active redirects form no loop of any length, for any    *)
(* number of domains and writers, unless some writer's checks were          *)
(* overtaken by another write or cut short by a failed read.                *)
THEOREM LoopProtection == RedirectsSpec => []NoLoopUnlessUnchecked
  <1>1. IInv => NoLoopUnlessUnchecked
    <2> SUFFICES ASSUME IInv, ~unchecked,
                        NEW S \in SUBSET {docs[i].source : i \in StoredIds}
                 PROVE  ~Loop(S)
      BY DEF NoLoopUnlessUnchecked, NoLoop
    <2>1. \A i \in StoredIds : docs[i].source \in Domain
      BY DEF IInv, TypeOK, StoredIds, Redirect
    <2>2. S \in SUBSET Domain
      BY <2>1
    <2> QED
      BY <2>2 DEF IInv, LoopFree
  <1> QED
    BY <1>1, Invariant, PTL

-----------------------------------------------------------------------------
(* The unique index: it is built over distinct sources only, and refuses   *)
(* every write that would share one.                                       *)

SourcesIndexed == indexed => Indexable

\* A write that the index does not refuse.
LEMMA ApplyIndexed ==
  ASSUME TypeOK, SourcesIndexed, NEW w \in Writer, pc[w] = "write",
         NEW i \in Target(w), Apply(w, i)
  PROVE  SourcesIndexed'
  <1>1. /\ i \in Id /\ StoredIds' = StoredIds \cup {i} /\ req[w].doc \in Redirect
        /\ StoredIds \subseteq Id
    BY AppliedType DEF StoredIds
  <1>2. /\ docs'[i].source = req[w].doc.source
        /\ \A j \in Id \ {i} : docs'[j] = docs[j]
    BY <1>1, WrittenType DEF Apply, TypeOK
  <1>3. SUFFICES ASSUME indexed, NEW j \in StoredIds', NEW k \in StoredIds',
                        docs'[j].source = docs'[k].source
                 PROVE  j = k
    BY DEF SourcesIndexed, Indexable, Apply
  <1>4. \A x \in StoredIds \ {i} : docs[x].source # req[w].doc.source /\ docs'[x] = docs[x]
    BY <1>1, <1>2, <1>3 DEF Apply, IndexRefuses
  <1>5. CASE j = i \/ k = i
    BY <1>1, <1>2, <1>3, <1>4, <1>5
  <1>6. CASE j # i /\ k # i
    BY <1>1, <1>3, <1>4, <1>6 DEF SourcesIndexed, Indexable
  <1> QED
    BY <1>5, <1>6

LEMMA IndexNext == TypeOK /\ SourcesIndexed /\ [RedirectsNext]_redirectVars => SourcesIndexed'
  <1> SUFFICES ASSUME TypeOK, SourcesIndexed, [RedirectsNext]_redirectVars
               PROVE  SourcesIndexed'
    OBVIOUS
  <1>1. CASE UNCHANGED <<docs, indexed>>
    BY <1>1 DEF SourcesIndexed, Indexable, StoredIds
  <1>2. CASE Restart
    <2>1. docs' = docs /\ (indexed' => indexed \/ Indexable)
      BY <1>2 DEF Restart
    <2> QED
      BY <2>1 DEF SourcesIndexed, Indexable, StoredIds
  <1>3. ASSUME NEW w \in Writer, Arrive(w) PROVE UNCHANGED <<docs, indexed>>
    BY <1>3 DEF Arrive, Post, Put, Delete, Begin, store
  <1>4. ASSUME NEW w \in Writer, Write(w) \/ WriteUnacknowledged(w) PROVE SourcesIndexed'
    BY <1>4, ApplyIndexed DEF Write, WriteUnacknowledged
  <1>5. ASSUME NEW w \in Writer, Proceed(w), ~Write(w), ~WriteUnacknowledged(w)
        PROVE  UNCHANGED <<docs, indexed>>
    BY <1>5 DEF Proceed, CountSources, CountFails, WalkMeets, WalkOn, WalkEnds, WalkCut, Accept,
                DeleteFinds, DeleteFails, WriteRefused, WriteFails, Invalidate, Audit, AuditFails,
                Refuse, store
  <1>6. CASE UNCHANGED redirectVars
    BY <1>1, <1>6 DEF redirectVars, store
  <1> QED
    BY <1>1, <1>2, <1>3, <1>4, <1>5, <1>6 DEF RedirectsNext

(* A source has at most one redirect that is not deleted: with the unique   *)
(* index whatever writers race, calls fail or processes restart, without it *)
(* under the same exception as for loops.                                   *)
THEOREM SourcesDistinct == RedirectsSpec => []LiveSourcesDistinct
  <1>1. RedirectsInit => SourcesIndexed
    BY DEF RedirectsInit, SourcesIndexed, Indexable, StoredIds
  <1>2. IInv /\ SourcesIndexed => LiveSourcesDistinct
    BY DEF IInv, CheckedDistinct, SourcesIndexed, Indexable, LiveSourcesDistinct
  <1>3. RedirectsSpec => []SourcesIndexed
    <2>1. IInv => TypeOK
      BY DEF IInv
    <2> QED
      BY <1>1, <2>1, Invariant, IndexNext, PTL DEF RedirectsSpec
  <1> QED
    BY <1>2, <1>3, Invariant, PTL

-----------------------------------------------------------------------------
(* The audit trail.  Until a write is audited its event will describe the  *)
(* redirect, unless another write of the same redirect has come between.   *)

AtAudit == {w \in Writer : pc[w] \in {"invalidate", "audit"}}

Described == \A w \in AtAudit : req[w].id \notin crossed => Describes(w)

AuditInv == TypeOK /\ AuditTellsStore /\ Described

\* Steps that leave the documents, the trail and the requests to audit alone.
LEMMA TrailSame ==
  ASSUME AuditInv, TypeOK', docs' = docs, behind' = behind, crossed' = crossed,
         AtAudit' = AtAudit, \A v \in AtAudit : req'[v] = req[v]
  PROVE  AuditInv'
  BY DEF AuditInv, AuditTellsStore, Described, Describes, Auditing, AtAudit

\* A step of w before its write or after its event is not an audit step.
LEMMA AtAuditSame ==
  ASSUME TypeOK, NEW w \in Writer, NEW label,
         pc' = [pc EXCEPT ![w] = label],
         pc[w] \in {"invalidate", "audit"} <=> label \in {"invalidate", "audit"}
  PROVE  AtAudit' = AtAudit
  BY DEF TypeOK, AtAudit

\* A refusal leaves documents, events and what is to be audited alone.
LEMMA RefuseTrail ==
  ASSUME AuditInv, NEW w \in Writer, Refuse(w), pc[w] \notin {"invalidate", "audit"}
  PROVE  AuditInv'
  <1>1. /\ docs' = docs /\ behind' = behind /\ crossed' = crossed
        /\ pc' = [pc EXCEPT ![w] = "idle"] /\ req' = [req EXCEPT ![w] = NoReq]
    BY DEF Refuse, Answer, Goto, store, trail
  <1>2. AtAudit' = AtAudit
    BY <1>1, AtAuditSame DEF AuditInv
  <1>3. \A v \in AtAudit : req'[v] = req[v]
    BY <1>1 DEF AtAudit, AuditInv, TypeOK
  <1> QED
    BY <1>1, <1>2, <1>3, RefuseType, TrailSame DEF AuditInv

\* A request that arrives has written nothing.
LEMMA ArriveTrail ==
  ASSUME AuditInv, NEW w \in Writer, Arrive(w)
  PROVE  AuditInv'
  <1>1. PICK op, i, doc, label : Begin(w, op, i, doc, label) /\ label \in {"count", "find"}
    <2>1. CASE Post(w)
      BY <2>1 DEF Post
    <2>2. CASE Put(w)
      BY <2>2 DEF Put
    <2>3. CASE Delete(w)
      BY <2>3 DEF Delete
    <2> QED
      BY <2>1, <2>2, <2>3 DEF Arrive
  <1>2. /\ pc[w] = "idle" /\ pc' = [pc EXCEPT ![w] = label]
        /\ req' = [req EXCEPT ![w] = [op |-> op, id |-> i, doc |-> doc]]
        /\ docs' = docs /\ behind' = behind /\ crossed' = crossed
    BY <1>1 DEF Begin, Goto, store, trail
  <1>3. AtAudit' = AtAudit
    BY <1>1, <1>2, AtAuditSame DEF AuditInv
  <1>4. \A v \in AtAudit : req'[v] = req[v]
    BY <1>2 DEF AtAudit, AuditInv, TypeOK
  <1> QED
    BY <1>2, <1>3, <1>4, ArriveType, TrailSame DEF AuditInv

\* An applied write crosses every write of the same redirect that is still
\* to be audited, and leaves the documents of the others alone.
LEMMA ApplyTrail ==
  ASSUME AuditInv, NEW w \in Writer, pc[w] = "write", NEW i \in Target(w), Apply(w, i)
  PROVE  /\ crossed \subseteq crossed' \cup {i}
         /\ crossed' \subseteq crossed \cup {i}
         /\ \A j \in Id \ {i} : docs'[j] = docs[j]
         /\ \A v \in AtAudit : req[v].id = i => i \in crossed'
         /\ \A v \in AtAudit : v # w /\ req[v].id \in Id
  <1>1. \A v \in AtAudit : v # w /\ req[v].id \in Id
    BY DEF AtAudit, AuditInv, TypeOK, Equipped, StoredIds
  <1>2. \A v \in AtAudit : req[v].id = i => i \in crossed'
    BY <1>1 DEF AtAudit, Apply, Auditing
  <1>3. \A j \in Id \ {i} : docs'[j] = docs[j]
    BY DEF Apply, AuditInv, TypeOK
  <1> QED
    BY <1>1, <1>2, <1>3 DEF Apply

\* An acknowledged write leaves its redirect to its writer to describe.
LEMMA WriteTrail ==
  ASSUME AuditInv, NEW w \in Writer, Write(w), TypeOK'
  PROVE  AuditInv'
  <1>1. PICK i \in Target(w) : /\ Apply(w, i)
                               /\ req' = [req EXCEPT ![w].id = i]
                               /\ behind' = behind \cup {i}
    BY DEF Write
  <1>2. pc[w] = "write" /\ pc' = [pc EXCEPT ![w] = "invalidate"]
    BY DEF Write, Goto
  <1>3. i \in Id /\ req[w].doc \in Redirect
    BY <1>1, <1>2, AppliedType DEF AuditInv
  <1>4. /\ pc'[w] = "invalidate" /\ req'[w].id = i /\ req'[w].doc = req[w].doc
        /\ \A v \in Writer \ {w} : pc'[v] = pc[v] /\ req'[v] = req[v]
    BY <1>1, <1>2 DEF AuditInv, TypeOK
  <1>5. AtAudit' = AtAudit \cup {w} /\ w \notin AtAudit
    BY <1>2, <1>4 DEF AtAudit
  <1>6. Describes(w)'
    <2>1. docs'[i] = Written(i, req[w].doc)
      BY <1>1, <1>3 DEF Apply, AuditInv, TypeOK
    <2>2. [Written(i, req[w].doc) EXCEPT !.tags = None] = [req[w].doc EXCEPT !.tags = None]
      BY <1>3 DEF Written, Redirect
    <2> QED
      BY <1>4, <2>1, <2>2 DEF Describes
  <1>7. Described'
    <2> SUFFICES ASSUME NEW v \in AtAudit, req[v].id \notin crossed'
                 PROVE  Describes(v)'
      BY <1>4, <1>5, <1>6 DEF Described, AtAudit
    <2>1. v # w /\ req[v].id \in Id /\ req[v].id # i
      BY <1>1, <1>2, ApplyTrail
    <2>2. req[v].id \notin crossed
      BY <1>1, <1>2, <2>1, ApplyTrail
    <2>3. docs'[req[v].id] = docs[req[v].id] /\ req'[v] = req[v]
      BY <1>1, <1>2, <1>4, <2>1, ApplyTrail DEF AtAudit
    <2> QED
      BY <2>2, <2>3 DEF AuditInv, Described, Describes
  <1>8. AuditTellsStore'
    <2> SUFFICES ASSUME NEW j \in behind' \ crossed'
                 PROVE  \E v \in AtAudit' : req'[v].id = j
      BY DEF AuditTellsStore, Auditing, AtAudit
    <2>1. CASE j = i
      BY <1>4, <1>5, <2>1
    <2>2. CASE j # i
      <3>1. j \in behind \ crossed
        BY <1>1, <1>2, <2>2, ApplyTrail
      <3>2. PICK v \in AtAudit : req[v].id = j
        BY <3>1 DEF AuditInv, AuditTellsStore, Auditing, AtAudit
      <3> QED
        BY <1>4, <1>5, <3>2 DEF AtAudit
    <2> QED
      BY <2>1, <2>2
  <1> QED
    BY <1>7, <1>8 DEF AuditInv

\* A write that was applied but not acknowledged leaves an error to its client.
LEMMA UnacknowledgedTrail ==
  ASSUME AuditInv, NEW w \in Writer, WriteUnacknowledged(w), TypeOK'
  PROVE  AuditInv'
  <1>1. PICK i \in Target(w) : Apply(w, i) /\ behind' = behind \ {i}
    BY DEF WriteUnacknowledged
  <1>2. pc[w] = "write" /\ pc' = [pc EXCEPT ![w] = "idle"] /\ req' = [req EXCEPT ![w] = NoReq]
    BY DEF WriteUnacknowledged, Answer, Goto
  <1>3. AtAudit' = AtAudit
    BY <1>2, AtAuditSame DEF AuditInv
  <1>4. \A v \in AtAudit : req'[v] = req[v]
    BY <1>2 DEF AtAudit, AuditInv, TypeOK
  <1>5. Described'
    <2> SUFFICES ASSUME NEW v \in AtAudit, req[v].id \notin crossed'
                 PROVE  Describes(v)'
      BY <1>3, <1>4 DEF Described
    <2>1. req[v].id \in Id /\ req[v].id # i
      BY <1>1, <1>2, ApplyTrail
    <2>2. req[v].id \notin crossed
      BY <1>1, <1>2, <2>1, ApplyTrail
    <2>3. docs'[req[v].id] = docs[req[v].id]
      BY <1>1, <1>2, <2>1, ApplyTrail
    <2> QED
      BY <1>4, <2>2, <2>3 DEF AuditInv, Described, Describes
  <1>6. AuditTellsStore'
    <2> SUFFICES ASSUME NEW j \in behind' \ crossed'
                 PROVE  \E v \in AtAudit' : req'[v].id = j
      BY DEF AuditTellsStore, Auditing, AtAudit
    <2>1. j \in behind \ crossed
      BY <1>1, <1>2, ApplyTrail
    <2> QED
      BY <1>3, <1>4, <2>1 DEF AuditInv, AuditTellsStore, Auditing, AtAudit
  <1> QED
    BY <1>5, <1>6 DEF AuditInv

\* An event describes the redirect unless requests for it crossed.
LEMMA EventTrail ==
  ASSUME AuditInv, NEW w \in Writer, Audit(w) \/ AuditFails(w), TypeOK'
  PROVE  AuditInv'
  <1> DEFINE i == req[w].id
  <1>1. /\ pc[w] = "audit" /\ docs' = docs /\ crossed' = crossed
        /\ pc' = [pc EXCEPT ![w] = "idle"] /\ req' = [req EXCEPT ![w] = NoReq]
    BY DEF Audit, AuditFails, Answer, Goto, store
  <1>2. behind' \ crossed' \subseteq (behind \ crossed) \ {i}
    BY <1>1 DEF Audit, AuditFails, AuditInv, Described, AtAudit
  <1>3. AtAudit' = AtAudit \ {w} /\ \A v \in AtAudit \ {w} : req'[v] = req[v]
    BY <1>1 DEF AtAudit, AuditInv, TypeOK
  <1>4. Described'
    BY <1>1, <1>3 DEF AuditInv, Described, Describes
  <1>5. AuditTellsStore'
    <2> SUFFICES ASSUME NEW j \in behind' \ crossed'
                 PROVE  \E v \in AtAudit' : req'[v].id = j
      BY DEF AuditTellsStore, Auditing, AtAudit
    <2>1. j \in behind \ crossed /\ j # i
      BY <1>2
    <2>2. PICK v \in AtAudit : req[v].id = j
      BY <2>1 DEF AuditInv, AuditTellsStore, Auditing, AtAudit
    <2> QED
      BY <1>3, <2>1, <2>2
  <1> QED
    BY <1>4, <1>5 DEF AuditInv

\* Each step of a writer preserves the invariant of the trail.
LEMMA ProceedTrail ==
  ASSUME AuditInv, NEW w \in Writer, Proceed(w)
  PROVE  AuditInv'
  <1>1. TypeOK'
    BY ProceedType DEF AuditInv
  <1>2. CASE Refuse(w) /\ pc[w] \notin {"invalidate", "audit"}
    BY <1>2, RefuseTrail
  <1>3. ASSUME NEW label, pc' = [pc EXCEPT ![w] = label], label \in {"walk", "write"},
               pc[w] \notin {"invalidate", "audit"},
               \A v \in Writer \ {w} : req'[v] = req[v],
               UNCHANGED <<docs, behind, crossed>>
        PROVE  AuditInv'
    <2>1. AtAudit' = AtAudit
      BY <1>3, AtAuditSame DEF AuditInv
    <2> QED
      BY <1>1, <1>3, <2>1, TrailSame DEF AtAudit
  <1>4. CASE CountSources(w) /\ ~Refuse(w)
    <2>1. /\ pc[w] = "count" /\ pc' = [pc EXCEPT ![w] = "walk"]
          /\ UNCHANGED <<docs, req, behind, crossed>>
      BY <1>4 DEF CountSources, Goto, store, trail
    <2> QED
      BY <1>3, <2>1
  <1>5. CASE WalkOn(w)
    <2>1. pc[w] = "walk" /\ UNCHANGED <<docs, pc, req, behind, crossed>>
      BY <1>5 DEF WalkOn, store, trail
    <2>2. AtAudit' = AtAudit
      BY <2>1 DEF AtAudit
    <2> QED
      BY <1>1, <2>1, <2>2, TrailSame
  <1>6. CASE (WalkEnds(w) \/ WalkCut(w)) /\ ~Refuse(w)
    <2>1. /\ pc[w] = "walk" /\ pc' = [pc EXCEPT ![w] = "write"]
          /\ UNCHANGED <<docs, req, behind, crossed>>
      BY <1>6 DEF WalkEnds, WalkCut, Accept, Goto, store, trail
    <2> QED
      BY <1>3, <2>1
  <1>7. CASE DeleteFinds(w)
    <2>1. /\ pc[w] = "find" /\ pc' = [pc EXCEPT ![w] = "write"]
          /\ UNCHANGED <<docs, behind, crossed>>
      BY <1>7 DEF DeleteFinds, Goto, store, trail
    <2>2. \A v \in Writer \ {w} : req'[v] = req[v]
      BY <1>7 DEF DeleteFinds, AuditInv, TypeOK
    <2> QED
      BY <1>3, <2>1, <2>2
  <1>8. CASE Invalidate(w)
    <2>1. /\ pc[w] = "invalidate" /\ pc' = [pc EXCEPT ![w] = "audit"]
          /\ UNCHANGED <<docs, req, behind, crossed>>
      BY <1>8 DEF Invalidate, Goto, trail
    <2>2. AtAudit' = AtAudit
      BY <2>1, AtAuditSame DEF AuditInv
    <2> QED
      BY <1>1, <2>1, <2>2, TrailSame
  <1>9. CASE CountFails(w) \/ WalkMeets(w) \/ DeleteFails(w) \/ WriteRefused(w) \/ WriteFails(w)
    BY <1>2, <1>9 DEF CountFails, WalkMeets, DeleteFails, WriteRefused, WriteFails
  <1>10. CASE (CountSources(w) \/ WalkEnds(w) \/ WalkCut(w)) /\ Refuse(w)
    BY <1>2, <1>10 DEF CountSources, WalkEnds, WalkCut
  <1> QED
    BY <1>1, <1>4, <1>5, <1>6, <1>7, <1>8, <1>9, <1>10,
       WriteTrail, UnacknowledgedTrail, EventTrail DEF Proceed

(* The audit trail tells what is stored, for any number of writers: the     *)
(* newest event of a redirect that nobody works on describes it, or the     *)
(* client of its last change got an error, or two requests for it crossed.  *)
THEOREM AuditTrail == RedirectsSpec => []AuditTellsStore
  <1>1. RedirectsInit => AuditInv
    <2> SUFFICES ASSUME RedirectsInit PROVE AuditInv
      OBVIOUS
    <2>1. AtAudit = {} /\ behind = {}
      BY DEF RedirectsInit, AtAudit
    <2> QED
      BY <2>1, InitType DEF AuditInv, AuditTellsStore, Described
  <1>2. AuditInv /\ [RedirectsNext]_redirectVars => AuditInv'
    <2> SUFFICES ASSUME AuditInv, [RedirectsNext]_redirectVars PROVE AuditInv'
      OBVIOUS
    <2>1. TypeOK'
      BY NextType DEF AuditInv
    <2>2. CASE UNCHANGED redirectVars
      <3>1. UNCHANGED <<docs, behind, crossed, pc, req>>
        BY <2>2 DEF redirectVars, store, writers, trail
      <3> QED
        BY <2>1, <3>1, TrailSame DEF AtAudit
    <2>3. CASE Restart
      <3>1. behind' = {} /\ AtAudit' = {}
        BY <2>3 DEF Restart, AtAudit
      <3> QED
        BY <2>1, <3>1 DEF AuditInv, AuditTellsStore, Described
    <2> QED
      BY <2>2, <2>3, ArriveTrail, ProceedTrail DEF RedirectsNext
  <1>3. AuditInv => AuditTellsStore
    BY DEF AuditInv
  <1> QED
    BY <1>1, <1>2, <1>3, PTL DEF RedirectsSpec
=============================================================================
