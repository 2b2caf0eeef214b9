---------------------------- MODULE MCRedirects -----------------------------
(***************************************************************************)
(* Small instances of Redirects.  Where domains are typed in capitals, one *)
(* that is not lowered is seen as another one than those that are.         *)
(***************************************************************************)
EXTENDS Redirects, TLC

CONSTANTS n1, n2, n3

Plain(n) == [name |-> n, upper |-> FALSE, padded |-> FALSE]

TwoNames == {n1, n2}
ThreeNames == {n1, n2, n3}
PlainTwo == {Plain(n) : n \in TwoNames}
PlainThree == {Plain(n) : n \in ThreeNames}
UpperThree == {[d EXCEPT !.upper = TRUE] : d \in PlainThree}

\* The redirects that are stored or asked for, their domains, and the creates
\* that are under way.
InUse == {docs[i] : i \in StoredIds} \cup ({req[w].doc : w \in Writer} \ {None})
Domains == {d.source : d \in InUse} \cup {d.target : d \in InUse}
Creates == {w \in Writer : req[w].op = "create" /\ req[w].id = None}

\* Two domains and two redirects, without tags.
Two ==
  /\ \A d \in InUse : d.tags = None
  /\ Cardinality(StoredIds) + Cardinality(Creates) <= 2
  /\ Cardinality({d.name : d \in Domains}) <= 2

\* Three of each, plainly spelled and none inactive, while one writer works
\* and no failed call and no crossing of writers has touched the store.
Three ==
  /\ \E w \in Writer : \A v \in Writer \ {w} : pc[v] = "idle"
  /\ Domains \subseteq PlainThree
  /\ \A d \in InUse : d.status # "inactive"
  /\ ~unchecked /\ crossed = {}
  /\ \A i \in behind : \E w \in Writer : Auditing(w, i)

\* The bound of the run: steps that leave both are not taken.
WithinTwoOrThree == (Two \/ Three)'

\* Writers without the index, which could only refuse writes, and without
\* restarts, which end every request: what is left can keep a walk going.
WalkNext == \E w \in Writer : Arrive(w) \/ Proceed(w)
WalkInit == RedirectsInit /\ ~indexed
WalkSpec == WalkInit /\ [][WalkNext]_redirectVars /\ WritersFair

\* All variables but the auxiliary ones, which no guard reads, and the cache,
\* which stays empty here.
WithoutAuxiliary == <<docs, indexed, pc, req, at, visited>>

Symmetry == Permutations(Writer) \cup Permutations(Id) \cup Permutations(Name)
=============================================================================
