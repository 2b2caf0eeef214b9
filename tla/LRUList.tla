------------------------------ MODULE LRUList -------------------------------
(***************************************************************************)
(* util/cache/lru.go: the map from key to node and the doubly linked list  *)
(* between the dummies Head and Tail.  A node is named by its key: a key   *)
(* has at most one reachable node, and a node the list has dropped is      *)
(* garbage, whatever its links still say.  A method runs under the mutex   *)
(* from start to end and is one action.                                    *)
(***************************************************************************)
EXTENDS LRUOps, FiniteSets

CONSTANTS Entry,  \* the values stored, *CacheEntry in the code
          Head,   \* the dummy in front of the most recently used node
          Tail    \* the dummy behind the least recently used node

ASSUME NodeAssumption == Head \notin Key /\ Tail \notin Key /\ Head # Tail

ASSUME FiniteKeys == IsFiniteSet(Key)

ASSUME NoEntryAssumption == NoEntry \notin Entry

VARIABLES
  nodes,   \* the keys of the map
  links,   \* links.next and links.prev of every node that was ever linked
  val,     \* the value of each node, NoEntry where the map has no node
  answer,  \* what the last Get returned
  \* Auxiliary, read by no guard:
  pos,     \* the recency rank LRUOps gives to each key
  held,    \* keys Put and neither deleted nor cleared since
  since    \* for a held key, the keys used after its last use

program == <<nodes, links, val, answer>>
vars == <<program, pos, held, since>>

Node == Key \cup {Head, Tail}

-----------------------------------------------------------------------------
(* removeNode, addToFront and moveToFront on the links l.                  *)

\* Mutant of RemoveNode: the next node still points back to n.
RemoveNodeOneWay(l, n) == [l EXCEPT !.next[l.prev[n]] = l.next[n]]

RemoveNode(l, n) ==
  [next |-> [l.next EXCEPT ![l.prev[n]] = l.next[n]],
   prev |-> [l.prev EXCEPT ![l.next[n]] = l.prev[n]]]

AddToFront(l, n) ==
  [next |-> [l.next EXCEPT ![n] = l.next[Head], ![Head] = n],
   prev |-> [l.prev EXCEPT ![n] = Head, ![l.next[Head]] = n]]

\* Mutant of MoveToFront: a use does not refresh the node.
Unmoved(l, n) == l

MoveToFront(l, n) == AddToFront(RemoveNode(l, n), n)

\* Mutant of Joined: the dummies are left with nil links.
Unjoined(l) == [next |-> [l.next EXCEPT ![Head] = NoEntry],
                prev |-> [l.prev EXCEPT ![Tail] = NoEntry]]

\* The two dummies joined: the list without a node.
Joined(l) == [next |-> [l.next EXCEPT ![Head] = Tail],
              prev |-> [l.prev EXCEPT ![Tail] = Head]]

-----------------------------------------------------------------------------
(* What the auxiliary variables record of a use of key k.                  *)

AsCache == [rank |-> pos, entry |-> val]

Used(k) == [j \in Key |-> IF j = k \/ j \notin held THEN {} ELSE since[j] \cup {k}]

Dropped(K) == [j \in Key |-> IF j \in K THEN {} ELSE since[j]]

-----------------------------------------------------------------------------
Init ==
  /\ nodes = {}
  /\ links = Joined([next |-> [n \in Node |-> Head], prev |-> [n \in Node |-> Tail]])
  /\ val = [k \in Key |-> NoEntry]
  /\ answer = NoEntry
  /\ pos = EmptyCache.rank
  /\ held = {}
  /\ since = [k \in Key |-> {}]

GetHit(k) ==
  /\ k \in nodes
  /\ links' = MoveToFront(links, k)
  /\ answer' = val[k]
  /\ pos' = CacheGet(AsCache, k).rank
  /\ since' = Used(k)
  /\ UNCHANGED <<nodes, val, held>>

GetMiss(k) ==
  /\ k \notin nodes
  /\ answer' = NoEntry
  /\ UNCHANGED <<nodes, links, val, pos, held, since>>

PutExisting(k, e) ==
  /\ k \in nodes
  /\ val' = [val EXCEPT ![k] = e]
  /\ links' = MoveToFront(links, k)
  /\ pos' = CachePut(AsCache, k, e).rank
  /\ since' = Used(k)
  /\ UNCHANGED <<nodes, answer, held>>

\* Mutant of OverCapacity: the comparison is off by one.
OverCapacityByOne(k) == Cardinality(nodes \cup {k}) > Capacity + 1

\* len(c.cache) > c.capacity, once the new node is in the map.
OverCapacity(k) == Cardinality(nodes \cup {k}) > Capacity

\* Mutant of Victim: the node before the last one goes.
VictimBeforeLast(l) == l.prev[l.prev[Tail]]

\* removeTail takes the node in front of the dummy Tail.
Victim(l) == l.prev[Tail]

PutNew(k, e) ==
  /\ k \notin nodes
  /\ LET added  == AddToFront(links, k)
         victim == Victim(added)
     IN  IF OverCapacity(k) /\ victim # Head
         THEN /\ links' = RemoveNode(added, victim)
              /\ nodes' = (nodes \cup {k}) \ {victim}
              /\ val' = [[val EXCEPT ![k] = e] EXCEPT ![victim] = NoEntry]
         ELSE /\ links' = added
              /\ nodes' = nodes \cup {k}
              /\ val' = [val EXCEPT ![k] = e]
  /\ pos' = CachePut(AsCache, k, e).rank
  /\ held' = held \cup {k}
  /\ since' = Used(k)
  /\ UNCHANGED answer

DeleteHit(k) ==
  /\ k \in nodes
  /\ links' = RemoveNode(links, k)
  /\ nodes' = nodes \ {k}
  /\ val' = [val EXCEPT ![k] = NoEntry]
  /\ pos' = CacheDelete(AsCache, k).rank
  /\ held' = held \ {k}
  /\ since' = Dropped({k})
  /\ UNCHANGED answer

DeleteMiss(k) ==
  /\ k \notin nodes
  /\ held' = held \ {k}
  /\ since' = Dropped({k})
  /\ UNCHANGED <<nodes, links, val, answer, pos>>

\* The nodes stay linked to each other, but nothing reaches them any more.
Clear ==
  /\ nodes' = {}
  /\ links' = Joined(links)
  /\ val' = [k \in Key |-> NoEntry]
  /\ pos' = CacheClear.rank
  /\ held' = {}
  /\ since' = Dropped(Key)
  /\ UNCHANGED answer

Next ==
  \/ \E k \in Key : GetHit(k)
  \/ \E k \in Key : GetMiss(k)
  \/ \E k \in Key, e \in Entry : PutExisting(k, e)
  \/ \E k \in Key, e \in Entry : PutNew(k, e)
  \/ \E k \in Key : DeleteHit(k)
  \/ \E k \in Key : DeleteMiss(k)
  \/ Clear

Spec == Init /\ [][Next]_vars

-----------------------------------------------------------------------------
(* Every variable keeps its type; links never leave the known nodes.       *)
TypeOK ==
  /\ nodes \subseteq Key
  /\ links \in [next : [Node -> Node], prev : [Node -> Node]]
  /\ val \in [Key -> Entry \cup {NoEntry}]
  /\ answer \in Entry \cup {NoEntry}
  /\ pos \in [Key -> Nat]
  /\ held \subseteq Key
  /\ since \in [Key -> SUBSET Key]

\* The place of a node in the list, the dummies included.
Place(n) == IF n = Head THEN 0
            ELSE IF n = Tail THEN Cardinality(nodes) + 1 ELSE pos[n]

Linked == nodes \cup {Head, Tail}

(* The list and the map agree after every method: the nodes of the map are  *)
(* exactly the keys with a place, forwards and backwards links mirror each  *)
(* other, and a link leads to the next place.  A lost or doubled node, a    *)
(* dangling link or a list in another order than recency violates it.       *)
LinksFollowRecency ==
  /\ \A k \in Key : /\ k \in nodes <=> pos[k] > 0
                    /\ k \in nodes <=> val[k] # NoEntry
  /\ \A n \in Linked \ {Tail} :
        LET m == links.next[n] IN
        /\ m \in Linked
        /\ links.prev[m] = n
        /\ Place(m) = Place(n) + 1
  /\ \A n \in Linked \ {Head} :
        LET m == links.prev[n] IN
        /\ m \in Linked
        /\ links.next[m] = n
        /\ Place(m) + 1 = Place(n)

(* removeTail keeps up with Put: the map never holds more than capacity     *)
(* entries when no method is running, whatever mix of calls came before.    *)
SizeBounded == Cardinality(nodes) <= Capacity

(* What "least recently used" is for: a key that was put and not deleted is *)
(* still cached unless Capacity other keys have been used since its last    *)
(* use.  An eviction of the wrong end or a Get that does not refresh its    *)
(* key breaks it.                                                           *)
KeepsRecent == \A k \in held : Cardinality(since[k]) < Capacity => k \in nodes

(* The list implements the bounded least-recently-used map, answer for      *)
(* answer and eviction for eviction.                                        *)
LRU == INSTANCE LRUCache WITH cache <- AsCache
Refinement == LRU!Spec
=============================================================================
