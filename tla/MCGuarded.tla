----------------------------- MODULE MCGuarded ------------------------------
(***************************************************************************)
(* The two structures that requests share under a mutex, small: LRUList    *)
(* and RateLimiter.  They share no variable, so that each is explored      *)
(* while the other has not begun.                                          *)
(*                                                                         *)
(* Four keys in a cache of three entries: evictions, moves from the front, *)
(* the middle and the end of the list, and re-insertion of evicted keys    *)
(* all happen.  Keys, values and clients are interchangeable and the       *)
(* properties are safety properties, so symmetry is sound.  Requests only  *)
(* differ by name: they are made in the order of their numbers.            *)
(***************************************************************************)
EXTENDS LRUList, RateLimiter, TLC

Made == {a.request : a \in admitted \cup refused}
InOrder == \A q \in Made : 1..q \subseteq Made

GuardedInit == Init /\ RateInit

GuardedNext ==
  \/ RateInit /\ Next /\ UNCHANGED rateVars
  \/ Init /\ RateNext /\ InOrder' /\ UNCHANGED vars

GuardedSpec == GuardedInit /\ [][GuardedNext]_<<vars, rateVars>>

Symmetry == Permutations(Key) \cup Permutations(Entry) \cup Permutations(IP)
=============================================================================
