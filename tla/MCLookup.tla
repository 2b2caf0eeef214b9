------------------------------ MODULE MCLookup ------------------------------
(***************************************************************************)
(* Small instances of Lookup.                                              *)
(***************************************************************************)
EXTENDS Lookup, TLC

CONSTANTS n1, n2, n3

Plain(n) == [name |-> n, upper |-> FALSE, padded |-> FALSE]

ThreeNames == {n1, n2, n3}
PlainTwo == {Plain(n1), Plain(n2)}
PlainThird == {Plain(n3)}

Symmetry == Permutations(Reader) \cup Permutations(Id) \cup Permutations({n1, n2})
=============================================================================
