---------------------------- MODULE MCStatistics ----------------------------
(***************************************************************************)
(* Small instances of Statistics.                                          *)
(***************************************************************************)
EXTENDS Statistics, TLC

DailyOnly == <<"daily">>
\* Periods that begin at times of S, and are taken to last n.
Taken(S, n) == [begins |-> [p \in {"daily"} |-> S], length |-> [p \in {"daily"} |-> n]]
Regular == {Taken({0, 2}, 2)}
\* The other one lasts longer than it is taken to: a day of 25 hours.
Changed == Regular \cup {Taken({0, 3}, 1)}

Symmetry == Permutations(Hit) \cup Permutations(IP) \cup Permutations(Worker)
=============================================================================
