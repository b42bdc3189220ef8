---------------------------------- MODULE MCHub ----------------------------------
(***************************************************************************)
(* Small instances of Hub: the default group and one more.                 *)
(***************************************************************************)
EXTENDS Hub, TLC

CONSTANTS default, ops, Dflt, Ops, t1, q1, q2, c1, c2

\* The two names differ in more than case.
FoldCase == [n \in Names |-> n]

\* Requests can be told apart by nothing, nor can calls.
Symmetric == Permutations(Requests) \cup Permutations(Calls)
=============================================================================
