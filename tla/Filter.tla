-------------------------------- MODULE Filter --------------------------------
(***************************************************************************)
(* The erase-while-iterating loops over the mod's queues: what is left of  *)
(* a queue, in its order.  The places that stay are given as a set, so     *)
(* that the operator is neither recursive nor takes an operator.           *)
(***************************************************************************)
EXTENDS Integers, Sequences, FiniteSets

(* How many of the places in S come no later than i. *)
RankIn(S, i) == Cardinality({j \in S : j =< i})

(* The elements of q at the places in S. *)
Kept(q, S) == [n \in 1 .. Cardinality(S) |-> q[CHOOSE i \in S : RankIn(S, i) = n]]
=============================================================================
