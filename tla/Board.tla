-------------------------------- MODULE Board --------------------------------
(***************************************************************************)
(* A leaderboard's sorted set: a user's score, 0 when the user is absent   *)
(* (every accepted delta is positive).  ZREVRANGE gives the best first,    *)
(* equal scores in the reverse order of the members, which for the user    *)
(* numbers of these models is that of the numbers.                         *)
(***************************************************************************)
EXTENDS Integers, FiniteSets

CONSTANT Users

ASSUME BoardAssumption == Users \subseteq Nat /\ IsFiniteSet(Users)

Ranked(b) == {u \in Users : b[u] > 0}
Above(b, u, v) == b[u] > b[v] \/ (b[u] = b[v] /\ u > v)
Position(b, u) == 1 + Cardinality({v \in Users : Above(b, v, u)})

(* ZREVRANGE from .. from+n-1 *)
ReverseRange(b, from, n) ==
  LET size == Cardinality(Ranked(b))
      length == IF from + n <= size THEN n ELSE IF from < size THEN size - from ELSE 0
  IN  [k \in 1..length |-> CHOOSE u \in Ranked(b) : Position(b, u) = from + k]
=============================================================================
