------------------------------ MODULE Sorting ------------------------------
(***************************************************************************)
(* Python's sorted() with a key, of the months of a file and of the        *)
(* versions of a profile.                                                  *)
(***************************************************************************)
EXTENDS Integers, FiniteSets

\* Of the positions in S, those that do not come after i: the keys decide, and where
\* they are equal the positions, for sorted() is stable.
UpTo(S, key, i) == {k \in S : key[k] < key[i] \/ (key[k] = key[i] /\ k <= i)}

\* The positions in the order of their keys.
InOrder(S, key) ==
  [n \in 1..Cardinality(S) |-> CHOOSE i \in S : Cardinality(UpTo(S, key, i)) = n]
=============================================================================
