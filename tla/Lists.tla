-------------------------------- MODULE Lists --------------------------------
(***************************************************************************)
(* What the program does to lists with sorted(), list.sort() and with a    *)
(* comprehension that has a condition.  Python's sort is stable: of two    *)
(* elements with one key, the one that stood before the other stays there. *)
(***************************************************************************)
EXTENDS Integers, Sequences, FiniteSets

\* How many of the things that have a key stand before i, with i itself.
Place(key, i) ==
  Cardinality({j \in DOMAIN key : key[j] < key[i] \/ (key[j] = key[i] /\ j <= i)})

Ranked(key, n) == CHOOSE i \in DOMAIN key : Place(key, i) = n

\* sorted(s, key=...)
SortedBy(s, key) == [n \in 1 .. Len(s) |-> s[Ranked(key, n)]]

\* [x for x in s if ...]: the elements at these places.
Those(s, places) ==
  LET key == [i \in places |-> i]
  IN [n \in 1 .. Cardinality(places) |-> s[Ranked(key, n)]]
=============================================================================
