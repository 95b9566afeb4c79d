-------------------------------- MODULE Ranking --------------------------------
(***************************************************************************)
(* The members of a finite set in a given order, for the comprehensions    *)
(* with a condition and the sorts of podman-compose.  Nothing here is      *)
(* recursive, so that what the lists hold can be proved for every input.   *)
(***************************************************************************)
EXTENDS Naturals, FiniteSets, Sequences

\* R orders S: of two members one comes first.
Orders(R, S) ==
  /\ \A i \in S : <<i, i>> \notin R
  /\ \A i, j, k \in S : <<i, j>> \in R /\ <<j, k>> \in R => <<i, k>> \in R
  /\ \A i, j \in S : i = j \/ <<i, j>> \in R \/ <<j, i>> \in R

\* How many members of S come before i.
Rank(R, S, i) == Cardinality({j \in S : <<j, i>> \in R})

\* The members of S in the order R.
InOrder(R, S) ==
  [k \in 1 .. Cardinality(S) |-> CHOOSE i \in S : Rank(R, S, i) + 1 = k]

Smaller == {p \in Nat \X Nat : p[1] < p[2]}

\* A set of numbers from the smallest to the greatest.
Ascending(S) == InOrder(Smaller, S)

\* What the list s has at some places, in its order.
Chosen(s, places) == [k \in DOMAIN Ascending(places) |-> s[Ascending(places)[k]]]

\* Pairs of numbers by the first, then by the second.
Lexicographic ==
  {p \in (Nat \X Nat) \X (Nat \X Nat) :
     p[1][1] < p[2][1] \/ (p[1][1] = p[2][1] /\ p[1][2] < p[2][2])}

\* The list s sorted by a number for each place, the earlier first where it is
\* equal.
ByKey(key) ==
  {p \in (DOMAIN key) \X (DOMAIN key) :
     key[p[1]] < key[p[2]] \/ (key[p[1]] = key[p[2]] /\ p[1] < p[2])}
Sorted(s, key) == [k \in DOMAIN s |-> s[InOrder(ByKey(key), DOMAIN s)[k]]]
================================================================================
