-------------------------------- MODULE Fifo --------------------------------
(***************************************************************************)
(* The first-in first-out lists of thread ids that threading.c keeps in    *)
(* plain arrays, and what its loops over them compute, in closed form.     *)
(***************************************************************************)
EXTENDS Integers, Sequences, FiniteSets

\* The place of i in a finite set K of positions, and the position at a place.
Rank(K, i) == Cardinality({m \in K : m <= i})
Nth(K, j) == CHOOSE i \in K : Rank(K, i) = j

\* The entries of q at the positions K, in order.
At(q, K) == [j \in 1..Cardinality(K) |-> q[Nth(K, j)]]

\* q with every entry that is in S taken out, the others in order: the
\* compaction loop of unqueue.
Without(q, S) == At(q, {i \in DOMAIN q : q[i] \notin S})

\* The least member of a set of numbers.
Least(S) == CHOOSE x \in S : \A y \in S : x <= y
=============================================================================
