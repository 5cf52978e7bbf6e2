------------------------------- MODULE Lists -------------------------------
(***************************************************************************)
(* Python's sorted(), its list comprehensions with a condition and its for *)
(* loops, by what they give: defined on sets of elements and of positions, *)
(* and by recursion on numbers, so that the proofs can reason about them.  *)
(***************************************************************************)
EXTENDS Integers, Sequences, FiniteSets

\* The elements of a finite set S in the order R, a set of pairs: the one that
\* comes k-th has k - 1 before it.
InOrder(S, R) ==
  [k \in 1 .. Cardinality(S) |-> CHOOSE x \in S : Cardinality({y \in S : <<y, x>> \in R}) = k - 1]

\* The order of positions in a list.
Less == {p \in Nat \X Nat : p[1] < p[2]}

\* The elements of a list that are at the positions I, in their order:
\* [x for x in s if ...], where I are the positions of the x that qualify.  (The
\* concatenation has TLC compute the list once, not at each use.)
At(s, I) == <<>> \o [k \in 1 .. Cardinality(I) |-> s[InOrder(I, Less)[k]]]

\* [x for x in s if P(x)].
Filter(s, P(_)) == At(s, {n \in DOMAIN s : P(s[n])})

\* for x in s: the state the body of the loop leaves, starting from start.
Loop(Body(_, _), start, s) ==
  LET state[n \in 0 .. Len(s)] == IF n = 0 THEN start ELSE Body(state[n - 1], s[n])
  IN  state[Len(s)]
=============================================================================
