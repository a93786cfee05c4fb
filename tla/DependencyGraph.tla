-------------------------- MODULE DependencyGraph --------------------------
(* Directed graphs given by a set N of nodes and a set E of edges <<a, b>>. *)

\* C is closed under E: following an edge from a member stays inside.
Closed(C, E) == \A e \in E : e[1] \in C => e[2] \in C

\* A path of E leads from a to b: every closed set that holds a holds b.
Reaches(N, E, a, b) == \A C \in SUBSET N : a \in C /\ Closed(C, E) => b \in C

\* Every non-empty set of nodes has a member with no edge into the set.
Acyclic(N, E) ==
    \A S \in SUBSET N : S # {} => \E t \in S : \A d \in S : <<t, d>> \notin E
=============================================================================
