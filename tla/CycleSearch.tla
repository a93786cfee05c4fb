---------------------------- MODULE CycleSearch ----------------------------
(***************************************************************************)
(* TaskService._would_create_cycle, one loop iteration per step: the depth *)
(* first search that decides whether task is reachable from dependency in  *)
(* the stored dependency pairs.                                            *)
(***************************************************************************)
EXTENDS Naturals, Sequences, FiniteSets, SequencesExt, DependencyGraph
CONSTANTS
    Nodes           \* the tasks of the business

ASSUME CycleSearchAssumption == IsFiniteSet(Nodes)

VARIABLES
    edges,              \* the rows of task_dependencies
    task, dependency,   \* the arguments
    pending,            \* the list used as a stack
    seen,
    answer              \* "searching", then "cycle" or "safe"

searchVars == <<edges, task, dependency, pending, seen, answer>>

SearchTypeOK ==
    /\ edges \subseteq Nodes \X Nodes
    /\ task \in Nodes /\ dependency \in Nodes
    /\ pending \in Seq(Nodes)
    /\ seen \subseteq Nodes
    /\ answer \in {"searching", "cycle", "safe"}

Outgoing(t) == {d \in Nodes : <<t, d>> \in edges}

\* The lists that hold each member of S once: the query gives no order.
Listings(S) ==
    {q \in [1..Cardinality(S) -> S] : \A d \in S : \E i \in DOMAIN q : q[i] = d}

\* The stored graph is acyclic, and add_dependency has refused a self reference.
SearchInit ==
    /\ edges \in SUBSET (Nodes \X Nodes)
    /\ Acyclic(Nodes, edges)
    /\ task \in Nodes /\ dependency \in Nodes \ {task}
    /\ pending = <<dependency>>
    /\ seen = {}
    /\ answer = "searching"

Found ==
    /\ answer = "searching" /\ pending # <<>>
    /\ Last(pending) = task
    /\ answer' = "cycle"
    /\ UNCHANGED <<edges, task, dependency, pending, seen>>

\* Seeded fault: the successors replace the stack instead of extending it.
ForgetfulPush(q) == pending' = q
Push(q) == pending' = Front(pending) \o q

Expand ==
    LET current == Last(pending) IN
    /\ answer = "searching" /\ pending # <<>>
    /\ current # task /\ current \notin seen
    /\ seen' = seen \cup {current}
    /\ \E q \in Listings(Outgoing(current)) : Push(q)
    /\ UNCHANGED <<edges, task, dependency, answer>>

Pop == pending' = Front(pending)

Skip ==
    /\ answer = "searching" /\ pending # <<>>
    /\ Last(pending) # task /\ Last(pending) \in seen
    /\ Pop
    /\ UNCHANGED <<edges, task, dependency, seen, answer>>

Exhausted ==
    /\ answer = "searching" /\ pending = <<>>
    /\ answer' = "safe"
    /\ UNCHANGED <<edges, task, dependency, pending, seen>>

SearchNext == Found \/ Expand \/ Skip \/ Exhausted

SearchSpec == SearchInit /\ [][SearchNext]_searchVars

-----------------------------------------------------------------------------
\* The answer is right: "cycle" exactly when a stored path leads from the new
\* dependency back to the task.
AnswerIsRight ==
    /\ answer = "cycle" => Reaches(Nodes, edges, dependency, task)
    /\ answer = "safe" => ~Reaches(Nodes, edges, dependency, task)
=============================================================================
