------------------------------ MODULE DagSort ------------------------------
(***************************************************************************)
(* framework/dag.h: DAG::sort_and_check_has_loop, which puts the operators *)
(* in an order in which everybody comes after its upstreams, or finds that *)
(* there is none.  One action per turn of a loop.                          *)
(***************************************************************************)
EXTENDS Naturals, Sequences, FiniteSets

VARIABLES
    links,     \* links[i]: the operators downstream of operator i
    indegree,  \* indegree[i]: how many upstreams of i are not accounted for
    scan,      \* the next operator the first loop looks at
    q,         \* the operators that can come next
    sorted,    \* the order so far
    rest       \* the downstreams of the last one that are still to be counted down

sortVars == <<links, indegree, scan, q, sorted, rest>>

Elements(s) == {s[k] : k \in DOMAIN s}
Nodes == DOMAIN links
Upstreams(l, i) == {p \in DOMAIN l : i \in l[p]}

\* A graph over the operators 1 .. n without links from an operator to itself.
IsGraph(l) ==
    /\ \E n \in Nat : DOMAIN l = 1 .. n
    /\ \A i \in DOMAIN l : l[i] \subseteq DOMAIN l \ {i}

\* The call with the links l.
StartSort(l) ==
    /\ links' = l
    /\ indegree' = [i \in DOMAIN l |-> Cardinality(Upstreams(l, i))]
    /\ scan' = 1 /\ q' = <<>> /\ sorted' = <<>> /\ rest' = {}

\* The loop over all operators: those without upstream come first.
Scan ==
    /\ scan \in Nodes
    /\ q' = IF indegree[scan] = 0 THEN Append(q, scan) ELSE q
    /\ scan' = scan + 1
    /\ UNCHANGED <<links, indegree, sorted, rest>>

\* The head of the loop over the queue.
Pop ==
    /\ scan \notin Nodes /\ rest = {} /\ q # <<>>
    /\ sorted' = Append(sorted, Head(q))
    /\ rest' = links[Head(q)]
    /\ q' = Tail(q)
    /\ UNCHANGED <<links, indegree, scan>>

\* (mutant) puts a downstream into the queue with the first of its upstreams
CountDownEager ==
    \E l \in rest :
        /\ \A k \in rest : l <= k
        /\ indegree' = [indegree EXCEPT ![l] = @ - 1]
        /\ q' = IF l \notin Elements(q) \cup Elements(sorted) THEN Append(q, l) ELSE q
        /\ rest' = rest \ {l}
        /\ UNCHANGED <<links, scan, sorted>>

\* (mutant) looks at the counter before it is counted down
CountDownLate ==
    \E l \in rest :
        /\ \A k \in rest : l <= k
        /\ indegree' = [indegree EXCEPT ![l] = @ - 1]
        /\ q' = IF indegree[l] = 0 THEN Append(q, l) ELSE q
        /\ rest' = rest \ {l}
        /\ UNCHANGED <<links, scan, sorted>>

\* The loop over the downstreams of the operator, a std::set in ascending order.
CountDown ==
    \E l \in rest :
        /\ \A k \in rest : l <= k
        /\ indegree' = [indegree EXCEPT ![l] = @ - 1]
        /\ q' = IF indegree[l] - 1 = 0 THEN Append(q, l) ELSE q
        /\ rest' = rest \ {l}
        /\ UNCHANGED <<links, scan, sorted>>

SortStep == Scan \/ Pop \/ CountDown

\* The loops are over; the sort has succeeded if it has reached all operators.
SortDone == scan \notin Nodes /\ rest = {} /\ q = <<>>

\* The sort of any graph.
SortInit ==
    /\ IsGraph(links)
    /\ indegree = [i \in Nodes |-> Cardinality(Upstreams(links, i))]
    /\ scan = 1 /\ q = <<>> /\ sorted = <<>> /\ rest = {}

SortSpec == SortInit /\ [][SortStep]_sortVars

-----------------------------------------------------------------------------
\* Whoever has got a place comes after all its upstreams, and has one place only.
SortSound ==
    /\ \A k \in DOMAIN sorted : \A p \in Upstreams(links, sorted[k]) :
         \E j \in 1 .. (k - 1) : sorted[j] = p
    /\ \A j, k \in DOMAIN sorted : sorted[j] = sorted[k] => j = k

\* When the sort ends it has left somebody out just if there is a loop: some operators
\* each of which has an upstream among them.
IsLoop(S) == S # {} /\ \A i \in S : Upstreams(links, i) \cap S # {}
LoopsFound ==
    SortDone => (Nodes \subseteq Elements(sorted) <=> ~\E S \in SUBSET Nodes : IsLoop(S))
=============================================================================
