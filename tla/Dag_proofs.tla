------------------------------ MODULE Dag_proofs ------------------------------
(***************************************************************************)
(* Proofs about DagSort, for graphs of every size and shape, and about     *)
(* Dag, for configurations of every size and shape.                        *)
(***************************************************************************)
EXTENDS Dag, Induction

\* The operators whose link to i has not been counted down yet.
Open(i) ==
    {p \in Upstreams(links, i) :
        p \in Elements(sorted) => i \in rest /\ p = sorted[Len(sorted)]}

Placed == Elements(q) \cup Elements(sorted)

\* Types, and who can be where: the first loop ends before the first operator gets a
\* place, and nobody is queued or placed twice.
Places ==
    /\ IsGraph(links)
    /\ \E n \in Nat : Nodes = 1 .. n /\ scan \in 1 .. (n + 1)
    /\ q \in Seq(Nodes) /\ sorted \in Seq(Nodes)
    /\ scan \in Nodes => sorted = <<>> /\ rest = {}
    /\ \A k \in DOMAIN q : q[k] < scan
    /\ \A j, k \in DOMAIN q : q[j] = q[k] => j = k
    /\ \A j, k \in DOMAIN sorted : sorted[j] = sorted[k] => j = k
    /\ Elements(q) \cap Elements(sorted) = {}
    /\ rest # {} => sorted # <<>> /\ rest \subseteq links[sorted[Len(sorted)]]

\* What the counters count, and that they decide who is placed.
Counters ==
    /\ indegree \in [Nodes -> Nat]
    /\ \A i \in Nodes : indegree[i] = Cardinality(Open(i))
    /\ \A i \in Placed : indegree[i] = 0
    /\ \A i \in Nodes : indegree[i] = 0 /\ i < scan => i \in Placed

\* Whoever is placed comes after its upstreams.
InOrder ==
    \A k \in DOMAIN sorted : \A p \in Upstreams(links, sorted[k]) :
        \E j \in 1 .. (k - 1) : sorted[j] = p

IInv == Places /\ Counters /\ InOrder

-----------------------------------------------------------------------------
(* Facts about sequences and counters.                                     *)

\* What Append does to the elements of a sequence.
LEMMA AppendFact ==
    ASSUME NEW S, NEW s \in Seq(S), NEW e \in S
    PROVE  /\ Append(s, e) \in Seq(S) /\ Append(s, e) # <<>>
           /\ Len(Append(s, e)) = Len(s) + 1
           /\ DOMAIN Append(s, e) = DOMAIN s \cup {Len(s) + 1}
           /\ Len(s) + 1 \notin DOMAIN s
           /\ \A k \in DOMAIN s : Append(s, e)[k] = s[k]
           /\ Append(s, e)[Len(s) + 1] = e
           /\ Elements(Append(s, e)) = Elements(s) \cup {e}
<1>1. /\ Append(s, e) \in Seq(S) /\ Append(s, e) # <<>>
      /\ Len(Append(s, e)) = Len(s) + 1
      /\ DOMAIN Append(s, e) = DOMAIN s \cup {Len(s) + 1}
      /\ Len(s) + 1 \notin DOMAIN s
      /\ \A k \in DOMAIN s : Append(s, e)[k] = s[k]
      /\ Append(s, e)[Len(s) + 1] = e
  OBVIOUS
<1>2. Elements(Append(s, e)) = Elements(s) \cup {e}
  BY <1>1, Zenon DEF Elements
<1>. QED
  BY <1>1, <1>2

\* What is left when the head of a queue without duplicates is taken.
LEMMA PopFact ==
    ASSUME NEW S, NEW s \in Seq(S), s # <<>>,
           \A j, k \in DOMAIN s : s[j] = s[k] => j = k
    PROVE  /\ Head(s) \in S /\ Head(s) \in Elements(s)
           /\ Tail(s) \in Seq(S)
           /\ Elements(Tail(s)) = Elements(s) \ {Head(s)}
           /\ \A k \in DOMAIN Tail(s) : k + 1 \in DOMAIN s /\ Tail(s)[k] = s[k + 1]
           /\ \A j, k \in DOMAIN Tail(s) : Tail(s)[j] = Tail(s)[k] => j = k
<1>1. /\ Len(s) \in Nat \ {0} /\ DOMAIN s = 1 .. Len(s) /\ Head(s) = s[1] /\ 1 \in DOMAIN s
      /\ Tail(s) \in Seq(S) /\ DOMAIN Tail(s) = 1 .. (Len(s) - 1)
      /\ \A k \in 1 .. (Len(s) - 1) : Tail(s)[k] = s[k + 1]
  OBVIOUS
<1>2. Head(s) \in S /\ Head(s) \in Elements(s)
  BY <1>1 DEF Elements
<1>3. \A k \in DOMAIN Tail(s) : k + 1 \in DOMAIN s /\ Tail(s)[k] = s[k + 1]
  BY <1>1
<1>4. \A j, k \in DOMAIN Tail(s) : Tail(s)[j] = Tail(s)[k] => j = k
  BY <1>1, <1>3
<1>5. Elements(Tail(s)) \subseteq Elements(s) \ {Head(s)}
  <2>1. SUFFICES ASSUME NEW k \in DOMAIN Tail(s)
                 PROVE  Tail(s)[k] \in Elements(s) \ {Head(s)}
    BY DEF Elements
  <2>2. k + 1 \in DOMAIN s /\ k + 1 # 1 /\ Tail(s)[k] = s[k + 1]
    BY <1>1, <1>3
  <2>. QED
    BY <2>2, <1>1 DEF Elements
<1>6. Elements(s) \ {Head(s)} \subseteq Elements(Tail(s))
  <2>1. SUFFICES ASSUME NEW k \in DOMAIN s, s[k] # Head(s)
                 PROVE  s[k] \in Elements(Tail(s))
    BY DEF Elements
  <2>2. k - 1 \in DOMAIN Tail(s) /\ Tail(s)[k - 1] = s[k]
    BY <2>1, <1>1
  <2>. QED
    BY <2>2 DEF Elements
<1>. QED
  BY <1>1, <1>2, <1>3, <1>4, <1>5, <1>6

\* The links that are still open are finitely many, so they can be counted.
LEMMA OpenFinite ==
    ASSUME IsGraph(links), NEW i
    PROVE  /\ IsFiniteSet(Open(i)) /\ Cardinality(Open(i)) \in Nat
           /\ Cardinality(Open(i)) = 0 <=> Open(i) = {}
<1>1. PICK n \in Nat : Nodes = 1 .. n
  BY DEF IsGraph, Nodes
<1>2. Open(i) \in SUBSET Nodes
  BY DEF Open, Upstreams, Nodes
<1>3. IsFiniteSet(Open(i))
  BY <1>1, <1>2, FS_Interval, FS_Subset
<1>. QED
  BY <1>3, FS_CardinalityType, FS_EmptySet

-----------------------------------------------------------------------------
(* The invariant.                                                          *)

\* The invariant holds when the sort begins: nobody is scanned, and every link is open.
LEMMA InitHolds == SortInit => IInv
<1>. SUFFICES ASSUME SortInit PROVE IInv
  OBVIOUS
<1>1. PICK n \in Nat : Nodes = 1 .. n
  BY DEF SortInit, IsGraph, Nodes
<1>2. Elements(q) = {} /\ Elements(sorted) = {}
  BY DEF SortInit, Elements
<1>3. Places
  <2>1. scan \in 1 .. (n + 1)
    BY <1>1 DEF SortInit
  <2>. QED
    BY <1>1, <1>2, <2>1 DEF SortInit, Places
<1>4. Counters
  <2>1. ASSUME NEW i \in Nodes
        PROVE  indegree[i] = Cardinality(Open(i)) /\ indegree[i] \in Nat
    <3>1. Open(i) = Upstreams(links, i)
      BY <1>2 DEF Open
    <3>. QED
      BY <2>1, <3>1, OpenFinite DEF SortInit, Nodes
  <2>2. indegree \in [Nodes -> Nat]
    BY <2>1 DEF SortInit
  <2>3. Placed = {} /\ \A i \in Nodes : ~(i < scan)
    BY <1>1, <1>2 DEF Placed, SortInit
  <2>. QED
    BY <2>1, <2>2, <2>3 DEF Counters
<1>5. InOrder
  BY DEF SortInit, InOrder
<1>. QED
  BY <1>3, <1>4, <1>5 DEF IInv

\* The first loop queues the operators without upstream.
LEMMA ScanKeeps ==
    ASSUME IInv, Scan
    PROVE  IInv'
<1>. USE DEF IInv, Nodes
<1>1. PICK n \in Nat : Nodes = 1 .. n /\ scan \in 1 .. n
  BY DEF Places, Scan
<1>2. /\ UNCHANGED <<links, indegree, sorted, rest>> /\ scan' = scan + 1
      /\ sorted = <<>> /\ rest = {} /\ scan \in Nodes
  BY DEF Scan, Places
<1>3. Elements(sorted) = {} /\ Elements(sorted)' = {}
  BY <1>2 DEF Elements
<1>4. \A i : Open(i)' = Open(i)
  BY <1>2 DEF Open, Elements
<1>5. scan \notin Elements(q)
  BY <1>1 DEF Places, Elements
<1>6. /\ q' \in Seq(Nodes)
      /\ \A k \in DOMAIN q' : q'[k] < scan'
      /\ \A j, k \in DOMAIN q' : q'[j] = q'[k] => j = k
      /\ Elements(q') = Elements(q) \cup (IF indegree[scan] = 0 THEN {scan} ELSE {})
  <2>1. CASE indegree[scan] = 0
    <3>1. q' = Append(q, scan) /\ q \in Seq(Nodes)
      BY <2>1 DEF Scan, Places
    <3>2. /\ q' \in Seq(Nodes) /\ DOMAIN q' = DOMAIN q \cup {Len(q) + 1}
          /\ Len(q) + 1 \notin DOMAIN q
          /\ \A k \in DOMAIN q : q'[k] = q[k]
          /\ q'[Len(q) + 1] = scan
          /\ Elements(q') = Elements(q) \cup {scan}
      BY <1>2, <3>1, AppendFact
    <3>3. \A k \in DOMAIN q : q[k] < scan /\ q[k] # scan /\ q[k] \in Nat
      BY <1>1 DEF Places
    <3>. QED
      BY <1>1, <1>2, <2>1, <3>2, <3>3 DEF Places
  <2>2. CASE indegree[scan] # 0
    <3>1. q' = q
      BY <2>2 DEF Scan
    <3>2. \A k \in DOMAIN q : q[k] < scan + 1
      BY <1>1 DEF Places
    <3>. QED
      BY <1>2, <2>2, <3>1, <3>2 DEF Places
  <2>. QED
    BY <2>1, <2>2
<1>7. Places'
  <2>1. \E k \in Nat : Nodes' = 1 .. k /\ scan' \in 1 .. (k + 1)
    BY <1>1, <1>2
  <2>. QED
    BY <1>2, <1>3, <1>6, <2>1 DEF Places
<1>8. Counters'
  <2>1. \A i \in Placed' : indegree'[i] = 0
    BY <1>2, <1>3, <1>6 DEF Counters, Placed
  <2>2. ASSUME NEW i \in Nodes', indegree'[i] = 0, i < scan'
        PROVE  i \in Placed'
    <3>1. CASE i < scan
      BY <1>2, <1>3, <1>6, <2>2, <3>1 DEF Counters, Placed
    <3>2. CASE ~(i < scan)
      <4>1. i = scan
        BY <1>1, <1>2, <2>2, <3>2
      <4>. QED
        BY <1>2, <1>6, <2>2, <4>1 DEF Placed
    <3>. QED
      BY <3>1, <3>2
  <2>. QED
    BY <1>2, <1>4, <2>1, <2>2 DEF Counters
<1>9. InOrder'
  BY <1>2 DEF InOrder
<1>. QED
  BY <1>7, <1>8, <1>9

\* A counter of 0 says that all upstreams have a place.
LEMMA UpstreamsPlaced ==
    ASSUME IInv, rest = {}, NEW i \in Nodes, indegree[i] = 0
    PROVE  Upstreams(links, i) \subseteq Elements(sorted)
<1>1. Open(i) = {}
  BY OpenFinite DEF IInv, Places, Counters
<1>. QED
  BY <1>1 DEF Open

\* The head of the queue gets its place; its links are now open because they are in
\* rest, no longer because it has no place.
LEMMA PopKeeps ==
    ASSUME IInv, Pop
    PROVE  IInv'
<1>. DEFINE v == Head(q)
<1>1. /\ UNCHANGED <<links, indegree, scan>> /\ rest = {} /\ scan \notin Nodes /\ q # <<>>
      /\ sorted' = Append(sorted, v) /\ rest' = links[v] /\ q' = Tail(q)
  BY DEF Pop
<1>2. /\ v \in Nodes /\ v \in Elements(q)
      /\ q' \in Seq(Nodes) /\ Elements(q') = Elements(q) \ {v}
      /\ \A k \in DOMAIN q' : k + 1 \in DOMAIN q /\ q'[k] = q[k + 1]
      /\ \A j, k \in DOMAIN q' : q'[j] = q'[k] => j = k
  BY <1>1, PopFact DEF IInv, Places
<1>3. /\ sorted' \in Seq(Nodes) /\ sorted' # <<>>
      /\ Len(sorted') = Len(sorted) + 1
      /\ DOMAIN sorted' = DOMAIN sorted \cup {Len(sorted) + 1}
      /\ Len(sorted) + 1 \notin DOMAIN sorted
      /\ \A k \in DOMAIN sorted : sorted'[k] = sorted[k]
      /\ sorted'[Len(sorted) + 1] = v
      /\ Elements(sorted') = Elements(sorted) \cup {v}
  BY <1>1, <1>2, AppendFact DEF IInv, Places
<1>4. v \notin Elements(sorted) /\ indegree[v] = 0
  BY <1>2 DEF IInv, Places, Counters, Placed
<1>5. Places'
  <2>1. \A j, k \in DOMAIN sorted' : sorted'[j] = sorted'[k] => j = k
    <3>1. \A k \in DOMAIN sorted : sorted[k] # v
      BY <1>4 DEF Elements
    <3>2. \A j, k \in DOMAIN sorted : sorted[j] = sorted[k] => j = k
      BY DEF IInv, Places
    <3>. QED
      BY <1>3, <3>1, <3>2
  <2>2. Elements(q') \cap Elements(sorted') = {}
    BY <1>2, <1>3 DEF IInv, Places
  <2>3. \A k \in DOMAIN q' : q'[k] < scan
    BY <1>2 DEF IInv, Places
  <2>4. rest' \subseteq links'[sorted'[Len(sorted')]]
    BY <1>1, <1>3
  <2>. QED
    BY <1>1, <1>2, <1>3, <2>1, <2>2, <2>3, <2>4 DEF IInv, Places, Nodes
<1>6. Counters'
  <2>1. ASSUME NEW i \in Nodes
        PROVE  Open(i)' = Open(i)
    <3>1. ASSUME NEW p \in Upstreams(links, i)
          PROVE  (p \in Elements(sorted') => i \in rest' /\ p = sorted'[Len(sorted')])
                 <=> (p \in Elements(sorted) => i \in rest /\ p = sorted[Len(sorted)])
      <4>1. CASE p = v
        BY <1>1, <1>3, <1>4, <3>1, <4>1 DEF Upstreams
      <4>2. CASE p # v
        BY <1>1, <1>3, <4>2
      <4>. QED
        BY <4>1, <4>2
    <3>. QED
      BY <1>1, <3>1 DEF Open
  <2>2. Placed' = Placed
    BY <1>2, <1>3 DEF Placed
  <2>. QED
    BY <1>1, <2>1, <2>2 DEF IInv, Counters, Nodes
<1>7. InOrder'
  <2>1. SUFFICES ASSUME NEW k \in DOMAIN sorted', NEW p \in Upstreams(links, sorted'[k])
                 PROVE  \E j \in 1 .. (k - 1) : sorted'[j] = p
    BY <1>1 DEF InOrder
  <2>0. DOMAIN sorted = 1 .. Len(sorted) /\ Len(sorted) \in Nat
    BY DEF IInv, Places
  <2>2. CASE k \in DOMAIN sorted
    <3>1. PICK j \in 1 .. (k - 1) : sorted[j] = p
      BY <1>3, <2>1, <2>2 DEF IInv, InOrder
    <3>2. j \in DOMAIN sorted
      BY <2>0, <2>2
    <3>. QED
      BY <1>3, <3>1, <3>2
  <2>3. CASE k = Len(sorted) + 1
    <3>1. p \in Elements(sorted)
      BY <1>1, <1>2, <1>3, <1>4, <2>1, <2>3, UpstreamsPlaced
    <3>2. PICK j \in DOMAIN sorted : sorted[j] = p
      BY <3>1 DEF Elements
    <3>. QED
      BY <1>3, <2>0, <2>3, <3>2
  <2>. QED
    BY <1>3, <2>2, <2>3
<1>. QED
  BY <1>5, <1>6, <1>7 DEF IInv

\* The link from the operator placed last to l is counted down, and no other.
LEMMA CountDownKeeps ==
    ASSUME IInv, CountDown
    PROVE  IInv'
<1>1. PICK l \in rest :
        /\ indegree' = [indegree EXCEPT ![l] = @ - 1]
        /\ q' = IF indegree[l] - 1 = 0 THEN Append(q, l) ELSE q
        /\ rest' = rest \ {l}
        /\ UNCHANGED <<links, scan, sorted>>
  BY DEF CountDown
<1>. DEFINE last == sorted[Len(sorted)]
<1>2. PICK n \in Nat : Nodes = 1 .. n /\ scan \in 1 .. (n + 1)
  BY DEF IInv, Places
<1>3. /\ sorted # <<>> /\ sorted \in Seq(Nodes) /\ scan \notin Nodes
      /\ last \in Nodes /\ last \in Elements(sorted)
      /\ l \in links[last]
  BY <1>1 DEF IInv, Places, Elements
<1>4. l \in Nodes /\ l < scan
  <2>1. l \in Nodes
    BY <1>3 DEF IInv, Places, IsGraph, Nodes
  <2>. QED
    BY <1>2, <1>3, <2>1
<1>5. Open(l)' = Open(l) \ {last} /\ last \in Open(l)
  BY <1>1, <1>3 DEF Open, Upstreams, Nodes
<1>6. ASSUME NEW i \in Nodes, i # l
      PROVE  Open(i)' = Open(i)
  BY <1>1, <1>6 DEF Open
<1>7. IsFiniteSet(Open(l)) /\ Cardinality(Open(l)') = Cardinality(Open(l)) - 1
  <2>1. IsFiniteSet(Open(l))
    BY OpenFinite DEF IInv, Places
  <2>. QED
    BY <1>5, <2>1, FS_RemoveElement
<1>8. /\ indegree \in [Nodes -> Nat] /\ indegree[l] = Cardinality(Open(l))
      /\ indegree[l] # 0
  BY <1>4, <1>5, OpenFinite DEF IInv, Places, Counters
<1>9. l \notin Placed
  BY <1>8 DEF IInv, Counters
<1>10. /\ q' \in Seq(Nodes)
       /\ \A k \in DOMAIN q' : q'[k] < scan
       /\ \A j, k \in DOMAIN q' : q'[j] = q'[k] => j = k
       /\ Elements(q') = Elements(q) \cup (IF indegree[l] - 1 = 0 THEN {l} ELSE {})
  <2>1. /\ q \in Seq(Nodes) /\ \A k \in DOMAIN q : q[k] < scan
        /\ \A j, k \in DOMAIN q : q[j] = q[k] => j = k
    BY DEF IInv, Places
  <2>2. CASE indegree[l] - 1 = 0
    <3>1. q' = Append(q, l)
      BY <1>1, <2>2
    <3>2. /\ q' \in Seq(Nodes) /\ DOMAIN q' = DOMAIN q \cup {Len(q) + 1}
          /\ Len(q) + 1 \notin DOMAIN q
          /\ \A k \in DOMAIN q : q'[k] = q[k]
          /\ q'[Len(q) + 1] = l
          /\ Elements(q') = Elements(q) \cup {l}
      BY <1>4, <2>1, <3>1, AppendFact
    <3>3. \A k \in DOMAIN q : q[k] # l
      BY <1>9 DEF Placed, Elements
    <3>. QED
      BY <1>4, <2>1, <2>2, <3>2, <3>3
  <2>3. CASE indegree[l] - 1 # 0
    BY <1>1, <2>1, <2>3
  <2>. QED
    BY <2>2, <2>3
<1>11. Places'
  <2>1. Elements(q') \cap Elements(sorted) = {}
    BY <1>9, <1>10 DEF IInv, Places, Placed
  <2>2. rest' \subseteq links[last]
    BY <1>1 DEF IInv, Places
  <2>3. /\ IsGraph(links') /\ scan' = scan /\ Nodes' = Nodes
        /\ sorted' = sorted /\ Elements(sorted)' = Elements(sorted)
    BY <1>1 DEF IInv, Places, Nodes, Elements
  <2>4. \E k \in Nat : Nodes' = 1..k /\ scan' \in 1..k + 1
    BY <2>3 DEF IInv, Places
  <2>5. q' \in Seq(Nodes') /\ sorted' \in Seq(Nodes')
    BY <1>10, <2>3 DEF IInv, Places
  <2>6. scan' \in Nodes' => sorted' = <<>> /\ rest' = {}
    BY <1>1, <2>3 DEF IInv, Places
  <2>7. \A j, k \in DOMAIN sorted' : sorted'[j] = sorted'[k] => j = k
    BY <2>3 DEF IInv, Places
  <2>8. rest' # {} => sorted' # <<>> /\ rest' \subseteq links'[sorted'[Len(sorted')]]
    BY <1>1, <2>3 DEF IInv, Places
  <2>. QED
    BY <1>10, <2>1, <2>3, <2>4, <2>5, <2>6, <2>7, <2>8 DEF Places
<1>12. Counters'
  <2>1. indegree' \in [Nodes -> Nat] /\ indegree'[l] = indegree[l] - 1
        /\ \A i \in Nodes \ {l} : indegree'[i] = indegree[i]
    BY <1>1, <1>4, <1>8
  <2>2. \A i \in Nodes : indegree'[i] = Cardinality(Open(i)')
    BY <1>6, <1>7, <1>8, <2>1 DEF IInv, Counters
  <2>3. Placed' = Placed \cup (IF indegree[l] - 1 = 0 THEN {l} ELSE {})
    BY <1>1, <1>10 DEF Placed, Elements
  <2>4. \A i \in Placed : i \in Nodes /\ i # l
    BY <1>9 DEF IInv, Places, Placed, Elements
  <2>5. \A i \in Placed' : indegree'[i] = 0
    BY <1>4, <2>1, <2>3, <2>4 DEF IInv, Counters
  <2>6. \A i \in Nodes : indegree'[i] = 0 /\ i < scan => i \in Placed'
    BY <2>1, <2>3 DEF IInv, Counters
  <2>. QED
    BY <1>1, <2>1, <2>2, <2>5, <2>6 DEF Counters, Nodes
<1>13. InOrder'
  BY <1>1 DEF IInv, InOrder
<1>. QED
  BY <1>11, <1>12, <1>13 DEF IInv

\* The counters say at any time which links are open, and whoever can be placed is.
THEOREM SortInvariance == SortSpec => []IInv
<1>1. SortInit => IInv
  BY InitHolds
<1>2. IInv /\ [SortStep]_sortVars => IInv'
  <2>1. ASSUME IInv, UNCHANGED sortVars
        PROVE  IInv'
    <3>1. Nodes' = Nodes /\ Elements(q)' = Elements(q) /\ Elements(sorted)' = Elements(sorted)
      BY <2>1 DEF sortVars, Nodes, Elements
    <3>2. \A i \in Nodes : Open(i)' = Open(i)
      BY <2>1, <3>1 DEF sortVars, Open
    <3>3. Places'
      BY <2>1, <3>1 DEF sortVars, IInv, Places
    <3>4. Counters'
      BY <2>1, <3>1, <3>2 DEF sortVars, IInv, Counters, Placed
    <3>5. InOrder'
      BY <2>1 DEF sortVars, IInv, InOrder
    <3>. QED
      BY <3>3, <3>4, <3>5 DEF IInv
  <2>. QED
    BY <2>1, ScanKeeps, PopKeeps, CountDownKeeps DEF SortStep
<1>. QED
  BY <1>1, <1>2, PTL DEF SortSpec

\* sort_and_check_has_loop, for every graph: nobody gets a place before its upstreams,
\* or twice.
THEOREM SortIsSound == SortSpec => []SortSound
<1>1. IInv => SortSound
  BY DEF IInv, Places, InOrder, SortSound
<1>. QED
  BY <1>1, SortInvariance, PTL

\* Whoever is left out in the end has an upstream that is left out as well.
LEMMA LeftOutByOthers ==
    ASSUME IInv, SortDone, NEW i \in Nodes, i \notin Elements(sorted)
    PROVE  Upstreams(links, i) \ Elements(sorted) # {}
<1>1. Elements(q) = {} /\ rest = {}
  BY DEF SortDone, Elements
<1>2. i < scan
  BY DEF IInv, Places, SortDone
<1>3. indegree[i] # 0
  BY <1>1, <1>2 DEF IInv, Counters, Placed
<1>4. Open(i) # {}
  BY <1>3, OpenFinite DEF IInv, Places, Counters
<1>. QED
  BY <1>1, <1>4 DEF Open

\* The first of a loop that got a place got it before its upstreams in the loop.
LEMMA PlacedInNoLoop ==
    ASSUME IInv, Nodes \subseteq Elements(sorted), NEW S \in SUBSET Nodes, IsLoop(S)
    PROVE  FALSE
<1>1. PICK T : T = {k \in DOMAIN sorted : sorted[k] \in S}
  OBVIOUS
<1>2. DOMAIN sorted = 1 .. Len(sorted) /\ Len(sorted) \in Nat
  BY DEF IInv, Places
<1>3. T \in SUBSET Nat /\ T # {}
  BY <1>1, <1>2 DEF IsLoop, Elements
<1>4. PICK k \in T : \A j \in T : k <= j
  BY <1>3, LeastNumber
<1>5. PICK p \in S : p \in Upstreams(links, sorted[k])
  BY <1>1 DEF IsLoop
<1>6. PICK j \in 1 .. (k - 1) : sorted[j] = p
  BY <1>1, <1>5 DEF IInv, InOrder
<1>7. j \in T /\ j < k
  BY <1>1, <1>2, <1>4, <1>5, <1>6
<1>. QED
  BY <1>3, <1>4, <1>7

\* sort_and_check_has_loop, for every graph: it reaches all operators just if there is
\* no loop.
THEOREM LoopsAreFound == SortSpec => []LoopsFound
<1>1. IInv => LoopsFound
  <2>. SUFFICES ASSUME IInv, SortDone
                PROVE  Nodes \subseteq Elements(sorted) <=> ~\E S \in SUBSET Nodes : IsLoop(S)
    BY DEF LoopsFound
  <2>1. ASSUME ~(Nodes \subseteq Elements(sorted))
        PROVE  \E S \in SUBSET Nodes : IsLoop(S)
    <3>1. PICK S : S = Nodes \ Elements(sorted)
      OBVIOUS
    <3>2. ASSUME NEW i \in S
          PROVE  Upstreams(links, i) \cap S # {}
      <4>1. Upstreams(links, i) \ Elements(sorted) # {}
        BY <3>1, LeftOutByOthers
      <4>2. Upstreams(links, i) \subseteq Nodes
        BY DEF Upstreams, Nodes
      <4>. QED
        BY <3>1, <4>1, <4>2
    <3>. QED
      BY <2>1, <3>1, <3>2 DEF IsLoop
  <2>. QED
    BY <2>1, PlacedInNoLoop
<1>. QED
  BY <1>1, SortInvariance, PTL

-----------------------------------------------------------------------------
(* The configuration as a whole: what is known of an operator.             *)

\* Strings, with those of the program by name: no prover knows that a literal is one.
Strings == STRING \cup {"", "CACHED_DATA", "DATA", "RO", "COPY", "END_COPY"}

DataNames ==
    [of : Strings, kind : Strings, hz : Nat, copies : Seq([nth : Nat, of : Strings, kind : Strings])]
Downstreams == [op : Nat, trigger : Nat, data : DataNames, type : Strings, hz : Nat]
OutputInfos ==
    [event : Strings, data : DataNames, type : Strings, hz : Nat, downstream : Seq(Downstreams),
     has_reference : BOOLEAN]
OperatorInfos ==
    [name : Strings, trigger : Seq(Strings), input : Seq(Strings), latest : Seq(Strings),
     output : Seq(OutputInfos), enable_if : Strings, disable_if : Strings,
     trigger_data : Seq(DataNames), upstream : SUBSET Nat, group : Seq(OpConfig),
     input_offset : Seq(Int), input_window : Seq(Int), input_wait : Seq(Int),
     latest_tolerate_offset : Seq(Int)]

Event(w) == Output(w).event
Down(w) == Output(w).downstream
Trigger(v) == ops[v[1]].trigger[v[2]]
TriggerName(v) == ops[v[1]].trigger_data[v[2]]
Target(d) == <<d.op, d.trigger>>

\* What the file says of an operator, and nothing in the program changes.
Static(o, c) ==
    /\ o.name = c.name /\ o.trigger = c.trigger /\ o.input = c.input /\ o.latest = c.latest
    /\ o.group = c.group /\ o.input_offset = c.input_offset /\ o.input_window = c.input_window
    /\ o.input_wait = c.input_wait /\ o.latest_tolerate_offset = c.latest_tolerate_offset
    /\ DOMAIN o.output = DOMAIN c.output
    /\ \A m \in DOMAIN o.output :
         o.output[m].event = c.output[m].event /\ o.output[m].hz = c.output[m].hz

\* A step that adds at most to what is found out about the operators.
SameFile ==
    /\ DOMAIN ops' = DOMAIN ops
    /\ \A i \in DOMAIN ops : Static(ops'[i], ops[i])

Turns == {<<k>> : k \in DOMAIN dag_config}

\* The types, and what is to come.
Typed ==
    /\ stage \in Stages /\ dag_config \in Configs
    /\ ops \in Seq(OperatorInfos)
    /\ shared_data_map_ \in [DOMAIN shared_data_map_ -> Nat] /\ new_data \subseteq FrameCaches
    /\ stage = "check" => todo \subseteq Turns
    /\ stage = "link" => todo \subseteq Matches
    /\ stage \in {"register", "events"} => todo \subseteq Outputs
    /\ stage = "operators" => todo \subseteq {<<i>> : i \in DOMAIN ops}
    /\ stage \in {"link", "register", "events", "operators", "ready"} =>
         \A i \in DOMAIN ops : DOMAIN ops[i].trigger_data = DOMAIN ops[i].trigger

\* Outputs and workers are pairs of places.
LEMMA OutputPlaces ==
    ASSUME NEW w
    PROVE  /\ w \in Outputs <=> \E i \in DOMAIN ops : \E m \in DOMAIN ops[i].output : w = <<i, m>>
           /\ w \in Outputs <=> /\ w = <<w[1], w[2]>> /\ w[1] \in DOMAIN ops
                                /\ w[2] \in DOMAIN ops[w[1]].output
<1>1. w \in Outputs <=> \E i \in DOMAIN ops : \E m \in DOMAIN ops[i].output : w = <<i, m>>
  BY DEF Outputs
<1>2. \A i, m : w = <<i, m>> => w[1] = i /\ w[2] = m
  OBVIOUS
<1>. QED
  BY <1>1, <1>2

\* The same for workers.
LEMMA WorkerPlaces ==
    ASSUME NEW v
    PROVE  v \in Workers <=> /\ v = <<v[1], v[2]>> /\ v[1] \in DOMAIN ops
                             /\ v[2] \in DOMAIN ops[v[1]].trigger
<1>1. v \in Workers <=> \E i \in DOMAIN ops : \E m \in DOMAIN ops[i].trigger : v = <<i, m>>
  BY DEF Workers
<1>2. \A i, m : v = <<i, m>> => v[1] = i /\ v[2] = m
  OBVIOUS
<1>. QED
  BY <1>1, <1>2

\* A match is a pair of an output and a worker further down whose trigger is its event.
LEMMA MatchPlaces ==
    ASSUME NEW t
    PROVE  t \in Matches <=>
             /\ t = <<t[1], t[2], t[3], t[4]>>
             /\ <<t[1], t[3]>> \in Outputs /\ <<t[2], t[4]>> \in Workers /\ t[1] < t[2]
             /\ Event(<<t[1], t[3]>>) = Trigger(<<t[2], t[4]>>)
<1>1. t \in Matches <=> /\ \E v \in Workers : \E w \in Outputs : t = <<w[1], v[1], w[2], v[2]>>
                        /\ t[1] < t[2]
                        /\ ops[t[1]].output[t[3]].event = ops[t[2]].trigger[t[4]]
  BY DEF Matches
<1>2. (\E v \in Workers : \E w \in Outputs : t = <<w[1], v[1], w[2], v[2]>>)
        <=> t = <<t[1], t[2], t[3], t[4]>> /\ <<t[1], t[3]>> \in Outputs /\ <<t[2], t[4]>> \in Workers
  <2>1. ASSUME NEW v \in Workers, NEW w \in Outputs, t = <<w[1], v[1], w[2], v[2]>>
        PROVE  t = <<t[1], t[2], t[3], t[4]>> /\ <<t[1], t[3]>> = w /\ <<t[2], t[4]>> = v
    <3>1. w = <<w[1], w[2]>> /\ v = <<v[1], v[2]>>
      BY OutputPlaces, WorkerPlaces
    <3>2. t[1] = w[1] /\ t[2] = v[1] /\ t[3] = w[2] /\ t[4] = v[2]
      BY <2>1
    <3>. QED
      BY <2>1, <3>1, <3>2
  <2>2. ASSUME t = <<t[1], t[2], t[3], t[4]>>, <<t[1], t[3]>> \in Outputs, <<t[2], t[4]>> \in Workers
        PROVE  \E v \in Workers : \E w \in Outputs : t = <<w[1], v[1], w[2], v[2]>>
    <3>. DEFINE w == <<t[1], t[3]>>  v == <<t[2], t[4]>>
    <3>1. t = <<w[1], v[1], w[2], v[2]>>
      BY <2>2
    <3>. QED
      BY <2>2, <3>1
  <2>. QED
    BY <2>1, <2>2
<1>3. /\ Output(<<t[1], t[3]>>) = ops[t[1]].output[t[3]]
      /\ Trigger(<<t[2], t[4]>>) = ops[t[2]].trigger[t[4]]
  BY DEF Output, Trigger
<1>. QED
  BY <1>1, <1>2, <1>3 DEF Event

\* That is so at any time.
MatchesAre ==
    \A t : t \in Matches <=>
             /\ t = <<t[1], t[2], t[3], t[4]>>
             /\ <<t[1], t[3]>> \in Outputs /\ <<t[2], t[4]>> \in Workers /\ t[1] < t[2]
             /\ Event(<<t[1], t[3]>>) = Trigger(<<t[2], t[4]>>)

\* The same before and after a step.
LEMMA MatchesThen == MatchesAre /\ MatchesAre'
<1>1. MatchesAre
  BY MatchPlaces DEF MatchesAre
<1>. QED
  BY <1>1, PTL

\* Such a step leaves the outputs, the workers, who triggers whom, and who reads what.
LEMMA SameShape ==
    ASSUME SameFile
    PROVE  /\ Outputs' = Outputs /\ Workers' = Workers /\ Matches' = Matches
           /\ \A w \in Outputs : Event(w)' = Event(w) /\ Output(w).hz' = Output(w).hz
           /\ \A v \in Workers : Trigger(v)' = Trigger(v)
           /\ \A i \in DOMAIN ops : \A e : ReadByOthers(i, e)' = ReadByOthers(i, e)
<1>1. Outputs' = Outputs
  BY DEF Outputs, SameFile, Static
<1>2. Workers' = Workers
  BY DEF Workers, SameFile, Static
<1>3. \A w \in Outputs : Event(w)' = Event(w) /\ Output(w).hz' = Output(w).hz
  BY OutputPlaces DEF Event, Output, SameFile, Static
<1>4. \A v \in Workers : Trigger(v)' = Trigger(v)
  BY WorkerPlaces DEF Trigger, SameFile, Static
<1>5. Matches' = Matches
  <2>1. ASSUME NEW t
        PROVE  t \in Matches' <=> t \in Matches
    <3>. DEFINE w == <<t[1], t[3]>>  v == <<t[2], t[4]>>
    <3>1. t \in Matches' <=> /\ t = <<t[1], t[2], t[3], t[4]>> /\ w \in Outputs /\ v \in Workers
                            /\ t[1] < t[2] /\ Event(w)' = Trigger(v)'
      BY <1>1, <1>2, MatchesThen DEF MatchesAre
    <3>2. t \in Matches <=> /\ t = <<t[1], t[2], t[3], t[4]>> /\ w \in Outputs /\ v \in Workers
                           /\ t[1] < t[2] /\ Event(w) = Trigger(v)
      BY MatchesThen DEF MatchesAre
    <3>. HIDE DEF w, v
    <3>. QED
      BY <1>3, <1>4, <3>1, <3>2
  <2>. QED
    BY <2>1
<1>6. \A i \in DOMAIN ops : \A e : ReadByOthers(i, e)' = ReadByOthers(i, e)
  BY DEF ReadByOthers, SameFile, Static, Elements
<1>. QED
  BY <1>1, <1>2, <1>3, <1>4, <1>5, <1>6

-----------------------------------------------------------------------------
(* What the steps that find something out do, field by field.              *)

\* One more downstream of an output of an operator.
WithDownstream(o, m, d) == [o EXCEPT !.output[m].downstream = Append(@, d)]
GotDownstream(p, o, m, d) ==
    /\ p \in OperatorInfos /\ Static(p, o)
    /\ p.trigger_data = o.trigger_data /\ p.upstream = o.upstream
    /\ p.output[m].downstream = Append(o.output[m].downstream, d)
    /\ p.output[m].data = o.output[m].data /\ p.output[m].type = o.output[m].type
    /\ p.output[m].has_reference = o.output[m].has_reference
    /\ \A k \in DOMAIN o.output \ {m} : p.output[k] = o.output[k]

\* The data of a trigger.
WithTriggerData(o, n, data) == [o EXCEPT !.trigger_data[n] = data]
GotTriggerData(p, o, n, data) ==
    /\ p \in OperatorInfos /\ Static(p, o)
    /\ DOMAIN p.trigger_data = DOMAIN o.trigger_data /\ p.upstream = o.upstream
    /\ p.trigger_data[n] = data
    /\ \A k \in DOMAIN o.trigger_data \ {n} : p.trigger_data[k] = o.trigger_data[k]
    /\ p.output = o.output

\* The data of an output, and their type.
WithOutputData(o, n, data, type) == [o EXCEPT !.output[n].data = data, !.output[n].type = type]
GotOutputData(p, o, n, data, type) ==
    /\ p \in OperatorInfos /\ Static(p, o)
    /\ p.trigger_data = o.trigger_data /\ p.upstream = o.upstream
    /\ p.output[n].downstream = o.output[n].downstream
    /\ p.output[n].data = data /\ p.output[n].type = type
    /\ p.output[n].has_reference = o.output[n].has_reference
    /\ \A k \in DOMAIN o.output \ {n} : p.output[k] = o.output[k]

\* A new downstream changes nothing else.
LEMMA NewDownstream ==
    ASSUME NEW o \in OperatorInfos, NEW m \in DOMAIN o.output, NEW d \in Downstreams
    PROVE  GotDownstream(WithDownstream(o, m, d), o, m, d)
<1>. DEFINE x == [o.output[m] EXCEPT !.downstream = Append(@, d)]
            y == [o.output EXCEPT ![m] = x]
            p == WithDownstream(o, m, d)
<1>1. /\ x \in OutputInfos /\ x.event = o.output[m].event /\ x.hz = o.output[m].hz
      /\ x.downstream = Append(o.output[m].downstream, d) /\ x.data = o.output[m].data
      /\ x.type = o.output[m].type
      /\ x.has_reference = o.output[m].has_reference
  <2>1. o.output[m] \in OutputInfos
    BY DEF OperatorInfos
  <2>2. Append(o.output[m].downstream, d) \in Seq(Downstreams)
    BY <2>1 DEF OutputInfos
  <2>. QED
    BY <2>1, <2>2 DEF OutputInfos
<1>2. /\ y \in Seq(OutputInfos) /\ DOMAIN y = DOMAIN o.output /\ y[m] = x
      /\ \A k \in DOMAIN o.output \ {m} : y[k] = o.output[k]
  BY <1>1 DEF OperatorInfos
<1>3. p = [o EXCEPT !.output = y]
  BY DEF WithDownstream
<1>. HIDE DEF x, y, p
<1>4. p \in OperatorInfos /\ p.output = y
  BY <1>2, <1>3 DEF OperatorInfos
<1>5. /\ p.name = o.name /\ p.trigger = o.trigger /\ p.input = o.input /\ p.latest = o.latest
      /\ p.group = o.group /\ p.input_offset = o.input_offset /\ p.input_window = o.input_window
      /\ p.input_wait = o.input_wait /\ p.latest_tolerate_offset = o.latest_tolerate_offset
      /\ p.trigger_data = o.trigger_data /\ p.upstream = o.upstream
  BY <1>3 DEF OperatorInfos
<1>6. GotDownstream(p, o, m, d)
  BY <1>1, <1>2, <1>4, <1>5 DEF Static, GotDownstream
<1>. QED
  BY <1>6 DEF p

\* New data of a trigger change nothing else.
LEMMA NewTriggerData ==
    ASSUME NEW o \in OperatorInfos, NEW n \in DOMAIN o.trigger_data, NEW data \in DataNames
    PROVE  GotTriggerData(WithTriggerData(o, n, data), o, n, data)
<1>. DEFINE y == [o.trigger_data EXCEPT ![n] = data]
            p == WithTriggerData(o, n, data)
<1>1. /\ y \in Seq(DataNames) /\ DOMAIN y = DOMAIN o.trigger_data /\ y[n] = data
      /\ \A k \in DOMAIN o.trigger_data \ {n} : y[k] = o.trigger_data[k]
  BY DEF OperatorInfos
<1>2. p = [o EXCEPT !.trigger_data = y]
  BY DEF WithTriggerData
<1>. HIDE DEF y, p
<1>3. p \in OperatorInfos /\ p.trigger_data = y
  BY <1>1, <1>2 DEF OperatorInfos
<1>4. /\ p.name = o.name /\ p.trigger = o.trigger /\ p.input = o.input /\ p.latest = o.latest
      /\ p.group = o.group /\ p.input_offset = o.input_offset /\ p.input_window = o.input_window
      /\ p.input_wait = o.input_wait /\ p.latest_tolerate_offset = o.latest_tolerate_offset
      /\ p.output = o.output /\ p.upstream = o.upstream
  BY <1>2 DEF OperatorInfos
<1>5. GotTriggerData(p, o, n, data)
  BY <1>1, <1>3, <1>4 DEF Static, GotTriggerData
<1>. QED
  BY <1>5 DEF p

\* New data of an output change nothing else.
LEMMA NewOutputData ==
    ASSUME NEW o \in OperatorInfos, NEW n \in DOMAIN o.output, NEW data \in DataNames,
           NEW type \in Strings
    PROVE  GotOutputData(WithOutputData(o, n, data, type), o, n, data, type)
<1>. DEFINE x == [o.output[n] EXCEPT !.data = data, !.type = type]
            y == [o.output EXCEPT ![n] = x]
            p == WithOutputData(o, n, data, type)
<1>1. /\ x \in OutputInfos /\ x.event = o.output[n].event /\ x.hz = o.output[n].hz
      /\ x.downstream = o.output[n].downstream /\ x.data = data /\ x.type = type
      /\ x.has_reference = o.output[n].has_reference
  <2>1. o.output[n] \in OutputInfos
    BY DEF OperatorInfos
  <2>. QED
    BY <2>1 DEF OutputInfos
<1>2. /\ y \in Seq(OutputInfos) /\ DOMAIN y = DOMAIN o.output /\ y[n] = x
      /\ \A k \in DOMAIN o.output \ {n} : y[k] = o.output[k]
  BY <1>1 DEF OperatorInfos
<1>3. p = [o EXCEPT !.output = y]
  <2>. DEFINE p1 == [o EXCEPT !.output[n].data = data]
  <2>1. p1.output[n] = [o.output[n] EXCEPT !.data = data] /\ p1.output = [o.output EXCEPT ![n].data = data]
    BY DEF OperatorInfos
  <2>. QED
    BY <2>1 DEF OperatorInfos, OutputInfos, WithOutputData
<1>. HIDE DEF x, y, p
<1>4. p \in OperatorInfos /\ p.output = y
  BY <1>2, <1>3 DEF OperatorInfos
<1>5. /\ p.name = o.name /\ p.trigger = o.trigger /\ p.input = o.input /\ p.latest = o.latest
      /\ p.group = o.group /\ p.input_offset = o.input_offset /\ p.input_window = o.input_window
      /\ p.input_wait = o.input_wait /\ p.latest_tolerate_offset = o.latest_tolerate_offset
      /\ p.trigger_data = o.trigger_data /\ p.upstream = o.upstream
  BY <1>3 DEF OperatorInfos
<1>6. GotOutputData(p, o, n, data, type)
  BY <1>1, <1>2, <1>4, <1>5 DEF Static, GotOutputData
<1>. QED
  BY <1>6 DEF p

\* The data of the link from output w to worker v.
LinkData(w, v) ==
    IF v \notin Outputs THEN Copied(Output(w).data, w[1], w[2], "END_COPY")
    ELSE IF Output(v).data = None THEN Copied(DataName(Output(w), Output(v)), w[1], w[2], "COPY")
    ELSE DataName(Output(w), Output(v))

\* A link from output w to worker v has been made, as downstream d.
Linked(w, v, d) ==
    /\ SameFile /\ ops' \in Seq(OperatorInfos)
    /\ \A i \in DOMAIN ops : /\ ops'[i].upstream = ops[i].upstream
                             /\ DOMAIN ops'[i].trigger_data = DOMAIN ops[i].trigger_data
    /\ \A u \in Outputs :
         /\ Down(u)' = IF u = w THEN Append(Down(u), d) ELSE Down(u)
         /\ Output(u).data' = IF u = v /\ Output(u).data = None THEN d.data ELSE Output(u).data
         /\ Output(u).has_reference' = Output(u).has_reference
    /\ \A u \in Workers : TriggerName(u)' = IF u = v THEN d.data ELSE TriggerName(u)
    /\ Target(d) = v /\ d.data = LinkData(w, v)
    /\ d.hz = IF v \in Outputs THEN Output(v).hz ELSE 0
    /\ v \in Outputs => DataName(Output(w), Output(v)) # None

\* The types that are told with it.
TypesTold(w, v, d) ==
    /\ \A u \in Outputs :
         Output(u).type' = IF u = v THEN TypeName(Output(w), Output(v)) ELSE Output(u).type
    /\ d.type = IF v \in Outputs THEN TypeName(Output(w), Output(v)) ELSE Output(w).type
    /\ v \in Outputs => d.type # ""

\* The names that are made for data are names.
LEMMA NamesTyped ==
    ASSUME ops \in Seq(OperatorInfos), NEW w \in Outputs
    PROVE  /\ Output(w) \in OutputInfos
           /\ \A v \in Outputs : DataName(Output(w), Output(v)) \in DataNames
           /\ \A v \in Outputs : TypeName(Output(w), Output(v)) \in Strings
           /\ \A data \in DataNames : \A kind \in Strings :
                Copied(data, w[1], w[2], kind) \in DataNames
<1>1. \A u \in Outputs : Output(u) \in OutputInfos
  <2>1. SUFFICES ASSUME NEW u \in Outputs
                 PROVE  Output(u) \in OutputInfos
    OBVIOUS
  <2>2. u[1] \in DOMAIN ops /\ u[2] \in DOMAIN ops[u[1]].output
    BY OutputPlaces
  <2>3. ops[u[1]] \in OperatorInfos
    BY <2>2
  <2>4. ops[u[1]].output \in Seq(OutputInfos)
    BY <2>3 DEF OperatorInfos
  <2>. QED
    BY <2>2, <2>4 DEF Output
<1>2. ASSUME NEW of \in Strings, NEW kind \in Strings, NEW hz \in Nat
      PROVE  Name(of, kind, hz) \in DataNames
  <2>1. <<>> \in Seq([nth : Nat, of : Strings, kind : Strings])
    OBVIOUS
  <2>. QED
    BY <1>2, <2>1 DEF Name, DataNames
<1>3. \A v \in Outputs : DataName(Output(w), Output(v)) \in DataNames
  <2>1. None \in DataNames
    BY <1>2 DEF None, Plain, Strings
  <2>2. SUFFICES ASSUME NEW v \in Outputs
                 PROVE  DataName(Output(w), Output(v)) \in DataNames
    OBVIOUS
  <2>3. /\ Output(w).event \in Strings /\ Output(w).data \in DataNames
        /\ Output(v).hz \in Nat /\ Output(v).type \in Strings
    BY <1>1 DEF OutputInfos
  <2>4. "CACHED_DATA" \in Strings /\ "DATA" \in Strings
    BY DEF Strings
  <2>. QED
    BY <1>2, <2>1, <2>3, <2>4 DEF DataName
<1>4. \A v \in Outputs : TypeName(Output(w), Output(v)) \in Strings
  BY <1>1 DEF TypeName, OutputInfos
<1>5. ASSUME NEW data \in DataNames, NEW kind \in Strings
      PROVE  Copied(data, w[1], w[2], kind) \in DataNames
  <2>0. w[1] \in DOMAIN ops /\ ops[w[1]] \in OperatorInfos
    BY OutputPlaces
  <2>1. ops[w[1]].name \in Strings
    BY <2>0 DEF OperatorInfos
  <2>2. Len(ops[w[1]].output[w[2]].downstream) \in Nat
    <3>1. Output(w).downstream \in Seq(Downstreams)
      BY <1>1 DEF OutputInfos
    <3>2. Len(Output(w).downstream) \in Nat
      BY <3>1
    <3>. QED
      BY <3>2 DEF Output
  <2>. DEFINE copy == [nth |-> Len(ops[w[1]].output[w[2]].downstream), of |-> ops[w[1]].name, kind |-> kind]
  <2>3. copy \in [nth : Nat, of : Strings, kind : Strings]
    BY <2>1, <2>2
  <2>. HIDE DEF copy
  <2>4. [data EXCEPT !.copies = Append(@, copy)] \in DataNames
    <3>1. Append(data.copies, copy) \in Seq([nth : Nat, of : Strings, kind : Strings])
      BY <1>5, <2>3 DEF DataNames
    <3>. QED
      BY <1>5, <3>1 DEF DataNames
  <2>. QED
    BY <2>4 DEF Copied, copy
<1>. QED
  BY <1>1, <1>3, <1>4, <1>5

\* Both kinds of links in one: everything a turn of that loop does.
LEMMA LinkEffect ==
    ASSUME Typed, Link, stage' # "failed"
    PROVE  \E w \in Outputs, v \in Workers, d \in Downstreams :
             /\ w[1] < v[1] /\ Event(w) = Trigger(v)
             /\ <<w[1], v[1], w[2], v[2]>> \in todo /\ IsNext(<<w[1], v[1], w[2], v[2]>>)
             /\ todo' = todo \ {<<w[1], v[1], w[2], v[2]>>}
             /\ Linked(w, v, d) /\ TypesTold(w, v, d)
             /\ stage = "link"
             /\ UNCHANGED <<sortVars, stage, dataVars, eventVars, ports_>>
<1>1. PICK t \in todo :
        LET i == t[1]  j == t[2]  m == t[3]  n == t[4]
            on == n \in DOMAIN ops[j].output
        IN  /\ IsNext(t)
            /\ on => Inferred(ops[i].output[m], ops[j].output[n])
            /\ (on /\ LinkOn(i, j, m, n)) \/ LinkEnd(i, j, m, n)
            /\ todo' = todo \ {t}
            /\ UNCHANGED <<sortVars, stage, dataVars, eventVars, ports_>>
  BY DEF Link, Fail
<1>. DEFINE i == t[1]  j == t[2]  m == t[3]  n == t[4]
            w == <<i, m>>  v == <<j, n>>
<1>2. /\ stage = "link" /\ ops \in Seq(OperatorInfos)
      /\ t = <<i, j, m, n>> /\ w \in Outputs /\ v \in Workers /\ i < j /\ Event(w) = Trigger(v)
  BY MatchPlaces DEF Typed, Link
<1>3. /\ i \in DOMAIN ops /\ m \in DOMAIN ops[i].output /\ w[1] = i /\ w[2] = m
      /\ j \in DOMAIN ops /\ n \in DOMAIN ops[j].trigger /\ v[1] = j /\ v[2] = n
      /\ v \in Outputs <=> n \in DOMAIN ops[j].output
      /\ i # j /\ j \in Nat /\ n \in Nat
      /\ n \in DOMAIN ops[j].trigger_data
      /\ ops[i] \in OperatorInfos /\ ops[j] \in OperatorInfos
  <2>1. /\ i \in DOMAIN ops /\ m \in DOMAIN ops[i].output /\ w[1] = i /\ w[2] = m
        /\ j \in DOMAIN ops /\ n \in DOMAIN ops[j].trigger /\ v[1] = j /\ v[2] = n
        /\ v \in Outputs <=> n \in DOMAIN ops[j].output
    BY <1>2, OutputPlaces, WorkerPlaces
  <2>2. DOMAIN ops \subseteq Nat /\ ops[i] \in OperatorInfos /\ ops[j] \in OperatorInfos
    BY <1>2, <2>1
  <2>3. DOMAIN ops[j].trigger \subseteq Nat
    <3>1. ops[j].trigger \in Seq(Strings)
      BY <2>2 DEF OperatorInfos
    <3>. QED
      BY <3>1
  <2>4. DOMAIN ops[j].trigger_data = DOMAIN ops[j].trigger
    BY <1>2, <2>1 DEF Typed
  <2>. QED
    BY <1>2, <2>1, <2>2, <2>3, <2>4
<1>4. /\ Output(w) = ops[i].output[m] /\ Output(v) = ops[j].output[n]
      /\ Output(w) \in OutputInfos
      /\ v \in Outputs => Output(v) \in OutputInfos
  BY <1>2, <1>3, NamesTyped DEF Output
<1>5. LinkData(w, v) \in DataNames
  <2>1. Output(w).data \in DataNames
    BY <1>4 DEF OutputInfos
  <2>2. "END_COPY" \in Strings /\ "COPY" \in Strings
    BY DEF Strings
  <2>3. CASE v \notin Outputs
    BY <1>2, <2>1, <2>2, <2>3, NamesTyped DEF LinkData
  <2>4. CASE v \in Outputs
    BY <1>2, <2>1, <2>2, <2>4, NamesTyped DEF LinkData
  <2>. QED
    BY <2>3, <2>4
<1>. HIDE DEF i, j, m, n
<1>. DEFINE Effect(d) ==
              /\ Target(d) = v /\ d.data = LinkData(w, v)
              /\ d.hz = IF v \in Outputs THEN Output(v).hz ELSE 0
              /\ d.type = IF v \in Outputs THEN TypeName(Output(w), Output(v)) ELSE Output(w).type
              /\ ops'[i] = WithDownstream(ops[i], m, d)
              /\ DOMAIN ops' = DOMAIN ops
              /\ \A k \in DOMAIN ops \ {i, j} : ops'[k] = ops[k]
              /\ ops'[j] \in OperatorInfos /\ Static(ops'[j], ops[j])
              /\ ops'[j].upstream = ops[j].upstream
              /\ DOMAIN ops'[j].trigger_data = DOMAIN ops[j].trigger_data
              /\ \A k \in DOMAIN ops[j].output :
                   /\ ops'[j].output[k].downstream = ops[j].output[k].downstream
                   /\ ops'[j].output[k].has_reference = ops[j].output[k].has_reference
                   /\ ops'[j].output[k].data =
                        IF k = n /\ ops[j].output[k].data = None THEN d.data ELSE ops[j].output[k].data
                   /\ ops'[j].output[k].type = IF k = n THEN d.type ELSE ops[j].output[k].type
              /\ \A k \in DOMAIN ops[j].trigger_data :
                   ops'[j].trigger_data[k] = IF k = n THEN d.data ELSE ops[j].trigger_data[k]
<1>6. ops' = [k \in DOMAIN ops |-> ops'[k]] /\ \E d \in Downstreams : Effect(d)
  <2>1. CASE v \notin Outputs
    <3>. DEFINE d == [op |-> j, trigger |-> n, data |-> LinkData(w, v), type |-> Output(w).type, hz |-> 0]
    <3>1. LinkData(w, v) = Copied(ops[i].output[m].data, i, m, "END_COPY")
      BY <1>3, <1>4, <2>1 DEF LinkData
    <3>2. LinkEnd(i, j, m, n)
      BY <1>1, <1>3, <2>1 DEF i, j, m, n
    <3>3. d \in Downstreams
      <4>1. Output(w).type \in Strings
        BY <1>4 DEF OutputInfos
      <4>. QED
        BY <1>3, <1>5, <4>1 DEF Downstreams
    <3>4. ops' = [ops EXCEPT ![i].output[m].downstream = Append(@, d), ![j].trigger_data[n] = d.data]
      BY <1>4, <3>1, <3>2 DEF LinkEnd
    <3>5. Target(d) = v /\ d.data = LinkData(w, v) /\ d.hz = 0 /\ d.type = Output(w).type
      BY DEF Target
    <3>. HIDE DEF d
    <3>6. /\ ops'[i] = WithDownstream(ops[i], m, d)
          /\ ops'[j] = WithTriggerData(ops[j], n, d.data)
          /\ DOMAIN ops' = DOMAIN ops
          /\ \A k \in DOMAIN ops \ {i, j} : ops'[k] = ops[k]
      BY <1>3, <3>4 DEF WithDownstream, WithTriggerData
    <3>7. GotTriggerData(ops'[j], ops[j], n, d.data)
      BY <1>3, <1>5, <3>5, <3>6, NewTriggerData
    <3>8. n \notin DOMAIN ops[j].output
      BY <1>3, <2>1
    <3>9. Effect(d)
      <4>. HIDE DEF v, w
      <4>. QED
        BY <2>1, <3>5, <3>6, <3>7, <3>8 DEF GotTriggerData
    <3>10. ops' = [k \in DOMAIN ops |-> ops'[k]]
      BY <3>4
    <3>. HIDE DEF Effect
    <3>. QED
      BY <3>3, <3>9, <3>10
  <2>2. CASE v \in Outputs
    <3>. DEFINE type == TypeName(Output(w), Output(v))
                data == IF Output(v).data = None THEN LinkData(w, v) ELSE Output(v).data
                d == [op |-> j, trigger |-> n, data |-> LinkData(w, v), type |-> type, hz |-> Output(v).hz]
    <3>1. LinkData(w, v) = IF ops[j].output[n].data = None
                           THEN Copied(DataName(ops[i].output[m], ops[j].output[n]), i, m, "COPY")
                           ELSE DataName(ops[i].output[m], ops[j].output[n])
      BY <1>3, <1>4, <2>2 DEF LinkData
    <3>2. LinkOn(i, j, m, n)
      BY <1>1, <1>3, <2>2 DEF i, j, m, n, LinkEnd
    <3>3. d \in Downstreams /\ type \in Strings /\ data \in DataNames
      <4>1. Output(v).hz \in Nat /\ Output(v).data \in DataNames
        BY <1>4, <2>2 DEF OutputInfos
      <4>2. type \in Strings
        BY <1>2, <2>2, NamesTyped
      <4>. HIDE DEF type
      <4>. QED
        BY <1>3, <1>5, <4>1, <4>2 DEF Downstreams
    <3>4. ops' = [ops EXCEPT ![i].output[m].downstream = Append(@, d),
                             ![j].output[n].data = data, ![j].output[n].type = type,
                             ![j].trigger_data[n] = d.data]
      <4>1. ops[j].output[n].data = Output(v).data /\ type = TypeName(ops[i].output[m], ops[j].output[n])
            /\ ops[j].output[n].hz = Output(v).hz
        BY <1>4
      <4>2. ops' = [ops EXCEPT
              ![i].output[m].downstream = Append(@, d),
              ![j].output[n].data = IF ops[j].output[n].data # None THEN @ ELSE LinkData(w, v),
              ![j].output[n].type = type, ![j].trigger_data[n] = LinkData(w, v)]
        <5>. HIDE DEF type
        <5>. QED
          BY <3>1, <3>2, <4>1 DEF LinkOn
      <4>. HIDE DEF type
      <4>. QED
        BY <1>3, <4>1, <4>2
    <3>5. Target(d) = v /\ d.data = LinkData(w, v) /\ d.hz = Output(v).hz
          /\ type = d.type /\ d.type = TypeName(Output(w), Output(v))
      BY DEF Target
    <3>6. data = IF ops[j].output[n].data = None THEN d.data ELSE ops[j].output[n].data
      BY <1>4
    <3>. HIDE DEF d, data, type
    <3>. DEFINE p == WithOutputData(ops[j], n, data, type)
    <3>7. /\ ops'[i] = WithDownstream(ops[i], m, d)
          /\ ops'[j] = WithTriggerData(p, n, d.data)
          /\ DOMAIN ops' = DOMAIN ops
          /\ \A k \in DOMAIN ops \ {i, j} : ops'[k] = ops[k]
      BY <1>3, <3>4 DEF WithDownstream, WithTriggerData, WithOutputData
    <3>8. n \in DOMAIN ops[j].output
      BY <1>3, <2>2
    <3>9. GotOutputData(p, ops[j], n, data, type)
      BY <1>3, <3>3, <3>8, NewOutputData
    <3>. HIDE DEF p
    <3>10. GotTriggerData(ops'[j], p, n, d.data)
      <4>1. p \in OperatorInfos /\ n \in DOMAIN p.trigger_data
        BY <1>3, <3>9 DEF GotOutputData
      <4>. QED
        BY <1>5, <3>5, <3>7, <4>1, NewTriggerData
    <3>11. Static(ops'[j], ops[j])
      BY <3>9, <3>10 DEF Static, GotOutputData, GotTriggerData
    <3>12. Effect(d)
      <4>. HIDE DEF v, w
      <4>1. /\ \A k \in DOMAIN ops[j].output :
                   /\ ops'[j].output[k].downstream = ops[j].output[k].downstream
                   /\ ops'[j].output[k].has_reference = ops[j].output[k].has_reference
                   /\ ops'[j].output[k].data =
                        IF k = n /\ ops[j].output[k].data = None THEN d.data ELSE ops[j].output[k].data
                   /\ ops'[j].output[k].type = IF k = n THEN d.type ELSE ops[j].output[k].type
        BY <3>5, <3>6, <3>9, <3>10 DEF GotOutputData, GotTriggerData
      <4>. QED
        BY <2>2, <3>5, <3>7, <3>9, <3>10, <3>11, <4>1 DEF GotOutputData, GotTriggerData
    <3>13. ops' = [k \in DOMAIN ops |-> ops'[k]]
      <4>. DEFINE e == [ops EXCEPT ![i].output[m].downstream = Append(@, d),
                                   ![j].output[n].data = data, ![j].output[n].type = type]
      <4>1. ops' = [e EXCEPT ![j].trigger_data[n] = d.data]
        BY <3>4
      <4>2. DOMAIN e = DOMAIN ops
        OBVIOUS
      <4>. HIDE DEF e
      <4>. QED
        BY <4>1, <4>2
    <3>. HIDE DEF Effect
    <3>. QED
      BY <3>3, <3>12, <3>13
  <2>. QED
    BY <2>1, <2>2
<1>7. PICK d \in Downstreams : Effect(d)
  BY <1>6
<1>8. GotDownstream(ops'[i], ops[i], m, d)
  BY <1>3, <1>7, NewDownstream
<1>9. Linked(w, v, d)
  <2>1. SameFile
    <3>1. ASSUME NEW k \in DOMAIN ops
          PROVE  Static(ops'[k], ops[k])
      <4>1. CASE k = i
        BY <1>8, <4>1 DEF GotDownstream
      <4>2. CASE k = j
        BY <1>7, <4>2
      <4>3. CASE k \notin {i, j}
        BY <1>7, <4>3 DEF Static
      <4>. QED
        BY <4>1, <4>2, <4>3
    <3>. QED
      BY <1>7, <3>1 DEF SameFile
  <2>2. ops' \in Seq(OperatorInfos)
    <3>1. ASSUME NEW k \in DOMAIN ops
          PROVE  ops'[k] \in OperatorInfos
      <4>1. CASE k = i
        BY <1>8, <4>1 DEF GotDownstream
      <4>2. CASE k = j
        BY <1>7, <4>2
      <4>3. CASE k \notin {i, j}
        BY <1>2, <1>7, <4>3
      <4>. QED
        BY <4>1, <4>2, <4>3
    <3>2. ops' = [k \in DOMAIN ops |-> ops'[k]]
      BY <1>6
    <3>3. DOMAIN ops = 1 .. Len(ops) /\ Len(ops) \in Nat
      BY <1>2
    <3>. QED
      BY <3>1, <3>2, <3>3
  <2>3. \A k \in DOMAIN ops : /\ ops'[k].upstream = ops[k].upstream
                              /\ DOMAIN ops'[k].trigger_data = DOMAIN ops[k].trigger_data
    BY <1>7, <1>8 DEF GotDownstream
  <2>4. ASSUME NEW u \in Outputs
        PROVE  /\ Down(u)' = IF u = w THEN Append(Down(u), d) ELSE Down(u)
               /\ Output(u).data' = IF u = v /\ Output(u).data = None THEN d.data ELSE Output(u).data
               /\ Output(u).has_reference' = Output(u).has_reference
    <3>1. u = <<u[1], u[2]>> /\ u[1] \in DOMAIN ops /\ u[2] \in DOMAIN ops[u[1]].output
      BY OutputPlaces
    <3>2. u = w <=> u[1] = i /\ u[2] = m
      BY <3>1
    <3>3. u = v <=> u[1] = j /\ u[2] = n
      BY <3>1
    <3>. HIDE DEF w, v
    <3>4. /\ Down(u) = ops[u[1]].output[u[2]].downstream /\ Down(u)' = ops'[u[1]].output[u[2]].downstream
          /\ Output(u) = ops[u[1]].output[u[2]] /\ Output(u)' = ops'[u[1]].output[u[2]]
      BY DEF Down, Output
    <3>5. CASE u[1] = i
      <4>1. u # v /\ (u = w <=> u[2] = m)
        BY <1>3, <3>2, <3>3, <3>5
      <4>. QED
        BY <1>8, <3>1, <3>4, <3>5, <4>1 DEF GotDownstream
    <3>6. CASE u[1] = j
      <4>1. u # w /\ (u = v <=> u[2] = n)
        BY <1>3, <3>2, <3>3, <3>6
      <4>. QED
        BY <1>7, <3>1, <3>4, <3>6, <4>1
    <3>7. CASE u[1] \notin {i, j}
      BY <1>7, <3>1, <3>2, <3>3, <3>4, <3>7
    <3>. QED
      BY <3>5, <3>6, <3>7
  <2>5. ASSUME NEW u \in Workers
        PROVE  TriggerName(u)' = IF u = v THEN d.data ELSE TriggerName(u)
    <3>1. u = <<u[1], u[2]>> /\ u[1] \in DOMAIN ops /\ u[2] \in DOMAIN ops[u[1]].trigger
      BY WorkerPlaces
    <3>2. u[2] \in DOMAIN ops[u[1]].trigger_data
      BY <1>2, <3>1 DEF Typed
    <3>3. u = v <=> u[1] = j /\ u[2] = n
      BY <3>1
    <3>. HIDE DEF w, v
    <3>. QED
      BY <1>3, <1>7, <1>8, <3>1, <3>2, <3>3 DEF TriggerName, GotDownstream
  <2>6. v \in Outputs => DataName(Output(w), Output(v)) # None
    BY <1>1, <1>3, <1>4 DEF Inferred, i, j, m, n
  <2>. HIDE DEF w, v
  <2>. QED
    BY <1>7, <2>1, <2>2, <2>3, <2>4, <2>5, <2>6 DEF Linked
<1>10. TypesTold(w, v, d)
  <2>1. ASSUME NEW u \in Outputs
        PROVE  Output(u).type' = IF u = v THEN TypeName(Output(w), Output(v)) ELSE Output(u).type
    <3>1. u = <<u[1], u[2]>> /\ u[1] \in DOMAIN ops /\ u[2] \in DOMAIN ops[u[1]].output
      BY OutputPlaces
    <3>2. /\ u = w <=> u[1] = i /\ u[2] = m
          /\ u = v <=> u[1] = j /\ u[2] = n
      BY <3>1
    <3>3. u = v => d.type = TypeName(Output(w), Output(v))
      BY <1>7
    <3>. HIDE DEF w, v
    <3>4. Output(u) = ops[u[1]].output[u[2]] /\ Output(u)' = ops'[u[1]].output[u[2]]
      BY DEF Output
    <3>5. CASE u[1] = i
      <4>1. u # v
        BY <1>3, <3>2, <3>5
      <4>. QED
        BY <1>8, <3>1, <3>4, <3>5, <4>1 DEF GotDownstream
    <3>6. CASE u[1] = j
      BY <1>7, <3>1, <3>2, <3>3, <3>4, <3>6
    <3>7. CASE u[1] \notin {i, j}
      BY <1>7, <3>1, <3>2, <3>4, <3>7
    <3>. QED
      BY <3>5, <3>6, <3>7
  <2>2. v \in Outputs => TypeName(Output(w), Output(v)) # ""
    BY <1>1, <1>3, <1>4 DEF Inferred, i, j, m, n
  <2>. HIDE DEF w, v
  <2>. QED
    BY <1>7, <2>1, <2>2 DEF TypesTold
<1>11. <<w[1], v[1], w[2], v[2]>> = t
  BY <1>2, <1>3
<1>. QED
  <2>. HIDE DEF w, v
  <2>. QED
    BY <1>1, <1>2, <1>3, <1>9, <1>10, <1>11

\* The fields that are not the user's are reset, and the upstreams are known.
WithReset(o, up) ==
    [o EXCEPT !.trigger_data = [n \in DOMAIN o.trigger |-> None], !.upstream = up,
              !.output = [m \in DOMAIN @ |-> [@[m] EXCEPT !.downstream = <<>>]]]
GotReset(p, o, up) ==
    /\ p \in OperatorInfos /\ Static(p, o)
    /\ p.trigger_data = [n \in DOMAIN o.trigger |-> None] /\ p.upstream = up
    /\ \A m \in DOMAIN o.output :
         /\ p.output[m].downstream = <<>> /\ p.output[m].data = o.output[m].data
         /\ p.output[m].type = o.output[m].type

\* None is a name.
LEMMA NoneTyped == None \in DataNames
<1>1. <<>> \in Seq([nth : Nat, of : Strings, kind : Strings])
  OBVIOUS
<1>2. "" \in Strings
  BY DEF Strings
<1>. QED
  BY <1>1, <1>2 DEF None, Plain, Name, DataNames

\* A reset changes nothing else.
LEMMA NewReset ==
    ASSUME NEW o \in OperatorInfos, NEW up \in SUBSET Nat
    PROVE  GotReset(WithReset(o, up), o, up)
<1>. DEFINE x(m) == [o.output[m] EXCEPT !.downstream = <<>>]
            y == [m \in DOMAIN o.output |-> x(m)]
            z == [n \in DOMAIN o.trigger |-> None]
            p == WithReset(o, up)
<1>1. ASSUME NEW m \in DOMAIN o.output
      PROVE  /\ x(m) \in OutputInfos /\ x(m).event = o.output[m].event /\ x(m).hz = o.output[m].hz
             /\ x(m).downstream = <<>> /\ x(m).data = o.output[m].data
             /\ x(m).type = o.output[m].type
  <2>1. o.output[m] \in OutputInfos
    BY DEF OperatorInfos
  <2>2. <<>> \in Seq(Downstreams)
    OBVIOUS
  <2>. QED
    BY <2>1, <2>2 DEF OutputInfos
<1>. HIDE DEF x
<1>2. y \in Seq(OutputInfos) /\ DOMAIN y = DOMAIN o.output /\ \A m \in DOMAIN o.output : y[m] = x(m)
  <2>1. DOMAIN o.output = 1 .. Len(o.output) /\ Len(o.output) \in Nat
    BY DEF OperatorInfos
  <2>. QED
    BY <1>1, <2>1
<1>3. z \in Seq(DataNames)
  <2>1. DOMAIN o.trigger = 1 .. Len(o.trigger) /\ Len(o.trigger) \in Nat
    BY DEF OperatorInfos
  <2>. QED
    BY <2>1, NoneTyped
<1>4. p = [o EXCEPT !.trigger_data = z, !.upstream = up, !.output = y]
  BY DEF WithReset, x, OperatorInfos
<1>. HIDE DEF y, z, p
<1>5. p \in OperatorInfos /\ p.output = y /\ p.trigger_data = z /\ p.upstream = up
  BY <1>2, <1>3, <1>4 DEF OperatorInfos
<1>6. /\ p.name = o.name /\ p.trigger = o.trigger /\ p.input = o.input /\ p.latest = o.latest
      /\ p.group = o.group /\ p.input_offset = o.input_offset /\ p.input_window = o.input_window
      /\ p.input_wait = o.input_wait /\ p.latest_tolerate_offset = o.latest_tolerate_offset
  BY <1>4 DEF OperatorInfos
<1>7. Static(p, o)
  BY <1>1, <1>2, <1>5, <1>6 DEF Static
<1>8. GotReset(p, o, up)
  BY <1>1, <1>2, <1>5, <1>7 DEF GotReset, z
<1>. QED
  BY <1>8 DEF p

\* The outputs that others read besides their triggers are known.
WithReferences(o, read) ==
    [o EXCEPT !.output = [m \in DOMAIN @ |-> [@[m] EXCEPT !.has_reference = read[m]]]]
GotReferences(p, o, read) ==
    /\ p \in OperatorInfos /\ Static(p, o)
    /\ p.trigger_data = o.trigger_data /\ p.upstream = o.upstream
    /\ \A m \in DOMAIN o.output :
         /\ p.output[m].downstream = o.output[m].downstream /\ p.output[m].data = o.output[m].data
         /\ p.output[m].type = o.output[m].type
         /\ p.output[m].has_reference = read[m]

\* References change nothing else.
LEMMA NewReferences ==
    ASSUME NEW o \in OperatorInfos, NEW read \in [DOMAIN o.output -> BOOLEAN]
    PROVE  GotReferences(WithReferences(o, read), o, read)
<1>. DEFINE x(m) == [o.output[m] EXCEPT !.has_reference = read[m]]
            y == [m \in DOMAIN o.output |-> x(m)]
            p == WithReferences(o, read)
<1>1. ASSUME NEW m \in DOMAIN o.output
      PROVE  /\ x(m) \in OutputInfos /\ x(m).event = o.output[m].event /\ x(m).hz = o.output[m].hz
             /\ x(m).downstream = o.output[m].downstream /\ x(m).data = o.output[m].data
             /\ x(m).type = o.output[m].type
             /\ x(m).has_reference = read[m]
  <2>1. o.output[m] \in OutputInfos
    BY DEF OperatorInfos
  <2>2. read[m] \in BOOLEAN
    OBVIOUS
  <2>. QED
    BY <2>1, <2>2 DEF OutputInfos
<1>. HIDE DEF x
<1>2. y \in Seq(OutputInfos) /\ DOMAIN y = DOMAIN o.output /\ \A m \in DOMAIN o.output : y[m] = x(m)
  <2>1. DOMAIN o.output = 1 .. Len(o.output) /\ Len(o.output) \in Nat
    BY DEF OperatorInfos
  <2>. QED
    BY <1>1, <2>1
<1>3. p = [o EXCEPT !.output = y]
  BY DEF WithReferences, x, OperatorInfos
<1>. HIDE DEF y, p
<1>4. p \in OperatorInfos /\ p.output = y
  BY <1>2, <1>3 DEF OperatorInfos
<1>5. /\ p.name = o.name /\ p.trigger = o.trigger /\ p.input = o.input /\ p.latest = o.latest
      /\ p.group = o.group /\ p.input_offset = o.input_offset /\ p.input_window = o.input_window
      /\ p.input_wait = o.input_wait /\ p.latest_tolerate_offset = o.latest_tolerate_offset
      /\ p.trigger_data = o.trigger_data /\ p.upstream = o.upstream
  BY <1>3 DEF OperatorInfos
<1>6. Static(p, o)
  BY <1>1, <1>2, <1>4, <1>5 DEF Static
<1>7. GotReferences(p, o, read)
  BY <1>1, <1>2, <1>4, <1>5, <1>6 DEF GotReferences
<1>. QED
  BY <1>7 DEF p

\* The upstreams of an operator, as the matches have them.
UpstreamsOf(i) == {t[1] : t \in {u \in Matches : u[2] = i}}

\* All that parse_config does before the links are made.
LEMMA ParseEffect ==
    ASSUME ops \in Seq(OperatorInfos), Parse, stage' # "failed"
    PROVE  /\ stage = "parse" /\ stage' = "link" /\ todo' = Matches
           /\ UNCHANGED <<sortVars, dataVars, eventVars, ports_>>
           /\ SameFile /\ ops' \in Seq(OperatorInfos)
           /\ \A i \in DOMAIN ops : /\ ops'[i].upstream = UpstreamsOf(i)
                                    /\ DOMAIN ops'[i].trigger_data = DOMAIN ops[i].trigger
           /\ \A w \in Outputs : Down(w)' = <<>> /\ Output(w).data' = Output(w).data
           /\ \A w \in Outputs : Output(w).type' = Output(w).type
           /\ \A v \in Workers : TriggerName(v)' = None
<1>1. /\ stage = "parse" /\ stage' = "link" /\ todo' = Matches
      /\ UNCHANGED <<sortVars, dataVars, eventVars, ports_>>
      /\ ops' = [i \in DOMAIN ops |-> WithReset(ops[i], UpstreamsOf(i))]
  BY DEF Parse, Fail, WithReset, UpstreamsOf
<1>2. ASSUME NEW i \in DOMAIN ops
      PROVE  GotReset(ops'[i], ops[i], UpstreamsOf(i))
  <2>1. UpstreamsOf(i) \in SUBSET Nat
    <3>1. ASSUME NEW t \in Matches
          PROVE  t[1] \in DOMAIN ops
      <4>1. <<t[1], t[3]>> \in Outputs
        BY MatchPlaces
      <4>2. <<t[1], t[3]>>[1] \in DOMAIN ops
        BY <4>1, OutputPlaces
      <4>. QED
        BY <4>2
    <3>. QED
      BY <3>1 DEF UpstreamsOf
  <2>2. ops[i] \in OperatorInfos /\ ops'[i] = WithReset(ops[i], UpstreamsOf(i))
    BY <1>1
  <2>. QED
    BY <2>1, <2>2, NewReset
<1>3. DOMAIN ops' = DOMAIN ops
  BY <1>1
<1>4. ops' \in Seq(OperatorInfos)
  <2>1. \A i \in DOMAIN ops : WithReset(ops[i], UpstreamsOf(i)) \in OperatorInfos
    BY <1>1, <1>2 DEF GotReset
  <2>2. DOMAIN ops = 1 .. Len(ops) /\ Len(ops) \in Nat
    OBVIOUS
  <2>. QED
    BY <1>1, <2>1, <2>2
<1>5. SameFile
  BY <1>2, <1>3 DEF SameFile, GotReset
<1>6. \A i \in DOMAIN ops : /\ ops'[i].upstream = UpstreamsOf(i)
                            /\ DOMAIN ops'[i].trigger_data = DOMAIN ops[i].trigger
  BY <1>2 DEF GotReset
<1>7. ASSUME NEW w \in Outputs
      PROVE  Down(w)' = <<>> /\ Output(w).data' = Output(w).data /\ Output(w).type' = Output(w).type
  <2>1. w[1] \in DOMAIN ops /\ w[2] \in DOMAIN ops[w[1]].output
    BY OutputPlaces
  <2>. QED
    BY <1>2, <2>1 DEF GotReset, Down, Output
<1>8. ASSUME NEW v \in Workers
      PROVE  TriggerName(v)' = None
  <2>1. v[1] \in DOMAIN ops /\ v[2] \in DOMAIN ops[v[1]].trigger
    BY WorkerPlaces
  <2>. QED
    BY <1>2, <2>1 DEF GotReset, TriggerName
<1>. QED
  BY <1>1, <1>4, <1>5, <1>6, <1>7, <1>8

\* All that set_reference does.
LEMMA ReferenceEffect ==
    ASSUME ops \in Seq(OperatorInfos), SetReference
    PROVE  /\ stage = "link" /\ todo = {} /\ stage' = "register" /\ todo' = Outputs
           /\ UNCHANGED <<sortVars, dataVars, eventVars, ports_>>
           /\ SameFile /\ ops' \in Seq(OperatorInfos)
           /\ \A i \in DOMAIN ops : /\ ops'[i].upstream = ops[i].upstream
                                    /\ ops'[i].trigger_data = ops[i].trigger_data
           /\ \A w \in Outputs : /\ Down(w)' = Down(w) /\ Output(w).data' = Output(w).data
                                 /\ Output(w).has_reference' = ReadByOthers(w[1], Event(w))
           /\ \A w \in Outputs : Output(w).type' = Output(w).type
           /\ \A v \in Workers : TriggerName(v)' = TriggerName(v)
<1>. DEFINE read(i) == [m \in DOMAIN ops[i].output |-> ReadByOthers(i, ops[i].output[m].event)]
<1>1. /\ stage = "link" /\ todo = {} /\ stage' = "register" /\ todo' = Outputs
      /\ UNCHANGED <<sortVars, dataVars, eventVars, ports_>>
      /\ ops' = [i \in DOMAIN ops |-> [ops[i] EXCEPT !.output =
           [m \in DOMAIN @ |-> [@[m] EXCEPT !.has_reference = ReadByOthers(i, ops[i].output[m].event)]]]]
  BY DEF SetReference
<1>2. \A i \in DOMAIN ops : \A m \in DOMAIN ops[i].output :
         read(i)[m] = ReadByOthers(i, ops[i].output[m].event)
  OBVIOUS
<1>. HIDE DEF read
<1>3. ops' = [i \in DOMAIN ops |-> WithReferences(ops[i], read(i))]
  <2>1. \A i \in DOMAIN ops : ops[i] \in OperatorInfos
    OBVIOUS
  <2>2. ASSUME NEW i \in DOMAIN ops
        PROVE  [ops[i] EXCEPT !.output = [m \in DOMAIN @ |->
                  [@[m] EXCEPT !.has_reference = ReadByOthers(i, ops[i].output[m].event)]]]
               = WithReferences(ops[i], read(i))
    BY <1>2, <2>1 DEF WithReferences, OperatorInfos
  <2>. QED
    BY <1>1, <2>2
<1>4. ASSUME NEW i \in DOMAIN ops
      PROVE  GotReferences(ops'[i], ops[i], read(i))
  <2>1. read(i) \in [DOMAIN ops[i].output -> BOOLEAN]
    <3>1. \A e : ReadByOthers(i, e) \in BOOLEAN
      BY DEF ReadByOthers
    <3>. QED
      BY <3>1 DEF read
  <2>2. ops[i] \in OperatorInfos /\ ops'[i] = WithReferences(ops[i], read(i))
    BY <1>3
  <2>. QED
    BY <2>1, <2>2, NewReferences
<1>5. DOMAIN ops' = DOMAIN ops
  BY <1>3
<1>6. ops' \in Seq(OperatorInfos)
  <2>1. \A i \in DOMAIN ops : WithReferences(ops[i], read(i)) \in OperatorInfos
    BY <1>3, <1>4 DEF GotReferences
  <2>2. DOMAIN ops = 1 .. Len(ops) /\ Len(ops) \in Nat
    OBVIOUS
  <2>. QED
    BY <1>3, <2>1, <2>2
<1>7. SameFile
  BY <1>4, <1>5 DEF SameFile, GotReferences
<1>8. \A i \in DOMAIN ops : /\ ops'[i].upstream = ops[i].upstream
                            /\ ops'[i].trigger_data = ops[i].trigger_data
  BY <1>4 DEF GotReferences
<1>9. ASSUME NEW w \in Outputs
      PROVE  /\ Down(w)' = Down(w) /\ Output(w).data' = Output(w).data
             /\ Output(w).has_reference' = ReadByOthers(w[1], Event(w))
             /\ Output(w).type' = Output(w).type
  <2>1. w[1] \in DOMAIN ops /\ w[2] \in DOMAIN ops[w[1]].output
    BY OutputPlaces
  <2>2. GotReferences(ops'[w[1]], ops[w[1]], read(w[1]))
    BY <1>4, <2>1
  <2>3. read(w[1])[w[2]] = ReadByOthers(w[1], ops[w[1]].output[w[2]].event)
    BY <1>2, <2>1
  <2>. QED
    BY <2>1, <2>2, <2>3 DEF GotReferences, Down, Output, Event
<1>10. ASSUME NEW v \in Workers
       PROVE  TriggerName(v)' = TriggerName(v)
  BY <1>8, WorkerPlaces DEF TriggerName
<1>. QED
  BY <1>1, <1>6, <1>7, <1>8, <1>9, <1>10

\* The data of an output that registe_data makes, and their references.
Fresh(w) ==
    {k \in DOMAIN DataOf(Output(w)) :
        /\ DataOf(Output(w))[k].data \notin new_data
        /\ \A j \in 1 .. (k - 1) : DataOf(Output(w))[j].data # DataOf(Output(w))[k].data}
FreshNames(w) == {DataOf(Output(w))[k].data : k \in Fresh(w)}
References(w) == IF Output(w).has_reference THEN {Reference(Event(w))} ELSE {}

\* The data of an output are those of its downstreams and its own.
LEMMA DataOfOutput ==
    ASSUME NEW out \in OutputInfos
    PROVE  /\ DOMAIN DataOf(out) = 1 .. (Len(out.downstream) + 1)
           /\ DOMAIN out.downstream = 1 .. Len(out.downstream) /\ Len(out.downstream) \in Nat
           /\ \A k \in DOMAIN DataOf(out) :
                DataOf(out)[k] \in [data : DataNames, type : Strings, hz : Nat]
           /\ \A k \in DOMAIN out.downstream :
                /\ k \in DOMAIN DataOf(out)
                /\ DataOf(out)[k].data = out.downstream[k].data
                /\ DataOf(out)[k].hz = out.downstream[k].hz
                /\ DataOf(out)[k].type = out.downstream[k].type
           /\ DataOf(out)[Len(out.downstream) + 1].data = out.data
           /\ DataOf(out)[Len(out.downstream) + 1].hz = out.hz
           /\ DataOf(out)[Len(out.downstream) + 1].type = out.type
<1>. DEFINE D == [data : DataNames, type : Strings, hz : Nat]
            x(d) == [data |-> d.data, type |-> d.type, hz |-> d.hz]
            s == [k \in DOMAIN out.downstream |-> x(out.downstream[k])]
            own == [data |-> out.data, type |-> out.type, hz |-> out.hz]
<1>1. /\ out.downstream \in Seq(Downstreams) /\ own \in D
      /\ own.data = out.data /\ own.hz = out.hz /\ own.type = out.type
  BY DEF OutputInfos
<1>2. ASSUME NEW d \in Downstreams
      PROVE  x(d) \in D /\ x(d).data = d.data /\ x(d).hz = d.hz /\ x(d).type = d.type
  BY DEF Downstreams
<1>3. DataOf(out) = s \o <<own>>
  BY DEF DataOf
<1>. HIDE DEF x, own, D
<1>4. /\ DOMAIN out.downstream = 1 .. Len(out.downstream) /\ Len(out.downstream) \in Nat
      /\ \A k \in DOMAIN out.downstream : out.downstream[k] \in Downstreams
  BY <1>1
<1>5. s \in Seq(D) /\ Len(s) = Len(out.downstream)
  BY <1>2, <1>4
<1>6. \A k \in DOMAIN out.downstream : s[k] = x(out.downstream[k])
  OBVIOUS
<1>. HIDE DEF s
<1>7. /\ DataOf(out) \in Seq(D) /\ Len(DataOf(out)) = Len(s) + 1
      /\ \A k \in 1 .. Len(s) : DataOf(out)[k] = s[k]
      /\ DataOf(out)[Len(s) + 1] = own
  <2>1. own \in D
    BY <1>1
  <2>. QED
    BY <1>3, <1>5, <2>1
<1>8. DOMAIN DataOf(out) = 1 .. (Len(out.downstream) + 1)
  BY <1>5, <1>7
<1>9. \A k \in DOMAIN DataOf(out) : DataOf(out)[k] \in D
  BY <1>7
<1>10. ASSUME NEW k \in DOMAIN out.downstream
       PROVE  /\ k \in DOMAIN DataOf(out)
              /\ DataOf(out)[k].data = out.downstream[k].data
              /\ DataOf(out)[k].hz = out.downstream[k].hz
              /\ DataOf(out)[k].type = out.downstream[k].type
  <2>1. DataOf(out)[k] = x(out.downstream[k])
    BY <1>4, <1>5, <1>6, <1>7
  <2>2. out.downstream[k] \in Downstreams
    BY <1>4
  <2>. QED
    BY <1>2, <1>4, <1>8, <2>1, <2>2
<1>11. DataOf(out)[Len(out.downstream) + 1] = own
  BY <1>5, <1>7
<1>. QED
  BY <1>1, <1>4, <1>8, <1>9, <1>10, <1>11 DEF D

\* A rate that can be found is one.
LEMMA RateFound ==
    ASSUME NEW d, d.hz \in Nat, CanMake(d)
    PROVE  HzOf(d) \in Nat \ {0}
BY TypesAssumption DEF CanMake, HzOf

\* All that a turn of registe_data does.
LEMMA RegisterEffect ==
    ASSUME Typed, Register, stage' # "failed"
    PROVE  \E w \in todo :
             /\ w \in Outputs /\ IsNext(w) /\ stage = "register"
             /\ todo' = todo \ {w}
             /\ (FreshNames(w) \cup References(w)) \cap DOMAIN shared_data_map_ = {}
             /\ FreshNames(w) \cap References(w) = {}
             /\ FreshNames(w) \subseteq DataNames
             /\ new_data' = new_data \cup FreshNames(w)
             /\ DOMAIN shared_data_map_' = DOMAIN shared_data_map_ \cup FreshNames(w) \cup References(w)
             /\ \A name \in DOMAIN shared_data_map_ :
                  shared_data_map_'[name] = shared_data_map_[name]
             /\ \A name \in FreshNames(w) \cup References(w) : shared_data_map_'[name] \in Nat \ {0}
             /\ \A k \in Fresh(w) :
                  shared_data_map_'[DataOf(Output(w))[k].data] = HzOf(DataOf(Output(w))[k])
             /\ \A k \in Fresh(w) : CanMake(DataOf(Output(w))[k])
             /\ \A name \in References(w) :
                  CanMake(Output(w)) /\ shared_data_map_'[name] = HzOf(Output(w))
             /\ shared_data_map_' \in [DOMAIN shared_data_map_' -> Nat]
             /\ UNCHANGED <<sortVars, stage, ops, eventVars, ports_>>
<1>. DEFINE data(w) == DataOf(Output(w))
            hz(w, name) == IF name \in References(w) THEN HzOf(Output(w))
                           ELSE HzOf(data(w)[CHOOSE k \in Fresh(w) : data(w)[k].data = name])
            new(w) == [name \in FreshNames(w) \cup References(w) |-> hz(w, name)]
<1>1. PICK w \in todo :
        /\ IsNext(w) /\ todo' = todo \ {w}
        /\ (FreshNames(w) \cup References(w)) \cap DOMAIN shared_data_map_ = {}
        /\ FreshNames(w) \cap References(w) = {}
        /\ Output(w).has_reference => CanMake(Output(w))
        /\ \A k \in Fresh(w) : CanMake(data(w)[k])
        /\ shared_data_map_' = Joined(shared_data_map_, new(w))
        /\ new_data' = new_data \cup FreshNames(w)
        /\ UNCHANGED <<sortVars, stage, ops, eventVars, ports_>>
  BY DEF Register, Fail, Fresh, FreshNames, References, Event
<1>2. stage = "register" /\ w \in Outputs /\ Output(w) \in OutputInfos
  BY NamesTyped DEF Register, Typed
<1>3. \A k \in DOMAIN data(w) : data(w)[k] \in [data : DataNames, type : Strings, hz : Nat]
  BY <1>2, DataOfOutput
<1>4. FreshNames(w) \subseteq DataNames
  BY <1>3 DEF FreshNames, Fresh
<1>5. \A k \in Fresh(w) : HzOf(data(w)[k]) \in Nat \ {0}
  BY <1>1, <1>3, RateFound DEF Fresh
<1>6. ASSUME NEW k \in Fresh(w)
      PROVE  hz(w, data(w)[k].data) = HzOf(data(w)[k])
  <2>1. data(w)[k].data \in FreshNames(w)
    BY DEF FreshNames
  <2>2. \A j \in Fresh(w) : data(w)[j].data = data(w)[k].data => j = k
    <3>1. SUFFICES ASSUME NEW j \in Fresh(w), data(w)[j].data = data(w)[k].data, j # k
                   PROVE  FALSE
      OBVIOUS
    <3>2. DOMAIN data(w) \subseteq Nat \ {0}
      BY <1>2, DataOfOutput
    <3>3. j \in 1 .. (k - 1) \/ k \in 1 .. (j - 1)
      BY <3>1, <3>2 DEF Fresh
    <3>. QED
      BY <3>1, <3>3 DEF Fresh
  <2>3. (CHOOSE j \in Fresh(w) : data(w)[j].data = data(w)[k].data) = k
    BY <2>2
  <2>. QED
    BY <1>1, <2>1, <2>3
<1>7. ASSUME NEW name \in FreshNames(w) \cup References(w)
      PROVE  hz(w, name) \in Nat \ {0}
  <2>1. CASE name \in References(w)
    <3>1. Output(w).hz \in Nat /\ CanMake(Output(w))
      BY <1>1, <1>2, <2>1 DEF References, OutputInfos
    <3>. QED
      BY <2>1, <3>1, RateFound
  <2>2. CASE name \in FreshNames(w)
    BY <1>5, <1>6, <2>2 DEF FreshNames
  <2>. QED
    BY <2>1, <2>2
<1>. HIDE DEF hz
<1>8. /\ DOMAIN shared_data_map_' = DOMAIN shared_data_map_ \cup FreshNames(w) \cup References(w)
      /\ shared_data_map_' = [name \in DOMAIN shared_data_map_' |-> shared_data_map_'[name]]
      /\ \A name \in DOMAIN shared_data_map_ : shared_data_map_'[name] = shared_data_map_[name]
      /\ \A name \in FreshNames(w) \cup References(w) : shared_data_map_'[name] = hz(w, name)
  BY <1>1 DEF Joined
<1>9. \A name \in DOMAIN shared_data_map_' : shared_data_map_'[name] \in Nat
  BY <1>7, <1>8 DEF Typed
<1>10. shared_data_map_' \in [DOMAIN shared_data_map_' -> Nat]
  BY <1>8, <1>9
<1>11. \A k \in Fresh(w) : shared_data_map_'[data(w)[k].data] = HzOf(data(w)[k])
  BY <1>6, <1>8 DEF FreshNames
<1>12. \A name \in FreshNames(w) \cup References(w) : shared_data_map_'[name] \in Nat \ {0}
  BY <1>7, <1>8
<1>13. \A name \in References(w) :
          CanMake(Output(w)) /\ shared_data_map_'[name] = HzOf(Output(w))
  <2>1. \A name \in References(w) : Output(w).has_reference
    BY DEF References
  <2>2. \A name \in References(w) : hz(w, name) = HzOf(Output(w))
    BY DEF hz
  <2>. QED
    BY <1>1, <1>8, <2>1, <2>2
<1>. QED
  BY <1>1, <1>2, <1>4, <1>8, <1>10, <1>11, <1>12, <1>13

-----------------------------------------------------------------------------
(* Types, at every stage.                                                  *)

\* A sequence over a set is one over a greater set.
LEMMA GreaterSeq ==
    ASSUME NEW S, NEW T, S \subseteq T
    PROVE  Seq(S) \subseteq Seq(T)
OBVIOUS

\* The empty sequence is one over any set.
LEMMA EmptySeq == \A S : <<>> \in Seq(S)
OBVIOUS

\* A name without kind, rate or copies is one.
LEMMA PlainNames == \A of \in Strings : \A copies \in Seq([nth : Nat, of : Strings, kind : Strings]) :
                        [of |-> of, kind |-> "", hz |-> 0, copies |-> copies] \in DataNames
<1>1. "" \in Strings
  BY DEF Strings
<1>. QED
  BY <1>1 DEF DataNames

\* Those that the file has are such names.
LEMMA PlainTyped ==
    ASSUME NEW S \in SUBSET Strings, NEW name \in [of : S, kind : {""}, hz : {0}, copies : {<<>>}]
    PROVE  name \in DataNames
<1>1. <<>> \in Seq([nth : Nat, of : Strings, kind : Strings])
  BY EmptySeq, Zenon
<1>2. name = [of |-> name.of, kind |-> "", hz |-> 0, copies |-> <<>>] /\ name.of \in Strings
  OBVIOUS
<1>. QED
  BY <1>1, <1>2, PlainNames, Zenon

\* What the file has is known of an operator.
LEMMA FileTyped == OperatorConfig \subseteq OperatorInfos
<1>0. STRING \subseteq Strings
  BY Zenon DEF Strings
<1>1. ASSUME NEW o \in OutputConfig
      PROVE  o \in OutputInfos
  <2>1. o.data \in DataNames
    <3>1. o.data \in [of : STRING, kind : {""}, hz : {0}, copies : {<<>>}]
      BY Zenon DEF OutputConfig
    <3>. QED
      BY <1>0, <3>1, PlainTyped, Zenon
  <2>2. <<>> \in Seq(Downstreams)
    OBVIOUS
  <2>. QED
    BY <1>0, <2>1, <2>2 DEF OutputConfig, OutputInfos
<1>2. ASSUME NEW o \in OperatorConfig
      PROVE  o \in OperatorInfos
  <2>1. Seq(STRING) \subseteq Seq(Strings)
    BY <1>0, GreaterSeq
  <2>2. Seq(OutputConfig) \subseteq Seq(OutputInfos)
    BY <1>1, GreaterSeq
  <2>3. <<>> \in Seq(DataNames) /\ {} \in SUBSET Nat
    OBVIOUS
  <2>. QED
    BY <1>0, <2>1, <2>2, <2>3 DEF OperatorConfig, OperatorInfos
<1>. QED
  BY <1>2

\* The loops that come, one by one.
Later == {"link", "register", "events", "operators", "ready"}

\* The invariant of the types.
TypedInv == Typed /\ IInv /\ (stage = "sort" => links = OpLinks(ops))

\* The invariant of the sort holds at any time at which the sort is begun.
LEMMA InitHoldsThen == (SortInit => IInv) /\ (SortInit' => IInv')
<1>1. SortInit => IInv
  BY InitHolds
<1>. QED
  BY <1>1, PTL

\* The sort keeps its invariant, and so does all that does not touch it.
LEMMA SortKeeps ==
    ASSUME IInv, [SortStep]_sortVars
    PROVE  IInv'
<1>1. CASE UNCHANGED sortVars
    <2>1. Nodes' = Nodes /\ Elements(q)' = Elements(q) /\ Elements(sorted)' = Elements(sorted)
      BY <1>1 DEF sortVars, Nodes, Elements
    <2>2. \A i \in Nodes : Open(i)' = Open(i)
      BY <1>1, <2>1 DEF sortVars, Open
    <2>3. Places'
      BY <1>1, <2>1 DEF sortVars, IInv, Places
    <2>4. Counters'
      BY <1>1, <2>1, <2>2 DEF sortVars, IInv, Counters, Placed
    <2>5. InOrder'
      BY <1>1 DEF sortVars, IInv, InOrder
    <2>. QED
      BY <2>3, <2>4, <2>5 DEF IInv
<1>2. CASE SortStep
  BY <1>2, ScanKeeps, PopKeeps, CountDownKeeps DEF SortStep
<1>. QED
  BY <1>1, <1>2

\* At the beginning nobody is known and nothing sorted.
LEMMA TypedInit == Init => TypedInv
<1>. SUFFICES ASSUME Init PROVE TypedInv
  OBVIOUS
<1>1. SortInit
  <2>1. links = <<>> /\ Nodes = {} /\ indegree = <<>>
    BY DEF Init, Nodes
  <2>2. IsGraph(links)
    <3>1. Nodes = 1 .. 0
      BY <2>1
    <3>. QED
      BY <2>1, <3>1 DEF IsGraph, Nodes
  <2>. QED
    BY <2>1, <2>2 DEF Init, SortInit
<1>2. IInv
  BY <1>1, InitHolds
<1>3. Typed
  <2>1. ops \in Seq(OperatorInfos) /\ shared_data_map_ = <<>> /\ new_data = {}
    BY DEF Init
  <2>2. shared_data_map_ \in [DOMAIN shared_data_map_ -> Nat]
    BY <2>1
  <2>. QED
    BY <2>1, <2>2 DEF Init, Typed, Stages, Turns
<1>. QED
  BY <1>2, <1>3 DEF Init, TypedInv

\* What is left alone keeps its type.
LEMMA TypedKept ==
    ASSUME Typed, dag_config' = dag_config, UNCHANGED dataVars, stage' \in Stages,
           ops' \in Seq(OperatorInfos),
           stage' = "check" => todo' \subseteq Turns,
           stage' = "link" => todo' \subseteq Matches',
           stage' \in {"register", "events"} => todo' \subseteq Outputs',
           stage' = "operators" => todo' \subseteq {<<i>> : i \in DOMAIN ops'},
           stage' \in Later => \A i \in DOMAIN ops' : DOMAIN ops'[i].trigger_data = DOMAIN ops'[i].trigger
    PROVE  Typed'
<1>1. Turns' = Turns /\ FrameCaches' = FrameCaches
  BY DEF Turns, FrameCaches, dataVars
<1>. QED
  BY <1>1 DEF Typed, dataVars, Later

\* A step that fails leaves what is known.
LEMMA FailKeepsTypes ==
    ASSUME TypedInv, dag_config' = dag_config, Fail
    PROVE  TypedInv'
<1>1. Typed'
  BY TypedKept DEF TypedInv, Typed, Fail, Stages, Later
<1>2. IInv'
  BY SortKeeps DEF TypedInv, Fail
<1>. QED
  BY <1>1, <1>2 DEF TypedInv, Fail

\* An operator of the file becomes one of those that are on, or does not.
LEMMA CheckEffect ==
    ASSUME Typed, Check, stage' # "failed"
    PROVE  \E k \in DOMAIN dag_config :
             /\ stage = "check" /\ stage' = "check"
             /\ <<k>> \in todo /\ todo' = todo \ {<<k>>} /\ IsNext(<<k>>)
             /\ dag_config[k] \in OperatorInfos
             /\ ~Contradictory(dag_config[k])
             /\ ops' = IF Enabled(dag_config[k]) THEN Append(ops, dag_config[k]) ELSE ops
             /\ UNCHANGED <<sortVars, dataVars, eventVars, ports_>>
<1>1. PICK t \in todo :
        LET o == dag_config[t[1]]
        IN  /\ IsNext(t) /\ ~Contradictory(o)
            /\ ops' = IF Enabled(o) THEN Append(ops, o) ELSE ops
            /\ todo' = todo \ {t}
            /\ UNCHANGED <<sortVars, stage, dataVars, eventVars, ports_>>
  BY DEF Check, Fail
<1>2. stage = "check" /\ todo \subseteq Turns /\ dag_config \in Seq(OperatorConfig)
  BY ConfigsAssumption DEF Check, Typed
<1>3. PICK k \in DOMAIN dag_config : t = <<k>>
  BY <1>2 DEF Turns
<1>4. dag_config[k] \in OperatorInfos /\ t[1] = k
  BY <1>2, <1>3, FileTyped
<1>. QED
  BY <1>1, <1>2, <1>3, <1>4

\* The links that the operators have are a graph.
LEMMA LinksAreGraph ==
    ASSUME ops \in Seq(OperatorInfos)
    PROVE  IsGraph(OpLinks(ops))
<1>1. DOMAIN OpLinks(ops) = DOMAIN ops
  BY DEF OpLinks
<1>2. \A i \in DOMAIN ops : OpLinks(ops)[i] \subseteq DOMAIN ops \ {i}
  BY DEF OpLinks
<1>3. DOMAIN ops = 1 .. Len(ops) /\ Len(ops) \in Nat
  OBVIOUS
<1>. QED
  BY <1>1, <1>2, <1>3 DEF IsGraph

\* When all have been placed, the places are a permutation of the operators.
LEMMA SortedPlaces ==
    ASSUME TypedInv, stage = "sort", Len(sorted) = Len(ops)
    PROVE  /\ links = OpLinks(ops) /\ Nodes = DOMAIN ops
           /\ DOMAIN sorted = DOMAIN ops
           /\ \A k \in DOMAIN sorted : sorted[k] \in DOMAIN ops
           /\ \A j, k \in DOMAIN sorted : sorted[j] = sorted[k] => j = k
<1>1. links = OpLinks(ops) /\ Nodes = DOMAIN ops
  BY DEF TypedInv, Nodes, OpLinks
<1>2. sorted \in Seq(Nodes) /\ \A j, k \in DOMAIN sorted : sorted[j] = sorted[k] => j = k
  BY DEF TypedInv, IInv, Places
<1>3. DOMAIN sorted = 1 .. Len(sorted) /\ DOMAIN ops = 1 .. Len(ops)
  BY <1>2 DEF TypedInv, Typed
<1>. QED
  BY <1>1, <1>2, <1>3

\* The operators keep their types when they are put in order.
LEMMA SortedEffect ==
    ASSUME TypedInv, Sorted, stage' # "failed"
    PROVE  /\ stage = "sort" /\ stage' = "parse" /\ SortDone /\ Len(sorted) = Len(ops)
           /\ ops' = [k \in DOMAIN sorted |-> ops[sorted[k]]]
           /\ DOMAIN ops' = DOMAIN ops
           /\ ops' \in Seq(OperatorInfos)
           /\ UNCHANGED <<sortVars, todo, dataVars, eventVars, ports_>>
<1>1. /\ stage = "sort" /\ stage' = "parse" /\ SortDone /\ Len(sorted) = Len(ops)
      /\ ops' = [k \in DOMAIN sorted |-> ops[sorted[k]]]
      /\ UNCHANGED <<sortVars, todo, dataVars, eventVars, ports_>>
  BY DEF Sorted, Fail
<1>2. /\ DOMAIN sorted = DOMAIN ops
      /\ \A k \in DOMAIN sorted : sorted[k] \in DOMAIN ops
  BY <1>1, SortedPlaces
<1>3. ops \in Seq(OperatorInfos) /\ DOMAIN ops = 1 .. Len(ops) /\ Len(ops) \in Nat
  BY DEF TypedInv, Typed
<1>4. \A k \in 1 .. Len(ops) : ops[sorted[k]] \in OperatorInfos
  BY <1>2, <1>3
<1>. QED
  BY <1>1, <1>2, <1>3, <1>4

\* The only step to the end is the one that fails.
LEMMA FailsOnly ==
    ASSUME Step, stage' = "failed"
    PROVE  Fail
<1>1. CASE Check
  BY <1>1 DEF Check
<1>2. CASE Checked \/ Sort
  BY <1>2 DEF Checked, Sort
<1>3. CASE Sorted
  BY <1>3 DEF Sorted
<1>4. CASE Parse
  BY <1>4 DEF Parse
<1>5. CASE Link
  BY <1>5 DEF Link
<1>6. CASE SetReference \/ StartEvents \/ InitEvents \/ InitEventManager \/ Ready
  <2>1. CASE SetReference
    BY <2>1 DEF SetReference
  <2>2. CASE InitEvents
    BY <2>2 DEF InitEvents
  <2>. QED
    BY <1>6, <2>1, <2>2 DEF StartEvents, InitEventManager, Ready
<1>7. CASE Register
  BY <1>7 DEF Register
<1>8. CASE InitOperator
  BY <1>8 DEF InitOperator
<1>. QED
  BY <1>1, <1>2, <1>3, <1>4, <1>5, <1>6, <1>7, <1>8 DEF Step

\* Every step keeps the types.
LEMMA TypedKeeps ==
    ASSUME TypedInv, [Next]_vars
    PROVE  TypedInv'
<1>0. CASE UNCHANGED vars
  <2>1. ops' = ops /\ Outputs' = Outputs /\ Matches' = Matches /\ Turns' = Turns /\ FrameCaches' = FrameCaches
    BY <1>0 DEF vars, dataVars, Outputs, Matches, Workers, Turns, FrameCaches
  <2>2. Typed'
    BY <1>0, <2>1 DEF TypedInv, Typed, vars, dataVars
  <2>3. IInv' /\ OpLinks(ops)' = OpLinks(ops) /\ links' = links /\ stage' = stage
    BY <1>0, <2>1, SortKeeps DEF TypedInv, vars, sortVars
  <2>. QED
    BY <2>2, <2>3 DEF TypedInv
<1>. SUFFICES ASSUME Step, dag_config' = dag_config, stage' # "failed"
              PROVE  TypedInv'
  BY <1>0, FailsOnly, FailKeepsTypes DEF Next
<1>. USE DEF TypedInv
<1>1. Typed /\ IInv /\ ops \in Seq(OperatorInfos)
  BY DEF Typed
<1>2. CASE Check
  <2>1. PICK k \in DOMAIN dag_config :
             /\ stage = "check" /\ stage' = "check" /\ todo' = todo \ {<<k>>}
             /\ dag_config[k] \in OperatorInfos
             /\ ops' = IF Enabled(dag_config[k]) THEN Append(ops, dag_config[k]) ELSE ops
             /\ UNCHANGED <<sortVars, dataVars, eventVars, ports_>>
    BY <1>1, <1>2, CheckEffect
  <2>2. ops' \in Seq(OperatorInfos)
    BY <1>1, <2>1
  <2>3. Typed' /\ IInv'
    BY <1>1, <2>1, <2>2, TypedKept, SortKeeps DEF Typed, Stages, Later
  <2>. QED
    BY <2>1, <2>3
<1>3. CASE Checked
  <2>1. SortInit'
    BY <1>1, <1>3, LinksAreGraph DEF Checked, StartSort, SortInit, Nodes
  <2>2. Typed'
    BY <1>1, <1>3, TypedKept DEF Checked, Stages, Later
  <2>3. links' = OpLinks(ops)'
    BY <1>3 DEF Checked, StartSort, OpLinks
  <2>. QED
    BY <2>1, <2>2, <2>3, InitHoldsThen
<1>4. CASE Sort
  <2>1. Typed'
    BY <1>1, <1>4, TypedKept DEF Sort, Stages, Later
  <2>2. IInv'
    BY <1>1, <1>4, SortKeeps DEF Sort
  <2>3. links' = OpLinks(ops)'
    BY <1>4 DEF Sort, SortStep, Scan, Pop, CountDown, OpLinks
  <2>. QED
    BY <2>1, <2>2, <2>3
<1>5. CASE Sorted
  <2>1. /\ stage' = "parse" /\ ops' \in Seq(OperatorInfos)
        /\ UNCHANGED <<sortVars, todo, dataVars, eventVars, ports_>>
    BY <1>5, SortedEffect
  <2>2. Typed' /\ IInv'
    BY <1>1, <2>1, TypedKept, SortKeeps DEF Stages, Later
  <2>. QED
    BY <2>1, <2>2
<1>6. CASE Parse
  <2>1. /\ stage' = "link" /\ todo' = Matches
        /\ UNCHANGED <<sortVars, dataVars, eventVars, ports_>>
        /\ SameFile /\ ops' \in Seq(OperatorInfos)
        /\ \A i \in DOMAIN ops : DOMAIN ops'[i].trigger_data = DOMAIN ops[i].trigger
    BY <1>1, <1>6, ParseEffect
  <2>2. /\ Matches' = Matches
        /\ \A i \in DOMAIN ops' : DOMAIN ops'[i].trigger_data = DOMAIN ops'[i].trigger
    BY <2>1, SameShape DEF SameFile, Static
  <2>3. Typed' /\ IInv'
    BY <1>1, <2>1, <2>2, TypedKept, SortKeeps DEF Stages
  <2>. QED
    BY <2>1, <2>3
<1>7. CASE Link
  <2>1. PICK w \in Outputs, v \in Workers, d \in Downstreams :
             /\ todo' = todo \ {<<w[1], v[1], w[2], v[2]>>}
             /\ Linked(w, v, d)
             /\ stage = "link"
             /\ UNCHANGED <<sortVars, stage, dataVars, eventVars, ports_>>
    BY <1>1, <1>7, LinkEffect
  <2>2. /\ Matches' = Matches /\ ops' \in Seq(OperatorInfos)
        /\ \A i \in DOMAIN ops' : DOMAIN ops'[i].trigger_data = DOMAIN ops'[i].trigger
    BY <1>1, <2>1, SameShape DEF Linked, SameFile, Static, Typed
  <2>3. Typed' /\ IInv'
    BY <1>1, <2>1, <2>2, TypedKept, SortKeeps DEF Typed, Stages
  <2>. QED
    BY <2>1, <2>3
<1>8. CASE SetReference
  <2>1. /\ stage = "link" /\ stage' = "register" /\ todo' = Outputs
        /\ UNCHANGED <<sortVars, dataVars, eventVars, ports_>>
        /\ SameFile /\ ops' \in Seq(OperatorInfos)
        /\ \A i \in DOMAIN ops : ops'[i].trigger_data = ops[i].trigger_data
    BY <1>1, <1>8, ReferenceEffect
  <2>2. /\ Outputs' = Outputs
        /\ \A i \in DOMAIN ops' : DOMAIN ops'[i].trigger_data = DOMAIN ops'[i].trigger
    BY <1>1, <2>1, SameShape DEF SameFile, Static, Typed
  <2>3. Typed' /\ IInv'
    BY <1>1, <2>1, <2>2, TypedKept, SortKeeps DEF Stages
  <2>. QED
    BY <2>1, <2>3
<1>9. CASE Register
  <2>1. PICK w \in todo :
             /\ stage = "register" /\ todo' = todo \ {w}
             /\ new_data' = new_data \cup FreshNames(w)
             /\ DOMAIN shared_data_map_' = DOMAIN shared_data_map_ \cup FreshNames(w) \cup References(w)
             /\ \A name \in DOMAIN shared_data_map_ :
                  shared_data_map_'[name] = shared_data_map_[name]
             /\ \A name \in FreshNames(w) \cup References(w) : shared_data_map_'[name] \in Nat \ {0}
             /\ shared_data_map_' \in [DOMAIN shared_data_map_' -> Nat]
             /\ UNCHANGED <<sortVars, stage, ops, eventVars, ports_>>
    BY <1>1, <1>9, RegisterEffect
  <2>2. new_data' \subseteq FrameCaches'
    BY <1>1, <2>1 DEF FrameCaches, Typed
  <2>3. Outputs' = Outputs
    BY <2>1 DEF Outputs
  <2>4. Typed'
    BY <1>1, <2>1, <2>2, <2>3 DEF Typed
  <2>5. IInv'
    BY <1>1, <2>1, SortKeeps
  <2>. QED
    BY <2>1, <2>4, <2>5
<1>10. CASE StartEvents
  <2>1. Outputs' = Outputs
    BY <1>10 DEF StartEvents, Outputs
  <2>2. Typed' /\ IInv'
    BY <1>1, <1>10, <2>1, TypedKept, SortKeeps DEF StartEvents, Typed, Stages, Later
  <2>. QED
    BY <1>10, <2>2 DEF StartEvents
<1>11. CASE InitEvents
  <2>1. PICK w \in todo : todo' = todo \ {w}
    BY <1>11 DEF InitEvents
  <2>2. stage = "events" /\ UNCHANGED <<sortVars, stage, ops, dataVars>> /\ Outputs' = Outputs
    BY <1>11 DEF InitEvents, Outputs
  <2>3. Typed' /\ IInv'
    BY <1>1, <2>1, <2>2, TypedKept, SortKeeps DEF Typed, Stages, Later
  <2>. QED
    BY <2>2, <2>3
<1>12. CASE InitEventManager
  <2>1. Typed' /\ IInv'
    BY <1>1, <1>12, TypedKept, SortKeeps DEF InitEventManager, Typed, Stages, Later
  <2>. QED
    BY <1>12, <2>1 DEF InitEventManager
<1>13. CASE InitOperator
  <2>1. PICK t \in todo :
          /\ todo' = todo \ {t}
          /\ shared_data_map_' = Joined(shared_data_map_, [name \in {Plain(ops[t[1]].name)} |-> 0])
    BY <1>13 DEF InitOperator, Fail
  <2>2. stage = "operators" /\ UNCHANGED <<sortVars, stage, ops, new_data>>
    BY <1>13 DEF InitOperator, Fail
  <2>3. /\ shared_data_map_' \in [DOMAIN shared_data_map_' -> Nat]
        /\ \A name \in DOMAIN shared_data_map_ : /\ name \in DOMAIN shared_data_map_'
                                                  /\ shared_data_map_'[name] = shared_data_map_[name]
    BY <1>1, <2>1 DEF Joined, Typed
  <2>4. new_data' \subseteq FrameCaches'
    BY <1>1, <2>2, <2>3 DEF FrameCaches, Typed
  <2>5. Typed'
    BY <1>1, <2>1, <2>2, <2>3, <2>4 DEF Typed
  <2>6. IInv'
    BY <1>1, <2>2, SortKeeps
  <2>. QED
    BY <2>2, <2>5, <2>6
<1>14. CASE Ready
  <2>1. Typed' /\ IInv'
    BY <1>1, <1>14, TypedKept, SortKeeps DEF Ready, Typed, Stages, Later
  <2>. QED
    BY <1>14, <2>1 DEF Ready
<1>. QED
  BY <1>2, <1>3, <1>4, <1>5, <1>6, <1>7, <1>8, <1>9, <1>10, <1>11, <1>12, <1>13, <1>14 DEF Step

-----------------------------------------------------------------------------
(* Links.                                                                  *)

LinkOf(w, v) == <<w[1], v[1], w[2], v[2]>>

\* The links that have had their turn.
Done == IF stage = "link" THEN Matches \ todo ELSE Matches

\* The downstreams of an output are those it triggers, once their turn has come, and
\* each has one.
LinksMade ==
    stage \in Later =>
        /\ \A i \in DOMAIN ops : ops[i].upstream = UpstreamsOf(i)
        /\ \A w \in Outputs : \A k \in DOMAIN Down(w) :
             /\ Target(Down(w)[k]) \in Workers
             /\ LinkOf(w, Target(Down(w)[k])) \in Done
             /\ \A l \in DOMAIN Down(w) : Target(Down(w)[l]) = Target(Down(w)[k]) => l = k
        /\ \A w \in Outputs, v \in Workers : LinkOf(w, v) \in Done =>
             \E k \in DOMAIN Down(w) : Target(Down(w)[k]) = v

\* The link from an output to a worker is its own, and a match says what it says.
LEMMA LinkOfPlaces ==
    ASSUME NEW w \in Outputs, NEW v \in Workers
    PROVE  /\ LinkOf(w, v) \in Matches <=> w[1] < v[1] /\ Event(w) = Trigger(v)
           /\ \A x \in Outputs, y \in Workers : LinkOf(x, y) = LinkOf(w, v) => x = w /\ y = v
<1>1. w = <<w[1], w[2]>> /\ v = <<v[1], v[2]>>
  BY OutputPlaces, WorkerPlaces
<1>2. ASSUME NEW x \in Outputs, NEW y \in Workers, LinkOf(x, y) = LinkOf(w, v)
      PROVE  x = w /\ y = v
  <2>1. x = <<x[1], x[2]>> /\ y = <<y[1], y[2]>>
    BY OutputPlaces, WorkerPlaces
  <2>2. x[1] = w[1] /\ x[2] = w[2] /\ y[1] = v[1] /\ y[2] = v[2]
    BY <1>2 DEF LinkOf
  <2>. QED
    BY <1>1, <2>1, <2>2
<1>3. LinkOf(w, v) \in Matches <=> w[1] < v[1] /\ Event(w) = Trigger(v)
  <2>. DEFINE t == LinkOf(w, v)
  <2>1. t[1] = w[1] /\ t[2] = v[1] /\ t[3] = w[2] /\ t[4] = v[2]
    BY DEF LinkOf
  <2>2. t = <<t[1], t[2], t[3], t[4]>> /\ <<t[1], t[3]>> = w /\ <<t[2], t[4]>> = v
    BY <1>1, <2>1 DEF LinkOf
  <2>3. t \in Matches <=>
             /\ t = <<t[1], t[2], t[3], t[4]>>
             /\ <<t[1], t[3]>> \in Outputs /\ <<t[2], t[4]>> \in Workers /\ t[1] < t[2]
             /\ Event(<<t[1], t[3]>>) = Trigger(<<t[2], t[4]>>)
    BY MatchPlaces
  <2>. HIDE DEF t
  <2>4. t \in Matches <=> w[1] < v[1] /\ Event(w) = Trigger(v)
    BY <2>1, <2>2, <2>3
  <2>. QED
    BY <2>4 DEF t
<1>. QED
  BY <1>2, <1>3

\* A step that leaves the operators leaves all that is made of them.
LEMMA SameOps ==
    ASSUME ops' = ops
    PROVE  /\ Outputs' = Outputs /\ Workers' = Workers /\ Matches' = Matches
           /\ \A w : /\ Output(w)' = Output(w) /\ Down(w)' = Down(w) /\ Event(w)' = Event(w)
                     /\ Trigger(w)' = Trigger(w) /\ TriggerName(w)' = TriggerName(w)
                     /\ TriggerData(w)' = TriggerData(w) /\ OutputData(w)' = OutputData(w)
                     /\ NoCopy(w)' = NoCopy(w) /\ RefData(w)' = RefData(w) /\ HasOutput(w)' = HasOutput(w)
           /\ \A i : UpstreamsOf(i)' = UpstreamsOf(i) /\ Reads(i)' = Reads(i) /\ IsInput(i)' = IsInput(i)
BY DEF Outputs, Workers, Matches, Output, Down, Event, Trigger, TriggerName, TriggerData, OutputData,
       NoCopy, RefData, HasOutput, UpstreamsOf, Reads, IsInput, Elements

\* The stages at which the operators are what they are.
Settled == {"register", "events", "operators", "ready"}

\* The steps from there leave them.
LEMMA SettledSteps ==
    ASSUME Typed, [Next]_vars, stage' \in Settled, ~SetReference
    PROVE  ops' = ops /\ stage \in Settled
<1>1. CASE UNCHANGED vars
  BY <1>1 DEF vars
<1>. SUFFICES ASSUME Step
              PROVE  ops' = ops /\ stage \in Settled
  BY <1>1 DEF Next
<1>2. CASE Check \/ Checked \/ Sort \/ Sorted
  BY <1>2 DEF Settled, Check, Checked, Sort, Sorted, Fail
<1>3. CASE Parse \/ Link
  BY <1>3 DEF Settled, Parse, Link, Fail
<1>4. CASE Register \/ StartEvents \/ InitEvents \/ InitEventManager
  <2>1. CASE Register
    BY <2>1 DEF Register, Settled, Fail
  <2>2. CASE InitEvents
    BY <2>2 DEF InitEvents, Settled
  <2>. QED
    BY <1>4, <2>1, <2>2 DEF StartEvents, InitEventManager, Settled
<1>5. CASE InitOperator \/ Ready
  BY <1>5 DEF InitOperator, Ready, Settled, Fail
<1>. QED
  BY <1>2, <1>3, <1>4, <1>5 DEF Step

\* How the loop over the links is entered, gone on with and left.
LEMMA LinkingSteps ==
    ASSUME TypedInv, [Next]_vars, stage' \in Later
    PROVE  \/ Parse
           \/ Link
           \/ SetReference
           \/ ops' = ops /\ stage \in Settled /\ stage' \in Settled
           \/ ops' = ops /\ stage' = stage /\ todo' = todo
<1>. SUFFICES ASSUME ~Parse, ~Link, ~SetReference
              PROVE  \/ ops' = ops /\ stage \in Settled /\ stage' \in Settled
                     \/ ops' = ops /\ stage' = stage /\ todo' = todo
  OBVIOUS
<1>1. CASE stage' \in Settled
  BY <1>1, SettledSteps DEF TypedInv
<1>2. CASE stage' = "link"
  <2>1. CASE UNCHANGED vars
    BY <2>1 DEF vars
  <2>2. CASE Step
    <3>1. CASE Check \/ Checked \/ Sort \/ Sorted
      BY <1>2, <3>1 DEF Check, Checked, Sort, Sorted, Fail
    <3>2. CASE Register \/ StartEvents \/ InitEvents \/ InitEventManager
      <4>1. CASE Register
        BY <1>2, <4>1 DEF Register, Fail
      <4>2. CASE InitEvents
        BY <1>2, <4>2 DEF InitEvents
      <4>. QED
        BY <1>2, <3>2, <4>1, <4>2 DEF StartEvents, InitEventManager
    <3>3. CASE InitOperator \/ Ready
      BY <1>2, <3>3 DEF InitOperator, Ready, Fail
    <3>. QED
      BY <2>2, <3>1, <3>2, <3>3 DEF Step
  <2>. QED
    BY <2>1, <2>2 DEF Next
<1>. QED
  BY <1>1, <1>2 DEF Later, Settled

\* What a turn of the loop over the links does to those that have had theirs.
LEMMA DoneGrows ==
    ASSUME Typed, Matches' = Matches, stage = "link", stage' = "link", NEW t \in todo, todo' = todo \ {t}
    PROVE  Done' = Done \cup {t} /\ t \notin Done
BY DEF Done, Typed

\* No step makes or loses a link but in its turn.
LEMMA LinksKeep ==
    ASSUME TypedInv, LinksMade, [Next]_vars
    PROVE  LinksMade'
<1>. SUFFICES ASSUME stage' \in Later
              PROVE  LinksMade'
  BY DEF LinksMade
<1>1. Typed /\ ops \in Seq(OperatorInfos)
  BY DEF TypedInv, Typed
<1>2. CASE Parse
  <2>1. /\ stage' = "link" /\ todo' = Matches /\ SameFile
        /\ \A i \in DOMAIN ops : ops'[i].upstream = UpstreamsOf(i)
        /\ \A w \in Outputs : Down(w)' = <<>>
    BY <1>1, <1>2, ParseEffect DEF Later
  <2>2. /\ Outputs' = Outputs /\ Workers' = Workers /\ Matches' = Matches
        /\ \A i : UpstreamsOf(i)' = UpstreamsOf(i)
    BY <2>1, SameShape DEF UpstreamsOf
  <2>3. Done' = {}
    BY <2>1, <2>2 DEF Done
  <2>. QED
    BY <2>1, <2>2, <2>3 DEF LinksMade, SameFile
<1>3. CASE Link
  <2>1. PICK w \in Outputs, v \in Workers, d \in Downstreams :
             /\ LinkOf(w, v) \in todo
             /\ todo' = todo \ {LinkOf(w, v)}
             /\ Linked(w, v, d) /\ stage = "link" /\ stage' = "link"
    BY <1>1, <1>3, LinkEffect DEF Later, LinkOf
  <2>2. /\ SameFile
        /\ \A i \in DOMAIN ops : ops'[i].upstream = ops[i].upstream
        /\ \A u \in Outputs : Down(u)' = IF u = w THEN Append(Down(u), d) ELSE Down(u)
        /\ Target(d) = v
    BY <2>1 DEF Linked
  <2>3. /\ Outputs' = Outputs /\ Workers' = Workers /\ Matches' = Matches
        /\ \A i : UpstreamsOf(i)' = UpstreamsOf(i)
    BY <2>2, SameShape DEF UpstreamsOf
  <2>4. Done' = Done \cup {LinkOf(w, v)} /\ LinkOf(w, v) \notin Done
    BY <1>1, <2>1, <2>3, DoneGrows
  <2>5. Down(w) \in Seq(Downstreams)
    BY <1>1, NamesTyped DEF Down, OutputInfos
  <2>6. /\ DOMAIN Down(w)' = DOMAIN Down(w) \cup {Len(Down(w)) + 1}
        /\ Len(Down(w)) + 1 \notin DOMAIN Down(w)
        /\ \A k \in DOMAIN Down(w) : Down(w)'[k] = Down(w)[k]
        /\ Down(w)'[Len(Down(w)) + 1] = d
    <3>1. Down(w)' = Append(Down(w), d)
      BY <2>2
    <3>2. /\ DOMAIN Append(Down(w), d) = DOMAIN Down(w) \cup {Len(Down(w)) + 1}
          /\ Len(Down(w)) + 1 \notin DOMAIN Down(w)
          /\ \A k \in DOMAIN Down(w) : Append(Down(w), d)[k] = Down(w)[k]
          /\ Append(Down(w), d)[Len(Down(w)) + 1] = d
      BY <2>5, AppendFact
    <3>. QED
      BY <3>1, <3>2
  <2>7. \A k \in DOMAIN Down(w) : Target(Down(w)[k]) # v
    BY <2>1, <2>4 DEF LinksMade, Later
  <2>8. \A u \in Outputs, x \in Workers : LinkOf(u, x) = LinkOf(w, v) => u = w /\ x = v
    BY LinkOfPlaces
  <2>9. \A i \in DOMAIN ops' : ops'[i].upstream = UpstreamsOf(i)'
    BY <2>1, <2>2, <2>3 DEF LinksMade, SameFile, Later
  <2>10. ASSUME NEW u \in Outputs, NEW k \in DOMAIN Down(u)'
         PROVE  /\ Target(Down(u)'[k]) \in Workers
                /\ LinkOf(u, Target(Down(u)'[k])) \in Done'
                /\ \A l \in DOMAIN Down(u)' : Target(Down(u)'[l]) = Target(Down(u)'[k]) => l = k
    <3>1. CASE u # w
      BY <2>1, <2>2, <2>4, <2>10, <3>1 DEF LinksMade, Later
    <3>2. CASE u = w
      <4>1. \A j \in DOMAIN Down(w) :
               /\ Target(Down(w)[j]) \in Workers
               /\ LinkOf(w, Target(Down(w)[j])) \in Done
               /\ \A l \in DOMAIN Down(w) : Target(Down(w)[l]) = Target(Down(w)[j]) => l = j
        BY <2>1 DEF LinksMade, Later
      <4>. QED
        BY <2>2, <2>4, <2>6, <2>7, <2>10, <3>2, <4>1
    <3>. QED
      BY <3>1, <3>2
  <2>11. ASSUME NEW u \in Outputs, NEW x \in Workers, LinkOf(u, x) \in Done'
         PROVE  \E k \in DOMAIN Down(u)' : Target(Down(u)'[k]) = x
    <3>1. CASE LinkOf(u, x) \in Done
      <4>1. PICK k \in DOMAIN Down(u) : Target(Down(u)[k]) = x
        BY <2>1, <3>1 DEF LinksMade, Later
      <4>2. k \in DOMAIN Down(u)' /\ Down(u)'[k] = Down(u)[k]
        BY <2>2, <2>6
      <4>. QED
        BY <4>1, <4>2
    <3>2. CASE LinkOf(u, x) = LinkOf(w, v)
      BY <2>2, <2>6, <2>8, <3>2
    <3>. QED
      BY <2>4, <2>11, <3>1, <3>2
  <2>. QED
    BY <2>3, <2>9, <2>10, <2>11 DEF LinksMade
<1>4. CASE SetReference
  <2>1. /\ stage = "link" /\ todo = {} /\ stage' = "register" /\ SameFile
        /\ \A i \in DOMAIN ops : ops'[i].upstream = ops[i].upstream
        /\ \A w \in Outputs : Down(w)' = Down(w)
    BY <1>1, <1>4, ReferenceEffect
  <2>2. /\ Outputs' = Outputs /\ Workers' = Workers /\ Matches' = Matches
        /\ \A i : UpstreamsOf(i)' = UpstreamsOf(i)
    BY <2>1, SameShape DEF UpstreamsOf
  <2>3. Done' = Done
    BY <2>1, <2>2 DEF Done
  <2>. QED
    BY <2>1, <2>2, <2>3 DEF LinksMade, Later, SameFile
<1>5. CASE ops' = ops /\ Done' = Done /\ stage \in Later
  BY <1>5, SameOps DEF LinksMade
<1>6. CASE ops' = ops /\ stage \in Settled /\ stage' \in Settled
  <2>1. Done' = Done /\ stage \in Later
    BY <1>6, SameOps DEF Done, Settled, Later
  <2>. QED
    BY <1>5, <1>6, <2>1
<1>7. CASE ops' = ops /\ stage' = stage /\ todo' = todo
  <2>1. Done' = Done
    BY <1>7, SameOps DEF Done
  <2>. QED
    BY <1>5, <1>7, <2>1
<1>. QED
  BY <1>2, <1>3, <1>4, <1>6, <1>7, LinkingSteps

-----------------------------------------------------------------------------
(* Events.                                                                 *)

EventStages == {"events", "operators", "ready"}

\* The outputs that have had their turn.
Made == IF stage = "events" THEN Outputs \ todo ELSE Outputs

\* Where the events of an output go: to its downstreams, or to itself.
Ends(w) == IF Down(w) = <<>> THEN <<w>> ELSE [k \in DOMAIN Down(w) |-> Target(Down(w)[k])]

\* The events are those of the outputs that have had their turn, one for each of its
\* ends; whom a worker subscribes to sends to it.
EventsMade ==
    /\ stage \notin EventStages \cup {"failed"} => events_ = <<>> /\ operator_pub_events_ = <<>>
    /\ events_ \in Seq([from : Outputs, to : Outputs \cup Workers])
    /\ \A w \in DOMAIN operator_pub_events_ :
         Elements(operator_pub_events_[w]) \subseteq DOMAIN events_
    /\ stage \in EventStages =>
         /\ DOMAIN operator_pub_events_ = Outputs
         /\ \A w \in Made :
              /\ DOMAIN operator_pub_events_[w] = DOMAIN Ends(w)
              /\ \A k \in DOMAIN Ends(w) :
                   /\ events_[operator_pub_events_[w][k]] = [from |-> w, to |-> Ends(w)[k]]
                   /\ \A j \in DOMAIN Ends(w) :
                        operator_pub_events_[w][j] = operator_pub_events_[w][k] => j = k
         /\ \A e \in DOMAIN events_ :
              /\ events_[e].from \in Made
              /\ \E k \in DOMAIN Ends(events_[e].from) :
                   operator_pub_events_[events_[e].from][k] = e
         /\ DOMAIN operator_sub_events_ = Workers
         /\ \A v \in Workers : operator_sub_events_[v] # 0 =>
              /\ operator_sub_events_[v] \in DOMAIN events_
              /\ events_[operator_sub_events_[v]].to = v

\* The ends of an output are outputs and workers, and they are different.
LEMMA EndsTyped ==
    ASSUME ops \in Seq(OperatorInfos), LinksMade, stage \in Later, NEW w \in Outputs
    PROVE  /\ Down(w) \in Seq(Downstreams)
           /\ Ends(w) \in Seq(Outputs \cup Workers) /\ Len(Ends(w)) > 0
           /\ Down(w) # <<>> => /\ DOMAIN Ends(w) = DOMAIN Down(w)
                                /\ \A k \in DOMAIN Down(w) : Ends(w)[k] = Target(Down(w)[k])
           /\ Down(w) = <<>> => Ends(w) = <<w>>
           /\ \A k \in DOMAIN Down(w) : Target(Down(w)[k]) \in Workers
<1>1. Down(w) \in Seq(Downstreams)
  BY NamesTyped DEF Down, OutputInfos
<1>2. \A k \in DOMAIN Down(w) : Target(Down(w)[k]) \in Workers
  BY DEF LinksMade
<1>3. CASE Down(w) = <<>>
  <2>1. Ends(w) = <<w>>
    BY <1>3 DEF Ends
  <2>. QED
    BY <1>1, <1>2, <1>3, <2>1
<1>4. CASE Down(w) # <<>>
  <2>1. Ends(w) = [k \in DOMAIN Down(w) |-> Target(Down(w)[k])]
    BY <1>4 DEF Ends
  <2>2. DOMAIN Down(w) = 1 .. Len(Down(w)) /\ Len(Down(w)) \in Nat /\ Len(Down(w)) > 0
    BY <1>1, <1>4
  <2>. HIDE DEF Ends
  <2>3. Ends(w) \in Seq(Outputs \cup Workers) /\ Len(Ends(w)) > 0
    BY <1>2, <2>1, <2>2
  <2>. QED
    BY <1>1, <1>2, <1>4, <2>1, <2>3
<1>. QED
  BY <1>3, <1>4

\* What is in two sequences, one after the other.
LEMMA ConcatPlaces ==
    ASSUME NEW S, NEW s \in Seq(S), NEW t \in Seq(S)
    PROVE  /\ s \o t \in Seq(S) /\ DOMAIN (s \o t) = 1 .. (Len(s) + Len(t))
           /\ \A e \in DOMAIN s : (s \o t)[e] = s[e]
           /\ \A k \in DOMAIN t : (s \o t)[Len(s) + k] = t[k]
OBVIOUS

\* A turn of the loop over the events.
LEMMA EventsEffect ==
    ASSUME ops \in Seq(OperatorInfos), todo \subseteq Outputs, LinksMade, EventsMade, InitEvents
    PROVE  \E w \in todo :
             /\ IsNext(w) /\ stage = "events" /\ stage' = "events"
             /\ ops' = ops /\ todo' = todo \ {w}
             /\ events_' \in Seq([from : Outputs, to : Outputs \cup Workers])
             /\ DOMAIN events_' = 1 .. (Len(events_) + Len(Ends(w)))
             /\ \A e \in DOMAIN events_ : events_'[e] = events_[e]
             /\ \A k \in DOMAIN Ends(w) :
                  events_'[Len(events_) + k] = [from |-> w, to |-> Ends(w)[k]]
             /\ DOMAIN operator_pub_events_' = Outputs
             /\ operator_pub_events_'[w] = [k \in DOMAIN Ends(w) |-> Len(events_) + k]
             /\ \A x \in Outputs \ {w} : operator_pub_events_'[x] = operator_pub_events_[x]
             /\ DOMAIN operator_sub_events_' = Workers
             /\ \A v \in Workers :
                  IF \E k \in DOMAIN Down(w) : Target(Down(w)[k]) = v
                  THEN \E k \in DOMAIN Down(w) :
                         Target(Down(w)[k]) = v /\ operator_sub_events_'[v] = Len(events_) + k
                  ELSE operator_sub_events_'[v] = operator_sub_events_[v]
<1>1. PICK w \in todo :
         LET id == [k \in DOMAIN Ends(w) |-> FirstId + k - 1]
         IN  /\ IsNext(w)
             /\ events_' = events_ \o [k \in DOMAIN Ends(w) |-> [from |-> w, to |-> Ends(w)[k]]]
             /\ operator_pub_events_' = [operator_pub_events_ EXCEPT ![w] = id]
             /\ operator_sub_events_' = [v \in Workers |->
                  IF \E k \in DOMAIN Down(w) : Ends(w)[k] = v
                  THEN id[CHOOSE k \in DOMAIN Down(w) : Ends(w)[k] = v]
                  ELSE operator_sub_events_[v]]
             /\ todo' = todo \ {w} /\ stage' = stage /\ ops' = ops
  BY DEF InitEvents, Ends, Down, Target
<1>2. stage = "events" /\ w \in Outputs /\ stage \in Later /\ stage \in EventStages
  BY DEF InitEvents, Later, EventStages
<1>3. /\ Down(w) \in Seq(Downstreams)
      /\ Ends(w) \in Seq(Outputs \cup Workers) /\ Len(Ends(w)) > 0
      /\ Down(w) # <<>> => /\ DOMAIN Ends(w) = DOMAIN Down(w)
                           /\ \A k \in DOMAIN Down(w) : Ends(w)[k] = Target(Down(w)[k])
  BY <1>2, EndsTyped
<1>4. /\ events_ \in Seq([from : Outputs, to : Outputs \cup Workers])
      /\ DOMAIN operator_pub_events_ = Outputs
  BY <1>2 DEF EventsMade
<1>. DEFINE made == [k \in DOMAIN Ends(w) |-> [from |-> w, to |-> Ends(w)[k]]]
            id == [k \in DOMAIN Ends(w) |-> Len(events_) + k]
<1>5. made \in Seq([from : Outputs, to : Outputs \cup Workers]) /\ Len(made) = Len(Ends(w))
  <2>1. DOMAIN Ends(w) = 1 .. Len(Ends(w)) /\ Len(Ends(w)) \in Nat
    BY <1>3
  <2>2. \A k \in 1 .. Len(Ends(w)) : made[k] \in [from : Outputs, to : Outputs \cup Workers]
    BY <1>2, <1>3, <2>1
  <2>. QED
    BY <2>1, <2>2
<1>6. events_' = events_ \o made
  BY <1>1
<1>7. /\ events_' \in Seq([from : Outputs, to : Outputs \cup Workers])
      /\ DOMAIN events_' = 1 .. (Len(events_) + Len(Ends(w)))
      /\ \A e \in DOMAIN events_ : events_'[e] = events_[e]
      /\ \A k \in DOMAIN Ends(w) : events_'[Len(events_) + k] = made[k]
  <2>. HIDE DEF made
  <2>1. DOMAIN made = DOMAIN Ends(w)
    BY DEF made
  <2>. DEFINE E == [from : Outputs, to : Outputs \cup Workers]
  <2>3. events_ \in Seq(E) /\ made \in Seq(E)
    BY <1>4, <1>5
  <2>. HIDE DEF E
  <2>2. /\ events_ \o made \in Seq(E)
        /\ DOMAIN (events_ \o made) = 1 .. (Len(events_) + Len(made))
        /\ \A e \in DOMAIN events_ : (events_ \o made)[e] = events_[e]
        /\ \A k \in DOMAIN made : (events_ \o made)[Len(events_) + k] = made[k]
    BY <2>3, ConcatPlaces
  <2>. QED
    BY <1>5, <1>6, <2>1, <2>2 DEF E
<1>8. [k \in DOMAIN Ends(w) |-> FirstId + k - 1] = id
  <2>1. \A k \in DOMAIN Ends(w) : FirstId + k - 1 = Len(events_) + k
    BY <1>3, <1>4 DEF FirstId
  <2>. QED
    BY <2>1
<1>9. /\ DOMAIN operator_pub_events_' = Outputs
      /\ operator_pub_events_'[w] = id
      /\ \A x \in Outputs \ {w} : operator_pub_events_'[x] = operator_pub_events_[x]
  <2>. HIDE DEF id
  <2>. QED
    BY <1>1, <1>2, <1>4, <1>8
<1>10. ASSUME NEW v \in Workers
       PROVE  IF \E k \in DOMAIN Down(w) : Target(Down(w)[k]) = v
              THEN \E k \in DOMAIN Down(w) :
                     Target(Down(w)[k]) = v /\ operator_sub_events_'[v] = Len(events_) + k
              ELSE operator_sub_events_'[v] = operator_sub_events_[v]
  <2>1. \A k \in DOMAIN Down(w) : k \in DOMAIN Ends(w) /\ Ends(w)[k] = Target(Down(w)[k])
    BY <1>3
  <2>2. operator_sub_events_'[v] =
            IF \E k \in DOMAIN Down(w) : Ends(w)[k] = v
            THEN id[CHOOSE k \in DOMAIN Down(w) : Ends(w)[k] = v]
            ELSE operator_sub_events_[v]
    BY <1>1, <1>8
  <2>3. CASE \E k \in DOMAIN Down(w) : Target(Down(w)[k]) = v
    <3>1. \E k \in DOMAIN Down(w) : Ends(w)[k] = v
      BY <2>1, <2>3
    <3>2. PICK k \in DOMAIN Down(w) : k = (CHOOSE j \in DOMAIN Down(w) : Ends(w)[j] = v) /\ Ends(w)[k] = v
      BY <3>1
    <3>3. operator_sub_events_'[v] = id[k]
      BY <2>2, <3>1, <3>2
    <3>. QED
      BY <2>1, <3>2, <3>3
  <2>4. CASE ~\E k \in DOMAIN Down(w) : Target(Down(w)[k]) = v
    BY <2>1, <2>2, <2>4
  <2>. QED
    BY <2>3, <2>4
<1>11. DOMAIN operator_sub_events_' = Workers
  BY <1>1
<1>. QED
  BY <1>1, <1>2, <1>7, <1>9, <1>10, <1>11

\* How the events are come by, and left alone.
LEMMA EventSteps ==
    ASSUME [Next]_vars
    PROVE  \/ StartEvents
           \/ InitEvents
           \/ UNCHANGED <<ops, events_, operator_pub_events_, operator_sub_events_>>
              /\ \/ stage' = stage /\ todo' = todo
                 \/ stage' = "failed"
                 \/ stage = "events" /\ todo = {} /\ stage' = "operators"
                 \/ stage = "operators" /\ stage' \in {"operators", "ready"}
           \/ stage \notin EventStages \cup {"failed"} /\ stage' \notin EventStages \cup {"failed"}
              /\ UNCHANGED eventVars
<1>1. CASE UNCHANGED vars
  BY <1>1 DEF vars, eventVars
<1>2. CASE Fail
  BY <1>2 DEF Fail, eventVars
<1>. SUFFICES ASSUME Step, ~Fail, ~StartEvents, ~InitEvents
     PROVE \/ UNCHANGED <<ops, events_, operator_pub_events_, operator_sub_events_>>
              /\ \/ stage = "events" /\ todo = {} /\ stage' = "operators"
                 \/ stage = "operators" /\ stage' \in {"operators", "ready"}
           \/ stage \notin EventStages \cup {"failed"} /\ stage' \notin EventStages \cup {"failed"}
              /\ UNCHANGED eventVars
  BY <1>1, <1>2 DEF Next
<1>3. CASE Check \/ Checked \/ Sort \/ Sorted
  BY <1>3 DEF Check, Checked, Sort, Sorted, EventStages
<1>4. CASE Parse
  BY <1>4 DEF Parse, EventStages
<1>5. CASE Link
  BY <1>5 DEF Link, EventStages
<1>6. CASE SetReference \/ Register
  BY <1>6 DEF SetReference, Register, EventStages
<1>7. CASE InitEventManager \/ Ready
  BY <1>7 DEF InitEventManager, Ready, eventVars
<1>8. CASE InitOperator
  BY <1>8 DEF InitOperator, eventVars
<1>. QED
  BY <1>3, <1>4, <1>5, <1>6, <1>7, <1>8 DEF Step

\* The events are kept while the operators are.
LEMMA EventsKept ==
    ASSUME EventsMade, ops' = ops, UNCHANGED <<events_, operator_pub_events_, operator_sub_events_>>,
           stage' \in EventStages => stage \in EventStages /\ Made' = Made,
           stage' \notin EventStages \cup {"failed"} => stage \notin EventStages \cup {"failed"}
    PROVE  EventsMade'
<1>1. Outputs' = Outputs /\ Workers' = Workers /\ \A w : Down(w)' = Down(w) /\ Ends(w)' = Ends(w)
  BY SameOps DEF Ends
<1>2. events_' \in Seq([from : Outputs', to : Outputs' \cup Workers'])
  BY <1>1, Zenon DEF EventsMade
<1>3. \A w \in DOMAIN operator_pub_events_' :
         Elements(operator_pub_events_'[w]) \subseteq DOMAIN events_'
  BY DEF EventsMade
<1>4. stage' \notin EventStages \cup {"failed"} => events_' = <<>> /\ operator_pub_events_' = <<>>
  BY DEF EventsMade
<1>5. CASE stage' \notin EventStages
  BY <1>2, <1>3, <1>4, <1>5 DEF EventsMade
<1>6. CASE stage' \in EventStages
  <2>1. stage \in EventStages /\ Made' = Made
    BY <1>6
  <2>2. /\ DOMAIN operator_pub_events_ = Outputs
         /\ \A w \in Made :
              /\ DOMAIN operator_pub_events_[w] = DOMAIN Ends(w)
              /\ \A k \in DOMAIN Ends(w) :
                   /\ events_[operator_pub_events_[w][k]] = [from |-> w, to |-> Ends(w)[k]]
                   /\ \A j \in DOMAIN Ends(w) :
                        operator_pub_events_[w][j] = operator_pub_events_[w][k] => j = k
         /\ \A e \in DOMAIN events_ :
              /\ events_[e].from \in Made
              /\ \E k \in DOMAIN Ends(events_[e].from) :
                   operator_pub_events_[events_[e].from][k] = e
         /\ DOMAIN operator_sub_events_ = Workers
         /\ \A v \in Workers : operator_sub_events_[v] # 0 =>
              /\ operator_sub_events_[v] \in DOMAIN events_
              /\ events_[operator_sub_events_[v]].to = v
    BY <2>1 DEF EventsMade
  <2>. QED
    BY <1>1, <1>2, <1>3, <1>4, <2>1, <2>2 DEF EventsMade
<1>. QED
  BY <1>5, <1>6

\* No step makes an event but for an output whose turn it is.
LEMMA EventsKeep ==
    ASSUME TypedInv, LinksMade, EventsMade, [Next]_vars
    PROVE  EventsMade'
<1>0. Typed /\ ops \in Seq(OperatorInfos) /\ (stage = "events" => todo \subseteq Outputs)
  BY DEF TypedInv, Typed
<1>1. CASE StartEvents
  <2>1. /\ stage = "register" /\ stage' = "events" /\ ops' = ops /\ todo' = Outputs
        /\ operator_pub_events_' = [w \in Outputs |-> <<>>]
        /\ operator_sub_events_' = [w \in Workers |-> 0]
        /\ events_' = events_
    BY <1>1 DEF StartEvents
  <2>2. events_ = <<>>
    BY <2>1 DEF EventsMade, EventStages
  <2>3. Outputs' = Outputs /\ Workers' = Workers
    BY <2>1, SameOps
  <2>4. Made' = {}
    BY <2>1, <2>3 DEF Made
  <2>5. events_' \in Seq([from : Outputs', to : Outputs' \cup Workers'])
    BY <2>1, <2>2, EmptySeq
  <2>6. \A w \in DOMAIN operator_pub_events_' :
         Elements(operator_pub_events_'[w]) \subseteq DOMAIN events_'
    BY <2>1 DEF Elements
  <2>7. DOMAIN operator_pub_events_' = Outputs' /\ DOMAIN operator_sub_events_' = Workers'
        /\ \A v \in Workers : operator_sub_events_'[v] = 0
    BY <2>1, <2>3
  <2>. QED
    BY <2>1, <2>2, <2>3, <2>4, <2>5, <2>6, <2>7 DEF EventsMade, EventStages
<1>2. CASE InitEvents
  <2>1. PICK w \in todo :
             /\ stage = "events" /\ stage' = "events"
             /\ ops' = ops /\ todo' = todo \ {w}
             /\ events_' \in Seq([from : Outputs, to : Outputs \cup Workers])
             /\ DOMAIN events_' = 1 .. (Len(events_) + Len(Ends(w)))
             /\ \A e \in DOMAIN events_ : events_'[e] = events_[e]
             /\ \A k \in DOMAIN Ends(w) :
                  events_'[Len(events_) + k] = [from |-> w, to |-> Ends(w)[k]]
             /\ DOMAIN operator_pub_events_' = Outputs
             /\ operator_pub_events_'[w] = [k \in DOMAIN Ends(w) |-> Len(events_) + k]
             /\ \A x \in Outputs \ {w} : operator_pub_events_'[x] = operator_pub_events_[x]
             /\ DOMAIN operator_sub_events_' = Workers
             /\ \A v \in Workers :
                  IF \E k \in DOMAIN Down(w) : Target(Down(w)[k]) = v
                  THEN \E k \in DOMAIN Down(w) :
                         Target(Down(w)[k]) = v /\ operator_sub_events_'[v] = Len(events_) + k
                  ELSE operator_sub_events_'[v] = operator_sub_events_[v]
    <3>1. todo \subseteq Outputs
      BY <1>0, <1>2 DEF InitEvents
    <3>. QED
      BY <1>0, <1>2, <3>1, EventsEffect
  <2>2. /\ Outputs' = Outputs /\ Workers' = Workers
        /\ \A x : Down(x)' = Down(x) /\ Ends(x)' = Ends(x)
    BY <2>1, SameOps DEF Ends
  <2>3. w \in Outputs /\ Made' = Made \cup {w} /\ w \notin Made /\ Made \subseteq Outputs
    BY <1>0, <2>1, <2>2 DEF Made
  <2>4. /\ events_ \in Seq([from : Outputs, to : Outputs \cup Workers])
        /\ \A x \in Made : /\ DOMAIN operator_pub_events_[x] = DOMAIN Ends(x)
                           /\ \A k \in DOMAIN Ends(x) :
                                /\ events_[operator_pub_events_[x][k]] = [from |-> x, to |-> Ends(x)[k]]
                                /\ \A j \in DOMAIN Ends(x) :
                                     operator_pub_events_[x][j] = operator_pub_events_[x][k] => j = k
        /\ \A e \in DOMAIN events_ :
              /\ events_[e].from \in Made
              /\ \E k \in DOMAIN Ends(events_[e].from) :
                   operator_pub_events_[events_[e].from][k] = e
        /\ DOMAIN operator_pub_events_ = Outputs
        /\ \A x \in Outputs : Elements(operator_pub_events_[x]) \subseteq DOMAIN events_
        /\ \A v \in Workers : operator_sub_events_[v] # 0 =>
              /\ operator_sub_events_[v] \in DOMAIN events_
              /\ events_[operator_sub_events_[v]].to = v
    BY <2>1 DEF EventsMade, EventStages
  <2>5. /\ Ends(w) \in Seq(Outputs \cup Workers) /\ DOMAIN Ends(w) = 1 .. Len(Ends(w)) /\ Len(Ends(w)) \in Nat
        /\ \A k \in DOMAIN Down(w) : k \in DOMAIN Ends(w) /\ Ends(w)[k] = Target(Down(w)[k])
    <3>1. /\ Ends(w) \in Seq(Outputs \cup Workers)
          /\ Down(w) # <<>> => /\ DOMAIN Ends(w) = DOMAIN Down(w)
                               /\ \A k \in DOMAIN Down(w) : Ends(w)[k] = Target(Down(w)[k])
      BY <1>0, <2>1, <2>3, EndsTyped DEF Later
    <3>. QED
      BY <3>1
  <2>6. /\ DOMAIN events_ = 1 .. Len(events_) /\ Len(events_) \in Nat
        /\ DOMAIN events_ \subseteq DOMAIN events_'
        /\ \A k \in DOMAIN Ends(w) : Len(events_) + k \in DOMAIN events_'
        /\ \A e \in DOMAIN events_' : e \notin DOMAIN events_ => \E k \in DOMAIN Ends(w) : e = Len(events_) + k
    <3>1. DOMAIN events_ = 1 .. Len(events_) /\ Len(events_) \in Nat
      BY <2>4
    <3>2. ASSUME NEW e \in DOMAIN events_', e \notin DOMAIN events_
          PROVE  \E k \in DOMAIN Ends(w) : e = Len(events_) + k
      <4>1. e - Len(events_) \in DOMAIN Ends(w) /\ e = Len(events_) + (e - Len(events_))
        BY <2>1, <2>5, <3>1, <3>2
      <4>. QED
        BY <4>1
    <3>. QED
      BY <2>1, <2>5, <3>1, <3>2
  <2>7. ASSUME NEW x \in Made'
        PROVE  /\ DOMAIN operator_pub_events_'[x] = DOMAIN Ends(x)
               /\ \A k \in DOMAIN Ends(x) :
                    /\ operator_pub_events_'[x][k] \in DOMAIN events_'
                    /\ events_'[operator_pub_events_'[x][k]] = [from |-> x, to |-> Ends(x)[k]]
                    /\ \A j \in DOMAIN Ends(x) :
                         operator_pub_events_'[x][j] = operator_pub_events_'[x][k] => j = k
    <3>1. CASE x = w
      BY <2>1, <2>5, <2>6, <3>1
    <3>2. CASE x # w
      <4>1. x \in Made /\ operator_pub_events_'[x] = operator_pub_events_[x] /\ x \in Outputs
        BY <2>1, <2>3, <2>7, <3>2
      <4>2. \A k \in DOMAIN operator_pub_events_[x] : operator_pub_events_[x][k] \in DOMAIN events_
        BY <2>4, <4>1 DEF Elements
      <4>. QED
        BY <2>1, <2>4, <2>6, <4>1, <4>2
    <3>. QED
      BY <3>1, <3>2
  <2>8. ASSUME NEW e \in DOMAIN events_'
        PROVE  /\ events_'[e].from \in Made'
               /\ \E k \in DOMAIN Ends(events_'[e].from) : operator_pub_events_'[events_'[e].from][k] = e
    <3>1. CASE e \in DOMAIN events_
      <4>1. events_'[e] = events_[e] /\ events_[e].from \in Made
        BY <2>1, <2>4, <3>1
      <4>2. operator_pub_events_'[events_[e].from] = operator_pub_events_[events_[e].from]
        BY <2>1, <2>3, <4>1
      <4>3. \E k \in DOMAIN Ends(events_[e].from) : operator_pub_events_[events_[e].from][k] = e
        BY <2>4, <3>1
      <4>. QED
        BY <2>3, <4>1, <4>2, <4>3
    <3>2. CASE e \notin DOMAIN events_
      <4>1. PICK k \in DOMAIN Ends(w) : e = Len(events_) + k
        BY <2>6, <3>2
      <4>2. events_'[e].from = w /\ operator_pub_events_'[w][k] = e
        <5>1. events_'[e] = [from |-> w, to |-> Ends(w)[k]]
          BY <2>1, <4>1
        <5>2. operator_pub_events_'[w][k] = Len(events_) + k
          BY <2>1, <4>1
        <5>. QED
          BY <4>1, <5>1, <5>2
      <4>. QED
        BY <2>3, <4>2, <4>1
    <3>. QED
      BY <3>1, <3>2
  <2>9. ASSUME NEW v \in Workers, operator_sub_events_'[v] # 0
        PROVE  /\ operator_sub_events_'[v] \in DOMAIN events_'
               /\ events_'[operator_sub_events_'[v]].to = v
    <3>1. CASE \E k \in DOMAIN Down(w) : Target(Down(w)[k]) = v
      <4>1. PICK k \in DOMAIN Down(w) : Target(Down(w)[k]) = v /\ operator_sub_events_'[v] = Len(events_) + k
        BY <2>1, <3>1
      <4>2. k \in DOMAIN Ends(w) /\ Ends(w)[k] = v
        BY <2>5, <4>1
      <4>3. events_'[Len(events_) + k] = [from |-> w, to |-> v]
        BY <2>1, <4>2
      <4>. QED
        BY <2>6, <4>1, <4>2, <4>3
    <3>2. CASE ~\E k \in DOMAIN Down(w) : Target(Down(w)[k]) = v
      <4>1. operator_sub_events_'[v] = operator_sub_events_[v]
        BY <2>1, <3>2
      <4>. QED
        BY <2>1, <2>4, <2>6, <2>9, <4>1
    <3>. QED
      BY <3>1, <3>2
  <2>10. \A x \in Outputs : Elements(operator_pub_events_'[x]) \subseteq DOMAIN events_'
    <3>1. ASSUME NEW x \in Outputs
          PROVE  Elements(operator_pub_events_'[x]) \subseteq DOMAIN events_'
      <4>1. CASE x = w
        <5>1. ASSUME NEW y \in Elements(operator_pub_events_'[w])
              PROVE  y \in DOMAIN events_'
          <6>1. PICK k \in DOMAIN operator_pub_events_'[w] : y = operator_pub_events_'[w][k]
            BY <5>1 DEF Elements
          <6>2. w \in Made'
            BY <2>3
          <6>. QED
            BY <2>7, <6>1, <6>2
        <5>. QED
          BY <4>1, <5>1
      <4>2. CASE x # w
        <5>1. operator_pub_events_'[x] = operator_pub_events_[x]
          BY <2>1, <4>2
        <5>2. Elements(operator_pub_events_'[x]) = Elements(operator_pub_events_[x])
          BY <5>1 DEF Elements
        <5>. QED
          BY <2>4, <2>6, <5>2
      <4>. QED
        BY <4>1, <4>2
    <3>. QED
      BY <3>1
  <2>. QED
    BY <2>1, <2>2, <2>7, <2>8, <2>9, <2>10 DEF EventsMade, EventStages
<1>3. CASE UNCHANGED <<ops, events_, operator_pub_events_, operator_sub_events_>>
              /\ \/ stage' = stage /\ todo' = todo
                 \/ stage' = "failed"
                 \/ stage = "events" /\ todo = {} /\ stage' = "operators"
                 \/ stage = "operators" /\ stage' \in {"operators", "ready"}
  <2>1. Outputs' = Outputs
    BY <1>3, SameOps
  <2>2. stage' \in EventStages => stage \in EventStages /\ Made' = Made
    BY <1>3, <2>1 DEF Made, EventStages
  <2>. QED
    BY <1>3, <2>2, EventsKept DEF EventStages
<1>4. CASE stage \notin EventStages \cup {"failed"} /\ stage' \notin EventStages \cup {"failed"}
           /\ UNCHANGED eventVars
  <2>1. events_' = <<>> /\ operator_pub_events_' = <<>>
    BY <1>4 DEF EventsMade, eventVars
  <2>2. events_' \in Seq([from : Outputs', to : Outputs' \cup Workers'])
    BY <2>1, EmptySeq
  <2>. QED
    BY <1>4, <2>1, <2>2 DEF EventsMade
<1>. QED
  BY <1>1, <1>2, <1>3, <1>4, EventSteps

-----------------------------------------------------------------------------
(* Ports.                                                                  *)

PortStages == {"operators", "ready"}

\* The operators that have had their turn.
Running(i) == stage = "operators" => <<i>> \notin todo

\* The port of a worker has what Port::init makes of the operator's configuration, and
\* the caches that it names are there.
PortMade(v) ==
    /\ ports_[v].trigger_data = TriggerData(v) /\ ports_[v].output_data = OutputData(v)
    /\ ports_[v].nocopy = NoCopy(v) /\ ports_[v].ref = RefData(v) /\ ports_[v].reads = Reads(v[1])
    /\ ports_[v].output_period = OutputPeriod(v)
    /\ TriggerData(v) \in FrameCaches /\ Elements(OutputData(v)) \subseteq FrameCaches
    /\ \A e \in Reads(v[1]) : Reference(e) \in FrameCaches

\* The ports are those of the operators that have had their turn, each of which has
\* taken a name of its own.
PortsMade ==
    /\ stage \notin PortStages \cup {"failed"} => ports_ = <<>>
    /\ DOMAIN ports_ \subseteq Workers
    /\ stage \in PortStages =>
         /\ \A v \in Workers : Running(v[1]) => v \in DOMAIN ports_
         /\ \A v \in DOMAIN ports_ : PortMade(v)
         /\ \A i \in DOMAIN ops : Running(i) => Plain(ops[i].name) \in DOMAIN shared_data_map_
         /\ \A i, j \in DOMAIN ops : Running(i) /\ Running(j) /\ ops[i].name = ops[j].name => i = j

\* A turn of the loop over the operators.
LEMMA InitOperatorEffect ==
    ASSUME Typed, InitOperator, stage' # "failed"
    PROVE  \E i \in DOMAIN ops :
             /\ stage = "operators" /\ stage' = "operators"
             /\ <<i>> \in todo /\ todo' = todo \ {<<i>>} /\ ops' = ops /\ CanInit(i)
             /\ DOMAIN ports_' = DOMAIN ports_ \cup {v \in Workers : v[1] = i}
             /\ \A v \in Workers : v[1] = i => ports_'[v] = InitPort(v)
             /\ \A v \in DOMAIN ports_ : v \in Workers /\ v[1] # i => ports_'[v] = ports_[v]
             /\ DOMAIN shared_data_map_' = DOMAIN shared_data_map_ \cup {Plain(ops[i].name)}
             /\ \A name \in DOMAIN shared_data_map_ : shared_data_map_'[name] = shared_data_map_[name]
<1>1. PICK t \in todo :
          /\ CanInit(t[1]) /\ todo' = todo \ {t}
          /\ ports_' = Joined([w \in {v \in Workers : v[1] = t[1]} |-> InitPort(w)], ports_)
          /\ shared_data_map_' = Joined(shared_data_map_, [name \in {Plain(ops[t[1]].name)} |-> 0])
          /\ ops' = ops /\ stage' = stage
  BY DEF InitOperator, Fail
<1>2. stage = "operators"
  BY DEF InitOperator
<1>3. PICK i \in DOMAIN ops : t = <<i>>
  BY <1>2 DEF Typed
<1>4. t[1] = i
  BY <1>3
<1>5. /\ DOMAIN ports_' = DOMAIN ports_ \cup {v \in Workers : v[1] = i}
      /\ \A v \in Workers : v[1] = i => ports_'[v] = InitPort(v)
      /\ \A v \in DOMAIN ports_ : v \in Workers /\ v[1] # i => ports_'[v] = ports_[v]
  <2>. DEFINE p == [w \in {v \in Workers : v[1] = i} |-> InitPort(w)]
  <2>1. DOMAIN p = {v \in Workers : v[1] = i} /\ \A v \in Workers : v[1] = i => p[v] = InitPort(v)
    OBVIOUS
  <2>2. ports_' = Joined(p, ports_)
    BY <1>1, <1>4
  <2>. HIDE DEF p
  <2>. QED
    BY <2>1, <2>2 DEF Joined
<1>6. /\ DOMAIN shared_data_map_' = DOMAIN shared_data_map_ \cup {Plain(ops[i].name)}
      /\ \A name \in DOMAIN shared_data_map_ : shared_data_map_'[name] = shared_data_map_[name]
  BY <1>1, <1>4 DEF Joined
<1>. QED
  BY <1>1, <1>2, <1>3, <1>4, <1>5, <1>6

\* A port is what it is while the operators and the rates of the caches are.
LEMMA PortKept ==
    ASSUME NEW v, PortMade(v), ops' = ops, ports_'[v] = ports_[v],
           \A name \in DOMAIN shared_data_map_ :
             name \in DOMAIN shared_data_map_' /\ shared_data_map_'[name] = shared_data_map_[name]
    PROVE  PortMade(v)'
<1>1. /\ TriggerData(v)' = TriggerData(v) /\ OutputData(v)' = OutputData(v)
      /\ NoCopy(v)' = NoCopy(v) /\ RefData(v)' = RefData(v)
      /\ Reads(v[1])' = Reads(v[1])
  BY SameOps
<1>2. FrameCaches \subseteq FrameCaches'
  BY DEF FrameCaches
<1>3. OutputPeriod(v)' = OutputPeriod(v)
  <2>1. TriggerData(v) \in DOMAIN shared_data_map_
    BY DEF PortMade, FrameCaches
  <2>2. \A k \in DOMAIN OutputData(v) : OutputData(v)[k] \in DOMAIN shared_data_map_
    BY DEF PortMade, FrameCaches, Elements
  <2>. QED
    BY <1>1, <2>1, <2>2 DEF OutputPeriod
<1>4. Elements(OutputData(v))' = Elements(OutputData(v))
  BY <1>1 DEF Elements
<1>. QED
  BY <1>1, <1>2, <1>3, <1>4 DEF PortMade

\* How the ports are come by, and left alone.
LEMMA PortSteps ==
    ASSUME [Next]_vars
    PROVE  \/ InitEventManager
           \/ InitOperator /\ stage' # "failed"
           \/ UNCHANGED <<ops, ports_, shared_data_map_>>
              /\ \/ stage' = stage /\ todo' = todo
                 \/ stage' = "failed"
                 \/ stage = "operators" /\ todo = {} /\ stage' = "ready"
           \/ stage \notin PortStages \cup {"failed"} /\ stage' \notin PortStages \cup {"failed"}
              /\ ports_' = ports_
<1>1. CASE UNCHANGED vars
  BY <1>1 DEF vars, dataVars
<1>2. CASE Fail
  BY <1>2 DEF Fail, dataVars
<1>. SUFFICES ASSUME Step, ~Fail, ~InitEventManager, ~InitOperator
     PROVE \/ UNCHANGED <<ops, ports_, shared_data_map_>>
              /\ stage = "operators" /\ todo = {} /\ stage' = "ready"
           \/ stage \notin PortStages \cup {"failed"} /\ stage' \notin PortStages \cup {"failed"}
              /\ ports_' = ports_
  <2>1. InitOperator /\ stage' = "failed" => Fail
    BY FailsOnly DEF Step
  <2>. QED
    BY <1>1, <1>2, <2>1 DEF Next
<1>3. CASE Check \/ Checked \/ Sort \/ Sorted
  BY <1>3 DEF Check, Checked, Sort, Sorted, PortStages
<1>4. CASE Parse
  BY <1>4 DEF Parse, PortStages
<1>5. CASE Link
  BY <1>5 DEF Link, PortStages
<1>6. CASE SetReference \/ Register
  BY <1>6 DEF SetReference, Register, PortStages
<1>7. CASE StartEvents \/ Ready
  BY <1>7 DEF StartEvents, Ready, PortStages, dataVars
<1>8. CASE InitEvents
  BY <1>8 DEF InitEvents, PortStages
<1>. QED
  BY <1>3, <1>4, <1>5, <1>6, <1>7, <1>8 DEF Step

\* No step makes a port but for an operator whose turn it is.
LEMMA PortsKeep ==
    ASSUME TypedInv, PortsMade, [Next]_vars
    PROVE  PortsMade'
<1>0. Typed
  BY DEF TypedInv
<1>1. CASE InitEventManager
  <2>1. ports_ = <<>> /\ ports_' = ports_ /\ stage' = "operators" /\ ops' = ops
        /\ todo' = {<<i>> : i \in DOMAIN ops}
    BY <1>1 DEF InitEventManager, PortsMade, PortStages
  <2>2. \A i \in DOMAIN ops : <<i>> \in todo'
    BY <2>1
  <2>3. Workers' = Workers
    BY <2>1, SameOps
  <2>4. \A v \in Workers : v[1] \in DOMAIN ops
    BY WorkerPlaces
  <2>. QED
    BY <2>1, <2>2, <2>3, <2>4 DEF PortsMade, PortStages, Running
<1>2. CASE InitOperator /\ stage' # "failed"
  <2>1. PICK i \in DOMAIN ops :
             /\ stage = "operators" /\ stage' = "operators"
             /\ <<i>> \in todo /\ todo' = todo \ {<<i>>} /\ ops' = ops /\ CanInit(i)
             /\ DOMAIN ports_' = DOMAIN ports_ \cup {v \in Workers : v[1] = i}
             /\ \A v \in Workers : v[1] = i => ports_'[v] = InitPort(v)
             /\ \A v \in DOMAIN ports_ : v \in Workers /\ v[1] # i => ports_'[v] = ports_[v]
             /\ DOMAIN shared_data_map_' = DOMAIN shared_data_map_ \cup {Plain(ops[i].name)}
             /\ \A name \in DOMAIN shared_data_map_ : shared_data_map_'[name] = shared_data_map_[name]
    BY <1>0, <1>2, InitOperatorEffect
  <2>2. Workers' = Workers
    BY <2>1, SameOps
  <2>3. /\ DOMAIN ports_ \subseteq Workers
        /\ \A v \in Workers : Running(v[1]) => v \in DOMAIN ports_
        /\ \A v \in DOMAIN ports_ : PortMade(v)
        /\ \A j \in DOMAIN ops : Running(j) => Plain(ops[j].name) \in DOMAIN shared_data_map_
        /\ \A j, k \in DOMAIN ops : Running(j) /\ Running(k) /\ ops[j].name = ops[k].name => j = k
    BY <2>1 DEF PortsMade, PortStages
  <2>4. \A j \in DOMAIN ops : Running(j)' => Running(j) \/ j = i
    BY <2>1 DEF Running
  <2>5. ASSUME NEW v \in DOMAIN ports_'
        PROVE  PortMade(v)'
    <3>1. CASE v \in Workers /\ v[1] = i
      <4>1. ports_'[v] = InitPort(v)
        BY <2>1, <3>1
      <4>2. /\ TriggerData(v) \in FrameCaches /\ Elements(OutputData(v)) \subseteq FrameCaches
            /\ \A e \in Reads(i) : Reference(e) \in FrameCaches
        BY <2>1, <3>1 DEF CanInit
      <4>3. /\ TriggerData(v)' = TriggerData(v) /\ OutputData(v)' = OutputData(v)
            /\ NoCopy(v)' = NoCopy(v) /\ RefData(v)' = RefData(v)
            /\ Reads(v[1])' = Reads(v[1])
        BY <2>1, SameOps
      <4>4. FrameCaches \subseteq FrameCaches'
        BY <2>1 DEF FrameCaches
      <4>5. OutputPeriod(v)' = OutputPeriod(v)
        <5>1. TriggerData(v) \in DOMAIN shared_data_map_
          BY <4>2 DEF FrameCaches
        <5>2. \A k \in DOMAIN OutputData(v) : OutputData(v)[k] \in DOMAIN shared_data_map_
          BY <4>2 DEF FrameCaches, Elements
        <5>. QED
          BY <2>1, <4>3, <5>1, <5>2 DEF OutputPeriod
      <4>6. Elements(OutputData(v))' = Elements(OutputData(v))
        BY <4>3 DEF Elements
      <4>7. /\ ports_'[v].trigger_data = TriggerData(v) /\ ports_'[v].output_data = OutputData(v)
            /\ ports_'[v].nocopy = NoCopy(v) /\ ports_'[v].ref = RefData(v)
            /\ ports_'[v].reads = Reads(v[1]) /\ ports_'[v].output_period = OutputPeriod(v)
        BY <4>1 DEF InitPort
      <4>. QED
        BY <3>1, <4>2, <4>3, <4>4, <4>5, <4>6, <4>7 DEF PortMade
    <3>2. CASE ~(v \in Workers /\ v[1] = i)
      <4>1. v \in DOMAIN ports_ /\ ports_'[v] = ports_[v]
        BY <2>1, <2>3, <2>5, <3>2
      <4>. QED
        BY <2>1, <2>3, <4>1, PortKept
    <3>. QED
      BY <3>1, <3>2
  <2>6. \A v \in Workers : Running(v[1])' => v \in DOMAIN ports_'
    <3>1. \A v \in Workers : v[1] \in DOMAIN ops
      BY WorkerPlaces
    <3>. QED
      BY <2>1, <2>3, <2>4, <3>1
  <2>7. \A j \in DOMAIN ops : Running(j)' => Plain(ops[j].name) \in DOMAIN shared_data_map_'
    BY <2>1, <2>3, <2>4
  <2>8. \A j, k \in DOMAIN ops : Running(j)' /\ Running(k)' /\ ops[j].name = ops[k].name => j = k
    <3>1. Plain(ops[i].name) \notin DOMAIN shared_data_map_
      BY <2>1 DEF CanInit
    <3>. QED
      BY <2>3, <2>4, <3>1
  <2>. QED
    BY <2>1, <2>2, <2>3, <2>5, <2>6, <2>7, <2>8 DEF PortsMade, PortStages
<1>3. CASE UNCHANGED <<ops, ports_, shared_data_map_>>
              /\ \/ stage' = stage /\ todo' = todo
                 \/ stage' = "failed"
                 \/ stage = "operators" /\ todo = {} /\ stage' = "ready"
  <2>1. Workers' = Workers
    BY <1>3, SameOps
  <2>2. CASE stage' \in PortStages
    <3>1. stage \in PortStages /\ \A i : Running(i)' => Running(i)
      BY <1>3, <2>2 DEF PortStages, Running
    <3>2. /\ DOMAIN ports_ \subseteq Workers
          /\ \A v \in Workers : Running(v[1]) => v \in DOMAIN ports_
          /\ \A v \in DOMAIN ports_ : PortMade(v)
          /\ \A j \in DOMAIN ops : Running(j) => Plain(ops[j].name) \in DOMAIN shared_data_map_
          /\ \A j, k \in DOMAIN ops : Running(j) /\ Running(k) /\ ops[j].name = ops[k].name => j = k
      BY <3>1 DEF PortsMade
    <3>3. \A v \in DOMAIN ports_' : PortMade(v)'
      BY <1>3, <3>2, PortKept
    <3>. QED
      BY <1>3, <2>1, <2>2, <3>1, <3>2, <3>3 DEF PortsMade
  <2>3. CASE stage' \notin PortStages
    BY <1>3, <2>1, <2>3 DEF PortsMade, PortStages
  <2>. QED
    BY <2>2, <2>3
<1>4. CASE stage \notin PortStages \cup {"failed"} /\ stage' \notin PortStages \cup {"failed"}
           /\ ports_' = ports_
  BY <1>4 DEF PortsMade
<1>. QED
  BY <1>1, <1>2, <1>3, <1>4, PortSteps

-----------------------------------------------------------------------------
(* The types, of the program as a whole.                                   *)

\* What holds of every configuration.
StructInv == TypedInv /\ LinksMade /\ EventsMade /\ PortsMade

\* It holds at first,
LEMMA StructInit == Init => StructInv
<1>. SUFFICES ASSUME Init PROVE StructInv
  OBVIOUS
<1>1. LinksMade
  BY DEF Init, LinksMade, Later
<1>2. events_ = <<>> /\ operator_pub_events_ = <<>> /\ ports_ = <<>> /\ stage = "check"
  BY DEF Init
<1>3. events_ \in Seq([from : Outputs, to : Outputs \cup Workers])
  BY <1>2, EmptySeq
<1>4. EventsMade /\ PortsMade
  BY <1>2, <1>3 DEF EventsMade, PortsMade, EventStages, PortStages
<1>. QED
  BY <1>1, <1>4, TypedInit DEF StructInv

\* every step keeps it,
LEMMA StructKeeps == StructInv /\ [Next]_vars => StructInv'
BY TypedKeeps, LinksKeep, EventsKeep, PortsKeep DEF StructInv

\* and so it always holds.
THEOREM DagInvariance == Spec => []StructInv
BY StructInit, StructKeeps, PTL DEF Spec

\* A sequence without repetition is not longer than there are elements to choose from.
LEMMA NoLonger ==
    ASSUME NEW S, IsFiniteSet(S), NEW s \in Seq(S), \A j, k \in DOMAIN s : s[j] = s[k] => j = k
    PROVE  Len(s) <= Cardinality(S)
<1>1. Len(s) \in Nat /\ DOMAIN s = 1 .. Len(s) /\ s \in [1 .. Len(s) -> S]
  OBVIOUS
<1>2. s \in Injection(1 .. Len(s), S)
  BY <1>1 DEF Injection, IsInjective
<1>3. Cardinality(1 .. Len(s)) <= Cardinality(S)
  BY <1>2, FS_Injection
<1>4. Cardinality(1 .. Len(s)) = Len(s)
  BY <1>1, FS_Interval
<1>. QED
  BY <1>3, <1>4

\* The types: whatever the configuration, the links, events, caches and ports that the
\* initialisation notes down are those of operators, outputs and triggers that exist.
THEOREM TypeOKHolds == Spec => []TypeOK
<1>1. StructInv => TypeOK
  <2>. SUFFICES ASSUME StructInv PROVE TypeOK
    OBVIOUS
  <2>1. /\ IsFiniteSet(Nodes) /\ q \in Seq(Nodes) /\ sorted \in Seq(Nodes)
        /\ \A j, k \in DOMAIN sorted : sorted[j] = sorted[k] => j = k
    <3>1. \E n \in Nat : Nodes = 1 .. n
      BY DEF StructInv, TypedInv, IInv, Places
    <3>. QED
      BY <3>1, FS_Interval DEF StructInv, TypedInv, IInv, Places
  <2>2. Elements(q) \cup Elements(sorted) \subseteq Nodes
    BY <2>1 DEF Elements
  <2>3. Len(sorted) <= Cardinality(Nodes)
    BY <2>1, NoLonger
  <2>4. stage \in Stages /\ new_data \subseteq FrameCaches
    BY DEF StructInv, TypedInv, Typed
  <2>5. \A k \in DOMAIN events_ : events_[k].from \in Outputs
    <3>. DEFINE E == [from : Outputs, to : Outputs \cup Workers]
    <3>1. events_ \in Seq(E)
      BY DEF StructInv, EventsMade
    <3>. HIDE DEF E
    <3>2. \A k \in DOMAIN events_ : events_[k] \in E
      BY <3>1
    <3>. QED
      BY <3>2 DEF E
  <2>. QED
    BY <2>2, <2>3, <2>4, <2>5 DEF TypeOK, StructInv, EventsMade, PortsMade
<1>. QED
  BY <1>1, DagInvariance, PTL

-----------------------------------------------------------------------------
(* The pipelines.                                                          *)

Rank(e) == events_[e].from[1]

\* The chains of events from e to an end, and what traverse makes of those of the next.
Ways(e) ==
    {p \in Seq(DOMAIN events_) :
        /\ p # <<>> /\ p[1] = e
        /\ \A k \in 1 .. (Len(p) - 1) : Adjacent(p[k], p[k + 1])
        /\ \A f \in DOMAIN events_ : ~Adjacent(p[Len(p)], f)}
Traversed(chains, e) ==
    LET next == {f \in DOMAIN events_ : Adjacent(e, f)}
    IN  IF next = {} THEN {<<e>>} ELSE UNION {{<<e>> \o chain : chain \in chains[f]} : f \in next}

\* An event goes on only from an operator to one that comes later.
LEMMA EventsGoDown ==
    ASSUME StructInv, stage \in EventStages
    PROVE  /\ \A e \in DOMAIN events_ : Rank(e) \in 1 .. Len(ops)
           /\ \A e, f \in DOMAIN events_ : Adjacent(e, f) => Rank(e) < Rank(f)
<1>1. ops \in Seq(OperatorInfos) /\ LinksMade /\ EventsMade /\ stage \in Later
  BY DEF StructInv, TypedInv, Typed, EventStages, Later
<1>2. \A e \in DOMAIN events_ :
         /\ events_[e].from \in Outputs /\ events_[e].from \in Made
         /\ \E k \in DOMAIN Ends(events_[e].from) :
              operator_pub_events_[events_[e].from][k] = e
  BY <1>1 DEF EventsMade, Made
<1>3. \A w \in Made : w \in Outputs /\ \A k \in DOMAIN Ends(w) :
         events_[operator_pub_events_[w][k]] = [from |-> w, to |-> Ends(w)[k]]
  BY <1>1 DEF EventsMade, Made
<1>4. ASSUME NEW e \in DOMAIN events_
      PROVE  Rank(e) \in 1 .. Len(ops)
  <2>1. Rank(e) \in DOMAIN ops
    BY <1>2, OutputPlaces DEF Rank
  <2>. QED
    BY <1>1, <2>1
<1>5. ASSUME NEW e \in DOMAIN events_, NEW f \in DOMAIN events_, Adjacent(e, f)
      PROVE  Rank(e) < Rank(f)
  <2>0. PICK w \in Outputs : w = events_[e].from
    BY <1>2
  <2>1. w \in Made
    BY <1>2, <2>0
  <2>2. PICK k \in DOMAIN Ends(w) : operator_pub_events_[w][k] = e
    BY <1>2, <2>0
  <2>3. events_[e].to = Ends(w)[k]
    <3>1. events_[operator_pub_events_[w][k]] = [from |-> w, to |-> Ends(w)[k]]
      BY <1>3, <2>1
    <3>. QED
      BY <2>2, <3>1
  <2>4. e # f /\ events_[f].from = Ends(w)[k]
    BY <1>5, <2>3 DEF Adjacent
  <2>5. /\ Down(w) # <<>> => /\ DOMAIN Ends(w) = DOMAIN Down(w)
                             /\ \A j \in DOMAIN Down(w) : Ends(w)[j] = Target(Down(w)[j])
        /\ Down(w) = <<>> => Ends(w) = <<w>>
        /\ \A j \in DOMAIN Down(w) : Target(Down(w)[j]) \in Workers
    BY <1>1, <2>1, EndsTyped
  <2>6. CASE Down(w) = <<>>
    <3>1. DOMAIN Ends(w) = {1} /\ Ends(w)[1] = w
      BY <2>5, <2>6
    <3>2. events_[f].from = w
      BY <2>2, <2>4, <3>1
    <3>3. PICK j \in DOMAIN Ends(w) : operator_pub_events_[w][j] = f
      BY <1>2, <3>2
    <3>. QED
      BY <2>2, <2>4, <3>1, <3>3
  <2>7. CASE Down(w) # <<>>
    <3>1. k \in DOMAIN Down(w) /\ events_[f].from = Target(Down(w)[k])
      BY <2>2, <2>4, <2>5, <2>7
    <3>2. Target(Down(w)[k]) \in Workers /\ LinkOf(w, Target(Down(w)[k])) \in Matches
      BY <1>1, <2>1, <3>1 DEF LinksMade, Done, EventStages
    <3>3. w[1] < Target(Down(w)[k])[1]
      BY <2>1, <3>2, LinkOfPlaces
    <3>. QED
      BY <2>0, <3>1, <3>3 DEF Rank
  <2>. QED
    BY <2>6, <2>7
<1>. QED
  BY <1>4, <1>5

\* The first element of a sequence before another.
LEMMA PrependFact ==
    ASSUME NEW S, NEW e \in S, NEW c \in Seq(S), c # <<>>
    PROVE  /\ <<e>> \o c \in Seq(S) /\ <<e>> \o c # <<>>
           /\ Len(<<e>> \o c) = Len(c) + 1 /\ Len(c) \in Nat \ {0}
           /\ (<<e>> \o c)[1] = e /\ (<<e>> \o c)[2] = c[1]
           /\ \A k \in 1 .. Len(c) : (<<e>> \o c)[k + 1] = c[k]
<1>1. <<e>> \in Seq(S) /\ Len(<<e>>) = 1 /\ <<e>>[1] = e /\ DOMAIN <<e>> = {1}
  OBVIOUS
<1>2. Len(c) \in Nat \ {0} /\ DOMAIN c = 1 .. Len(c)
  OBVIOUS
<1>3. /\ <<e>> \o c \in Seq(S) /\ DOMAIN (<<e>> \o c) = 1 .. (1 + Len(c))
      /\ (<<e>> \o c)[1] = e
      /\ \A k \in DOMAIN c : (<<e>> \o c)[1 + k] = c[k]
  <2>. DEFINE h == <<e>>
  <2>. HIDE DEF h
  <2>1. h \in Seq(S) /\ Len(h) = 1 /\ h[1] = e /\ DOMAIN h = {1}
    BY <1>1 DEF h
  <2>2. /\ h \o c \in Seq(S) /\ DOMAIN (h \o c) = 1 .. (1 + Len(c))
        /\ (h \o c)[1] = h[1]
        /\ \A k \in DOMAIN c : (h \o c)[1 + k] = c[k]
    BY <2>1, ConcatPlaces
  <2>. QED
    BY <2>1, <2>2 DEF h
<1>4. /\ Len(<<e>> \o c) = Len(c) + 1 /\ <<e>> \o c # <<>>
      /\ (<<e>> \o c)[2] = c[1]
      /\ \A k \in 1 .. Len(c) : (<<e>> \o c)[k + 1] = c[k]
  <2>1. DOMAIN (<<e>> \o c) = 1 .. Len(<<e>> \o c) /\ Len(<<e>> \o c) \in Nat
    BY <1>3
  <2>2. Len(<<e>> \o c) = Len(c) + 1
    BY <1>2, <1>3, <2>1
  <2>3. \A k \in 1 .. Len(c) : (<<e>> \o c)[k + 1] = c[k]
    BY <1>2, <1>3
  <2>4. (<<e>> \o c)[1 + 1] = c[1]
    BY <1>2, <1>3
  <2>. QED
    BY <1>2, <2>2, <2>3, <2>4
<1>. QED
  BY <1>2, <1>3, <1>4

\* What is left of a sequence without its head.
LEMMA TailFact ==
    ASSUME NEW S, NEW s \in Seq(S), s # <<>>, Len(s) # 1
    PROVE  /\ Len(s) \in Nat /\ Len(s) > 1 /\ s[2] \in S
           /\ Tail(s) \in Seq(S) /\ Len(Tail(s)) = Len(s) - 1 /\ Tail(s) # <<>>
           /\ \A k \in 1 .. Len(Tail(s)) : Tail(s)[k] = s[k + 1]
           /\ s = <<s[1]>> \o Tail(s)
<1>1. Len(s) \in Nat /\ Len(s) > 1 /\ DOMAIN s = 1 .. Len(s)
  <2>1. Len(s) \in Nat /\ DOMAIN s = 1 .. Len(s)
    OBVIOUS
  <2>2. Len(s) # 0
    OBVIOUS
  <2>. QED
    BY <2>1, <2>2
<1>2. s[1] \in S /\ s[2] \in S
  BY <1>1
<1>3. Tail(s) \in Seq(S) /\ Len(Tail(s)) = Len(s) - 1 /\ Tail(s) # <<>>
  <2>1. Tail(s) \in Seq(S) /\ Len(Tail(s)) = Len(s) - 1
    OBVIOUS
  <2>2. Len(Tail(s)) # 0
    BY <1>1, <2>1
  <2>. QED
    BY <2>1, <2>2
<1>4. \A k \in 1 .. Len(Tail(s)) : Tail(s)[k] = s[k + 1]
  BY <1>1, <1>3
<1>5. s = <<s[1]>> \o Tail(s)
  <2>. DEFINE t == <<s[1]>> \o Tail(s)
  <2>1. /\ t \in Seq(S) /\ Len(t) = Len(s) /\ t[1] = s[1]
        /\ \A k \in 1 .. Len(Tail(s)) : t[k + 1] = Tail(s)[k]
    BY <1>1, <1>2, <1>3, PrependFact
  <2>2. DOMAIN t = 1 .. Len(s)
    BY <1>1, <2>1
  <2>. HIDE DEF t
  <2>3. ASSUME NEW k \in 1 .. Len(s)
        PROVE  t[k] = s[k]
    <3>1. CASE k = 1
      BY <2>1, <3>1
    <3>2. CASE k # 1
      <4>1. k - 1 \in 1 .. Len(Tail(s)) /\ (k - 1) + 1 = k
        BY <1>1, <1>3, <3>2
      <4>2. t[k] = Tail(s)[k - 1] /\ Tail(s)[k - 1] = s[k]
        BY <1>4, <2>1, <4>1
      <4>. QED
        BY <4>2
    <3>. QED
      BY <3>1, <3>2
  <2>4. s = t
    BY <1>1, <2>1, <2>2, <2>3
  <2>. QED
    BY <2>4 DEF t
<1>. QED
  BY <1>1, <1>2, <1>3, <1>4, <1>5

\* The ways are what traverse makes: from e on to the ends.
LEMMA WaysTraversed ==
    ASSUME NEW e \in DOMAIN events_
    PROVE  Ways(e) = Traversed([f \in DOMAIN events_ |-> Ways(f)], e)
<1>. DEFINE next == {f \in DOMAIN events_ : Adjacent(e, f)}
            T == IF next = {} THEN {<<e>>} ELSE UNION {{<<e>> \o chain : chain \in Ways(f)} : f \in next}
<1>1. Traversed([f \in DOMAIN events_ |-> Ways(f)], e) = T
  BY DEF Traversed
<1>2. ASSUME NEW p \in Ways(e)
      PROVE  p \in T
  <2>1. /\ p \in Seq(DOMAIN events_) /\ p # <<>> /\ p[1] = e
        /\ \A k \in 1 .. (Len(p) - 1) : Adjacent(p[k], p[k + 1])
        /\ \A f \in DOMAIN events_ : ~Adjacent(p[Len(p)], f)
    BY DEF Ways
  <2>2. CASE Len(p) = 1
    <3>1. p = <<e>> /\ next = {}
      BY <2>1, <2>2
    <3>. QED
      BY <3>1
  <2>3. CASE Len(p) # 1
    <3>. DEFINE c == Tail(p)
    <3>1. /\ Len(p) \in Nat /\ Len(p) > 1 /\ p[2] \in DOMAIN events_
          /\ c \in Seq(DOMAIN events_) /\ Len(c) = Len(p) - 1 /\ c # <<>>
          /\ \A k \in 1 .. Len(c) : c[k] = p[k + 1]
          /\ p = <<p[1]>> \o c
      BY <2>1, <2>3, TailFact
    <3>2. p = <<e>> \o c
      BY <2>1, <3>1
    <3>. HIDE DEF c
    <3>3. c \in Ways(p[2])
      <4>1. c[1] = p[2] /\ c[Len(c)] = p[Len(p)]
        BY <3>1
      <4>2. \A k \in 1 .. (Len(c) - 1) : Adjacent(c[k], c[k + 1])
        BY <2>1, <3>1
      <4>. QED
        BY <2>1, <3>1, <4>1, <4>2 DEF Ways
    <3>4. p[2] \in next
      <4>1. 1 \in 1 .. (Len(p) - 1) /\ 1 + 1 = 2
        BY <3>1
      <4>2. Adjacent(p[1], p[2])
        BY <2>1, <4>1
      <4>. QED
        BY <2>1, <3>1, <4>2
    <3>. HIDE DEF next
    <3>5. p \in {<<e>> \o chain : chain \in Ways(p[2])}
      BY <3>2, <3>3
    <3>6. p \in UNION {{<<e>> \o chain : chain \in Ways(f)} : f \in next}
      BY <3>4, <3>5
    <3>. QED
      BY <3>4, <3>6
  <2>. QED
    BY <2>2, <2>3
<1>3. ASSUME NEW p \in T
      PROVE  p \in Ways(e)
  <2>1. CASE next = {}
    <3>1. p = <<e>> /\ <<e>> \in Seq(DOMAIN events_) /\ Len(<<e>>) = 1 /\ <<e>>[1] = e /\ <<e>> # <<>>
      BY <1>3, <2>1
    <3>2. \A k \in 1 .. (Len(<<e>>) - 1) : FALSE
      BY <3>1
    <3>. QED
      BY <2>1, <3>1, <3>2 DEF Ways
  <2>2. CASE next # {}
    <3>0. PICK f \in next : \E c \in Ways(f) : p = <<e>> \o c
      BY <1>3, <2>2
    <3>1. PICK c \in Ways(f) : p = <<e>> \o c
      BY <3>0
    <3>2. /\ c \in Seq(DOMAIN events_) /\ c # <<>> /\ c[1] = f
          /\ \A k \in 1 .. (Len(c) - 1) : Adjacent(c[k], c[k + 1])
          /\ \A g \in DOMAIN events_ : ~Adjacent(c[Len(c)], g)
      BY DEF Ways
    <3>3. /\ p \in Seq(DOMAIN events_) /\ p # <<>>
          /\ Len(p) = Len(c) + 1 /\ Len(c) \in Nat \ {0}
          /\ p[1] = e /\ p[2] = c[1]
          /\ \A k \in 1 .. Len(c) : p[k + 1] = c[k]
      BY <3>1, <3>2, PrependFact
    <3>4. ASSUME NEW k \in 1 .. (Len(p) - 1)
          PROVE  Adjacent(p[k], p[k + 1])
      <4>1. CASE k = 1
        BY <3>1, <3>2, <3>3, <4>1
      <4>2. CASE k # 1
        <5>1. k - 1 \in 1 .. (Len(c) - 1) /\ k - 1 \in 1 .. Len(c) /\ k \in 1 .. Len(c) /\ (k - 1) + 1 = k
          BY <3>3, <4>2
        <5>2. p[k] = c[k - 1] /\ p[k + 1] = c[k] /\ Adjacent(c[k - 1], c[k])
          BY <3>2, <3>3, <5>1
        <5>. QED
          BY <5>2
      <4>. QED
        BY <4>1, <4>2
    <3>5. p[Len(p)] = c[Len(c)]
      BY <3>3
    <3>. QED
      BY <3>2, <3>3, <3>4, <3>5 DEF Ways
  <2>. QED
    BY <2>1, <2>2
<1>. QED
  BY <1>1, <1>2, <1>3

\* The definition of the chains is a sound one: they are what they say of themselves.
LEMMA ChainsRecursion ==
    ASSUME NEW g, g = [e \in DOMAIN events_ |-> Traversed(g, e)]
    PROVE  Chains = [e \in DOMAIN events_ |-> Traversed(Chains, e)]
<1>1. Chains = CHOOSE chains : chains = [e \in DOMAIN events_ |-> Traversed(chains, e)]
  BY DEF Chains, Traversed
<1>. QED
  BY <1>1

\* No way goes on for ever, neither on nor back: the events get further down.
LEMMA NoEndlessWay ==
    ASSUME StructInv, stage \in EventStages, NEW bad \in SUBSET DOMAIN events_,
           \/ \A e \in bad : \E f \in bad : Adjacent(e, f)
           \/ \A f \in bad : \E e \in bad : Adjacent(e, f)
    PROVE  bad = {}
<1>. SUFFICES ASSUME bad # {} PROVE FALSE
  OBVIOUS
<1>0. Len(ops) \in Nat /\ \A e \in bad : Rank(e) \in 1 .. Len(ops)
  BY EventsGoDown DEF StructInv, TypedInv, Typed
<1>1. CASE \A e \in bad : \E f \in bad : Adjacent(e, f)
  <2>. DEFINE T == {Len(ops) - Rank(e) : e \in bad}
  <2>1. T \in SUBSET Nat /\ T # {}
    BY <1>0
  <2>2. PICK x \in T : \A y \in T : x <= y
    <3>. HIDE DEF T
    <3>. QED
      BY <2>1, LeastNumber
  <2>3. PICK e \in bad : x = Len(ops) - Rank(e)
    OBVIOUS
  <2>4. PICK f \in bad : Adjacent(e, f)
    BY <1>1
  <2>5. Rank(e) < Rank(f) /\ x <= Len(ops) - Rank(f)
    BY <2>2, <2>4, EventsGoDown
  <2>. QED
    BY <1>0, <2>3, <2>5
<1>2. CASE \A f \in bad : \E e \in bad : Adjacent(e, f)
  <2>. DEFINE T == {Rank(e) : e \in bad}
  <2>1. T \in SUBSET Nat /\ T # {}
    BY <1>0
  <2>2. PICK x \in T : \A y \in T : x <= y
    <3>. HIDE DEF T
    <3>. QED
      BY <2>1, LeastNumber
  <2>3. PICK f \in bad : x = Rank(f)
    OBVIOUS
  <2>4. PICK e \in bad : Adjacent(e, f)
    BY <1>2
  <2>5. Rank(e) < Rank(f) /\ x <= Rank(e)
    BY <2>2, <2>4, EventsGoDown
  <2>. QED
    BY <1>0, <2>3, <2>5
<1>. QED
  BY <1>1, <1>2

\* What traverse finds are the ways: an event for which it would not be so would have
\* another one next.
LEMMA ChainsAreWays ==
    ASSUME StructInv, stage \in EventStages
    PROVE  \A e \in DOMAIN events_ : Chains[e] = Ways(e)
<1>. DEFINE g == [e \in DOMAIN events_ |-> Ways(e)]
            bad == {e \in DOMAIN events_ : Chains[e] # Ways(e)}
<1>1. g = [e \in DOMAIN events_ |-> Traversed(g, e)]
  BY WaysTraversed
<1>2. Chains = [e \in DOMAIN events_ |-> Traversed(Chains, e)]
  <2>. HIDE DEF g
  <2>. QED
    BY <1>1, ChainsRecursion
<1>3. ASSUME NEW e \in DOMAIN events_, \A f \in DOMAIN events_ : Adjacent(e, f) => Chains[f] = Ways(f)
      PROVE  Chains[e] = Ways(e)
  <2>1. \A f \in DOMAIN events_ : Adjacent(e, f) => Chains[f] = g[f]
    BY <1>3
  <2>. HIDE DEF g
  <2>2. Traversed(Chains, e) = Traversed(g, e)
    BY <2>1 DEF Traversed
  <2>3. Chains[e] = Traversed(Chains, e) /\ g[e] = Traversed(g, e)
    BY <1>1, <1>2
  <2>. QED
    BY <2>2, <2>3 DEF g
<1>4. \A e \in bad : \E f \in bad : Adjacent(e, f)
  BY <1>3
<1>5. bad = {}
  <2>. HIDE DEF bad
  <2>1. bad \in SUBSET DOMAIN events_
    BY DEF bad
  <2>. QED
    BY <1>4, <2>1, NoEndlessWay
<1>. QED
  BY <1>5

\* From every event there is a way to an end.
LEMMA WaysOn ==
    ASSUME StructInv, stage \in EventStages
    PROVE  \A e \in DOMAIN events_ : Ways(e) # {}
<1>. DEFINE g == [e \in DOMAIN events_ |-> Ways(e)]
            bad == {e \in DOMAIN events_ : Ways(e) = {}}
<1>1. ASSUME NEW e \in DOMAIN events_, \A f \in DOMAIN events_ : Adjacent(e, f) => Ways(f) # {}
      PROVE  Ways(e) # {}
  <2>1. Ways(e) = Traversed(g, e)
    BY WaysTraversed
  <2>2. CASE \A f \in DOMAIN events_ : ~Adjacent(e, f)
    <3>1. {f \in DOMAIN events_ : Adjacent(e, f)} = {}
      BY <2>2
    <3>. QED
      BY <2>1, <3>1 DEF Traversed
  <2>3. CASE \E f \in DOMAIN events_ : Adjacent(e, f)
    <3>1. PICK f \in DOMAIN events_ : Adjacent(e, f)
      BY <2>3
    <3>2. PICK c \in Ways(f) : TRUE
      BY <1>1, <3>1
    <3>3. c \in g[f]
      BY <3>2
    <3>. HIDE DEF g
    <3>4. <<e>> \o c \in Traversed(g, e)
      <4>. DEFINE next == {h \in DOMAIN events_ : Adjacent(e, h)}
      <4>1. f \in next /\ next # {}
        BY <3>1
      <4>2. Traversed(g, e) = IF next = {} THEN {<<e>>}
                              ELSE UNION {{<<e>> \o chain : chain \in g[h]} : h \in next}
        BY DEF Traversed
      <4>. HIDE DEF next
      <4>3. <<e>> \o c \in {<<e>> \o chain : chain \in g[f]}
        BY <3>3
      <4>. QED
        BY <4>1, <4>2, <4>3
    <3>. QED
      BY <2>1, <3>4
  <2>. QED
    BY <2>2, <2>3
<1>2. \A e \in bad : \E f \in bad : Adjacent(e, f)
  BY <1>1
<1>3. bad = {}
  <2>. HIDE DEF bad
  <2>1. bad \in SUBSET DOMAIN events_
    BY DEF bad
  <2>. QED
    BY <1>2, <2>1, NoEndlessWay
<1>. QED
  BY <1>3

\* The first i elements of p, and then those of c.
Spliced(r, p, i, c) ==
    /\ r # <<>> /\ i \in Nat \ {0} /\ Len(c) \in Nat \ {0} /\ Len(r) = i + Len(c)
    /\ \A k \in 1 .. i : r[k] = p[k]
    /\ \A k \in 1 .. Len(c) : r[i + k] = c[k]

\* There is such a sequence.
LEMMA SpliceFact ==
    ASSUME NEW S, NEW p \in Seq(S), NEW i \in DOMAIN p, NEW c \in Seq(S), c # <<>>
    PROVE  \E r \in Seq(S) : Spliced(r, p, i, c)
<1>. DEFINE s == SubSeq(p, 1, i)
<1>1. /\ i \in 1 .. Len(p) /\ Len(p) \in Nat /\ Len(c) \in Nat /\ DOMAIN c = 1 .. Len(c)
  OBVIOUS
<1>2. Len(c) # 0
  OBVIOUS
<1>3. s \in Seq(S) /\ Len(s) = i /\ \A k \in 1 .. i : s[k] = p[k]
  BY <1>1
<1>. HIDE DEF s
<1>4. /\ s \o c \in Seq(S) /\ DOMAIN (s \o c) = 1 .. (i + Len(c))
      /\ \A k \in DOMAIN s : (s \o c)[k] = s[k]
      /\ \A k \in DOMAIN c : (s \o c)[i + k] = c[k]
  <2>1. /\ s \o c \in Seq(S) /\ DOMAIN (s \o c) = 1 .. (Len(s) + Len(c))
        /\ \A k \in DOMAIN s : (s \o c)[k] = s[k]
        /\ \A k \in DOMAIN c : (s \o c)[Len(s) + k] = c[k]
    <3>1. s \in Seq(S) /\ c \in Seq(S)
      BY <1>3
    <3>. QED
      BY <3>1, ConcatPlaces
  <2>. QED
    BY <1>3, <2>1
<1>5. DOMAIN s = 1 .. i
  BY <1>3
<1>6. Len(s \o c) = i + Len(c) /\ s \o c # <<>>
  <2>1. DOMAIN (s \o c) = 1 .. Len(s \o c) /\ Len(s \o c) \in Nat
    BY <1>4
  <2>2. Len(s \o c) = i + Len(c)
    BY <1>1, <1>4, <2>1
  <2>3. Len(s \o c) > 0
    BY <1>1, <1>2, <2>2
  <2>. QED
    BY <2>2, <2>3
<1>7. i \in Nat \ {0} /\ Len(c) \in Nat \ {0}
  BY <1>1, <1>2
<1>8. /\ \A k \in 1 .. i : (s \o c)[k] = p[k]
      /\ \A k \in 1 .. Len(c) : (s \o c)[i + k] = c[k]
  BY <1>1, <1>3, <1>4, <1>5
<1>. QED
  BY <1>4, <1>6, <1>7, <1>8 DEF Spliced

\* Every event is on a way that begins with a head.
LEMMA OnWays ==
    ASSUME StructInv, stage \in EventStages
    PROVE  \A e \in DOMAIN events_ : \E h \in Heads : \E p \in Ways(h) : e \in Elements(p)
<1>. DEFINE Reached(e) == \E h \in Heads : \E p \in Ways(h) : e \in Elements(p)
            bad == {e \in DOMAIN events_ : ~Reached(e)}
<1>1. ASSUME NEW e \in DOMAIN events_, e \in Heads
      PROVE  Reached(e)
  <2>1. PICK p \in Ways(e) : TRUE
    BY WaysOn
  <2>2. p # <<>> /\ p \in Seq(DOMAIN events_) /\ p[1] = e
    BY DEF Ways
  <2>3. 1 \in DOMAIN p
    BY <2>2
  <2>4. e \in Elements(p)
    BY <2>2, <2>3 DEF Elements
  <2>. QED
    BY <1>1, <2>4
<1>2. ASSUME NEW f \in DOMAIN events_, NEW e \in DOMAIN events_, Adjacent(f, e), Reached(f)
      PROVE  Reached(e)
  <2>1. PICK h \in Heads : \E p \in Ways(h) : f \in Elements(p)
    BY <1>2
  <2>2. PICK p \in Ways(h) : f \in Elements(p)
    BY <2>1
  <2>3. /\ p \in Seq(DOMAIN events_) /\ p # <<>> /\ p[1] = h
        /\ \A k \in 1 .. (Len(p) - 1) : Adjacent(p[k], p[k + 1])
    BY DEF Ways
  <2>4. PICK i \in DOMAIN p : p[i] = f
    BY <2>2 DEF Elements
  <2>5. PICK c \in Ways(e) : TRUE
    BY WaysOn
  <2>6. /\ c \in Seq(DOMAIN events_) /\ c # <<>> /\ c[1] = e
        /\ \A k \in 1 .. (Len(c) - 1) : Adjacent(c[k], c[k + 1])
        /\ \A g \in DOMAIN events_ : ~Adjacent(c[Len(c)], g)
    BY DEF Ways
  <2>7a. PICK r \in Seq(DOMAIN events_) : Spliced(r, p, i, c)
    BY <2>3, <2>6, SpliceFact
  <2>7. /\ r # <<>> /\ i \in Nat \ {0} /\ Len(c) \in Nat \ {0} /\ Len(r) = i + Len(c)
        /\ \A k \in 1 .. i : r[k] = p[k]
        /\ \A k \in 1 .. Len(c) : r[i + k] = c[k]
    BY <2>7a DEF Spliced
  <2>8. i \in 1 .. Len(p) /\ Len(p) \in Nat
    BY <2>3
  <2>9. ASSUME NEW k \in 1 .. (Len(r) - 1)
        PROVE  Adjacent(r[k], r[k + 1])
    <3>1. CASE k < i
      <4>1. k \in 1 .. i /\ k + 1 \in 1 .. i /\ k \in 1 .. (Len(p) - 1)
        BY <2>7, <2>8, <3>1
      <4>. QED
        BY <2>3, <2>7, <4>1
    <3>2. CASE k = i
      <4>1. k \in 1 .. i /\ 1 \in 1 .. Len(c)
        BY <2>7, <3>2
      <4>2. r[k] = f /\ r[k + 1] = e
        BY <2>4, <2>6, <2>7, <3>2, <4>1
      <4>. QED
        BY <1>2, <4>2
    <3>3. CASE k > i
      <4>1. k - i \in 1 .. (Len(c) - 1) /\ k = i + (k - i)
        BY <2>7, <3>3
      <4>2. PICK j \in 1 .. (Len(c) - 1) : k = i + j
        BY <4>1
      <4>3. j \in 1 .. Len(c) /\ j + 1 \in 1 .. Len(c) /\ k + 1 = i + (j + 1)
        <5>1. i \in Nat /\ Len(c) \in Nat
          BY <2>7
        <5>. QED
          BY <4>2, <5>1
      <4>4. r[k] = c[j] /\ r[k + 1] = c[j + 1]
        <5>1. r[i + j] = c[j] /\ r[i + (j + 1)] = c[j + 1]
          BY <2>7, <4>3
        <5>. QED
          BY <4>2, <4>3, <5>1
      <4>. QED
        BY <2>6, <4>4
    <3>. QED
      BY <2>7, <3>1, <3>2, <3>3
  <2>10. r[1] = h /\ r[Len(r)] = c[Len(c)]
    <3>1. 1 \in 1 .. i /\ Len(c) \in 1 .. Len(c)
      BY <2>7
    <3>2. r[1] = p[1] /\ r[i + Len(c)] = c[Len(c)]
      BY <2>7, <3>1
    <3>. QED
      BY <2>3, <2>7, <3>2
  <2>11. r \in Ways(h)
    BY <2>6, <2>7, <2>9, <2>10 DEF Ways
  <2>12. e \in Elements(r)
    <3>1. 1 \in 1 .. Len(c) /\ i + 1 \in DOMAIN r
      BY <2>7
    <3>2. r[i + 1] = e
      BY <2>6, <2>7, <3>1
    <3>. QED
      BY <3>1, <3>2 DEF Elements
  <2>. QED
    BY <2>11, <2>12
<1>3. \A e \in bad : \E f \in bad : Adjacent(f, e)
  <2>1. SUFFICES ASSUME NEW e \in bad
                 PROVE  \E f \in bad : Adjacent(f, e)
    OBVIOUS
  <2>2. e \notin Heads
    BY <1>1
  <2>3. PICK f \in DOMAIN events_ : Adjacent(f, e)
    BY <2>2 DEF Heads
  <2>4. ~Reached(f)
    BY <1>2, <2>3
  <2>. QED
    BY <2>3, <2>4
<1>4. bad = {}
  <2>. HIDE DEF bad
  <2>1. bad \in SUBSET DOMAIN events_
    BY DEF bad
  <2>. QED
    BY <1>3, <2>1, NoEndlessWay
<1>. QED
  BY <1>4

\* What traverse has found stays.
PipesMade == stage \in PortStages => pipelines_ = UNION {Chains[e] : e \in Heads}

\* It is found before the operators are initialised, and the events do not change then.
LEMMA PipesKeep ==
    ASSUME PipesMade, [Next]_vars
    PROVE  PipesMade'
<1>. SUFFICES ASSUME stage' \in PortStages
              PROVE  PipesMade'
  BY DEF PipesMade
<1>1. (stage \in PortStages \/ (stage = "events" /\ pipelines_' = UNION {Chains[e] : e \in Heads}))
      /\ UNCHANGED events_ /\ (stage \in PortStages => UNCHANGED pipelines_)
  <2>1. CASE UNCHANGED vars
    BY <2>1 DEF vars, eventVars
  <2>. SUFFICES ASSUME Step
       PROVE  (stage \in PortStages \/ (stage = "events" /\ pipelines_' = UNION {Chains[e] : e \in Heads}))
              /\ UNCHANGED events_ /\ (stage \in PortStages => UNCHANGED pipelines_)
    BY <2>1 DEF Next
  <2>2. CASE InitEventManager
    BY <2>2 DEF InitEventManager, PortStages
  <2>3. CASE InitOperator \/ Ready
    BY <2>3 DEF InitOperator, Ready, PortStages, Fail, eventVars
  <2>4. CASE Check \/ Checked \/ Sort \/ Sorted
    BY <2>4 DEF Check, Checked, Sort, Sorted, PortStages, Fail
  <2>5. CASE Parse \/ Link \/ SetReference
    BY <2>5 DEF Parse, Link, SetReference, PortStages, Fail
  <2>6. CASE Register \/ StartEvents
    BY <2>6 DEF Register, StartEvents, PortStages, Fail
  <2>7. CASE InitEvents
    BY <2>7 DEF InitEvents, PortStages
  <2>. QED
    BY <2>2, <2>3, <2>4, <2>5, <2>6, <2>7 DEF Step
<1>2. Chains' = Chains /\ Heads' = Heads
  BY <1>1 DEF Chains, Heads, Adjacent
<1>. QED
  BY <1>1, <1>2 DEF PipesMade

\* What a way is, in the words of the property.
LEMMA WaysAreComplete ==
    ASSUME NEW h \in Heads, NEW p \in Ways(h)
    PROVE  /\ \A k \in 1 .. (Len(p) - 1) : events_[p[k]].to = events_[p[k + 1]].from
           /\ \A e \in DOMAIN events_ : events_[e].to = events_[p[1]].from => events_[e].from = events_[p[1]].from
           /\ \A e \in DOMAIN events_ : events_[e].from = events_[p[Len(p)]].to => e = p[Len(p)]
           /\ Elements(p) \subseteq DOMAIN events_
<1>1. /\ p \in Seq(DOMAIN events_) /\ p # <<>> /\ p[1] = h
      /\ \A k \in 1 .. (Len(p) - 1) : Adjacent(p[k], p[k + 1])
      /\ \A f \in DOMAIN events_ : ~Adjacent(p[Len(p)], f)
  BY DEF Ways
<1>2. Elements(p) \subseteq DOMAIN events_
  BY <1>1 DEF Elements
<1>3. \A k \in 1 .. (Len(p) - 1) : events_[p[k]].to = events_[p[k + 1]].from
  BY <1>1 DEF Adjacent
<1>4. \A e \in DOMAIN events_ : events_[e].from = events_[p[Len(p)]].to => e = p[Len(p)]
  BY <1>1 DEF Adjacent
<1>5. \A e \in DOMAIN events_ : events_[e].to = events_[p[1]].from => events_[e].from = events_[p[1]].from
  BY <1>1 DEF Heads, Adjacent
<1>. QED
  BY <1>2, <1>3, <1>4, <1>5

\* The pipelines of every configuration are the ways through the graph of its events:
\* traverse breaks none off, begins none in the middle, and leaves no event out.
THEOREM PipelinesAreComplete == Spec => []PipelinesComplete
<1>1. Init => PipesMade
  BY DEF Init, PipesMade, PortStages
<1>2. PipesMade /\ [Next]_vars => PipesMade'
  BY PipesKeep
<1>3. StructInv /\ PipesMade => PipelinesComplete
  <2>. SUFFICES ASSUME StructInv, PipesMade, stage \in {"operators", "ready"}
                PROVE  PipelinesComplete
    BY DEF PipelinesComplete
  <2>1. stage \in EventStages /\ stage \in PortStages
    BY DEF EventStages, PortStages
  <2>2. pipelines_ = UNION {Ways(e) : e \in Heads}
    <3>1. \A e \in Heads : Chains[e] = Ways(e)
      BY <2>1, ChainsAreWays DEF Heads
    <3>. QED
      BY <2>1, <3>1 DEF PipesMade
  <2>3. ASSUME NEW p \in pipelines_
        PROVE  /\ \A k \in 1 .. (Len(p) - 1) : events_[p[k]].to = events_[p[k + 1]].from
               /\ {e \in DOMAIN events_ : /\ events_[e].to = events_[p[1]].from
                                          /\ events_[e].from # events_[p[1]].from} = {}
               /\ {e \in DOMAIN events_ : events_[e].from = events_[p[Len(p)]].to} \subseteq {p[Len(p)]}
               /\ Elements(p) \subseteq DOMAIN events_
    <3>1. PICK h \in Heads : p \in Ways(h)
      BY <2>2
    <3>. QED
      BY <3>1, WaysAreComplete
  <2>4. DOMAIN events_ \subseteq UNION {Elements(p) : p \in pipelines_}
    <3>1. ASSUME NEW e \in DOMAIN events_
          PROVE  \E p \in pipelines_ : e \in Elements(p)
      <4>1. PICK h \in Heads : \E p \in Ways(h) : e \in Elements(p)
        BY <2>1, OnWays
      <4>. QED
        BY <2>2, <4>1
    <3>. QED
      BY <3>1
  <2>5. DOMAIN events_ = UNION {Elements(p) : p \in pipelines_}
    BY <2>3, <2>4
  <2>. QED
    BY <2>3, <2>5 DEF PipelinesComplete
<1>. QED
  BY <1>1, <1>2, <1>3, DagInvariance, PTL DEF Spec

-----------------------------------------------------------------------------
(* What the file says of the operators that are on.                        *)

\* The turns of the file's operators that have been.
Dealt(k) == stage = "check" => <<k>> \notin todo

\* Each operator is one of the file's that is on, and no two are the same.
AreFrom(f, operators, config) ==
    /\ f \in [DOMAIN operators -> DOMAIN config]
    /\ \A i, j \in DOMAIN operators : f[i] = f[j] => i = j
    /\ \A i \in DOMAIN operators :
         Enabled(config[f[i]]) /\ Static(operators[i], config[f[i]])
\* They are all there, of those that had their turn.
HasAll(f) ==
    stage # "failed" =>
        \A k \in DOMAIN dag_config : Dealt(k) /\ Enabled(dag_config[k]) => \E i \in DOMAIN ops : f[i] = k
FromFile ==
    \E f : /\ AreFrom(f, ops, dag_config) /\ HasAll(f)
           /\ \A i \in DOMAIN ops :
                /\ Dealt(f[i])
                /\ stage \in {"check", "sort", "parse"} => ops[i] = dag_config[f[i]]

\* How the operators change: one joins them, they are put in order, or something is
\* found out about them.
LEMMA OpsSteps ==
    ASSUME TypedInv, [Next]_vars
    PROVE  /\ dag_config' = dag_config
           /\ \/ Check /\ stage' # "failed"
              \/ Sorted /\ stage' # "failed"
              \/ /\ SameFile
                 /\ stage' \in {"check", "sort", "parse"} => ops' = ops /\ stage \in {"check", "sort", "parse"}
                 /\ stage' = "check" => stage = "check" /\ todo' = todo
                 /\ stage' \notin {"check", "sort", "failed"} => stage \notin {"check", "sort", "failed"}
<1>0. ops \in Seq(OperatorInfos) /\ Typed
  BY DEF TypedInv, Typed
<1>1. ops' = ops => SameFile
  BY DEF SameFile, Static
<1>2. CASE UNCHANGED vars
  BY <1>1, <1>2 DEF vars
<1>3. CASE Fail /\ dag_config' = dag_config
  BY <1>1, <1>3 DEF Fail
<1>. SUFFICES ASSUME Step, ~Fail, ~Check, ~Sorted
              PROVE  /\ SameFile
                     /\ stage' \in {"check", "sort", "parse"} => ops' = ops /\ stage \in {"check", "sort", "parse"}
                     /\ stage' # "check"
                     /\ stage' \notin {"check", "sort", "failed"} => stage \notin {"check", "sort", "failed"}
  <2>1. CASE Fail \/ UNCHANGED vars
    BY <1>2, <1>3, <2>1 DEF Next, vars
  <2>2. CASE Step /\ dag_config' = dag_config /\ ~Fail
    <3>1. stage' # "failed"
      BY <2>2, FailsOnly
    <3>2. CASE Check \/ Sorted
      BY <2>2, <3>1, <3>2
    <3>. QED
      BY <2>2, <3>1, <3>2
  <2>. QED
    BY <2>1, <2>2 DEF Next
<1>4. stage' # "failed"
  BY FailsOnly
<1>5. CASE Checked \/ Sort
  BY <1>1, <1>5 DEF Checked, Sort
<1>6. CASE Parse
  BY <1>0, <1>4, <1>6, ParseEffect
<1>7. CASE Link
  <2>1. PICK w \in Outputs, v \in Workers, d \in Downstreams :
             Linked(w, v, d) /\ stage = "link" /\ stage' = stage
    BY <1>0, <1>4, <1>7, LinkEffect
  <2>. QED
    BY <2>1 DEF Linked
<1>8. CASE SetReference
  BY <1>0, <1>8, ReferenceEffect
<1>9. CASE Register \/ StartEvents
  BY <1>1, <1>9 DEF Register, StartEvents
<1>10. CASE InitEvents \/ InitEventManager
  BY <1>1, <1>10 DEF InitEvents, InitEventManager
<1>11. CASE InitOperator \/ Ready
  BY <1>1, <1>11 DEF InitOperator, Ready
<1>. QED
  BY <1>5, <1>6, <1>7, <1>8, <1>9, <1>10, <1>11 DEF Step

\* A sequence of as many different indices as there are has them all.
LEMMA AllPlaces ==
    ASSUME NEW n \in Nat, NEW s \in [1 .. n -> 1 .. n],
           \A j, k \in 1 .. n : s[j] = s[k] => j = k
    PROVE  \A i \in 1 .. n : \E k \in 1 .. n : s[k] = i
<1>1. s \in Injection(1 .. n, 1 .. n)
  BY DEF Injection, IsInjective
<1>2. IsFiniteSet(1 .. n)
  BY FS_Interval
<1>3. s \in Surjection(1 .. n, 1 .. n)
  BY <1>1, <1>2, FS_Injection, Zenon
<1>. QED
  BY <1>3 DEF Surjection

\* The loop over the file's operators ends with its last turn.
LEMMA CheckEnds ==
    ASSUME [Next]_vars, stage = "check", stage' \notin {"check", "failed"}
    PROVE  todo = {}
<1>1. ~Fail /\ ~UNCHANGED vars /\ ~Check
  BY DEF Fail, vars, Check
<1>2. Step
  BY <1>1 DEF Next
<1>3. ~Sort /\ ~Sorted /\ ~Parse /\ ~Link /\ ~SetReference /\ ~Register
  BY DEF Sort, Sorted, Parse, Link, SetReference, Register
<1>4. ~StartEvents /\ ~InitEvents /\ ~InitEventManager /\ ~InitOperator /\ ~Ready
  BY DEF StartEvents, InitEvents, InitEventManager, InitOperator, Ready
<1>5. Checked
  BY <1>1, <1>2, <1>3, <1>4 DEF Step
<1>. QED
  BY <1>5 DEF Checked

\* Nothing comes after a failure.
LEMMA FailedStays ==
    ASSUME [Next]_vars, stage = "failed"
    PROVE  stage' = "failed"
<1>1. ~Check /\ ~Checked /\ ~Sort /\ ~Sorted /\ ~Parse /\ ~Link /\ ~SetReference /\ ~Register
  BY DEF Check, Checked, Sort, Sorted, Parse, Link, SetReference, Register
<1>2. ~StartEvents /\ ~InitEvents /\ ~InitEventManager /\ ~InitOperator /\ ~Ready
  BY DEF StartEvents, InitEvents, InitEventManager, InitOperator, Ready
<1>. QED
  BY <1>1, <1>2 DEF Next, Step, vars

\* No step takes an operator from anywhere else, or loses one.
LEMMA FromFileKeeps ==
    ASSUME TypedInv, FromFile, [Next]_vars
    PROVE  FromFile'
<1>0. Typed /\ ops \in Seq(OperatorInfos) /\ dag_config' = dag_config
  BY OpsSteps DEF TypedInv, Typed
<1>1. PICK f : /\ AreFrom(f, ops, dag_config) /\ HasAll(f)
               /\ \A i \in DOMAIN ops :
                    /\ Dealt(f[i])
                    /\ stage \in {"check", "sort", "parse"} => ops[i] = dag_config[f[i]]
  BY DEF FromFile
<1>2. /\ f \in [DOMAIN ops -> DOMAIN dag_config]
      /\ \A i, j \in DOMAIN ops : f[i] = f[j] => i = j
      /\ \A i \in DOMAIN ops :
           /\ Enabled(dag_config[f[i]]) /\ Dealt(f[i])
           /\ Static(ops[i], dag_config[f[i]])
           /\ stage \in {"check", "sort", "parse"} => ops[i] = dag_config[f[i]]
  BY <1>1 DEF AreFrom
<1>3. ASSUME stage # "failed", NEW k \in DOMAIN dag_config, Dealt(k), Enabled(dag_config[k])
      PROVE  \E i \in DOMAIN ops : f[i] = k
  BY <1>1, <1>3 DEF HasAll
<1>4. CASE Check /\ stage' # "failed"
  <2>1. PICK k \in DOMAIN dag_config :
             /\ stage = "check" /\ stage' = "check"
             /\ <<k>> \in todo /\ todo' = todo \ {<<k>>}
             /\ dag_config[k] \in OperatorInfos
             /\ ops' = IF Enabled(dag_config[k]) THEN Append(ops, dag_config[k]) ELSE ops
    BY <1>0, <1>4, CheckEffect
  <2>2. \A j : Dealt(j)' <=> (Dealt(j) \/ j = k)
    <3>1. \A j : <<j>> = <<k>> <=> j = k
      OBVIOUS
    <3>. QED
      BY <2>1, <3>1 DEF Dealt
  <2>3. CASE ~Enabled(dag_config[k])
    <3>1. ops' = ops
      BY <2>1, <2>3
    <3>2. HasAll(f)'
      BY <1>0, <1>3, <2>1, <2>2, <2>3, <3>1 DEF HasAll
    <3>. QED
      BY <1>0, <1>1, <2>1, <2>2, <3>1, <3>2 DEF FromFile
  <2>4. CASE Enabled(dag_config[k])
    <3>0. PICK n, g : n = Len(ops) + 1 /\ g = [i \in DOMAIN ops' |-> IF i = n THEN k ELSE f[i]]
      OBVIOUS
    <3>1. /\ DOMAIN ops' = DOMAIN ops \cup {n} /\ n \notin DOMAIN ops
          /\ \A i \in DOMAIN ops : ops'[i] = ops[i]
          /\ ops'[n] = dag_config[k]
      <4>1. ops' = Append(ops, dag_config[k])
        BY <2>1, <2>4
      <4>. QED
        BY <1>0, <2>1, <3>0, <4>1, AppendFact
    <3>2. g[n] = k /\ \A i \in DOMAIN ops : g[i] = f[i]
      BY <3>0, <3>1
    <3>3. g \in [DOMAIN ops' -> DOMAIN dag_config]
      BY <1>2, <3>0, <3>1
    <3>4. \A i \in DOMAIN ops : f[i] # k
      BY <1>2, <2>1 DEF Dealt
    <3>5. \A i, j \in DOMAIN ops' : g[i] = g[j] => i = j
      BY <1>2, <3>1, <3>2, <3>4
    <3>6. \A i \in DOMAIN ops' :
            /\ Enabled(dag_config[g[i]]) /\ Dealt(g[i])'
            /\ Static(ops'[i], dag_config[g[i]])
            /\ ops'[i] = dag_config[g[i]]
      <4>1. ASSUME NEW i \in DOMAIN ops
            PROVE  /\ Enabled(dag_config[g[i]]) /\ Dealt(g[i])'
                   /\ Static(ops'[i], dag_config[g[i]])
                   /\ ops'[i] = dag_config[g[i]]
        <5>1. ops'[i] = ops[i] /\ g[i] = f[i]
          BY <3>1, <3>2
        <5>. QED
          BY <1>2, <2>1, <2>2, <5>1
      <4>2. /\ Enabled(dag_config[g[n]]) /\ Dealt(g[n])'
            /\ Static(ops'[n], dag_config[g[n]])
            /\ ops'[n] = dag_config[g[n]]
        <5>1. Static(dag_config[k], dag_config[k])
          BY DEF Static
        <5>. QED
          BY <2>2, <2>4, <3>1, <3>2, <5>1
      <4>. QED
        BY <3>1, <4>1, <4>2
    <3>7. AreFrom(g, ops', dag_config)
      BY <3>3, <3>5, <3>6 DEF AreFrom
    <3>8. HasAll(g)'
      <4>1. ASSUME NEW j \in DOMAIN dag_config, Dealt(j)', Enabled(dag_config[j])
            PROVE  \E i \in DOMAIN ops' : g[i] = j
        <5>1. CASE j = k
          BY <3>1, <3>2, <5>1
        <5>2. CASE j # k
          <6>1. PICK i \in DOMAIN ops : f[i] = j
            BY <1>3, <2>1, <2>2, <4>1, <5>2
          <6>. QED
            BY <3>1, <3>2, <6>1
        <5>. QED
          BY <5>1, <5>2
      <4>. QED
        BY <1>0, <4>1 DEF HasAll
    <3>. QED
      BY <1>0, <3>6, <3>7, <3>8 DEF FromFile
  <2>. QED
    BY <2>3, <2>4
<1>5. CASE Sorted /\ stage' # "failed"
  <2>1. /\ stage = "sort" /\ stage' = "parse" /\ Len(sorted) = Len(ops)
        /\ ops' = [k \in DOMAIN sorted |-> ops[sorted[k]]]
        /\ DOMAIN ops' = DOMAIN ops
    BY <1>5, SortedEffect
  <2>2. /\ DOMAIN sorted = DOMAIN ops
        /\ \A k \in DOMAIN sorted : sorted[k] \in DOMAIN ops
        /\ \A j, k \in DOMAIN sorted : sorted[j] = sorted[k] => j = k
    BY <2>1, SortedPlaces
  <2>0. PICK g : g = [k \in DOMAIN ops |-> f[sorted[k]]]
    OBVIOUS
  <2>3. /\ g \in [DOMAIN ops' -> DOMAIN dag_config]
        /\ \A i \in DOMAIN ops : g[i] = f[sorted[i]] /\ ops'[i] = ops[sorted[i]]
    BY <1>2, <2>0, <2>1, <2>2
  <2>4. \A i, j \in DOMAIN ops : g[i] = g[j] => i = j
    BY <1>2, <2>2, <2>3
  <2>5. \A i \in DOMAIN ops : /\ Enabled(dag_config[g[i]])
                              /\ Static(ops'[i], dag_config[g[i]])
                              /\ ops'[i] = dag_config[g[i]]
    BY <1>2, <2>1, <2>2, <2>3
  <2>6. AreFrom(g, ops', dag_config)
    BY <2>1, <2>3, <2>4, <2>5 DEF AreFrom
  <2>. QED
    <3>1. \A i \in DOMAIN ops' : Dealt(g[i])' /\ ops'[i] = dag_config[g[i]]
      BY <2>1, <2>5 DEF Dealt
    <3>2. ASSUME NEW k \in DOMAIN dag_config, Enabled(dag_config[k])
          PROVE  \E n \in DOMAIN ops' : g[n] = k
      <4>1. PICK i \in DOMAIN ops : f[i] = k
        BY <1>3, <2>1, <3>2 DEF Dealt
      <4>2. DOMAIN ops = 1 .. Len(ops) /\ Len(ops) \in Nat
        BY <1>0
      <4>3. sorted \in [1 .. Len(ops) -> 1 .. Len(ops)]
        <5>1. sorted \in Seq(Nodes)
          BY DEF TypedInv, IInv, Places
        <5>. QED
          BY <2>2, <4>2, <5>1
      <4>4. \A j, m \in 1 .. Len(ops) : sorted[j] = sorted[m] => j = m
        BY <2>2, <4>2
      <4>5. \A j \in 1 .. Len(ops) : \E m \in 1 .. Len(ops) : sorted[m] = j
        BY <4>2, <4>3, <4>4, AllPlaces
      <4>6. PICK n \in DOMAIN ops : sorted[n] = i
        BY <4>1, <4>2, <4>5
      <4>. QED
        BY <2>1, <2>3, <4>1, <4>6
    <3>3. HasAll(g)'
      BY <1>0, <3>2 DEF HasAll
    <3>. QED
      BY <1>0, <2>6, <3>1, <3>3 DEF FromFile
<1>6. CASE /\ SameFile
           /\ stage' \in {"check", "sort", "parse"} => ops' = ops /\ stage \in {"check", "sort", "parse"}
           /\ stage' = "check" => stage = "check" /\ todo' = todo
  <2>1. \A i \in DOMAIN ops : Static(ops'[i], dag_config[f[i]])
    BY <1>2, <1>6 DEF SameFile, Static
  <2>2. \A i \in DOMAIN ops : Dealt(f[i])'
    BY <1>2, <1>6 DEF Dealt
  <2>3. DOMAIN ops' = DOMAIN ops
    BY <1>6 DEF SameFile
  <2>4. stage' \in {"check", "sort", "parse"} => \A i \in DOMAIN ops : ops'[i] = dag_config[f[i]]
    BY <1>2, <1>6
  <2>5. AreFrom(f, ops', dag_config)
    BY <1>2, <2>1, <2>3 DEF AreFrom
  <2>6. ASSUME stage' # "failed", NEW k \in DOMAIN dag_config, Dealt(k)', Enabled(dag_config[k])
        PROVE  \E i \in DOMAIN ops' : f[i] = k
    <3>1. Dealt(k)
      BY <1>6, <2>6, CheckEnds DEF Dealt
    <3>2. stage # "failed"
      BY <2>6, FailedStays
    <3>. QED
      BY <1>3, <2>3, <2>6, <3>1, <3>2
  <2>7. HasAll(f)'
    BY <1>0, <2>6 DEF HasAll
  <2>. QED
    BY <1>0, <2>2, <2>3, <2>4, <2>5, <2>7 DEF FromFile
<1>. QED
  BY <1>4, <1>5, <1>6, OpsSteps

\* The sort has put everybody after its upstreams.
OpsFollow ==
    \A i, j \in DOMAIN ops :
        i # j /\ EventsOf(ops[i]) \cap (Elements(ops[j].trigger) \cup Elements(ops[j].input)) # {} => i < j
Downwards == stage \notin {"check", "sort", "failed"} => OpsFollow

\* So links lead downwards,
OpsDown ==
    \A i, j \in DOMAIN ops : \A m \in DOMAIN ops[i].output, n \in DOMAIN ops[j].trigger :
        i # j /\ ops[i].output[m].event = ops[j].trigger[n] => i < j

\* as those to triggers are some of them.
LEMMA LinksFollow == ASSUME OpsFollow PROVE OpsDown
<1>. SUFFICES ASSUME NEW i \in DOMAIN ops, NEW j \in DOMAIN ops, NEW m \in DOMAIN ops[i].output,
                     NEW n \in DOMAIN ops[j].trigger, i # j, ops[i].output[m].event = ops[j].trigger[n]
              PROVE  i < j
  BY DEF OpsDown
<1>1. ops[i].output[m].event \in EventsOf(ops[i]) /\ ops[j].trigger[n] \in Elements(ops[j].trigger)
  BY DEF EventsOf, Elements
<1>2. EventsOf(ops[i]) \cap (Elements(ops[j].trigger) \cup Elements(ops[j].input)) # {}
  BY <1>1
<1>. QED
  BY <1>2 DEF OpsFollow

\* The same in terms of outputs and workers.
LEMMA WorkersDown ==
    ASSUME OpsDown, NEW w \in Outputs, NEW v \in Workers, w[1] # v[1], Event(w) = Trigger(v)
    PROVE  w[1] < v[1]
BY OutputPlaces, WorkerPlaces DEF OpsDown, Event, Output, Trigger

\* An operator's events, triggers and inputs are those of the file.
LEMMA SameWishes ==
    ASSUME NEW o, NEW c, Static(o, c)
    PROVE  EventsOf(o) = EventsOf(c) /\ o.trigger = c.trigger /\ o.input = c.input
BY DEF Static, EventsOf

\* What the file does not say does not matter for that.
LEMMA OpsFollowKept == ASSUME OpsFollow, SameFile PROVE OpsFollow'
<1>. SUFFICES ASSUME NEW i \in DOMAIN ops, NEW j \in DOMAIN ops, i # j,
                     EventsOf(ops'[i]) \cap (Elements(ops'[j].trigger) \cup Elements(ops'[j].input)) # {}
              PROVE  i < j
  BY DEF OpsFollow, SameFile
<1>1. Static(ops'[i], ops[i]) /\ Static(ops'[j], ops[j])
  BY DEF SameFile
<1>2. EventsOf(ops'[i]) = EventsOf(ops[i]) /\ ops'[j].trigger = ops[j].trigger /\ ops'[j].input = ops[j].input
  BY <1>1, SameWishes
<1>. QED
  BY <1>2 DEF OpsFollow

\* The order that the sort has found becomes that of the operators.
LEMMA DownwardsKeeps ==
    ASSUME TypedInv, Downwards, [Next]_vars
    PROVE  Downwards'
<1>1. CASE Check /\ stage' # "failed"
  <2>1. stage' = "check"
    BY <1>1, CheckEffect DEF TypedInv
  <2>. QED
    BY <2>1 DEF Downwards
<1>2. CASE Sorted /\ stage' # "failed"
  <2>1. /\ stage = "sort" /\ stage' = "parse" /\ Len(sorted) = Len(ops)
        /\ ops' = [k \in DOMAIN sorted |-> ops[sorted[k]]]
        /\ DOMAIN ops' = DOMAIN ops
    BY <1>2, SortedEffect
  <2>2. /\ links = OpLinks(ops) /\ Nodes = DOMAIN ops
        /\ DOMAIN sorted = DOMAIN ops
        /\ \A k \in DOMAIN sorted : sorted[k] \in DOMAIN ops
        /\ \A j, k \in DOMAIN sorted : sorted[j] = sorted[k] => j = k
    BY <2>1, SortedPlaces
  <2>3. \A k \in DOMAIN sorted : \A p \in Upstreams(links, sorted[k]) :
            \E j \in 1 .. (k - 1) : sorted[j] = p
    BY DEF TypedInv, IInv, InOrder
  <2>4. DOMAIN ops = 1 .. Len(ops) /\ Len(ops) \in Nat
    BY DEF TypedInv, Typed
  <2>5. ASSUME NEW i \in DOMAIN ops', NEW j \in DOMAIN ops', i # j,
               EventsOf(ops'[i]) \cap (Elements(ops'[j].trigger) \cup Elements(ops'[j].input)) # {}
        PROVE  i < j
    <3>1. /\ sorted[i] \in DOMAIN ops /\ sorted[j] \in DOMAIN ops /\ sorted[i] # sorted[j]
          /\ ops'[i] = ops[sorted[i]] /\ ops'[j] = ops[sorted[j]]
      BY <2>1, <2>2, <2>5
    <3>2. EventsOf(ops[sorted[i]])
            \cap (Elements(ops[sorted[j]].trigger) \cup Elements(ops[sorted[j]].input)) # {}
      BY <2>5, <3>1
    <3>3. sorted[j] \in OpLinks(ops)[sorted[i]]
      BY <3>1, <3>2 DEF OpLinks
    <3>4. sorted[i] \in Upstreams(links, sorted[j])
      BY <2>2, <3>1, <3>3 DEF Upstreams, Nodes
    <3>5. PICK k \in 1 .. (j - 1) : sorted[k] = sorted[i]
      BY <2>1, <2>2, <2>3, <2>5, <3>4
    <3>6. k \in DOMAIN ops
      BY <2>1, <2>4, <2>5
    <3>7. k = i
      BY <2>1, <2>2, <2>5, <3>5, <3>6
    <3>. QED
      BY <2>1, <2>4, <2>5, <3>7
  <2>. QED
    BY <2>5 DEF Downwards, OpsFollow
<1>3. CASE SameFile /\ (stage' \notin {"check", "sort", "failed"} => stage \notin {"check", "sort", "failed"})
  BY <1>3, OpsFollowKept DEF Downwards
<1>. QED
  BY <1>1, <1>2, <1>3, OpsSteps

-----------------------------------------------------------------------------
(* What clear configurations are like.                                     *)

\* If it is made once, an output is known by its event,
LEMMA ByEvent ==
    ASSUME OneMaker, TypedInv, FromFile, NEW w \in Outputs, NEW x \in Outputs, Event(w) = Event(x)
    PROVE  w = x
<1>1. PICK f : AreFrom(f, ops, dag_config)
  BY DEF FromFile
<1>2. dag_config \in Configs
  BY DEF TypedInv, Typed
<1>3. /\ w = <<w[1], w[2]>> /\ w[1] \in DOMAIN ops /\ w[2] \in DOMAIN ops[w[1]].output
      /\ x = <<x[1], x[2]>> /\ x[1] \in DOMAIN ops /\ x[2] \in DOMAIN ops[x[1]].output
  BY OutputPlaces
<1>. DEFINE i == f[w[1]]  j == f[x[1]]
<1>4. /\ i \in DOMAIN dag_config /\ j \in DOMAIN dag_config
      /\ Enabled(dag_config[i]) /\ Enabled(dag_config[j])
      /\ Static(ops[w[1]], dag_config[i]) /\ Static(ops[x[1]], dag_config[j])
      /\ i = j => w[1] = x[1]
  BY <1>1, <1>3 DEF AreFrom
<1>. HIDE DEF i, j
<1>5. /\ w[2] \in DOMAIN dag_config[i].output /\ x[2] \in DOMAIN dag_config[j].output
      /\ dag_config[i].output[w[2]].event = dag_config[j].output[x[2]].event
  BY <1>3, <1>4 DEF Static, Event, Output
<1>6. i = j /\ w[2] = x[2]
  BY <1>2, <1>4, <1>5 DEF OneMaker
<1>. QED
  BY <1>3, <1>4, <1>6

\* and made by a worker.
LEMMA OutputsHaveWorkers ==
    ASSUME OutputsTriggered, TypedInv, FromFile, NEW w \in Outputs
    PROVE  w \in Workers
<1>1. PICK f : AreFrom(f, ops, dag_config)
  BY DEF FromFile
<1>2. dag_config \in Configs /\ ops \in Seq(OperatorInfos)
  BY DEF TypedInv, Typed
<1>3. w = <<w[1], w[2]>> /\ w[1] \in DOMAIN ops /\ w[2] \in DOMAIN ops[w[1]].output
  BY OutputPlaces
<1>. DEFINE i == f[w[1]]
<1>4. i \in DOMAIN dag_config /\ Static(ops[w[1]], dag_config[i])
  BY <1>1, <1>3 DEF AreFrom
<1>. HIDE DEF i
<1>5. ops[w[1]] \in OperatorInfos
  BY <1>2, <1>3
<1>6. /\ ops[w[1]].trigger \in Seq(Strings) /\ ops[w[1]].output \in Seq(OutputInfos)
      /\ ops[w[1]].trigger = dag_config[i].trigger
      /\ DOMAIN ops[w[1]].output = DOMAIN dag_config[i].output
  BY <1>4, <1>5 DEF OperatorInfos, Static
<1>7. dag_config[i].output \in Seq(OutputConfig)
  <2>1. dag_config[i] \in OperatorConfig
    BY <1>2, <1>4, ConfigsAssumption
  <2>. QED
    BY <2>1, Zenon DEF OperatorConfig
<1>8. Len(dag_config[i].output) <= Len(dag_config[i].trigger)
  BY <1>2, <1>4 DEF OutputsTriggered
<1>9. w[2] \in DOMAIN ops[w[1]].trigger
  <2>1. DOMAIN dag_config[i].output = 1 .. Len(dag_config[i].output) /\ Len(dag_config[i].output) \in Nat
    BY <1>7
  <2>2. DOMAIN ops[w[1]].trigger = 1 .. Len(ops[w[1]].trigger) /\ Len(ops[w[1]].trigger) \in Nat
    BY <1>6
  <2>. QED
    BY <1>3, <1>6, <1>8, <2>1, <2>2
<1>. QED
  BY <1>3, <1>9, WorkerPlaces

-----------------------------------------------------------------------------
(* Triggers.                                                               *)

\* What holds of every configuration, with what the file has to do with it.
FileInv == StructInv /\ FromFile /\ Downwards

\* It always does.
THEOREM FileInvariance == Spec => []FileInv
<1>1. Init => FromFile /\ Downwards
  <2>. SUFFICES ASSUME Init PROVE FromFile /\ Downwards
    OBVIOUS
  <2>1. ops = <<>> /\ stage = "check" /\ DOMAIN ops = {}
    BY DEF Init
  <2>2. PICK f : f = [i \in {} |-> 1]
    OBVIOUS
  <2>3. AreFrom(f, ops, dag_config)
    BY <2>1, <2>2 DEF AreFrom
  <2>4. HasAll(f)
    BY <2>1 DEF Init, Dealt, HasAll
  <2>. QED
    BY <2>1, <2>3, <2>4 DEF FromFile, Downwards
<1>2. FileInv /\ [Next]_vars => FileInv'
  BY StructKeeps, FromFileKeeps, DownwardsKeeps DEF FileInv, StructInv
<1>. QED
  BY <1>1, <1>2, StructInit, PTL DEF Spec, FileInv

\* A name is not lost by making copies.
LEMMA CopiesHaveNames ==
    ASSUME ops \in Seq(OperatorInfos), NEW w \in Outputs, NEW data \in DataNames, data # None,
           NEW kind \in Strings
    PROVE  Copied(data, w[1], w[2], kind) # None
<1>. DEFINE before == Len(ops[w[1]].output[w[2]].downstream)
            copy == [nth |-> before, of |-> ops[w[1]].name, kind |-> kind]
<1>1. Copied(data, w[1], w[2], kind) = IF before = 0 THEN data ELSE [data EXCEPT !.copies = Append(@, copy)]
  BY DEF Copied
<1>2. ASSUME before # 0
      PROVE  [data EXCEPT !.copies = Append(@, copy)] # None
  <2>1. data.copies \in Seq([nth : Nat, of : Strings, kind : Strings])
    BY DEF DataNames
  <2>2. Append(data.copies, copy) # <<>>
    <3>. HIDE DEF copy
    <3>1. Len(Append(data.copies, copy)) = Len(data.copies) + 1 /\ Len(data.copies) \in Nat
      BY <2>1
    <3>2. Append(data.copies, copy) = <<>> => Len(Append(data.copies, copy)) = 0
      OBVIOUS
    <3>. QED
      BY <3>1, <3>2
  <2>3. [data EXCEPT !.copies = Append(@, copy)].copies = Append(data.copies, copy)
    BY DEF DataNames
  <2>4. None.copies = <<>>
    BY DEF None, Plain, Name
  <2>. QED
    BY <2>2, <2>3, <2>4
<1>. HIDE DEF before, copy
<1>. QED
  BY <1>1, <1>2

\* With one output for an event, nobody else's data and event get in the way: the data
\* that an output sends to a worker are those it looks for,
LinksEven ==
    \A w \in Outputs, v \in Workers : \A k \in DOMAIN Down(w) : Target(Down(w)[k]) = v =>
        Down(w)[k].data = TriggerName(v) /\ (v \in Outputs => Down(w)[k].data # None)

\* and the event is the one it subscribes to.
EventsEven ==
    \A w \in Made, v \in Workers : \A k \in DOMAIN Down(w) : Target(Down(w)[k]) = v =>
        operator_sub_events_[v] = operator_pub_events_[w][k]

OneUpstream == (stage \in Later => LinksEven) /\ (stage \in EventStages => EventsEven)

\* What goes to a worker comes from the one output of its trigger.
LEMMA OneOutput ==
    ASSUME OneMaker, FileInv, stage \in Later, NEW w \in Outputs, NEW x \in Outputs,
           NEW j \in DOMAIN Down(w), NEW k \in DOMAIN Down(x), Target(Down(w)[j]) = Target(Down(x)[k])
    PROVE  w = x /\ j = k
<1>. DEFINE v == Target(Down(w)[j])
<1>1. v \in Workers /\ LinkOf(w, v) \in Matches /\ LinkOf(x, v) \in Matches
  BY DEF FileInv, StructInv, TypedInv, Typed, LinksMade, Done
<1>2. Event(w) = Trigger(v) /\ Event(x) = Trigger(v)
  BY <1>1, LinkOfPlaces
<1>3. w = x
  BY <1>2, ByEvent DEF FileInv, StructInv
<1>. QED
  BY <1>3 DEF FileInv, StructInv, LinksMade

\* The data of links do not change once they are made,
LEMMA OneUpstreamLinks ==
    ASSUME OneMaker, FileInv, OneUpstream, [Next]_vars, stage' \in Later
    PROVE  LinksEven'
<1>0. TypedInv /\ Typed /\ LinksMade /\ ops \in Seq(OperatorInfos)
  BY DEF FileInv, StructInv, TypedInv, Typed
<1>1. CASE Parse
  <2>1. SameFile /\ \A w \in Outputs : Down(w)' = <<>>
    BY <1>0, <1>1, ParseEffect DEF Later
  <2>. QED
    BY <2>1, SameShape DEF LinksEven
<1>2. CASE Link
  <2>1. PICK w \in Outputs, v \in Workers, d \in Downstreams :
             /\ LinkOf(w, v) \in todo
             /\ Linked(w, v, d) /\ stage = "link"
    BY <1>0, <1>2, LinkEffect DEF Later, LinkOf
  <2>2. /\ SameFile
        /\ \A u \in Outputs : Down(u)' = IF u = w THEN Append(Down(u), d) ELSE Down(u)
        /\ \A u \in Workers : TriggerName(u)' = IF u = v THEN d.data ELSE TriggerName(u)
        /\ Target(d) = v /\ d.data = LinkData(w, v)
        /\ v \in Outputs => DataName(Output(w), Output(v)) # None
    BY <2>1 DEF Linked
  <2>3. Outputs' = Outputs /\ Workers' = Workers
    BY <2>2, SameShape
  <2>4. Down(w) \in Seq(Downstreams)
    BY <1>0, NamesTyped DEF Down, OutputInfos
  <2>5. /\ DOMAIN Append(Down(w), d) = DOMAIN Down(w) \cup {Len(Down(w)) + 1}
        /\ \A k \in DOMAIN Down(w) : Append(Down(w), d)[k] = Down(w)[k]
        /\ Append(Down(w), d)[Len(Down(w)) + 1] = d
    BY <2>4, AppendFact
  <2>6. \A u \in Outputs : \A k \in DOMAIN Down(u) : Target(Down(u)[k]) \in Workers /\ Target(Down(u)[k]) # v
    <3>1. ASSUME NEW u \in Outputs, NEW k \in DOMAIN Down(u), Target(Down(u)[k]) = v
          PROVE  FALSE
      <4>1. LinkOf(u, v) \in Matches /\ LinkOf(u, v) \notin todo
        BY <1>0, <2>1, <3>1 DEF LinksMade, Done, Later
      <4>2. LinkOf(w, v) \in Matches
        BY <1>0, <2>1 DEF Typed
      <4>3. Event(u) = Trigger(v) /\ Event(w) = Trigger(v)
        BY <4>1, <4>2, LinkOfPlaces
      <4>4. u = w
        BY <4>3, <1>0, ByEvent DEF FileInv
      <4>. QED
        BY <2>1, <4>1, <4>4
    <3>. QED
      BY <1>0, <2>1, <3>1 DEF LinksMade, Later
  <2>7. v \in Outputs => d.data # None
    <3>. SUFFICES ASSUME v \in Outputs PROVE LinkData(w, v) # None
      BY <2>2
    <3>1. DataName(Output(w), Output(v)) \in DataNames /\ "COPY" \in Strings
      BY <1>0, NamesTyped DEF Strings
    <3>2. Copied(DataName(Output(w), Output(v)), w[1], w[2], "COPY") # None
      BY <1>0, <2>2, <3>1, CopiesHaveNames
    <3>. QED
      BY <2>2, <3>2 DEF LinkData
  <2>8. ASSUME NEW u \in Outputs, NEW x \in Workers, NEW k \in DOMAIN Down(u), Target(Down(u)[k]) = x
        PROVE  Down(u)[k].data = TriggerName(x)' /\ (x \in Outputs => Down(u)[k].data # None)
    BY <2>1, <2>2, <2>6, <2>8 DEF OneUpstream, LinksEven, Later
  <2>9. ASSUME NEW u \in Outputs, NEW x \in Workers, NEW k \in DOMAIN Down(u)', Target(Down(u)'[k]) = x
        PROVE  Down(u)'[k].data = TriggerName(x)' /\ (x \in Outputs => Down(u)'[k].data # None)
    <3>1. CASE u # w \/ k \in DOMAIN Down(w)
      <4>1. k \in DOMAIN Down(u) /\ Down(u)'[k] = Down(u)[k]
        BY <2>2, <2>5, <2>9, <3>1
      <4>. QED
        BY <2>8, <2>9, <4>1
    <3>2. CASE u = w /\ k = Len(Down(w)) + 1
      <4>1. Down(u)'[k] = d
        BY <2>2, <2>5, <3>2
      <4>. QED
        BY <2>2, <2>7, <2>9, <4>1
    <3>. QED
      BY <2>2, <2>5, <2>9, <3>1, <3>2
  <2>. QED
    BY <2>3, <2>9 DEF LinksEven
<1>3. CASE SetReference
  <2>1. /\ stage \in Later /\ SameFile
        /\ \A w \in Outputs : Down(w)' = Down(w)
        /\ \A v \in Workers : TriggerName(v)' = TriggerName(v)
    BY <1>0, <1>3, ReferenceEffect DEF Later
  <2>2. Outputs' = Outputs /\ Workers' = Workers
    BY <2>1, SameShape
  <2>. QED
    BY <2>1, <2>2 DEF OneUpstream, LinksEven
<1>4. CASE ops' = ops /\ stage \in Later
  BY <1>4, SameOps DEF OneUpstream, LinksEven
<1>. QED
  BY <1>0, <1>1, <1>2, <1>3, <1>4, LinkingSteps DEF Settled, Later

\* nor do the events, which each output has of its own.
LEMMA OneUpstreamEvents ==
    ASSUME OneMaker, FileInv, OneUpstream, [Next]_vars, stage' \in EventStages
    PROVE  EventsEven'
<1>0. TypedInv /\ Typed /\ LinksMade /\ EventsMade /\ ops \in Seq(OperatorInfos)
  BY DEF FileInv, StructInv, TypedInv, Typed
<1>1. CASE StartEvents
  <2>1. ops' = ops /\ todo' = Outputs /\ stage' = "events"
    BY <1>1 DEF StartEvents
  <2>2. Made' = {}
    BY <2>1, SameOps DEF Made
  <2>. QED
    BY <2>2 DEF EventsEven
<1>2. CASE InitEvents
  <2>0. todo \subseteq Outputs /\ stage = "events" /\ stage \in Later /\ stage \in EventStages
    BY <1>0, <1>2 DEF Typed, InitEvents, Later, EventStages
  <2>1. PICK w \in todo :
             /\ stage' = "events" /\ ops' = ops /\ todo' = todo \ {w}
             /\ operator_pub_events_'[w] = [k \in DOMAIN Ends(w) |-> Len(events_) + k]
             /\ \A x \in Outputs \ {w} : operator_pub_events_'[x] = operator_pub_events_[x]
             /\ \A v \in Workers :
                  IF \E k \in DOMAIN Down(w) : Target(Down(w)[k]) = v
                  THEN \E k \in DOMAIN Down(w) :
                         Target(Down(w)[k]) = v /\ operator_sub_events_'[v] = Len(events_) + k
                  ELSE operator_sub_events_'[v] = operator_sub_events_[v]
    BY <1>0, <1>2, <2>0, EventsEffect
  <2>2. Made' = Made \cup {w} /\ w \in Outputs /\ Made \subseteq Outputs /\ w \notin Made
    BY <2>0, <2>1, SameOps DEF Made
  <2>3. ASSUME NEW x \in Made', NEW k \in DOMAIN Down(x)
        PROVE  operator_sub_events_'[Target(Down(x)[k])] = operator_pub_events_'[x][k]
    <3>0. Target(Down(x)[k]) \in Workers /\ x \in Outputs
      BY <1>0, <2>0, <2>2 DEF LinksMade
    <3>1. CASE x = w
      <4>1. PICK j \in DOMAIN Down(w) : /\ Target(Down(w)[j]) = Target(Down(x)[k])
                                        /\ operator_sub_events_'[Target(Down(x)[k])] = Len(events_) + j
        BY <2>1, <2>3, <3>0, <3>1
      <4>2. j = k
        BY <2>0, <3>0, <3>1, <4>1, OneOutput
      <4>3. k \in DOMAIN Ends(w)
        <5>1. Down(w) # <<>> => DOMAIN Ends(w) = DOMAIN Down(w)
          BY <1>0, <2>0, <2>2, EndsTyped
        <5>. QED
          BY <2>3, <3>1, <5>1
      <4>. QED
        BY <2>1, <3>1, <4>1, <4>2, <4>3
    <3>2. CASE x # w
      <4>1. ~\E j \in DOMAIN Down(w) : Target(Down(w)[j]) = Target(Down(x)[k])
        BY <2>0, <2>2, <2>3, <3>0, <3>2, OneOutput
      <4>2. operator_sub_events_'[Target(Down(x)[k])] = operator_sub_events_[Target(Down(x)[k])]
        BY <2>1, <3>0, <4>1
      <4>3. operator_pub_events_'[x] = operator_pub_events_[x] /\ x \in Made
        BY <2>1, <2>2, <2>3, <3>0, <3>2
      <4>. QED
        BY <2>0, <2>3, <3>0, <4>2, <4>3 DEF OneUpstream, EventsEven
    <3>. QED
      BY <3>1, <3>2
  <2>. QED
    BY <2>1, <2>3, SameOps DEF EventsEven
<1>3. CASE UNCHANGED <<ops, events_, operator_pub_events_, operator_sub_events_>>
              /\ \/ stage' = stage /\ todo' = todo
                 \/ stage' = "failed"
                 \/ stage = "events" /\ todo = {} /\ stage' = "operators"
                 \/ stage = "operators" /\ stage' \in {"operators", "ready"}
  <2>1. stage \in EventStages /\ Made' = Made
    BY <1>3, SameOps DEF Made, EventStages
  <2>. QED
    BY <1>3, <2>1, SameOps DEF OneUpstream, EventsEven
<1>. QED
  BY <1>1, <1>2, <1>3, EventSteps

\* So this holds in every configuration whose outputs are known by their events.
LEMMA OneUpstreamKeeps ==
    ASSUME OneMaker, FileInv, OneUpstream, [Next]_vars
    PROVE  OneUpstream'
BY OneUpstreamLinks, OneUpstreamEvents DEF OneUpstream

\* What each thing of a link is, once the ports are there.
LEMMA LinksAreConnected ==
    ASSUME OneMaker, OutputsTriggered, FileInv, OneUpstream, stage = "ready",
           NEW v \in Workers, NEW w \in Outputs, w[1] # v[1], Event(w) = Trigger(v)
    PROVE  \E k \in DOMAIN operator_pub_events_[w] :
             /\ operator_pub_events_[w][k] = operator_sub_events_[v]
             /\ events_[operator_sub_events_[v]].to = v
             /\ ports_[w].output_data[k] = ports_[v].trigger_data
             /\ \A u \in Workers \ {v} : operator_sub_events_[u] # operator_sub_events_[v]
<1>0. TypedInv /\ Typed /\ LinksMade /\ EventsMade /\ PortsMade /\ ops \in Seq(OperatorInfos)
  BY DEF FileInv, StructInv, TypedInv, Typed
<1>1. stage \in Later /\ stage \in EventStages /\ stage \in PortStages /\ Made = Outputs /\ Done = Matches
  BY DEF Later, EventStages, PortStages, Made, Done
<1>2. LinkOf(w, v) \in Matches
  <2>1. w[1] < v[1]
    BY LinksFollow, WorkersDown DEF FileInv, Downwards
  <2>. QED
    BY <2>1, LinkOfPlaces
<1>3. PICK k \in DOMAIN Down(w) : Target(Down(w)[k]) = v
  BY <1>0, <1>1, <1>2 DEF LinksMade
<1>4. Down(w) # <<>>
  BY <1>3
<1>5. DOMAIN Ends(w) = DOMAIN Down(w) /\ Ends(w)[k] = v
  BY <1>0, <1>1, <1>3, <1>4, EndsTyped
<1>6. /\ k \in DOMAIN operator_pub_events_[w]
      /\ operator_pub_events_[w][k] = operator_sub_events_[v]
      /\ events_[operator_pub_events_[w][k]] = [from |-> w, to |-> v]
      /\ operator_pub_events_[w][k] \in DOMAIN events_
  <2>1. k \in DOMAIN operator_pub_events_[w] /\ events_[operator_pub_events_[w][k]] = [from |-> w, to |-> v]
    BY <1>0, <1>1, <1>5, <1>3 DEF EventsMade
  <2>2. operator_pub_events_[w][k] \in Elements(operator_pub_events_[w]) /\ w \in DOMAIN operator_pub_events_
    BY <1>0, <1>1, <2>1 DEF Elements, EventsMade
  <2>3. operator_pub_events_[w][k] \in DOMAIN events_
    BY <1>0, <2>2 DEF EventsMade
  <2>4. operator_pub_events_[w][k] = operator_sub_events_[v]
    BY <1>1, <1>3 DEF OneUpstream, EventsEven, LinksEven
  <2>. QED
    BY <2>1, <2>3, <2>4
<1>7. events_[operator_sub_events_[v]].to = v
  BY <1>6
<1>8. ASSUME NEW u \in Workers, operator_sub_events_[u] = operator_sub_events_[v]
      PROVE  u = v
  <2>1. operator_sub_events_[u] \in DOMAIN events_ /\ DOMAIN events_ \subseteq 1 .. Len(events_)
    BY <1>0, <1>6, <1>8 DEF EventsMade
  <2>2. operator_sub_events_[u] # 0
    BY <2>1
  <2>3. events_[operator_sub_events_[u]].to = u
    BY <1>0, <1>1, <2>2 DEF EventsMade
  <2>. QED
    BY <1>7, <1>8, <2>3
<1>9. ports_[w].output_data[k] = Down(w)[k].data
  <2>1. w \in Workers
    BY <1>0, OutputsHaveWorkers DEF FileInv
  <2>2. ports_[w].output_data = OutputData(w)
    <3>1. Running(w[1])
      BY DEF Running
    <3>. QED
      BY <1>0, <1>1, <2>1, <3>1 DEF PortsMade, PortMade
  <2>3. HasOutput(w)
    BY OutputPlaces DEF HasOutput
  <2>4. OutputData(w) = [j \in DOMAIN Down(w) |-> Down(w)[j].data]
    BY <1>4, <2>3 DEF OutputData, Down
  <2>. QED
    BY <1>3, <2>2, <2>4
<1>10. ports_[v].trigger_data = Down(w)[k].data
  <2>1. ports_[v].trigger_data = TriggerData(v)
    <3>1. Running(v[1])
      BY DEF Running
    <3>. QED
      BY <1>0, <1>1, <3>1 DEF PortsMade, PortMade
  <2>2. TriggerName(v) = Down(w)[k].data /\ (v \in Outputs => Down(w)[k].data # None)
    BY <1>1, <1>3 DEF OneUpstream, EventsEven, LinksEven
  <2>3. HasOutput(v) => v \in Outputs
    BY OutputPlaces, WorkerPlaces DEF HasOutput
  <2>. QED
    BY <2>1, <2>2, <2>3 DEF TriggerData, TriggerName
<1>. QED
  BY <1>6, <1>7, <1>8, <1>9, <1>10

\* Once the program has started, each trigger that is another operator's output is
\* connected with it: the event that the output publishes for it (init_dag) is the one
\* its worker subscribes to and nobody else does, and the worker looks for the data where
\* the output puts them (link_operator, Port::init).
THEOREM TriggersAreConnected ==
    ASSUME OneMaker, OutputsTriggered
    PROVE  Spec => []TriggersConnected
<1>1. Init => OneUpstream
  BY DEF Init, OneUpstream, Later, EventStages
<1>2. FileInv /\ OneUpstream /\ [Next]_vars => OneUpstream'
  BY OneUpstreamKeeps
<1>3. FileInv /\ OneUpstream => TriggersConnected
  <2>. SUFFICES ASSUME FileInv, OneUpstream, stage = "ready",
                       NEW v \in Workers, NEW w \in Outputs, w[1] # v[1], Event(w) = Trigger(v)
                PROVE  \E k \in DOMAIN operator_pub_events_[w] :
                         /\ operator_pub_events_[w][k] = operator_sub_events_[v]
                         /\ events_[operator_sub_events_[v]].to = v
                         /\ ports_[w].output_data[k] = ports_[v].trigger_data
                         /\ \A u \in Workers \ {v} : operator_sub_events_[u] # operator_sub_events_[v]
    BY DEF TriggersConnected, Event, Trigger
  <2>. QED
    BY LinksAreConnected
<1>. QED
  BY <1>1, <1>2, <1>3, FileInvariance, PTL DEF Spec

-----------------------------------------------------------------------------
(* References.                                                             *)

\* The data of outputs, links and triggers are no references.
NamesFree ==
    stage \in Later =>
        /\ \A w \in Outputs : /\ Output(w).data.kind # "RO"
                              /\ \A k \in DOMAIN Down(w) : Down(w)[k].data.kind # "RO"
        /\ \A v \in Workers : TriggerName(v).kind # "RO"

\* The references among the caches are those of outputs that others read.
ReferencesMade ==
    /\ stage \notin Settled \cup {"failed"} => shared_data_map_ = <<>>
    /\ stage \in Settled =>
         \A name \in DOMAIN shared_data_map_ : name.kind = "RO" =>
             \E w \in Outputs : Output(w).has_reference /\ name = Reference(Event(w))

\* The file has names for data only.
LEMMA FileNames ==
    ASSUME TypedInv, FromFile, stage \in {"check", "sort", "parse"}, NEW w \in Outputs
    PROVE  Output(w).data \in [of : STRING, kind : {""}, hz : {0}, copies : {<<>>}]
<1>1. PICK f : AreFrom(f, ops, dag_config) /\ \A i \in DOMAIN ops : ops[i] = dag_config[f[i]]
  BY DEF FromFile
<1>2. dag_config \in Seq(OperatorConfig)
  BY ConfigsAssumption DEF TypedInv, Typed
<1>3. w[1] \in DOMAIN ops /\ w[2] \in DOMAIN ops[w[1]].output
  BY OutputPlaces
<1>4. f[w[1]] \in DOMAIN dag_config
  BY <1>1, <1>3 DEF AreFrom
<1>5. ops[w[1]] \in OperatorConfig
  <2>1. dag_config[f[w[1]]] \in OperatorConfig
    <3>. HIDE DEF OperatorConfig
    <3>. QED
      BY <1>2, <1>4
  <2>. QED
    BY <1>1, <1>3, <2>1
<1>6. ops[w[1]].output \in Seq(OutputConfig)
  BY <1>5, Zenon DEF OperatorConfig
<1>7. Output(w) \in OutputConfig
  BY <1>3, <1>6 DEF Output
<1>. QED
  BY <1>7, Zenon DEF OutputConfig

\* A copy has what its original has.
LEMMA CopiesAlike ==
    ASSUME NEW data \in DataNames, NEW i, NEW m, NEW kind
    PROVE  /\ Copied(data, i, m, kind).kind = data.kind
           /\ Copied(data, i, m, kind).of = data.of
           /\ Copied(data, i, m, kind).hz = data.hz
BY DEF Copied, DataNames

\* Links make no references.
LEMMA NamesFreeKeeps ==
    ASSUME TypedInv, FromFile, NamesFree, [Next]_vars
    PROVE  NamesFree'
<1>0. Typed /\ ops \in Seq(OperatorInfos)
  BY DEF TypedInv, Typed
<1>. SUFFICES ASSUME stage' \in Later PROVE NamesFree'
  BY DEF NamesFree
<1>1. CASE Parse
  <2>1. /\ SameFile /\ stage = "parse"
        /\ \A w \in Outputs : Down(w)' = <<>> /\ Output(w).data' = Output(w).data
        /\ \A v \in Workers : TriggerName(v)' = None
    BY <1>0, <1>1, ParseEffect DEF Later
  <2>2. \A w \in Outputs : Output(w).data.kind # "RO"
    <3>1. \A w \in Outputs : Output(w).data.kind = ""
      BY <2>1, FileNames
    <3>. QED
      BY <3>1
  <2>3. None.kind # "RO"
    BY DEF None, Plain, Name
  <2>4. Outputs' = Outputs /\ Workers' = Workers
    BY <2>1, SameShape
  <2>. QED
    BY <2>1, <2>2, <2>3, <2>4 DEF NamesFree
<1>2. CASE Link
  <2>1. PICK w \in Outputs, v \in Workers, d \in Downstreams : Linked(w, v, d) /\ stage = "link"
    BY <1>0, <1>2, LinkEffect DEF Later
  <2>2. /\ SameFile
        /\ \A u \in Outputs :
             /\ Down(u)' = IF u = w THEN Append(Down(u), d) ELSE Down(u)
             /\ Output(u).data' = IF u = v /\ Output(u).data = None THEN d.data ELSE Output(u).data
        /\ \A u \in Workers : TriggerName(u)' = IF u = v THEN d.data ELSE TriggerName(u)
        /\ d.data = LinkData(w, v)
    BY <2>1 DEF Linked
  <2>3. Outputs' = Outputs /\ Workers' = Workers
    BY <2>2, SameShape
  <2>4. \A u \in Outputs : /\ Output(u).data.kind # "RO"
                           /\ \A k \in DOMAIN Down(u) : Down(u)[k].data.kind # "RO"
    BY <2>1 DEF NamesFree, Later
  <2>5. d.data.kind # "RO"
    <3>1. CASE v \notin Outputs
      <4>1. LinkData(w, v) = Copied(Output(w).data, w[1], w[2], "END_COPY")
        BY <3>1 DEF LinkData
      <4>2. Output(w).data \in DataNames
        BY <1>0, NamesTyped DEF OutputInfos
      <4>. QED
        BY <2>2, <2>4, <4>1, <4>2, CopiesAlike
    <3>2. CASE v \in Outputs
      <4>1. DataName(Output(w), Output(v)) \in DataNames
        BY <1>0, <3>2, NamesTyped
      <4>2. DataName(Output(w), Output(v)).kind # "RO"
        BY <2>4 DEF DataName, Name, None, Plain
      <4>3. \/ LinkData(w, v) = DataName(Output(w), Output(v))
            \/ LinkData(w, v) = Copied(DataName(Output(w), Output(v)), w[1], w[2], "COPY")
        BY <3>2 DEF LinkData
      <4>. QED
        BY <2>2, <4>1, <4>2, <4>3, CopiesAlike
    <3>. QED
      BY <3>1, <3>2
  <2>6. ASSUME NEW u \in Outputs, NEW k \in DOMAIN Down(u)'
        PROVE  Down(u)'[k].data.kind # "RO"
    <3>1. Down(w) \in Seq(Downstreams)
      BY <1>0, NamesTyped DEF Down, OutputInfos
    <3>2. /\ DOMAIN Append(Down(w), d) = DOMAIN Down(w) \cup {Len(Down(w)) + 1}
          /\ \A j \in DOMAIN Down(w) : Append(Down(w), d)[j] = Down(w)[j]
          /\ Append(Down(w), d)[Len(Down(w)) + 1] = d
      BY <3>1, AppendFact
    <3>3. CASE u # w \/ k \in DOMAIN Down(w)
      <4>1. k \in DOMAIN Down(u) /\ Down(u)'[k] = Down(u)[k]
        BY <2>2, <2>6, <3>2, <3>3
      <4>. QED
        BY <2>4, <4>1
    <3>4. CASE u = w /\ k = Len(Down(w)) + 1
      BY <2>2, <2>5, <3>2, <3>4
    <3>. QED
      BY <2>2, <2>6, <3>2, <3>3, <3>4
  <2>7. \A u \in Outputs : Output(u).data'.kind # "RO"
    BY <2>2, <2>4, <2>5
  <2>8. \A u \in Workers : TriggerName(u)'.kind # "RO"
    BY <2>1, <2>2, <2>5 DEF NamesFree, Later
  <2>. QED
    BY <2>3, <2>6, <2>7, <2>8 DEF NamesFree
<1>3. CASE SetReference
  <2>1. /\ stage \in Later /\ SameFile
        /\ \A w \in Outputs : Down(w)' = Down(w) /\ Output(w).data' = Output(w).data
        /\ \A v \in Workers : TriggerName(v)' = TriggerName(v)
    BY <1>0, <1>3, ReferenceEffect DEF Later
  <2>2. Outputs' = Outputs /\ Workers' = Workers
    BY <2>1, SameShape
  <2>. QED
    BY <2>1, <2>2 DEF NamesFree
<1>4. CASE ops' = ops /\ stage \in Later
  BY <1>4, SameOps DEF NamesFree
<1>. QED
  BY <1>0, <1>1, <1>2, <1>3, <1>4, LinkingSteps DEF Settled, Later

\* How the caches change.
LEMMA CacheSteps ==
    ASSUME [Next]_vars, stage' # "failed"
    PROVE  \/ Register \/ InitOperator
           \/ /\ shared_data_map_' = shared_data_map_ /\ new_data' = new_data
              /\ \/ SetReference
                 \/ stage' \notin Settled /\ stage \notin Settled \cup {"failed"}
                 \/ ops' = ops /\ stage \in Settled /\ stage' \in Settled
<1>0. CASE UNCHANGED vars
  BY <1>0 DEF vars, dataVars, Settled
<1>. SUFFICES ASSUME Step
              PROVE  \/ Register \/ InitOperator
                     \/ /\ shared_data_map_' = shared_data_map_ /\ new_data' = new_data
                        /\ \/ SetReference
                           \/ stage' \notin Settled /\ stage \notin Settled \cup {"failed"}
                           \/ ops' = ops /\ stage \in Settled /\ stage' \in Settled
  BY <1>0 DEF Next
<1>f. ~Fail
  BY DEF Fail
<1>1. CASE Check \/ Checked \/ Sort \/ Sorted
  BY <1>f, <1>1 DEF Check, Checked, Sort, Sorted, dataVars, Settled
<1>2. CASE Parse \/ Link
  BY <1>f, <1>2 DEF Parse, Link, dataVars, Settled
<1>3. CASE SetReference
  BY <1>3 DEF SetReference, dataVars
<1>4. CASE StartEvents \/ InitEvents
  BY <1>4 DEF StartEvents, InitEvents, dataVars, Settled
<1>5. CASE InitEventManager \/ Ready
  BY <1>5 DEF InitEventManager, Ready, dataVars, Settled
<1>. QED
  BY <1>1, <1>2, <1>3, <1>4, <1>5 DEF Step

\* The only ones are those that are asked for.
LEMMA ReferencesKeep ==
    ASSUME TypedInv, NamesFree, ReferencesMade, [Next]_vars
    PROVE  ReferencesMade'
<1>0. Typed /\ ops \in Seq(OperatorInfos)
  BY DEF TypedInv, Typed
<1>. SUFFICES ASSUME stage' # "failed" PROVE ReferencesMade'
  BY DEF ReferencesMade, Settled
<1>1. CASE Register
  <2>1. PICK w \in Outputs :
             /\ stage = "register"
             /\ DOMAIN shared_data_map_' = DOMAIN shared_data_map_ \cup FreshNames(w) \cup References(w)
             /\ stage' = stage /\ ops' = ops
    <3>1. todo \subseteq Outputs
      BY <1>0, <1>1 DEF Typed, Register
    <3>. QED
      BY <1>0, <1>1, <3>1, RegisterEffect
  <2>2. \A name \in FreshNames(w) : name.kind # "RO"
    <3>1. Output(w) \in OutputInfos
      BY <1>0, NamesTyped
    <3>2. /\ Output(w).data.kind # "RO"
          /\ \A k \in DOMAIN Output(w).downstream : Output(w).downstream[k].data.kind # "RO"
      BY <2>1 DEF NamesFree, Later, Down
    <3>3. \A k \in DOMAIN DataOf(Output(w)) : DataOf(Output(w))[k].data.kind # "RO"
      BY <3>1, <3>2, DataOfOutput
    <3>. QED
      BY <3>3 DEF FreshNames, Fresh
  <2>3. \A name \in References(w) : Output(w).has_reference /\ name = Reference(Event(w))
    BY DEF References
  <2>. QED
    BY <2>1, <2>2, <2>3, SameOps DEF ReferencesMade, Settled
<1>2. CASE InitOperator
  <2>1. PICK i : /\ stage = "operators" /\ stage' = "operators" /\ ops' = ops
                 /\ DOMAIN shared_data_map_' = DOMAIN shared_data_map_ \cup {Plain(ops[i].name)}
    BY <1>0, <1>2, InitOperatorEffect
  <2>2. Plain(ops[i].name).kind # "RO"
    BY DEF Plain, Name
  <2>. QED
    BY <2>1, <2>2, SameOps DEF ReferencesMade, Settled
<1>3. CASE SetReference /\ shared_data_map_' = shared_data_map_
  <2>1. stage = "link" /\ stage' = "register"
    BY <1>3 DEF SetReference
  <2>2. DOMAIN shared_data_map_' = {}
    BY <1>3, <2>1 DEF ReferencesMade, Settled
  <2>. QED
    BY <2>1, <2>2 DEF ReferencesMade, Settled
<1>4. CASE /\ shared_data_map_' = shared_data_map_
           /\ stage' \notin Settled /\ stage \notin Settled \cup {"failed"}
  BY <1>4 DEF ReferencesMade
<1>5. CASE shared_data_map_' = shared_data_map_ /\ ops' = ops /\ stage \in Settled /\ stage' \in Settled
  BY <1>5, SameOps DEF ReferencesMade
<1>. QED
  BY <1>1, <1>2, <1>3, <1>4, <1>5, CacheSteps

\* Once the program has started, whoever reads the results of another operator besides
\* its trigger (input or latest_input) gets them: the worker that makes them puts them
\* where they are looked for (set_reference, Port::init), and they are no trigger's data.
THEOREM ReadersAreServed ==
    ASSUME OutputsTriggered
    PROVE  Spec => []ReadersServed
<1>1. Init => NamesFree /\ ReferencesMade
  BY DEF Init, NamesFree, ReferencesMade, Later, Settled
<1>2. FileInv /\ NamesFree /\ ReferencesMade /\ [Next]_vars => NamesFree' /\ ReferencesMade'
  BY NamesFreeKeeps, ReferencesKeep DEF FileInv, StructInv
<1>3. FileInv /\ NamesFree /\ ReferencesMade => ReadersServed
  <2>. SUFFICES ASSUME FileInv, NamesFree, ReferencesMade, stage = "ready",
                       NEW v \in Workers, NEW e \in ports_[v].reads
                PROVE  /\ \E w \in Workers : /\ HasOutput(w) /\ Output(w).event = e
                                             /\ ports_[w].ref = Reference(e)
                       /\ \A w \in Workers : ports_[w].trigger_data # Reference(e)
    BY DEF ReadersServed
  <2>1. \A u \in Workers : PortMade(u)
    BY DEF FileInv, StructInv, PortsMade, PortStages, Running
  <2>2. Reference(e) \in DOMAIN shared_data_map_ /\ Reference(e).kind = "RO"
    <3>1. e \in Reads(v[1]) /\ \A r \in Reads(v[1]) : Reference(r) \in FrameCaches
      BY <2>1 DEF PortMade
    <3>2. Reference(e).kind = "RO"
      BY DEF Reference, Name
    <3>. QED
      BY <3>1, <3>2 DEF FrameCaches
  <2>3. PICK w \in Outputs : Output(w).has_reference /\ Reference(e) = Reference(Event(w))
    BY <2>2 DEF ReferencesMade, Settled
  <2>4. w \in Workers
    BY OutputsHaveWorkers DEF FileInv, StructInv
  <2>5. e = Event(w)
    <3>1. Reference(e).of = e /\ Reference(Event(w)).of = Event(w)
      BY DEF Reference, Name
    <3>. QED
      BY <2>3, <3>1
  <2>6. HasOutput(w)
    BY OutputPlaces DEF HasOutput
  <2>7. ports_[w].ref = Reference(e)
    BY <2>1, <2>3, <2>4, <2>6 DEF PortMade, RefData, Event
  <2>8. ASSUME NEW u \in Workers
        PROVE  ports_[u].trigger_data # Reference(e)
    <3>1. ports_[u].trigger_data = TriggerData(u)
      BY <2>1 DEF PortMade
    <3>2. TriggerName(u).kind # "RO"
      BY DEF NamesFree, Later
    <3>3. HasOutput(u) => u \in Outputs
      BY OutputPlaces, WorkerPlaces DEF HasOutput
    <3>4. TriggerData(u).kind # "RO"
      BY <3>2, <3>3 DEF TriggerData, TriggerName, NamesFree, Later
    <3>. QED
      BY <2>2, <3>1, <3>4
  <2>. QED
    BY <2>4, <2>5, <2>6, <2>7, <2>8 DEF Event
<1>. QED
  BY <1>1, <1>2, <1>3, FileInvariance, PTL DEF Spec

\* The operators that are on are all there.
AllOn ==
    stage # "failed" =>
        \A k \in DOMAIN dag_config : Dealt(k) /\ Enabled(dag_config[k]) =>
            \E i \in DOMAIN ops : Static(ops[i], dag_config[k])

\* They come from the file one by one.
LEMMA AllAreThere == ASSUME FromFile PROVE AllOn
BY DEF FromFile, HasAll, AreFrom, AllOn

-----------------------------------------------------------------------------
(* The names that data get.                                                *)

\* Who is triggered, who triggers others and what two data have the same name, of the
\* operators as they are (Triggered, Triggering and SourcesNamed are that of the file).
Fed(v) == \E x \in Outputs : LinkOf(x, v) \in Matches
Feeds(w) == \E v \in Workers : LinkOf(w, v) \in Matches
Same(u, v) ==
    /\ Output(u).data = Output(v).data
    /\ Output(u).data # None \/ (Feeds(u) /\ Feeds(v))

\* What the data of the link from output w to worker v are made from: their own name,
\* if v asks for a rate or w has no name for its data, or that of w's data.
IsBase(w, v, base) ==
    IF v \in Outputs /\ Output(v).hz > 0
    THEN base = Name(Event(w), "CACHED_DATA", Output(v).hz)
    ELSE IF v \notin Outputs \/ Output(w).data # None THEN base = Output(w).data
    ELSE base.kind = "DATA" /\ base.hz = 0 /\ base.copies = <<>>

\* The kth downstream of w gets data of its own, unless it is the first.
CopyFor(base, w, k, kind) ==
    IF k = 1 THEN base
    ELSE [base EXCEPT !.copies = Append(@, [nth |-> k - 1, of |-> ops[w[1]].name, kind |-> kind])]

LinkNamed(w, v, k, data) ==
    \E base \in DataNames :
        /\ IsBase(w, v, base)
        /\ data = CopyFor(base, w, k, IF v \in Outputs THEN "COPY" ELSE "END_COPY")

PlainName(data) == data.kind = "" /\ data.hz = 0 /\ data.copies = <<>>

\* No output's data have got their name from a link.
Unlinked(v) == \A x \in Outputs : LinkOf(x, v) \notin Done

\* Data have their names from the file, if they come from their output, or from the
\* link to the worker that makes them, which has been made before those from it.
Named ==
    stage \in Later =>
        /\ \A v \in Outputs : Unlinked(v) =>
             PlainName(Output(v).data) /\ (Fed(v) => Output(v).data = None)
        /\ \A v \in Workers : Unlinked(v) => TriggerName(v) = None
        /\ \A u, v \in Outputs : ~Fed(u) /\ ~Fed(v) /\ Same(u, v) => u = v
        /\ \A w \in Outputs, v \in Workers : \A k \in DOMAIN Down(w) : \A d \in {Down(w)[k]} :
             Target(d) = v =>
                 /\ Output(w).data # None \/ ~Fed(w)
                 /\ LinkNamed(w, v, k, d.data) /\ d.hz = IF v \in Outputs THEN Output(v).hz ELSE 0
                 /\ v \in Outputs => Output(v).data = d.data

\* What the file tells of names, the operators tell.
LEMMA SourcesFound ==
    ASSUME OneMaker, SourcesNamed, TypedInv, FromFile, AllOn, OpsDown, stage = "parse"
    PROVE  /\ \A v \in Outputs :
                PlainName(Output(v).data) /\ (Fed(v) => Output(v).data = None)
           /\ \A u, v \in Outputs : ~Fed(u) /\ ~Fed(v) /\ Same(u, v) => u = v
<1>1. PICK f : /\ AreFrom(f, ops, dag_config)
               /\ \A i \in DOMAIN ops : ops[i] = dag_config[f[i]]
  BY DEF FromFile
<1>2. /\ f \in [DOMAIN ops -> DOMAIN dag_config]
      /\ \A i, j \in DOMAIN ops : f[i] = f[j] => i = j
      /\ \A i \in DOMAIN ops : Enabled(dag_config[f[i]]) /\ Static(ops[i], dag_config[f[i]])
  BY <1>1 DEF AreFrom
<1>3. dag_config \in Configs
  BY DEF TypedInv, Typed
<1>4. ASSUME NEW v \in Outputs
      PROVE  /\ v = <<v[1], v[2]>> /\ v[1] \in DOMAIN ops /\ v[2] \in DOMAIN ops[v[1]].output
             /\ f[v[1]] \in DOMAIN dag_config /\ Enabled(dag_config[f[v[1]]])
             /\ ops[v[1]] = dag_config[f[v[1]]]
             /\ Output(v) = dag_config[f[v[1]]].output[v[2]]
             /\ v[2] \in DOMAIN dag_config[f[v[1]]].output
  <2>1. v = <<v[1], v[2]>> /\ v[1] \in DOMAIN ops /\ v[2] \in DOMAIN ops[v[1]].output
    BY OutputPlaces
  <2>. QED
    BY <1>1, <1>2, <2>1 DEF Output
<1>5. ASSUME NEW v \in Outputs, Fed(v)
      PROVE  Triggered(dag_config, f[v[1]], v[2])
  <2>1. PICK x \in Outputs : LinkOf(x, v) \in Matches
    BY <1>5 DEF Fed
  <2>2. x[1] < v[1] /\ <<v[1], v[2]>> \in Workers /\ Event(x) = Trigger(v)
    <3>1. /\ <<x[1], v[1], x[2], v[2]>>[1] = x[1] /\ <<x[1], v[1], x[2], v[2]>>[2] = v[1]
          /\ <<x[1], v[1], x[2], v[2]>>[3] = x[2] /\ <<x[1], v[1], x[2], v[2]>>[4] = v[2]
      OBVIOUS
    <3>2. <<x[1], x[2]>> = x /\ <<v[1], v[2]>> = v
      BY <1>4
    <3>. QED
      BY <2>1, <3>1, <3>2, MatchPlaces DEF LinkOf
  <2>3. v[2] \in DOMAIN ops[v[1]].trigger
    BY <1>4, <2>2, WorkerPlaces
  <2>4. x[1] \in DOMAIN ops /\ v[1] \in DOMAIN ops /\ x[1] # v[1]
    <3>1. DOMAIN ops \subseteq Nat
      BY DEF TypedInv, Typed
    <3>. QED
      BY <1>4, <2>2, <3>1
  <2>5. f[x[1]] \in DOMAIN dag_config \ {f[v[1]]} /\ Enabled(dag_config[f[x[1]]])
    BY <1>2, <1>4, <2>4
  <2>6. Event(x) \in EventsOf(dag_config[f[x[1]]])
    BY <1>4 DEF Event, EventsOf
  <2>7. ops[v[1]] = dag_config[f[v[1]]]
    BY <1>4
  <2>. QED
    BY <2>2, <2>3, <2>5, <2>6, <2>7 DEF Triggered, Trigger
<1>6. ASSUME NEW v \in Outputs, Triggered(dag_config, f[v[1]], v[2])
      PROVE  Fed(v)
  <2>1. PICK j \in DOMAIN dag_config \ {f[v[1]]} :
             Enabled(dag_config[j]) /\ dag_config[f[v[1]]].trigger[v[2]] \in EventsOf(dag_config[j])
    BY <1>6 DEF Triggered
  <2>2. PICK n \in DOMAIN dag_config[j].output :
             dag_config[f[v[1]]].trigger[v[2]] = dag_config[j].output[n].event
    BY <2>1 DEF EventsOf
  <2>3. PICK a \in DOMAIN ops : Static(ops[a], dag_config[j])
    BY <2>1 DEF AllOn, Dealt
  <2>4. n \in DOMAIN ops[a].output /\ ops[a].output[n].event = dag_config[j].output[n].event
    BY <2>2, <2>3 DEF Static
  <2>5. a # v[1]
    <3>. SUFFICES ASSUME a = v[1] PROVE FALSE
      OBVIOUS
    <3>1. ops[a] = dag_config[f[v[1]]]
      BY <1>4
    <3>2. n \in DOMAIN dag_config[f[v[1]]].output
          /\ dag_config[f[v[1]]].output[n].event = dag_config[j].output[n].event
      BY <2>4, <3>1
    <3>3. f[v[1]] = j
      BY <1>3, <1>4, <2>1, <2>2, <3>2 DEF OneMaker
    <3>. QED
      BY <2>1, <3>3
  <2>6. v[2] \in DOMAIN ops[v[1]].trigger /\ ops[v[1]].trigger[v[2]] = ops[a].output[n].event
    BY <1>4, <1>6, <2>2, <2>4 DEF Triggered
  <2>7. a < v[1]
    BY <1>4, <2>4, <2>5, <2>6 DEF OpsDown
  <2>8. /\ <<a, n>> \in Outputs /\ v \in Workers /\ <<a, n>>[1] = a /\ <<a, n>>[2] = n
        /\ Event(<<a, n>>) = Trigger(v)
    BY <1>4, <2>4, <2>6, OutputPlaces, WorkerPlaces DEF Event, Trigger, Output
  <2>9. LinkOf(<<a, n>>, v) \in Matches
    BY <2>7, <2>8, LinkOfPlaces
  <2>. QED
    BY <2>8, <2>9 DEF Fed
<1>7. ASSUME NEW w \in Outputs, Feeds(w)
      PROVE  Triggering(dag_config, f[w[1]], w[2])
  <2>1. PICK v \in Workers : LinkOf(w, v) \in Matches
    BY <1>7 DEF Feeds
  <2>2. w[1] < v[1] /\ Event(w) = Trigger(v)
    BY <2>1, LinkOfPlaces
  <2>3. v[1] \in DOMAIN ops /\ v[2] \in DOMAIN ops[v[1]].trigger
    BY WorkerPlaces
  <2>4. w[1] # v[1]
    <3>1. DOMAIN ops \subseteq Nat
      BY DEF TypedInv, Typed
    <3>. QED
      BY <1>4, <2>2, <2>3, <3>1
  <2>5. f[v[1]] \in DOMAIN dag_config \ {f[w[1]]} /\ Enabled(dag_config[f[v[1]]])
    BY <1>2, <1>4, <2>3, <2>4
  <2>6. Event(w) \in Elements(dag_config[f[v[1]]].trigger)
    BY <1>1, <2>2, <2>3 DEF Trigger, Elements
  <2>. QED
    BY <1>4, <2>5, <2>6 DEF Triggering, Event
<1>8. ASSUME NEW v \in Outputs
      PROVE  PlainName(Output(v).data) /\ (Fed(v) => Output(v).data = None)
  <2>1. PlainName(Output(v).data)
    <3>1. Output(v).data \in [of : STRING, kind : {""}, hz : {0}, copies : {<<>>}]
      BY FileNames
    <3>. QED
      BY <3>1 DEF PlainName
  <2>2. ASSUME Fed(v) PROVE Output(v).data = None
    <3>1. Triggered(dag_config, f[v[1]], v[2])
      BY <1>5, <2>2
    <3>. QED
      BY <1>3, <1>4, <3>1 DEF SourcesNamed
  <2>. QED
    BY <2>1, <2>2
<1>9. ASSUME NEW u \in Outputs, NEW v \in Outputs, ~Fed(u), ~Fed(v), Same(u, v)
      PROVE  u = v
  <2>1. ~Triggered(dag_config, f[u[1]], u[2]) /\ ~Triggered(dag_config, f[v[1]], v[2])
    BY <1>6, <1>9
  <2>2. Feeds(u) /\ Feeds(v) =>
          Triggering(dag_config, f[u[1]], u[2]) /\ Triggering(dag_config, f[v[1]], v[2])
    BY <1>7
  <2>3. f[u[1]] = f[v[1]] /\ u[2] = v[2]
    BY <1>3, <1>4, <1>9, <2>1, <2>2 DEF SourcesNamed, Same
  <2>. QED
    BY <1>2, <1>4, <2>3
<1>. QED
  BY <1>8, <1>9

\* A link keeps its name as long as its output has the same data.
LEMMA LinkNameKept ==
    ASSUME SameFile, NEW w \in Outputs, NEW v \in Workers, NEW k, NEW data,
           LinkNamed(w, v, k, data), Output(w).data' = Output(w).data
    PROVE  LinkNamed(w, v, k, data)'
<1>1. PICK base \in DataNames :
           /\ IsBase(w, v, base)
           /\ data = CopyFor(base, w, k, IF v \in Outputs THEN "COPY" ELSE "END_COPY")
  BY DEF LinkNamed
<1>2. /\ Outputs' = Outputs /\ Event(w)' = Event(w)
      /\ v \in Outputs => Output(v).hz' = Output(v).hz
  BY SameShape
<1>3. ops'[w[1]].name = ops[w[1]].name
  BY OutputPlaces DEF SameFile, Static
<1>4. IsBase(w, v, base)'
  BY <1>1, <1>2 DEF IsBase
<1>5. CopyFor(base, w, k, IF v \in Outputs THEN "COPY" ELSE "END_COPY")' =
        CopyFor(base, w, k, IF v \in Outputs THEN "COPY" ELSE "END_COPY")
  BY <1>2, <1>3 DEF CopyFor
<1>. QED
  BY <1>1, <1>4, <1>5 DEF LinkNamed

\* Who feeds whom does not change with what is found out.
LEMMA FedKept ==
    ASSUME SameFile
    PROVE  \A u \in Outputs : Fed(u)' = Fed(u) /\ Feeds(u)' = Feeds(u)
BY SameShape DEF Fed, Feeds, LinkOf

\* Links from a worker come after those to it.
LEMMA FedFirst ==
    ASSUME TypedInv, stage = "link", NEW w \in Outputs, NEW v \in Workers, NEW x \in Outputs,
           LinkOf(w, v) \in todo, IsNext(LinkOf(w, v)), LinkOf(x, w) \in Matches
    PROVE  LinkOf(x, w) \in Done /\ w \in Workers
<1>0. DOMAIN ops \subseteq Nat
  BY DEF TypedInv, Typed
<1>1. w = <<w[1], w[2]>> /\ x = <<x[1], x[2]>> /\ w[1] \in DOMAIN ops /\ x[1] \in DOMAIN ops
  BY OutputPlaces
<1>2. /\ LinkOf(x, w)[1] = x[1] /\ LinkOf(x, w)[2] = w[1] /\ LinkOf(x, w)[3] = x[2] /\ LinkOf(x, w)[4] = w[2]
      /\ LinkOf(w, v)[1] = w[1]
      /\ 1 \in DOMAIN LinkOf(w, v) /\ DOMAIN LinkOf(w, v) \subseteq Nat \ {0}
  BY DEF LinkOf
<1>3. x[1] < w[1] /\ <<w[1], w[2]>> \in Workers
  BY <1>2, MatchPlaces
<1>4. LinkOf(x, w) \notin todo
  <2>. SUFFICES ASSUME LinkOf(x, w) \in todo PROVE FALSE
    OBVIOUS
  <2>1. LinkOf(x, w) # LinkOf(w, v)
    BY <1>0, <1>1, <1>2, <1>3
  <2>2. Before(LinkOf(w, v), LinkOf(x, w))
    BY <2>1 DEF IsNext
  <2>3. PICK k \in DOMAIN LinkOf(w, v) :
             /\ LinkOf(w, v)[k] < LinkOf(x, w)[k]
             /\ \A j \in 1 .. (k - 1) : LinkOf(w, v)[j] = LinkOf(x, w)[j]
    BY <2>2 DEF Before
  <2>4. k = 1 \/ 1 \in 1 .. (k - 1)
    BY <1>2, <2>3
  <2>. QED
    BY <1>0, <1>1, <1>2, <1>3, <2>3, <2>4
<1>. QED
  BY <1>1, <1>3, <1>4 DEF Done

\* A link gets the name it should have.
LEMMA LinkIsNamed ==
    ASSUME ops \in Seq(OperatorInfos), NEW w \in Outputs, NEW v \in Workers,
           v \in Outputs => Output(v).data = None /\ DataName(Output(w), Output(v)) # None
    PROVE  LinkNamed(w, v, Len(Down(w)) + 1, LinkData(w, v))
<1>0. Output(w) \in OutputInfos /\ Len(Down(w)) \in Nat /\ Output(w).data \in DataNames
  <2>1. Output(w) \in OutputInfos
    BY NamesTyped
  <2>2. Down(w) \in Seq(Downstreams) /\ Output(w).data \in DataNames
    BY <2>1 DEF OutputInfos, Down
  <2>. QED
    BY <2>1, <2>2
<1>1. ASSUME NEW base, NEW kind
      PROVE  Copied(base, w[1], w[2], kind) = CopyFor(base, w, Len(Down(w)) + 1, kind)
  <2>1. Len(Down(w)) = 0 <=> Len(Down(w)) + 1 = 1
    BY <1>0
  <2>2. Len(Down(w)) + 1 - 1 = Len(Down(w))
    BY <1>0
  <2>3. ops[w[1]].output[w[2]].downstream = Down(w)
    BY DEF Down, Output
  <2>. QED
    BY <2>1, <2>2, <2>3 DEF Copied, CopyFor
<1>2. CASE v \notin Outputs
  <2>1. LinkData(w, v) = CopyFor(Output(w).data, w, Len(Down(w)) + 1, "END_COPY")
    BY <1>1, <1>2 DEF LinkData
  <2>2. IsBase(w, v, Output(w).data)
    BY <1>2 DEF IsBase
  <2>. QED
    BY <1>0, <1>2, <2>1, <2>2 DEF LinkNamed
<1>3. CASE v \in Outputs
  <2>1. DataName(Output(w), Output(v)) \in DataNames
    BY <1>3, NamesTyped
  <2>2. LinkData(w, v) = CopyFor(DataName(Output(w), Output(v)), w, Len(Down(w)) + 1, "COPY")
    BY <1>1, <1>3 DEF LinkData
  <2>3. IsBase(w, v, DataName(Output(w), Output(v)))
    BY <1>3 DEF IsBase, DataName, Event, Name
  <2>. QED
    BY <1>3, <2>1, <2>2, <2>3 DEF LinkNamed
<1>. QED
  BY <1>2, <1>3

\* What the links so far say of names, they say after the next.
LEMMA NamedLinks ==
    ASSUME OneMaker, FileInv, OneUpstream, Named, Link, stage' = "link"
    PROVE  Named'
<1>0. TypedInv /\ Typed /\ LinksMade /\ ops \in Seq(OperatorInfos) /\ stage = "link" /\ stage \in Later
  BY DEF FileInv, StructInv, TypedInv, Typed, Link, Later
<1>1. PICK w \in Outputs, v \in Workers, d \in Downstreams :
           /\ w[1] < v[1] /\ Event(w) = Trigger(v)
           /\ LinkOf(w, v) \in todo /\ IsNext(LinkOf(w, v)) /\ todo' = todo \ {LinkOf(w, v)}
           /\ Linked(w, v, d)
  BY <1>0, LinkEffect DEF LinkOf
<1>2. /\ SameFile
      /\ \A u \in Outputs : Down(u)' = IF u = w THEN Append(Down(u), d) ELSE Down(u)
      /\ \A u \in Outputs :
           Output(u).data' = IF u = v /\ Output(u).data = None THEN d.data ELSE Output(u).data
      /\ Target(d) = v /\ d.data = LinkData(w, v) /\ d.hz = IF v \in Outputs THEN Output(v).hz ELSE 0
      /\ v \in Outputs => DataName(Output(w), Output(v)) # None
  BY <1>1 DEF Linked
<1>3. /\ Outputs' = Outputs /\ Workers' = Workers /\ Matches' = Matches
      /\ \A u \in Outputs : Output(u).hz' = Output(u).hz /\ Fed(u)' = Fed(u) /\ Feeds(u)' = Feeds(u)
  BY <1>2, SameShape, FedKept
<1>4. Done' = Done \cup {LinkOf(w, v)} /\ LinkOf(w, v) \notin Done
  BY <1>0, <1>1, <1>3, DoneGrows
<1>5. LinkOf(w, v) \in Matches
  BY <1>0, <1>1 DEF Typed
<1>6. \A x \in Outputs : LinkOf(x, v) \notin Done
  <2>. SUFFICES ASSUME NEW x \in Outputs, LinkOf(x, v) \in Done PROVE FALSE
    OBVIOUS
  <2>1. LinkOf(x, v) \in Matches
    BY <1>0 DEF Done
  <2>2. Event(x) = Event(w)
    BY <1>1, <2>1, LinkOfPlaces
  <2>3. x = w
    BY <1>0, <2>2, ByEvent DEF FileInv
  <2>. QED
    BY <1>4, <2>3
<1>7. v \in Outputs => Fed(v) /\ Output(v).data = None
  <2>. SUFFICES ASSUME v \in Outputs PROVE Fed(v) /\ Output(v).data = None
    OBVIOUS
  <2>1. Fed(v)
    BY <1>5 DEF Fed
  <2>. QED
    BY <1>0, <1>6, <2>1 DEF Named, Unlinked
<1>8. \A u \in Outputs : Output(u).data # None \/ ~Fed(u) => Output(u).data' = Output(u).data
  BY <1>2, <1>7
<1>9. Output(w).data # None \/ ~Fed(w)
  <2>. SUFFICES ASSUME Fed(w) PROVE Output(w).data # None
    OBVIOUS
  <2>1. PICK x \in Outputs : LinkOf(x, w) \in Matches
    BY DEF Fed
  <2>2. LinkOf(x, w) \in Done /\ w \in Workers
    BY <1>0, <1>1, <2>1, FedFirst
  <2>3. PICK k \in DOMAIN Down(x) : Target(Down(x)[k]) = w
    BY <1>0, <2>2 DEF LinksMade
  <2>4. Output(w).data = Down(x)[k].data
    BY <1>0, <2>2, <2>3 DEF Named
  <2>5. Down(x)[k].data # None
    BY <1>0, <2>2, <2>3 DEF OneUpstream, LinksEven
  <2>. QED
    BY <2>4, <2>5
<1>10. /\ Len(Down(w)) \in Nat
       /\ DOMAIN Append(Down(w), d) = DOMAIN Down(w) \cup {Len(Down(w)) + 1}
       /\ \A k \in DOMAIN Down(w) : Append(Down(w), d)[k] = Down(w)[k]
       /\ Append(Down(w), d)[Len(Down(w)) + 1] = d
  <2>1. Down(w) \in Seq(Downstreams)
    BY <1>0, NamesTyped DEF Down, OutputInfos
  <2>. QED
    BY <2>1, AppendFact
<1>11. ASSUME NEW u \in Outputs, Unlinked(u)'
       PROVE  PlainName(Output(u).data') /\ (Fed(u) => Output(u).data' = None)
  <2>1. \A x \in Outputs : LinkOf(x, u) \notin Done /\ LinkOf(x, u) # LinkOf(w, v)
    BY <1>3, <1>4, <1>11 DEF Unlinked, LinkOf
  <2>2. u # v
    BY <2>1
  <2>3. PlainName(Output(u).data) /\ (Fed(u) => Output(u).data = None)
    BY <1>0, <2>1 DEF Named, Unlinked
  <2>. QED
    BY <1>2, <2>2, <2>3
<1>unlinked. ASSUME NEW u \in Workers, Unlinked(u)'
       PROVE  TriggerName(u)' = None
  <2>1. \A x \in Outputs : LinkOf(x, u) \notin Done /\ LinkOf(x, u) # LinkOf(w, v)
    BY <1>3, <1>4, <1>unlinked DEF Unlinked, LinkOf
  <2>2. u # v
    BY <2>1
  <2>3. TriggerName(u) = None /\ TriggerName(u)' = TriggerName(u)
    BY <1>0, <1>1, <2>1, <2>2 DEF Named, Unlinked, Linked
  <2>. QED
    BY <2>3
<1>12. ASSUME NEW x \in Outputs, NEW u \in Outputs, ~Fed(x), ~Fed(u), Same(x, u)'
       PROVE  x = u
  <2>1. Same(x, u)
    BY <1>3, <1>8, <1>12 DEF Same
  <2>. QED
    BY <1>0, <1>12, <2>1 DEF Named
<1>13. ASSUME NEW x \in Outputs, NEW y \in Workers, NEW k \in DOMAIN Down(x), NEW e,
              e = Down(x)[k], Target(e) = y
       PROVE  /\ Output(x).data' # None \/ ~Fed(x)
              /\ LinkNamed(x, y, k, e.data)'
              /\ e.hz = IF y \in Outputs THEN Output(y).hz ELSE 0
              /\ y \in Outputs => Output(y).data' = e.data
  <2>1. /\ Output(x).data # None \/ ~Fed(x)
        /\ LinkNamed(x, y, k, e.data)
        /\ e.hz = IF y \in Outputs THEN Output(y).hz ELSE 0
        /\ y \in Outputs => Output(y).data = e.data
    BY <1>0, <1>13 DEF Named
  <2>2. Output(x).data' = Output(x).data
    BY <1>8, <2>1
  <2>3. y # v
    BY <1>0, <1>6, <1>13 DEF LinksMade
  <2>4. y \in Outputs => Output(y).data' = Output(y).data
    BY <1>2, <2>3
  <2>5. LinkNamed(x, y, k, e.data)'
    BY <1>2, <2>1, <2>2, LinkNameKept
  <2>. QED
    BY <2>1, <2>2, <2>4, <2>5
<1>last. PICK n : n = Len(Down(w)) + 1
  OBVIOUS
<1>14. /\ Output(w).data' # None \/ ~Fed(w)
       /\ LinkNamed(w, v, n, d.data)'
       /\ d.hz = IF v \in Outputs THEN Output(v).hz ELSE 0
       /\ v \in Outputs => Output(v).data' = d.data
  <2>2. LinkNamed(w, v, n, d.data)
    BY <1>0, <1>2, <1>7, <1>last, LinkIsNamed
  <2>3. Output(w).data' = Output(w).data
    BY <1>8, <1>9
  <2>4. LinkNamed(w, v, n, d.data)'
    BY <1>2, <2>2, <2>3, LinkNameKept
  <2>. QED
    BY <1>2, <1>7, <1>9, <2>3, <2>4
<1>15. ASSUME NEW x \in Outputs, NEW y \in Workers, NEW k \in DOMAIN Down(x)', NEW e,
              e = Down(x)'[k], Target(e) = y
       PROVE  /\ Output(x).data' # None \/ ~Fed(x)
              /\ LinkNamed(x, y, k, e.data)'
              /\ e.hz = IF y \in Outputs THEN Output(y).hz ELSE 0
              /\ y \in Outputs => Output(y).data' = e.data
  <2>1. CASE x # w \/ k \in DOMAIN Down(w)
    <3>1. k \in DOMAIN Down(x) /\ e = Down(x)[k]
      BY <1>2, <1>10, <1>15, <2>1
    <3>. QED
      BY <1>13, <1>15, <3>1
  <2>2. CASE x = w /\ k = n
    <3>1. e = d /\ y = v
      BY <1>2, <1>10, <1>last, <1>15, <2>2
    <3>. QED
      BY <1>14, <2>2, <3>1
  <2>. QED
    BY <1>2, <1>10, <1>15, <1>last, <2>1, <2>2
<1>. QED
  BY <1>3, <1>11, <1>12, <1>15, <1>unlinked DEF Named

\* Names stay as they are told.
LEMMA NamedKeeps ==
    ASSUME OneMaker, SourcesNamed, FileInv, OneUpstream, AllOn, Named, [Next]_vars
    PROVE  Named'
<1>0. TypedInv /\ Typed /\ LinksMade /\ FromFile /\ ops \in Seq(OperatorInfos)
  BY DEF FileInv, StructInv, TypedInv, Typed
<1>. SUFFICES ASSUME stage' \in Later PROVE Named'
  BY DEF Named
<1>1. CASE Parse
  <2>1. /\ SameFile /\ stage = "parse" /\ stage' = "link" /\ todo' = Matches
        /\ \A w \in Outputs : Down(w)' = <<>> /\ Output(w).data' = Output(w).data
        /\ \A v \in Workers : TriggerName(v)' = None
    BY <1>0, <1>1, ParseEffect DEF Later
  <2>2. /\ Outputs' = Outputs /\ Workers' = Workers /\ Matches' = Matches
        /\ \A u \in Outputs : Fed(u)' = Fed(u) /\ Feeds(u)' = Feeds(u)
    BY <2>1, SameShape, FedKept
  <2>3. OpsDown
    BY <2>1, LinksFollow DEF FileInv, Downwards
  <2>4. /\ \A v \in Outputs :
             PlainName(Output(v).data) /\ (Fed(v) => Output(v).data = None)
        /\ \A u, v \in Outputs : ~Fed(u) /\ ~Fed(v) /\ Same(u, v) => u = v
    BY <1>0, <2>1, <2>3, SourcesFound
  <2>5. \A u, v \in Outputs : Same(u, v)' = Same(u, v)
    BY <2>1, <2>2 DEF Same
  <2>. QED
    BY <2>1, <2>2, <2>4, <2>5 DEF Named
<1>2. CASE Link
  <2>1. stage' = "link"
    BY <1>0, <1>2, LinkEffect DEF Later
  <2>. QED
    BY <1>2, <2>1, NamedLinks
<1>3. CASE SetReference
  <2>1. /\ stage = "link" /\ todo = {} /\ stage' = "register" /\ SameFile
        /\ \A w \in Outputs : Down(w)' = Down(w) /\ Output(w).data' = Output(w).data
        /\ \A v \in Workers : TriggerName(v)' = TriggerName(v)
    BY <1>0, <1>3, ReferenceEffect
  <2>2. /\ Outputs' = Outputs /\ Workers' = Workers /\ Matches' = Matches
        /\ \A u \in Outputs : Fed(u)' = Fed(u) /\ Feeds(u)' = Feeds(u) /\ Output(u).hz' = Output(u).hz
    BY <2>1, SameShape, FedKept
  <2>3. Done' = Done
    BY <2>1, <2>2 DEF Done
  <2>4. /\ \A u, v \in Outputs : Same(u, v)' = Same(u, v)
        /\ \A u : Unlinked(u)' = Unlinked(u)
    BY <2>1, <2>2, <2>3 DEF Same, Unlinked, LinkOf
  <2>5. ASSUME NEW w \in Outputs, NEW v \in Workers, NEW k \in DOMAIN Down(w), NEW d,
               d = Down(w)[k], Target(d) = v
        PROVE  /\ Output(w).data # None \/ ~Fed(w)
               /\ LinkNamed(w, v, k, d.data)'
               /\ d.hz = IF v \in Outputs THEN Output(v).hz ELSE 0
               /\ v \in Outputs => Output(v).data = d.data
    <3>1. /\ Output(w).data # None \/ ~Fed(w)
          /\ LinkNamed(w, v, k, d.data)
          /\ d.hz = IF v \in Outputs THEN Output(v).hz ELSE 0
          /\ v \in Outputs => Output(v).data = d.data
      BY <2>1, <2>5 DEF Named, Later
    <3>2. LinkNamed(w, v, k, d.data)'
      BY <2>1, <3>1, LinkNameKept
    <3>. QED
      BY <3>1, <3>2
  <2>. QED
    BY <2>1, <2>2, <2>4, <2>5 DEF Named, Later
<1>4. CASE ops' = ops /\ Done' = Done /\ stage \in Later
  <2>1. SameFile
    BY <1>4 DEF SameFile, Static
  <2>2. /\ Outputs' = Outputs /\ Workers' = Workers /\ Matches' = Matches
        /\ \A w : /\ Output(w)' = Output(w) /\ Down(w)' = Down(w)
                  /\ TriggerName(w)' = TriggerName(w)
        /\ \A u \in Outputs : Fed(u)' = Fed(u) /\ Feeds(u)' = Feeds(u)
    BY <1>4, <2>1, SameOps, FedKept
  <2>3. /\ \A u, v \in Outputs : Same(u, v)' = Same(u, v)
        /\ \A u : Unlinked(u)' = Unlinked(u)
    BY <1>4, <2>2 DEF Same, Unlinked, LinkOf
  <2>4. \A w \in Outputs, v \in Workers : \A k, data : LinkNamed(w, v, k, data) => LinkNamed(w, v, k, data)'
    BY <2>1, <2>2, LinkNameKept
  <2>. QED
    BY <1>4, <2>2, <2>3, <2>4 DEF Named
<1>5. CASE ops' = ops /\ stage \in Settled /\ stage' \in Settled
  <2>1. Done' = Done /\ stage \in Later
    BY <1>5, SameOps DEF Done, Settled, Later
  <2>. QED
    BY <1>4, <1>5, <2>1
<1>6. CASE ops' = ops /\ stage' = stage /\ todo' = todo
  <2>1. Done' = Done
    BY <1>6, SameOps DEF Done
  <2>. QED
    BY <1>4, <1>6, <2>1
<1>. QED
  BY <1>0, <1>1, <1>2, <1>3, <1>5, <1>6, LinkingSteps

-----------------------------------------------------------------------------
(* Who puts frames where.                                                  *)

\* The names of operators are their own: whatever is registered under one is its.
NamesDiffer == \A i, j \in DOMAIN ops : ops[i].name = ops[j].name => i = j

\* What is known of names when all links are there.
SettledNames ==
    /\ OneMaker /\ FileInv /\ OneUpstream /\ Named
    /\ stage \in Settled /\ NamesDiffer

\* The kth downstream of output w is worker v.
Goes(w, v, k) == w \in Outputs /\ v \in Workers /\ k \in DOMAIN Down(w) /\ Target(Down(w)[k]) = v

\* It goes by the name of w's data themselves.
Inherited(w, v, k) ==
    k = 1 /\ (v \in Outputs => ~(Output(v).hz > 0) /\ Output(w).data # None)

\* What goes on of a link.
LEMMA LinkFacts ==
    ASSUME SettledNames, NEW w, NEW v, NEW k, Goes(w, v, k)
    PROVE  /\ w[1] \in Nat /\ v[1] \in Nat /\ w[1] < v[1] /\ Feeds(w) /\ k \in Nat \ {0}
           /\ v \in Outputs => Fed(v) /\ Output(v).data = Down(w)[k].data /\ Output(v).data # None
           /\ Output(w).data # None \/ ~Fed(w)
           /\ Output(w).data \in DataNames
           /\ LinkNamed(w, v, k, Down(w)[k].data)
           /\ TriggerName(v) = Down(w)[k].data
           /\ Down(w)[k].hz = IF v \in Outputs THEN Output(v).hz ELSE 0
<1>0. stage \in Later /\ Done = Matches /\ ops \in Seq(OperatorInfos) /\ LinksMade
  BY DEF SettledNames, FileInv, StructInv, TypedInv, Typed, Later, Settled, Done
<1>1. w \in Outputs /\ v \in Workers /\ k \in DOMAIN Down(w) /\ Target(Down(w)[k]) = v
  BY DEF Goes
<1>2. LinkOf(w, v) \in Matches
  BY <1>0, <1>1 DEF LinksMade
<1>3. w[1] < v[1] /\ Feeds(w) /\ (v \in Outputs => Fed(v))
  BY <1>1, <1>2, LinkOfPlaces DEF Feeds, Fed
<1>4. w[1] \in Nat /\ v[1] \in Nat
  BY <1>0, <1>1, OutputPlaces, WorkerPlaces
<1>5. /\ Output(w).data # None \/ ~Fed(w)
      /\ LinkNamed(w, v, k, Down(w)[k].data)
      /\ Down(w)[k].hz = IF v \in Outputs THEN Output(v).hz ELSE 0
      /\ v \in Outputs => Output(v).data = Down(w)[k].data
  BY <1>0, <1>1 DEF SettledNames, Named
<1>6. TriggerName(v) = Down(w)[k].data /\ (v \in Outputs => Down(w)[k].data # None)
  BY <1>0, <1>1 DEF SettledNames, OneUpstream, LinksEven
<1>7. Output(w) \in OutputInfos
  BY <1>0, <1>1, NamesTyped
<1>8. Output(w).data \in DataNames /\ Down(w) \in Seq(Downstreams)
  BY <1>7 DEF OutputInfos, Down
<1>9. k \in Nat \ {0}
  BY <1>1, <1>8
<1>. QED
  BY <1>3, <1>4, <1>5, <1>6, <1>8, <1>9

\* A worker has but one link.
LEMMA OneLink ==
    ASSUME SettledNames, NEW w, NEW x, NEW v, NEW j, NEW k, Goes(w, v, j), Goes(x, v, k)
    PROVE  w = x /\ j = k
<1>1. stage \in Later
  BY DEF SettledNames, Later, Settled
<1>. QED
  BY <1>1, OneOutput DEF SettledNames, Goes

\* Who is fed has one.
LEMMA FedFacts ==
    ASSUME SettledNames, NEW v \in Outputs, Fed(v)
    PROVE  \E w, k : Goes(w, v, k)
<1>0. stage \in Later /\ Done = Matches /\ LinksMade
  BY DEF SettledNames, FileInv, StructInv, Later, Settled, Done
<1>1. PICK w \in Outputs : LinkOf(w, v) \in Matches
  BY DEF Fed
<1>2. v \in Workers
  <2>1. /\ LinkOf(w, v)[2] = v[1] /\ LinkOf(w, v)[4] = v[2]
    BY DEF LinkOf
  <2>2. <<v[1], v[2]>> \in Workers
    BY <1>1, <2>1, MatchPlaces
  <2>. QED
    BY <2>2, OutputPlaces
<1>. QED
  BY <1>0, <1>1, <1>2 DEF LinksMade, Goes

\* The data of sources have plain names of their own.
LEMMA SourceFacts ==
    ASSUME SettledNames, NEW v \in Outputs, ~Fed(v)
    PROVE  /\ PlainName(Output(v).data)
           /\ \A u \in Outputs : ~Fed(u) /\ Same(u, v) => u = v
<1>1. stage \in Later /\ Done = Matches
  BY DEF SettledNames, Later, Settled, Done
<1>. QED
  BY <1>1 DEF SettledNames, Named, Unlinked, Fed

\* A worker that is not fed has no data to work on but its own.
LEMMA UnfedFacts ==
    ASSUME SettledNames, NEW v \in Workers, \A w, k : ~Goes(w, v, k)
    PROVE  TriggerName(v) = None
<1>1. stage \in Later /\ Done = Matches /\ LinksMade
  BY DEF SettledNames, FileInv, StructInv, Later, Settled, Done
<1>2. Unlinked(v)
  BY <1>1 DEF Unlinked, LinksMade, Goes
<1>. QED
  BY <1>1, <1>2 DEF SettledNames, Named

\* Sequences that end differently are different.
LEMMA AppendSame ==
    ASSUME NEW S, NEW s \in Seq(S), NEW t \in Seq(S), NEW a \in S, NEW b \in S,
           Append(s, a) = Append(t, b)
    PROVE  s = t /\ a = b
<1>1. /\ Len(Append(s, a)) = Len(s) + 1 /\ Len(Append(t, b)) = Len(t) + 1
      /\ Len(s) \in Nat /\ Len(t) \in Nat
  OBVIOUS
<1>2. Len(s) = Len(t)
  BY <1>1
<1>3. Append(s, a)[Len(s) + 1] = a /\ Append(t, b)[Len(t) + 1] = b
  OBVIOUS
<1>4. a = b
  BY <1>2, <1>3
<1>5. \A k \in 1 .. Len(s) : Append(s, a)[k] = s[k] /\ Append(t, b)[k] = t[k]
  BY <1>2
<1>6. s = [k \in 1 .. Len(s) |-> s[k]] /\ t = [k \in 1 .. Len(t) |-> t[k]]
  OBVIOUS
<1>7. s = t
  BY <1>2, <1>5, <1>6
<1>. QED
  BY <1>4, <1>7

\* What is known of a copy.
LEMMA CopyFacts ==
    ASSUME NEW base \in DataNames, NEW w, NEW k \in Nat \ {0}, NEW kind \in Strings, ops[w[1]].name \in Strings
    PROVE  /\ CopyFor(base, w, k, kind).of = base.of
           /\ CopyFor(base, w, k, kind).kind = base.kind
           /\ CopyFor(base, w, k, kind).hz = base.hz
           /\ k = 1 => CopyFor(base, w, k, kind) = base
           /\ k # 1 => CopyFor(base, w, k, kind).copies # <<>>
<1>. DEFINE E == [nth : Nat, of : Strings, kind : Strings]
            copy == [nth |-> k - 1, of |-> ops[w[1]].name, kind |-> kind]
<1>1. copy \in E /\ base.copies \in Seq(E)
  <2>1. k - 1 \in Nat
    OBVIOUS
  <2>2. base.copies \in Seq(E)
    BY DEF DataNames
  <2>3. copy \in E
    BY <2>1
  <2>. QED
    BY <2>2, <2>3
<1>2. /\ CopyFor(base, w, k, kind).of = base.of
      /\ CopyFor(base, w, k, kind).kind = base.kind
      /\ CopyFor(base, w, k, kind).hz = base.hz
      /\ k = 1 => CopyFor(base, w, k, kind) = base
      /\ k # 1 => CopyFor(base, w, k, kind).copies = Append(base.copies, copy)
  BY DEF CopyFor, DataNames
<1>. HIDE DEF E, copy
<1>3. Append(base.copies, copy) # <<>>
  BY <1>1, AppendFact
<1>. QED
  BY <1>2, <1>3

\* It tells of what it is one, whose and the how manieth.
LEMMA CopySame ==
    ASSUME NEW base \in DataNames, NEW w, NEW j \in Nat \ {0}, NEW kind \in Strings, ops[w[1]].name \in Strings,
           NEW other \in DataNames, NEW x, NEW k \in Nat \ {0}, NEW sort \in Strings, ops[x[1]].name \in Strings,
           j # 1, k # 1, CopyFor(base, w, j, kind) = CopyFor(other, x, k, sort)
    PROVE  other = base /\ j = k /\ ops[w[1]].name = ops[x[1]].name
<1>. DEFINE E == [nth : Nat, of : Strings, kind : Strings]
            one == [nth |-> j - 1, of |-> ops[w[1]].name, kind |-> kind]
            two == [nth |-> k - 1, of |-> ops[x[1]].name, kind |-> sort]
<1>1. one \in E /\ two \in E
  <2>1. j - 1 \in Nat /\ k - 1 \in Nat
    OBVIOUS
  <2>. QED
    BY <2>1
<1>2. base.copies \in Seq(E) /\ other.copies \in Seq(E)
  BY DEF DataNames
<1>3. /\ base.of = other.of /\ base.kind = other.kind /\ base.hz = other.hz
      /\ CopyFor(base, w, j, kind).copies = Append(base.copies, one)
      /\ CopyFor(other, x, k, sort).copies = Append(other.copies, two)
  <2>1. /\ base.of = other.of /\ base.kind = other.kind /\ base.hz = other.hz
    <3>1. /\ CopyFor(base, w, j, kind).of = base.of /\ CopyFor(base, w, j, kind).kind = base.kind
          /\ CopyFor(base, w, j, kind).hz = base.hz
      BY CopyFacts
    <3>2. /\ CopyFor(other, x, k, sort).of = other.of /\ CopyFor(other, x, k, sort).kind = other.kind
          /\ CopyFor(other, x, k, sort).hz = other.hz
      BY CopyFacts
    <3>. QED
      BY <3>1, <3>2
  <2>2. CopyFor(base, w, j, kind).copies = Append(base.copies, one)
    BY DEF CopyFor, DataNames
  <2>3. CopyFor(other, x, k, sort).copies = Append(other.copies, two)
    BY DEF CopyFor, DataNames
  <2>. QED
    BY <2>1, <2>2, <2>3
<1>4. base.copies = other.copies /\ one = two
  <2>1. Append(base.copies, one) = Append(other.copies, two)
    BY <1>3
  <2>. HIDE DEF E, one, two
  <2>2. PICK s \in Seq(E) : s = base.copies
    BY <1>2
  <2>3. PICK t \in Seq(E) : t = other.copies
    BY <1>2
  <2>4. Append(s, one) = Append(t, two)
    BY <2>1, <2>2, <2>3
  <2>5. s = t /\ one = two
    BY <1>1, <2>4, AppendSame
  <2>. QED
    BY <2>2, <2>3, <2>5
<1>5. one.nth = j - 1 /\ two.nth = k - 1 /\ one.of = ops[w[1]].name /\ two.of = ops[x[1]].name
  OBVIOUS
<1>6. j = k /\ ops[w[1]].name = ops[x[1]].name
  <2>. HIDE DEF one, two
  <2>. QED
    BY <1>4, <1>5
<1>7. other = base
  BY <1>3, <1>4 DEF DataNames
<1>. QED
  BY <1>6, <1>7

\* The names of operators, each its own.
LEMMA OperatorNames ==
    ASSUME SettledNames
    PROVE  /\ \A w \in Outputs : w[1] \in DOMAIN ops /\ w[1] \in Nat /\ ops[w[1]].name \in Strings
           /\ \A i, j \in DOMAIN ops : ops[i].name = ops[j].name => i = j
<1>1. \A i, j \in DOMAIN ops : ops[i].name = ops[j].name => i = j
  BY DEF SettledNames, NamesDiffer
<1>2. \A w \in Outputs : w[1] \in DOMAIN ops /\ w[1] \in Nat /\ ops[w[1]] \in OperatorInfos
  BY OutputPlaces DEF SettledNames, FileInv, StructInv, TypedInv, Typed
<1>3. \A o \in OperatorInfos : o.name \in Strings
  BY DEF OperatorInfos
<1>. QED
  BY <1>1, <1>2, <1>3

\* What a link that has a name of its own is made from.
Own(w, v, base) ==
    /\ v \in Outputs /\ base.copies = <<>>
    /\ \/ base.kind = "CACHED_DATA" /\ base.of = Event(w)
       \/ base.kind = "DATA" /\ Output(w).data = None

\* The data of a link are those of its output, or have a name of their own, or are a
\* copy of one of these.
LEMMA LinkBase ==
    ASSUME SettledNames, NEW w, NEW v, NEW k, Goes(w, v, k)
    PROVE  \E base \in DataNames :
             /\ Down(w)[k].data.of = base.of /\ Down(w)[k].data.kind = base.kind
             /\ Down(w)[k].data.hz = base.hz
             /\ k = 1 => Down(w)[k].data = base
             /\ k # 1 => Down(w)[k].data.copies # <<>>
             /\ \/ base = Output(w).data /\ (k = 1 => Inherited(w, v, k))
                \/ Own(w, v, base) /\ ~Inherited(w, v, k)
             /\ \E kind \in Strings : Down(w)[k].data = CopyFor(base, w, k, kind)
<1>1. LinkNamed(w, v, k, Down(w)[k].data) /\ k \in Nat \ {0} /\ w \in Outputs
  BY LinkFacts DEF Goes
<1>2. ops[w[1]].name \in Strings
  BY <1>1, OperatorNames
<1>3. PICK base \in DataNames, kind \in Strings :
           IsBase(w, v, base) /\ Down(w)[k].data = CopyFor(base, w, k, kind)
  BY <1>1 DEF LinkNamed, Strings
<1>4. /\ CopyFor(base, w, k, kind).of = base.of
      /\ CopyFor(base, w, k, kind).kind = base.kind
      /\ CopyFor(base, w, k, kind).hz = base.hz
      /\ k = 1 => CopyFor(base, w, k, kind) = base
      /\ k # 1 => CopyFor(base, w, k, kind).copies # <<>>
  BY <1>1, <1>2, CopyFacts
<1>5. \/ base = Output(w).data /\ (k = 1 => Inherited(w, v, k))
      \/ Own(w, v, base) /\ ~Inherited(w, v, k)
  <2>1. CASE v \in Outputs /\ Output(v).hz > 0
    BY <1>3, <2>1 DEF IsBase, Own, Inherited, Name
  <2>2. CASE ~(v \in Outputs /\ Output(v).hz > 0) /\ (v \notin Outputs \/ Output(w).data # None)
    BY <1>3, <2>2 DEF IsBase, Inherited
  <2>3. CASE v \in Outputs /\ ~(Output(v).hz > 0) /\ Output(w).data = None
    BY <1>3, <2>3 DEF IsBase, Own, Inherited
  <2>. QED
    BY <2>1, <2>2, <2>3
<1>. QED
  BY <1>3, <1>4, <1>5

\* A name of its own tells whose it is.
LEMMA OwnFacts ==
    ASSUME SettledNames, NEW w, NEW x, NEW v, NEW u, NEW j, NEW k, Goes(w, v, j), Goes(x, u, k),
           NEW base, NEW other, Own(w, v, base), Own(x, u, other),
           base.kind = other.kind, base.of = other.of
    PROVE  w = x
<1>1. w \in Outputs /\ x \in Outputs
  BY DEF Goes
<1>2. CASE base.kind = "CACHED_DATA"
  <2>1. Event(w) = Event(x)
    BY <1>2 DEF Own
  <2>. QED
    BY <1>1, <2>1, ByEvent DEF SettledNames, FileInv, StructInv
<1>3. CASE base.kind = "DATA"
  <2>1. Output(w).data = None /\ Output(x).data = None
    BY <1>3 DEF Own
  <2>2. ~Fed(w) /\ ~Fed(x) /\ Feeds(w) /\ Feeds(x)
    BY <2>1, LinkFacts
  <2>. QED
    BY <1>1, <2>1, <2>2, SourceFacts DEF Same
<1>. QED
  BY <1>2, <1>3 DEF Own

\* An order of numbers.
LEMMA Less == \A a, b, c \in Nat : (a < b /\ b < c => a < c) /\ ~(a < b /\ b <= a)
OBVIOUS

\* Whatever is not named by the file has its name from a link further up.
LEMMA NamedAbove ==
    ASSUME SettledNames, NEW x \in Outputs, Output(x).data.kind # ""
    PROVE  \E u, t, k, base : /\ Goes(u, t, k) /\ u[1] < x[1] /\ Own(u, t, base)
                              /\ base.kind = Output(x).data.kind /\ base.of = Output(x).data.of
<1>. DEFINE Good(y) == \E u, t, k, base : /\ Goes(u, t, k) /\ u[1] < y[1] /\ Own(u, t, base)
                                          /\ base.kind = Output(y).data.kind /\ base.of = Output(y).data.of
            Bad == {y \in Outputs : Output(y).data.kind # "" /\ ~Good(y)}
            T == {y[1] : y \in Bad}
<1>1. SUFFICES ASSUME Bad # {} PROVE FALSE
  BY <1>1
<1>0. \A y \in Outputs : y[1] \in Nat
  BY OperatorNames
<1>. HIDE DEF Good
<1>2. PICK n \in T : \A m \in T : n <= m
  <2>1. T \in SUBSET Nat /\ T # {}
    BY <1>0, <1>1
  <2>. HIDE DEF T
  <2>. QED
    BY <2>1, LeastNumber
<1>3. PICK y \in Bad : \A z \in Bad : y[1] <= z[1]
  BY <1>2
<1>4. y \in Outputs /\ Output(y).data.kind # "" /\ ~Good(y)
  BY <1>3
<1>5. \A z \in Outputs : z[1] < y[1] /\ Output(z).data.kind # "" => Good(z)
  <2>. SUFFICES ASSUME NEW z \in Outputs, z[1] < y[1], Output(z).data.kind # "", ~Good(z) PROVE FALSE
    OBVIOUS
  <2>1. z \in Bad
    OBVIOUS
  <2>2. y[1] <= z[1]
    BY <1>3, <2>1
  <2>3. y[1] \in Nat /\ z[1] \in Nat
    BY <1>0, <1>4
  <2>4. z[1] < y[1]
    OBVIOUS
  <2>. QED
    BY <2>2, <2>3, <2>4, Less
<1>. HIDE DEF Bad, T
<1>6. Fed(y)
  BY <1>4, SourceFacts DEF PlainName
<1>7. PICK w, k : Goes(w, y, k)
  BY <1>4, <1>6, FedFacts
<1>8. w[1] < y[1] /\ w[1] \in Nat /\ y[1] \in Nat /\ Output(y).data = Down(w)[k].data /\ w \in Outputs
  BY <1>4, <1>7, LinkFacts DEF Goes
<1>9. PICK base \in DataNames :
           /\ Down(w)[k].data.of = base.of /\ Down(w)[k].data.kind = base.kind
           /\ \/ base = Output(w).data
              \/ Own(w, y, base)
  BY <1>7, LinkBase
<1>10. CASE Own(w, y, base)
  <2>1. Good(y)
    BY <1>7, <1>8, <1>9, <1>10 DEF Good
  <2>. QED
    BY <1>4, <2>1
<1>11. CASE base = Output(w).data
  <2>1. Good(w)
    BY <1>4, <1>5, <1>8, <1>9, <1>11
  <2>2. PICK u, t, l, own : /\ Goes(u, t, l) /\ u[1] < w[1] /\ Own(u, t, own)
                            /\ own.kind = Output(w).data.kind /\ own.of = Output(w).data.of
    BY <2>1 DEF Good
  <2>3. u[1] < y[1]
    <3>1. u[1] \in Nat
      BY <2>2, LinkFacts
    <3>2. u[1] < w[1] /\ w[1] < y[1] /\ w[1] \in Nat /\ y[1] \in Nat
      BY <1>8, <2>2
    <3>. QED
      BY <3>1, <3>2, Less
  <2>4. Good(y)
    BY <1>8, <1>9, <1>11, <2>2, <2>3 DEF Good
  <2>. QED
    BY <1>4, <2>4
<1>. QED
  BY <1>9, <1>10, <1>11

\* Two links whose data have names that are not inherited do not have the same, if no two
\* outputs of one operator have the same data.
LEMMA OneMakerOf ==
    ASSUME SettledNames, NEW w, NEW x, NEW v, NEW u, NEW j, NEW k, Goes(w, v, j), Goes(x, u, k),
           ~Inherited(w, v, j), ~Inherited(x, u, k),
           Down(w)[j].data = Down(x)[k].data,
           w[1] = x[1] /\ Output(w).data = Output(x).data /\ Output(w).data # None => w = x
    PROVE  w = x /\ j = k
<1>0. /\ j \in Nat \ {0} /\ k \in Nat \ {0} /\ w \in Outputs /\ x \in Outputs
      /\ w[1] \in Nat /\ x[1] \in Nat
  BY LinkFacts DEF Goes
<1>1. PICK base \in DataNames :
             /\ Down(w)[j].data.of = base.of /\ Down(w)[j].data.kind = base.kind
             /\ j = 1 => Down(w)[j].data = base
             /\ j # 1 => Down(w)[j].data.copies # <<>>
             /\ \/ base = Output(w).data /\ j # 1
                \/ Own(w, v, base)
             /\ \E kind \in Strings : Down(w)[j].data = CopyFor(base, w, j, kind)
  BY LinkBase
<1>2. PICK other \in DataNames :
             /\ Down(x)[k].data.of = other.of /\ Down(x)[k].data.kind = other.kind
             /\ k = 1 => Down(x)[k].data = other
             /\ k # 1 => Down(x)[k].data.copies # <<>>
             /\ \/ other = Output(x).data /\ k # 1
                \/ Own(x, u, other)
             /\ \E kind \in Strings : Down(x)[k].data = CopyFor(other, x, k, kind)
  BY LinkBase
<1>3. CASE j = 1 \/ k = 1
  <2>1. j = 1 /\ k = 1
    BY <1>1, <1>2, <1>3 DEF Own
  <2>2. Own(w, v, base) /\ Own(x, u, other) /\ base.kind = other.kind /\ base.of = other.of
    BY <1>1, <1>2, <2>1
  <2>3. w = x
    BY <2>2, OwnFacts
  <2>. QED
    BY <2>1, <2>3
<1>4. CASE j # 1 /\ k # 1
  <2>1. other = base /\ j = k /\ ops[w[1]].name = ops[x[1]].name
    <3>1. ops[w[1]].name \in Strings /\ ops[x[1]].name \in Strings
      BY <1>0, OperatorNames
    <3>2. PICK kind \in Strings : Down(w)[j].data = CopyFor(base, w, j, kind)
      BY <1>1
    <3>3. PICK sort \in Strings : Down(x)[k].data = CopyFor(other, x, k, sort)
      BY <1>2
    <3>4. CopyFor(base, w, j, kind) = CopyFor(other, x, k, sort)
      BY <3>2, <3>3
    <3>. QED
      BY <1>0, <1>4, <3>1, <3>4, CopySame, SMTT(100)
  <2>2. w[1] = x[1]
    BY <1>0, <2>1, OperatorNames
  <2>3. CASE base = Output(w).data /\ other = Output(x).data
    <3>1. CASE base # None
      BY <2>1, <2>2, <2>3, <3>1
    <3>2. CASE base = None
      <4>1. ~Fed(w) /\ ~Fed(x) /\ Feeds(w) /\ Feeds(x)
        <5>1. Output(w).data = None /\ Output(x).data = None
          BY <2>1, <2>3, <3>2
        <5>2. ~Fed(w) /\ Feeds(w)
          BY <5>1, LinkFacts
        <5>3. ~Fed(x) /\ Feeds(x)
          BY <5>1, LinkFacts
        <5>. QED
          BY <5>2, <5>3
      <4>2. w = x
        BY <1>0, <2>1, <2>3, <4>1, SourceFacts DEF Same
      <4>. QED
        BY <2>1, <4>2
    <3>. QED
      BY <3>1, <3>2
  <2>4. CASE Own(w, v, base) /\ Own(x, u, other)
    BY <2>1, <2>4, OwnFacts
  <2>5. ASSUME NEW a, NEW b, NEW c, NEW d, Goes(a, b, c), Own(a, b, base), d \in Outputs, a[1] = d[1],
               base = Output(d).data, a[1] \in Nat
        PROVE  FALSE
    <3>1. base.kind # ""
      BY <2>5 DEF Own
    <3>2. PICK e, f, g, own : /\ Goes(e, f, g) /\ e[1] < d[1] /\ Own(e, f, own)
                              /\ own.kind = base.kind /\ own.of = base.of
      BY <2>5, <3>1, NamedAbove
    <3>3. e = a
      BY <2>5, <3>2, OwnFacts
    <3>. QED
      BY <2>5, <3>2, <3>3
  <2>6. CASE Own(w, v, base) /\ other = Output(x).data
    BY <1>0, <2>1, <2>2, <2>5, <2>6
  <2>7. CASE base = Output(w).data /\ Own(x, u, other)
    BY <1>0, <2>1, <2>2, <2>5, <2>7
  <2>. QED
    BY <1>1, <1>2, <2>3, <2>4, <2>6, <2>7
<1>. QED
  BY <1>3, <1>4

\* The first downstream of w, which goes by the name of w's data and hands them on.
Heir(w, v) == v \in Outputs /\ Goes(w, v, 1) /\ Inherited(w, v, 1)

\* What is known of an heir.
LEMMA HeirFacts ==
    ASSUME SettledNames, NEW w, NEW v, Heir(w, v)
    PROVE  /\ w \in Outputs /\ v \in Outputs /\ Fed(v)
           /\ w[1] \in Nat /\ v[1] \in Nat /\ w[1] < v[1]
           /\ Output(v).data = Output(w).data
<1>1. Goes(w, v, 1) /\ Inherited(w, v, 1) /\ v \in Outputs /\ w \in Outputs
  BY DEF Heir, Goes
<1>2. /\ w[1] \in Nat /\ v[1] \in Nat /\ w[1] < v[1]
      /\ Fed(v) /\ Output(v).data = Down(w)[1].data
  BY <1>1, LinkFacts
<1>3. PICK base \in DataNames :
           Down(w)[1].data = base /\ (base = Output(w).data \/ ~Inherited(w, v, 1))
  BY <1>1, LinkBase
<1>. QED
  BY <1>1, <1>2, <1>3

\* Whoever hands on what it is given is an heir, or its data have got a name of their own.
LEMMA HeirOrNot ==
    ASSUME SettledNames, NEW w, NEW v \in Outputs, NEW k, Goes(w, v, k)
    PROVE  \/ Heir(w, v)
           \/ ~Inherited(w, v, k) /\ ~PlainName(Output(v).data)
<1>1. Output(v).data = Down(w)[k].data
  BY LinkFacts
<1>2. PICK base \in DataNames :
           /\ Down(w)[k].data.kind = base.kind
           /\ k = 1 => Down(w)[k].data = base
           /\ k # 1 => Down(w)[k].data.copies # <<>>
           /\ \/ base = Output(w).data /\ (k = 1 => Inherited(w, v, k))
              \/ Own(w, v, base) /\ ~Inherited(w, v, k)
  BY LinkBase
<1>3. CASE k = 1
  <2>1. CASE Inherited(w, v, k)
    BY <1>3, <2>1 DEF Heir
  <2>2. CASE Own(w, v, base) /\ ~Inherited(w, v, k)
    BY <1>1, <1>2, <1>3, <2>2 DEF Own, PlainName
  <2>. QED
    BY <1>2, <1>3, <2>1, <2>2
<1>4. CASE k # 1
  BY <1>1, <1>2, <1>4 DEF Inherited, PlainName
<1>. QED
  BY <1>3, <1>4

\* Two outputs with the same data, the second not above the first.
Alike(x, y) ==
    /\ x \in Outputs /\ y \in Outputs /\ x # y /\ x[1] <= y[1]
    /\ Output(x).data = Output(y).data /\ Output(x).data # None

\* Then one has been handed on to the other, along a line that begins with x's heir.
Line(x, y) ==
    /\ \E w : Heir(w, y)
    /\ \E z : Heir(x, z) /\ (z = y \/ z[1] < y[1])

\* If that is so of all that are above them, it is so of two.
LEMMA LineStep ==
    ASSUME SettledNames, NEW x, NEW y, Alike(x, y),
           \A a, b : Alike(a, b) /\ a[1] + b[1] < x[1] + y[1] => Line(a, b)
    PROVE  Line(x, y)
<1>1. /\ x \in Outputs /\ y \in Outputs /\ x # y /\ x[1] <= y[1] /\ x[1] \in Nat /\ y[1] \in Nat
      /\ Output(x).data = Output(y).data /\ Output(x).data # None
  BY OperatorNames DEF Alike
<1>2. ASSUME ~Fed(y) PROVE FALSE
  <2>1. PlainName(Output(y).data)
    BY <1>1, <1>2, SourceFacts
  <2>2. Fed(x)
    BY <1>1, <1>2, SourceFacts DEF Same
  <2>3. PICK w, k : Goes(w, x, k)
    BY <1>1, <2>2, FedFacts
  <2>4. Heir(w, x)
    BY <1>1, <2>1, <2>3, HeirOrNot
  <2>5. w \in Outputs /\ w[1] \in Nat /\ w[1] < x[1] /\ Output(x).data = Output(w).data
    BY <2>4, HeirFacts
  <2>6. Alike(w, y) /\ w[1] + y[1] < x[1] + y[1]
    <3>1. w[1] <= y[1] /\ w[1] # y[1] /\ w[1] + y[1] < x[1] + y[1]
      BY <1>1, <2>5
    <3>. QED
      BY <1>1, <2>5, <3>1 DEF Alike
  <2>7. PICK u : Heir(u, y)
    BY <2>6 DEF Line
  <2>8. Fed(y)
    BY <2>7, HeirFacts
  <2>. QED
    BY <1>2, <2>8
<1>3. PICK w, k : Goes(w, y, k)
  BY <1>1, <1>2, FedFacts
<1>4. w \in Outputs /\ w[1] \in Nat /\ w[1] < y[1] /\ Output(y).data = Down(w)[k].data
  BY <1>1, <1>3, LinkFacts DEF Goes
<1>5. CASE Heir(w, y)
  <2>1. Output(y).data = Output(w).data
    BY <1>5, HeirFacts
  <2>2. CASE x = w
    BY <1>5, <2>2 DEF Line
  <2>3. CASE x # w /\ x[1] <= w[1]
    <3>1. Alike(x, w)
      BY <1>1, <1>4, <2>1, <2>3 DEF Alike
    <3>2. x[1] + w[1] < x[1] + y[1]
      BY <1>1, <1>4
    <3>3. PICK z : Heir(x, z) /\ (z = w \/ z[1] < w[1])
      BY <3>1, <3>2 DEF Line
    <3>4. z[1] \in Nat
      BY <3>3, HeirFacts
    <3>5. z[1] < y[1]
      <4>1. CASE z = w
        BY <1>4, <4>1
      <4>2. CASE z[1] < w[1]
        BY <1>1, <1>4, <3>4, <4>2, Less
      <4>. QED
        BY <3>3, <4>1, <4>2
    <3>. QED
      BY <1>5, <3>3, <3>5 DEF Line
  <2>4. CASE x # w /\ w[1] < x[1]
    <3>1. Alike(w, x) /\ w[1] + x[1] < x[1] + y[1]
      <4>1. w[1] <= x[1] /\ w[1] + x[1] < x[1] + y[1]
        BY <1>1, <1>4, <2>4
      <4>. QED
        BY <1>1, <1>4, <2>1, <2>4, <4>1 DEF Alike
    <3>2. PICK z : Heir(w, z) /\ (z = x \/ z[1] < x[1])
      BY <3>1 DEF Line
    <3>3. z = y
      BY <1>5, <3>2 DEF Heir, Goes
    <3>. QED
      BY <1>1, <3>2, <3>3, Less
  <2>. QED
    BY <1>1, <1>4, <2>2, <2>3, <2>4
<1>6. CASE ~Heir(w, y)
  <2>1. ~Inherited(w, y, k) /\ ~PlainName(Output(y).data)
    BY <1>1, <1>3, <1>6, HeirOrNot
  <2>2. Fed(x)
    BY <1>1, <2>1, SourceFacts
  <2>3. PICK u, j : Goes(u, x, j)
    BY <1>1, <2>2, FedFacts
  <2>4. u \in Outputs /\ u[1] \in Nat /\ u[1] < x[1] /\ Output(x).data = Down(u)[j].data
    BY <1>1, <2>3, LinkFacts DEF Goes
  <2>5. CASE Heir(u, x)
    <3>1. Output(x).data = Output(u).data
      BY <2>5, HeirFacts
    <3>2. Alike(u, y) /\ u[1] + y[1] < x[1] + y[1]
      <4>1. u[1] <= y[1] /\ u[1] # y[1] /\ u[1] + y[1] < x[1] + y[1]
        BY <1>1, <2>4
      <4>. QED
        BY <1>1, <2>4, <3>1, <4>1 DEF Alike
    <3>3. PICK a : Heir(a, y)
      BY <3>2 DEF Line
    <3>4. a = w
      BY <1>3, <3>3, OneLink DEF Heir
    <3>. QED
      BY <1>6, <3>3, <3>4
  <2>6. CASE ~Heir(u, x)
    <3>1. ~Inherited(u, x, j)
      BY <1>1, <2>3, <2>6, HeirOrNot
    <3>2. w[1] = u[1] /\ Output(w).data = Output(u).data /\ Output(w).data # None => w = u
      <4>. SUFFICES ASSUME w[1] = u[1], Output(w).data = Output(u).data, Output(w).data # None, w # u
                    PROVE  FALSE
        OBVIOUS
      <4>1. Alike(w, u) /\ w[1] + u[1] < x[1] + y[1]
        <5>1. w[1] <= u[1] /\ w[1] + u[1] < x[1] + y[1]
          BY <1>1, <1>4, <2>4
        <5>. QED
          BY <1>4, <2>4, <5>1 DEF Alike
      <4>2. PICK z : Heir(w, z) /\ (z = u \/ z[1] < u[1])
        BY <4>1 DEF Line
      <4>3. w[1] < z[1] /\ z[1] \in Nat
        BY <4>2, HeirFacts
      <4>4. ~(z[1] < u[1]) /\ z # u
        BY <1>4, <2>4, <4>3
      <4>. QED
        BY <4>2, <4>4
    <3>3. Down(w)[k].data = Down(u)[j].data
      BY <1>1, <1>4, <2>4
    <3>4. w = u /\ k = j
      BY <1>3, <2>1, <2>3, <3>1, <3>2, <3>3, OneMakerOf
    <3>5. x = y
      BY <1>3, <2>3, <3>4 DEF Goes
    <3>. QED
      BY <1>1, <3>5
  <2>. QED
    BY <2>5, <2>6
<1>. QED
  BY <1>5, <1>6

\* So it is of any two.
LEMMA Lines ==
    ASSUME SettledNames, NEW x, NEW y, Alike(x, y)
    PROVE  Line(x, y)
<1>. DEFINE Odd == {p \in Outputs \X Outputs : Alike(p[1], p[2]) /\ ~Line(p[1], p[2])}
            Sum(p) == p[1][1] + p[2][1]
            T == {Sum(p) : p \in Odd}
<1>1. SUFFICES ASSUME ~Line(x, y) PROVE FALSE
  BY <1>1
<1>2. <<x, y>> \in Odd
  BY <1>1 DEF Alike
<1>3. T \in SUBSET Nat /\ T # {}
  <2>1. \A p \in Odd : Sum(p) \in Nat
    <3>. SUFFICES ASSUME NEW p \in Odd PROVE Sum(p) \in Nat
      OBVIOUS
    <3>1. p[1] \in Outputs /\ p[2] \in Outputs
      OBVIOUS
    <3>2. p[1][1] \in Nat /\ p[2][1] \in Nat
      BY <3>1, OperatorNames
    <3>. QED
      BY <3>2
  <2>. HIDE DEF Odd, Sum
  <2>. QED
    BY <1>2, <2>1
<1>4. PICK n \in T : \A m \in T : n <= m
  <2>. HIDE DEF T
  <2>. QED
    BY <1>3, LeastNumber
<1>5. PICK p \in Odd : n = Sum(p)
  OBVIOUS
<1>6. PICK a, b : a = p[1] /\ b = p[2]
  OBVIOUS
<1>7. Alike(a, b) /\ ~Line(a, b) /\ n = a[1] + b[1]
  BY <1>5, <1>6
<1>8. ASSUME NEW c, NEW d, Alike(c, d), c[1] + d[1] < a[1] + b[1]
      PROVE  Line(c, d)
  <2>. SUFFICES ASSUME ~Line(c, d) PROVE FALSE
    OBVIOUS
  <2>1. <<c, d>> \in Odd
    BY <1>8 DEF Alike
  <2>2. c[1] + d[1] \in T
    <3>1. Sum(<<c, d>>) = c[1] + d[1]
      OBVIOUS
    <3>2. Sum(<<c, d>>) \in T
      BY <2>1
    <3>. QED
      BY <3>1, <3>2
  <2>3. n <= c[1] + d[1] /\ n \in Nat /\ c[1] + d[1] \in Nat
    BY <1>3, <1>4, <2>2
  <2>. QED
    BY <1>7, <1>8, <2>3, Less
<1>. HIDE DEF Odd, T, Sum
<1>9. Line(a, b)
  BY <1>7, <1>8, LineStep
<1>. QED
  BY <1>7, <1>9

\* No two outputs of one operator have the same data.
LEMMA Apart ==
    ASSUME SettledNames, NEW x \in Outputs, NEW y \in Outputs, x[1] = y[1],
           Output(x).data = Output(y).data, Output(x).data # None
    PROVE  x = y
<1>. SUFFICES ASSUME x # y PROVE FALSE
  OBVIOUS
<1>1. x[1] \in Nat /\ y[1] \in Nat
  BY OperatorNames
<1>2. Alike(x, y)
  BY <1>1 DEF Alike
<1>3. PICK z : Heir(x, z) /\ (z = y \/ z[1] < y[1])
  BY <1>2, Lines DEF Line
<1>4. x[1] < z[1] /\ z[1] \in Nat
  BY <1>3, HeirFacts
<1>5. ~(z[1] < y[1]) /\ z # y
  BY <1>1, <1>4
<1>. QED
  BY <1>3, <1>5

\* What data an output makes that no link has named: its own, which nobody gave it.
SourceEntry(v, j) ==
    /\ ~Fed(v) /\ j = 1 /\ ports_[v].output_data[j] = Output(v).data
    /\ Output(v).data # None \/ Feeds(v)

\* What data an output makes for a link that has given them a name.
LinkEntry(v, j) ==
    \E t : /\ Goes(v, t, j) /\ ~Inherited(v, t, j)
           /\ ports_[v].output_data[j] = Down(v)[j].data

\* The first of the downstreams of an output that is fed itself gets no copy, if it goes by
\* the name of the output's data.
LEMMA Handed ==
    ASSUME SettledNames, NEW v \in Workers, NEW t, Goes(v, t, 1), Inherited(v, t, 1), Fed(v), HasOutput(v),
           Output(v).data = TriggerName(v), v[1] \in DOMAIN ops
    PROVE  1 \in NoCopy(v)
<1>0. stage \in Later /\ Done = Matches /\ LinksMade
  BY DEF SettledNames, FileInv, StructInv, Later, Settled, Done
<1>1. v \in Outputs /\ 1 \in DOMAIN Down(v)
  BY DEF Goes
<1>2. Output(v).downstream # <<>> /\ OutputData(v) = [k \in DOMAIN Down(v) |-> Down(v)[k].data]
  BY <1>1 DEF OutputData, Down
<1>3. Down(v)[1].data = Output(v).data
  <2>1. PICK base \in DataNames :
             Down(v)[1].data = base /\ (base = Output(v).data \/ ~Inherited(v, t, 1))
    BY LinkBase
  <2>. QED
    BY <2>1
<1>4. ~IsInput(v[1])
  <2>1. PICK x \in Outputs : LinkOf(x, v) \in Matches
    BY DEF Fed
  <2>2. LinkOf(x, v)[1] = x[1] /\ LinkOf(x, v)[2] = v[1]
    BY DEF LinkOf
  <2>3. x[1] \in UpstreamsOf(v[1])
    BY <2>1, <2>2 DEF UpstreamsOf
  <2>. QED
    BY <1>0, <2>3 DEF IsInput, LinksMade
<1>. QED
  BY <1>1, <1>2, <1>3, <1>4 DEF NoCopy, TriggerName

\* There are no others.
LEMMA Entries ==
    ASSUME SettledNames, stage = "ready", NEW v \in Workers, NEW j \in DOMAIN ports_[v].output_data \ ports_[v].nocopy
    PROVE  v \in Outputs /\ (SourceEntry(v, j) \/ LinkEntry(v, j))
<1>0. /\ stage \in Later /\ Done = Matches /\ LinksMade
      /\ ports_[v].output_data = OutputData(v) /\ ports_[v].nocopy = NoCopy(v)
  BY DEF SettledNames, FileInv, StructInv, Later, Settled, Done, PortsMade, PortStages, Running, PortMade
<1>1. HasOutput(v)
  BY <1>0 DEF OutputData
<1>2. v \in Outputs /\ v[1] \in DOMAIN ops
  BY <1>1, OutputPlaces, WorkerPlaces DEF HasOutput
<1>3. Fed(v) => Output(v).data = TriggerName(v)
  <2>. SUFFICES ASSUME Fed(v) PROVE Output(v).data = TriggerName(v)
    OBVIOUS
  <2>1. PICK w, k : Goes(w, v, k)
    BY <1>2, FedFacts
  <2>. QED
    BY <1>2, <2>1, LinkFacts
<1>4. CASE Down(v) # <<>>
  <2>1. OutputData(v) = [k \in DOMAIN Down(v) |-> Down(v)[k].data]
    BY <1>1, <1>4 DEF OutputData, Down
  <2>2. j \in DOMAIN Down(v) /\ ports_[v].output_data[j] = Down(v)[j].data
    BY <1>0, <2>1
  <2>3. PICK t : t = Target(Down(v)[j])
    OBVIOUS
  <2>4. Goes(v, t, j)
    BY <1>0, <1>2, <2>2, <2>3 DEF LinksMade, Goes
  <2>5. CASE Inherited(v, t, j)
    <3>1. j = 1
      BY <2>5 DEF Inherited
    <3>2. ~Fed(v)
      <4>. SUFFICES ASSUME Fed(v) PROVE FALSE
        OBVIOUS
      <4>1. 1 \in NoCopy(v)
        BY <1>1, <1>2, <1>3, <2>4, <2>5, <3>1, Handed
      <4>. QED
        BY <1>0, <3>1, <4>1
    <3>3. Feeds(v)
      BY <2>4, LinkFacts
    <3>4. Down(v)[j].data = Output(v).data
      <4>1. PICK base \in DataNames :
                 /\ j = 1 => Down(v)[j].data = base
                 /\ base = Output(v).data \/ ~Inherited(v, t, j)
        BY <2>4, LinkBase
      <4>. QED
        BY <2>5, <3>1, <4>1
    <3>. QED
      BY <1>2, <2>2, <3>1, <3>2, <3>3, <3>4 DEF SourceEntry
  <2>6. CASE ~Inherited(v, t, j)
    BY <1>2, <2>2, <2>4, <2>6 DEF LinkEntry
  <2>. QED
    BY <2>5, <2>6
<1>5. CASE Down(v) = <<>>
  <2>1. OutputData(v) = IF Output(v).data # TriggerName(v) THEN <<Output(v).data>> ELSE <<>>
    BY <1>1, <1>5 DEF OutputData, Down, TriggerName
  <2>2. Output(v).data # TriggerName(v) /\ OutputData(v) = <<Output(v).data>>
    BY <1>0, <2>1
  <2>3. j = 1 /\ ports_[v].output_data[j] = Output(v).data
    BY <1>0, <2>2
  <2>4. ~Fed(v)
    BY <1>3, <2>2
  <2>5. \A w, k : ~Goes(w, v, k)
    <3>. SUFFICES ASSUME NEW w, NEW k, Goes(w, v, k) PROVE FALSE
      OBVIOUS
    <3>1. Fed(v)
      BY <1>2, LinkFacts
    <3>. QED
      BY <2>4, <3>1
  <2>6. TriggerName(v) = None
    BY <2>5, UnfedFacts
  <2>. QED
    BY <1>2, <2>2, <2>3, <2>4, <2>6 DEF SourceEntry
<1>. QED
  BY <1>4, <1>5

\* A link's name is none that the file has.
LEMMA LinkNotPlain ==
    ASSUME SettledNames, NEW v, NEW t, NEW j, Goes(v, t, j), ~Inherited(v, t, j)
    PROVE  ~PlainName(Down(v)[j].data)
<1>1. PICK base \in DataNames :
           /\ Down(v)[j].data.kind = base.kind
           /\ j # 1 => Down(v)[j].data.copies # <<>>
           /\ \/ j = 1 => Inherited(v, t, j)
              \/ Own(v, t, base)
  BY LinkBase
<1>2. base.kind # "" \/ j # 1
  BY <1>1 DEF Own
<1>. QED
  BY <1>1, <1>2 DEF PlainName

\* No two entries are the same.
LEMMA EntriesApart ==
    ASSUME SettledNames, stage = "ready", NEW v \in Workers, NEW w \in Workers,
           NEW j \in DOMAIN ports_[v].output_data \ ports_[v].nocopy,
           NEW k \in DOMAIN ports_[w].output_data \ ports_[w].nocopy,
           ports_[v].output_data[j] = ports_[w].output_data[k]
    PROVE  v = w /\ j = k
<1>1. v \in Outputs /\ (SourceEntry(v, j) \/ LinkEntry(v, j))
  BY Entries
<1>2. w \in Outputs /\ (SourceEntry(w, k) \/ LinkEntry(w, k))
  BY Entries
<1>3. ASSUME NEW a \in Outputs, NEW b \in Outputs, NEW l, NEW m, SourceEntry(a, l), LinkEntry(b, m)
      PROVE  ports_[a].output_data[l] # ports_[b].output_data[m]
  <2>1. PlainName(ports_[a].output_data[l])
    BY <1>3, SourceFacts DEF SourceEntry
  <2>2. ~PlainName(ports_[b].output_data[m])
    BY <1>3, LinkNotPlain DEF LinkEntry
  <2>. QED
    BY <2>1, <2>2
<1>4. CASE SourceEntry(v, j) /\ SourceEntry(w, k)
  <2>1. ~Fed(v) /\ ~Fed(w) /\ Same(v, w) /\ j = k
    BY <1>4 DEF SourceEntry, Same
  <2>. QED
    BY <1>1, <1>2, <2>1, SourceFacts
<1>5. CASE LinkEntry(v, j) /\ LinkEntry(w, k)
  <2>1. PICK t : Goes(v, t, j) /\ ~Inherited(v, t, j) /\ ports_[v].output_data[j] = Down(v)[j].data
    BY <1>5 DEF LinkEntry
  <2>2. PICK u : Goes(w, u, k) /\ ~Inherited(w, u, k) /\ ports_[w].output_data[k] = Down(w)[k].data
    BY <1>5 DEF LinkEntry
  <2>3. v[1] = w[1] /\ Output(v).data = Output(w).data /\ Output(v).data # None => v = w
    BY <1>1, <1>2, Apart
  <2>4. Down(v)[j].data = Down(w)[k].data
    BY <2>1, <2>2
  <2>. QED
    BY <2>1, <2>2, <2>3, <2>4, OneMakerOf
<1>. QED
  BY <1>1, <1>2, <1>3, <1>4, <1>5

\* What is known of names before the program has started is so from the start,
LEMMA NamedInit == Init => Named /\ OneUpstream
BY DEF Init, Named, OneUpstream, Later, EventStages

\* and always.
THEOREM NamesInvariance ==
    ASSUME OneMaker, SourcesNamed
    PROVE  Spec => [](FileInv /\ OneUpstream /\ AllOn /\ Named)
<1>1. FileInv /\ OneUpstream /\ [Next]_vars => OneUpstream'
  BY OneUpstreamKeeps
<1>2. FileInv => AllOn
  BY AllAreThere DEF FileInv
<1>3. FileInv /\ OneUpstream /\ AllOn /\ Named /\ [Next]_vars => Named'
  BY NamedKeeps
<1>. QED
  BY NamedInit, <1>1, <1>2, <1>3, FileInvariance, PTL DEF Spec

\* No two operators with the same name start.
LEMMA DifferWhenReady == ASSUME PortsMade, stage = "ready" PROVE NamesDiffer
BY DEF PortsMade, PortStages, Running, NamesDiffer

\* Once the program has started, no two workers put copies of frames into the same cache,
\* nor one for two of its downstreams, where one would be refused for the other's
\* (link_operator's names, init_output_data), if the file names the data of sources.
THEOREM OneWriterHolds ==
    ASSUME OneMaker, SourcesNamed
    PROVE  Spec => []OneWriter
<1>1. FileInv /\ OneUpstream /\ Named => OneWriter
  <2>. SUFFICES ASSUME FileInv, OneUpstream, Named, stage = "ready",
                       NEW v \in Workers, NEW w \in Workers,
                       NEW j \in DOMAIN ports_[v].output_data \ ports_[v].nocopy,
                       NEW k \in DOMAIN ports_[w].output_data \ ports_[w].nocopy,
                       ports_[v].output_data[j] = ports_[w].output_data[k]
                PROVE  v = w /\ j = k
    BY DEF OneWriter
  <2>1. SettledNames
    BY DifferWhenReady DEF SettledNames, Settled, FileInv, StructInv
  <2>. QED
    BY <2>1, EntriesApart
<1>. QED
  BY <1>1, NamesInvariance, PTL

-----------------------------------------------------------------------------
(* The rates of caches.                                                    *)

\* What names such a link.
OwnOf(w, v, k) ==
    \E base \in DataNames :
        /\ Own(w, v, base) /\ base.kind # ""
        /\ Down(w)[k].data.kind = base.kind /\ Down(w)[k].data.of = base.of

\* The name of a link that asks for a rate is made from it.
LEMMA RatedLink ==
    ASSUME SettledNames, NEW w, NEW v, NEW k, Goes(w, v, k), Down(w)[k].hz > 0
    PROVE  v \in Outputs /\ ~Inherited(w, v, k) /\ OwnOf(w, v, k)
<1>1. /\ LinkNamed(w, v, k, Down(w)[k].data) /\ k \in Nat \ {0} /\ w \in Outputs
      /\ Down(w)[k].hz = IF v \in Outputs THEN Output(v).hz ELSE 0
  BY LinkFacts DEF Goes
<1>2. v \in Outputs /\ Output(v).hz > 0
  BY <1>1
<1>3. ops[w[1]].name \in Strings
  BY <1>1, OperatorNames
<1>4. PICK base \in DataNames, kind \in Strings :
           IsBase(w, v, base) /\ Down(w)[k].data = CopyFor(base, w, k, kind)
  BY <1>1 DEF LinkNamed, Strings
<1>5. CopyFor(base, w, k, kind).kind = base.kind /\ CopyFor(base, w, k, kind).of = base.of
  BY <1>1, <1>3, CopyFacts
<1>6. base = Name(Event(w), "CACHED_DATA", Output(v).hz)
  BY <1>2, <1>4 DEF IsBase
<1>7. Own(w, v, base) /\ base.kind # ""
  BY <1>2, <1>6 DEF Own, Name
<1>8. Down(w)[k].data.kind = base.kind /\ Down(w)[k].data.of = base.of
  BY <1>4, <1>5
<1>9. ~Inherited(w, v, k)
  BY <1>2 DEF Inherited
<1>. QED
  BY <1>2, <1>4, <1>7, <1>8, <1>9 DEF OwnOf

\* Outputs whose data have that name come after it.
LEMMA RatedAbove ==
    ASSUME SettledNames, NEW w, NEW v, NEW k, Goes(w, v, k), Down(w)[k].hz > 0,
           NEW x \in Outputs, Output(x).data = Down(w)[k].data
    PROVE  w[1] < x[1]
<1>1. PICK base \in DataNames :
           /\ Own(w, v, base) /\ base.kind # ""
           /\ Down(w)[k].data.kind = base.kind /\ Down(w)[k].data.of = base.of
  <2>1. OwnOf(w, v, k)
    BY RatedLink
  <2>. QED
    BY <2>1 DEF OwnOf
<1>2. PICK u, t, l, own : /\ Goes(u, t, l) /\ u[1] < x[1] /\ Own(u, t, own)
                          /\ own.kind = Output(x).data.kind /\ own.of = Output(x).data.of
  BY <1>1, NamedAbove
<1>3. own.kind = base.kind /\ own.of = base.of
  BY <1>1, <1>2
<1>4. u = w
  BY <1>1, <1>2, <1>3, OwnFacts
<1>. QED
  BY <1>2, <1>4

\* So do other links that have it.
LEMMA RatedFirst ==
    ASSUME SettledNames, NEW w, NEW v, NEW k, Goes(w, v, k), Down(w)[k].hz > 0,
           NEW x \in Outputs, NEW l \in DOMAIN Down(x), Down(x)[l].data = Down(w)[k].data
    PROVE  (x = w /\ l = k) \/ w[1] < x[1]
<1>0. stage \in Later /\ LinksMade
  BY DEF SettledNames, FileInv, StructInv, Later, Settled
<1>1. PICK t : t = Target(Down(x)[l])
  OBVIOUS
<1>2. Goes(x, t, l) /\ w \in Outputs
  BY <1>0, <1>1 DEF LinksMade, Goes
<1>3. CASE Inherited(x, t, l)
  <2>1. l = 1
    BY <1>3 DEF Inherited
  <2>2. PICK base \in DataNames :
             /\ l = 1 => Down(x)[l].data = base
             /\ base = Output(x).data \/ ~Inherited(x, t, l)
    BY <1>2, LinkBase
  <2>3. Output(x).data = Down(w)[k].data
    BY <1>3, <2>1, <2>2
  <2>. QED
    BY <2>3, RatedAbove
<1>4. CASE ~Inherited(x, t, l)
  <2>1. x[1] = w[1] /\ Output(x).data = Output(w).data /\ Output(x).data # None => x = w
    BY <1>2, Apart
  <2>2. ~Inherited(w, v, k)
    BY RatedLink
  <2>. QED
    BY <1>2, <1>4, <2>1, <2>2, OneMakerOf
<1>. QED
  BY <1>3, <1>4

\* An output that has had its turn in registe_data,
Registered(x) == stage = "register" => x \notin todo

\* before those that have not.
TurnsTaken ==
    stage = "register" => \A x \in Outputs : x \notin todo => \A u \in todo : x[1] <= u[1]

\* Names that an output or its links have.
Uses(x, name) == name = Output(x).data \/ \E l \in DOMAIN Down(x) : name = Down(x)[l].data

\* What has been registered is data of outputs that have had their turn.
DataMade ==
    /\ stage \notin Settled \cup {"failed"} => new_data = {}
    /\ stage \in Settled => \A name \in new_data : \E x \in Outputs : Registered(x) /\ Uses(x, name)

\* The loop over the outputs ends with its last turn.
LEMMA RegisterEnds ==
    ASSUME [Next]_vars, stage = "register", stage' # "failed"
    PROVE  \/ Register
           \/ todo = {} /\ stage' = "events"
           \/ stage' = "register" /\ todo' = todo
<1>1. ~Fail
  BY DEF Fail
<1>2. CASE UNCHANGED vars
  BY <1>2 DEF vars
<1>3. CASE Step
  <2>1. ~Check /\ ~Checked /\ ~Sort /\ ~Sorted /\ ~Parse /\ ~Link /\ ~SetReference
    BY DEF Check, Checked, Sort, Sorted, Parse, Link, SetReference
  <2>2. ~InitEvents /\ ~InitEventManager /\ ~InitOperator /\ ~Ready
    BY DEF InitEvents, InitEventManager, InitOperator, Ready
  <2>3. Register \/ StartEvents
    BY <1>3, <2>1, <2>2 DEF Step
  <2>. QED
    BY <2>3 DEF StartEvents
<1>. QED
  BY <1>2, <1>3 DEF Next

\* That loop is only begun by set_reference.
LEMMA RegisterBegins ==
    ASSUME Typed, [Next]_vars, stage' = "register", ~SetReference
    PROVE  stage = "register"
<1>1. stage \in Settled
  BY SettledSteps DEF Settled
<1>. SUFFICES ASSUME stage \in {"events", "operators", "ready"} PROVE FALSE
  BY <1>1 DEF Settled
<1>2. ~Check /\ ~Checked /\ ~Sort /\ ~Sorted /\ ~Parse /\ ~Link /\ ~Register /\ ~StartEvents
  BY DEF Check, Checked, Sort, Sorted, Parse, Link, Register, StartEvents
<1>3. ~InitEvents /\ ~InitEventManager /\ ~InitOperator /\ ~Ready
  BY DEF InitEvents, InitEventManager, InitOperator, Ready, Fail
<1>4. ~UNCHANGED vars
  BY DEF vars
<1>. QED
  BY <1>2, <1>3, <1>4 DEF Next, Step

\* The turn that is next is so in the order of the operators.
LEMMA NextIsFirst ==
    ASSUME NEW w \in Outputs, IsNext(w), NEW u \in todo, todo \subseteq Outputs, ops \in Seq(OperatorInfos)
    PROVE  w[1] <= u[1]
<1>1. w[1] \in Nat /\ u[1] \in Nat
  BY OutputPlaces
<1>2. CASE u = w
  BY <1>1, <1>2
<1>3. CASE u # w
  <2>1. PICK k \in DOMAIN w : w[k] < u[k] /\ \A j \in 1 .. (k - 1) : w[j] = u[j]
    BY <1>3 DEF IsNext, Before
  <2>2. DOMAIN w = {1, 2}
    <3>1. w = <<w[1], w[2]>>
      BY OutputPlaces
    <3>2. PICK a, b : w = <<a, b>>
      BY <3>1
    <3>. QED
      BY <3>2
  <2>3. CASE k = 1
    BY <1>1, <2>1, <2>3
  <2>4. CASE k = 2
    BY <1>1, <2>1, <2>4
  <2>. QED
    BY <2>2, <2>3, <2>4
<1>. QED
  BY <1>2, <1>3

\* The turns are taken in that order.
LEMMA TurnsKeep ==
    ASSUME Typed, TurnsTaken, [Next]_vars
    PROVE  TurnsTaken'
<1>. SUFFICES ASSUME stage' = "register" PROVE TurnsTaken'
  BY DEF TurnsTaken
<1>1. CASE SetReference
  <2>1. todo' = Outputs /\ Outputs' = Outputs
    BY <1>1, ReferenceEffect, SameShape DEF Typed
  <2>. QED
    BY <2>1 DEF TurnsTaken
<1>2. CASE ~SetReference
  <2>1. stage = "register" /\ ops' = ops
    BY <1>2, RegisterBegins, SettledSteps DEF Settled
  <2>2. Outputs' = Outputs
    BY <2>1, SameOps
  <2>3. CASE Register
    <3>1. PICK w \in todo : w \in Outputs /\ IsNext(w) /\ todo' = todo \ {w}
      BY <2>3, RegisterEffect
    <3>2. \A u \in todo : w[1] <= u[1]
      BY <2>1, <3>1, NextIsFirst DEF Typed
    <3>. QED
      BY <2>1, <2>2, <3>1, <3>2 DEF TurnsTaken
  <2>4. CASE ~Register
    <3>1. todo' = todo
      BY <2>1, <2>4, RegisterEnds
    <3>. QED
      BY <2>1, <2>2, <3>1 DEF TurnsTaken
  <2>. QED
    BY <2>3, <2>4
<1>. QED
  BY <1>1, <1>2

\* All that is registered in a turn is used by its output.
LEMMA FreshUsed ==
    ASSUME ops \in Seq(OperatorInfos), NEW w \in Outputs, NEW name \in FreshNames(w)
    PROVE  Uses(w, name)
<1>1. PICK k \in DOMAIN DataOf(Output(w)) : name = DataOf(Output(w))[k].data
  BY DEF FreshNames, Fresh
<1>2. Output(w) \in OutputInfos
  BY NamesTyped
<1>3. CASE k \in DOMAIN Down(w)
  BY <1>1, <1>2, <1>3, DataOfOutput DEF Uses, Down
<1>4. CASE k \notin DOMAIN Down(w)
  <2>1. k = Len(Output(w).downstream) + 1
    BY <1>1, <1>2, <1>4, DataOfOutput DEF Down
  <2>. QED
    BY <1>1, <1>2, <2>1, DataOfOutput DEF Uses
<1>. QED
  BY <1>3, <1>4

\* registe_data registers no more than that.
LEMMA DataKeeps ==
    ASSUME Typed, DataMade, [Next]_vars
    PROVE  DataMade'
<1>. SUFFICES ASSUME stage' # "failed" PROVE DataMade'
  BY DEF DataMade, Settled
<1>1. CASE Register
  <2>1. PICK w \in todo : /\ w \in Outputs /\ stage = "register" /\ todo' = todo \ {w}
                          /\ new_data' = new_data \cup FreshNames(w) /\ stage' = stage /\ ops' = ops
    BY <1>1, RegisterEffect
  <2>2. \A name \in new_data : \E x \in Outputs : x \notin todo /\ Uses(x, name)
    BY <2>1 DEF DataMade, Settled, Registered
  <2>3. \A name \in FreshNames(w) : Uses(w, name)
    BY <2>1, FreshUsed DEF Typed
  <2>4. \A name \in new_data' : \E x \in Outputs : x \notin todo' /\ Uses(x, name)
    BY <2>1, <2>2, <2>3
  <2>5. Outputs' = Outputs /\ \A x, name : Uses(x, name)' = Uses(x, name)
    BY <2>1, SameOps DEF Uses
  <2>. QED
    BY <2>1, <2>4, <2>5 DEF DataMade, Settled, Registered
<1>2. CASE ~Register /\ stage' \in Settled /\ stage \in Settled
  <2>1. ~SetReference
    BY <1>2 DEF SetReference, Settled
  <2>2. ops' = ops /\ new_data' = new_data
    <3>1. ops' = ops
      BY <1>2, <2>1, SettledSteps
    <3>2. CASE InitOperator
      BY <3>2 DEF InitOperator, Fail, dataVars
    <3>. QED
      BY <1>2, <3>1, <3>2, CacheSteps
  <2>3. Outputs' = Outputs /\ \A x, name : Uses(x, name)' = Uses(x, name)
    BY <2>2, SameOps DEF Uses
  <2>4. \A x : Registered(x) => Registered(x)'
    <3>1. CASE stage' = "register"
      BY <1>2, <2>1, <3>1, RegisterBegins, RegisterEnds DEF Registered
    <3>2. CASE stage' # "register"
      BY <3>2 DEF Registered
    <3>. QED
      BY <3>1, <3>2
  <2>. QED
    BY <1>2, <2>2, <2>3, <2>4 DEF DataMade
<1>3. CASE ~Register /\ stage \notin Settled
  <2>1. new_data' = new_data /\ (SetReference \/ stage' \notin Settled)
    <3>1. ~InitOperator
      BY <1>3 DEF InitOperator, Settled
    <3>. QED
      BY <1>3, <3>1, CacheSteps
  <2>2. stage # "failed"
    BY FailedStays
  <2>3. new_data' = {}
    BY <1>3, <2>1, <2>2 DEF DataMade
  <2>. QED
    BY <2>3 DEF DataMade
<1>4. CASE ~Register /\ stage' \notin Settled /\ stage \in Settled
  <2>1. CASE InitOperator
    BY <1>4, <2>1, InitOperatorEffect DEF Settled
  <2>2. ~SetReference
    BY <1>4 DEF SetReference, Settled
  <2>. QED
    BY <1>4, <2>1, <2>2, CacheSteps
<1>. QED
  BY <1>1, <1>2, <1>3, <1>4

\* A link that asks for a rate gets a cache with that rate.
Rated(w) ==
    \A k \in DOMAIN Down(w) : Down(w)[k].hz > 0 =>
        /\ Down(w)[k].data \in DOMAIN shared_data_map_
        /\ shared_data_map_[Down(w)[k].data] = Down(w)[k].hz
RatesKept ==
    stage \in Settled /\ NamesDiffer => \A w \in Outputs : Registered(w) => Rated(w)

\* When it is the output's turn, the name of such a link is new.
LEMMA RatedTurn ==
    ASSUME SettledNames, TurnsTaken, DataMade, stage = "register", NEW w \in todo, w \in Outputs,
           NEW k \in DOMAIN Down(w), Down(w)[k].hz > 0
    PROVE  /\ k \in Fresh(w)
           /\ DataOf(Output(w))[k].data = Down(w)[k].data
           /\ HzOf(DataOf(Output(w))[k]) = Down(w)[k].hz
<1>0. stage \in Later /\ LinksMade /\ ops \in Seq(OperatorInfos)
  BY DEF SettledNames, FileInv, StructInv, TypedInv, Typed, Later, Settled
<1>1. PICK v : v = Target(Down(w)[k])
  OBVIOUS
<1>2. Goes(w, v, k)
  BY <1>0, <1>1 DEF LinksMade, Goes
<1>3. w[1] \in Nat
  BY <1>2, LinkFacts
<1>4. Output(w) \in OutputInfos
  BY <1>0, NamesTyped
<1>5. /\ k \in DOMAIN DataOf(Output(w))
      /\ DataOf(Output(w))[k].data = Down(w)[k].data
      /\ DataOf(Output(w))[k].hz = Down(w)[k].hz
      /\ \A j \in 1 .. (k - 1) : j \in DOMAIN Down(w) /\ DataOf(Output(w))[j].data = Down(w)[j].data
  <2>1. /\ DOMAIN Down(w) = 1 .. Len(Down(w)) /\ Len(Down(w)) \in Nat
        /\ \A j \in DOMAIN Down(w) : /\ j \in DOMAIN DataOf(Output(w))
                                     /\ DataOf(Output(w))[j].data = Down(w)[j].data
                                     /\ DataOf(Output(w))[j].hz = Down(w)[j].hz
    BY <1>4, DataOfOutput DEF Down
  <2>2. \A j \in 1 .. (k - 1) : j \in DOMAIN Down(w)
    BY <2>1
  <2>. QED
    BY <2>1, <2>2
<1>6. ASSUME NEW x \in Outputs, x # w, Uses(x, Down(w)[k].data)
      PROVE  w[1] < x[1]
  <2>1. CASE Down(w)[k].data = Output(x).data
    BY <1>2, <2>1, RatedAbove
  <2>2. CASE \E l \in DOMAIN Down(x) : Down(w)[k].data = Down(x)[l].data
    <3>1. PICK l \in DOMAIN Down(x) : Down(x)[l].data = Down(w)[k].data
      BY <2>2
    <3>2. (x = w /\ l = k) \/ w[1] < x[1]
      BY <1>2, <3>1, RatedFirst
    <3>. QED
      BY <1>6, <3>2
  <2>. QED
    BY <1>6, <2>1, <2>2 DEF Uses
<1>7. Down(w)[k].data \notin new_data
  <2>. SUFFICES ASSUME Down(w)[k].data \in new_data PROVE FALSE
    OBVIOUS
  <2>1. PICK x \in Outputs : x \notin todo /\ Uses(x, Down(w)[k].data)
    BY DEF DataMade, Settled, Registered
  <2>2. x # w /\ x[1] <= w[1]
    BY <2>1 DEF TurnsTaken
  <2>3. w[1] < x[1] /\ x[1] \in Nat
    BY <1>6, <2>1, <2>2, OperatorNames
  <2>. QED
    BY <1>3, <2>2, <2>3, Less
<1>8. ASSUME NEW j \in 1 .. (k - 1)
      PROVE  Down(w)[j].data # Down(w)[k].data
  <2>. SUFFICES ASSUME Down(w)[j].data = Down(w)[k].data PROVE FALSE
    OBVIOUS
  <2>1. j \in DOMAIN Down(w)
    BY <1>5
  <2>2. (w = w /\ j = k) \/ w[1] < w[1]
    BY <1>2, <2>1, RatedFirst
  <2>3. k \in Nat \ {0}
    BY <1>2, LinkFacts
  <2>. QED
    BY <1>3, <2>2, <2>3
<1>9. k \in Fresh(w)
  BY <1>5, <1>7, <1>8 DEF Fresh
<1>. QED
  BY <1>5, <1>9 DEF HzOf

\* So it has that rate.
LEMMA RatesKeep ==
    ASSUME OneMaker, FileInv, OneUpstream, Named, TurnsTaken, DataMade, RatesKept, [Next]_vars
    PROVE  RatesKept'
<1>0. Typed
  BY DEF FileInv, StructInv, TypedInv
<1>. SUFFICES ASSUME stage' \in Settled, NamesDiffer', NEW w \in Outputs', Registered(w)'
              PROVE  Rated(w)'
  BY DEF RatesKept
<1>1. stage' # "failed"
  BY DEF Settled
<1>2. CASE SetReference
  <2>1. stage' = "register" /\ todo' = Outputs /\ Outputs' = Outputs
    BY <1>0, <1>2, ReferenceEffect, SameShape DEF Typed
  <2>. QED
    BY <2>1 DEF Registered
<1>3. CASE ~SetReference
  <2>1. ops' = ops /\ stage \in Settled
    BY <1>0, <1>3, SettledSteps
  <2>2. Outputs' = Outputs /\ Down(w)' = Down(w)
    BY <2>1, SameOps
  <2>3. NamesDiffer /\ SettledNames
    BY <2>1 DEF NamesDiffer, SettledNames
  <2>4. ASSUME Registered(w), \A name \in DOMAIN shared_data_map_ :
                                /\ name \in DOMAIN shared_data_map_'
                                /\ shared_data_map_'[name] = shared_data_map_[name]
        PROVE  Rated(w)'
    <3>1. Rated(w)
      BY <2>1, <2>2, <2>3, <2>4 DEF RatesKept
    <3>. QED
      BY <2>2, <2>4, <3>1 DEF Rated
  <2>5. CASE Register
    <3>1. PICK x \in todo :
            /\ x \in Outputs /\ stage = "register" /\ todo' = todo \ {x} /\ stage' = stage
            /\ DOMAIN shared_data_map_' = DOMAIN shared_data_map_ \cup FreshNames(x) \cup References(x)
            /\ \A name \in DOMAIN shared_data_map_ :
                 shared_data_map_'[name] = shared_data_map_[name]
            /\ \A k \in Fresh(x) :
                 shared_data_map_'[DataOf(Output(x))[k].data] = HzOf(DataOf(Output(x))[k])
      BY <1>0, <1>1, <2>5, RegisterEffect
    <3>2. CASE w = x
      <4>1. ASSUME NEW k \in DOMAIN Down(w), Down(w)[k].hz > 0
            PROVE  /\ Down(w)[k].data \in DOMAIN shared_data_map_'
                   /\ shared_data_map_'[Down(w)[k].data] = Down(w)[k].hz
        <5>1. /\ k \in Fresh(w)
              /\ DataOf(Output(w))[k].data = Down(w)[k].data
              /\ HzOf(DataOf(Output(w))[k]) = Down(w)[k].hz
          BY <2>3, <3>1, <3>2, <4>1, RatedTurn
        <5>2. Down(w)[k].data \in FreshNames(w)
          BY <5>1 DEF FreshNames
        <5>. QED
          BY <3>1, <3>2, <5>1, <5>2
      <4>. QED
        BY <2>2, <4>1 DEF Rated
    <3>3. CASE w # x
      BY <2>4, <3>1, <3>3 DEF Registered
    <3>. QED
      BY <3>2, <3>3
  <2>6. CASE ~Register
    <3>1. Registered(w)
      <4>1. CASE stage = "register"
        BY <1>1, <2>6, <4>1, RegisterEnds DEF Registered
      <4>2. CASE stage # "register"
        BY <4>2 DEF Registered
      <4>. QED
        BY <4>1, <4>2
    <3>2. \A name \in DOMAIN shared_data_map_ :
            name \in DOMAIN shared_data_map_' /\ shared_data_map_'[name] = shared_data_map_[name]
      <4>1. CASE InitOperator
        <5>1. PICK i \in DOMAIN ops :
                /\ DOMAIN shared_data_map_' = DOMAIN shared_data_map_ \cup {Plain(ops[i].name)}
                /\ \A name \in DOMAIN shared_data_map_ :
                     shared_data_map_'[name] = shared_data_map_[name]
          BY <1>0, <1>1, <4>1, InitOperatorEffect
        <5>. QED
          BY <5>1
      <4>2. CASE shared_data_map_' = shared_data_map_
        BY <4>2
      <4>. QED
        BY <1>1, <2>6, <4>1, <4>2, CacheSteps
    <3>. QED
      BY <2>4, <3>1, <3>2
  <2>. QED
    BY <2>5, <2>6
<1>. QED
  BY <1>2, <1>3

\* No cache is of a rate above one in a microsecond.
CachesLow == \A name \in DOMAIN shared_data_map_ : shared_data_map_[name] <= 1000000

\* No output has a higher rate,
LEMMA OutputsLow ==
    ASSUME RatesCountable, FileInv, NEW w \in Outputs
    PROVE  Output(w).hz <= 1000000
<1>1. PICK f : AreFrom(f, ops, dag_config)
  BY SMT DEF FileInv, FromFile
<1>2. w[1] \in DOMAIN ops /\ w[2] \in DOMAIN ops[w[1]].output
  BY OutputPlaces, SMT
<1>3. f[w[1]] \in DOMAIN dag_config /\ Static(ops[w[1]], dag_config[f[w[1]]])
  BY <1>1, <1>2, SMT DEF AreFrom
<1>4. /\ w[2] \in DOMAIN dag_config[f[w[1]]].output
      /\ Output(w).hz = dag_config[f[w[1]]].output[w[2]].hz
  BY <1>2, <1>3, SMT DEF Static, Output
<1>5. dag_config \in Configs
  BY SMT DEF FileInv, StructInv, TypedInv, Typed
<1>. QED
  BY <1>3, <1>4, <1>5, SMT DEF RatesCountable

\* nor has what is registered for it.
LEMMA RatesLow ==
    ASSUME RatesCountable, FileInv, Named, stage \in Settled, NEW w \in Outputs,
           NEW d, d = Output(w) \/ \E k \in DOMAIN DataOf(Output(w)) : d = DataOf(Output(w))[k],
           CanMake(d)
    PROVE  HzOf(d) <= 1000000
<1>0. stage \in Later /\ LinksMade /\ ops \in Seq(OperatorInfos)
  BY SMT DEF FileInv, StructInv, TypedInv, Typed, Later, Settled
<1>1. Output(w) \in OutputInfos
  BY <1>0, NamesTyped, SMT
<1>2. \A x \in Outputs : Output(x).hz <= 1000000
  BY OutputsLow, SMT
<1>3. d.hz <= 1000000
  <2>1. CASE d = Output(w)
    BY <1>2, <2>1, SMT
  <2>2. ASSUME NEW k \in DOMAIN DataOf(Output(w)), d = DataOf(Output(w))[k]
        PROVE  d.hz <= 1000000
    <3>1. CASE k \in DOMAIN Down(w)
      <4>1. PICK v : v = Target(Down(w)[k])
        OBVIOUS
      <4>2. v \in Workers
        BY <1>0, <3>1, <4>1, SMT DEF LinksMade
      <4>3. Down(w)[k].hz = IF v \in Outputs THEN Output(v).hz ELSE 0
        BY <1>0, <3>1, <4>1, <4>2, SMT DEF Named
      <4>4. Down(w)[k].hz <= 1000000
        BY <1>2, <4>3, SMT
      <4>5. d.hz = Down(w)[k].hz
        BY <1>1, <2>2, <3>1, DataOfOutput, SMT DEF Down
      <4>. QED
        BY <4>4, <4>5, SMT
    <3>2. CASE k \notin DOMAIN Down(w)
      <4>1. k = Len(Output(w).downstream) + 1
        BY <1>1, <2>2, <3>2, DataOfOutput, SMT DEF Down
      <4>2. d.hz = Output(w).hz
        BY <1>1, <2>2, <4>1, DataOfOutput, SMT
      <4>. QED
        BY <1>2, <4>2, SMT
    <3>. QED
      BY <3>1, <3>2, SMT
  <2>. QED
    BY <2>1, <2>2, SMT
<1>. QED
  BY <1>3, SMT DEF HzOf, CanMake, RatesCountable

\* Nor is a higher one ever registered.
LEMMA CachesKeep ==
    ASSUME RatesCountable, FileInv, Named, CachesLow, [Next]_vars
    PROVE  CachesLow'
<1>0. Typed
  BY SMT DEF FileInv, StructInv, TypedInv
<1>1. CASE stage' = "failed"
  <2>1. CASE Fail
    BY <2>1, SMT DEF Fail, dataVars, CachesLow
  <2>2. CASE UNCHANGED vars
    BY <2>2, SMT DEF vars, dataVars, CachesLow
  <2>. QED
    BY <1>1, <2>1, <2>2, FailsOnly DEF Next
<1>2. CASE Register /\ stage' # "failed"
  <2>1. PICK w \in todo :
          /\ w \in Outputs /\ stage = "register"
          /\ DOMAIN shared_data_map_' = DOMAIN shared_data_map_ \cup FreshNames(w) \cup References(w)
          /\ \A name \in DOMAIN shared_data_map_ : shared_data_map_'[name] = shared_data_map_[name]
          /\ \A k \in Fresh(w) :
               shared_data_map_'[DataOf(Output(w))[k].data] = HzOf(DataOf(Output(w))[k])
          /\ \A k \in Fresh(w) : CanMake(DataOf(Output(w))[k])
          /\ \A name \in References(w) :
               CanMake(Output(w)) /\ shared_data_map_'[name] = HzOf(Output(w))
    BY <1>0, <1>2, RegisterEffect, SMT
  <2>2. ASSUME NEW name \in FreshNames(w)
        PROVE  shared_data_map_'[name] <= 1000000
    <3>1. PICK k \in Fresh(w) : name = DataOf(Output(w))[k].data
      BY SMT DEF FreshNames
    <3>2. k \in DOMAIN DataOf(Output(w)) /\ CanMake(DataOf(Output(w))[k])
      BY <2>1, <3>1, SMT DEF Fresh
    <3>3. HzOf(DataOf(Output(w))[k]) <= 1000000
      BY <2>1, <3>2, RatesLow, SMT DEF Settled
    <3>. QED
      BY <2>1, <3>1, <3>3, SMT
  <2>3. ASSUME NEW name \in References(w)
        PROVE  shared_data_map_'[name] <= 1000000
    <3>1. HzOf(Output(w)) <= 1000000
      BY <2>1, RatesLow, SMT DEF Settled
    <3>. QED
      BY <2>1, <3>1, SMT
  <2>. QED
    BY <2>1, <2>2, <2>3, SMT DEF CachesLow
<1>3. CASE InitOperator /\ stage' # "failed"
  <2>1. PICK t \in todo :
          shared_data_map_' = Joined(shared_data_map_, [name \in {Plain(ops[t[1]].name)} |-> 0])
    BY <1>3 DEF InitOperator, Fail
  <2>2. \A name \in DOMAIN shared_data_map_' :
          shared_data_map_'[name] = IF name \in DOMAIN shared_data_map_ THEN shared_data_map_[name] ELSE 0
    BY <2>1, SMT DEF Joined
  <2>3. \A name \in DOMAIN shared_data_map_' : shared_data_map_'[name] <= 1000000
    BY <2>2, SMT DEF CachesLow
  <2>. QED
    BY <2>3, SMT DEF CachesLow
<1>4. CASE shared_data_map_' = shared_data_map_
  BY <1>4, SMT DEF CachesLow
<1>. QED
  BY <1>1, <1>2, <1>3, <1>4, CacheSteps, SMT

\* Half of the whole is half of a part, but for one.
LEMMA Halves ==
    ASSUME NEW n \in Nat, n > 0, n <= 1000000
    PROVE  /\ 1000000 \div n \in Nat \ {0} /\ (1000000 \div 2) \div n \in Nat
           /\ 1000000 \div n \in {2 * ((1000000 \div 2) \div n), 2 * ((1000000 \div 2) \div n) + 1}
<1>. DEFINE E == 1000000 \div n
            H == 500000 \div n
<1>1. E \in Int /\ H \in Int /\ n * E <= 1000000 /\ 1000000 < n * E + n
      /\ n * H <= 500000 /\ 500000 < n * H + n
  BY SMT
<1>2. 1000000 \div 2 = 500000
  BY SMT
<1>. HIDE DEF E, H
<1>3. E >= 1
  <2>. SUFFICES ASSUME E <= 0 PROVE FALSE
    BY <1>1, SMT
  <2>1. n * E <= 0
    BY <1>1, SMT
  <2>. QED
    BY <1>1, <2>1, SMT
<1>4. H >= 0
  <2>. SUFFICES ASSUME H + 1 <= 0 PROVE FALSE
    BY <1>1, SMT
  <2>1. n * (H + 1) <= 0
    BY <1>1, SMT
  <2>2. n * (H + 1) = n * H + n
    BY <1>1, SMT
  <2>. QED
    BY <1>1, <2>1, <2>2, SMT
<1>5. E <= 2 * H + 1
  <2>. SUFFICES ASSUME E >= 2 * H + 2 PROVE FALSE
    BY <1>1, SMT
  <2>1. n * E >= n * (2 * H + 2)
    BY <1>1, SMT
  <2>2. n * (2 * H + 2) = 2 * (n * H + n)
    BY <1>1, SMT
  <2>. QED
    BY <1>1, <2>1, <2>2, SMT
<1>6. E >= 2 * H
  <2>. SUFFICES ASSUME E + 1 <= 2 * H PROVE FALSE
    BY <1>1, SMT
  <2>1. n * (E + 1) <= n * (2 * H)
    BY <1>1, SMT
  <2>2. n * (E + 1) = n * E + n /\ n * (2 * H) = 2 * (n * H)
    BY <1>1, SMT
  <2>. QED
    BY <1>1, <2>1, <2>2, SMT
<1>7. E \in Nat \ {0} /\ H \in Nat /\ E \in {2 * H, 2 * H + 1}
  BY <1>1, <1>3, <1>4, <1>5, <1>6, SMT
<1>. QED
  BY <1>2, <1>7, SMT DEF E, H

\* The greater of two numbers.
LEMMA MaxOfTwo ==
    ASSUME NEW a \in Int, NEW b \in Int
    PROVE  Max({a, b}) = IF a >= b THEN a ELSE b
BY SMT DEF Max

\* The least multiple that is not below a number is less than one more than that.
LEMMA Multiple ==
    ASSUME NEW p \in Int, NEW e \in Nat \ {0}
    PROVE  /\ (p + e - 1) \div e \in Int
           /\ p <= ((p + e - 1) \div e) * e /\ ((p + e - 1) \div e) * e <= p + e - 1
<1>. DEFINE c == (p + e - 1) \div e
<1>1. c \in Int /\ e * c <= p + e - 1 /\ p + e - 1 < e * c + e
  BY SMT
<1>2. c * e = e * c
  BY <1>1, SMT
<1>. HIDE DEF c
<1>3. c \in Int /\ p <= c * e /\ c * e <= p + e - 1
  BY <1>1, <1>2, SMT
<1>. QED
  BY <1>3, SMT DEF c

\* The time between two frames that pass, when they come regularly.
Gap(period, every) == Max({1, (period + every - 1) \div every}) * every

\* It is as near to the one asked for as there are any.
LEMMA Nearest ==
    ASSUME NEW n \in Nat, n > 0, n <= 1000000, NEW a \in Nat, a > 0, a < n
    PROVE  2 * Max({Gap(Period(n, a), 1000000 \div n) - 1000000 \div a,
                    1000000 \div a - Gap(Period(n, a), 1000000 \div n)}) <= 1000000 \div n + 2
<1>. DEFINE E == 1000000 \div n
            H == (1000000 \div 2) \div n
            W == 1000000 \div a
            P == W - H
            c == (P + E - 1) \div E
            g == Gap(P, E)
<1>1. E \in Nat \ {0} /\ H \in Nat /\ E \in {2 * H, 2 * H + 1}
  BY Halves, SMT
<1>2. Period(n, a) = P
  BY SMT DEF Period
<1>3. W \in Nat \ {0}
  <2>1. a <= 1000000
    BY SMT
  <2>. QED
    BY <2>1, Halves, SMT
<1>4. W >= E
  <2>1. n * E <= 1000000 /\ 1000000 < a * W + a
    BY SMT
  <2>. HIDE DEF E, W, H
  <2>. SUFFICES ASSUME W + 1 <= E PROVE FALSE
    BY <1>1, <1>3, SMT
  <2>2. a * (W + 1) <= a * E
    BY <1>1, <1>3, SMT
  <2>3. a * E <= n * E
    BY <1>1, SMT
  <2>4. a * (W + 1) = a * W + a
    BY <1>3, SMT
  <2>. QED
    BY <1>1, <1>3, <2>1, <2>2, <2>3, <2>4, SMT
<1>5. P \in Int /\ P >= 1
  <2>. HIDE DEF E, W, H
  <2>. QED
    BY <1>1, <1>3, <1>4, SMT
<1>6. c \in Int /\ P <= c * E /\ c * E <= P + E - 1
  <2>. HIDE DEF E, P
  <2>. QED
    BY <1>1, <1>5, Multiple, SMT
<1>. HIDE DEF E, H, W, c
<1>7. c >= 1
  <2>. SUFFICES ASSUME c <= 0 PROVE FALSE
    BY <1>6, SMT
  <2>1. c * E <= 0
    BY <1>1, <1>6, SMT
  <2>. QED
    BY <1>1, <1>5, <1>6, <2>1, SMT
<1>8. g = c * E
  <2>1. Max({1, c}) = c
    BY <1>6, <1>7, MaxOfTwo, SMT
  <2>. QED
    BY <2>1, SMT DEF Gap, c
<1>9. g \in Int /\ P <= g /\ g <= P + E - 1
  BY <1>1, <1>6, <1>8, SMT
<1>. HIDE DEF g
<1>10. 2 * (g - W) <= E + 2 /\ 2 * (W - g) <= E + 2
  BY <1>1, <1>3, <1>9, SMT
<1>11. 2 * Max({g - W, W - g}) <= E + 2
  <2>1. Max({g - W, W - g}) = IF g - W >= W - g THEN g - W ELSE W - g
    BY <1>3, <1>9, MaxOfTwo, SMT
  <2>. QED
    BY <1>10, <2>1, SMT
<1>. QED
  BY <1>2, <1>11, SMT DEF g, E, W

\* If there is no time to wait, all frames pass.
LEMMA AllPass ==
    ASSUME NEW n \in Nat, n > 0, n <= 1000000, NEW a \in Nat, ~(a < n)
    PROVE  Gap(Period(n, a), 1000000 \div n) = 1000000 \div n
<1>. DEFINE E == 1000000 \div n
<1>1. E \in Nat \ {0}
  BY Halves, SMT
<1>2. Period(n, a) = 0
  BY SMT DEF Period
<1>. HIDE DEF E
<1>3. (0 + E - 1) \div E = 0
  <2>1. E - 1 \in 0 .. (E - 1)
    BY <1>1, SMT
  <2>2. (E - 1) \div E = 0
    <3>. DEFINE c == (E - 1) \div E
    <3>1. c \in Int /\ E * c <= E - 1 /\ E - 1 < E * c + E
      BY <1>1, SMT
    <3>. HIDE DEF c
    <3>2. c < 1
      <4>. SUFFICES ASSUME c >= 1 PROVE FALSE
        BY <3>1, SMT
      <4>1. E * c >= E
        BY <1>1, <3>1, SMT
      <4>. QED
        BY <1>1, <3>1, <4>1, SMT
    <3>3. c > -1
      <4>. SUFFICES ASSUME c <= -1 PROVE FALSE
        BY <3>1, SMT
      <4>1. E * c <= -E
        BY <1>1, <3>1, SMT
      <4>. QED
        BY <1>1, <3>1, <4>1, SMT
    <3>4. c = 0
      BY <3>1, <3>2, <3>3, SMT
    <3>. QED
      BY <3>4, SMT DEF c
  <2>3. 0 + E - 1 = E - 1
    BY <1>1, SMT
  <2>. QED
    BY <2>2, <2>3, SMT
<1>4. Max({1, (0 + E - 1) \div E}) = 1
  BY <1>3, MaxOfTwo, SMT
<1>5. Gap(0, E) = E
  BY <1>1, <1>4, SMT DEF Gap
<1>. QED
  BY <1>2, <1>5, SMT DEF E

\* So it is as often as is asked for, whatever is.
LEMMA PeriodServes ==
    ASSUME NEW n \in Nat, n > 0, n <= 1000000, NEW a \in Nat, NEW period, a > 0 => period = Period(n, a)
    PROVE  OftenEnough(a, n, period)
<1>1. CASE a > 0 /\ a < n
  <2>1. 2 * Max({Gap(period, 1000000 \div n) - 1000000 \div a,
                 1000000 \div a - Gap(period, 1000000 \div n)}) <= 1000000 \div n + 2
    BY <1>1, Nearest, SMT
  <2>. QED
    BY <1>1, <2>1, SMT DEF OftenEnough, Gap
<1>2. CASE a > 0 /\ ~(a < n)
  <2>1. Gap(period, 1000000 \div n) = 1000000 \div n
    BY <1>2, AllPass, SMT
  <2>. QED
    BY <1>2, <2>1, SMT DEF OftenEnough, Gap
<1>3. CASE ~(a > 0)
  BY <1>3, SMT DEF OftenEnough
<1>. QED
  BY <1>1, <1>2, <1>3, SMT

\* What is found out about rates in the course of it all is always so.
THEOREM RatesInvariance ==
    ASSUME OneMaker, SourcesNamed, RatesCountable
    PROVE  Spec => []((FileInv /\ OneUpstream /\ AllOn /\ Named)
                      /\ (TurnsTaken /\ DataMade /\ RatesKept /\ CachesLow))
<1>1. Init => TurnsTaken /\ DataMade /\ RatesKept /\ CachesLow
  <2>. SUFFICES ASSUME Init PROVE TurnsTaken /\ DataMade /\ RatesKept /\ CachesLow
    OBVIOUS
  <2>1. stage = "check" /\ new_data = {} /\ shared_data_map_ = <<>>
    BY DEF Init
  <2>. QED
    BY <2>1 DEF TurnsTaken, DataMade, RatesKept, CachesLow, Settled
<1>2. FileInv /\ TurnsTaken /\ [Next]_vars => TurnsTaken'
  BY TurnsKeep DEF FileInv, StructInv, TypedInv
<1>3. FileInv /\ DataMade /\ [Next]_vars => DataMade'
  BY DataKeeps DEF FileInv, StructInv, TypedInv
<1>4. FileInv /\ OneUpstream /\ Named /\ TurnsTaken /\ DataMade /\ RatesKept /\ [Next]_vars => RatesKept'
  BY RatesKeep
<1>5. FileInv /\ Named /\ CachesLow /\ [Next]_vars => CachesLow'
  BY CachesKeep
<1>. QED
  BY <1>1, <1>2, <1>3, <1>4, <1>5, NamesInvariance, PTL DEF Spec

\* What a link's period is, once the ports are there, and the rate of what comes.
LEMMA LinkRate ==
    ASSUME SettledNames, stage = "ready", RatesKept, CachesLow,
           NEW w \in Workers, HasOutput(w), NEW k \in DOMAIN Down(w), NEW v, v = Target(Down(w)[k]),
           v \in Outputs, NEW n, n = shared_data_map_[ports_[w].trigger_data]
    PROVE  /\ n \in Nat /\ n > 0 /\ n <= 1000000
           /\ Output(v).hz > 0 => ports_[w].output_period[k] = Period(n, Output(v).hz)
<1>1. /\ ports_[w].trigger_data = TriggerData(w) /\ ports_[w].output_period = OutputPeriod(w)
      /\ TriggerData(w) \in FrameCaches
  BY DEF SettledNames, FileInv, StructInv, PortsMade, PortStages, Running, PortMade
<1>2. n \in Nat /\ n > 0 /\ n <= 1000000
  <2>1. n \in Nat /\ n > 0
    BY <1>1 DEF FrameCaches, SettledNames, FileInv, StructInv, TypedInv, Typed
  <2>2. n <= 1000000
    BY <1>1, SMT DEF FrameCaches, CachesLow
  <2>. QED
    BY <2>1, <2>2, SMT
<1>3. w \in Outputs
  BY OutputPlaces, WorkerPlaces DEF HasOutput
<1>4. OutputData(w) = [j \in DOMAIN Down(w) |-> Down(w)[j].data]
  <2>1. Down(w) # <<>>
    OBVIOUS
  <2>. QED
    BY <2>1 DEF OutputData, Down
<1>5. OutputPeriod(w)[k] = Period(shared_data_map_[TriggerData(w)], shared_data_map_[Down(w)[k].data])
  BY <1>4 DEF OutputPeriod
<1>6. Down(w)[k].hz = Output(v).hz
  <2>1. stage \in Later /\ LinksMade
    BY DEF SettledNames, FileInv, StructInv, Later, Settled
  <2>2. Goes(w, v, k)
    BY <1>3, <2>1 DEF LinksMade, Goes
  <2>. QED
    BY <2>2, LinkFacts
<1>7. Output(v).hz > 0 => shared_data_map_[Down(w)[k].data] = Output(v).hz
  BY <1>3, <1>6 DEF SettledNames, RatesKept, Registered, Rated
<1>. QED
  BY <1>1, <1>2, <1>5, <1>7, SMT

\* Once the program has started, a downstream that asks for a rate (hz) below that of the
\* data it is made from gets frames about that often, and any other gets all of them
\* (get_data_and_type_name, registe_data, Port::init_output_period), if the file names
\* the data of sources and no rate is above one in a microsecond.
THEOREM RatesAreMet ==
    ASSUME OneMaker, SourcesNamed, RatesCountable
    PROVE  Spec => []RatesMet
<1>1. FileInv /\ OneUpstream /\ Named /\ RatesKept /\ CachesLow => RatesMet
  <2>. SUFFICES ASSUME FileInv, OneUpstream, Named, RatesKept, CachesLow, stage = "ready",
                       NEW w \in Workers, HasOutput(w), NEW k \in DOMAIN Down(w),
                       Down(w)[k].trigger \in DOMAIN ops[Down(w)[k].op].output
                PROVE  OftenEnough(ops[Down(w)[k].op].output[Down(w)[k].trigger].hz,
                                   shared_data_map_[ports_[w].trigger_data],
                                   ports_[w].output_period[k])
    BY DEF RatesMet, Down
  <2>1. SettledNames
    BY DifferWhenReady DEF SettledNames, Settled, FileInv, StructInv
  <2>2. PICK v : v = Target(Down(w)[k])
    OBVIOUS
  <2>3. v \in Workers /\ w \in Outputs
    <3>1. w \in Outputs
      BY OutputPlaces, WorkerPlaces DEF HasOutput
    <3>. QED
      BY <2>2, <3>1 DEF FileInv, StructInv, LinksMade, Later
  <2>4. v \in Outputs /\ ops[Down(w)[k].op].output[Down(w)[k].trigger].hz = Output(v).hz
    <3>1. v[1] = Down(w)[k].op /\ v[2] = Down(w)[k].trigger
      BY <2>2 DEF Target
    <3>. QED
      BY <2>3, <3>1, OutputPlaces, WorkerPlaces DEF Output
  <2>5. Output(v).hz \in Nat
    BY <2>4, NamesTyped DEF FileInv, StructInv, TypedInv, Typed, OutputInfos
  <2>6. PICK n : n = shared_data_map_[ports_[w].trigger_data]
    OBVIOUS
  <2>7. /\ n \in Nat /\ n > 0 /\ n <= 1000000
        /\ Output(v).hz > 0 => ports_[w].output_period[k] = Period(n, Output(v).hz)
    BY <2>1, <2>2, <2>4, <2>6, LinkRate, SMT
  <2>8. OftenEnough(Output(v).hz, n, ports_[w].output_period[k])
    BY <2>5, <2>7, PeriodServes, SMT
  <2>. QED
    BY <2>4, <2>6, <2>8
<1>. QED
  BY <1>1, RatesInvariance, PTL

-----------------------------------------------------------------------------
(* What a configuration that starts is like.                               *)

\* Operator i is the one at place f[i] of the file, and they are all those that are on.
Comes(f) ==
    /\ f \in [DOMAIN ops -> On]
    /\ \A i, j \in DOMAIN ops : f[i] = f[j] => i = j
    /\ \A k \in On : \E i \in DOMAIN ops : f[i] = k
    /\ \A i \in DOMAIN ops : Static(ops[i], dag_config[f[i]])

\* From the sort on every operator that is on is there.
LEMMA AllCome ==
    ASSUME FromFile, stage \notin {"check", "failed"}
    PROVE  \E f : Comes(f) /\ (stage = "parse" => \A i \in DOMAIN ops : ops[i] = dag_config[f[i]])
<1>1. PICK f : /\ AreFrom(f, ops, dag_config) /\ HasAll(f)
               /\ \A i \in DOMAIN ops :
                    stage \in {"check", "sort", "parse"} => ops[i] = dag_config[f[i]]
  BY DEF FromFile
<1>2. \A k \in On : \E i \in DOMAIN ops : f[i] = k
  BY <1>1 DEF HasAll, Dealt, On
<1>3. f \in [DOMAIN ops -> On]
  BY <1>1 DEF AreFrom, On
<1>. QED
  BY <1>1, <1>2, <1>3 DEF Comes, AreFrom

\* The order found stays that of the operators.
LEMMA ComesKept ==
    ASSUME NEW f, Comes(f), SameFile, dag_config' = dag_config
    PROVE  Comes(f)'
<1>1. On' = On
  BY DEF On, Enabled
<1>2. \A i \in DOMAIN ops : Static(ops'[i], dag_config[f[i]])
  BY DEF Comes, SameFile, Static
<1>. QED
  BY <1>1, <1>2 DEF Comes, SameFile

\* The turns of the check find who says both.
SwitchesChecked == stage # "failed" => \A k \in DOMAIN dag_config : Dealt(k) => ~Contradictory(dag_config[k])

\* Each turn of the check sees to one.
LEMMA SwitchesKeep ==
    ASSUME TypedInv, SwitchesChecked, [Next]_vars
    PROVE  SwitchesChecked'
<1>0. Typed /\ dag_config' = dag_config
  BY OpsSteps DEF TypedInv
<1>. SUFFICES ASSUME stage' # "failed", NEW k \in DOMAIN dag_config, Dealt(k)'
              PROVE  ~Contradictory(dag_config[k])
  BY <1>0 DEF SwitchesChecked, Contradictory
<1>1. stage # "failed"
  BY FailedStays
<1>2. CASE Check
  <2>1. PICK j \in DOMAIN dag_config :
             stage = "check" /\ todo' = todo \ {<<j>>} /\ ~Contradictory(dag_config[j])
    BY <1>0, <1>2, CheckEffect
  <2>2. k = j \/ Dealt(k)
    <3>1. <<k>> = <<j>> <=> k = j
      OBVIOUS
    <3>. QED
      BY <2>1, <3>1, <1>2, CheckEffect, <1>0 DEF Dealt
  <2>. QED
    BY <1>1, <2>1, <2>2 DEF SwitchesChecked
<1>3. CASE Sorted
  BY <1>1, <1>3 DEF Sorted, SwitchesChecked, Dealt
<1>4. CASE stage' = "check" => stage = "check" /\ todo' = todo
  <2>1. Dealt(k)
    BY <1>4, CheckEnds DEF Dealt
  <2>. QED
    BY <1>1, <2>1 DEF SwitchesChecked
<1>. QED
  BY <1>2, <1>3, <1>4, OpsSteps

\* parse_config finds who gives a type a rate.
RatesChecked == stage \in Later => RatesClear

\* Nothing else changes the file.
LEMMA RatesClearKeep ==
    ASSUME TypedInv, FromFile, RatesChecked, [Next]_vars
    PROVE  RatesChecked'
<1>0. Typed /\ dag_config' = dag_config /\ ops \in Seq(OperatorInfos)
  BY OpsSteps DEF TypedInv, Typed
<1>. SUFFICES ASSUME stage' \in Later
              PROVE  RatesClear
  BY <1>0 DEF RatesChecked, RatesClear, On, Enabled
<1>1. CASE Parse
  <2>1. stage = "parse" /\ \A w \in Outputs : ~(Output(w).hz > 0 /\ Output(w).type # "")
    BY <1>1 DEF Parse, Fail, Later
  <2>2. PICK f : Comes(f) /\ \A i \in DOMAIN ops : ops[i] = dag_config[f[i]]
    BY <2>1, AllCome
  <2>3. ASSUME NEW k \in On, NEW m \in DOMAIN dag_config[k].output
        PROVE  dag_config[k].output[m].hz = 0 \/ dag_config[k].output[m].type = ""
    <3>1. PICK i \in DOMAIN ops : f[i] = k
      BY <2>2 DEF Comes
    <3>2. <<i, m>> \in Outputs /\ Output(<<i, m>>) = dag_config[k].output[m]
      BY <2>2, <2>3, <3>1, OutputPlaces DEF Output
    <3>3. dag_config[k].output[m] \in OutputInfos
      BY <1>0, <3>2, NamesTyped
    <3>4. PICK hz, type : hz = dag_config[k].output[m].hz /\ type = dag_config[k].output[m].type
      OBVIOUS
    <3>5. hz \in Nat
      BY <3>3, <3>4 DEF OutputInfos
    <3>6. ~(hz > 0 /\ type # "")
      BY <2>1, <3>2, <3>4
    <3>7. hz = 0 \/ hz > 0
      BY <3>5
    <3>. QED
      BY <3>4, <3>6, <3>7, Zenon
  <2>. QED
    BY <2>3 DEF RatesClear
<1>2. CASE Link \/ SetReference
  BY <1>2 DEF Link, SetReference, RatesChecked, Later
<1>3. CASE stage \in Later
  BY <1>3 DEF RatesChecked
<1>. QED
  BY <1>1, <1>2, <1>3, LinkingSteps DEF Settled, Later

\* An order in which everybody comes after whom it waits for leaves no room for a circle.
LEMMA OrderClear ==
    ASSUME TypedInv, OpsFollow, NEW f, Comes(f)
    PROVE  NoCircle
<1>. SUFFICES ASSUME NEW S \in SUBSET On, S # {}, \A i \in S : \E p \in S : WaitsFor(i, p)
              PROVE  FALSE
  BY DEF NoCircle
<1>. DEFINE T == {n \in DOMAIN ops : f[n] \in S}
<1>1. DOMAIN ops \subseteq Nat
  BY DEF TypedInv, Typed
<1>2. T # {} /\ T \subseteq Nat
  BY <1>1 DEF Comes
<1>3. PICK n \in T : \A m \in T : n <= m
  <2>. HIDE DEF T
  <2>. QED
    BY <1>2, LeastNumber
<1>4. PICK p \in S : WaitsFor(f[n], p)
  OBVIOUS
<1>5. PICK m \in DOMAIN ops : f[m] = p
  BY DEF Comes
<1>6. m # n
  BY <1>4, <1>5 DEF WaitsFor
<1>7. EventsOf(ops[m]) \cap (Elements(ops[n].trigger) \cup Elements(ops[n].input)) # {}
  <2>1. Static(ops[m], dag_config[p]) /\ Static(ops[n], dag_config[f[n]])
    BY <1>5 DEF Comes
  <2>. QED
    BY <1>4, <2>1, SameWishes DEF WaitsFor
<1>8. m < n
  BY <1>6, <1>7 DEF OpsFollow
<1>9. m \in T
  BY <1>5
<1>. QED
  BY <1>1, <1>3, <1>8, <1>9

\* What Operator::init and Port::init have seen to, besides the caches.
Fitting(i) ==
    /\ NumbersOK(ops[i])
    /\ CanInitGroup(ops[i].group, Len(ops[i].input), Len(ops[i].trigger))
    /\ \E v \in Workers : v[1] = i
    /\ \A v \in Workers : v[1] = i => TriggerData(v) # None \/ HasOutput(v)
AllFitting == stage \in PortStages => \A i \in DOMAIN ops : Running(i) => Fitting(i)

\* No operator runs before it has been initialised.
LEMMA FittingKeeps ==
    ASSUME TypedInv, AllFitting, [Next]_vars
    PROVE  AllFitting'
<1>0. Typed
  BY DEF TypedInv
<1>. SUFFICES ASSUME stage' \in PortStages, NEW i \in DOMAIN ops', Running(i)'
              PROVE  Fitting(i)'
  BY DEF AllFitting
<1>1. ASSUME ops' = ops, Fitting(i)
      PROVE  Fitting(i)'
  BY <1>1, SameOps DEF Fitting
<1>2. CASE InitEventManager
  <2>1. stage' = "operators" /\ ops' = ops /\ todo' = {<<j>> : j \in DOMAIN ops}
    BY <1>2 DEF InitEventManager
  <2>. QED
    BY <2>1 DEF Running
<1>3. CASE InitOperator /\ stage' # "failed"
  <2>1. PICK j \in DOMAIN ops :
             stage = "operators" /\ todo' = todo \ {<<j>>} /\ ops' = ops /\ CanInit(j) /\ stage' = stage
    BY <1>0, <1>3, InitOperatorEffect
  <2>2. CASE i = j
    <3>1. Fitting(j)
      BY <2>1 DEF CanInit, Fitting
    <3>. QED
      BY <1>1, <2>1, <2>2, <3>1
  <2>3. CASE i # j
    <3>1. <<i>> # <<j>>
      BY <2>3
    <3>2. Running(i)
      BY <2>1, <3>1 DEF Running
    <3>. QED
      BY <1>1, <2>1, <3>2 DEF AllFitting, PortStages
  <2>. QED
    BY <2>2, <2>3
<1>4. CASE /\ ops' = ops
           /\ \/ stage' = stage /\ todo' = todo
              \/ stage = "operators" /\ todo = {} /\ stage' = "ready"
  <2>1. stage \in PortStages /\ Running(i)
    BY <1>4 DEF PortStages, Running
  <2>. QED
    BY <1>1, <1>4, <2>1 DEF AllFitting
<1>. QED
  BY <1>2, <1>3, <1>4, PortSteps DEF PortStages

\* What the checks of a group's two ends amount to.
LEMMA EndAdmits ==
    ASSUME NEW io \in Wanted, NEW n \in Nat, Consistent(io), Fits(io, n)
    PROVE  Admits(io, n)
BY DEF Wanted, Consistent, Fits, Admits

\* Numbers are none, or as many as the names.
LEMMA NumbersFit ==
    ASSUME NEW S, NEW numbers \in Seq(Int), NEW names \in Seq(S), OneEach(numbers, names), numbers # <<>>
    PROVE  Len(numbers) = Len(names)
BY DEF OneEach

\* So the operators fit.
LEMMA FittingFits ==
    ASSUME TypedInv, NEW f, Comes(f), \A i \in DOMAIN ops : Fitting(i)
    PROVE  OpsFit
<1>. SUFFICES ASSUME NEW k \in On, NEW o, o = dag_config[k]
              PROVE  /\ o.group # <<>>
                     /\ \A op \in Elements(o.group) : op.known /\ (op.bypass \/ op.configured)
                     /\ Admits(o.group[1].input, Len(o.input))
                     /\ Admits(o.group[Len(o.group)].output, Len(o.trigger))
                     /\ \A numbers \in {o.input_offset, o.input_window, o.input_wait} :
                          numbers # <<>> => Len(numbers) = Len(o.input)
                     /\ o.latest_tolerate_offset # <<>> => Len(o.latest_tolerate_offset) = Len(o.latest)
                     /\ Elements(o.input_window) \subseteq Nat
  BY DEF OpsFit
<1>1. PICK i \in DOMAIN ops : f[i] = k
  BY DEF Comes
<1>2. Static(ops[i], o) /\ Fitting(i)
  BY <1>1 DEF Comes
<1>3. ops[i] \in OperatorInfos
  BY DEF TypedInv, Typed
<1>4. /\ o.input \in Seq(Strings) /\ o.trigger \in Seq(Strings) /\ o.latest \in Seq(Strings)
      /\ o.group \in Seq(OpConfig) /\ o.input_offset \in Seq(Int) /\ o.input_window \in Seq(Int)
      /\ o.input_wait \in Seq(Int) /\ o.latest_tolerate_offset \in Seq(Int)
  BY <1>2, <1>3 DEF Static, OperatorInfos
<1>5. /\ CanInitGroup(o.group, Len(o.input), Len(o.trigger))
      /\ \A numbers \in {o.input_offset, o.input_window, o.input_wait} : OneEach(numbers, o.input)
      /\ \A n \in DOMAIN o.input_window : o.input_window[n] >= 0
      /\ OneEach(o.latest_tolerate_offset, o.latest)
  BY <1>2 DEF Static, Fitting, NumbersOK
<1>6. o.group # <<>> /\ \A op \in Elements(o.group) : op.known /\ (op.bypass \/ op.configured)
  BY <1>5 DEF CanInitGroup, HasOps, CanInitOp, Elements
<1>7. /\ Admits(o.group[1].input, Len(o.input))
      /\ Admits(o.group[Len(o.group)].output, Len(o.trigger))
  <2>1. o.group[1] \in OpConfig /\ o.group[Len(o.group)] \in OpConfig
    BY <1>4, <1>6
  <2>2. o.group[1].input \in Wanted /\ o.group[Len(o.group)].output \in Wanted
    BY <2>1 DEF OpConfig
  <2>3. Len(o.input) \in Nat /\ Len(o.trigger) \in Nat
    BY <1>4
  <2>. QED
    BY <1>5, <2>2, <2>3, EndAdmits DEF CanInitGroup, IoSane
<1>8. /\ \A numbers \in {o.input_offset, o.input_window, o.input_wait} :
           numbers # <<>> => Len(numbers) = Len(o.input)
      /\ o.latest_tolerate_offset # <<>> => Len(o.latest_tolerate_offset) = Len(o.latest)
  BY <1>4, <1>5, NumbersFit
<1>9. Elements(o.input_window) \subseteq Nat
  BY <1>4, <1>5 DEF Elements
<1>. QED
  BY <1>6, <1>7, <1>8, <1>9

\* Whoever is made in the file has a worker further up that makes it, and the other way round.
LEMMA MadeAbove ==
    ASSUME TypedInv, OpsDown, NEW f, Comes(f), NEW v \in Workers
    PROVE  /\ f[v[1]] \in On /\ Trigger(v) = dag_config[f[v[1]]].trigger[v[2]]
           /\ v[2] \in DOMAIN dag_config[f[v[1]]].trigger
           /\ Fed(v) <=> MadeFor(f[v[1]], Trigger(v))
<1>1. v = <<v[1], v[2]>> /\ v[1] \in DOMAIN ops /\ v[2] \in DOMAIN ops[v[1]].trigger
  BY WorkerPlaces
<1>2. Static(ops[v[1]], dag_config[f[v[1]]]) /\ f[v[1]] \in On
  BY <1>1 DEF Comes
<1>3. Trigger(v) = dag_config[f[v[1]]].trigger[v[2]] /\ v[2] \in DOMAIN dag_config[f[v[1]]].trigger
  BY <1>1, <1>2 DEF Static, Trigger
<1>4. DOMAIN ops \subseteq Nat
  BY DEF TypedInv, Typed
<1>5. ASSUME Fed(v)
      PROVE  MadeFor(f[v[1]], Trigger(v))
  <2>1. PICK x \in Outputs : LinkOf(x, v) \in Matches
    BY <1>5 DEF Fed
  <2>2. x[1] < v[1] /\ Event(x) = Trigger(v)
    BY <2>1, LinkOfPlaces
  <2>3. x[1] \in DOMAIN ops /\ x[2] \in DOMAIN ops[x[1]].output
    BY OutputPlaces
  <2>4. Static(ops[x[1]], dag_config[f[x[1]]]) /\ f[x[1]] \in On /\ f[x[1]] # f[v[1]]
    BY <1>1, <1>4, <2>2, <2>3 DEF Comes
  <2>5. Event(x) \in EventsOf(ops[x[1]])
    BY <2>3 DEF EventsOf, Event, Output
  <2>6. Event(x) \in EventsOf(dag_config[f[x[1]]])
    BY <2>4, <2>5, SameWishes
  <2>. QED
    BY <2>2, <2>4, <2>6 DEF MadeFor
<1>6. ASSUME MadeFor(f[v[1]], Trigger(v))
      PROVE  Fed(v)
  <2>1. PICK p \in On : p # f[v[1]] /\ Trigger(v) \in EventsOf(dag_config[p])
    BY <1>6 DEF MadeFor
  <2>2. PICK a \in DOMAIN ops : f[a] = p
    BY DEF Comes
  <2>3. Static(ops[a], dag_config[p])
    BY <2>2 DEF Comes
  <2>4. Trigger(v) \in EventsOf(ops[a])
    BY <2>1, <2>3, SameWishes
  <2>5. PICK n \in DOMAIN ops[a].output : Trigger(v) = ops[a].output[n].event
    BY <2>4 DEF EventsOf
  <2>6. a < v[1]
    BY <1>1, <2>1, <2>2, <2>5 DEF OpsDown, Trigger
  <2>7. /\ <<a, n>> \in Outputs /\ <<a, n>>[1] = a /\ <<a, n>>[2] = n
        /\ Event(<<a, n>>) = Trigger(v)
    BY <2>5, OutputPlaces DEF Event, Output
  <2>8. LinkOf(<<a, n>>, v) \in Matches
    BY <2>6, <2>7, LinkOfPlaces
  <2>. QED
    BY <2>7, <2>8 DEF Fed
<1>. QED
  BY <1>2, <1>3, <1>5, <1>6

\* What a running operator reads besides its trigger is made by another.
LEMMA ReadsAreMade ==
    ASSUME OthersRead, FileInv, ReferencesMade, stage = "ready", NEW f, Comes(f),
           \A i \in DOMAIN ops : Fitting(i)
    PROVE  InputsMade
<1>0. /\ TypedInv /\ LinksMade /\ PortsMade /\ OpsDown /\ ops \in Seq(OperatorInfos)
      /\ dag_config \in Configs
  BY LinksFollow DEF FileInv, StructInv, TypedInv, Typed, Downwards
<1>1. ASSUME NEW k \in On, \E e \in Elements(dag_config[k].trigger) : MadeFor(k, e),
             NEW i \in DOMAIN ops, f[i] = k
      PROVE  ~IsInput(i)
  <2>1. PICK n \in DOMAIN dag_config[k].trigger : MadeFor(k, dag_config[k].trigger[n])
    BY <1>1 DEF Elements
  <2>2. Static(ops[i], dag_config[k])
    BY <1>1 DEF Comes
  <2>3. PICK v : v = <<i, n>>
    OBVIOUS
  <2>4. v \in Workers /\ v[1] = i /\ v[2] = n
    BY <2>1, <2>2, <2>3, WorkerPlaces DEF Static
  <2>5. Fed(v)
    BY <1>0, <1>1, <2>1, <2>4, MadeAbove
  <2>6. PICK x \in Outputs : LinkOf(x, v) \in Matches
    BY <2>5 DEF Fed
  <2>7. LinkOf(x, v)[1] = x[1] /\ LinkOf(x, v)[2] = i
    BY <2>4 DEF LinkOf
  <2>8. x[1] \in UpstreamsOf(i)
    BY <2>6, <2>7 DEF UpstreamsOf
  <2>. QED
    BY <1>0, <2>8 DEF LinksMade, Later, IsInput
<1>2. ASSUME NEW i \in DOMAIN ops, NEW e \in Reads(i)
      PROVE  \E x \in Outputs : Event(x) = e
  <2>1. PICK v \in Workers : v[1] = i
    BY DEF Fitting
  <2>2. Reference(e) \in FrameCaches
    BY <1>0, <2>1 DEF PortsMade, PortStages, Running, PortMade
  <2>3. Reference(e) \in DOMAIN shared_data_map_ /\ Reference(e).kind = "RO"
    BY <2>2 DEF FrameCaches, Reference, Name
  <2>4. PICK x \in Outputs : Reference(e) = Reference(Event(x))
    BY <2>3 DEF ReferencesMade, Settled
  <2>5. Reference(e).of = e /\ Reference(Event(x)).of = Event(x)
    BY DEF Reference, Name
  <2>. QED
    BY <2>4, <2>5
<1>. SUFFICES ASSUME NEW k \in On,
                     NEW e \in Elements(dag_config[k].latest)
                        \cup (IF \E d \in Elements(dag_config[k].trigger) : MadeFor(k, d)
                              THEN Elements(dag_config[k].input) ELSE {})
              PROVE  MadeFor(k, e)
  BY DEF InputsMade
<1>3. PICK i \in DOMAIN ops : f[i] = k
  BY DEF Comes
<1>4. Static(ops[i], dag_config[k])
  BY <1>3 DEF Comes
<1>5. e \in Reads(i)
  <2>1. CASE e \in Elements(dag_config[k].latest)
    BY <1>4, <2>1 DEF Reads, Static
  <2>2. CASE e \notin Elements(dag_config[k].latest)
    <3>1. (\E d \in Elements(dag_config[k].trigger) : MadeFor(k, d)) /\ e \in Elements(dag_config[k].input)
      BY <2>2
    <3>2. ~IsInput(i)
      BY <1>1, <1>3, <3>1
    <3>. QED
      BY <1>4, <3>1, <3>2 DEF Reads, Static
  <2>. QED
    BY <2>1, <2>2
<1>6. PICK x \in Outputs : Event(x) = e
  BY <1>2, <1>5
<1>7. x[1] \in DOMAIN ops /\ x[2] \in DOMAIN ops[x[1]].output
  BY OutputPlaces
<1>8. PICK p \in On : f[x[1]] = p
  BY <1>7 DEF Comes
<1>9. e \in EventsOf(dag_config[p])
  <2>1. Static(ops[x[1]], dag_config[p])
    BY <1>7, <1>8 DEF Comes
  <2>2. e \in EventsOf(ops[x[1]])
    BY <1>6, <1>7 DEF EventsOf, Event, Output
  <2>. QED
    BY <2>1, <2>2, SameWishes
<1>10. p # k
  <2>1. e \in Elements(dag_config[k].input) \cup Elements(dag_config[k].latest)
    OBVIOUS
  <2>2. k \in DOMAIN dag_config
    BY DEF On
  <2>. QED
    BY <1>0, <1>9, <2>1, <2>2 DEF OthersRead
<1>. QED
  BY <1>9, <1>10 DEF MadeFor

\* An output that no link has reached has the name and the type that the file gives it.
AsGiven(f) ==
    \A w \in Outputs : Unlinked(w) => \A out \in {dag_config[f[w[1]]].output[w[2]]} :
        Output(w).type = out.type /\ Output(w).data = out.data
Told == stage \in Later => \E f : Comes(f) /\ AsGiven(f)

\* What is linked is the downstream whose turn it is, and nobody else has reached it before.
LEMMA LinkTurn ==
    ASSUME OneMaker, FileInv, Link, stage' # "failed"
    PROVE  \E w \in Outputs, v \in Workers, d \in Downstreams :
             /\ w[1] < v[1] /\ Event(w) = Trigger(v) /\ LinkOf(w, v) \in Matches
             /\ Done' = Done \cup {LinkOf(w, v)} /\ Unlinked(v)
             /\ SameFile /\ Outputs' = Outputs /\ Workers' = Workers /\ Matches' = Matches
             /\ Linked(w, v, d) /\ TypesTold(w, v, d)
             /\ \A u \in Outputs : Unlinked(u)' => u # v /\ Unlinked(u)
             /\ stage = "link" /\ stage' = "link"
<1>0. TypedInv /\ Typed
  BY DEF FileInv, StructInv, TypedInv
<1>1. PICK w \in Outputs, v \in Workers, d \in Downstreams :
           /\ w[1] < v[1] /\ Event(w) = Trigger(v)
           /\ LinkOf(w, v) \in todo /\ todo' = todo \ {LinkOf(w, v)}
           /\ Linked(w, v, d) /\ TypesTold(w, v, d) /\ stage = "link" /\ stage' = "link"
  BY <1>0, LinkEffect DEF LinkOf
<1>2. SameFile
  BY <1>1 DEF Linked
<1>3. Outputs' = Outputs /\ Workers' = Workers /\ Matches' = Matches
  BY <1>2, SameShape
<1>4. Done' = Done \cup {LinkOf(w, v)} /\ LinkOf(w, v) \notin Done
  BY <1>0, <1>1, <1>3, DoneGrows
<1>5. LinkOf(w, v) \in Matches
  BY <1>0, <1>1 DEF Typed
<1>6. Unlinked(v)
  <2>. SUFFICES ASSUME NEW x \in Outputs, LinkOf(x, v) \in Done PROVE FALSE
    BY DEF Unlinked
  <2>1. LinkOf(x, v) \in Matches
    BY <1>1 DEF Done
  <2>2. Event(x) = Event(w)
    BY <1>1, <2>1, LinkOfPlaces
  <2>3. x = w
    BY <1>0, <2>2, ByEvent DEF FileInv
  <2>. QED
    BY <1>4, <2>3
<1>7. ASSUME NEW u \in Outputs, Unlinked(u)'
      PROVE  u # v /\ Unlinked(u)
  <2>1. \A x \in Outputs : LinkOf(x, u) \notin Done /\ LinkOf(x, u) # LinkOf(w, v)
    BY <1>3, <1>4, <1>7 DEF Unlinked, LinkOf
  <2>. QED
    BY <2>1 DEF Unlinked
<1>. QED
  BY <1>1, <1>2, <1>3, <1>4, <1>5, <1>6, <1>7

\* Later steps change nothing of the outputs but their references.
LEMMA LaterSteps ==
    ASSUME TypedInv, [Next]_vars, stage' \in Later, ~Parse, ~Link
    PROVE  /\ SameFile /\ stage \in Later /\ Done' = Done
           /\ Outputs' = Outputs /\ Workers' = Workers /\ Matches' = Matches
           /\ \A w \in Outputs : /\ Output(w).type' = Output(w).type /\ Output(w).data' = Output(w).data
                                 /\ Down(w)' = Down(w)
<1>0. ops \in Seq(OperatorInfos)
  BY DEF TypedInv, Typed
<1>1. CASE SetReference
  <2>1. /\ SameFile /\ stage = "link" /\ todo = {} /\ stage' = "register"
        /\ \A w \in Outputs : /\ Output(w).type' = Output(w).type /\ Output(w).data' = Output(w).data
                              /\ Down(w)' = Down(w)
    BY <1>0, <1>1, ReferenceEffect
  <2>2. Outputs' = Outputs /\ Workers' = Workers /\ Matches' = Matches
    BY <2>1, SameShape
  <2>. QED
    BY <2>1, <2>2 DEF Done, Later
<1>2. CASE ops' = ops /\ stage \in Later /\ Done' = Done
  <2>1. SameFile
    BY <1>2 DEF SameFile, Static
  <2>. QED
    BY <1>2, <2>1, SameOps
<1>3. ASSUME ops' = ops, (stage \in Settled /\ stage' \in Settled) \/ (stage' = stage /\ todo' = todo)
      PROVE  stage \in Later /\ Done' = Done
  <2>1. Matches' = Matches
    BY <1>3, SameOps
  <2>. QED
    BY <1>3, <2>1 DEF Done, Settled, Later
<1>. QED
  BY <1>1, <1>2, <1>3, LinkingSteps

\* Only a link gives an output another name or type.
LEMMA ToldKeeps ==
    ASSUME OneMaker, FileInv, Told, [Next]_vars
    PROVE  Told'
<1>0. TypedInv /\ Typed /\ FromFile /\ ops \in Seq(OperatorInfos) /\ dag_config' = dag_config
  BY OpsSteps DEF FileInv, StructInv, TypedInv, Typed
<1>. SUFFICES ASSUME stage' \in Later
              PROVE  \E f : Comes(f)' /\ AsGiven(f)'
  BY DEF Told
<1>1. CASE Parse
  <2>1. /\ SameFile /\ stage = "parse"
        /\ \A w \in Outputs : Output(w).data' = Output(w).data
        /\ \A w \in Outputs : Output(w).type' = Output(w).type
    BY <1>0, <1>1, ParseEffect DEF Later
  <2>2. PICK f : Comes(f) /\ \A i \in DOMAIN ops : ops[i] = dag_config[f[i]]
    BY <1>0, <2>1, AllCome
  <2>3. \A w \in Outputs : Output(w) = dag_config[f[w[1]]].output[w[2]]
    BY <2>2, OutputPlaces DEF Output
  <2>4. Outputs' = Outputs
    BY <2>1, SameShape
  <2>. QED
    BY <1>0, <2>1, <2>2, <2>3, <2>4, ComesKept DEF AsGiven
<1>2. CASE Link
  <2>1. PICK w \in Outputs, v \in Workers, d \in Downstreams :
             /\ SameFile /\ Outputs' = Outputs /\ stage = "link"
             /\ Linked(w, v, d) /\ TypesTold(w, v, d)
             /\ \A u \in Outputs : Unlinked(u)' => u # v /\ Unlinked(u)
    BY <1>2, LinkTurn DEF Later
  <2>2. PICK f : Comes(f) /\ AsGiven(f)
    BY <2>1 DEF Told, Later
  <2>3. ASSUME NEW u \in Outputs, u # v
        PROVE  Output(u).type' = Output(u).type /\ Output(u).data' = Output(u).data
    BY <2>1, <2>3 DEF Linked, TypesTold
  <2>4. AsGiven(f)'
    BY <1>0, <2>1, <2>2, <2>3 DEF AsGiven
  <2>. QED
    BY <1>0, <2>1, <2>2, <2>4, ComesKept
<1>3. CASE ~Parse /\ ~Link
  <2>1. /\ SameFile /\ stage \in Later /\ Done' = Done /\ Outputs' = Outputs
        /\ \A w \in Outputs : Output(w).type' = Output(w).type /\ Output(w).data' = Output(w).data
    BY <1>0, <1>3, LaterSteps
  <2>2. PICK f : Comes(f) /\ AsGiven(f)
    BY <2>1 DEF Told
  <2>3. \A w : Unlinked(w)' = Unlinked(w)
    BY <2>1 DEF Unlinked, LinkOf
  <2>4. AsGiven(f)'
    BY <1>0, <2>1, <2>2, <2>3 DEF AsGiven
  <2>. QED
    BY <1>0, <2>1, <2>2, <2>4, ComesKept
<1>. QED
  BY <1>1, <1>2, <1>3

\* Who is triggered in the file has an upstream, and the other way round.
LEMMA TriggeredAbove ==
    ASSUME TypedInv, OpsDown, NEW f, Comes(f), NEW w \in Outputs, NEW i, i = f[w[1]]
    PROVE  /\ i \in DOMAIN dag_config /\ Enabled(dag_config[i])
           /\ w[2] \in DOMAIN dag_config[i].output /\ Event(w) = dag_config[i].output[w[2]].event
           /\ Fed(w) <=> Triggered(dag_config, i, w[2])
<1>1. w = <<w[1], w[2]>> /\ w[1] \in DOMAIN ops /\ w[2] \in DOMAIN ops[w[1]].output
  BY OutputPlaces
<1>2. Static(ops[w[1]], dag_config[i]) /\ i \in On
  BY <1>1 DEF Comes
<1>3. /\ i \in DOMAIN dag_config /\ Enabled(dag_config[i])
      /\ w[2] \in DOMAIN dag_config[i].output /\ Event(w) = dag_config[i].output[w[2]].event
  BY <1>1, <1>2 DEF On, Static, Event, Output
<1>4. CASE w \in Workers
  <2>1. /\ Trigger(w) = dag_config[i].trigger[w[2]] /\ w[2] \in DOMAIN dag_config[i].trigger
        /\ Fed(w) <=> MadeFor(i, Trigger(w))
    BY <1>4, MadeAbove
  <2>. QED
    BY <1>3, <2>1 DEF MadeFor, Triggered, On
<1>5. CASE w \notin Workers
  <2>1. ~Fed(w)
    <3>. SUFFICES ASSUME NEW x \in Outputs, LinkOf(x, w) \in Matches PROVE FALSE
      BY DEF Fed
    <3>1. <<w[1], w[2]>> \in Workers
      <4>1. /\ <<x[1], w[1], x[2], w[2]>>[2] = w[1]
            /\ <<x[1], w[1], x[2], w[2]>>[4] = w[2]
        OBVIOUS
      <4>. QED
        BY <4>1, MatchPlaces DEF LinkOf
    <3>. QED
      BY <1>1, <1>5, <3>1
  <2>2. w[2] \notin DOMAIN dag_config[i].trigger
    BY <1>1, <1>2, <1>5, WorkerPlaces DEF Static
  <2>. QED
    BY <1>3, <2>1, <2>2 DEF Triggered
<1>. QED
  BY <1>4, <1>5

\* No link reaches an output without upstream.
LEMMA UnfedUnlinked ==
    ASSUME Typed, NEW w, ~Fed(w)
    PROVE  Unlinked(w)
<1>1. Done \subseteq Matches
  BY DEF Done
<1>. QED
  BY <1>1 DEF Unlinked, Fed

\* An output without upstream of whose type nobody knows.
Untyped(w) == w \in Outputs /\ ~Fed(w) /\ Output(w).type = ""

\* Its data have their name to themselves,
LEMMA UntypedAlone ==
    ASSUME SourcesTyped, TypedInv, OpsDown, NEW f, Comes(f), AsGiven(f),
           NEW w, Untyped(w), NEW x \in Outputs, ~Fed(x), Output(x).data = Output(w).data
    PROVE  x = w
<1>1. w \in Outputs /\ dag_config \in Configs /\ Unlinked(w) /\ Unlinked(x)
  BY UnfedUnlinked DEF Untyped, TypedInv, Typed
<1>2. PICK i, j : i = f[w[1]] /\ j = f[x[1]]
  OBVIOUS
<1>3. /\ i \in DOMAIN dag_config /\ Enabled(dag_config[i]) /\ w[2] \in DOMAIN dag_config[i].output
      /\ ~Triggered(dag_config, i, w[2])
  BY <1>1, <1>2, TriggeredAbove DEF Untyped
<1>4. /\ j \in DOMAIN dag_config /\ Enabled(dag_config[j]) /\ x[2] \in DOMAIN dag_config[j].output
      /\ ~Triggered(dag_config, j, x[2])
  BY <1>1, <1>2, TriggeredAbove
<1>5. /\ dag_config[i].output[w[2]].type = ""
      /\ dag_config[j].output[x[2]].data = dag_config[i].output[w[2]].data
  BY <1>1, <1>2 DEF AsGiven, Untyped
<1>6. i = j /\ w[2] = x[2]
  BY <1>1, <1>3, <1>4, <1>5 DEF SourcesTyped
<1>7. w[1] = x[1]
  <2>1. w[1] \in DOMAIN ops /\ x[1] \in DOMAIN ops
    BY <1>1, OutputPlaces
  <2>2. f[w[1]] = f[x[1]]
    BY <1>2, <1>6
  <2>. QED
    BY <2>1, <2>2 DEF Comes
<1>. QED
  BY <1>1, <1>6, <1>7, OutputPlaces

\* and those who make something from them give that no type.
LEMMA UntypedBelow ==
    ASSUME SourcesTyped, TypedInv, OpsDown, NEW f, Comes(f), AsGiven(f),
           NEW w, Untyped(w), NEW v \in Workers, v \in Outputs, Unlinked(v),
           w[1] < v[1], Event(w) = Trigger(v)
    PROVE  Output(v).type = ""
<1>1. w \in Outputs /\ dag_config \in Configs /\ Unlinked(w) /\ DOMAIN ops \subseteq Nat
  <2>1. ops \in Seq(OperatorInfos) /\ Typed
    BY DEF TypedInv, Typed
  <2>2. DOMAIN ops \subseteq Nat
    BY <2>1
  <2>. QED
    BY <2>1, <2>2, UnfedUnlinked DEF Untyped, Typed
<1>2. PICK i, j : i = f[w[1]] /\ j = f[v[1]]
  OBVIOUS
<1>3. /\ i \in DOMAIN dag_config /\ Enabled(dag_config[i]) /\ w[2] \in DOMAIN dag_config[i].output
      /\ ~Triggered(dag_config, i, w[2]) /\ Event(w) = dag_config[i].output[w[2]].event
  BY <1>1, <1>2, TriggeredAbove DEF Untyped
<1>4. j \in DOMAIN dag_config /\ Enabled(dag_config[j]) /\ v[2] \in DOMAIN dag_config[j].output
  BY <1>1, <1>2, TriggeredAbove
<1>5. Trigger(v) = dag_config[j].trigger[v[2]] /\ v[2] \in DOMAIN dag_config[j].trigger
  BY <1>2, MadeAbove
<1>6. i # j
  <2>1. w[1] \in DOMAIN ops /\ v[1] \in DOMAIN ops /\ w[1] # v[1]
    BY <1>1, OutputPlaces
  <2>. QED
    BY <1>2, <2>1 DEF Comes
<1>7. dag_config[i].output[w[2]].type = ""
  BY <1>1, <1>2 DEF AsGiven, Untyped
<1>8. dag_config[j].output[v[2]].type = ""
  <2>1. dag_config[j].trigger[v[2]] = dag_config[i].output[w[2]].event
    BY <1>3, <1>5
  <2>. QED
    <3>1. PICK s : s = dag_config
      OBVIOUS
    <3>2. s \in Configs /\ i \in DOMAIN s /\ j \in DOMAIN s /\ Enabled(s[i]) /\ Enabled(s[j])
      BY <1>1, <1>3, <1>4, <3>1
    <3>3. \A m \in DOMAIN s[i].output, n \in DOMAIN s[j].output :
             ~Triggered(s, i, m) /\ s[i].output[m].type = "" =>
                 /\ ~Triggered(s, j, n) /\ s[j].output[n].data = s[i].output[m].data => i = j /\ m = n
                 /\ i # j /\ n \in DOMAIN s[j].trigger /\ s[j].trigger[n] = s[i].output[m].event =>
                      s[j].output[n].type = ""
      BY <3>2, Zenon DEF SourcesTyped
    <3>. QED
      BY <1>3, <1>4, <1>5, <1>6, <1>7, <2>1, <3>1, <3>3
<1>. QED
  BY <1>2, <1>8 DEF AsGiven

\* So the downstreams of such an output only take the data, and know no type either.
UntypedLinks ==
    stage \in Later =>
        \A w \in Outputs : Untyped(w) =>
            \A d \in Elements(Down(w)) : Target(d) \notin Outputs /\ d.type = ""

\* No link changes that, as the file has no type on either side of it.
LEMMA UntypedKeeps ==
    ASSUME OneMaker, SourcesTyped, FileInv, Told, UntypedLinks, [Next]_vars
    PROVE  UntypedLinks'
<1>0. TypedInv /\ Typed /\ FromFile /\ LinksMade /\ ops \in Seq(OperatorInfos)
  BY DEF FileInv, StructInv, TypedInv, Typed
<1>. SUFFICES ASSUME stage' \in Later PROVE UntypedLinks'
  BY DEF UntypedLinks
<1>1. CASE Parse
  <2>1. SameFile /\ \A w \in Outputs : Down(w)' = <<>>
    BY <1>0, <1>1, ParseEffect DEF Later
  <2>2. Outputs' = Outputs
    BY <2>1, SameShape
  <2>3. \A w \in Outputs : Elements(Down(w))' = {}
    BY <2>1 DEF Elements
  <2>. QED
    BY <2>2, <2>3 DEF UntypedLinks
<1>2. CASE Link
  <2>1. PICK w \in Outputs, v \in Workers, d \in Downstreams :
             /\ w[1] < v[1] /\ Event(w) = Trigger(v) /\ LinkOf(w, v) \in Matches /\ Unlinked(v)
             /\ SameFile /\ Outputs' = Outputs /\ Workers' = Workers
             /\ Linked(w, v, d) /\ TypesTold(w, v, d) /\ stage = "link"
    BY <1>2, LinkTurn DEF Later
  <2>2. PICK f : Comes(f) /\ AsGiven(f)
    BY <2>1 DEF Told, Later
  <2>3. OpsDown
    BY <2>1, LinksFollow DEF FileInv, Downwards
  <2>4. /\ \A u \in Outputs : Down(u)' = IF u = w THEN Append(Down(u), d) ELSE Down(u)
        /\ \A u \in Outputs : u # v => Output(u).type' = Output(u).type
        /\ d.type = IF v \in Outputs THEN TypeName(Output(w), Output(v)) ELSE Output(w).type
        /\ v \in Outputs => d.type # ""
        /\ Target(d) = v
    BY <2>1 DEF Linked, TypesTold
  <2>5. Fed(v) /\ w # v
    <3>1. w[1] \in Nat /\ v[1] \in Nat
      BY <1>0, OutputPlaces, WorkerPlaces
    <3>. QED
      BY <2>1, <3>1 DEF Fed
  <2>6. ASSUME NEW u \in Outputs, Untyped(u)'
        PROVE  Untyped(u)
    <3>1. Fed(u)' = Fed(u)
      BY <2>1, FedKept
    <3>2. ~Fed(u) /\ Output(u).type' = ""
      BY <2>6, <3>1 DEF Untyped
    <3>. QED
      BY <2>4, <2>5, <3>2 DEF Untyped
  <2>7. Untyped(w) => v \notin Outputs /\ d.type = ""
    <3>. SUFFICES ASSUME Untyped(w) PROVE v \notin Outputs /\ d.type = ""
      OBVIOUS
    <3>1. CASE v \in Outputs
      <4>1. Output(v).type = ""
        BY <1>0, <2>1, <2>2, <2>3, <3>1, UntypedBelow
      <4>. QED
        BY <2>4, <3>1, <4>1 DEF TypeName, Untyped
    <3>2. CASE v \notin Outputs
      BY <2>4, <3>2 DEF Untyped
    <3>. QED
      BY <3>1, <3>2
  <2>8. Elements(Append(Down(w), d)) = Elements(Down(w)) \cup {d}
    <3>1. Down(w) \in Seq(Downstreams)
      BY <1>0, NamesTyped DEF Down, OutputInfos
    <3>. QED
      BY <3>1, AppendFact
  <2>9. ASSUME NEW u \in Outputs, Untyped(u)', NEW e \in Elements(Down(u))'
        PROVE  Target(e) \notin Outputs /\ e.type = ""
    <3>1. e \in Elements(Down(u)) \/ (u = w /\ e = d)
      BY <2>4, <2>8, <2>9 DEF Elements
    <3>. QED
      BY <2>1, <2>4, <2>6, <2>7, <2>9, <3>1 DEF UntypedLinks, Later
  <2>. QED
    BY <2>1, <2>9 DEF UntypedLinks, Target
<1>3. CASE ~Parse /\ ~Link
  <2>1. /\ SameFile /\ stage \in Later /\ Outputs' = Outputs
        /\ \A w \in Outputs : Output(w).type' = Output(w).type /\ Down(w)' = Down(w)
    BY <1>0, <1>3, LaterSteps
  <2>2. \A w \in Outputs : Untyped(w)' = Untyped(w) /\ Elements(Down(w))' = Elements(Down(w))
    BY <2>1, FedKept DEF Untyped, Elements
  <2>. QED
    BY <2>1, <2>2 DEF UntypedLinks, Target
<1>. QED
  BY <1>1, <1>2, <1>3

\* The name of data that nobody inherits and that no other source has is nobody else's.
LEMMA SourceFirst ==
    ASSUME SettledNames, NEW v \in Outputs, ~Fed(v),
           \A x \in Outputs : ~Fed(x) /\ Output(x).data = Output(v).data => x = v,
           \A t, k : Goes(v, t, k) => t \notin Outputs,
           NEW y \in Outputs, y # v
    PROVE  ~Uses(y, Output(v).data)
<1>0. stage \in Later /\ LinksMade /\ ops \in Seq(OperatorInfos)
  BY DEF SettledNames, FileInv, StructInv, TypedInv, Typed, Later, Settled
<1>1. PlainName(Output(v).data)
  BY SourceFacts
<1>. DEFINE bad == {x \in Outputs : x # v /\ Output(x).data = Output(v).data}
<1>2. bad = {}
  <2>. SUFFICES ASSUME bad # {} PROVE FALSE
    OBVIOUS
  <2>1. {x[1] : x \in bad} \subseteq Nat /\ {x[1] : x \in bad} # {}
    BY OperatorNames
  <2>2. PICK n \in {x[1] : x \in bad} : \A m \in {x[1] : x \in bad} : n <= m
    <3>. HIDE DEF bad
    <3>. QED
      BY <2>1, LeastNumber
  <2>3. PICK x \in bad : x[1] = n
    BY <2>2
  <2>4. Fed(x)
    BY <2>3
  <2>5. PICK w, k : Goes(w, x, k)
    BY <2>3, <2>4, FedFacts
  <2>6. Heir(w, x)
    BY <1>1, <2>3, <2>5, HeirOrNot
  <2>7. /\ w \in Outputs /\ w[1] < x[1] /\ w[1] \in Nat /\ x[1] \in Nat
        /\ Output(w).data = Output(x).data
    BY <2>6, HeirFacts
  <2>8. w # v
    BY <2>3, <2>5
  <2>9. w \in bad
    BY <2>3, <2>7, <2>8
  <2>. QED
    BY <2>2, <2>3, <2>7, <2>9
<1>3. Output(y).data # Output(v).data
  BY <1>2
<1>4. ASSUME NEW l \in DOMAIN Down(y), Down(y)[l].data = Output(v).data
      PROVE  FALSE
  <2>1. PICK t : t = Target(Down(y)[l])
    OBVIOUS
  <2>2. Goes(y, t, l)
    BY <1>0, <2>1 DEF LinksMade, Goes
  <2>3. Inherited(y, t, l)
    BY <1>1, <1>4, <2>2, LinkNotPlain
  <2>4. PICK base \in DataNames :
             /\ l = 1 => Down(y)[l].data = base
             /\ l # 1 => Down(y)[l].data.copies # <<>>
             /\ \/ base = Output(y).data
                \/ ~Inherited(y, t, l)
    BY <2>2, LinkBase
  <2>. QED
    BY <1>1, <1>3, <1>4, <2>3, <2>4 DEF PlainName
<1>. QED
  BY <1>3, <1>4 DEF Uses

\* An output without upstream of whose type nobody knows has a rate, and goes to nobody.
RatesGiven ==
    stage \in Settled /\ NamesDiffer =>
        \A w \in Outputs : Registered(w) /\ Untyped(w) => Output(w).hz > 0 /\ Down(w) = <<>>

\* When it is the output's turn, the name of its data is new.
LEMMA GivenTurn ==
    ASSUME SourcesTyped, SettledNames, DataMade, Told, UntypedLinks, stage = "register",
           NEW w \in todo, Untyped(w), \A k \in Fresh(w) : CanMake(DataOf(Output(w))[k])
    PROVE  Output(w).hz > 0 /\ Down(w) = <<>>
<1>0. /\ stage \in Later /\ LinksMade /\ ops \in Seq(OperatorInfos) /\ TypedInv /\ OpsDown
      /\ w \in Outputs /\ ~Fed(w) /\ "" \notin DOMAIN TypeHz
  BY LinksFollow
     DEF SettledNames, FileInv, StructInv, TypedInv, Typed, Later, Settled, Downwards, Untyped, SourcesTyped
<1>1. PICK f : Comes(f) /\ AsGiven(f)
  BY <1>0 DEF Told
<1>2. \A x \in Outputs : ~Fed(x) /\ Output(x).data = Output(w).data => x = w
  BY <1>0, <1>1, UntypedAlone
<1>3. ASSUME NEW t, NEW k, Goes(w, t, k)
      PROVE  t \notin Outputs /\ Down(w)[k].type = ""
  <2>1. Down(w)[k] \in Elements(Down(w)) /\ Target(Down(w)[k]) = t
    BY <1>3 DEF Goes, Elements
  <2>. QED
    BY <1>0, <2>1 DEF UntypedLinks
<1>4. Output(w).data \notin new_data
  <2>. SUFFICES ASSUME Output(w).data \in new_data PROVE FALSE
    OBVIOUS
  <2>1. PICK x \in Outputs : x \notin todo /\ Uses(x, Output(w).data)
    BY DEF DataMade, Settled, Registered
  <2>2. x # w
    BY <2>1
  <2>3. \A t, k : Goes(w, t, k) => t \notin Outputs
    BY <1>3
  <2>. QED
    BY <1>0, <1>2, <2>1, <2>2, <2>3, SourceFirst
<1>5. Output(w) \in OutputInfos
  BY <1>0, NamesTyped
<1>6. ASSUME NEW e, e = DataOf(Output(w))[1], e.data = Output(w).data
      PROVE  CanMake(e)
  <2>1. 1 \in DOMAIN DataOf(Output(w)) /\ 1 .. (1 - 1) = {}
    BY <1>5, DataOfOutput
  <2>2. 1 \in Fresh(w)
    BY <1>4, <1>6, <2>1 DEF Fresh
  <2>. QED
    BY <1>6, <2>2
<1>7. Down(w) = <<>>
  <2>. SUFFICES ASSUME Down(w) # <<>> PROVE FALSE
    OBVIOUS
  <2>1. 1 \in DOMAIN Down(w)
    <3>1. PICK s \in Seq(Downstreams) : s = Down(w)
      BY <1>5 DEF Down, OutputInfos
    <3>2. s # <<>>
      BY <3>1
    <3>. QED
      BY <3>1, <3>2
  <2>2. PICK v : v = Target(Down(w)[1])
    OBVIOUS
  <2>3. Goes(w, v, 1)
    BY <1>0, <2>1, <2>2 DEF LinksMade, Goes
  <2>4. v \notin Outputs /\ Down(w)[1].type = ""
    BY <1>3, <2>3
  <2>5. Down(w)[1].hz = 0 /\ LinkNamed(w, v, 1, Down(w)[1].data)
    <3>1. PICK k : k = 1
      OBVIOUS
    <3>2. Goes(w, v, k)
      BY <2>3, <3>1
    <3>3. LinkNamed(w, v, k, Down(w)[k].data)
      BY <3>2, LinkFacts
    <3>4. Down(w)[k].hz = IF v \in Outputs THEN Output(v).hz ELSE 0
      BY <3>2, LinkFacts
    <3>5. Down(w)[k].hz = 0
      BY <2>4, <3>4, Zenon
    <3>. QED
      BY <3>1, <3>3, <3>5, Zenon
  <2>6. Down(w)[1].data = Output(w).data
    BY <2>4, <2>5 DEF LinkNamed, IsBase, CopyFor
  <2>7. PICK e : e = DataOf(Output(w))[1]
    OBVIOUS
  <2>8. e.data = Output(w).data /\ e.type = "" /\ e.hz = 0
    BY <1>5, <2>1, <2>4, <2>5, <2>6, <2>7, DataOfOutput DEF Down
  <2>9. CanMake(e)
    BY <1>6, <2>7, <2>8
  <2>10. PICK hz, type : hz = e.hz /\ type = e.type
    OBVIOUS
  <2>11. hz > 0 \/ type \in DOMAIN TypeHz
    BY <2>9, <2>10, Zenon DEF CanMake
  <2>12. hz = 0
    BY <2>8, <2>10, Zenon
  <2>13. type = ""
    BY <2>8, <2>10, Zenon
  <2>14. "" \notin DOMAIN TypeHz
    BY <1>0
  <2>15. type \notin DOMAIN TypeHz
    BY <2>13, <2>14, Zenon
  <2>16. ~(0 > 0)
    OBVIOUS
  <2>. QED
    BY <2>11, <2>12, <2>15, <2>16, Zenon
<1>8. Output(w).hz > 0
  <2>1. PICK e : e = DataOf(Output(w))[1]
    OBVIOUS
  <2>2. Len(Output(w).downstream) + 1 = 1
    BY <1>7 DEF Down
  <2>3. e.data = Output(w).data /\ e.type = Output(w).type /\ e.hz = Output(w).hz
    BY <1>5, <2>1, <2>2, DataOfOutput
  <2>4. CanMake(e)
    BY <1>6, <2>1, <2>3
  <2>. QED
    BY <1>0, <2>3, <2>4 DEF CanMake, Untyped
<1>. QED
  BY <1>7, <1>8

\* Otherwise its turn would have failed.
LEMMA GivenKeeps ==
    ASSUME OneMaker, SourcesTyped, FileInv, OneUpstream, Named, DataMade, Told, UntypedLinks,
           RatesGiven, [Next]_vars
    PROVE  RatesGiven'
<1>0. Typed
  BY DEF FileInv, StructInv, TypedInv
<1>. SUFFICES ASSUME stage' \in Settled, NamesDiffer', NEW w \in Outputs', Registered(w)', Untyped(w)'
              PROVE  Output(w).hz' > 0 /\ Down(w)' = <<>>
  BY DEF RatesGiven
<1>1. stage' # "failed"
  BY DEF Settled
<1>2. CASE SetReference
  <2>1. stage' = "register" /\ todo' = Outputs /\ Outputs' = Outputs
    BY <1>0, <1>2, ReferenceEffect, SameShape DEF Typed
  <2>. QED
    BY <2>1 DEF Registered
<1>3. CASE ~SetReference
  <2>1. ops' = ops /\ stage \in Settled
    BY <1>0, <1>3, SettledSteps
  <2>2. /\ Outputs' = Outputs /\ Down(w)' = Down(w) /\ Output(w).hz' = Output(w).hz
        /\ Output(w).type' = Output(w).type
    BY <2>1, SameOps
  <2>3. NamesDiffer /\ SettledNames
    BY <2>1 DEF NamesDiffer, SettledNames
  <2>4. Untyped(w)
    <3>1. SameFile
      BY <2>1 DEF SameFile, Static
    <3>2. Fed(w)' = Fed(w)
      BY <2>2, <3>1, FedKept
    <3>. QED
      BY <2>2, <3>2 DEF Untyped
  <2>5. CASE Registered(w)
    BY <2>1, <2>2, <2>3, <2>4, <2>5 DEF RatesGiven
  <2>6. CASE ~Registered(w)
    <3>1. stage = "register" /\ w \in todo
      BY <2>6 DEF Registered
    <3>2. Register
      BY <1>1, <2>6, <3>1, RegisterEnds DEF Registered
    <3>3. PICK x \in todo :
            /\ todo' = todo \ {x} /\ stage' = stage
            /\ \A k \in Fresh(x) : CanMake(DataOf(Output(x))[k])
      BY <1>0, <1>1, <3>2, RegisterEffect
    <3>4. x = w
      BY <3>1, <3>3 DEF Registered
    <3>. QED
      BY <2>2, <2>3, <2>4, <3>1, <3>3, <3>4, GivenTurn
  <2>. QED
    BY <2>5, <2>6
<1>. QED
  BY <1>2, <1>3

\* Whoever is ready without being triggered has told what it makes.
LEMMA TriggersAreGiven ==
    ASSUME SettledNames, stage = "ready", RatesGiven, NEW f, Comes(f), AsGiven(f),
           \A i \in DOMAIN ops : Fitting(i)
    PROVE  TriggersGiven
<1>0. /\ TypedInv /\ Typed /\ OpsDown /\ LinksMade /\ stage \in Later
      /\ Done = Matches
  BY LinksFollow DEF SettledNames, FileInv, StructInv, TypedInv, Downwards, Later, Done
<1>. SUFFICES ASSUME NEW i \in On, NEW n \in DOMAIN dag_config[i].trigger,
                     ~MadeFor(i, dag_config[i].trigger[n])
              PROVE  n \in DOMAIN dag_config[i].output /\ Given(i, n)
  BY DEF TriggersGiven
<1>1. PICK j \in DOMAIN ops : f[j] = i
  BY DEF Comes
<1>2. Static(ops[j], dag_config[i])
  BY <1>1 DEF Comes
<1>3. PICK v : v = <<j, n>>
  OBVIOUS
<1>4. v \in Workers /\ v[1] = j /\ v[2] = n
  BY <1>2, <1>3, WorkerPlaces DEF Static
<1>5. ~Fed(v) /\ Unlinked(v)
  <2>1. ~Fed(v)
    BY <1>0, <1>1, <1>4, MadeAbove
  <2>. QED
    BY <1>0, <2>1, UnfedUnlinked
<1>6. TriggerName(v) = None
  BY <1>0, <1>4, <1>5 DEF SettledNames, Named
<1>7. HasOutput(v)
  <2>1. TriggerData(v) # None \/ HasOutput(v)
    BY <1>4 DEF Fitting
  <2>. QED
    BY <1>6, <2>1 DEF TriggerData, TriggerName
<1>8. v \in Outputs
  BY <1>3, <1>4, <1>7, OutputPlaces DEF HasOutput
<1>9. PICK out : out = dag_config[i].output[n]
  OBVIOUS
<1>10. /\ n \in DOMAIN dag_config[i].output
       /\ Output(v).hz = out.hz /\ Event(v) = out.event
  BY <1>2, <1>4, <1>7, <1>9 DEF HasOutput, Static, Output, Event
<1>11. out.type # "" \/ (out.hz > 0 /\ Down(v) = <<>>)
  <2>. SUFFICES ASSUME out.type = "" PROVE out.hz > 0 /\ Down(v) = <<>>
    OBVIOUS
  <2>1. Output(v).type = ""
    BY <1>1, <1>4, <1>5, <1>8, <1>9 DEF AsGiven
  <2>2. Untyped(v) /\ Registered(v) /\ stage \in Settled /\ NamesDiffer
    BY <1>5, <1>8, <2>1 DEF Untyped, Registered, SettledNames
  <2>. QED
    BY <1>8, <1>10, <2>2 DEF RatesGiven
<1>12. ASSUME Down(v) = <<>>, NEW p \in On, p # i
       PROVE  out.event \notin Elements(dag_config[p].trigger)
  <2>. SUFFICES ASSUME NEW m \in DOMAIN dag_config[p].trigger, dag_config[p].trigger[m] = out.event
                PROVE  FALSE
    BY DEF Elements
  <2>1. PICK a \in DOMAIN ops : f[a] = p
    BY DEF Comes
  <2>2. Static(ops[a], dag_config[p])
    BY <2>1 DEF Comes
  <2>3. PICK u : u = <<a, m>>
    OBVIOUS
  <2>4. u \in Workers /\ u[1] = a /\ u[2] = m /\ Trigger(u) = Event(v)
    BY <1>10, <2>2, <2>3, WorkerPlaces DEF Static, Trigger
  <2>5. v[1] < u[1]
    BY <1>0, <1>1, <1>4, <1>8, <1>12, <2>1, <2>4, WorkersDown
  <2>6. LinkOf(v, u) \in Done
    BY <1>0, <1>8, <2>4, <2>5, LinkOfPlaces
  <2>7. \E k \in DOMAIN Down(v) : Target(Down(v)[k]) = u
    BY <1>0, <1>8, <2>4, <2>6 DEF LinksMade
  <2>. QED
    BY <1>12, <2>7
<1>. QED
  BY <1>9, <1>10, <1>11, <1>12 DEF Given

\* What every program that starts has seen to, whatever the file is like.
Clear == SwitchesClear /\ RatesClear /\ NoCircle /\ OpsFit

\* What the program checks on its way from the file (check_operator_config, parse_config,
\* Operator::init) stays checked.
THEOREM ChecksInvariance ==
    Spec => [](FileInv /\ SwitchesChecked /\ RatesChecked /\ AllFitting)
<1>1. Init => SwitchesChecked /\ RatesChecked /\ AllFitting
  <2>. SUFFICES ASSUME Init PROVE SwitchesChecked /\ RatesChecked /\ AllFitting
    OBVIOUS
  <2>1. stage = "check" /\ \A k \in DOMAIN dag_config : <<k>> \in todo
    BY DEF Init
  <2>. QED
    BY <2>1 DEF SwitchesChecked, RatesChecked, AllFitting, Dealt, Later, PortStages
<1>2. FileInv /\ SwitchesChecked /\ [Next]_vars => SwitchesChecked'
  BY SwitchesKeep DEF FileInv, StructInv
<1>3. FileInv /\ RatesChecked /\ [Next]_vars => RatesChecked'
  BY RatesClearKeep DEF FileInv, StructInv
<1>4. FileInv /\ AllFitting /\ [Next]_vars => AllFitting'
  BY FittingKeeps DEF FileInv, StructInv
<1>. QED
  BY <1>1, <1>2, <1>3, <1>4, FileInvariance, PTL DEF Spec

\* Of a program that is ready, whatever the file is like: no operator says both when it is on
\* and when it is off, no output has both a rate and a type, no operators wait for each other
\* in a circle, and the Ops and the numbers fit what they are for.
THEOREM StartsOnlyClear == Spec => [](stage = "ready" => Clear)
<1>1. FileInv /\ SwitchesChecked /\ RatesChecked /\ AllFitting => (stage = "ready" => Clear)
  <2>. SUFFICES ASSUME FileInv, SwitchesChecked, RatesChecked, AllFitting, stage = "ready"
                PROVE  Clear
    OBVIOUS
  <2>1. PICK f : Comes(f)
    BY AllCome DEF FileInv
  <2>2. SwitchesClear /\ RatesClear
    BY DEF SwitchesChecked, SwitchesClear, RatesChecked, Dealt, Later
  <2>3. NoCircle
    BY <2>1, OrderClear DEF FileInv, StructInv, Downwards
  <2>4. OpsFit
    <3>1. \A i \in DOMAIN ops : Fitting(i)
      BY DEF AllFitting, PortStages, Running
    <3>. QED
      BY <2>1, <3>1, FittingFits DEF FileInv, StructInv
  <2>. QED
    BY <2>2, <2>3, <2>4 DEF Clear
<1>. QED
  BY <1>1, ChecksInvariance, PTL

\* The numbers up to n are n.
LEMMA SizeUpTo ==
    ASSUME NEW n \in Nat
    PROVE  IsFiniteSet(1 .. n) /\ Cardinality(1 .. n) = n
<1>1. IsFiniteSet(1 .. n) /\ Cardinality(1 .. n) = IF 1 > n THEN 0 ELSE n - 1 + 1
  BY FS_Interval
<1>. QED
  BY <1>1

\* A sort that leaves somebody out has found a circle.
LEMMA CircleFound ==
    ASSUME TypedInv, FromFile, stage = "sort", SortDone, Len(sorted) # Len(ops)
    PROVE  ~NoCircle
<1>0. /\ IInv /\ links = OpLinks(ops) /\ Nodes = DOMAIN ops
      /\ DOMAIN ops = 1 .. Len(ops) /\ Len(ops) \in Nat
  BY DEF TypedInv, Typed, Nodes, OpLinks
<1>1. sorted \in Seq(Nodes) /\ \A j, k \in DOMAIN sorted : sorted[j] = sorted[k] => j = k
  BY <1>0 DEF IInv, Places
<1>. DEFINE S == Nodes \ Elements(sorted)
<1>2. S # {}
  <2>. SUFFICES ASSUME Nodes \subseteq Elements(sorted) PROVE Len(sorted) = Len(ops)
    OBVIOUS
  <2>1. Len(sorted) \in Nat /\ DOMAIN sorted = 1 .. Len(sorted)
    BY <1>1
  <2>2. Len(sorted) <= Len(ops)
    <3>1. IsFiniteSet(Nodes) /\ Cardinality(Nodes) = Len(ops)
      BY <1>0, SizeUpTo
    <3>. QED
      BY <1>1, <3>1, NoLonger
  <2>3. Len(ops) <= Len(sorted)
    <3>1. \A i \in 1 .. Len(ops) : \E k \in 1 .. Len(sorted) : sorted[k] = i
      BY <1>0, <2>1 DEF Elements
    <3>2. PICK place : /\ place \in [1 .. Len(ops) -> 1 .. Len(sorted)]
                       /\ \A i \in 1 .. Len(ops) : sorted[place[i]] = i
      <4>. DEFINE at == [i \in 1 .. Len(ops) |-> CHOOSE k \in 1 .. Len(sorted) : sorted[k] = i]
      <4>1. \A i \in 1 .. Len(ops) : at[i] \in 1 .. Len(sorted) /\ sorted[at[i]] = i
        BY <3>1
      <4>2. at \in [1 .. Len(ops) -> 1 .. Len(sorted)]
        BY <4>1
      <4>. QED
        BY <4>1, <4>2
    <3>3. place \in Seq(1 .. Len(sorted)) /\ Len(place) = Len(ops) /\ DOMAIN place = 1 .. Len(ops)
      BY <1>0, <3>2
    <3>4. \A i, j \in DOMAIN place : place[i] = place[j] => i = j
      <4>. SUFFICES ASSUME NEW i \in 1 .. Len(ops), NEW j \in 1 .. Len(ops), place[i] = place[j]
                    PROVE  i = j
        BY <3>3
      <4>. QED
        BY <3>2
    <3>5. IsFiniteSet(1 .. Len(sorted)) /\ Cardinality(1 .. Len(sorted)) = Len(sorted)
      BY <2>1, SizeUpTo
    <3>6. Len(place) <= Cardinality(1 .. Len(sorted))
      BY <3>3, <3>4, <3>5, NoLonger
    <3>. QED
      BY <3>3, <3>5, <3>6
  <2>4. \A a, b \in Nat : a <= b /\ b <= a => a = b
    OBVIOUS
  <2>. QED
    BY <1>0, <2>1, <2>2, <2>3, <2>4, Zenon
<1>3. ASSUME NEW i \in S
      PROVE  \E p \in S : p \in Upstreams(links, i)
  <2>1. Upstreams(links, i) \ Elements(sorted) # {}
    BY <1>0, <1>3, LeftOutByOthers
  <2>. QED
    BY <2>1 DEF Upstreams, Nodes
<1>4. PICK f : Comes(f)
  BY AllCome
<1>. DEFINE T == {f[i] : i \in S}
<1>5. T \in SUBSET On /\ T # {}
  BY <1>0, <1>2, <1>4 DEF Comes
<1>6. ASSUME NEW i \in S
      PROVE  \E p \in T : WaitsFor(f[i], p)
  <2>1. PICK p \in S : p \in Upstreams(links, i)
    BY <1>3, <1>6
  <2>2. i \in links[p] /\ i \in DOMAIN ops /\ p \in DOMAIN ops
    BY <1>0, <2>1 DEF Upstreams
  <2>3. /\ i # p
        /\ EventsOf(ops[p]) \cap (Elements(ops[i].trigger) \cup Elements(ops[i].input)) # {}
    BY <1>0, <2>2 DEF OpLinks
  <2>4. Static(ops[p], dag_config[f[p]]) /\ Static(ops[i], dag_config[f[i]]) /\ f[p] # f[i]
    BY <1>4, <2>2, <2>3 DEF Comes
  <2>5. WaitsFor(f[i], f[p])
    BY <2>3, <2>4, SameWishes DEF WaitsFor
  <2>. QED
    BY <2>5
<1>. QED
  BY <1>5, <1>6 DEF NoCircle

\* Up to parse_config the program refuses no configuration without reason, whatever the file is
\* like: check_operator_config, sort_and_check_has_loop and parse_config give up only if
\* an operator says both when it is on and when it is off, some wait for each other in a
\* circle, or an output has both a rate and a type.
THEOREM RefusesForCause ==
    Spec => [][(stage \in {"check", "sort", "parse"}) /\ stage' = "failed"
                 => ~(SwitchesClear /\ NoCircle /\ RatesClear)]_vars
<1>1. /\ FileInv
      /\ [Next]_vars
      => [(stage \in {"check", "sort", "parse"}) /\ stage' = "failed"
            => ~(SwitchesClear /\ NoCircle /\ RatesClear)]_vars
  <2>. SUFFICES ASSUME FileInv, Step, stage \in {"check", "sort", "parse"}, stage' = "failed"
                PROVE  ~(SwitchesClear /\ NoCircle /\ RatesClear)
    BY DEF Next, vars
  <2>0. TypedInv /\ FromFile /\ Typed
    BY DEF FileInv, StructInv, TypedInv
  <2>1. CASE Check
    <3>1. PICK t \in todo : Contradictory(dag_config[t[1]]) /\ stage = "check"
      BY <2>1 DEF Check
    <3>2. t \in Turns
      BY <2>0, <3>1 DEF Typed
    <3>3. t[1] \in DOMAIN dag_config
      BY <3>2 DEF Turns
    <3>. QED
      BY <3>1, <3>3 DEF SwitchesClear
  <2>2. CASE Sorted
    <3>1. stage = "sort" /\ SortDone /\ Len(sorted) # Len(ops)
      BY <2>2 DEF Sorted
    <3>. QED
      BY <2>0, <3>1, CircleFound
  <2>3. CASE Parse
    <3>1. stage = "parse" /\ \E w \in Outputs : Output(w).hz > 0 /\ Output(w).type # ""
      BY <2>3 DEF Parse
    <3>2. PICK w \in Outputs : Output(w).hz > 0 /\ Output(w).type # ""
      BY <3>1
    <3>3. PICK f : Comes(f) /\ \A i \in DOMAIN ops : ops[i] = dag_config[f[i]]
      BY <2>0, <3>1, AllCome
    <3>4. w[1] \in DOMAIN ops /\ w[2] \in DOMAIN ops[w[1]].output
      BY OutputPlaces
    <3>5. PICK k \in On : k = f[w[1]]
      BY <3>3, <3>4 DEF Comes
    <3>6. w[2] \in DOMAIN dag_config[k].output /\ Output(w) = dag_config[k].output[w[2]]
      BY <3>3, <3>4, <3>5 DEF Output
    <3>7. ~(0 > 0)
      OBVIOUS
    <3>. QED
      BY <3>2, <3>6, <3>7, Zenon DEF RatesClear
  <2>4. CASE Checked \/ Sort
    BY <2>4 DEF Checked, Sort
  <2>. QED
    BY <2>1, <2>2, <2>3, <2>4
       DEF Step, Link, SetReference, Register, StartEvents, InitEvents, InitEventManager, InitOperator, Ready
<1>. QED
  BY <1>1, FileInvariance, PTL DEF Spec

\* Of files that are clear about who makes what: what is found out about the names and the
\* types of the data that nobody triggers stays true.
THEOREM TypesInvariance ==
    ASSUME OneMaker, SourcesNamed, SourcesTyped
    PROVE  Spec => []((FileInv /\ OneUpstream /\ AllOn /\ Named)
                      /\ (NamesFree /\ ReferencesMade /\ DataMade)
                      /\ (Told /\ UntypedLinks /\ RatesGiven))
<1>1. Init => (NamesFree /\ ReferencesMade /\ DataMade) /\ (Told /\ UntypedLinks /\ RatesGiven)
  <2>. SUFFICES ASSUME Init
                PROVE  (NamesFree /\ ReferencesMade /\ DataMade) /\ (Told /\ UntypedLinks /\ RatesGiven)
    OBVIOUS
  <2>1. stage = "check" /\ new_data = {} /\ shared_data_map_ = <<>>
    BY DEF Init
  <2>. QED
    BY <2>1 DEF NamesFree, ReferencesMade, DataMade, Told, UntypedLinks, RatesGiven, Later, Settled
<1>2. FileInv /\ NamesFree /\ ReferencesMade /\ [Next]_vars => NamesFree' /\ ReferencesMade'
  BY NamesFreeKeeps, ReferencesKeep DEF FileInv, StructInv
<1>3. FileInv /\ DataMade /\ [Next]_vars => DataMade'
  BY DataKeeps DEF FileInv, StructInv, TypedInv
<1>4. FileInv /\ Told /\ [Next]_vars => Told'
  BY ToldKeeps
<1>5. FileInv /\ Told /\ UntypedLinks /\ [Next]_vars => UntypedLinks'
  BY UntypedKeeps
<1>6. FileInv /\ OneUpstream /\ Named /\ DataMade /\ Told /\ UntypedLinks /\ RatesGiven /\ [Next]_vars
        => RatesGiven'
  BY GivenKeeps
<1>. QED
  BY <1>1, <1>2, <1>3, <1>4, <1>5, <1>6, NamesInvariance, PTL DEF Spec

\* The program starts only with a configuration that can work, if the file is clear about who
\* makes what, nobody reads what it makes itself, and data without a type where they come from
\* get none further down either (all checks from parse_config to Operator::init).
THEOREM StartsHold ==
    ASSUME OneMaker, SourcesNamed, OthersRead, SourcesTyped
    PROVE  Spec => []StartsOnlyStartable
<1>1. /\ (stage = "ready" => Clear) /\ AllFitting
      /\ FileInv /\ OneUpstream /\ Named /\ ReferencesMade /\ Told /\ RatesGiven
      => StartsOnlyStartable
  <2>. SUFFICES ASSUME Clear, AllFitting, FileInv, OneUpstream, Named, ReferencesMade, Told, RatesGiven,
                       stage = "ready"
                PROVE  Startable
    BY DEF StartsOnlyStartable
  <2>1. PICK f : Comes(f) /\ AsGiven(f)
    BY DEF Told, Later
  <2>2. \A i \in DOMAIN ops : Fitting(i)
    BY DEF AllFitting, PortStages, Running
  <2>3. SettledNames
    BY DifferWhenReady DEF SettledNames, Settled, FileInv, StructInv
  <2>4. InputsMade
    BY <2>1, <2>2, ReadsAreMade
  <2>5. TriggersGiven
    BY <2>1, <2>2, <2>3, TriggersAreGiven
  <2>. QED
    BY <2>4, <2>5 DEF Startable, Clear
<1>. QED
  BY <1>1, ChecksInvariance, StartsOnlyClear, TypesInvariance, PTL
=============================================================================
