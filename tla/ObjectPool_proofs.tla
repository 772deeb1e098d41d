-------------------------- MODULE ObjectPool_proofs --------------------------
(***************************************************************************)
(* Proofs about ObjectPool for every set of threads, capacity and bound of *)
(* the counter.                                                            *)
(***************************************************************************)
EXTENDS ObjectPool, Induction, TLAPS

-----------------------------------------------------------------------------
(* Lists.                                                                  *)

Nexts == [Nodes -> Nodes \cup {Null}]

\* A set that holds the head and is closed under next holds the list.
LEMMA ListLeast ==
    ASSUME NEW head, NEW nxt, NEW S \in SUBSET Nodes,
           head \in S \cup {Null}, Linked(S, nxt)
    PROVE  List(head, nxt) \subseteq S
BY DEF List

\* The list holds its head and is closed under next.
LEMMA ListLinked ==
    ASSUME NEW head \in Nodes \cup {Null}, NEW nxt \in Nexts
    PROVE  /\ List(head, nxt) \subseteq Nodes
           /\ head \in List(head, nxt) \cup {Null}
           /\ Linked(List(head, nxt), nxt)
<1>1. ASSUME NEW n \in List(head, nxt), nxt[n] # Null
      PROVE  nxt[n] \in List(head, nxt)
  <2>1. n \in Nodes /\ nxt[n] \in Nodes
    BY <1>1 DEF List, Nexts
  <2>2. ASSUME NEW S \in SUBSET Nodes, head \in S \cup {Null}, Linked(S, nxt)
        PROVE  nxt[n] \in S
    BY <1>1, <2>2 DEF List, Linked
  <2>. QED
    BY <2>1, <2>2 DEF List
<1>. QED
  BY <1>1 DEF List, Linked

\* The list of a null head is empty.
LEMMA ListNull ==
    ASSUME NEW nxt
    PROVE  List(Null, nxt) = {}
<1>1. Null \in {} \cup {Null} /\ Linked({}, nxt)
  BY DEF Linked
<1>. QED
  BY <1>1, ListLeast

\* What next says of nodes outside the list is of no importance.
LEMMA ListSame ==
    ASSUME NEW head \in Nodes \cup {Null}, NEW nxt \in Nexts, NEW nxt2 \in Nexts,
           \A n \in List(head, nxt) : nxt2[n] = nxt[n]
    PROVE  List(head, nxt2) = List(head, nxt)
<1>1. List(head, nxt2) \subseteq List(head, nxt)
  <2>1. Linked(List(head, nxt), nxt2)
    BY ListLinked DEF Linked
  <2>. QED
    BY <2>1, ListLinked, ListLeast
<1>2. List(head, nxt) \subseteq List(head, nxt2)
  <2>1. Linked(List(head, nxt2), nxt)
    BY <1>1, ListLinked DEF Linked
  <2>. QED
    BY <2>1, ListLinked, ListLeast
<1>. QED
  BY <1>1, <1>2

\* A list is in order if some rank falls from every node to the next: there is no
\* loop.
InOrder(head, nxt) ==
    \E rank \in [Nodes -> Nat] :
        \A n \in List(head, nxt) : nxt[n] # Null => rank[nxt[n]] < rank[n]

\* Without its head a list is the list of the next node, and still in order.
LEMMA ListTail ==
    ASSUME NEW head \in Nodes, NEW nxt \in Nexts, InOrder(head, nxt)
    PROVE  /\ List(nxt[head], nxt) = List(head, nxt) \ {head}
           /\ InOrder(nxt[head], nxt)
<1>. DEFINE L == List(head, nxt)
            T == List(nxt[head], nxt)
<1>1. Null \notin Nodes
  BY DEF Null, Nodes
<1>2. nxt[head] \in Nodes \cup {Null}
  BY DEF Nexts
<1>3. L \subseteq Nodes /\ head \in L /\ Linked(L, nxt)
  BY <1>1, ListLinked
<1>4. T \subseteq Nodes /\ nxt[head] \in T \cup {Null} /\ Linked(T, nxt)
  BY <1>2, ListLinked
<1>5. PICK rank \in [Nodes -> Nat] :
        \A n \in L : nxt[n] # Null => rank[nxt[n]] < rank[n]
  BY DEF InOrder
<1>6. T \subseteq L \ {head}
  <2>. DEFINE S == {n \in L : rank[n] < rank[head]}
  <2>1. nxt[head] \in S \cup {Null}
    BY <1>3, <1>5 DEF Linked
  <2>2. ASSUME NEW n \in S
        PROVE  nxt[n] \in S \cup {Null}
    <3>1. CASE nxt[n] = Null
      BY <3>1
    <3>2. CASE nxt[n] # Null
      <4>1. nxt[n] \in L /\ rank[nxt[n]] < rank[n]
        BY <1>3, <1>5, <3>2 DEF Linked
      <4>2. rank[nxt[n]] \in Nat /\ rank[n] \in Nat /\ rank[head] \in Nat
        BY <1>3, <4>1
      <4>. QED
        BY <4>1, <4>2
    <3>. QED
      BY <3>1, <3>2
  <2>3. T \subseteq S
    <3>1. S \in SUBSET Nodes /\ Linked(S, nxt)
      BY <1>3, <2>2 DEF Linked
    <3>. HIDE DEF S
    <3>. QED
      BY <2>1, <3>1, ListLeast
  <2>4. head \notin S
    <3>1. rank[head] \in Nat
      OBVIOUS
    <3>. QED
      BY <3>1
  <2>. QED
    BY <2>3, <2>4
<1>7. L \subseteq T \cup {head}
  <2>1. Linked(T \cup {head}, nxt)
    BY <1>4 DEF Linked
  <2>. QED
    BY <1>4, <2>1, ListLeast
<1>8. InOrder(nxt[head], nxt)
  BY <1>5, <1>6 DEF InOrder
<1>. QED
  BY <1>6, <1>7, <1>8

\* A node put in front of a list it is not in makes a list in order of both.
LEMMA ListPush ==
    ASSUME NEW node \in Nodes, NEW nxt \in Nexts, InOrder(nxt[node], nxt),
           node \notin List(nxt[node], nxt)
    PROVE  /\ List(node, nxt) = List(nxt[node], nxt) \cup {node}
           /\ InOrder(node, nxt)
<1>. DEFINE L == List(nxt[node], nxt)
            N == List(node, nxt)
            head == nxt[node]
<1>1. Null \notin Nodes
  BY DEF Null, Nodes
<1>2. head \in Nodes \cup {Null}
  BY DEF Nexts
<1>3. L \subseteq Nodes /\ head \in L \cup {Null} /\ Linked(L, nxt)
  BY <1>2, ListLinked
<1>4. N \subseteq Nodes /\ node \in N /\ Linked(N, nxt)
  BY <1>1, ListLinked
<1>5. N \subseteq L \cup {node}
  <2>1. Linked(L \cup {node}, nxt)
    BY <1>3 DEF Linked
  <2>. QED
    BY <1>3, <2>1, ListLeast
<1>6. L \subseteq N
  BY <1>4, ListLeast DEF Linked
<1>7. InOrder(node, nxt)
  <2>1. PICK rank \in [Nodes -> Nat] :
          \A n \in L : nxt[n] # Null => rank[nxt[n]] < rank[n]
    BY DEF InOrder
  <2>. DEFINE above == [rank EXCEPT ![node] = IF head = Null THEN 0 ELSE rank[head] + 1]
  <2>2. above \in [Nodes -> Nat]
    BY <1>2
  <2>3. ASSUME NEW n \in N, nxt[n] # Null
        PROVE  above[nxt[n]] < above[n]
    <3>1. CASE n = node
      <4>1. head \in L /\ head # node
        BY <1>3, <2>3, <3>1
      <4>2. head \in Nodes /\ above[head] = rank[head] /\ above[node] = rank[head] + 1
        BY <1>2, <2>3, <3>1, <4>1
      <4>3. rank[head] \in Nat
        BY <4>2
      <4>. QED
        BY <3>1, <4>2, <4>3
    <3>2. CASE n # node
      <4>1. n \in L /\ nxt[n] \in L
        BY <1>3, <1>5, <2>3, <3>2 DEF Linked
      <4>. QED
        BY <1>3, <2>1, <2>3, <4>1
    <3>. QED
      BY <3>1, <3>2
  <2>. QED
    BY <2>2, <2>3 DEF InOrder
<1>. QED
  BY <1>4, <1>5, <1>6, <1>7
-----------------------------------------------------------------------------
(* The inductive invariant.                                                *)

\* A thread that has seen a head that it wants to take has seen a node.
SeenNode == \A t \in Threads : pc[t] = "take" => old_head[t].node # Null

\* The counter only grows: a head seen with the counter of the present one is the
\* present one.
Counted ==
    \A t \in Threads :
        /\ old_head[t].count <= free_head_.count
        /\ old_head[t].count = free_head_.count => old_head[t] = free_head_

\* So whoever finds its head unchanged still knows the node behind it, and nobody
\* but t writes the next of the node that t puts back.
LooksTrue ==
    \A t \in Threads :
        /\ pc[t] = "take" /\ Same(t) => new_head[t] = next[old_head[t].node]
        /\ pc[t] = "give" => next[new_head[t]] = old_head[t].node

Inv ==
    /\ TypeOK /\ SeenNode /\ Counted /\ LooksTrue
    /\ NodesAccounted
    /\ InOrder(free_head_.node, next)

\* In the beginning every node is in the list.
LEMMA AllFree ==
    ASSUME Init
    PROVE  FreeNodes = Nodes /\ InOrder(free_head_.node, next)
<1>1. Null \notin Nodes /\ 1 \in Nodes /\ free_head_.node = 1
  BY CapacityAssumption DEF Init, Null, Nodes
<1>2. \A n \in Nodes : next[n] = IF n = Capacity THEN Null ELSE n + 1
  BY DEF Init
<1>3. next \in Nexts
  BY CapacityAssumption DEF Init, Nexts, Null, Nodes
<1>4. FreeNodes \subseteq Nodes /\ 1 \in FreeNodes /\ Linked(FreeNodes, next)
  BY <1>1, <1>3, ListLinked DEF FreeNodes
<1>5. FreeNodes = Nodes
  <2>. DEFINE Out == Nodes \ FreeNodes
  <2>. SUFFICES ASSUME Out # {}
                PROVE  FALSE
    BY <1>4
  <2>1. PICK n \in Out : \A m \in Out : n <= m
    <3>1. Out \in SUBSET Nat
      BY DEF Nodes
    <3>. HIDE DEF Out
    <3>. QED
      BY <3>1, LeastNumber
  <2>2. n \in 2 .. Capacity
    BY <1>1, <1>4, CapacityAssumption DEF Nodes
  <2>3. n - 1 \in Nodes /\ next[n - 1] = n
    BY <1>2, <2>2, CapacityAssumption DEF Nodes
  <2>4. n - 1 \in FreeNodes
    BY <2>1, <2>2, <2>3
  <2>. QED
    BY <1>1, <1>4, <2>3, <2>4 DEF Linked
<1>6. InOrder(free_head_.node, next)
  <2>. DEFINE rank == [n \in Nodes |-> Capacity - n]
  <2>1. rank \in [Nodes -> Nat]
    BY CapacityAssumption DEF Nodes
  <2>2. ASSUME NEW n \in FreeNodes, next[n] # Null
        PROVE  rank[next[n]] < rank[n]
    BY <1>2, <1>4, <2>2, CapacityAssumption DEF Nodes
  <2>. QED
    BY <2>1, <2>2 DEF InOrder, FreeNodes
<1>. QED
  BY <1>5, <1>6

\* The pool starts out in a state that satisfies the invariant.
LEMMA InvInit == Init => Inv
<1>. SUFFICES ASSUME Init
              PROVE  Inv
  OBVIOUS
<1>1. Nodes \subseteq Nat \ {0} /\ 1 \in Nodes
  BY CapacityAssumption DEF Nodes
<1>2. free_head_ \in Heads
  BY <1>1, MaxCountAssumption DEF Init, Heads
<1>3. next \in [Nodes -> Nodes \cup {Null}]
  BY CapacityAssumption DEF Init, Nodes, Null
<1>4. TypeOK /\ SeenNode /\ Counted /\ LooksTrue
  BY <1>2, <1>3 DEF Init, TypeOK, SeenNode, Counted, LooksTrue, Heads
<1>5. \A t \in Threads : InUse(t) = {} /\ Releasing(t) = {} /\ held[t] = {}
  BY DEF Init, InUse, Releasing
<1>6. NodesAccounted
  BY <1>5, AllFree DEF NodesAccounted
<1>. QED
  BY <1>4, <1>6, AllFree DEF Inv

-----------------------------------------------------------------------------
(* What a step does to the list and to what the threads have.              *)

\* The head that is taken comes off the list, and nothing else does: the counter
\* shows that it is still followed by the node that was seen behind it.
LEMMA TakeList ==
    ASSUME Inv, NEW t \in Threads, Take(t)
    PROVE  /\ old_head[t].node \in FreeNodes
           /\ FreeNodes' = FreeNodes \ {old_head[t].node}
           /\ InOrder(free_head_.node, next)'
<1>. DEFINE head == free_head_.node
<1>1. head \in Nodes /\ next \in Nexts /\ old_head[t].node = head
  BY DEF Inv, TypeOK, SeenNode, Take, Exchange, Same, Heads, Nexts
<1>2. free_head_'.node = next[head] /\ next' = next
  BY <1>1 DEF Inv, LooksTrue, Take, Exchange
<1>3. head \in FreeNodes
  BY <1>1, ListLinked DEF FreeNodes, Nodes, Null
<1>. QED
  BY <1>1, <1>2, <1>3, ListTail DEF Inv, FreeNodes

\* The node that is given back comes to the front of the list.
LEMMA GiveList ==
    ASSUME Inv, NEW t \in Threads, Give(t)
    PROVE  /\ new_head[t] \notin FreeNodes
           /\ FreeNodes' = FreeNodes \cup {new_head[t]}
           /\ InOrder(free_head_.node, next)'
<1>. DEFINE n == new_head[t]
<1>1. n \in Nodes /\ next \in Nexts
  BY DEF Inv, TypeOK, Give, Nexts
<1>2. next[n] = free_head_.node /\ free_head_'.node = n /\ next' = next
  BY DEF Inv, LooksTrue, Give, Exchange, Same
<1>3. n \notin FreeNodes
  BY DEF Inv, NodesAccounted, Give, InUse, Releasing
<1>. QED
  BY <1>1, <1>2, <1>3, ListPush DEF Inv, FreeNodes

\* A thread writes the next of a node that is its own: the list stays.
LEMMA LinkList ==
    ASSUME Inv, NEW t \in Threads, Link(t)
    PROVE  FreeNodes' = FreeNodes /\ InOrder(free_head_.node, next)'
<1>1. next \in Nexts /\ next' \in Nexts /\ free_head_.node \in Nodes \cup {Null}
  BY DEF Inv, TypeOK, Link, Nexts, Heads
<1>2. new_head[t] \notin FreeNodes
  BY DEF Inv, NodesAccounted, Link, InUse, Releasing
<1>3. \A n \in FreeNodes : next'[n] = next[n]
  BY <1>2 DEF Link, FreeNodes, List, Inv, TypeOK
<1>4. List(free_head_.node, next') = List(free_head_.node, next)
  BY <1>1, <1>3, ListSame DEF FreeNodes
<1>5. PICK rank \in [Nodes -> Nat] :
        \A n \in FreeNodes : next[n] # Null => rank[next[n]] < rank[n]
  BY DEF Inv, InOrder, FreeNodes
<1>. QED
  BY <1>3, <1>4, <1>5 DEF Link, FreeNodes, InOrder

\* The steps that write neither the head nor any next.
Looking(t) == Load(t) \/ ReadNext(t) \/ TakeFails(t) \/ Release(t) \/ GiveFails(t)

\* They leave the list as it is.
LEMMA LookingList ==
    ASSUME Inv, NEW t \in Threads, Looking(t)
    PROVE  /\ free_head_' = free_head_ /\ next' = next
           /\ FreeNodes' = FreeNodes /\ InOrder(free_head_.node, next)'
<1>1. free_head_' = free_head_ /\ next' = next
  BY DEF Looking, Load, ReadNext, TakeFails, Release, GiveFails
<1>. QED
  BY <1>1 DEF Inv, FreeNodes, InOrder

\* Only the thread that takes a step gets or loses a node by it.
LEMMA OthersKeep ==
    ASSUME Inv, NEW t \in Threads, NEW u \in Threads, u # t,
           Looking(t) \/ Take(t) \/ Link(t) \/ Give(t)
    PROVE  InUse(u)' = InUse(u) /\ Releasing(u)' = Releasing(u) /\ held'[u] = held[u]
<1>1. held'[u] = held[u] /\ pc'[u] = pc[u] /\ new_head'[u] = new_head[u]
  BY DEF Inv, TypeOK, Looking, Load, See, ReadNext, Take, TakeFails, Release, Link, Give,
         GiveFails
<1>. QED
  BY <1>1 DEF InUse, Releasing

\* Looking and linking leave a thread the nodes it has.
LEMMA LookingUse ==
    ASSUME Inv, NEW t \in Threads, Looking(t) \/ Link(t)
    PROVE  InUse(t)' = InUse(t) /\ (held[t] \cap Releasing(t) = {})'
<1>. USE DEF InUse, Releasing
<1>1. held[t] \cap Releasing(t) = {}
  BY DEF Inv, NodesAccounted
<1>2. CASE Load(t) \/ ReadNext(t) \/ TakeFails(t)
  <2>1. /\ pc[t] \in {"idle", "next", "take"} /\ pc'[t] \in {"idle", "next", "take"}
        /\ held' = held
    BY <1>2 DEF Inv, TypeOK, Load, ReadNext, TakeFails, See
  <2>. QED
    BY <2>1
<1>3. CASE Release(t)
  <2>1. PICK n \in held[t] : new_head'[t] = n /\ held'[t] = held[t] \ {n}
    BY <1>3 DEF Release, Inv, TypeOK
  <2>2. pc[t] = "idle" /\ pc'[t] = "link"
    BY <1>3 DEF Release, Inv, TypeOK
  <2>. QED
    BY <2>1, <2>2
<1>4. CASE Link(t) \/ GiveFails(t)
  <2>1. /\ pc[t] \in {"link", "give"} /\ pc'[t] \in {"link", "give"}
        /\ held' = held /\ new_head' = new_head
    BY <1>4 DEF Inv, TypeOK, Link, GiveFails
  <2>. QED
    BY <1>1, <2>1
<1>. QED
  BY <1>2, <1>3, <1>4 DEF Looking

\* A thread that takes the head has it.
LEMMA TakeUse ==
    ASSUME Inv, NEW t \in Threads, Take(t)
    PROVE  /\ InUse(t)' = InUse(t) \cup {old_head[t].node}
           /\ (held[t] \cap Releasing(t) = {})'
<1>1. pc[t] = "take" /\ pc'[t] = "idle" /\ held'[t] = held[t] \cup {old_head[t].node}
  BY DEF Inv, TypeOK, Take
<1>. QED
  BY <1>1 DEF InUse, Releasing

\* A thread that gives a node back no longer has it.
LEMMA GiveUse ==
    ASSUME Inv, NEW t \in Threads, Give(t)
    PROVE  /\ new_head[t] \in InUse(t)
           /\ InUse(t)' = InUse(t) \ {new_head[t]}
           /\ (held[t] \cap Releasing(t) = {})'
<1>1. pc[t] = "give" /\ pc'[t] = "idle" /\ held' = held
  BY DEF Inv, TypeOK, Give
<1>2. held[t] \cap Releasing(t) = {}
  BY DEF Inv, NodesAccounted
<1>. QED
  BY <1>1, <1>2 DEF InUse, Releasing

-----------------------------------------------------------------------------
(* Every step keeps the invariant.                                         *)

\* The types, and that a thread about to take has seen a node.
LEMMA TypeStep ==
    ASSUME Inv, NEW t \in Threads, Looking(t) \/ Take(t) \/ Link(t) \/ Give(t)
    PROVE  TypeOK' /\ SeenNode'
<1>. USE DEF Inv, TypeOK, SeenNode
<1>1. Null \notin Nodes
  BY DEF Null, Nodes
<1>2. \A u \in Threads : old_head[u].node \in Nodes \cup {Null}
  BY DEF Heads
<1>3. CASE Load(t)
  BY <1>3 DEF Load, See
<1>4. CASE ReadNext(t)
  <2>1. next[old_head[t].node] \in Nodes \cup {Null}
    BY <1>2, <1>4 DEF ReadNext
  <2>. QED
    BY <1>4, <2>1 DEF ReadNext
<1>5. CASE Take(t)
  <2>1. old_head[t].node \in Nodes
    BY <1>2, <1>5 DEF Take
  <2>2. free_head_' \in Heads
    BY <1>5, MaxCountAssumption DEF Take, Exchange, Same, Heads
  <2>. QED
    BY <1>5, <2>1, <2>2 DEF Take
<1>6. CASE TakeFails(t)
  BY <1>6 DEF TakeFails, See
<1>7. CASE Release(t)
  BY <1>1, <1>7 DEF Release
<1>8. CASE Link(t)
  BY <1>2, <1>8 DEF Link
<1>9. CASE Give(t)
  <2>1. free_head_' \in Heads
    BY <1>9, MaxCountAssumption DEF Give, Exchange, Same, Heads
  <2>. QED
    BY <1>9, <2>1 DEF Give
<1>10. CASE GiveFails(t)
  BY <1>10 DEF GiveFails
<1>. QED
  BY <1>3, <1>4, <1>5, <1>6, <1>7, <1>8, <1>9, <1>10 DEF Looking

\* The counter of the head only grows.
LEMMA CountedStep ==
    ASSUME Inv, NEW t \in Threads, Looking(t) \/ Take(t) \/ Link(t) \/ Give(t)
    PROVE  Counted'
<1>. USE DEF Inv, TypeOK, Counted, Heads
<1>1. free_head_.count \in Nat /\ \A u \in Threads : old_head[u].count \in Nat
  BY MaxCountAssumption
<1>2. CASE Take(t) \/ Give(t)
  <2>1. free_head_'.count = free_head_.count + 1 /\ old_head' = old_head
    BY <1>2 DEF Take, Give, Exchange, Same
  <2>. QED
    BY <1>1, <2>1
<1>3. CASE Looking(t) \/ Link(t)
  <2>1. free_head_' = free_head_
    BY <1>3 DEF Looking, Load, ReadNext, TakeFails, Release, GiveFails, Link
  <2>2. \A u \in Threads : old_head'[u] \in {old_head[u], free_head_}
    BY <1>3 DEF Looking, Load, See, ReadNext, TakeFails, Release, GiveFails, Link
  <2>. QED
    BY <1>1, <2>1, <2>2
<1>. QED
  BY <1>2, <1>3

\* What the others remember stays true, or their exchange will fail.
LEMMA LooksStep ==
    ASSUME Inv, NEW t \in Threads, Looking(t) \/ Take(t) \/ Link(t) \/ Give(t)
    PROVE  LooksTrue'
<1>. USE DEF Inv, TypeOK, LooksTrue, Same
<1>1. CASE Take(t) \/ Give(t)
  <2>1. free_head_'.count = free_head_.count + 1 /\ next' = next
        /\ old_head' = old_head /\ new_head' = new_head
    BY <1>1 DEF Take, Give, Exchange
  <2>2. \A u \in Threads : free_head_' # old_head[u]
    <3>1. free_head_.count \in Nat /\ \A u \in Threads : old_head[u].count \in Nat
      BY MaxCountAssumption DEF Heads
    <3>. QED
      BY <2>1, <3>1 DEF Counted
  <2>3. \A u \in Threads : pc'[u] = "give" => pc[u] = "give"
    BY <1>1 DEF Take, Give
  <2>. QED
    BY <2>1, <2>2, <2>3
<1>2. CASE Link(t)
  <2>1. new_head[t] \in Nodes /\ new_head[t] \in InUse(t) /\ new_head[t] \notin FreeNodes
    BY <1>2 DEF Link, NodesAccounted, InUse, Releasing
  <2>2. ASSUME NEW u \in Threads, pc[u] = "take", Same(u)
        PROVE  next'[old_head[u].node] = next[old_head[u].node]
    <3>1. old_head[u].node \in Nodes /\ old_head[u].node = free_head_.node
      BY <2>2 DEF SeenNode, Heads
    <3>2. old_head[u].node \in FreeNodes
      BY <3>1, ListLinked DEF FreeNodes, Nexts, Nodes, Null
    <3>. QED
      BY <1>2, <2>1, <3>1, <3>2 DEF Link
  <2>3. ASSUME NEW u \in Threads, pc[u] = "give"
        PROVE  next'[new_head[u]] = next[new_head[u]]
    <3>1. u # t /\ new_head[u] \in InUse(u)
      BY <1>2, <2>3 DEF Link, InUse, Releasing
    <3>2. new_head[u] # new_head[t] /\ new_head[u] \in Nodes
      BY <2>1, <2>3, <3>1 DEF NodesAccounted
    <3>. QED
      BY <1>2, <3>2 DEF Link
  <2>4. next'[new_head[t]] = old_head[t].node
    BY <1>2, <2>1 DEF Link
  <2>5. /\ free_head_' = free_head_ /\ old_head' = old_head /\ new_head' = new_head
        /\ pc'[t] = "give" /\ \A u \in Threads \ {t} : pc'[u] = pc[u]
    BY <1>2 DEF Link
  <2>6. ASSUME NEW u \in Threads
        PROVE  /\ pc'[u] = "take" /\ Same(u)' => new_head'[u] = next'[old_head'[u].node]
               /\ pc'[u] = "give" => next'[new_head'[u]] = old_head'[u].node
    BY <2>2, <2>3, <2>4, <2>5
  <2>. QED
    BY <2>6
<1>3. CASE ReadNext(t)
  BY <1>3 DEF ReadNext
<1>4. CASE Load(t) \/ TakeFails(t) \/ Release(t) \/ GiveFails(t)
  <2>1. free_head_' = free_head_ /\ next' = next /\ pc'[t] \notin {"take", "give"}
    BY <1>4 DEF Load, TakeFails, See, Release, GiveFails
  <2>2. \A u \in Threads \ {t} :
          pc'[u] = pc[u] /\ old_head'[u] = old_head[u] /\ new_head'[u] = new_head[u]
    BY <1>4 DEF Load, TakeFails, See, Release, GiveFails
  <2>. QED
    BY <2>1, <2>2
<1>. QED
  BY <1>1, <1>2, <1>3, <1>4 DEF Looking

\* No node gets lost and none is handed out twice.
LEMMA AccountedStep ==
    ASSUME Inv, NEW t \in Threads, Looking(t) \/ Take(t) \/ Link(t) \/ Give(t)
    PROVE  NodesAccounted' /\ InOrder(free_head_.node, next)'
<1>1. /\ FreeNodes \cup UNION {InUse(u) : u \in Threads} = Nodes
      /\ \A u \in Threads : FreeNodes \cap InUse(u) = {} /\ held[u] \cap Releasing(u) = {}
      /\ \A u, v \in Threads : u # v => InUse(u) \cap InUse(v) = {}
  BY DEF Inv, NodesAccounted
<1>2. \A u \in Threads : u # t =>
        InUse(u)' = InUse(u) /\ Releasing(u)' = Releasing(u) /\ held'[u] = held[u]
  BY OthersKeep
<1>3. CASE Looking(t) \/ Link(t)
  <2>1. FreeNodes' = FreeNodes /\ InOrder(free_head_.node, next)'
    BY <1>3, LookingList, LinkList
  <2>2. InUse(t)' = InUse(t) /\ (held[t] \cap Releasing(t) = {})'
    BY <1>3, LookingUse
  <2>3. UNION {InUse(u)' : u \in Threads} = UNION {InUse(u) : u \in Threads}
    BY <1>2, <2>2
  <2>. QED
    BY <1>1, <1>2, <2>1, <2>2, <2>3 DEF NodesAccounted
<1>4. CASE Take(t)
  <2>. DEFINE n == old_head[t].node
  <2>1. n \in FreeNodes /\ FreeNodes' = FreeNodes \ {n} /\ InOrder(free_head_.node, next)'
    BY <1>4, TakeList
  <2>2. InUse(t)' = InUse(t) \cup {n} /\ (held[t] \cap Releasing(t) = {})'
    BY <1>4, TakeUse
  <2>3. UNION {InUse(u)' : u \in Threads} = (UNION {InUse(u) : u \in Threads}) \cup {n}
    BY <1>2, <2>2
  <2>. HIDE DEF n
  <2>. QED
    BY <1>1, <1>2, <2>1, <2>2, <2>3 DEF NodesAccounted
<1>5. CASE Give(t)
  <2>. DEFINE n == new_head[t]
  <2>1. n \notin FreeNodes /\ FreeNodes' = FreeNodes \cup {n}
        /\ InOrder(free_head_.node, next)'
    BY <1>5, GiveList
  <2>2. n \in InUse(t) /\ InUse(t)' = InUse(t) \ {n} /\ (held[t] \cap Releasing(t) = {})'
    BY <1>5, GiveUse
  <2>3. UNION {InUse(u)' : u \in Threads} = (UNION {InUse(u) : u \in Threads}) \ {n}
    BY <1>1, <1>2, <2>2
  <2>. HIDE DEF n
  <2>. QED
    BY <1>1, <1>2, <2>1, <2>2, <2>3 DEF NodesAccounted
<1>. QED
  BY <1>3, <1>4, <1>5

\* A step of the pool is a step of one thread.
LEMMA NextCases ==
    ASSUME Next
    PROVE  \E t \in Threads : Looking(t) \/ Take(t) \/ Link(t) \/ Give(t)
BY DEF Next, Looking

\* Every step keeps the invariant.
LEMMA InvStep == Inv /\ [Next]_vars => Inv'
<1>. SUFFICES ASSUME Inv, [Next]_vars
              PROVE  Inv'
  OBVIOUS
<1>1. CASE Next
  BY <1>1, NextCases, TypeStep, CountedStep, LooksStep, AccountedStep DEF Inv
<1>2. CASE UNCHANGED vars
  <2>1. FreeNodes' = FreeNodes /\ InOrder(free_head_.node, next)'
    BY <1>2 DEF Inv, vars, FreeNodes, InOrder
  <2>2. \A t \in Threads : InUse(t)' = InUse(t) /\ Releasing(t)' = Releasing(t)
    BY <1>2 DEF vars, InUse, Releasing
  <2>3. NodesAccounted'
    BY <1>2, <2>1, <2>2 DEF Inv, vars, NodesAccounted
  <2>. QED
    BY <1>2, <2>1, <2>3 DEF Inv, vars, TypeOK, SeenNode, Counted, LooksTrue, Same
<1>. QED
  BY <1>1, <1>2

\* The invariant holds in every reachable state.
THEOREM Invariance == Spec => []Inv
BY InvInit, InvStep, PTL DEF Spec

\* The types: no thread ever reads the next of a null pointer, or gives one back.
THEOREM TypeCorrect == Spec => []TypeOK
BY Invariance, PTL DEF Inv

\* For every number of threads and nodes, every node is in the list or with
\* exactly one thread: GetObject never hands a node out twice and ReleaseObject
\* loses none, although next is read and written without a lock.
THEOREM NoNodeLostOrShared == Spec => []NodesAccounted
BY Invariance, PTL DEF Inv

-----------------------------------------------------------------------------
(* The list implements the set.                                            *)

\* A thread that sees the null head sees it while no node is free.
LEMMA RefusedWhenEmpty ==
    ASSUME NEW t \in Threads, free_head_.node = Null
    PROVE  FreeNodes = {}
BY ListNull DEF FreeNodes

\* The nodes of the threads after a step of t.
LEMMA HeldStep ==
    ASSUME Inv, NEW t \in Threads, Looking(t) \/ Take(t) \/ Link(t) \/ Give(t)
    PROVE  [u \in Threads |-> InUse(u)]'
             = [[u \in Threads |-> InUse(u)] EXCEPT ![t] = InUse(t)']
BY OthersKeep

\* Every step of a thread takes, refuses or gives back a node of the set, or
\* none of these.
LEMMA PoolStep ==
    ASSUME Inv, NEW t \in Threads, Looking(t) \/ Take(t) \/ Link(t) \/ Give(t)
    PROVE  [Promise!Next]_(Promise!vars)
<1>. DEFINE use == [u \in Threads |-> InUse(u)]
<1>1. use' = [use EXCEPT ![t] = InUse(t)'] /\ use[t] = InUse(t)
  BY HeldStep
<1>2. CASE Load(t) \/ TakeFails(t)
  <2>1. FreeNodes' = FreeNodes /\ InUse(t)' = InUse(t)
    BY <1>2, LookingList, LookingUse DEF Looking
  <2>2. use' = use
    BY <1>1, <2>1
  <2>3. CASE free_head_.node = Null
    <3>1. got' = [got EXCEPT ![t] = Null]
      BY <1>2, <2>3 DEF Load, TakeFails, See
    <3>2. FreeNodes = {}
      BY <2>3, RefusedWhenEmpty
    <3>. HIDE DEF use
    <3>3. Promise!Refuse(t)
      BY <2>1, <2>2, <3>1, <3>2 DEF Promise!Refuse, use
    <3>. QED
      BY <3>3 DEF Promise!Next
  <2>4. CASE free_head_.node # Null
    BY <1>2, <2>1, <2>2, <2>4 DEF Load, TakeFails, See, Promise!vars
  <2>. QED
    BY <2>3, <2>4
<1>3. CASE ReadNext(t) \/ Release(t) \/ Link(t) \/ GiveFails(t)
  <2>1. FreeNodes' = FreeNodes /\ InUse(t)' = InUse(t)
    BY <1>3, LookingList, LookingUse, LinkList DEF Looking
  <2>2. use' = use
    BY <1>1, <2>1
  <2>3. got' = got
    BY <1>3 DEF ReadNext, Release, Link, GiveFails
  <2>. QED
    BY <2>1, <2>2, <2>3 DEF Promise!vars
<1>4. CASE Take(t)
  <2>1. /\ old_head[t].node \in FreeNodes
        /\ FreeNodes' = FreeNodes \ {old_head[t].node}
        /\ InUse(t)' = InUse(t) \cup {old_head[t].node}
    BY <1>4, TakeList, TakeUse
  <2>2. got' = [got EXCEPT ![t] = old_head[t].node]
    BY <1>4 DEF Take
  <2>3. Promise!Acquire(t, old_head[t].node)
    BY <1>1, <2>1, <2>2 DEF Promise!Acquire
  <2>. QED
    BY <2>1, <2>3 DEF Promise!Next
<1>5. CASE Give(t)
  <2>1. /\ new_head[t] \in InUse(t)
        /\ FreeNodes' = FreeNodes \cup {new_head[t]}
        /\ InUse(t)' = InUse(t) \ {new_head[t]}
    BY <1>5, GiveList, GiveUse
  <2>2. got' = got
    BY <1>5 DEF Give
  <2>3. Promise!Release(t, new_head[t])
    BY <1>1, <2>1, <2>2 DEF Promise!Release
  <2>. QED
    BY <1>1, <2>1, <2>3 DEF Promise!Next
<1>. QED
  BY <1>2, <1>3, <1>4, <1>5 DEF Looking

\* For every number of threads and nodes, every behaviour of the list is one of a
\* set of objects that are taken and given back in one step each; GetObject
\* answers null only when the set is empty at that moment.
THEOREM PoolRefinement == Spec => ImplementsPool
<1>1. Init => Promise!Init
  <2>. SUFFICES ASSUME Init
                PROVE  Promise!Init
    OBVIOUS
  <2>1. \A t \in Threads : InUse(t) = {}
    BY DEF Init, InUse, Releasing
  <2>. QED
    BY <2>1, AllFree DEF Init, Promise!Init
<1>2. Inv /\ [Next]_vars => [Promise!Next]_(Promise!vars)
  <2>. SUFFICES ASSUME Inv, [Next]_vars
                PROVE  [Promise!Next]_(Promise!vars)
    OBVIOUS
  <2>1. CASE Next
    BY <2>1, NextCases, PoolStep
  <2>2. CASE UNCHANGED vars
    BY <2>2 DEF vars, Promise!vars, FreeNodes, InUse, Releasing
  <2>. QED
    BY <2>1, <2>2
<1>. QED
  BY <1>1, <1>2, Invariance, PTL DEF Spec, Promise!Spec, ImplementsPool
=============================================================================
