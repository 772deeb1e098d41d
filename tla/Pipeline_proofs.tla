---------------------------- MODULE Pipeline_proofs ----------------------------
(***************************************************************************)
(* Proofs about Pipeline for every graph of the shape that                 *)
(* DAG::link_operator makes, and every limit, window and rate.             *)
(***************************************************************************)
EXTENDS Pipeline, Induction

-----------------------------------------------------------------------------
(* Sequences.                                                              *)

\* The elements of a sequence, of its tail, and of a longer one.
LEMMA SeqElements ==
    ASSUME NEW S, NEW s \in Seq(S)
    PROVE  /\ Elements(s) \subseteq S /\ Elements(<<>>) = {}
           /\ s # <<>> => /\ Head(s) = s[1] /\ Head(s) \in Elements(s) /\ Head(s) \in S
                          /\ Tail(s) \in Seq(S) /\ Len(s) \in Nat \ {0}
                          /\ Len(Tail(s)) = Len(s) - 1
                          /\ \A i \in 1 .. Len(s) - 1 : Tail(s)[i] = s[i + 1]
                          /\ Elements(Tail(s)) \subseteq Elements(s)
           /\ \A e \in S : /\ Append(s, e) \in Seq(S)
                           /\ Len(Append(s, e)) = Len(s) + 1
                           /\ Append(s, e)[Len(s) + 1] = e
                           /\ \A i \in 1 .. Len(s) : Append(s, e)[i] = s[i]
                           /\ Elements(Append(s, e)) = Elements(s) \cup {e}
<1>1. Elements(s) \subseteq S /\ Elements(<<>>) = {}
  BY DEF Elements
<1>2. ASSUME s # <<>>
      PROVE  /\ Head(s) = s[1] /\ Head(s) \in Elements(s) /\ Head(s) \in S
             /\ Tail(s) \in Seq(S) /\ Len(s) \in Nat \ {0}
             /\ Len(Tail(s)) = Len(s) - 1
             /\ \A i \in 1 .. Len(s) - 1 : Tail(s)[i] = s[i + 1]
             /\ Elements(Tail(s)) \subseteq Elements(s)
  <2>1. /\ Head(s) = s[1] /\ Tail(s) \in Seq(S) /\ Len(s) \in Nat \ {0} /\ Head(s) \in S
        /\ Len(Tail(s)) = Len(s) - 1
        /\ \A i \in 1 .. Len(s) - 1 : Tail(s)[i] = s[i + 1]
    BY <1>2
  <2>. QED
    BY <2>1 DEF Elements
<1>3. ASSUME NEW e \in S
      PROVE  /\ Append(s, e) \in Seq(S)
             /\ Len(Append(s, e)) = Len(s) + 1
             /\ Append(s, e)[Len(s) + 1] = e
             /\ \A i \in 1 .. Len(s) : Append(s, e)[i] = s[i]
             /\ Elements(Append(s, e)) = Elements(s) \cup {e}
  <2>1. /\ Append(s, e) \in Seq(S) /\ Len(s) \in Nat
        /\ Len(Append(s, e)) = Len(s) + 1
        /\ Append(s, e)[Len(s) + 1] = e
        /\ \A i \in 1 .. Len(s) : Append(s, e)[i] = s[i]
    OBVIOUS
  <2>2. DOMAIN Append(s, e) = 1 .. Len(s) + 1 /\ DOMAIN s = 1 .. Len(s)
    OBVIOUS
  <2>. QED
    BY <2>1, <2>2 DEF Elements
<1>. QED
  BY <1>1, <1>2, <1>3

\* The elements of one sequence after another.
LEMMA ConcatElements ==
    ASSUME NEW S, NEW s \in Seq(S), NEW t \in Seq(S)
    PROVE  /\ s \o t \in Seq(S) /\ Len(s \o t) = Len(s) + Len(t)
           /\ \A i \in 1 .. Len(t) : (s \o t)[Len(s) + i] = t[i]
           /\ Elements(s \o t) = Elements(s) \cup Elements(t)
<1>. DEFINE a == Len(s)
            b == Len(t)
            c == s \o t
<1>1. a \in Nat /\ b \in Nat
  OBVIOUS
<1>2. /\ c \in Seq(S) /\ Len(c) = a + b
      /\ \A i \in 1 .. a + b : c[i] = IF i <= a THEN s[i] ELSE t[i - a]
      /\ DOMAIN c = 1 .. a + b /\ DOMAIN s = 1 .. a /\ DOMAIN t = 1 .. b
  OBVIOUS
<1>. HIDE DEF a, b, c
<1>3. ASSUME NEW i \in 1 .. b
      PROVE  c[a + i] = t[i] /\ a + i \in 1 .. a + b
  <2>1. a + i \in 1 .. a + b /\ ~ (a + i <= a) /\ (a + i) - a = i
    BY <1>1
  <2>. QED
    BY <1>2, <2>1
<1>4. \A i \in 1 .. a : c[i] = s[i] /\ i \in 1 .. a + b
  BY <1>1, <1>2
<1>5. ASSUME NEW i \in 1 .. a + b, ~ i <= a
      PROVE  c[i] = t[i - a] /\ i - a \in 1 .. b
  BY <1>1, <1>2, <1>5
<1>6. Elements(c) = Elements(s) \cup Elements(t)
  <2>1. ASSUME NEW i \in 1 .. a + b
        PROVE  c[i] \in Elements(s) \cup Elements(t)
    <3>1. CASE i <= a
      <4>1. i \in 1 .. a
        BY <1>1, <3>1
      <4>. QED
        BY <1>2, <1>4, <4>1 DEF Elements
    <3>2. CASE ~ i <= a
      BY <1>2, <1>5, <3>2 DEF Elements
    <3>. QED
      BY <3>1, <3>2
  <2>2. Elements(s) \subseteq Elements(c)
    BY <1>2, <1>4 DEF Elements
  <2>3. Elements(t) \subseteq Elements(c)
    BY <1>2, <1>3 DEF Elements
  <2>. QED
    BY <1>2, <2>1, <2>2, <2>3 DEF Elements
<1>. QED
  BY <1>2, <1>3, <1>6 DEF a, b, c

-----------------------------------------------------------------------------
(* The shape of the graph.                                                 *)

\* Every link has one publisher and leads to one node, which has no other.
LEMMA LinkShape ==
    /\ \A l \in Links :
         /\ Publisher(l) \in Nodes /\ l \in Elements(LinksOf(Publisher(l)))
         /\ \A n \in Nodes : l \in Elements(LinksOf(n)) => n = Publisher(l)
         /\ To[l] \in Nodes \ {Source} /\ LinkInto(To[l]) = l
         /\ DataOf[l] \in Caches /\ Period[l] \in Nat
    /\ \A n \in Nodes \ {Source} :
         LinkInto(n) \in Links /\ To[LinkInto(n)] = n /\ TriggerCache(n) \in Caches
<1>1. ASSUME NEW l \in Links
      PROVE  /\ Publisher(l) \in Nodes /\ l \in Elements(LinksOf(Publisher(l)))
             /\ \A n \in Nodes : l \in Elements(LinksOf(n)) => n = Publisher(l)
  <2>1. PICK n \in Nodes : {m \in Nodes : l \in Elements(LinksOf(m))} = {n}
    BY TopologyAssumption
  <2>. QED
    BY <2>1 DEF Publisher
<1>2. ASSUME NEW n \in Nodes \ {Source}
      PROVE  /\ LinkInto(n) \in Links /\ To[LinkInto(n)] = n
             /\ \A l \in Links : To[l] = n => l = LinkInto(n)
  <2>1. PICK l \in Links : {k \in Links : To[k] = n} = {l}
    BY TopologyAssumption
  <2>. QED
    BY <2>1 DEF LinkInto
<1>3. ASSUME NEW l \in Links
      PROVE  To[l] \in Nodes \ {Source} /\ DataOf[l] \in Caches /\ Period[l] \in Nat
  BY ShapeAssumption, TopologyAssumption
<1>. QED
  BY <1>1, <1>2, <1>3 DEF TriggerCache

\* A node serves its links in the order of LinksOf, each once; the one that shares
\* the frame comes last.
LEMMA LinksShape ==
    ASSUME NEW n \in Nodes
    PROVE  /\ LinksOf(n) \in Seq(Links)
           /\ Elements(LinksOf(n)) = Elements(Copies[n]) \cup Elements(NoCopies[n])
           /\ Elements(LinksOf(n)) \subseteq Links
           /\ \A l \in Elements(NoCopies[n]) :
                LinksOf(n) # <<>> /\ l = LinksOf(n)[Len(LinksOf(n))]
<1>. DEFINE s == Copies[n]
            t == NoCopies[n]
<1>1. s \in Seq(Links) /\ t \in Seq(Links) /\ Len(t) \in Nat /\ Len(t) <= 1
  BY ShapeAssumption, TopologyAssumption
<1>. HIDE DEF s, t
<1>2. /\ s \o t \in Seq(Links) /\ Len(s \o t) = Len(s) + Len(t)
      /\ \A i \in 1 .. Len(t) : (s \o t)[Len(s) + i] = t[i]
      /\ Elements(s \o t) = Elements(s) \cup Elements(t)
  BY <1>1, ConcatElements
<1>3. ASSUME NEW l \in Elements(t)
      PROVE  s \o t # <<>> /\ l = (s \o t)[Len(s \o t)]
  <2>1. PICK i \in 1 .. Len(t) : l = t[i]
    BY <1>1 DEF Elements
  <2>2. i = 1 /\ Len(t) = 1
    <3>1. \A m \in Nat : \A k \in 1 .. m : m <= 1 => k = 1 /\ m = 1
      OBVIOUS
    <3>. QED
      BY <1>1, <3>1
  <2>3. s \o t # <<>>
    BY <1>2, <1>3, SeqElements
  <2>. QED
    BY <1>2, <2>1, <2>2, <2>3
<1>4. Elements(s \o t) \subseteq Links
  BY <1>2, SeqElements
<1>. QED
  BY <1>2, <1>3, <1>4 DEF s, t, LinksOf

\* A cache other than the reference caches, and not shared, is that of one link; a
\* reference cache is that of one node.
LEMMA CacheShape ==
    /\ \A n \in Nodes : \A l \in Elements(Copies[n]) :
         l \in Links /\ Publisher(l) = n /\ DataOf[l] \in Caches
    /\ \A n, m \in Nodes : \A l \in Elements(Copies[n]) : \A k \in Elements(Copies[m]) :
         DataOf[l] = DataOf[k] => l = k
    /\ \A n \in Nodes : \A l \in Links : RefOf[n] # DataOf[l]
    /\ \A n, m \in Nodes : RefOf[n] = RefOf[m] => n = m \/ RefOf[n] = NoCache
    /\ \A n \in Nodes : RefOf[n] # NoCache => RefOf[n] \in Caches
<1>1. ASSUME NEW n \in Nodes, NEW l \in Elements(Copies[n])
      PROVE  l \in Links /\ Publisher(l) = n /\ DataOf[l] \in Caches
  <2>1. l \in Elements(LinksOf(n)) /\ l \in Links
    BY LinksShape
  <2>. QED
    BY <2>1, LinkShape
<1>2. \A n, m \in Nodes : \A l \in Elements(Copies[n]) : \A k \in Elements(Copies[m]) :
        DataOf[l] = DataOf[k] => l = k
  BY TopologyAssumption
<1>. QED
  BY <1>1, <1>2, ShapeAssumption, TopologyAssumption
-----------------------------------------------------------------------------
(* The inductive invariant.                                                *)

Pushing == {"push", "clear", "retry"}
Publishing == {"output"} \cup Pushing

\* A list of links that node n may still have to serve: each once, and the one
\* that shares the frame last.
Listed(n, s) ==
    /\ s \in Seq(Links) /\ Elements(s) \subseteq Elements(LinksOf(n))
    /\ \A i, j \in 1 .. Len(s) : s[i] = s[j] => i = j
    /\ \A l \in Elements(NoCopies[n]) : s # <<>> => l = s[Len(s)]

\* The types, and that a worker past its Take has a frame and one that pushes has
\* a link to push on.
Typed ==
    /\ data_ \in [Caches -> SUBSET (1 .. MaxTime)]
    /\ latest_ \in [Caches -> 0 .. MaxTime]
    /\ queue_ \in [Links -> Seq(1 .. MaxTime)]
    /\ \A l \in Links : Len(queue_[l]) <= MaxQueue
    /\ pc \in [Nodes -> Steps]
    /\ frame \in [Nodes -> 0 .. MaxTime]
    /\ todo \in [Nodes -> Seq(Links)]
    /\ last_ \in [Links -> 0 .. MaxTime]
    /\ \A n \in Nodes : /\ Listed(n, todo[n])
                        /\ pc[n] # "take" => frame[n] # 0
                        /\ pc[n] \in Pushing => todo[n] # <<>>

\* The links on which the frame of node n may still come.
Ahead(n) ==
    IF pc[n] = "take" THEN {}
    ELSE IF pc[n] \in {"fetch", "run", "reference"} THEN Elements(LinksOf(n)) ELSE Elements(todo[n])

\* Along a link the time stamps only grow: the publisher's frame is the last one
\* published or newer, the events that wait are between that and the frame of
\* the worker they wait for, and all keep the period of the link.
OrderOn(l) ==
    LET p == Publisher(l)
        d == To[l]
        q == queue_[l]
    IN  /\ last_[l] <= frame[p]
        /\ l \in Ahead(p) => last_[l] < frame[p]
        /\ pc[p] \in Pushing /\ l = Head(todo[p]) => frame[p] - last_[l] >= Period[l]
        /\ frame[d] <= last_[l]
        /\ \A i \in 1 .. Len(q) : frame[d] < q[i] /\ q[i] <= last_[l]
                                  /\ q[i] - frame[d] >= Period[l]
        /\ \A i, j \in 1 .. Len(q) : i < j => q[i] < q[j] /\ q[j] - q[i] >= Period[l]

Ordered == \A l \in Links : OrderOn(l)

\* No cache has been given a frame that is newer than the one its writer is at.
LatestOnes ==
    /\ \A n \in Nodes : \A l \in Elements(Copies[n]) : latest_[DataOf[l]] <= frame[n]
    /\ \A n \in Nodes : RefOf[n] # NoCache => latest_[RefOf[n]] <= frame[n]

\* The frame ts is in cache c unless the window has moved past it.
Backed(c, ts) == InWindow(c, ts) => ts \in data_[c]

\* The caches that hold a frame that has come to node n: its trigger cache and
\* the reference caches of the nodes it came through.
Needs(n) ==
    {TriggerCache(n)} \cup
    {RefOf[i] : i \in {j \in Nodes : RefOf[j] # NoCache /\ n \in Below(j, Links)}}

\* A frame is in the caches before its event is in the queue.
DataFirst ==
    /\ \A l \in Links : \A c \in Needs(To[l]) :
         /\ \A ts \in Elements(queue_[l]) : Backed(c, ts)
         /\ frame[To[l]] # 0 => Backed(c, frame[To[l]])
    /\ \A n \in Nodes :
         /\ pc[n] \in Publishing /\ RefOf[n] # NoCache => Backed(RefOf[n], frame[n])
         /\ pc[n] \in Pushing => Backed(DataOf[Head(todo[n])], frame[n])

Inv == Typed /\ Ordered /\ LatestOnes /\ DataFirst

-----------------------------------------------------------------------------
(* What the shape of the graph gives.                                      *)

\* A link leads away from its publisher.
LEMMA NoLoop ==
    ASSUME NEW l \in Links
    PROVE  Publisher(l) # To[l]
<1>1. PICK rank \in [Nodes -> 0 .. Cardinality(Nodes)] :
        \A k \in Links : rank[Publisher(k)] < rank[To[k]]
  BY TopologyAssumption
<1>2. rank[To[l]] \in 0 .. Cardinality(Nodes) /\ Cardinality(Nodes) \in Nat
  BY ShapeAssumption, LinkShape, FS_CardinalityType
<1>. QED
  BY <1>1, <1>2

\* What Below says: it holds what its links lead to, and any other set that does
\* so holds it.
LEMMA BelowLeast ==
    ASSUME NEW n \in Nodes, NEW K \in SUBSET Links
    PROVE  /\ Below(n, K) \subseteq Nodes
           /\ \A l \in K : Publisher(l) \in Below(n, K) \cup {n} => To[l] \in Below(n, K)
           /\ \A S \in SUBSET Nodes :
                (\A l \in K : Publisher(l) \in S \cup {n} => To[l] \in S)
                  => Below(n, K) \subseteq S
<1>1. \A l \in K : To[l] \in Nodes
  BY LinkShape
<1>. QED
  BY <1>1 DEF Below

\* A frame comes to a node from the publisher of the link into it.
LEMMA BelowFrom ==
    ASSUME NEW n \in Nodes, NEW K \in SUBSET Links, NEW d \in Below(n, K)
    PROVE  d \in Nodes \ {Source} /\ LinkInto(d) \in K
           /\ Publisher(LinkInto(d)) \in Below(n, K) \cup {n}
<1>. DEFINE B == Below(n, K)
<1>1. /\ B \subseteq Nodes
      /\ \A l \in K : Publisher(l) \in B \cup {n} => To[l] \in B
      /\ \A S \in SUBSET Nodes :
           (\A l \in K : Publisher(l) \in S \cup {n} => To[l] \in S) => B \subseteq S
  <2>. HIDE DEF B
  <2>. QED
    BY BelowLeast DEF B
<1>. HIDE DEF B
<1>2. PICK l \in K : Publisher(l) \in B \cup {n} /\ To[l] = d
  <2>1. SUFFICES ASSUME \A l \in K : Publisher(l) \in B \cup {n} => To[l] # d
                 PROVE  FALSE
    OBVIOUS
  <2>2. \A l \in K : Publisher(l) \in (B \ {d}) \cup {n} => To[l] \in B \ {d}
    BY <1>1, <2>1
  <2>. QED
    BY <1>1, <2>2 DEF B
<1>. QED
  BY <1>2, LinkShape DEF B

\* The list a node works through: what is left of it is such a list too.
LEMMA TailListed ==
    ASSUME NEW n \in Nodes, NEW s \in Seq(Links), Listed(n, s), s # <<>>
    PROVE  /\ Listed(n, Tail(s)) /\ Tail(s) \in Seq(Links)
           /\ Head(s) \in Elements(s) /\ Head(s) \in Links
           /\ Elements(Tail(s)) \subseteq Elements(s) \ {Head(s)}
           /\ Head(s) \in Elements(LinksOf(n)) /\ Publisher(Head(s)) = n
<1>. DEFINE r == Tail(s)
            m == Len(s)
<1>1. /\ Head(s) = s[1] /\ Head(s) \in Elements(s) /\ Head(s) \in Links
      /\ r \in Seq(Links) /\ m \in Nat \ {0} /\ Len(r) = m - 1
      /\ \A i \in 1 .. m - 1 : r[i] = s[i + 1]
      /\ Elements(r) \subseteq Elements(s)
  BY SeqElements
<1>2. /\ Elements(s) \subseteq Elements(LinksOf(n))
      /\ \A i, j \in 1 .. m : s[i] = s[j] => i = j
      /\ \A l \in Elements(NoCopies[n]) : l = s[m]
  BY DEF Listed
<1>3. DOMAIN r = 1 .. m - 1 /\ \A q \in Seq(Links) : q # <<>> => Len(q) \in Nat \ {0}
  BY <1>1
<1>. HIDE DEF r, m
<1>4. \A i, j \in 1 .. m - 1 : r[i] = r[j] => i = j
  <2>1. \A i \in 1 .. m - 1 : i + 1 \in 1 .. m
    BY <1>1
  <2>. QED
    BY <1>1, <1>2, <2>1
<1>5. \A l \in Elements(NoCopies[n]) : r # <<>> => l = r[Len(r)]
  <2>1. ASSUME r # <<>>
        PROVE  r[Len(r)] = s[m]
    <3>1. m - 1 \in 1 .. m - 1 /\ (m - 1) + 1 = m
      BY <1>1, <1>3, <2>1
    <3>. QED
      BY <1>1, <3>1
  <2>. QED
    BY <1>2, <2>1
<1>6. Head(s) \notin Elements(r)
  <2>1. SUFFICES ASSUME NEW i \in 1 .. m - 1, r[i] = s[1]
                 PROVE  FALSE
    BY <1>1, <1>3 DEF Elements
  <2>2. i + 1 \in 1 .. m /\ 1 \in 1 .. m /\ i + 1 # 1 /\ s[i + 1] = s[1]
    BY <1>1, <2>1
  <2>. QED
    BY <1>2, <2>2
<1>. QED
  BY <1>1, <1>2, <1>4, <1>5, <1>6, LinkShape DEF Listed, r

\* All the links of a node are such a list.
LEMMA AllListed ==
    ASSUME NEW n \in Nodes
    PROVE  Listed(n, LinksOf(n)) /\ LinksOf(n) \in Seq(Links) /\ Listed(n, <<>>)
<1>1. \A i, j \in 1 .. Len(LinksOf(n)) : LinksOf(n)[i] = LinksOf(n)[j] => i = j
  BY TopologyAssumption, LinksShape
<1>2. Elements(<<>>) = {} /\ <<>> \in Seq(Links) /\ 1 .. Len(<<>>) = {}
  BY DEF Elements
<1>3. Listed(n, <<>>)
  BY <1>2 DEF Listed
<1>4. Listed(n, LinksOf(n))
  BY <1>1, LinksShape DEF Listed
<1>. QED
  BY <1>3, <1>4, LinksShape

-----------------------------------------------------------------------------
(* Every step keeps the types.                                             *)

\* A frame put into a cache.
LEMMA PutType ==
    ASSUME Typed, NEW c \in Caches, NEW ts \in 1 .. MaxTime, PutData(c, ts)
    PROVE  data_' \in [Caches -> SUBSET (1 .. MaxTime)] /\ latest_' \in [Caches -> 0 .. MaxTime]
<1>. DEFINE v == IF ts \in data_[c] THEN latest_[c] ELSE ts
<1>1. /\ data_' = [data_ EXCEPT ![c] = data_[c] \cup {ts}]
      /\ latest_' = [latest_ EXCEPT ![c] = v]
  BY DEF PutData
<1>2. data_[c] \cup {ts} \in SUBSET (1 .. MaxTime) /\ v \in 0 .. MaxTime
  BY BoundsAssumption DEF Typed
<1>. HIDE DEF v
<1>. QED
  BY <1>1, <1>2 DEF Typed

\* A step of one worker that leaves the queues, the frames and the times of the
\* last publications alone.
LEMMA QuietType ==
    ASSUME Typed, NEW n \in Nodes, NEW label \in Steps, Goto(n, label),
           UNCHANGED <<queue_, frame, last_>>,
           data_' \in [Caches -> SUBSET (1 .. MaxTime)],
           latest_' \in [Caches -> 0 .. MaxTime],
           todo' \in [Nodes -> Seq(Links)],
           Listed(n, todo'[n]), \A m \in Nodes \ {n} : todo'[m] = todo[m],
           label # "take" => frame[n] # 0, label \in Pushing => todo'[n] # <<>>
    PROVE  Typed'
<1>1. pc' \in [Nodes -> Steps] /\ pc'[n] = label /\ \A m \in Nodes \ {n} : pc'[m] = pc[m]
  BY DEF Typed, Goto
<1>2. ASSUME NEW m \in Nodes
      PROVE  /\ Listed(m, todo'[m])
             /\ pc'[m] # "take" => frame'[m] # 0
             /\ pc'[m] \in Pushing => todo'[m] # <<>>
  <2>1. CASE m = n
    BY <1>1, <2>1
  <2>2. CASE m # n
    BY <1>1, <2>2 DEF Typed
  <2>. QED
    BY <2>1, <2>2
<1>. QED
  BY <1>1, <1>2 DEF Typed, Listed

\* The head of the list of a worker that pushes.
LEMMA PushOn ==
    ASSUME Typed, NEW n \in Nodes, pc[n] \in Pushing
    PROVE  LET l == Head(todo[n])
           IN  /\ l \in Links /\ Publisher(l) = n /\ l \in Elements(LinksOf(n))
               /\ l \in Elements(todo[n]) /\ l \in Ahead(n)
               /\ todo[n] # <<>> /\ Listed(n, Tail(todo[n])) /\ Tail(todo[n]) \in Seq(Links)
               /\ Elements(Tail(todo[n])) \subseteq Elements(todo[n]) \ {l}
               /\ frame[n] \in 1 .. MaxTime
<1>1. /\ todo[n] \in Seq(Links) /\ Listed(n, todo[n]) /\ todo[n] # <<>>
      /\ frame[n] \in 0 .. MaxTime /\ frame[n] # 0
  BY DEF Typed, Pushing
<1>2. frame[n] \in 1 .. MaxTime
  BY <1>1, BoundsAssumption
<1>. QED
  BY <1>1, <1>2, TailListed DEF Ahead, Pushing

\* The types after the end of a push.
LEMMA PublishedType ==
    ASSUME Typed, NEW n \in Nodes, pc[n] \in Pushing, Published(n),
           queue_' \in [Links -> Seq(1 .. MaxTime)], \A l \in Links : Len(queue_'[l]) <= MaxQueue
    PROVE  Typed'
<1>. DEFINE l == Head(todo[n])
            r == Tail(todo[n])
<1>1. l \in Links /\ r \in Seq(Links) /\ Listed(n, r) /\ frame[n] \in 1 .. MaxTime
  BY PushOn
<1>2. /\ last_' = [last_ EXCEPT ![l] = frame[n]] /\ todo' = [todo EXCEPT ![n] = r]
      /\ pc' = [pc EXCEPT ![n] = "output"] /\ UNCHANGED <<data_, latest_, frame>>
  BY DEF Published, Skip, Goto
<1>. HIDE DEF l, r
<1>3. ASSUME NEW m \in Nodes
      PROVE  /\ Listed(m, todo'[m])
             /\ pc'[m] # "take" => frame'[m] # 0
             /\ pc'[m] \in Pushing => todo'[m] # <<>>
  <2>1. CASE m = n
    <3>1. todo'[m] = r /\ pc'[m] = "output" /\ frame'[m] = frame[m] /\ frame[m] # 0
      BY <1>1, <1>2, <2>1, BoundsAssumption DEF Typed
    <3>. QED
      BY <1>1, <2>1, <3>1 DEF Pushing
  <2>2. CASE m # n
    BY <1>2, <2>2 DEF Typed
  <2>. QED
    BY <2>1, <2>2
<1>4. last_' \in [Links -> 0 .. MaxTime] /\ todo' \in [Nodes -> Seq(Links)]
      /\ pc' \in [Nodes -> Steps]
  BY <1>1, <1>2, BoundsAssumption DEF Typed, Steps
<1>. QED
  BY <1>2, <1>3, <1>4 DEF Typed, Listed

\* The types after an event put into a queue that is not full.
LEMMA AppendType ==
    ASSUME Typed, NEW l \in Links, NEW ts \in 1 .. MaxTime, Append1(l, ts),
           Len(queue_[l]) < MaxQueue
    PROVE  /\ queue_' \in [Links -> Seq(1 .. MaxTime)]
           /\ \A k \in Links : Len(queue_'[k]) <= MaxQueue
<1>. DEFINE q == Append(queue_[l], ts)
<1>1. queue_[l] \in Seq(1 .. MaxTime) /\ Len(queue_[l]) \in Nat
  BY DEF Typed
<1>2. q \in Seq(1 .. MaxTime) /\ Len(q) = Len(queue_[l]) + 1
  BY <1>1, SeqElements
<1>3. queue_' = [queue_ EXCEPT ![l] = q]
  BY DEF Append1
<1>. HIDE DEF q
<1>4. Len(q) <= MaxQueue
  BY <1>1, <1>2, BoundsAssumption
<1>. QED
  BY <1>2, <1>3, <1>4 DEF Typed

\* A push that finds the queue full.
Full(n) ==
    /\ pc[n] = "push" /\ Goto(n, "clear")
    /\ UNCHANGED <<data_, latest_, queue_, frame, todo, last_>>

\* What a step of worker n that touches no queue and publishes nothing does: it gets
\* no further behind with its links, and goes on to push only a frame that does
\* not come too soon.
Quiet(n) ==
    /\ UNCHANGED <<queue_, frame, last_>>
    /\ \A m \in Nodes \ {n} : pc'[m] = pc[m] /\ todo'[m] = todo[m]
    /\ pc[n] # "take"
    /\ Ahead(n)' \subseteq Ahead(n)
    /\ pc'[n] \in Pushing =>
         /\ todo'[n] = todo[n]
         /\ \/ pc[n] \in Pushing
            \/ pc[n] = "output" /\ todo[n] # <<>> /\ ~TooSoon(Head(todo[n]), frame[n])

\* The steps of a worker up to the pushing of an event.
LEMMA QuietSteps ==
    ASSUME Typed, NEW n \in Nodes,
           Fetch(n) \/ Run(n) \/ Reference(n) \/ Output(n) \/ Full(n)
    PROVE  Typed' /\ Quiet(n)
<1>. DEFINE s == todo[n]
<1>1. /\ pc \in [Nodes -> Steps] /\ todo \in [Nodes -> Seq(Links)] /\ s \in Seq(Links)
      /\ Listed(n, s) /\ frame[n] \in 0 .. MaxTime
      /\ pc[n] # "take" => frame[n] \in 1 .. MaxTime
      /\ data_ \in [Caches -> SUBSET (1 .. MaxTime)] /\ latest_ \in [Caches -> 0 .. MaxTime]
  BY BoundsAssumption DEF Typed
<1>2. Elements(LinksOf(n)) \subseteq Links /\ Elements(<<>>) = {}
  BY LinksShape, SeqElements DEF Elements
<1>2a. ASSUME UNCHANGED <<data_, latest_>>
       PROVE  /\ data_' \in [Caches -> SUBSET (1 .. MaxTime)]
              /\ latest_' \in [Caches -> 0 .. MaxTime]
  BY <1>1, <1>2a
<1>3. CASE Fetch(n)
  <2>1. PICK label \in {"run", "take"} : Goto(n, label)
    BY <1>3 DEF Fetch
  <2>2. pc[n] = "fetch" /\ UNCHANGED <<data_, latest_, queue_, frame, todo, last_>>
    BY <1>3 DEF Fetch
  <2>3. Typed'
    BY <1>1, <1>2a, <2>1, <2>2, QuietType DEF Steps, Pushing
  <2>. QED
    BY <1>1, <2>1, <2>2, <2>3 DEF Quiet, Goto, Ahead, Pushing
<1>4. CASE Run(n)
  <2>1. pc[n] = "run" /\ UNCHANGED <<data_, latest_, queue_, frame, last_>>
    BY <1>4 DEF Run
  <2>2. PICK label \in {"reference", "take"} :
          /\ Goto(n, label)
          /\ \/ label = "reference" /\ todo' = [todo EXCEPT ![n] = LinksOf(n)]
             \/ label = "take" /\ UNCHANGED todo
    BY <1>4 DEF Run
  <2>3. /\ todo' \in [Nodes -> Seq(Links)] /\ \A m \in Nodes \ {n} : todo'[m] = todo[m]
        /\ Listed(n, todo'[n]) /\ (label = "reference" => todo'[n] = LinksOf(n))
    BY <1>1, <2>2, AllListed
  <2>4. /\ label \in Steps /\ label \notin Pushing /\ frame[n] # 0
        /\ UNCHANGED <<queue_, frame, last_>> /\ UNCHANGED <<data_, latest_>>
    BY <1>1, <2>1 DEF Steps, Pushing
  <2>5. Typed'
    BY <1>2a, <2>2, <2>3, <2>4, QuietType
  <2>. QED
    BY <1>1, <2>1, <2>2, <2>3, <2>5 DEF Quiet, Goto, Ahead, Pushing
<1>5. CASE Reference(n)
  <2>1. /\ pc[n] = "reference" /\ Goto(n, "output")
        /\ UNCHANGED <<queue_, frame, todo, last_>>
        /\ \/ UNCHANGED <<data_, latest_>>
           \/ RefOf[n] \in Caches /\ PutData(RefOf[n], frame[n])
    BY <1>5, ShapeAssumption DEF Reference
  <2>2. data_' \in [Caches -> SUBSET (1 .. MaxTime)] /\ latest_' \in [Caches -> 0 .. MaxTime]
    BY <1>1, <2>1, PutType
  <2>3. "output" \in Steps /\ "output" \notin Pushing /\ frame[n] # 0
    BY <1>1, <2>1 DEF Steps, Pushing
  <2>4. Typed'
    BY <1>1, <2>1, <2>2, <2>3, QuietType
  <2>. QED
    BY <1>1, <2>1, <2>4 DEF Quiet, Goto, Ahead, Pushing, Listed
<1>6. CASE Output(n)
  <2>1. pc[n] = "output" /\ UNCHANGED <<queue_, frame, last_>>
    BY <1>6 DEF Output
  <2>2. CASE s = <<>> /\ Goto(n, "take") /\ UNCHANGED <<data_, latest_, todo>>
    <3>1. Typed'
      BY <1>1, <2>1, <2>2, QuietType DEF Steps, Pushing
    <3>. QED
      BY <1>1, <2>1, <2>2, <3>1 DEF Quiet, Goto, Ahead, Pushing
  <2>3. CASE s # <<>> /\ Skip(n) /\ UNCHANGED <<data_, latest_>>
    <3>1. /\ Goto(n, "output") /\ todo' = [todo EXCEPT ![n] = Tail(s)]
          /\ Listed(n, Tail(s)) /\ Tail(s) \in Seq(Links) /\ Elements(Tail(s)) \subseteq Elements(s)
      BY <1>1, <2>3, TailListed DEF Skip
    <3>2. /\ todo' \in [Nodes -> Seq(Links)] /\ \A m \in Nodes \ {n} : todo'[m] = todo[m]
          /\ todo'[n] = Tail(s)
      BY <1>1, <3>1
    <3>3. /\ "output" \in Steps /\ "output" \notin Pushing /\ frame[n] # 0
          /\ UNCHANGED <<queue_, frame, last_>> /\ Listed(n, todo'[n])
      BY <1>1, <2>1, <3>1, <3>2 DEF Steps, Pushing
    <3>4. Typed'
      BY <1>2a, <2>3, <3>1, <3>2, <3>3, QuietType
    <3>. QED
      BY <1>1, <2>1, <3>1, <3>2, <3>4 DEF Quiet, Goto, Ahead, Pushing
  <2>4. CASE /\ s # <<>> /\ ~TooSoon(Head(s), frame[n])
             /\ PutData(DataOf[Head(s)], frame[n]) \/ UNCHANGED <<data_, latest_>>
             /\ Goto(n, "push") /\ UNCHANGED todo
    <3>1. Head(s) \in Links /\ DataOf[Head(s)] \in Caches
      BY <1>1, <2>4, TailListed, LinkShape
    <3>2. data_' \in [Caches -> SUBSET (1 .. MaxTime)] /\ latest_' \in [Caches -> 0 .. MaxTime]
      BY <1>1, <2>1, <2>4, <3>1, PutType
    <3>3. /\ "push" \in Steps /\ frame[n] # 0 /\ todo'[n] # <<>> /\ Listed(n, todo'[n])
          /\ todo' \in [Nodes -> Seq(Links)] /\ \A m \in Nodes \ {n} : todo'[m] = todo[m]
      BY <1>1, <2>1, <2>4 DEF Steps
    <3>4. Typed'
      BY <2>1, <2>4, <3>2, <3>3, QuietType
    <3>. QED
      BY <1>1, <2>1, <2>4, <3>4 DEF Quiet, Goto, Ahead, Pushing
  <2>. QED
    BY <1>6, <2>2, <2>3, <2>4 DEF Output
<1>7. CASE Full(n)
  <2>1. Typed'
    BY <1>1, <1>7, QuietType DEF Full, Steps, Pushing, Typed
  <2>. QED
    BY <1>1, <1>7, <2>1 DEF Full, Quiet, Goto, Ahead, Pushing
<1>. QED
  BY <1>3, <1>4, <1>5, <1>6, <1>7

\* What the steps of a worker are: a frame taken or made, a quiet step, the queue of
\* a link emptied, or an event published, in the queue or not.
LEMMA StepKinds ==
    ASSUME Typed, NEW n \in Nodes, Make(n) \/ Step(n)
    PROVE  \/ Make(n) \/ Take(n) \/ ClearQueue(n)
           \/ Fetch(n) \/ Run(n) \/ Reference(n) \/ Output(n) \/ Full(n)
           \/ /\ pc[n] \in Pushing /\ Published(n)
              /\ \/ UNCHANGED queue_
                 \/ Len(queue_[Head(todo[n])]) < MaxQueue /\ Append1(Head(todo[n]), frame[n])
BY DEF Step, Push, Retry, Full, Pushing

\* Every step keeps the types.
LEMMA TypedStep ==
    ASSUME Typed, [Next]_vars
    PROVE  Typed'
<1>1. ASSUME NEW n \in Nodes, Make(n)
      PROVE  Typed'
  <2>1. PICK ts \in (frame[n] + 1) .. MaxTime : frame' = [frame EXCEPT ![n] = ts]
    BY <1>1 DEF Make
  <2>2. frame[n] \in 0 .. MaxTime
    BY DEF Typed
  <2>3. ts \in 0 .. MaxTime /\ ts # 0
    BY <2>1, <2>2, BoundsAssumption
  <2>4. /\ pc' = [pc EXCEPT ![n] = "run"] /\ UNCHANGED <<data_, latest_, queue_, todo, last_>>
    BY <1>1 DEF Make, Goto
  <2>. QED
    BY <2>1, <2>3, <2>4 DEF Typed, Steps, Pushing, Listed
<1>2. ASSUME NEW n \in Nodes, Take(n)
      PROVE  Typed'
  <2>. DEFINE l == LinkInto(n)
              q == queue_[l]
  <2>1. /\ n # Source /\ q # <<>> /\ pc' = [pc EXCEPT ![n] = "fetch"]
        /\ frame' = [frame EXCEPT ![n] = Head(q)] /\ queue_' = [queue_ EXCEPT ![l] = Tail(q)]
        /\ UNCHANGED <<data_, latest_, todo, last_>>
    BY <1>2 DEF Take, Goto
  <2>2. l \in Links /\ q \in Seq(1 .. MaxTime) /\ Len(q) <= MaxQueue
    BY <2>1, LinkShape DEF Typed
  <2>3. /\ Head(q) \in 1 .. MaxTime /\ Tail(q) \in Seq(1 .. MaxTime)
        /\ Len(Tail(q)) = Len(q) - 1 /\ Len(q) \in Nat
    BY <2>1, <2>2, SeqElements
  <2>4. Head(q) \in 0 .. MaxTime /\ Head(q) # 0 /\ Len(Tail(q)) <= MaxQueue
    BY <2>2, <2>3, BoundsAssumption
  <2>. HIDE DEF l, q
  <2>5. /\ queue_' \in [Links -> Seq(1 .. MaxTime)]
        /\ \A k \in Links : Len(queue_'[k]) <= MaxQueue
    BY <2>1, <2>2, <2>3, <2>4 DEF Typed
  <2>. QED
    BY <2>1, <2>4, <2>5 DEF Typed, Steps, Pushing, Listed
<1>3. ASSUME NEW n \in Nodes, ClearQueue(n)
      PROVE  Typed'
  <2>1. /\ queue_' = [queue_ EXCEPT ![Head(todo[n])] = <<>>]
        /\ pc[n] = "clear" /\ pc' = [pc EXCEPT ![n] = "retry"]
        /\ UNCHANGED <<data_, latest_, frame, todo, last_>>
    BY <1>3 DEF ClearQueue, Goto
  <2>2. <<>> \in Seq(1 .. MaxTime) /\ Len(<<>>) <= MaxQueue
    BY BoundsAssumption
  <2>3. /\ queue_' \in [Links -> Seq(1 .. MaxTime)]
        /\ \A k \in Links : Len(queue_'[k]) <= MaxQueue
    BY <2>1, <2>2 DEF Typed
  <2>. QED
    BY <2>1, <2>3 DEF Typed, Steps, Pushing, Listed
<1>4. ASSUME NEW n \in Nodes, pc[n] \in Pushing, Published(n),
             \/ UNCHANGED queue_
             \/ Len(queue_[Head(todo[n])]) < MaxQueue /\ Append1(Head(todo[n]), frame[n])
      PROVE  Typed'
  <2>1. /\ queue_' \in [Links -> Seq(1 .. MaxTime)]
        /\ \A l \in Links : Len(queue_'[l]) <= MaxQueue
    <3>1. CASE UNCHANGED queue_
      BY <3>1 DEF Typed
    <3>2. CASE ~UNCHANGED queue_
      BY <1>4, <3>2, PushOn, AppendType
    <3>. QED
      BY <3>1, <3>2
  <2>. QED
    BY <1>4, <2>1, PublishedType
<1>5. ASSUME NEW c \in Caches, Sweep(c)
      PROVE  Typed'
  <2>1. /\ data_' = [data_ EXCEPT ![c] = {k \in data_[c] :
                       k \div SlotSize >= (latest_[c] - StaleTime) \div SlotSize}]
        /\ UNCHANGED <<latest_, queue_, pc, frame, todo, last_>>
    BY <1>5 DEF Sweep
  <2>2. data_' \in [Caches -> SUBSET (1 .. MaxTime)]
    BY <2>1 DEF Typed
  <2>. QED
    BY <2>1, <2>2 DEF Typed, Listed
<1>6. ASSUME UNCHANGED vars
      PROVE  Typed'
  BY <1>6 DEF vars, Typed, Listed
<1>. QED
  BY <1>1, <1>2, <1>3, <1>4, <1>5, <1>6, QuietSteps, StepKinds DEF Next

\* The types in the first state.
LEMMA TypedInit == Init => Typed
<1>1. \A n \in Nodes : Listed(n, <<>>)
  BY AllListed
<1>2. <<>> \in Seq(1 .. MaxTime) /\ Len(<<>>) = 0 /\ <<>> \in Seq(Links)
  OBVIOUS
<1>3. Len(<<>>) <= MaxQueue /\ 0 \in 0 .. MaxTime
  BY <1>2, BoundsAssumption
<1>. QED
  BY <1>1, <1>2, <1>3 DEF Init, Typed, Steps, Pushing

-----------------------------------------------------------------------------
(* Every step keeps the order of the time stamps.                          *)

\* The values that OrderOn compares are numbers.
LEMMA LinkTypes ==
    ASSUME Typed, NEW l \in Links
    PROVE  /\ last_[l] \in Nat /\ frame[Publisher(l)] \in Nat /\ frame[To[l]] \in Nat
           /\ Period[l] \in Nat /\ queue_[l] \in Seq(1 .. MaxTime) /\ Len(queue_[l]) \in Nat
           /\ \A i \in 1 .. Len(queue_[l]) : queue_[l][i] \in Nat /\ queue_[l][i] # 0
           /\ Publisher(l) \in Nodes /\ To[l] \in Nodes /\ Publisher(l) # To[l]
<1>1. Publisher(l) \in Nodes /\ To[l] \in Nodes /\ Publisher(l) # To[l] /\ Period[l] \in Nat
  BY LinkShape, NoLoop
<1>2. queue_[l] \in Seq(1 .. MaxTime) /\ 0 .. MaxTime \subseteq Nat
  BY BoundsAssumption DEF Typed
<1>3. \A S : \A q \in Seq(S) : Len(q) \in Nat /\ \A i \in 1 .. Len(q) : q[i] \in S
  OBVIOUS
<1>. QED
  BY <1>1, <1>2, <1>3, BoundsAssumption DEF Typed

\* A link is in order still when nothing has changed at its ends.
LEMMA SameOrder ==
    ASSUME NEW l \in Links, OrderOn(l),
           queue_'[l] = queue_[l], last_'[l] = last_[l],
           frame'[Publisher(l)] = frame[Publisher(l)], frame'[To[l]] = frame[To[l]],
           pc'[Publisher(l)] = pc[Publisher(l)], todo'[Publisher(l)] = todo[Publisher(l)]
    PROVE  OrderOn(l)'
BY DEF OrderOn, Ahead

\* A quiet step of the publisher.
LEMMA QuietOrder ==
    ASSUME Typed, Ordered, NEW n \in Nodes, Quiet(n)
    PROVE  Ordered'
<1>. SUFFICES ASSUME NEW l \in Links
              PROVE  OrderOn(l)'
  BY DEF Ordered
<1>0. OrderOn(l) /\ UNCHANGED <<queue_, frame, last_>>
  BY DEF Ordered, Quiet
<1>1. CASE Publisher(l) # n
  BY <1>0, <1>1, LinkTypes, SameOrder DEF Quiet
<1>2. CASE Publisher(l) = n
  <2>1. l \in Ahead(n)' => l \in Ahead(n)
    BY DEF Quiet
  <2>2. ASSUME pc'[n] \in Pushing, l = Head(todo'[n])
        PROVE  frame[n] - last_[l] >= Period[l]
    <3>1. todo'[n] = todo[n]
      BY <2>2 DEF Quiet
    <3>2. CASE pc[n] \in Pushing
      BY <1>0, <1>2, <2>2, <3>1, <3>2 DEF OrderOn
    <3>3. CASE pc[n] = "output" /\ todo[n] # <<>> /\ ~TooSoon(Head(todo[n]), frame[n])
      <4>1. l \in Elements(todo[n])
        BY <2>2, <3>1, <3>3, SeqElements DEF Typed
      <4>2. last_[l] < frame[n]
        BY <1>0, <1>2, <3>3, <4>1 DEF OrderOn, Ahead
      <4>. QED
        BY <1>2, <2>2, <3>1, <3>3, <4>2, LinkTypes DEF TooSoon
    <3>. QED
      BY <2>2, <3>2, <3>3 DEF Quiet
  <2>. QED
    BY <1>0, <1>2, <2>1, <2>2 DEF OrderOn
<1>. QED
  BY <1>1, <1>2

\* The source makes a newer frame than any it has published.
LEMMA MakeOrder ==
    ASSUME Typed, Ordered, NEW n \in Nodes, Make(n)
    PROVE  Ordered'
<1>. SUFFICES ASSUME NEW l \in Links
              PROVE  OrderOn(l)'
  BY DEF Ordered
<1>0. OrderOn(l)
  BY DEF Ordered
<1>1. PICK ts \in (frame[n] + 1) .. MaxTime : frame' = [frame EXCEPT ![n] = ts]
  BY DEF Make
<1>2. /\ n = Source /\ pc' = [pc EXCEPT ![n] = "run"]
      /\ UNCHANGED <<data_, latest_, queue_, todo, last_>>
  BY DEF Make, Goto
<1>3. To[l] # n /\ To[l] \in Nodes
  BY <1>2, LinkShape
<1>4. CASE Publisher(l) # n
  BY <1>0, <1>1, <1>2, <1>3, <1>4, LinkTypes, SameOrder DEF Typed
<1>5. CASE Publisher(l) = n
  <2>1. frame[n] < ts /\ frame'[n] = ts /\ frame'[To[l]] = frame[To[l]] /\ pc'[n] = "run"
    BY <1>1, <1>2, <1>3, BoundsAssumption DEF Typed
  <2>2. last_[l] < frame'[n] /\ last_[l] <= frame'[n]
    BY <1>0, <1>5, <2>1, LinkTypes, BoundsAssumption DEF OrderOn
  <2>. QED
    BY <1>0, <1>2, <1>5, <2>1, <2>2, LinkTypes DEF OrderOn, Pushing
<1>. QED
  BY <1>4, <1>5

\* A worker takes a frame that is newer than its last one, and than any it has
\* published.
LEMMA TakeOrder ==
    ASSUME Typed, Ordered, NEW n \in Nodes, Take(n)
    PROVE  /\ Ordered'
           /\ frame'[n] > frame[n] /\ frame'[n] - frame[n] >= Period[LinkInto(n)]
           /\ frame'[n] \in Elements(queue_[LinkInto(n)])
           /\ Elements(queue_'[LinkInto(n)]) \subseteq Elements(queue_[LinkInto(n)])
           /\ \A l \in Links \ {LinkInto(n)} : queue_'[l] = queue_[l]
<1>. DEFINE k == LinkInto(n)
            q == queue_[k]
            m == Len(q)
<1>1. /\ n # Source /\ q # <<>> /\ pc' = [pc EXCEPT ![n] = "fetch"]
      /\ frame' = [frame EXCEPT ![n] = Head(q)] /\ queue_' = [queue_ EXCEPT ![k] = Tail(q)]
      /\ UNCHANGED <<data_, latest_, todo, last_>>
  BY DEF Take, Goto
<1>2. k \in Links /\ To[k] = n /\ Publisher(k) # n /\ OrderOn(k)
  BY <1>1, LinkShape, NoLoop DEF Ordered
<1>3. /\ q \in Seq(1 .. MaxTime) /\ last_[k] \in Nat /\ Period[k] \in Nat /\ frame[n] \in Nat
      /\ \A i \in 1 .. m : q[i] \in Nat
  BY <1>2, LinkTypes
<1>4. /\ Head(q) = q[1] /\ Head(q) \in Elements(q) /\ m \in Nat \ {0}
      /\ Len(Tail(q)) = m - 1 /\ Elements(Tail(q)) \subseteq Elements(q)
      /\ \A i \in 1 .. m - 1 : Tail(q)[i] = q[i + 1]
  BY <1>1, <1>3, SeqElements
<1>5. /\ frame'[n] = q[1] /\ queue_'[k] = Tail(q) /\ \A l \in Links \ {k} : queue_'[l] = queue_[l]
      /\ \A j \in Nodes \ {n} : frame'[j] = frame[j] /\ pc'[j] = pc[j] /\ todo'[j] = todo[j]
  <2>. HIDE DEF k, q
  <2>. QED
    BY <1>1, <1>2, <1>4 DEF Typed
<1>6. /\ \A i \in 1 .. m : frame[n] < q[i] /\ q[i] <= last_[k] /\ q[i] - frame[n] >= Period[k]
      /\ \A i, j \in 1 .. m : i < j => q[i] < q[j] /\ q[j] - q[i] >= Period[k]
      /\ last_[k] <= frame[Publisher(k)]
  BY <1>2 DEF OrderOn
<1>7. 1 \in 1 .. m /\ \A i \in 1 .. m - 1 : i + 1 \in 1 .. m /\ 1 < i + 1
  BY <1>4
<1>. HIDE DEF k, q, m
<1>8. OrderOn(k)'
  <2>1. frame'[n] <= last_'[k]
    BY <1>1, <1>5, <1>6, <1>7
  <2>2. ASSUME NEW i \in 1 .. m - 1
        PROVE  /\ frame'[n] < Tail(q)[i] /\ Tail(q)[i] <= last_[k]
               /\ Tail(q)[i] - frame'[n] >= Period[k]
    BY <1>4, <1>5, <1>6, <1>7
  <2>3. ASSUME NEW i \in 1 .. m - 1, NEW j \in 1 .. m - 1, i < j
        PROVE  Tail(q)[i] < Tail(q)[j] /\ Tail(q)[j] - Tail(q)[i] >= Period[k]
    <3>1. i + 1 < j + 1
      BY <1>4, <2>3
    <3>. QED
      BY <1>4, <1>6, <1>7, <3>1
  <2>4. /\ frame'[Publisher(k)] = frame[Publisher(k)] /\ pc'[Publisher(k)] = pc[Publisher(k)]
        /\ todo'[Publisher(k)] = todo[Publisher(k)] /\ last_'[k] = last_[k]
    BY <1>1, <1>2, <1>5, LinkTypes
  <2>. QED
    BY <1>2, <1>4, <1>5, <2>1, <2>2, <2>3, <2>4 DEF OrderOn, Ahead
<1>9. ASSUME NEW l \in Links, l # k
      PROVE  OrderOn(l)'
  <2>1. OrderOn(l) /\ To[l] # n /\ last_'[l] = last_[l] /\ queue_'[l] = queue_[l]
    BY <1>1, <1>5, <1>9, LinkShape DEF Ordered, k
  <2>2. frame'[To[l]] = frame[To[l]]
    BY <1>5, <2>1, LinkTypes
  <2>3. CASE Publisher(l) # n
    BY <1>5, <2>1, <2>2, <2>3, LinkTypes, SameOrder
  <2>4. CASE Publisher(l) = n
    <3>1. last_[l] < frame'[n]
      <4>1. last_[l] <= frame[n] /\ frame[n] < q[1] /\ last_[l] \in Nat /\ q[1] \in Nat
        BY <1>3, <1>6, <1>7, <2>1, <2>4, LinkTypes DEF OrderOn
      <4>. QED
        BY <1>3, <1>5, <4>1
    <3>2. pc'[n] = "fetch"
      BY <1>1 DEF Typed
    <3>3. last_[l] <= frame'[n]
      BY <1>3, <1>5, <1>7, <2>1, <3>1, LinkTypes
    <3>. QED
      BY <2>1, <2>2, <2>4, <3>1, <3>2, <3>3 DEF OrderOn, Pushing
  <2>. QED
    BY <2>3, <2>4
<1>10. Ordered'
  BY <1>8, <1>9 DEF Ordered
<1>11. frame'[n] > frame[n] /\ frame'[n] - frame[n] >= Period[k]
  BY <1>3, <1>5, <1>6, <1>7
<1>12. frame'[n] \in Elements(q) /\ Elements(queue_'[k]) \subseteq Elements(q)
  BY <1>4, <1>5
<1>. QED
  BY <1>5, <1>10, <1>11, <1>12 DEF k, q

\* The queue of a link emptied by its publisher.
LEMMA ClearOrder ==
    ASSUME Typed, Ordered, NEW n \in Nodes, ClearQueue(n)
    PROVE  /\ Ordered'
           /\ \A k \in Links : queue_'[k] = queue_[k] \/ queue_'[k] = <<>>
<1>. DEFINE l == Head(todo[n])
<1>1. /\ pc[n] = "clear" /\ pc' = [pc EXCEPT ![n] = "retry"]
      /\ queue_' = [queue_ EXCEPT ![l] = <<>>]
      /\ UNCHANGED <<data_, latest_, frame, todo, last_>>
  BY DEF ClearQueue, Goto
<1>2. l \in Links /\ Publisher(l) = n
  BY <1>1, PushOn DEF Pushing
<1>3. ASSUME NEW k \in Links
      PROVE  OrderOn(k)' /\ (queue_'[k] = queue_[k] \/ queue_'[k] = <<>>)
  <2>0. OrderOn(k) /\ last_'[k] = last_[k]
    BY <1>1 DEF Ordered
  <2>. HIDE DEF l
  <2>1. queue_'[k] = queue_[k] \/ queue_'[k] = <<>>
    BY <1>1, <1>2 DEF Typed
  <2>2. CASE Publisher(k) # n
    <3>1. queue_'[k] = queue_[k]
      BY <1>1, <1>2, <2>2 DEF Typed
    <3>. QED
      BY <1>1, <2>0, <2>1, <2>2, <3>1, LinkTypes, SameOrder DEF Typed
  <2>3. CASE Publisher(k) = n
    <3>1. pc'[n] = "retry" /\ UNCHANGED <<frame, todo, last_>>
      BY <1>1 DEF Typed
    <3>2. CASE queue_'[k] = queue_[k]
      BY <1>1, <2>0, <2>3, <3>1, <3>2 DEF OrderOn, Ahead, Pushing
    <3>3. CASE queue_'[k] = <<>>
      <4>1. 1 .. Len(queue_'[k]) = {}
        BY <3>3
      <4>. QED
        BY <1>1, <2>0, <2>3, <3>1, <4>1 DEF OrderOn, Ahead, Pushing
    <3>. QED
      BY <2>1, <3>2, <3>3
  <2>. QED
    BY <2>1, <2>2, <2>3
<1>. QED
  BY <1>3 DEF Ordered

\* The end of a publication: the event is in the queue behind older ones, or in none.
LEMMA PublishOrder ==
    ASSUME Typed, Ordered, NEW n \in Nodes, pc[n] \in Pushing, Published(n),
           UNCHANGED queue_ \/ Append1(Head(todo[n]), frame[n])
    PROVE  Ordered'
<1>0. PICK l \in Links : l = Head(todo[n])
  BY PushOn
<1>. DEFINE r == Tail(todo[n])
            q == queue_[l]
            m == Len(q)
            ts == frame[n]
<1>1. /\ last_' = [last_ EXCEPT ![l] = ts] /\ todo' = [todo EXCEPT ![n] = r]
      /\ pc' = [pc EXCEPT ![n] = "output"] /\ UNCHANGED <<data_, latest_, frame>>
  BY <1>0 DEF Published, Skip, Goto
<1>2. /\ l \in Links /\ Publisher(l) = n /\ l \in Ahead(n) /\ l \notin Elements(r)
      /\ Elements(r) \subseteq Elements(todo[n]) /\ ts \in 1 .. MaxTime
  BY <1>0, PushOn
<1>3. /\ last_'[l] = ts /\ \A k \in Links \ {l} : last_'[k] = last_[k]
      /\ pc'[n] = "output" /\ todo'[n] = r
      /\ \A j \in Nodes \ {n} : pc'[j] = pc[j] /\ todo'[j] = todo[j]
  <2>. HIDE DEF r, ts
  <2>. QED
    BY <1>1, <1>2 DEF Typed
<1>4. \A k \in Links \ {l} : queue_'[k] = queue_[k]
  <2>. HIDE DEF ts
  <2>1. CASE UNCHANGED queue_
    BY <2>1
  <2>2. CASE Append1(l, ts)
    BY <1>2, <2>2 DEF Append1, Typed
  <2>. QED
    BY <1>0, <2>1, <2>2 DEF ts
<1>5. queue_'[l] = q \/ queue_'[l] = Append(q, ts)
  <2>. HIDE DEF ts
  <2>1. CASE UNCHANGED queue_
    BY <2>1
  <2>2. CASE Append1(l, ts)
    BY <1>2, <2>2 DEF Append1, Typed
  <2>. QED
    BY <1>0, <2>1, <2>2 DEF ts
<1>6. ASSUME NEW k \in Links, k # l
      PROVE  OrderOn(k)'
  <2>0. OrderOn(k) /\ frame' = frame
    BY <1>1 DEF Ordered
  <2>. HIDE DEF r, q, m, ts
  <2>1. queue_'[k] = queue_[k] /\ last_'[k] = last_[k]
    BY <1>3, <1>4, <1>6
  <2>2. CASE Publisher(k) # n
    BY <1>1, <1>3, <2>0, <2>1, <2>2, LinkTypes, SameOrder
  <2>3. CASE Publisher(k) = n
    <3>1. k \in Ahead(n)' => k \in Ahead(n)
      BY <1>2, <1>3 DEF Ahead, Pushing
    <3>. QED
      BY <1>3, <2>0, <2>1, <2>3, <3>1 DEF OrderOn, Pushing
  <2>. QED
    BY <2>2, <2>3
<1>7. OrderOn(l)'
  <2>0. /\ OrderOn(l) /\ frame' = frame /\ pc[n] \in Pushing
        /\ q \in Seq(1 .. MaxTime) /\ m \in Nat /\ last_[l] \in Nat /\ Period[l] \in Nat
        /\ frame[To[l]] \in Nat /\ \A i \in 1 .. m : q[i] \in Nat
    BY <1>1, <1>2, LinkTypes DEF Ordered
  <2>1. /\ last_[l] < ts /\ ts - last_[l] >= Period[l] /\ frame[To[l]] <= last_[l]
        /\ \A i \in 1 .. m : /\ frame[To[l]] < q[i] /\ q[i] <= last_[l]
                             /\ q[i] - frame[To[l]] >= Period[l]
        /\ \A i, j \in 1 .. m : i < j => q[i] < q[j] /\ q[j] - q[i] >= Period[l]
    BY <1>0, <1>2, <2>0 DEF OrderOn
  <2>2. ts \in Nat
    BY <1>2, BoundsAssumption
  <2>3. /\ \A i \in 1 .. m : q[i] <= ts /\ q[i] < ts /\ ts - q[i] >= Period[l]
        /\ frame[To[l]] <= ts /\ frame[To[l]] < ts /\ ts - frame[To[l]] >= Period[l]
    <3>. HIDE DEF q, m, ts
    <3>. QED
      BY <2>0, <2>1, <2>2
  <2>4. /\ Len(Append(q, ts)) = m + 1 /\ Append(q, ts)[m + 1] = ts
        /\ \A i \in 1 .. m : Append(q, ts)[i] = q[i]
    <3>. HIDE DEF ts
    <3>. QED
      BY <1>2, <2>0, SeqElements
  <2>5. l \notin Ahead(n)'
    BY <1>2, <1>3 DEF Ahead
  <2>6. /\ last_'[l] = ts /\ frame'[Publisher(l)] = ts /\ frame'[To[l]] = frame[To[l]]
        /\ l \notin Ahead(Publisher(l))' /\ pc'[Publisher(l)] \notin Pushing /\ ts <= ts
    BY <1>2, <1>3, <2>0, <2>2, <2>5 DEF Pushing
  <2>. HIDE DEF r, m, ts
  <2>7. CASE queue_'[l] = q
    <3>. HIDE DEF q
    <3>1. \A i \in 1 .. m : q[i] <= last_'[l]
      BY <1>3, <2>3
    <3>2. Len(q) = m
      BY DEF m
    <3>. QED
      BY <2>1, <2>3, <2>6, <2>7, <3>1, <3>2 DEF OrderOn
  <2>8. CASE queue_'[l] = Append(q, ts)
    <3>. HIDE DEF q
    <3>. DEFINE a == Append(q, ts)
    <3>. HIDE DEF a
    <3>1. ASSUME NEW i \in 1 .. m + 1
          PROVE  /\ frame[To[l]] < a[i] /\ a[i] <= ts /\ a[i] - frame[To[l]] >= Period[l]
                 /\ a[i] = IF i = m + 1 THEN ts ELSE q[i]
                 /\ i # m + 1 => i \in 1 .. m
      BY <2>0, <2>1, <2>2, <2>3, <2>4 DEF a
    <3>2. ASSUME NEW i \in 1 .. m + 1, NEW j \in 1 .. m + 1, i < j
          PROVE  a[i] < a[j] /\ a[j] - a[i] >= Period[l]
      <4>1. i \in 1 .. m /\ a[i] = q[i]
        BY <2>0, <3>1, <3>2
      <4>2. CASE j = m + 1
        BY <2>3, <3>1, <4>1, <4>2
      <4>3. CASE j # m + 1
        BY <2>1, <3>1, <3>2, <4>1, <4>3
      <4>. QED
        BY <4>2, <4>3
    <3>3. queue_'[l] = a /\ Len(a) = m + 1
      BY <2>4, <2>8 DEF a
    <3>. QED
      BY <2>3, <2>6, <3>1, <3>2, <3>3 DEF OrderOn
  <2>. QED
    BY <1>5, <2>7, <2>8
<1>. QED
  BY <1>6, <1>7 DEF Ordered

\* Every step keeps the order, and moves the frame of a worker other than the source
\* by the period of its link at least.
LEMMA OrderStep ==
    ASSUME Typed, Ordered, [Next]_vars
    PROVE  /\ Ordered'
           /\ \A n \in Nodes \ {Source} : frame'[n] # frame[n] =>
                frame'[n] > frame[n] /\ frame'[n] - frame[n] >= Period[LinkInto(n)]
<1>. DEFINE Forward == \A n \in Nodes \ {Source} : frame'[n] # frame[n] =>
                frame'[n] > frame[n] /\ frame'[n] - frame[n] >= Period[LinkInto(n)]
<1>1. ASSUME NEW n \in Nodes, Make(n)
      PROVE  Ordered' /\ Forward
  BY <1>1, MakeOrder DEF Make, Typed
<1>2. ASSUME NEW n \in Nodes, Take(n)
      PROVE  Ordered' /\ Forward
  <2>1. \A m \in Nodes \ {n} : frame'[m] = frame[m]
    BY <1>2 DEF Take, Typed
  <2>. QED
    BY <1>2, <2>1, TakeOrder
<1>3. ASSUME NEW n \in Nodes, ClearQueue(n)
      PROVE  Ordered' /\ Forward
  BY <1>3, ClearOrder DEF ClearQueue
<1>4. ASSUME NEW n \in Nodes, Fetch(n) \/ Run(n) \/ Reference(n) \/ Output(n) \/ Full(n)
      PROVE  Ordered' /\ Forward
  <2>1. Quiet(n)
    BY <1>4, QuietSteps
  <2>. QED
    BY <2>1, QuietOrder DEF Quiet
<1>5. ASSUME NEW n \in Nodes, pc[n] \in Pushing, Published(n),
             UNCHANGED queue_ \/ Append1(Head(todo[n]), frame[n])
      PROVE  Ordered' /\ Forward
  BY <1>5, PublishOrder DEF Published
<1>6. ASSUME UNCHANGED <<queue_, pc, frame, todo, last_>>
      PROVE  Ordered' /\ Forward
  <2>1. ASSUME NEW l \in Links
        PROVE  OrderOn(l)'
    <3>1. OrderOn(l)
      BY DEF Ordered
    <3>. QED
      BY <1>6, <3>1, SameOrder
  <2>. QED
    BY <1>6, <2>1 DEF Ordered
<1>7. ASSUME NEW n \in Nodes, Make(n) \/ Step(n)
      PROVE  Ordered' /\ Forward
  <2>. HIDE DEF Forward
  <2>. QED
    BY <1>1, <1>2, <1>3, <1>4, <1>5, <1>7, StepKinds
<1>8. ASSUME \E c \in Caches : Sweep(c)
      PROVE  Ordered' /\ Forward
  BY <1>6, <1>8 DEF Sweep
<1>9. ASSUME UNCHANGED vars
      PROVE  Ordered' /\ Forward
  BY <1>6, <1>9 DEF vars
<1>. HIDE DEF Forward
<1>10. Ordered' /\ Forward
  BY <1>7, <1>8, <1>9 DEF Next
<1>. QED
  BY <1>10 DEF Forward

\* In the first state there is nothing to be out of order.
LEMMA OrderInit == Init => Ordered
<1>1. 1 .. Len(<<>>) = {}
  OBVIOUS
<1>2. \A l \in Links : Publisher(l) \in Nodes /\ To[l] \in Nodes
  BY LinkShape
<1>3. "take" \notin Pushing
  BY DEF Pushing
<1>. QED
  BY <1>1, <1>2, <1>3 DEF Init, Ordered, OrderOn, Ahead

-----------------------------------------------------------------------------
(* Nodes that share a frame.                                               *)

\* The links that hand the frame itself on.
Sharing == {l \in Links : \E n \in Nodes : l \in Elements(NoCopies[n])}

\* The nodes that share the frames of n, after it.
Sharers(n) == Below(n, Sharing)

\* Such a link leads from a node that is not the source to the only other one to
\* which that node hands its frame, and to the same cache.
LEMMA SharingShape ==
    ASSUME NEW l \in Sharing
    PROVE  LET p == Publisher(l)
           IN  /\ l \in Links /\ l \in Elements(NoCopies[p]) /\ p \in Nodes \ {Source}
               /\ TriggerCache(p) = TriggerCache(To[l])
               /\ \A k \in Sharing : Publisher(k) = p => k = l
<1>1. PICK n \in Nodes : l \in Elements(NoCopies[n])
  BY DEF Sharing
<1>2. l \in Links /\ Publisher(l) = n
  BY <1>1, LinksShape, LinkShape DEF Sharing
<1>3. n # Source
  BY <1>1, TopologyAssumption DEF Elements
<1>4. TriggerCache(n) = TriggerCache(To[l])
  BY <1>1, <1>2, LinkShape, TopologyAssumption DEF TriggerCache
<1>5. ASSUME NEW k \in Sharing, Publisher(k) = n
      PROVE  k = l
  <2>1. PICK m \in Nodes : k \in Elements(NoCopies[m])
    BY DEF Sharing
  <2>2. m = n
    BY <1>5, <2>1, LinksShape, LinkShape DEF Sharing
  <2>. QED
    BY <1>1, <2>1, <2>2, LinksShape
<1>. QED
  BY <1>1, <1>2, <1>3, <1>4, <1>5

\* What shares the frames of a node is the node it hands them to, and what shares
\* the frames of that one.
LEMMA SharersNext ==
    ASSUME NEW l \in Sharing
    PROVE  /\ To[l] \in Sharers(Publisher(l))
           /\ Sharers(Publisher(l)) \subseteq {To[l]} \cup Sharers(To[l])
<1>. DEFINE p == Publisher(l)
            d == To[l]
            S == {d} \cup Sharers(d)
<1>1. l \in Links /\ p \in Nodes /\ d \in Nodes /\ Sharing \subseteq Links
  BY SharingShape, LinkShape DEF Sharing
<1>2. d \in Sharers(p)
  BY <1>1, BelowLeast DEF Sharers
<1>3. S \in SUBSET Nodes
  BY <1>1, BelowLeast DEF Sharers
<1>4. ASSUME NEW k \in Sharing, Publisher(k) \in S \cup {p}
      PROVE  To[k] \in S
  <2>1. CASE Publisher(k) = p
    BY <2>1, SharingShape
  <2>2. CASE Publisher(k) \in S
    BY <1>1, <2>2, BelowLeast DEF Sharers
  <2>. QED
    BY <1>4, <2>1, <2>2
<1>5. Sharers(p) \subseteq S
  <2>. HIDE DEF S
  <2>. QED
    BY <1>1, <1>3, <1>4, BelowLeast DEF Sharers
<1>. QED
  BY <1>2, <1>5

\* What shares the frames of a node that shares those of m shares those of m.
LEMMA SharersAfter ==
    ASSUME NEW m \in Nodes, NEW l \in Sharing, Publisher(l) \in Sharers(m) \cup {m}
    PROVE  To[l] \in Sharers(m)
BY BelowLeast DEF Sharers, Sharing

\* Of two nodes with one trigger cache one shares the frames of the other: else take
\* the first two that do not, and go back along the links into them.
LEMMA OneChain ==
    \A n, m \in Nodes \ {Source} :
        TriggerCache(n) = TriggerCache(m) => n = m \/ n \in Sharers(m) \/ m \in Sharers(n)
<1>1. PICK rank \in [Nodes -> 0 .. Cardinality(Nodes)] :
        \A k \in Links : rank[Publisher(k)] < rank[To[k]]
  BY TopologyAssumption
<1>2. \A n \in Nodes : rank[n] \in Nat
  <2>1. Cardinality(Nodes) \in Nat
    BY ShapeAssumption, FS_CardinalityType
  <2>. QED
    BY <1>1, <2>1
<1>. DEFINE Apart(n, m) == /\ TriggerCache(n) = TriggerCache(m)
                           /\ n # m /\ n \notin Sharers(m) /\ m \notin Sharers(n)
            Sums == {k \in Nat : \E n, m \in Nodes \ {Source} :
                       Apart(n, m) /\ k = rank[n] + rank[m]}
<1>3. SUFFICES ASSUME Sums # {}
               PROVE  FALSE
  <2>1. \A n, m \in Nodes \ {Source} : rank[n] + rank[m] \in Nat
    BY <1>2
  <2>. QED
    BY <2>1
<1>4. PICK least \in Sums : \A k \in Sums : least <= k
  <2>. HIDE DEF Sums
  <2>1. Sums \in SUBSET Nat
    BY DEF Sums
  <2>. QED
    BY <1>3, <2>1, LeastNumber
<1>5. PICK n \in Nodes \ {Source}, m \in Nodes \ {Source} :
        Apart(n, m) /\ least = rank[n] + rank[m]
  OBVIOUS
<1>6. ASSUME NEW i \in Nodes \ {Source}, NEW j \in Nodes \ {Source},
             rank[i] + rank[j] < rank[n] + rank[m]
      PROVE  ~Apart(i, j)
  <2>. HIDE DEF Apart
  <2>1. rank[i] + rank[j] \in Nat /\ rank[n] + rank[m] \in Nat
    BY <1>2
  <2>2. ~ (rank[n] + rank[m] <= rank[i] + rank[j])
    BY <1>2, <1>6
  <2>. QED
    BY <1>4, <1>5, <2>1, <2>2
<1>7. ASSUME NEW i \in Nodes \ {Source}, NEW j \in Nodes \ {Source},
             Apart(i, j), rank[i] + rank[j] = rank[n] + rank[m], LinkInto(i) \in Sharing
      PROVE  FALSE
  <2>. DEFINE l == LinkInto(i)
              p == Publisher(l)
  <2>1. /\ l \in Sharing /\ To[l] = i /\ p \in Nodes \ {Source} /\ l \in Links
        /\ TriggerCache(p) = TriggerCache(j)
    BY <1>7, LinkShape, SharingShape
  <2>2. rank[p] + rank[j] < rank[n] + rank[m]
    <3>. HIDE DEF p
    <3>1. rank[p] < rank[i]
      BY <1>1, <2>1 DEF p
    <3>. QED
      BY <1>2, <1>7, <2>1, <3>1
  <2>3. p = j \/ p \in Sharers(j) \/ j \in Sharers(p)
    BY <1>6, <2>1, <2>2
  <2>4. CASE p = j \/ p \in Sharers(j)
    BY <1>7, <2>1, <2>4, SharersAfter
  <2>5. CASE j \in Sharers(p)
    BY <1>7, <2>1, <2>5, SharersNext
  <2>. QED
    BY <2>3, <2>4, <2>5
<1>8. ASSUME LinkInto(n) \notin Sharing, LinkInto(m) \notin Sharing
      PROVE  FALSE
  <2>. DEFINE l == LinkInto(n)
              k == LinkInto(m)
  <2>1. l \in Links /\ k \in Links /\ To[l] = n /\ To[k] = m
    BY LinkShape
  <2>2. l \in Elements(Copies[Publisher(l)]) /\ k \in Elements(Copies[Publisher(k)])
    BY <1>8, <2>1, LinkShape, LinksShape DEF Sharing
  <2>3. DataOf[l] = DataOf[k]
    BY <1>5 DEF TriggerCache
  <2>4. Publisher(l) \in Nodes /\ Publisher(k) \in Nodes
    BY <2>1, LinkShape
  <2>5. l = k
    <3>. HIDE DEF l, k
    <3>. QED
      BY <2>2, <2>3, <2>4, TopologyAssumption
  <2>. QED
    BY <1>5, <2>1, <2>5
<1>9. Apart(m, n) /\ rank[m] + rank[n] = rank[n] + rank[m]
  BY <1>2, <1>5
<1>. QED
  BY <1>5, <1>7, <1>8, <1>9

\* A worker that holds its frame is ahead of all the nodes that share it.
LEMMA HolderAhead ==
    ASSUME Typed, Ordered, NEW n \in Nodes, Holds(n) # {}, NEW m \in Sharers(n)
    PROVE  frame[m] < frame[n]
<1>. DEFINE S == {j \in Nodes : frame[j] < frame[n]}
<1>1. \A j \in Nodes : frame[j] \in Nat
  BY BoundsAssumption DEF Typed
<1>2. ASSUME NEW l \in Sharing, Publisher(l) = n
      PROVE  frame[To[l]] < frame[n]
  <2>1. l \in Elements(NoCopies[n]) /\ l \in Links /\ l \in Elements(LinksOf(n))
    BY <1>2, SharingShape, LinkShape
  <2>2. todo[n] # <<>> => l \in Elements(todo[n])
    <3>1. \A s \in Seq(Links) : s # <<>> => s[Len(s)] \in Elements(s)
      BY SeqElements DEF Elements
    <3>. QED
      BY <2>1, <3>1 DEF Typed, Listed
  <2>3. l \in Ahead(n)
    BY <2>1, <2>2 DEF Holds, Ahead
  <2>. QED
    BY <1>1, <1>2, <2>1, <2>3, LinkTypes DEF Ordered, OrderOn
<1>3. ASSUME NEW l \in Sharing, Publisher(l) \in S
      PROVE  frame[To[l]] < frame[n]
  <2>1. l \in Links /\ OrderOn(l)
    BY SharingShape DEF Ordered
  <2>. QED
    BY <1>1, <1>3, <2>1, LinkTypes DEF OrderOn
<1>4. \A l \in Sharing : Publisher(l) \in S \cup {n} => To[l] \in S
  BY <1>2, <1>3, SharingShape, LinkShape
<1>5. Sharers(n) \subseteq S
  BY <1>4, BelowLeast DEF Sharers, Sharing
<1>. QED
  BY <1>5

\* So no two workers hold one frame.
LEMMA Exclusive ==
    ASSUME Typed, Ordered
    PROVE  FrameExclusive
<1>. SUFFICES ASSUME NEW n \in Nodes, NEW m \in Nodes, n # m, Holds(n) \cap Holds(m) # {}
              PROVE  FALSE
  BY DEF FrameExclusive
<1>1. /\ n # Source /\ m # Source /\ Holds(n) # {} /\ Holds(m) # {}
      /\ TriggerCache(n) = TriggerCache(m) /\ frame[n] = frame[m]
  BY DEF Holds
<1>2. n \in Sharers(m) \/ m \in Sharers(n)
  BY <1>1, OneChain
<1>3. frame[n] < frame[m] \/ frame[m] < frame[n]
  BY <1>1, <1>2, HolderAhead
<1>. QED
  BY <1>1, <1>3, BoundsAssumption DEF Typed

-----------------------------------------------------------------------------
(* What the steps do, seen from a node and from a link.                    *)

\* A worker changes nothing of another one.
LEMMA OneMoves ==
    ASSUME Typed, NEW m \in Nodes, Make(m) \/ Step(m)
    PROVE  \A n \in Nodes \ {m} : pc'[n] = pc[n] /\ frame'[n] = frame[n] /\ todo'[n] = todo[n]
<1>1. CASE Make(m)
  BY <1>1 DEF Make, Goto, Typed
<1>2. CASE Take(m)
  BY <1>2 DEF Take, Goto, Typed
<1>3. CASE Fetch(m) \/ Run(m) \/ Reference(m) \/ Output(m) \/ Full(m)
  BY <1>3, QuietSteps DEF Quiet
<1>4. CASE ClearQueue(m)
  BY <1>4 DEF ClearQueue, Goto, Typed
<1>5. CASE Published(m)
  BY <1>5 DEF Published, Skip, Goto, Typed
<1>. QED
  BY <1>1, <1>2, <1>3, <1>4, <1>5, StepKinds

\* A worker comes to publish with the frame it has, by its reference copy, and to
\* push on the link it has come to, by its Output.
LEMMA NodeSteps ==
    ASSUME Typed, [Next]_vars, NEW n \in Nodes
    PROVE  /\ frame'[n] = frame[n] \/ Make(n) \/ Take(n)
           /\ pc'[n] \in Publishing =>
                frame'[n] = frame[n] /\ (pc[n] \in Publishing \/ Reference(n))
           /\ pc'[n] \in Pushing =>
                todo'[n] = todo[n] /\ (pc[n] \in Pushing \/ (Output(n) /\ ~Skip(n)))
<1>1. CASE Make(n)
  BY <1>1 DEF Make, Goto, Typed, Publishing, Pushing
<1>2. CASE Take(n)
  BY <1>2 DEF Take, Goto, Typed, Publishing, Pushing
<1>3. CASE Fetch(n) \/ Run(n)
  BY <1>3 DEF Fetch, Run, Goto, Typed, Publishing, Pushing
<1>4. CASE Reference(n)
  BY <1>4 DEF Reference, Goto, Typed, Publishing, Pushing
<1>5. CASE Output(n)
  <2>1. pc[n] = "output" /\ frame' = frame
    BY <1>5 DEF Output
  <2>2. pc'[n] \in Pushing => todo'[n] = todo[n] /\ ~Skip(n)
    BY <1>5 DEF Output, Skip, Goto, Typed, Pushing
  <2>. QED
    BY <1>5, <2>1, <2>2 DEF Publishing
<1>6. CASE Full(n)
  BY <1>6 DEF Full, Publishing, Pushing
<1>7. CASE ClearQueue(n)
  BY <1>7 DEF ClearQueue, Publishing, Pushing
<1>8. CASE pc[n] \in Pushing /\ Published(n)
  BY <1>8 DEF Published, Skip, Goto, Typed, Publishing, Pushing
<1>9. CASE UNCHANGED <<pc, frame, todo>>
  BY <1>9
<1>10. ASSUME NEW m \in Nodes, Make(m) \/ Step(m), m # n
       PROVE  pc'[n] = pc[n] /\ frame'[n] = frame[n] /\ todo'[n] = todo[n]
  BY <1>10, OneMoves
<1>11. ASSUME Make(n) \/ Step(n)
       PROVE  \/ Make(n) \/ Take(n) \/ Fetch(n) \/ Run(n) \/ Reference(n) \/ Output(n) \/ Full(n)
              \/ ClearQueue(n) \/ (pc[n] \in Pushing /\ Published(n))
  BY <1>11, StepKinds
<1>12. ASSUME NEW c \in Caches, Sweep(c)
       PROVE  UNCHANGED <<pc, frame, todo>>
  BY <1>12 DEF Sweep
<1>13. ASSUME UNCHANGED vars
       PROVE  UNCHANGED <<pc, frame, todo>>
  BY <1>13 DEF vars
<1>. QED
  BY <1>1, <1>2, <1>3, <1>4, <1>5, <1>6, <1>7, <1>8, <1>9, <1>10, <1>11, <1>12, <1>13 DEF Next

\* An event comes into a queue from the publisher that pushes there, and a frame to
\* a worker from its queue.
LEMMA LinkSteps ==
    ASSUME Typed, Ordered, [Next]_vars, NEW l \in Links
    PROVE  LET p == Publisher(l)
               d == To[l]
           IN  /\ \A ts \in Elements(queue_'[l]) :
                    \/ ts \in Elements(queue_[l])
                    \/ pc[p] \in Pushing /\ l = Head(todo[p]) /\ ts = frame[p]
               /\ frame'[d] = frame[d] \/ frame'[d] \in Elements(queue_[l])
<1>. DEFINE p == Publisher(l)
            d == To[l]
            Queued == \A ts \in Elements(queue_'[l]) :
                        \/ ts \in Elements(queue_[l])
                        \/ pc[p] \in Pushing /\ l = Head(todo[p]) /\ ts = frame[p]
<1>1. frame'[d] = frame[d] \/ frame'[d] \in Elements(queue_[l])
  <2>1. d \in Nodes \ {Source} /\ LinkInto(d) = l
    BY LinkShape
  <2>2. ~Make(d)
    BY <2>1 DEF Make
  <2>. QED
    BY <2>1, <2>2, NodeSteps, TakeOrder
<1>2. ASSUME UNCHANGED queue_
      PROVE  Queued
  BY <1>2
<1>3. ASSUME NEW n \in Nodes, Take(n)
      PROVE  Queued
  BY <1>3, TakeOrder
<1>4. ASSUME NEW n \in Nodes, ClearQueue(n)
      PROVE  Queued
  <2>1. Elements(<<>>) = {}
    BY DEF Elements
  <2>. QED
    BY <1>4, <2>1, ClearOrder
<1>5. ASSUME NEW n \in Nodes, pc[n] \in Pushing, Append1(Head(todo[n]), frame[n])
      PROVE  Queued
  <2>1. PICK k \in Links : k = Head(todo[n]) /\ Publisher(k) = n
    BY <1>5, PushOn
  <2>2. queue_' = [queue_ EXCEPT ![k] = Append(queue_[k], frame[n])]
    BY <1>5, <2>1 DEF Append1
  <2>3. CASE k # l
    BY <2>2, <2>3 DEF Typed
  <2>4. CASE k = l
    <3>1. queue_[l] \in Seq(1 .. MaxTime) /\ frame[n] \in 1 .. MaxTime
      BY <1>5, PushOn DEF Typed
    <3>2. Elements(Append(queue_[l], frame[n])) = Elements(queue_[l]) \cup {frame[n]}
      <4>1. \A T : \A q \in Seq(T) : \A ts \in T : Elements(Append(q, ts)) = Elements(q) \cup {ts}
        BY SeqElements
      <4>. DEFINE T == 1 .. MaxTime
      <4>2. queue_[l] \in Seq(T) /\ frame[n] \in T
        BY <3>1
      <4>. HIDE DEF T
      <4>. QED
        BY <4>1, <4>2
    <3>3. queue_'[l] = Append(queue_[l], frame[n])
      BY <2>2, <2>4 DEF Typed
    <3>. QED
      BY <1>5, <2>1, <2>4, <3>2, <3>3
  <2>. QED
    BY <2>3, <2>4
<1>6. ASSUME NEW n \in Nodes, Make(n) \/ Step(n)
      PROVE  Queued
  <2>1. ASSUME Make(n) \/ Fetch(n) \/ Run(n) \/ Reference(n) \/ Output(n) \/ Full(n)
        PROVE  UNCHANGED queue_
    BY <2>1 DEF Make, Fetch, Run, Reference, Output, Full
  <2>. HIDE DEF Queued
  <2>. QED
    BY <1>2, <1>3, <1>4, <1>5, <1>6, <2>1, StepKinds
<1>7. Queued
  <2>1. ASSUME (\E c \in Caches : Sweep(c)) \/ UNCHANGED vars
        PROVE  UNCHANGED queue_
    BY <2>1 DEF Sweep, vars
  <2>. HIDE DEF Queued
  <2>. QED
    BY <1>2, <1>6, <2>1 DEF Next
<1>. QED
  BY <1>1, <1>7

-----------------------------------------------------------------------------
(* Every step keeps the data of the events.                                *)

\* A sweep takes out of a cache only what is out of its window: an earlier slot
\* holds earlier frames only.
LEMMA SweepKeeps ==
    ASSUME Typed, NEW c \in Caches, Sweep(c), NEW k \in Caches, NEW ts \in 0 .. MaxTime,
           Backed(k, ts)
    PROVE  Backed(k, ts)'
<1>1. /\ data_' = [data_ EXCEPT ![c] = {i \in data_[c] :
                     i \div SlotSize >= (latest_[c] - StaleTime) \div SlotSize}]
      /\ latest_' = latest_ /\ latest_[c] >= StaleTime
  BY DEF Sweep
<1>2. \A a, b \in Nat : a >= b => a \div SlotSize >= b \div SlotSize
  BY BoundsAssumption
<1>3. latest_[c] \in Nat /\ ts \in Nat /\ StaleTime \in Nat
  BY BoundsAssumption DEF Typed
<1>4. CASE k # c
  BY <1>1, <1>4 DEF Backed, InWindow, Typed
<1>5. CASE k = c
  <2>1. SUFFICES ASSUME ts >= latest_[c] - StaleTime
                 PROVE  ts \in data_'[c]
    BY <1>1, <1>5 DEF Backed, InWindow
  <2>2. ts \in data_[c]
    BY <1>5, <2>1 DEF Backed, InWindow
  <2>3. latest_[c] - StaleTime \in Nat
    BY <1>1, <1>3
  <2>4. ts \div SlotSize >= (latest_[c] - StaleTime) \div SlotSize
    BY <1>2, <1>3, <2>1, <2>3
  <2>. QED
    BY <1>1, <2>2, <2>4 DEF Typed
<1>. QED
  BY <1>4, <1>5

\* A frame put into a cache by its writer is there, and moves the window forward at
\* most.
LEMMA PutKeeps ==
    ASSUME Typed, NEW c \in Caches, NEW e \in 1 .. MaxTime, PutData(c, e), latest_[c] <= e
    PROVE  /\ \A k \in Caches : \A ts \in 0 .. MaxTime :
                (InWindow(k, ts) => ts \in data_[k])
                  => (ts >= latest_'[k] - StaleTime => ts \in data_'[k])
           /\ e \in data_'[c] /\ latest_'[c] <= e
           /\ \A k \in Caches \ {c} : latest_'[k] = latest_[k]
<1>. DEFINE v == IF e \in data_[c] THEN latest_[c] ELSE e
<1>1. /\ data_' = [data_ EXCEPT ![c] = data_[c] \cup {e}]
      /\ latest_' = [latest_ EXCEPT ![c] = v]
  BY DEF PutData
<1>2. /\ data_'[c] = data_[c] \cup {e} /\ latest_'[c] = v
      /\ \A k \in Caches \ {c} : data_'[k] = data_[k] /\ latest_'[k] = latest_[k]
  <2>. HIDE DEF v
  <2>. QED
    BY <1>1 DEF Typed
<1>3. v \in Nat /\ latest_[c] <= v /\ v <= e /\ latest_[c] \in Nat /\ e \in Nat
  BY BoundsAssumption DEF Typed
<1>. HIDE DEF v
<1>4. ASSUME NEW k \in Caches, NEW ts \in 0 .. MaxTime,
             InWindow(k, ts) => ts \in data_[k], ts >= latest_'[k] - StaleTime
      PROVE  ts \in data_'[k]
  <2>1. CASE k # c
    BY <1>2, <1>4, <2>1 DEF InWindow
  <2>2. CASE k = c
    <3>1. ts >= latest_[c] - StaleTime
      BY <1>2, <1>3, <1>4, <2>2, BoundsAssumption
    <3>. QED
      BY <1>2, <1>4, <2>2, <3>1 DEF InWindow
  <2>. QED
    BY <2>1, <2>2
<1>. QED
  BY <1>2, <1>3, <1>4

\* What a cache is that node n writes.
Writes(n, c) ==
    \/ c = RefOf[n] /\ RefOf[n] # NoCache
    \/ \E l \in Elements(Copies[n]) : c = DataOf[l]

\* A cache has one writer.
LEMMA OneWriter ==
    ASSUME NEW n \in Nodes, NEW m \in Nodes, NEW c, Writes(n, c), Writes(m, c)
    PROVE  n = m /\ c \in Caches
BY CacheShape DEF Writes

\* What the steps do to the caches.
LEMMA DataSteps ==
    ASSUME Typed, NEW n \in Nodes, Make(n) \/ Step(n)
    PROVE  \/ UNCHANGED <<data_, latest_>>
           \/ /\ frame' = frame /\ frame[n] \in 1 .. MaxTime
              /\ \E c \in Caches : Writes(n, c) /\ PutData(c, frame[n])
<1>1. CASE Make(n) \/ Take(n) \/ Fetch(n) \/ Run(n) \/ Full(n) \/ ClearQueue(n) \/ Published(n)
  BY <1>1 DEF Make, Take, Fetch, Run, Full, ClearQueue, Published
<1>2. pc[n] # "take" => frame[n] \in 1 .. MaxTime
  BY BoundsAssumption DEF Typed
<1>3. CASE Reference(n)
  BY <1>2, <1>3, ShapeAssumption DEF Reference, Writes
<1>4. CASE Output(n)
  <2>1. pc[n] = "output" /\ frame' = frame
    BY <1>4 DEF Output
  <2>2. todo[n] # <<>> => Head(todo[n]) \in Links
    BY TailListed DEF Typed
  <2>. QED
    BY <1>2, <1>4, <2>1, <2>2, LinkShape DEF Output, Writes
<1>. QED
  BY <1>1, <1>3, <1>4, StepKinds

\* A step takes no frame out of a cache that is within its window.
LEMMA DataKept ==
    ASSUME Typed, LatestOnes, [Next]_vars, NEW k \in Caches, NEW ts \in 0 .. MaxTime,
           Backed(k, ts)
    PROVE  Backed(k, ts)'
<1>1. ASSUME UNCHANGED <<data_, latest_>>
      PROVE  Backed(k, ts)'
  BY <1>1 DEF Backed, InWindow
<1>2. ASSUME NEW n \in Nodes, NEW c \in Caches, frame[n] \in 1 .. MaxTime, Writes(n, c),
             PutData(c, frame[n])
      PROVE  Backed(k, ts)'
  <2>1. latest_[c] <= frame[n]
    BY <1>2 DEF LatestOnes, Writes
  <2>. QED
    BY <1>2, <2>1, PutKeeps DEF Backed, InWindow
<1>3. ASSUME NEW c \in Caches, Sweep(c)
      PROVE  Backed(k, ts)'
  BY <1>3, SweepKeeps
<1>. QED
  BY <1>1, <1>2, <1>3, DataSteps DEF Next, vars

\* The frames of the nodes only grow.
LEMMA FrameGrows ==
    ASSUME Typed, Ordered, [Next]_vars, NEW n \in Nodes
    PROVE  frame'[n] >= frame[n]
<1>1. frame[n] \in Nat
  BY BoundsAssumption DEF Typed
<1>2. CASE Make(n)
  <2>1. PICK ts \in (frame[n] + 1) .. MaxTime : frame' = [frame EXCEPT ![n] = ts]
    BY <1>2 DEF Make
  <2>. QED
    BY <1>1, <2>1, BoundsAssumption DEF Typed
<1>3. CASE Take(n)
  BY <1>1, <1>3, TakeOrder, TypedStep, BoundsAssumption DEF Typed
<1>. QED
  BY <1>1, <1>2, <1>3, NodeSteps

\* Every step keeps LatestOnes.
LEMMA LatestStep ==
    ASSUME Typed, Ordered, LatestOnes, [Next]_vars
    PROVE  LatestOnes'
<1>. SUFFICES ASSUME NEW n \in Nodes, NEW c, Writes(n, c)
              PROVE  latest_'[c] <= frame'[n]
  BY DEF LatestOnes, Writes
<1>1. c \in Caches /\ latest_[c] <= frame[n]
  BY OneWriter DEF LatestOnes, Writes
<1>2. /\ frame'[n] >= frame[n] /\ frame[n] \in Nat /\ frame'[n] \in Nat
      /\ latest_[c] \in Nat
  BY <1>1, FrameGrows, TypedStep, BoundsAssumption DEF Typed
<1>3. CASE latest_'[c] = latest_[c]
  BY <1>1, <1>2, <1>3
<1>4. ASSUME NEW m \in Nodes, NEW k \in Caches, frame' = frame, frame[m] \in 1 .. MaxTime,
             Writes(m, k), PutData(k, frame[m])
      PROVE  latest_'[c] <= frame'[n]
  <2>1. latest_[k] <= frame[m]
    BY <1>4 DEF LatestOnes, Writes
  <2>2. latest_'[k] <= frame[m] /\ \A i \in Caches \ {k} : latest_'[i] = latest_[i]
    BY <1>4, <2>1, PutKeeps
  <2>3. CASE k = c
    BY <1>4, <2>2, <2>3, OneWriter
  <2>4. CASE k # c
    BY <1>1, <1>3, <2>2, <2>4
  <2>. QED
    BY <2>3, <2>4
<1>5. ASSUME ~ UNCHANGED latest_
      PROVE  \E m \in Nodes : Make(m) \/ Step(m)
  BY <1>5 DEF Next, Sweep, vars
<1>. QED
  BY <1>3, <1>4, <1>5, DataSteps

\* The reference caches that hold the frames of node d, and its trigger cache, hold
\* what its publisher pushes there.
LEMMA PushBacked ==
    ASSUME Typed, DataFirst, NEW l \in Links, NEW c \in Needs(To[l]),
           pc[Publisher(l)] \in Pushing, l = Head(todo[Publisher(l)])
    PROVE  Backed(c, frame[Publisher(l)])
<1>. DEFINE p == Publisher(l)
<1>1. p \in Nodes /\ LinkInto(To[l]) = l /\ frame[p] # 0 /\ pc[p] \in Publishing
  BY LinkShape DEF Typed, Pushing, Publishing
<1>2. CASE c = TriggerCache(To[l])
  BY <1>1, <1>2 DEF DataFirst, TriggerCache
<1>3. ASSUME NEW i \in Nodes, RefOf[i] # NoCache, To[l] \in Below(i, Links), c = RefOf[i]
      PROVE  Backed(c, frame[p])
  <2>1. p \in Below(i, Links) \cup {i}
    BY <1>1, <1>3, BelowFrom
  <2>2. CASE p = i
    BY <1>1, <1>3, <2>2 DEF DataFirst
  <2>3. CASE p \in Below(i, Links)
    <3>1. p \in Nodes \ {Source} /\ LinkInto(p) \in Links /\ To[LinkInto(p)] = p
      BY <2>3, BelowFrom, LinkShape
    <3>2. c \in Needs(p)
      BY <1>3, <2>3 DEF Needs
    <3>. QED
      BY <1>1, <3>1, <3>2 DEF DataFirst
  <2>. QED
    BY <2>1, <2>2, <2>3
<1>. QED
  BY <1>2, <1>3 DEF Needs

\* Every step keeps DataFirst.
LEMMA DataStep ==
    ASSUME Typed, Ordered, LatestOnes, DataFirst, [Next]_vars
    PROVE  DataFirst'
<1>1. \A l \in Links : \A c \in Needs(To[l]) : c \in Caches
  BY LinkShape, CacheShape DEF Needs
<1>2. Typed'
  BY TypedStep
<1>3. ASSUME NEW l \in Links, NEW c \in Needs(To[l])
      PROVE  /\ \A ts \in Elements(queue_'[l]) : Backed(c, ts)'
             /\ frame'[To[l]] # 0 => Backed(c, frame[To[l]])'
  <2>1. /\ \A ts \in Elements(queue_[l]) : Backed(c, ts)
        /\ frame[To[l]] # 0 => Backed(c, frame[To[l]])
        /\ c \in Caches
    BY <1>1 DEF DataFirst
  <2>2. /\ Elements(queue_[l]) \subseteq 0 .. MaxTime
        /\ frame[To[l]] \in 0 .. MaxTime /\ frame[Publisher(l)] \in 0 .. MaxTime
    BY LinkTypes, SeqElements, BoundsAssumption DEF Typed, Elements
  <2>3. ASSUME NEW ts \in Elements(queue_'[l])
        PROVE  Backed(c, ts)'
    <3>1. Backed(c, ts) /\ ts \in 0 .. MaxTime
      BY <2>1, <2>2, LinkSteps, PushBacked
    <3>. QED
      BY <2>1, <3>1, DataKept
  <2>4. ASSUME frame'[To[l]] # 0
        PROVE  Backed(c, frame[To[l]])'
    <3>. DEFINE ts == frame'[To[l]]
    <3>1. Backed(c, ts) /\ ts \in 0 .. MaxTime
      BY <2>1, <2>2, <2>4, LinkSteps
    <3>. HIDE DEF ts
    <3>2. PICK e \in 0 .. MaxTime : e = ts
      BY <3>1
    <3>3. Backed(c, e)'
      BY <2>1, <3>1, <3>2, DataKept
    <3>. QED
      BY <3>2, <3>3 DEF Backed, InWindow, ts
  <2>. QED
    BY <2>3, <2>4
<1>4. ASSUME NEW n \in Nodes, pc'[n] \in Publishing, RefOf[n] # NoCache
      PROVE  Backed(RefOf[n], frame[n])'
  <2>1. /\ frame'[n] = frame[n] /\ frame[n] \in 0 .. MaxTime /\ RefOf[n] \in Caches
        /\ pc[n] \in Publishing \/ Reference(n)
    BY <1>4, NodeSteps, CacheShape DEF Typed
  <2>2. PICK e \in 0 .. MaxTime : e = frame[n]
    BY <2>1
  <2>3. CASE pc[n] \in Publishing
    <3>1. Backed(RefOf[n], e)
      BY <1>4, <2>2, <2>3 DEF DataFirst
    <3>2. Backed(RefOf[n], e)'
      BY <2>1, <3>1, DataKept
    <3>. QED
      BY <2>1, <2>2, <3>2 DEF Backed, InWindow
  <2>4. CASE Reference(n)
    <3>1. PutData(RefOf[n], frame[n]) /\ frame[n] # 0
      BY <1>4, <2>4 DEF Reference, Typed
    <3>2. frame[n] \in data_'[RefOf[n]]
      BY <2>1, <3>1 DEF PutData, Typed
    <3>. QED
      BY <2>1, <3>2 DEF Backed, InWindow
  <2>. QED
    BY <2>1, <2>3, <2>4
<1>5. ASSUME NEW n \in Nodes, pc'[n] \in Pushing
      PROVE  Backed(DataOf[Head(todo[n])], frame[n])'
  <2>1. /\ frame'[n] = frame[n] /\ frame[n] \in 0 .. MaxTime /\ todo'[n] = todo[n]
        /\ pc[n] \in Pushing \/ (Output(n) /\ ~Skip(n))
    BY <1>5, NodeSteps DEF Typed, Pushing, Publishing
  <2>2. todo[n] # <<>> /\ Listed(n, todo[n]) /\ todo[n] \in Seq(Links)
    BY <1>2, <1>5, <2>1 DEF Typed
  <2>3. PICK l \in Links : l = Head(todo[n]) /\ l \in Elements(LinksOf(n)) /\ Publisher(l) = n
    BY <2>2, TailListed
  <2>4. PICK e \in 0 .. MaxTime : e = frame[n]
    BY <2>1
  <2>5. DataOf[l] \in Caches
    BY LinkShape
  <2>6. ASSUME Backed(DataOf[l], e)
        PROVE  Backed(DataOf[Head(todo[n])], frame[n])'
    <3>1. Backed(DataOf[l], e)'
      BY <2>5, <2>6, DataKept
    <3>. QED
      BY <2>1, <2>3, <2>4, <3>1 DEF Backed, InWindow
  <2>7. CASE pc[n] \in Pushing
    BY <2>3, <2>4, <2>6, <2>7 DEF DataFirst
  <2>8. CASE Output(n) /\ ~Skip(n) /\ l \in Elements(Copies[n])
    <3>1. PutData(DataOf[l], frame[n])
      BY <2>2, <2>3, <2>8 DEF Output
    <3>2. frame[n] \in data_'[DataOf[l]]
      BY <2>5, <3>1 DEF PutData, Typed
    <3>. QED
      BY <2>1, <2>3, <3>2 DEF Backed, InWindow
  <2>9. CASE Output(n) /\ l \notin Elements(Copies[n])
    <3>1. l \in Elements(NoCopies[n])
      BY <2>3, <2>9, LinksShape
    <3>2. l \in Sharing
      BY <3>1 DEF Sharing
    <3>3. n \in Nodes \ {Source} /\ DataOf[l] = TriggerCache(n)
      BY <2>3, <3>1, <3>2, SharingShape, TopologyAssumption
    <3>4. /\ LinkInto(n) \in Links /\ To[LinkInto(n)] = n /\ TriggerCache(n) \in Needs(n)
          /\ frame[n] # 0
      BY <2>9, <3>3, LinkShape DEF Needs, Typed, Output
    <3>. QED
      BY <2>4, <2>6, <3>3, <3>4 DEF DataFirst
  <2>. QED
    BY <2>1, <2>7, <2>8, <2>9
<1>. QED
  BY <1>3, <1>4, <1>5 DEF DataFirst

\* In the first state there is no data and no event.
LEMMA DataInit == Init => LatestOnes /\ DataFirst
<1>. SUFFICES ASSUME Init
              PROVE  LatestOnes /\ DataFirst
  OBVIOUS
<1>1. LatestOnes
  BY CacheShape DEF Init, LatestOnes
<1>2. \A l \in Links : Elements(queue_[l]) = {} /\ frame[To[l]] = 0
  BY LinkShape DEF Init, Elements
<1>3. \A n \in Nodes : pc[n] \notin Publishing /\ pc[n] \notin Pushing
  BY DEF Init, Publishing, Pushing
<1>. QED
  BY <1>1, <1>2, <1>3 DEF DataFirst

-----------------------------------------------------------------------------
(* The theorems.                                                           *)

\* What each link and each cache keeps to, in every state.
THEOREM Invariance == Spec => []Inv
<1>1. Init => Inv
  BY TypedInit, OrderInit, DataInit DEF Inv
<1>2. Inv /\ [Next]_vars => Inv'
  BY TypedStep, OrderStep, LatestStep, DataStep DEF Inv
<1>. QED
  BY <1>1, <1>2, PTL DEF Spec

\* The types; no event queue is ever longer than FLAGS_max_event_queue_size, the
\* clear and the second try_push of EventManager::publish included.
THEOREM TypeCorrect == Spec => []TypeOK
<1>1. Inv => TypeOK
  BY DEF Inv, Typed, TypeOK, Listed
<1>. QED
  BY <1>1, Invariance, PTL

\* Port::publish puts the data into the cache before EventManager::publish tells of
\* it, and the sweep leaves it there while the window holds it: no worker looks for
\* a frame that is not there yet.
THEOREM DataBeforeEvent == Spec => []EventHasData
<1>1. ASSUME Inv, NEW l \in Links
      PROVE  \A ts \in Elements(queue_[l])
                       \cup {frame[n] : n \in {m \in {To[l]} : pc[m] = "fetch"}} :
               Backed(DataOf[l], ts)
  <2>1. DataOf[l] \in Needs(To[l]) /\ To[l] \in Nodes
    BY LinkShape DEF Needs, TriggerCache
  <2>2. pc[To[l]] = "fetch" => frame[To[l]] # 0
    BY <1>1, <2>1 DEF Inv, Typed
  <2>. QED
    BY <1>1, <2>1, <2>2 DEF Inv, DataFirst
<1>2. Inv => EventHasData
  BY <1>1 DEF EventHasData, Backed
<1>. QED
  BY <1>2, Invariance, PTL

\* The frame that Port::publish hands on without a copy is never worked on by two
\* workers: whoever still holds it is strictly ahead of the nodes it is handed to.
THEOREM FrameNeverShared == Spec => []FrameExclusive
<1>1. Inv => FrameExclusive
  BY Exclusive DEF Inv
<1>. QED
  BY <1>1, Invariance, PTL

\* A worker that runs finds in the reference caches of the nodes its trigger came
\* through the frame of that very time, or the window has moved past it.
THEOREM InputsPublished == Spec => []InputReady
<1>1. ASSUME Inv, NEW n \in Nodes, pc[n] = "run", NEW i \in Inputs[n], n \in Below(i, Links)
      PROVE  Backed(RefOf[i], frame[n])
  <2>1. i \in Nodes /\ RefOf[i] # NoCache
    BY ShapeAssumption
  <2>2. n \in Nodes \ {Source} /\ LinkInto(n) \in Links /\ To[LinkInto(n)] = n
    BY <1>1, <2>1, BelowFrom, LinkShape
  <2>3. RefOf[i] \in Needs(n) /\ frame[n] # 0
    BY <1>1, <2>1 DEF Needs, Inv, Typed
  <2>. QED
    BY <1>1, <2>2, <2>3 DEF Inv, DataFirst
<1>2. Inv => InputReady
  BY <1>1 DEF InputReady, Backed
<1>. QED
  BY <1>2, Invariance, PTL

\* Whatever a full queue loses and a rate lets out, the frames a worker takes come
\* in order, by output_period_ apart.
THEOREM FramesInOrder == Spec => Spaced
<1>1. Inv /\ [Next]_vars =>
        [\A n \in Nodes \ {Source} :
           (frame'[n] # frame[n] /\ frame[n] # 0) =>
             /\ frame'[n] > frame[n]
             /\ frame'[n] - frame[n] >= Period[LinkInto(n)]]_vars
  BY OrderStep DEF Inv
<1>. QED
  BY <1>1, Invariance, PTL DEF Spec, Spaced
=============================================================================
