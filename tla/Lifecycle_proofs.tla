--------------------------- MODULE Lifecycle_proofs ---------------------------
(***************************************************************************)
(* Proofs about Lifecycle for every order of operators, set of graphs and  *)
(* limit of the event queues.                                              *)
(***************************************************************************)
EXTENDS Lifecycle, TLAPS

Events == {"data", "wake"}
Publishers == Ops \cup {Main}

\* The types, and that nobody takes the head of a list that is empty.
Typed ==
    /\ config_ \in Configs
    /\ queue_ \in [Ops -> Seq(Events)] /\ \A o \in Ops : Len(queue_[o]) <= MaxQueue
    /\ stop_ \in [Ops -> BOOLEAN] /\ dag_stop \in BOOLEAN
    /\ pc \in [Threads -> WorkerSteps \cup MainSteps \cup DagSteps]
    /\ \A o \in Ops : pc[o] \in WorkerSteps
    /\ pc[Main] \in MainSteps /\ pc[Dag] \in DagSteps
    /\ todo \in [Threads -> Seq(Ops)]
    /\ \A t \in Publishers : pc[t] \in Publishing => todo[t] # <<>>
    /\ pc[Main] \in {"flag", "notify"} => todo[Main] # <<>>
    /\ pc[Dag] \in {"run", "joining"} => todo[Dag] # <<>>

\* The three kinds of threads are different ones.
LEMMA ThreadsDiffer ==
    /\ Main \in Threads /\ Dag \in Threads /\ Main # Dag
    /\ \A o \in Ops : o \in Threads /\ o # Main /\ o # Dag
    /\ Publishers \subseteq Threads /\ Dag \notin Publishers
BY ThreadAssumption DEF Threads, Publishers

\* The head and the tail of a list that is not empty.
LEMMA HeadAndTail ==
    ASSUME NEW S, NEW s \in Seq(S), s # <<>>
    PROVE  /\ Head(s) \in S /\ Tail(s) \in Seq(S)
           /\ Len(s) \in Nat \ {0} /\ Len(Tail(s)) = Len(s) - 1
           /\ \A i \in 1 .. Len(Tail(s)) : Tail(s)[i] = s[i + 1]
           /\ Head(s) = s[1]
           /\ Tail(s) = <<>> <=> Len(s) = 1
<1>1. Head(s) \in S /\ Tail(s) \in Seq(S) /\ Len(s) \in Nat \ {0} /\ Head(s) = s[1]
  OBVIOUS
<1>2. Len(Tail(s)) = Len(s) - 1 /\ \A i \in 1 .. Len(Tail(s)) : Tail(s)[i] = s[i + 1]
  OBVIOUS
<1>3. \A r \in Seq(S) : r = <<>> <=> Len(r) = 0
  OBVIOUS
<1>. QED
  BY <1>1, <1>2, <1>3

\* What is taken out of a sequence or put into it.
LEMMA TailElements ==
    ASSUME NEW S, NEW s \in Seq(S), s # <<>>
    PROVE  Elements(Tail(s)) \subseteq Elements(s)
BY HeadAndTail DEF Elements

\* One element behind a sequence is one element more.
LEMMA AppendElements ==
    ASSUME NEW S, NEW s \in Seq(S), NEW e \in S
    PROVE  Elements(Append(s, e)) = Elements(s) \cup {e}
<1>1. /\ DOMAIN s = 1 .. Len(s) /\ Len(s) \in Nat
      /\ DOMAIN Append(s, e) = 1 .. Len(s) + 1
      /\ Append(s, e)[Len(s) + 1] = e
      /\ \A i \in 1 .. Len(s) : Append(s, e)[i] = s[i]
  OBVIOUS
<1>. QED
  BY <1>1 DEF Elements

\* The list of all operators is a list of operators, and not empty.
LEMMA OrderType == Order \in Seq(Ops) /\ Order # <<>> /\ Len(Order) \in Nat \ {0}
<1>1. Order \in Seq(Ops) /\ Elements(Order) = Ops /\ Ops # {}
  BY OrderAssumption
<1>2. Order # <<>>
  BY <1>1 DEF Elements
<1>. QED
  BY <1>1, <1>2

\* Neither is the same list from behind.
LEMMA ReverseType ==
    /\ Reverse(Order) \in Seq(Ops) /\ Reverse(Order) # <<>>
    /\ Len(Reverse(Order)) = Len(Order)
    /\ \A i \in 1 .. Len(Order) : Reverse(Order)[i] = Order[Len(Order) + 1 - i]
<1>. DEFINE n == Len(Order)
<1>1. Order \in Seq(Ops) /\ n \in Nat \ {0}
  BY OrderType
<1>2. \A i \in 1 .. n : n + 1 - i \in 1 .. n /\ Order[n + 1 - i] \in Ops
  BY <1>1
<1>3. Reverse(Order) \in [1 .. n -> Ops]
  BY <1>2 DEF Reverse
<1>4. Reverse(Order) \in Seq(Ops) /\ Len(Reverse(Order)) = n
  BY <1>1, <1>3
<1>. QED
  BY <1>1, <1>4 DEF Reverse

\* The operators downstream of o.
LEMMA DownsType ==
    ASSUME Typed, NEW o \in Ops
    PROVE  Downs(o) \in Seq(Ops)
BY ConfigAssumption DEF Typed, Downs

-----------------------------------------------------------------------------
(* Every step keeps the types.                                             *)

\* The end of a publish.
LEMMA PublishedType ==
    ASSUME Typed, NEW t \in Publishers, pc[t] \in Publishing, Published(t),
           queue_' \in [Ops -> Seq(Events)], \A o \in Ops : Len(queue_'[o]) <= MaxQueue
    PROVE  Typed'
<1>. USE ThreadsDiffer DEF Typed
<1>1. todo[t] \in Seq(Ops) /\ todo[t] # <<>>
  OBVIOUS
<1>2. Tail(todo[t]) \in Seq(Ops)
  BY <1>1, HeadAndTail
<1>3. /\ todo' = [todo EXCEPT ![t] = Tail(todo[t])] /\ pc' = [pc EXCEPT ![t] = AfterPublish(t)]
      /\ config_' = config_ /\ stop_' = stop_ /\ dag_stop' = dag_stop
  BY DEF Published, Goto, Done
<1>4. CASE t = Main
  <2>1. AfterPublish(t) \in {"join", "flag"} /\ (AfterPublish(t) = "flag" => Tail(todo[t]) # <<>>)
    BY <1>4 DEF AfterPublish
  <2>. QED
    BY <1>2, <1>3, <1>4, <2>1 DEF MainSteps, Publishing, Publishers
<1>5. CASE t \in Ops
  <2>1. /\ AfterPublish(t) \in {"push", "make", "test"}
        /\ AfterPublish(t) = "push" => Tail(todo[t]) # <<>>
    BY <1>5 DEF AfterPublish
  <2>. QED
    BY <1>2, <1>3, <1>5, <2>1 DEF WorkerSteps, Publishing, Publishers
<1>. QED
  BY <1>4, <1>5 DEF Publishers

\* An event put into a queue that is not full leaves it within the limit.
LEMMA PutType ==
    ASSUME Typed, NEW o \in Ops, NEW e \in Events, Put(o, e), Len(queue_[o]) < MaxQueue
    PROVE  queue_' \in [Ops -> Seq(Events)] /\ \A d \in Ops : Len(queue_'[d]) <= MaxQueue
<1>1. queue_[o] \in Seq(Events) /\ MaxQueue \in Nat
  BY QueueAssumption DEF Typed
<1>2. Append(queue_[o], e) \in Seq(Events) /\ Len(Append(queue_[o], e)) = Len(queue_[o]) + 1
      /\ Len(queue_[o]) \in Nat
  BY <1>1
<1>3. Len(queue_[o]) + 1 <= MaxQueue
  BY <1>1, <1>2
<1>4. queue_' = [queue_ EXCEPT ![o] = Append(queue_[o], e)]
  BY DEF Put
<1>. HIDE DEF Events
<1>. QED
  BY <1>2, <1>3, <1>4 DEF Typed

\* The steps of a publish.
LEMMA PublishType ==
    ASSUME Typed, NEW t \in Publishers, Publish(t)
    PROVE  Typed'
<1>. DEFINE o == Head(todo[t])
<1>0. pc[t] \in Publishing
  BY DEF Publish, Push, ClearQueue, Retry, Publishing
<1>1. o \in Ops /\ Event(t) \in Events
  BY <1>0, ThreadsDiffer, HeadAndTail DEF Typed, Event, Events
<1>2. ASSUME Put(o, Event(t)), Len(queue_[o]) < MaxQueue, Published(t)
      PROVE  Typed'
  <2>. HIDE DEF o
  <2>. QED
    BY <1>0, <1>1, <1>2, PutType, PublishedType
<1>3. ASSUME UNCHANGED queue_, Published(t)
      PROVE  Typed'
  <2>1. queue_' \in [Ops -> Seq(Events)] /\ \A d \in Ops : Len(queue_'[d]) <= MaxQueue
    BY <1>3 DEF Typed
  <2>. QED
    BY <1>0, <1>3, <2>1, PublishedType
<1>4. ASSUME pc[t] = "push", Goto(t, "clear"), UNCHANGED <<config_, queue_, stop_, dag_stop, todo>>
      PROVE  Typed'
  BY <1>4, ThreadsDiffer
     DEF Typed, Goto, Publishers, Publishing, WorkerSteps, MainSteps
<1>5. CASE ClearQueue(t)
  <2>1. /\ queue_' = [queue_ EXCEPT ![o] = <<>>]
        /\ pc[t] = "clear" /\ pc' = [pc EXCEPT ![t] = "retry"]
        /\ UNCHANGED <<config_, stop_, dag_stop, todo>>
    BY <1>5 DEF ClearQueue, Goto
  <2>2. queue_' \in [Ops -> Seq(Events)] /\ \A d \in Ops : Len(queue_'[d]) <= MaxQueue
    BY <1>1, <2>1, QueueAssumption DEF Typed
  <2>. QED
    BY <2>1, <2>2, ThreadsDiffer
       DEF Typed, Publishers, Publishing, WorkerSteps, MainSteps
<1>. QED
  BY <1>2, <1>3, <1>4, <1>5 DEF Publish, Push, Retry

\* The steps of a worker that publish nothing.
Working(o) ==
    \/ Begin(o) \/ Pop(o) \/ Work(o) \/ Test(o) \/ Wait(o) \/ SpuriousWakeup(o)
    \/ Woken(o) \/ Make(o)

\* A worker that does not publish goes on to a step of workers, and has a list
\* of operators to feed when it goes on to publish.
LEMMA WorkingType ==
    ASSUME Typed, NEW o \in Ops, Working(o)
    PROVE  Typed'
<1>. USE ThreadsDiffer DEF Typed, Goto
<1>1. CASE Begin(o) \/ Test(o) \/ Wait(o) \/ SpuriousWakeup(o) \/ Woken(o)
  <2>1. PICK label \in WorkerSteps \ Publishing :
          /\ pc' = [pc EXCEPT ![o] = label]
          /\ UNCHANGED <<config_, queue_, dag_stop, todo>>
    BY <1>1 DEF Begin, Test, Wait, SpuriousWakeup, Woken, Awake, WorkerSteps, Publishing
  <2>2. stop_' \in [Ops -> BOOLEAN]
    BY <1>1 DEF Begin, Test, Wait, SpuriousWakeup, Woken
  <2>. QED
    BY <2>1, <2>2 DEF Publishers
<1>2. CASE Pop(o)
  <2>1. PICK label \in {"test", "work"} :
          /\ pc' = [pc EXCEPT ![o] = label]
          /\ queue_' = [queue_ EXCEPT ![o] = Tail(queue_[o])]
          /\ queue_[o] # <<>>
          /\ UNCHANGED <<config_, stop_, dag_stop, todo>>
    BY <1>2 DEF Pop
  <2>2. /\ Tail(queue_[o]) \in Seq(Events)
        /\ Len(queue_[o]) \in Nat /\ Len(Tail(queue_[o])) = Len(queue_[o]) - 1
    BY <2>1, HeadAndTail
  <2>3. Len(Tail(queue_[o])) <= MaxQueue
    BY <2>2, QueueAssumption
  <2>4. queue_' \in [Ops -> Seq(Events)] /\ \A d \in Ops : Len(queue_'[d]) <= MaxQueue
    BY <2>1, <2>2, <2>3
  <2>. QED
    BY <2>1, <2>4 DEF WorkerSteps, Publishing, Publishers
<1>3. CASE Work(o) \/ Make(o)
  <2>1. CASE pc' = [pc EXCEPT ![o] = "test"] /\ UNCHANGED todo
    BY <1>3, <2>1 DEF Work, Make, WorkerSteps, Publishing, Publishers
  <2>2. CASE /\ pc' = [pc EXCEPT ![o] = "push"]
             /\ todo' = [todo EXCEPT ![o] = Downs(o)] /\ Downs(o) # <<>>
    BY <1>3, <2>2, DownsType DEF Work, Make, WorkerSteps, Publishing, Publishers
  <2>. QED
    BY <1>3, <2>1, <2>2 DEF Work, Make
<1>. QED
  BY <1>1, <1>2, <1>3 DEF Working

\* The DAG thread.
LEMMA DagType ==
    ASSUME Typed, DagThread
    PROVE  Typed'
<1>. USE ThreadsDiffer DEF Typed, Goto
<1>1. CASE DagRun
  <2>. DEFINE o == Head(todo[Dag])
  <2>1. o \in Ops /\ Tail(todo[Dag]) \in Seq(Ops)
    BY <1>1, HeadAndTail DEF DagRun
  <2>2. Len(todo[Dag]) # 1 => Tail(todo[Dag]) # <<>>
    BY <1>1, HeadAndTail DEF DagRun
  <2>3. PICK l1 \in {"make", "created"}, l2 \in {"run", "sweep"} :
          /\ pc' = [pc EXCEPT ![o] = l1, ![Dag] = l2]
          /\ l2 = "run" => Len(todo[Dag]) # 1
          /\ todo' = [todo EXCEPT ![Dag] = Tail(todo[Dag])]
          /\ UNCHANGED <<config_, queue_, stop_, dag_stop>>
    BY <1>1 DEF DagRun, Done
  <2>. HIDE DEF o
  <2>. QED
    BY <2>1, <2>2, <2>3 DEF WorkerSteps, DagSteps, Publishing, Publishers
<1>2. CASE DagSweep
  BY <1>2, OrderType DEF DagSweep, DagSteps
<1>3. CASE DagJoin
  <2>1. Tail(todo[Dag]) \in Seq(Ops)
    BY <1>3, HeadAndTail DEF DagJoin
  <2>2. Len(todo[Dag]) # 1 => Tail(todo[Dag]) # <<>>
    BY <1>3, HeadAndTail DEF DagJoin
  <2>. QED
    BY <1>3, <2>1, <2>2 DEF DagJoin, Done, DagSteps
<1>4. CASE DagReset
  BY <1>4 DEF DagReset, DagSteps
<1>. QED
  BY <1>1, <1>2, <1>3, <1>4 DEF DagThread

\* The main thread, but for its publishing.
Commanding == Start \/ Shutdown \/ Stop \/ Flag \/ Notify \/ Join

\* What the main thread does besides publishing keeps the types.
LEMMA CommandType ==
    ASSUME Typed, Commanding
    PROVE  Typed'
<1>. USE ThreadsDiffer DEF Typed, Goto
<1>1. CASE Start
  BY <1>1, ReverseType DEF Start, MainSteps, DagSteps, Publishing, Publishers
<1>2. CASE Shutdown
  BY <1>2 DEF Shutdown, MainSteps, Publishing, Publishers
<1>3. CASE Stop
  BY <1>3, OrderType DEF Stop, MainSteps, Publishing, Publishers
<1>4. CASE Flag
  <2>1. PICK label \in {"notify", "push"} : pc' = [pc EXCEPT ![Main] = label]
    BY <1>4 DEF Flag
  <2>2. stop_' \in [Ops -> BOOLEAN]
    BY <1>4 DEF Flag
  <2>3. todo[Main] # <<>>
    BY <1>4 DEF Flag
  <2>. QED
    BY <1>4, <2>1, <2>2, <2>3 DEF Flag, MainSteps, Publishing, Publishers
<1>5. CASE Notify
  <2>. DEFINE o == Head(todo[Main])
  <2>1. o \in Ops /\ Tail(todo[Main]) \in Seq(Ops)
    BY <1>5, HeadAndTail DEF Notify
  <2>2. /\ AfterPublish(Main) \in {"join", "flag"}
        /\ AfterPublish(Main) = "flag" => Tail(todo[Main]) # <<>>
    BY DEF AfterPublish
  <2>3. /\ pc' = [pc EXCEPT ![Main] = AfterPublish(Main), ![o] = Awake(pc[o])]
        /\ todo' = [todo EXCEPT ![Main] = Tail(todo[Main])]
        /\ UNCHANGED <<config_, queue_, stop_, dag_stop>>
    BY <1>5, <2>1 DEF Notify, Done
  <2>4. Awake(pc[o]) \in WorkerSteps /\ (Awake(pc[o]) \in Publishing => pc[o] \in Publishing)
    BY <2>1 DEF Awake, WorkerSteps, Publishing
  <2>. HIDE DEF o
  <2>. QED
    BY <2>1, <2>2, <2>3, <2>4 DEF MainSteps, Publishing, Publishers
<1>6. CASE Join
  BY <1>6 DEF Join, MainSteps, Publishing, Publishers
<1>. QED
  BY <1>1, <1>2, <1>3, <1>4, <1>5, <1>6 DEF Commanding

\* The steps of the system, by who takes them and whether it publishes.
LEMMA NextCases ==
    ASSUME Next
    PROVE  \/ \E t \in Publishers : Publish(t)
           \/ \E o \in Ops : Working(o)
           \/ DagThread
           \/ Commanding
BY DEF Next, MainThread, Worker, Publishers, Working, Commanding

\* In the beginning no thread but the main thread runs.
LEMMA TypedInit == Init => Typed
<1>. SUFFICES ASSUME Init
              PROVE  Typed
  OBVIOUS
<1>1. pc[Main] = "start" /\ pc[Dag] = "none" /\ \A o \in Ops : pc[o] = "none"
  BY ThreadsDiffer DEF Init
<1>2. queue_ \in [Ops -> Seq(Events)] /\ \A o \in Ops : Len(queue_[o]) <= MaxQueue
  BY QueueAssumption DEF Init
<1>3. pc \in [Threads -> WorkerSteps \cup MainSteps \cup DagSteps]
  BY DEF Init, WorkerSteps, MainSteps
<1>4. todo \in [Threads -> Seq(Ops)] /\ stop_ \in [Ops -> BOOLEAN]
  BY DEF Init
<1>5. \A t \in Publishers : pc[t] \notin Publishing
  BY <1>1 DEF Publishers, Publishing
<1>. QED
  BY <1>1, <1>2, <1>3, <1>4, <1>5 DEF Init, Typed, WorkerSteps, MainSteps, DagSteps

\* Every step keeps the types.
LEMMA TypedStep == Typed /\ [Next]_vars => Typed'
<1>1. ASSUME Typed, UNCHANGED vars
      PROVE  Typed'
  BY <1>1 DEF Typed, vars
<1>. QED
  BY <1>1, NextCases, PublishType, WorkingType, DagType, CommandType

\* The types; no queue ever grows beyond its limit, however many publish to it
\* and clear it at the same time.
THEOREM TypeCorrect == Spec => []TypeOK
<1>1. Typed => TypeOK
  BY DEF Typed, TypeOK, Events
<1>. QED
  BY <1>1, TypedInit, TypedStep, PTL DEF Spec

-----------------------------------------------------------------------------
(* Operators are started before they are fed.                              *)

\* How many operators, from the front of the order, are still to be started.
Unstarted ==
    IF pc[Dag] = "none" THEN Len(Order)
    ELSE IF pc[Dag] = "run" THEN Len(todo[Dag]) ELSE 0

\* The DAG thread starts the operators from the back, each of them once.
StartOrder ==
    /\ pc[Main] = "start" <=> pc[Dag] = "none"
    /\ Unstarted \in 0 .. Len(Order)
    /\ pc[Dag] = "run" =>
         \A i \in 1 .. Len(todo[Dag]) : todo[Dag][i] = Order[Len(todo[Dag]) + 1 - i]
    /\ \A i \in 1 .. Len(Order) : pc[Order[i]] = "none" <=> i <= Unstarted

\* A worker feeds only its own downstreams.
FeedsDowns == \A o \in Ops : Elements(todo[o]) \subseteq Elements(Downs(o))

Inv == Typed /\ StartOrder /\ FeedsDowns /\ StartedBeforeFed

\* The place of an operator in the order.
LEMMA PositionType ==
    ASSUME NEW o \in Ops
    PROVE  Position(o) \in 1 .. Len(Order) /\ Order[Position(o)] = o
<1>1. \E i \in DOMAIN Order : Order[i] = o
  BY OrderAssumption DEF Elements
<1>. QED
  BY <1>1, OrderType DEF Position

\* An operator is in front of those it feeds, so they are running when it runs.
LEMMA DownsStarted ==
    ASSUME Typed, StartOrder, NEW o \in Ops, pc[o] # "none", NEW d \in Elements(Downs(o))
    PROVE  d \in Ops /\ pc[d] # "none"
<1>1. d \in Ops
  BY DownsType DEF Elements
<1>2. Position(o) < Position(d)
  BY ConfigAssumption DEF Typed, Downs
<1>3. ~ Position(o) <= Unstarted
  BY PositionType DEF StartOrder
<1>4. ~ Position(d) <= Unstarted
  BY <1>1, <1>2, <1>3, PositionType DEF StartOrder
<1>. QED
  BY <1>1, <1>4, PositionType DEF StartOrder

\* In the beginning nobody is started and nobody fed.
LEMMA InvInit == Init => Inv
<1>. SUFFICES ASSUME Init
              PROVE  Inv
  OBVIOUS
<1>1. Typed
  BY TypedInit
<1>2. pc[Main] = "start" /\ pc[Dag] = "none" /\ \A o \in Ops : pc[o] = "none"
  BY ThreadsDiffer DEF Init
<1>3. StartOrder
  BY <1>2, OrderType DEF StartOrder, Unstarted
<1>4. \A o \in Ops : todo[o] = <<>> /\ queue_[o] = <<>>
  BY ThreadsDiffer DEF Init
<1>5. FeedsDowns /\ StartedBeforeFed
  BY <1>4 DEF FeedsDowns, StartedBeforeFed, Elements
<1>. QED
  BY <1>1, <1>3, <1>5 DEF Inv

\* Only the start and the DAG thread have a part in starting: nobody else starts a
\* worker, nobody unmakes one, and nobody touches the list of the DAG thread.
LEMMA StartedStays ==
    ASSUME Typed,
           \/ \E t \in Publishers : Publish(t)
           \/ \E o \in Ops : Working(o)
           \/ Commanding /\ ~ Start
    PROVE  /\ pc'[Dag] = pc[Dag] /\ todo'[Dag] = todo[Dag]
           /\ \A o \in Ops : pc'[o] = "none" <=> pc[o] = "none"
           /\ pc'[Main] = "start" <=> pc[Main] = "start"
<1>. USE ThreadsDiffer DEF Typed, Goto
<1>1. ASSUME NEW t \in Publishers, Publish(t)
      PROVE  /\ \E label \in WorkerSteps \cup MainSteps :
                  pc' = [pc EXCEPT ![t] = label] /\ label \notin {"none", "start"}
             /\ pc[t] \notin {"none", "start"}
             /\ todo'[Dag] = todo[Dag]
  BY <1>1 DEF Publish, Push, ClearQueue, Retry, Published, Done, AfterPublish, WorkerSteps,
              MainSteps, Publishing
<1>2. ASSUME NEW o \in Ops, Working(o)
      PROVE  /\ \E label \in WorkerSteps : pc' = [pc EXCEPT ![o] = label] /\ label # "none"
             /\ pc[o] # "none"
             /\ todo'[Dag] = todo[Dag]
  BY <1>2 DEF Working, Begin, Pop, Work, Test, Wait, SpuriousWakeup, Woken, Make, Awake,
              WorkerSteps, Publishing
<1>3. ASSUME Commanding, ~ Start
      PROVE  /\ pc'[Dag] = pc[Dag] /\ todo'[Dag] = todo[Dag]
             /\ \A o \in Ops : pc'[o] = "none" <=> pc[o] = "none"
             /\ pc'[Main] # "start" /\ pc[Main] # "start"
  <2>1. CASE Shutdown \/ Stop \/ Flag \/ Join
    BY <2>1 DEF Shutdown, Stop, Flag, Join
  <2>2. CASE Notify
    <3>. DEFINE o == Head(todo[Main])
    <3>1. o \in Ops
      BY <2>2, HeadAndTail DEF Notify
    <3>2. AfterPublish(Main) \in {"join", "flag"}
      BY DEF AfterPublish
    <3>3. /\ pc' = [pc EXCEPT ![Main] = AfterPublish(Main), ![o] = Awake(pc[o])]
          /\ pc[Main] = "notify" /\ todo'[Dag] = todo[Dag]
      BY <2>2, <3>1 DEF Notify, Done
    <3>4. Awake(pc[o]) = "none" <=> pc[o] = "none"
      BY DEF Awake
    <3>. HIDE DEF o
    <3>. QED
      BY <3>1, <3>2, <3>3, <3>4
  <2>. QED
    BY <1>3, <2>1, <2>2 DEF Commanding
<1>4. CASE \E t \in Publishers : Publish(t)
  BY <1>1, <1>4
<1>5. CASE \E o \in Ops : Working(o)
  BY <1>2, <1>5
<1>. QED
  BY <1>3, <1>4, <1>5

\* The start hands the DAG thread the order from behind.
LEMMA StartStep ==
    ASSUME Typed, StartOrder, Start
    PROVE  StartOrder'
<1>. USE ThreadsDiffer DEF Typed, Goto
<1>1. pc[Dag] = "none" /\ Unstarted = Len(Order)
  BY DEF StartOrder, Start, Unstarted
<1>2. /\ pc'[Main] = "shutdown" /\ pc'[Dag] = "run" /\ todo'[Dag] = Reverse(Order)
      /\ \A o \in Ops : pc'[o] = pc[o]
  BY DEF Start
<1>3. Unstarted' = Len(Order)
  BY <1>2, ReverseType DEF Unstarted
<1>4. \A i \in 1 .. Len(Order) : Order[i] \in Ops
  BY OrderType
<1>. QED
  BY <1>1, <1>2, <1>3, <1>4, ReverseType, OrderType DEF StartOrder

\* The DAG thread starts the last operator that is not started.
LEMMA RunStep ==
    ASSUME Typed, StartOrder, DagRun
    PROVE  /\ StartOrder'
           /\ \A o \in Ops : pc[o] # "none" => pc'[o] # "none"
           /\ \A o \in Ops : todo'[o] = todo[o]
<1>. DEFINE n == Len(todo[Dag])
            o == Head(todo[Dag])
<1>. USE ThreadsDiffer
<1>1. pc[Dag] = "run" /\ Unstarted = n /\ todo[Dag] # <<>> /\ todo[Dag] \in Seq(Ops)
  BY DEF Typed, DagRun, Unstarted
<1>2. /\ n \in 1 .. Len(Order) /\ o = Order[n] /\ o \in Ops
      /\ Len(Tail(todo[Dag])) = n - 1
      /\ \A i \in 1 .. n - 1 : Tail(todo[Dag])[i] = Order[n - i]
  <2>1. n \in Nat \ {0} /\ n <= Len(Order) /\ Len(Order) \in Nat
    BY <1>1, HeadAndTail, OrderType DEF StartOrder
  <2>2. \A i \in 1 .. n : todo[Dag][i] = Order[n + 1 - i]
    BY <1>1 DEF StartOrder
  <2>3. /\ o = todo[Dag][1] /\ o \in Ops /\ Len(Tail(todo[Dag])) = n - 1
        /\ \A i \in 1 .. n - 1 : Tail(todo[Dag])[i] = todo[Dag][i + 1]
    BY <1>1, HeadAndTail
  <2>. HIDE DEF n, o
  <2>4. o = Order[n]
    BY <2>1, <2>2, <2>3
  <2>5. ASSUME NEW i \in 1 .. n - 1
        PROVE  Tail(todo[Dag])[i] = Order[n - i]
    <3>1. i + 1 \in 1 .. n /\ n + 1 - (i + 1) = n - i
      BY <2>1
    <3>. QED
      BY <2>2, <2>3, <3>1
  <2>. QED
    BY <2>1, <2>3, <2>4, <2>5
<1>3. /\ pc'[Dag] = (IF n = 1 THEN "sweep" ELSE "run")
      /\ pc'[o] \in {"make", "created"} /\ pc'[Main] = pc[Main]
      /\ \A p \in Ops \ {o} : pc'[p] = pc[p]
      /\ todo'[Dag] = Tail(todo[Dag]) /\ \A p \in Ops : todo'[p] = todo[p]
  BY <1>1, <1>2 DEF DagRun, Done, Typed
<1>. HIDE DEF n, o
<1>4. Unstarted' = n - 1
  BY <1>2, <1>3 DEF Unstarted
<1>5. ASSUME NEW i \in 1 .. Len(Order)
      PROVE  pc'[Order[i]] = "none" <=> i <= n - 1
  <2>1. Order[i] \in Ops /\ (Order[i] = o <=> i = n)
    BY <1>2, OrderAssumption, OrderType
  <2>2. pc[Order[i]] = "none" <=> i <= n
    BY <1>1 DEF StartOrder
  <2>. QED
    BY <1>2, <1>3, <2>1, <2>2, OrderType
<1>6. (pc'[Main] = "start" <=> pc'[Dag] = "none") /\ Unstarted' \in 0 .. Len(Order)
  BY <1>1, <1>2, <1>3, <1>4, OrderType DEF StartOrder
<1>7. pc'[Dag] = "run" => \A i \in 1 .. Len(todo'[Dag]) :
                           todo'[Dag][i] = Order[Len(todo'[Dag]) + 1 - i]
  <2>1. Len(todo'[Dag]) = n - 1 /\ n - 1 + 1 = n
    BY <1>2, <1>3, OrderType
  <2>. QED
    BY <1>2, <1>3, <2>1
<1>. QED
  BY <1>3, <1>4, <1>5, <1>6, <1>7 DEF StartOrder

\* The DAG thread, once all are started, and the steps of the others.
LEMMA StartOrderStep ==
    ASSUME Inv, Next
    PROVE  StartOrder' /\ \A o \in Ops : pc[o] # "none" => pc'[o] # "none"
<1>. USE DEF Inv
<1>1. CASE \/ \E t \in Publishers : Publish(t)
           \/ \E o \in Ops : Working(o)
           \/ Commanding /\ ~ Start
  <2>1. /\ pc'[Dag] = pc[Dag] /\ todo'[Dag] = todo[Dag]
        /\ \A o \in Ops : pc'[o] = "none" <=> pc[o] = "none"
        /\ pc'[Main] = "start" <=> pc[Main] = "start"
    BY <1>1, StartedStays
  <2>2. Unstarted' = Unstarted
    BY <2>1 DEF Unstarted
  <2>3. \A i \in 1 .. Len(Order) : Order[i] \in Ops
    BY OrderType
  <2>. QED
    BY <2>1, <2>2, <2>3 DEF StartOrder
<1>2. CASE Start
  BY <1>2, StartStep, ThreadsDiffer DEF Start, Typed
<1>3. CASE DagRun
  BY <1>3, RunStep
<1>4. CASE DagSweep \/ DagJoin \/ DagReset
  <2>1. /\ pc[Dag] \notin {"none", "run"} /\ pc'[Dag] \notin {"none", "run"}
        /\ pc'[Main] = pc[Main] /\ \A o \in Ops : pc'[o] = pc[o]
    BY <1>4, ThreadsDiffer DEF DagSweep, DagJoin, DagReset, Goto, Typed
  <2>2. Unstarted' = 0 /\ Unstarted = 0
    BY <2>1 DEF Unstarted
  <2>3. \A i \in 1 .. Len(Order) : Order[i] \in Ops
    BY OrderType
  <2>. QED
    BY <2>1, <2>2, <2>3 DEF StartOrder
<1>. QED
  BY <1>1, <1>2, <1>3, <1>4, NextCases DEF DagThread, Commanding

\* A list only gets shorter, or is that of the downstreams.
LEMMA FeedsStep ==
    ASSUME Inv, Next
    PROVE  FeedsDowns'
<1>. USE ThreadsDiffer DEF Inv, Typed
<1>1. config_' = config_
  BY DEF Next, MainThread, DagThread, Worker, Publish, Begin, Pop, Work, Test, Wait,
         SpuriousWakeup, Woken, Make, Start, Shutdown, Stop, Flag, Notify, Join, DagRun,
         DagSweep, DagJoin, DagReset, Push, ClearQueue, Retry, Published
<1>2. ASSUME NEW o \in Ops
      PROVE  \/ todo'[o] = todo[o]
             \/ todo'[o] = Downs(o)
             \/ todo[o] # <<>> /\ todo'[o] = Tail(todo[o])
  <2>1. ASSUME NEW t \in Publishers, Publish(t)
        PROVE  todo'[o] = todo[o] \/ (todo[o] # <<>> /\ todo'[o] = Tail(todo[o]))
    <3>1. /\ todo[t] # <<>>
          /\ todo' = todo \/ todo' = [todo EXCEPT ![t] = Tail(todo[t])]
      BY <2>1 DEF Publish, Push, ClearQueue, Retry, Published, Done, Publishing
    <3>. QED
      BY <3>1
  <2>2. ASSUME NEW p \in Ops, Working(p)
        PROVE  todo'[o] = todo[o] \/ todo'[o] = Downs(o)
    BY <2>2 DEF Working, Begin, Pop, Work, Test, Wait, SpuriousWakeup, Woken, Make
  <2>3. CASE DagThread
    BY <2>3 DEF DagThread, DagRun, DagSweep, DagJoin, DagReset, Done
  <2>4. CASE Commanding
    BY <2>4 DEF Commanding, Start, Shutdown, Stop, Flag, Notify, Join, Done
  <2>. QED
    BY <2>1, <2>2, <2>3, <2>4, NextCases
<1>3. ASSUME NEW o \in Ops
      PROVE  Elements(todo'[o]) \subseteq Elements(Downs(o))
  <2>1. Elements(todo[o]) \subseteq Elements(Downs(o))
    BY DEF FeedsDowns
  <2>2. todo[o] # <<>> => Elements(Tail(todo[o])) \subseteq Elements(todo[o])
    BY TailElements
  <2>. QED
    BY <1>2, <2>1, <2>2
<1>. QED
  BY <1>1, <1>3 DEF FeedsDowns, Downs

\* Data comes only from a worker, which feeds operators that run already; the
\* events of the main thread are no data.
LEMMA FedStep ==
    ASSUME Inv, Next
    PROVE  StartedBeforeFed'
<1>. USE ThreadsDiffer DEF Inv, Typed
<1>1. SUFFICES ASSUME NEW o \in Ops, "data" \in Elements(queue_'[o])
               PROVE  pc[o] # "none"
  BY StartOrderStep DEF StartedBeforeFed
<1>2. CASE "data" \in Elements(queue_[o])
  BY <1>2 DEF StartedBeforeFed
<1>3. ASSUME NEW t \in Publishers, Publish(t), "data" \notin Elements(queue_[o])
      PROVE  pc[o] # "none"
  <2>. DEFINE d == Head(todo[t])
  <2>1. todo[t] # <<>> /\ pc[t] # "none"
    BY <1>3 DEF Publish, Push, ClearQueue, Retry, Publishing
  <2>2. d \in Ops /\ d \in Elements(todo[t])
    BY <2>1, HeadAndTail DEF Elements
  <2>3. Put(d, Event(t)) \/ queue_' = queue_ \/ queue_' = [queue_ EXCEPT ![d] = <<>>]
    BY <1>3 DEF Publish, Push, ClearQueue, Retry
  <2>4. Elements(<<>>) = {}
    BY DEF Elements
  <2>5. Event(t) \in Events
    BY DEF Event, Events
  <2>6. Elements(Append(queue_[o], Event(t))) = Elements(queue_[o]) \cup {Event(t)}
    BY <2>5, AppendElements
  <2>. HIDE DEF d
  <2>7. o = d /\ Event(t) = "data"
    <3>1. o # d => queue_'[o] = queue_[o]
      BY <2>3 DEF Put
    <3>2. o = d => queue_'[o] \in {Append(queue_[o], Event(t)), queue_[o], <<>>}
      BY <2>3 DEF Put
    <3>. QED
      BY <1>1, <1>3, <2>4, <2>6, <3>1, <3>2
  <2>8. t \in Ops
    BY <2>7 DEF Event, Publishers
  <2>9. o \in Elements(Downs(t))
    BY <2>2, <2>7, <2>8 DEF FeedsDowns
  <2>. QED
    BY <2>1, <2>8, <2>9, DownsStarted
<1>4. ASSUME NEW p \in Ops, Working(p), "data" \notin Elements(queue_[o])
      PROVE  FALSE
  <2>1. queue_[o] \in Seq(Events)
    OBVIOUS
  <2>2. queue_'[o] = queue_[o] \/ (queue_[o] # <<>> /\ queue_'[o] = Tail(queue_[o]))
    BY <1>4 DEF Working, Begin, Pop, Work, Test, Wait, SpuriousWakeup, Woken, Make
  <2>3. queue_[o] # <<>> => Elements(Tail(queue_[o])) \subseteq Elements(queue_[o])
    BY <2>1, TailElements
  <2>. QED
    BY <1>1, <1>4, <2>2, <2>3
<1>5. CASE DagThread \/ Commanding
  <2>1. queue_' = queue_
    BY <1>5 DEF DagThread, DagRun, DagSweep, DagJoin, DagReset, Commanding, Start, Shutdown,
                Stop, Flag, Notify, Join
  <2>. QED
    BY <1>1, <1>2, <2>1
<1>. QED
  BY <1>2, <1>3, <1>4, <1>5, NextCases

\* Every step keeps the invariant.
LEMMA InvStep == Inv /\ [Next]_vars => Inv'
<1>. SUFFICES ASSUME Inv, [Next]_vars
              PROVE  Inv'
  OBVIOUS
<1>1. CASE Next
  BY <1>1, TypedStep, StartOrderStep, FeedsStep, FedStep DEF Inv
<1>2. CASE UNCHANGED vars
  BY <1>2, TypedStep
     DEF Inv, vars, StartOrder, Unstarted, FeedsDowns, Downs, StartedBeforeFed
<1>. QED
  BY <1>1, <1>2

\* The invariant holds in every reachable state.
THEOREM Invariance == Spec => []Inv
BY InvInit, InvStep, PTL DEF Spec

\* For every graph and order, data waits only in front of operators that have been
\* started, however far the start has come and whoever publishes meanwhile.
THEOREM NobodyFedBeforeStarted == Spec => []StartedBeforeFed
BY Invariance, PTL DEF Inv
=============================================================================
