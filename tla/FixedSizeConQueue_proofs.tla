---------------------- MODULE FixedSizeConQueue_proofs ----------------------
(***************************************************************************)
(* Proofs about FixedSizeConQueue for every number of threads, every       *)
(* capacity and every assignment of methods to threads that keeps the      *)
(* stated discipline.                                                      *)
(***************************************************************************)
EXTENDS FixedSizeConQueue, FiniteSetTheorems, TLAPS

-----------------------------------------------------------------------------
(* What notify_one does to a wait set, and to the threads that contend.    *)

\* A notification takes at most one sleeper out of the wait set, and takes one
\* whenever there is one.
LEMMA NotifyOneFact ==
    ASSUME NEW cv, NEW new \in NotifyOne(cv)
    PROVE  /\ new \subseteq cv
           /\ cv = {} => new = {}
           /\ cv # {} => \E w \in cv : new = cv \ {w}
BY DEF NotifyOne

\* Sets of contending threads are finite, so they can be counted.
LEMMA ContendingFinite ==
    ASSUME NEW o
    PROVE  /\ IsFiniteSet(Contending(o)) /\ Cardinality(Contending(o)) \in Nat
           /\ IsFiniteSet(Contending(o)') /\ Cardinality(Contending(o)') \in Nat
<1>1. Contending(o) \in SUBSET Threads /\ Contending(o)' \in SUBSET Threads
  BY DEF Contending
<1>2. IsFiniteSet(Contending(o)) /\ IsFiniteSet(Contending(o)')
  BY <1>1, ThreadsAssumption, FS_Subset
<1>. QED
  BY <1>2, FS_CardinalityType

\* A step that stops nobody from contending leaves no fewer contenders.
LEMMA ContendingMonotone ==
    ASSUME NEW o, Contending(o) \subseteq Contending(o)'
    PROVE  Cardinality(Contending(o)) <= Cardinality(Contending(o)')
BY ContendingFinite, FS_Subset

\* A step that stops only t leaves at most one fewer.
LEMMA ContendingLosesOne ==
    ASSUME NEW o, NEW t, Contending(o) \ {t} \subseteq Contending(o)'
    PROVE  Cardinality(Contending(o)) - 1 <= Cardinality(Contending(o)')
<1>0. /\ IsFiniteSet(Contending(o) \ {t})
      /\ Cardinality(Contending(o) \ {t}) =
           IF t \in Contending(o) THEN Cardinality(Contending(o)) - 1
                                  ELSE Cardinality(Contending(o))
  BY ContendingFinite, FS_RemoveElement
<1>1. /\ IsFiniteSet(Contending(o) \ {t})
      /\ Cardinality(Contending(o) \ {t}) >= Cardinality(Contending(o)) - 1
  BY <1>0, ContendingFinite
<1>2. Cardinality(Contending(o) \ {t}) <= Cardinality(Contending(o)')
  BY ContendingFinite, FS_Subset
<1>3. Cardinality(Contending(o) \ {t}) \in Nat
  BY <1>1, FS_CardinalityType
<1>. QED
  BY <1>1, <1>2, <1>3, ContendingFinite

\* A step that adds w leaves at least one more.
LEMMA ContendingGainsOne ==
    ASSUME NEW o, NEW w, w \notin Contending(o),
           Contending(o) \cup {w} \subseteq Contending(o)'
    PROVE  Cardinality(Contending(o)) + 1 <= Cardinality(Contending(o)')
<1>1. /\ IsFiniteSet(Contending(o) \cup {w})
      /\ Cardinality(Contending(o) \cup {w}) = Cardinality(Contending(o)) + 1
  BY ContendingFinite, FS_AddElement
<1>2. Cardinality(Contending(o) \cup {w}) <= Cardinality(Contending(o)')
  BY ContendingFinite, FS_Subset
<1>. QED
  BY <1>1, <1>2

-----------------------------------------------------------------------------
(* Types.                                                                  *)

\* A body keeps the types: the queue never holds more than MaxCount elements,
\* and only callers of pop, front (of push) sleep on cv_ (on cv_full_).
LEMMA TypeStep ==
    ASSUME TypeOK, [Next]_vars
    PROVE  TypeOK'
<1>. USE MaxCountAssumption, RolesAssumption DEF TypeOK
<1>1. CASE UNCHANGED vars
  BY <1>1 DEF vars
<1>2. ASSUME NEW t \in Threads, Call(t)
      PROVE  TypeOK'
  <2>1. PICK o \in role[t] :
          /\ op' = [op EXCEPT ![t] = o]
          /\ \E d \in IF o \in {"push", "try_push"} THEN Data ELSE {NoData} :
               arg' = [arg EXCEPT ![t] = d]
    BY <1>2 DEF Call
  <2>2. o \in Operation
    BY DEF Operation
  <2>. QED
    BY <1>2, <2>1, <2>2 DEF Call
<1>3. ASSUME NEW t \in Threads, ~Full, Enqueue(t), op[t] \in {"push", "try_push"},
             t \notin cv_ \cup cv_full_
      PROVE  TypeOK'
  <2>1. queue_' \in Seq(Data) /\ Len(queue_') <= MaxCount
    BY <1>3 DEF Enqueue, Full
  <2>2. cv_' \subseteq cv_
    BY <1>3, NotifyOneFact DEF Enqueue
  <2>. QED
    BY <1>3, <2>1, <2>2 DEF Enqueue, Return
<1>4. ASSUME NEW t \in Threads, ~Empty, Dequeue(t), op[t] \in {"pop", "try_pop"},
             t \notin cv_ \cup cv_full_
      PROVE  TypeOK'
  <2>1. /\ queue_' \in Seq(Data) /\ Len(queue_') <= MaxCount
        /\ Head(queue_) \in Data
    BY <1>4 DEF Dequeue, Empty
  <2>2. cv_full_' \subseteq cv_full_
    BY <1>4, NotifyOneFact DEF Dequeue
  <2>. QED
    BY <1>4, <2>1, <2>2 DEF Dequeue, Return
<1>5. ASSUME NEW t \in Threads, Body(t)
      PROVE  TypeOK'
  <2>1. CASE Push(t) \/ TryPush(t)
    BY <1>3, <2>1 DEF Push, TryPush, Acquires
  <2>2. CASE Pop(t) \/ TryPop(t)
    BY <1>4, <2>2 DEF Pop, TryPop, Acquires
  <2>3. CASE PushWait(t) \/ PopWait(t) \/ FrontWait(t)
    BY <2>3 DEF PushWait, PopWait, FrontWait, Acquires
  <2>4. CASE TryPushFull(t) \/ TryPopEmpty(t)
    BY <2>4 DEF TryPushFull, TryPopEmpty, Acquires, Return
  <2>5. CASE Front(t)
    <3>1. Head(queue_) \in Data
      BY <2>5 DEF Front, Empty
    <3>. QED
      BY <2>5, <3>1 DEF Front, Acquires, Return
  <2>6. CASE Clear(t)
    BY <2>6 DEF Clear, Acquires, Return
  <2>. QED
    BY <1>5, <2>1, <2>2, <2>3, <2>4, <2>5, <2>6 DEF Body
<1>6. ASSUME NEW t \in Threads, SpuriousWakeup(t)
      PROVE  TypeOK'
  BY <1>6 DEF SpuriousWakeup
<1>. QED
  BY <1>1, <1>2, <1>5, <1>6 DEF Next

\* The types hold in every reachable state; in particular the queue never
\* exceeds max_count_.
THEOREM TypeCorrect == Spec => []TypeOK
<1>1. Init => TypeOK
  BY MaxCountAssumption, RolesAssumption DEF Init, TypeOK
<1>. QED
  BY <1>1, TypeStep, PTL DEF Spec
-----------------------------------------------------------------------------
(* No consumer misses its wake-up.                                         *)

\* Under the discipline, every step keeps one contending pop per element while
\* anybody sleeps on cv_.
LEMMA ConsumersStep ==
    ASSUME PeekDiscipline, TypeOK, ConsumersSignalled, [Next]_vars
    PROVE  ConsumersSignalled'
<1>. SUFFICES ASSUME cv_' # {}
              PROVE  Len(queue_') <= Cardinality(Contending("pop")')
  BY DEF ConsumersSignalled
<1>. USE DEF TypeOK
<1>0. /\ Len(queue_) \in Nat
      /\ Cardinality(Contending("pop")) \in Nat
      /\ Cardinality(Contending("pop")') \in Nat
  BY ContendingFinite
<1>1. CASE UNCHANGED vars
  <2>1. Contending("pop") \subseteq Contending("pop")'
    BY <1>1 DEF vars, Contending, Acquires
  <2>. QED
    BY <1>0, <1>1, <2>1, ContendingMonotone DEF vars, ConsumersSignalled
<1>2. ASSUME NEW t \in Threads, Call(t) \/ SpuriousWakeup(t)
      PROVE  Len(queue_') <= Cardinality(Contending("pop")')
  <2>1. Contending("pop") \subseteq Contending("pop")'
    BY <1>2 DEF Call, SpuriousWakeup, Contending, Acquires
  <2>2. cv_ # {} /\ queue_' = queue_
    BY <1>2 DEF Call, SpuriousWakeup
  <2>. QED
    BY <1>0, <2>1, <2>2, ContendingMonotone DEF ConsumersSignalled
<1>3. ASSUME NEW t \in Threads, Push(t) \/ TryPush(t)
      PROVE  Len(queue_') <= Cardinality(Contending("pop")')
  <2>1. /\ cv_' \in NotifyOne(cv_) /\ cv_full_' = cv_full_
        /\ op' = [op EXCEPT ![t] = "none"]
        /\ op[t] \in {"push", "try_push"}
        /\ Len(queue_') = Len(queue_) + 1
    BY <1>3 DEF Push, TryPush, Enqueue, Return, Acquires
  <2>2. PICK w \in cv_ : cv_' = cv_ \ {w}
    BY <2>1, NotifyOneFact
  <2>3. op[w] = "pop"
    <3>1. PICK u \in cv_ : u # w
      BY <2>2
    <3>2. op[w] \in role[w] /\ op[u] \in role[u] /\ op[u] \in {"pop", "front"}
      OBVIOUS
    <3>. QED
      BY <3>1, <3>2 DEF PeekDiscipline
  <2>4. w \notin Contending("pop")
    BY DEF Contending, Acquires
  <2>5. Contending("pop") \cup {w} \subseteq Contending("pop")'
    BY <2>1, <2>2, <2>3 DEF Contending, Acquires
  <2>. QED
    BY <1>0, <2>1, <2>2, <2>4, <2>5, ContendingGainsOne DEF ConsumersSignalled
<1>4. ASSUME NEW t \in Threads, Pop(t) \/ TryPop(t)
      PROVE  Len(queue_') <= Cardinality(Contending("pop")')
  <2>1. /\ cv_' = cv_ /\ cv_full_' \in NotifyOne(cv_full_)
        /\ op' = [op EXCEPT ![t] = "none"]
        /\ Len(queue_') = Len(queue_) - 1
    BY <1>4 DEF Pop, TryPop, Dequeue, Return, Empty
  <2>2. Contending("pop") \ {t} \subseteq Contending("pop")'
    BY <2>1, NotifyOneFact DEF Contending, Acquires
  <2>3. Cardinality(Contending("pop")) - 1 <= Cardinality(Contending("pop")')
    BY <2>2, ContendingLosesOne
  <2>. QED
    BY <1>0, <2>1, <2>3 DEF ConsumersSignalled
<1>5. ASSUME NEW t \in Threads, PopWait(t) \/ FrontWait(t)
      PROVE  Len(queue_') <= Cardinality(Contending("pop")')
  <2>1. Len(queue_') = 0
    BY <1>5 DEF PopWait, FrontWait, Empty
  <2>. QED
    BY <1>0, <2>1
<1>6. ASSUME NEW t \in Threads,
             PushWait(t) \/ TryPushFull(t) \/ TryPopEmpty(t) \/ Front(t)
      PROVE  Len(queue_') <= Cardinality(Contending("pop")')
  <2>1. cv_' = cv_ /\ queue_' = queue_
    BY <1>6 DEF PushWait, TryPushFull, TryPopEmpty, Front
  <2>2. Contending("pop") \subseteq Contending("pop")'
    BY <1>6 DEF PushWait, TryPushFull, TryPopEmpty, Front, Return,
                Contending, Acquires
  <2>. QED
    BY <1>0, <2>1, <2>2, ContendingMonotone DEF ConsumersSignalled
<1>7. ASSUME NEW t \in Threads, Clear(t)
      PROVE  Len(queue_') <= Cardinality(Contending("pop")')
  <2>1. Len(queue_') = 0
    BY <1>7 DEF Clear
  <2>. QED
    BY <1>0, <2>1
<1>. QED
  BY <1>1, <1>2, <1>3, <1>4, <1>5, <1>6, <1>7 DEF Next, Body

\* For every capacity and every number of threads: as long as a thread that
\* calls front is the only one to wait for elements, no sleeping consumer is
\* left behind by an element that was pushed.
THEOREM NoLostConsumer ==
    ASSUME PeekDiscipline
    PROVE  Spec => []ConsumersSignalled
<1>1. Init => ConsumersSignalled
  BY DEF Init, ConsumersSignalled
<1>2. PeekDiscipline /\ TypeOK /\ ConsumersSignalled /\ [Next]_vars
        => ConsumersSignalled'
  BY ConsumersStep
<1>. QED
  BY <1>1, <1>2, TypeCorrect, PTL DEF Spec

-----------------------------------------------------------------------------
(* No producer misses its wake-up.                                         *)

\* As long as no thread clears while others may wait for room, every step keeps
\* one contending push per free place while anybody sleeps on cv_full_.
LEMMA ProducersStep ==
    ASSUME ClearDiscipline, TypeOK, ProducersSignalled, [Next]_vars
    PROVE  ProducersSignalled'
<1>. SUFFICES ASSUME cv_full_' # {}
              PROVE  MaxCount - Len(queue_') <= Cardinality(Contending("push")')
  BY DEF ProducersSignalled
<1>. USE MaxCountAssumption DEF TypeOK
<1>0. /\ Len(queue_) \in Nat
      /\ Cardinality(Contending("push")) \in Nat
      /\ Cardinality(Contending("push")') \in Nat
  BY ContendingFinite
<1>1. CASE UNCHANGED vars
  <2>1. Contending("push") \subseteq Contending("push")'
    BY <1>1 DEF vars, Contending, Acquires
  <2>. QED
    BY <1>0, <1>1, <2>1, ContendingMonotone DEF vars, ProducersSignalled
<1>2. ASSUME NEW t \in Threads, Call(t) \/ SpuriousWakeup(t)
      PROVE  MaxCount - Len(queue_') <= Cardinality(Contending("push")')
  <2>1. Contending("push") \subseteq Contending("push")'
    BY <1>2 DEF Call, SpuriousWakeup, Contending, Acquires
  <2>2. cv_full_ # {} /\ queue_' = queue_
    BY <1>2 DEF Call, SpuriousWakeup
  <2>. QED
    BY <1>0, <2>1, <2>2, ContendingMonotone DEF ProducersSignalled
<1>3. ASSUME NEW t \in Threads, Push(t) \/ TryPush(t)
      PROVE  MaxCount - Len(queue_') <= Cardinality(Contending("push")')
  <2>1. /\ cv_full_' = cv_full_ /\ cv_' \in NotifyOne(cv_)
        /\ op' = [op EXCEPT ![t] = "none"]
        /\ Len(queue_') = Len(queue_) + 1
    BY <1>3 DEF Push, TryPush, Enqueue, Return, Acquires
  <2>2. Contending("push") \ {t} \subseteq Contending("push")'
    BY <2>1, NotifyOneFact DEF Contending, Acquires
  <2>3. Cardinality(Contending("push")) - 1 <= Cardinality(Contending("push")')
    BY <2>2, ContendingLosesOne
  <2>. QED
    BY <1>0, <2>1, <2>3 DEF ProducersSignalled
<1>4. ASSUME NEW t \in Threads, Pop(t) \/ TryPop(t)
      PROVE  MaxCount - Len(queue_') <= Cardinality(Contending("push")')
  <2>1. /\ cv_full_' \in NotifyOne(cv_full_) /\ cv_' = cv_
        /\ op' = [op EXCEPT ![t] = "none"] /\ op[t] \in {"pop", "try_pop"}
        /\ Len(queue_') = Len(queue_) - 1
    BY <1>4 DEF Pop, TryPop, Dequeue, Return, Empty, Acquires
  <2>2. PICK w \in cv_full_ : cv_full_' = cv_full_ \ {w}
    BY <2>1, NotifyOneFact
  <2>3. w \notin Contending("push")
    BY DEF Contending, Acquires
  <2>4. Contending("push") \cup {w} \subseteq Contending("push")'
    BY <2>1, <2>2 DEF Contending, Acquires
  <2>5. Cardinality(Contending("push")) + 1 <= Cardinality(Contending("push")')
    BY <2>3, <2>4, ContendingGainsOne
  <2>. QED
    BY <1>0, <2>1, <2>2, <2>5 DEF ProducersSignalled
<1>5. ASSUME NEW t \in Threads, PushWait(t)
      PROVE  MaxCount - Len(queue_') <= Cardinality(Contending("push")')
  <2>1. queue_' = queue_ /\ Len(queue_) >= MaxCount
    BY <1>5 DEF PushWait, Full
  <2>. QED
    BY <1>0, <2>1
<1>6. ASSUME NEW t \in Threads,
             \/ PopWait(t) \/ FrontWait(t) \/ TryPushFull(t)
             \/ TryPopEmpty(t) \/ Front(t)
      PROVE  MaxCount - Len(queue_') <= Cardinality(Contending("push")')
  <2>1. cv_full_' = cv_full_ /\ queue_' = queue_
    BY <1>6 DEF PopWait, FrontWait, TryPushFull, TryPopEmpty, Front
  <2>2. Contending("push") \subseteq Contending("push")'
    BY <1>6 DEF PopWait, FrontWait, TryPushFull, TryPopEmpty, Front, Return,
                Contending, Acquires
  <2>. QED
    BY <1>0, <2>1, <2>2, ContendingMonotone DEF ProducersSignalled
<1>7. ASSUME NEW t \in Threads, Clear(t)
      PROVE  FALSE
  <2>1. PICK u \in cv_full_ : op[u] = "push"
    BY <1>7 DEF Clear
  <2>2. "push" \in role[u] /\ "clear" \in role[t]
    BY <1>7, <2>1 DEF Clear, Acquires
  <2>. QED
    BY <1>7, <2>2 DEF ClearDiscipline
<1>. QED
  BY <1>1, <1>2, <1>3, <1>4, <1>5, <1>6, <1>7 DEF Next, Body

\* For every capacity and every number of threads: if no thread clears a queue
\* on which others block for room, no sleeping producer is left behind by a
\* place that became free.
THEOREM NoLostProducer ==
    ASSUME ClearDiscipline
    PROVE  Spec => []ProducersSignalled
<1>1. Init => ProducersSignalled
  BY DEF Init, ProducersSignalled
<1>2. ClearDiscipline /\ TypeOK /\ ProducersSignalled /\ [Next]_vars
        => ProducersSignalled'
  BY ProducersStep
<1>. QED
  BY <1>1, <1>2, TypeCorrect, PTL DEF Spec

\* Under both disciplines, a thread is asleep in a moment of rest only for the
\* reason the comments give: the queue is empty, or full.
THEOREM BlockedAsDocumented ==
    ASSUME PeekDiscipline, ClearDiscipline
    PROVE  Spec => [](BlockedOnlyWhenEmpty /\ BlockedOnlyWhenFull)
<1>1. TypeOK /\ ConsumersSignalled /\ ProducersSignalled
        => BlockedOnlyWhenEmpty /\ BlockedOnlyWhenFull
  <2>. SUFFICES ASSUME TypeOK, ConsumersSignalled, ProducersSignalled, Quiescent
                PROVE  (cv_ # {} => Empty) /\ (cv_full_ # {} => Full)
    BY DEF BlockedOnlyWhenEmpty, BlockedOnlyWhenFull
  <2>1. Contending("pop") = {} /\ Contending("push") = {}
    BY DEF Quiescent, Contending, Acquires
  <2>2. /\ Cardinality(Contending("pop")) = 0
        /\ Cardinality(Contending("push")) = 0
    BY <2>1, FS_EmptySet
  <2>3. cv_ # {} => Empty
    <3>1. cv_ # {} => Len(queue_) <= 0
      BY <2>2 DEF ConsumersSignalled
    <3>. QED
      BY <3>1 DEF TypeOK, Empty
  <2>4. cv_full_ # {} => Full
    <3>1. cv_full_ # {} => MaxCount - Len(queue_) <= 0
      BY <2>2 DEF ProducersSignalled
    <3>2. Len(queue_) \in Nat
      BY DEF TypeOK
    <3>. QED
      BY <3>1, <3>2, MaxCountAssumption DEF Full
  <2>. QED
    BY <2>3, <2>4
<1>. QED
  BY <1>1, TypeCorrect, NoLostConsumer, NoLostProducer, PTL

-----------------------------------------------------------------------------
(* The safety half of the refinement of BlockingQueue.                     *)

\* Every step of the monitor is a step of the queue without condition variables,
\* or changes nothing of it (a wait, a spurious wake-up).
LEMMA PromiseStep ==
    ASSUME TypeOK, [Next]_vars
    PROVE  [Promise!Next]_(Promise!vars)
<1>. USE DEF TypeOK, Promise!vars
<1>1. CASE UNCHANGED vars
  BY <1>1 DEF vars
<1>2. ASSUME NEW t \in Threads, Call(t)
      PROVE  Promise!Next
  <2>1. Promise!Call(t)
    BY <1>2 DEF Call, Promise!Call
  <2>. QED
    BY <2>1 DEF Promise!Next
<1>3. ASSUME NEW t \in Threads, SpuriousWakeup(t) \/ PushWait(t) \/ PopWait(t)
                                 \/ FrontWait(t)
      PROVE  UNCHANGED Promise!vars
  BY <1>3 DEF SpuriousWakeup, PushWait, PopWait, FrontWait
<1>4. ASSUME NEW t \in Threads, Push(t) \/ TryPush(t)
      PROVE  Promise!Next
  <2>1. Len(queue_) < MaxCount
    BY <1>4, MaxCountAssumption DEF Push, TryPush, Full
  <2>2. Promise!Insert(t, op[t]) /\ op[t] \in {"push", "try_push"}
    BY <1>4, <2>1 DEF Push, TryPush, Acquires, Enqueue, Return,
                      Promise!Insert, Promise!Return
  <2>. QED
    BY <2>2 DEF Promise!Next, Promise!Produce, Promise!Immediate
<1>5. ASSUME NEW t \in Threads, Pop(t) \/ TryPop(t)
      PROVE  Promise!Next
  <2>1. Promise!Remove(t, op[t]) /\ op[t] \in {"pop", "try_pop"}
    BY <1>5 DEF Pop, TryPop, Acquires, Dequeue, Return, Empty,
                Promise!Remove, Promise!Return
  <2>. QED
    BY <2>1 DEF Promise!Next, Promise!Consume, Promise!Immediate
<1>6. ASSUME NEW t \in Threads, Front(t)
      PROVE  Promise!Next
  <2>1. Promise!Peek(t)
    BY <1>6 DEF Front, Acquires, Return, Empty, Promise!Peek, Promise!Return
  <2>. QED
    BY <2>1 DEF Promise!Next, Promise!Consume
<1>7. ASSUME NEW t \in Threads, TryPushFull(t) \/ TryPopEmpty(t)
      PROVE  Promise!Next
  <2>1. Promise!Fail(t)
    BY <1>7 DEF TryPushFull, TryPopEmpty, Acquires, Return, Full, Empty,
                Promise!Fail, Promise!Return
  <2>. QED
    BY <2>1 DEF Promise!Next, Promise!Immediate
<1>8. ASSUME NEW t \in Threads, Clear(t)
      PROVE  Promise!Next
  <2>1. Promise!Drop(t)
    BY <1>8 DEF Clear, Acquires, Return, Promise!Drop, Promise!Return
  <2>. QED
    BY <2>1 DEF Promise!Next, Promise!Immediate
<1>. QED
  BY <1>1, <1>2, <1>3, <1>4, <1>5, <1>6, <1>7, <1>8 DEF Next, Body

\* Whatever the threads call, the monitor behaves as the documented queue as far
\* as safety goes: elements leave in the order in which they came, none is
\* invented or taken twice, and a blocked call changes nothing.
THEOREM QueueRefinement == Spec => Promise!Spec
<1>1. Init => Promise!Init
  BY DEF Init, Promise!Init
<1>. QED
  BY <1>1, PromiseStep, TypeCorrect, PTL DEF Spec, Promise!Spec
=============================================================================
