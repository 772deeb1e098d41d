-------------------------- MODULE FixedSizeConQueue --------------------------
(***************************************************************************)
(* common/concurrent_queue.h: FixedSizeConQueue<Data> and what it inherits *)
(* from ConcurrentQueue<Data>, a bounded FIFO guarded by one mutex, with   *)
(* the condition variable cv_ for the callers that wait for an element and *)
(* cv_full_ for those that wait for room.                                  *)
(*                                                                         *)
(* A method body holds mutex_ from its first line to its return or to its  *)
(* wait, so it is one action: the mutex is not a variable.  A thread whose *)
(* call has started and that is in neither wait set is contending for the  *)
(* mutex: it runs its body, or tests its predicate once more after it was  *)
(* notified, when it gets it.                                              *)
(***************************************************************************)
EXTENDS Naturals, Sequences, FiniteSets

CONSTANTS
    Threads,   \* the threads that share the queue
    Data,      \* elements
    NoData,    \* "nothing passed in, nothing handed out"
    MaxCount,  \* max_count_
    Roles      \* the assignments of methods to threads that are considered

Operation == {"push", "try_push", "pop", "try_pop", "front", "clear"}

ASSUME MaxCountAssumption == MaxCount \in Nat \ {0}
ASSUME ThreadsAssumption  == IsFiniteSet(Threads)
ASSUME NoDataAssumption   == NoData \notin Data
ASSUME RolesAssumption    == Roles \subseteq [Threads -> SUBSET Operation]

VARIABLES
    queue_,    \* the elements, oldest first
    cv_,       \* the threads asleep on cv_ (queue empty)
    cv_full_,  \* the threads asleep on cv_full_ (queue full)
    op,        \* op[t]: the method t is in, or "none"
    arg,       \* arg[t]: what t's call carries in, then what it hands out
    role       \* role[t]: the methods t calls (chosen once)

vars == <<queue_, cv_, cv_full_, op, arg, role>>

\* The types; the queue never holds more than MaxCount elements, and only the
\* callers of the waiting methods sleep.
TypeOK ==
    /\ queue_ \in Seq(Data) /\ Len(queue_) <= MaxCount
    /\ op \in [Threads -> Operation \cup {"none"}]
    /\ arg \in [Threads -> Data \cup {NoData}]
    /\ \A t \in Threads : op[t] \in {"push", "try_push"} => arg[t] \in Data
    /\ cv_ \subseteq {t \in Threads : op[t] \in {"pop", "front"}}
    /\ cv_full_ \subseteq {t \in Threads : op[t] = "push"}
    /\ role \in Roles
    /\ \A t \in Threads : op[t] \in role[t] \cup {"none"}

Init ==
    /\ queue_ = <<>>
    /\ cv_ = {} /\ cv_full_ = {}
    /\ op = [t \in Threads |-> "none"]
    /\ arg = [t \in Threads |-> NoData]
    /\ role \in Roles

-----------------------------------------------------------------------------
\* (mutant) one place too many
FullOffByOne == Len(queue_) > MaxCount

Full == Len(queue_) >= MaxCount
Empty == queue_ = <<>>

\* notify_one: wakes one sleeper, whichever the system picks, if there is one
NotifyOne(cv) == IF cv = {} THEN {cv} ELSE {cv \ {w} : w \in cv}

\* t is inside method o and gets mutex_
Acquires(t, o) == op[t] = o /\ t \notin cv_ \cup cv_full_

Return(t, d) ==
    /\ op' = [op EXCEPT ![t] = "none"]
    /\ arg' = [arg EXCEPT ![t] = d]

\* A thread calls a method of its role, with an element if it takes one.
Call(t) ==
    /\ op[t] = "none"
    /\ \E o \in role[t] :
         /\ op' = [op EXCEPT ![t] = o]
         /\ \E d \in IF o \in {"push", "try_push"} THEN Data ELSE {NoData} :
              arg' = [arg EXCEPT ![t] = d]
    /\ UNCHANGED <<queue_, cv_, cv_full_, role>>

\* (mutant) notifies only when the queue was empty before
EnqueueNotifyFirst(t) ==
    /\ queue_' = Append(queue_, arg[t])
    /\ cv_' \in IF Empty THEN NotifyOne(cv_) ELSE {cv_}
    /\ Return(t, NoData)
    /\ UNCHANGED <<cv_full_, role>>

\* The tail of push and of a successful try_push.
Enqueue(t) ==
    /\ queue_' = Append(queue_, arg[t])
    /\ cv_' \in NotifyOne(cv_)
    /\ Return(t, NoData)
    /\ UNCHANGED <<cv_full_, role>>

\* (mutant) notifies only when the queue was full before
DequeueNotifyFirst(t) ==
    /\ queue_' = Tail(queue_)
    /\ cv_full_' \in IF Full THEN NotifyOne(cv_full_) ELSE {cv_full_}
    /\ Return(t, Head(queue_))
    /\ UNCHANGED <<cv_, role>>

\* (mutant) notifies on the wrong condition variable
DequeueNotifyWrong(t) ==
    /\ queue_' = Tail(queue_)
    /\ cv_' \in NotifyOne(cv_)
    /\ Return(t, Head(queue_))
    /\ UNCHANGED <<cv_full_, role>>

\* The tail of pop and of a successful try_pop.
Dequeue(t) ==
    /\ queue_' = Tail(queue_)
    /\ cv_full_' \in NotifyOne(cv_full_)
    /\ Return(t, Head(queue_))
    /\ UNCHANGED <<cv_, role>>

Push(t) == Acquires(t, "push") /\ ~Full /\ Enqueue(t)

PushWait(t) ==
    /\ Acquires(t, "push") /\ Full
    /\ cv_full_' = cv_full_ \cup {t}
    /\ UNCHANGED <<queue_, cv_, op, arg, role>>

TryPush(t) == Acquires(t, "try_push") /\ ~Full /\ Enqueue(t)

\* try_push returns false: the element stays with the caller.
TryPushFull(t) ==
    /\ Acquires(t, "try_push") /\ Full
    /\ Return(t, arg[t])
    /\ UNCHANGED <<queue_, cv_, cv_full_, role>>

Pop(t) == Acquires(t, "pop") /\ ~Empty /\ Dequeue(t)

PopWait(t) ==
    /\ Acquires(t, "pop") /\ Empty
    /\ cv_' = cv_ \cup {t}
    /\ UNCHANGED <<queue_, cv_full_, op, arg, role>>

TryPop(t) == Acquires(t, "try_pop") /\ ~Empty /\ Dequeue(t)

TryPopEmpty(t) ==
    /\ Acquires(t, "try_pop") /\ Empty
    /\ Return(t, NoData)
    /\ UNCHANGED <<queue_, cv_, cv_full_, role>>

\* front copies the oldest element and leaves it in the queue.
Front(t) ==
    /\ Acquires(t, "front") /\ ~Empty
    /\ Return(t, Head(queue_))
    /\ UNCHANGED <<queue_, cv_, cv_full_, role>>

FrontWait(t) ==
    /\ Acquires(t, "front") /\ Empty
    /\ cv_' = cv_ \cup {t}
    /\ UNCHANGED <<queue_, cv_full_, op, arg, role>>

\* clear swaps the container for an empty one; it notifies nobody.
Clear(t) ==
    /\ Acquires(t, "clear")
    /\ queue_' = <<>>
    /\ Return(t, NoData)
    /\ UNCHANGED <<cv_, cv_full_, role>>

\* std::condition_variable may wake a sleeper that nobody notified.
SpuriousWakeup(t) ==
    /\ t \in cv_ \cup cv_full_
    /\ cv_' = cv_ \ {t} /\ cv_full_' = cv_full_ \ {t}
    /\ UNCHANGED <<queue_, op, arg, role>>

\* A step of the method that t is in.
Body(t) ==
    \/ Push(t) \/ PushWait(t) \/ TryPush(t) \/ TryPushFull(t)
    \/ Pop(t) \/ PopWait(t) \/ TryPop(t) \/ TryPopEmpty(t)
    \/ Front(t) \/ FrontWait(t) \/ Clear(t)

Next == \E t \in Threads : Call(t) \/ Body(t) \/ SpuriousWakeup(t)

Spec == Init /\ [][Next]_vars

\* A thread that contends for mutex_ gets it eventually; no thread has to
\* make another call.
FairSpec == Spec /\ \A t \in Threads : WF_vars(Body(t))

-----------------------------------------------------------------------------
Contending(o) == {t \in Threads : Acquires(t, o)}

\* No wake-up of a consumer is lost: while a thread sleeps in pop or front,
\* every element of the queue has a pop that was notified (or has just been
\* called) and will take it.  push and try_push notify one sleeper per element.
ConsumersSignalled ==
    cv_ # {} => Len(queue_) <= Cardinality(Contending("pop"))

\* No wake-up of a producer is lost: while a thread sleeps in push, every free
\* place has a push that will take it.  pop and try_pop notify one per place.
ProducersSignalled ==
    cv_full_ # {} => MaxCount - Len(queue_) <= Cardinality(Contending("push"))

\* The two notes of the comments, read of a moment when nobody is inside a body
\* or about to enter one: whoever is asleep is asleep for the documented reason.
Quiescent == \A t \in Threads : op[t] = "none" \/ t \in cv_ \cup cv_full_

\* "blocking if queue is empty" (lines 49, 58 and 70)
BlockedOnlyWhenEmpty == Quiescent /\ cv_ # {} => Empty

\* "blocking if the container is full" (line 149)
BlockedOnlyWhenFull == Quiescent /\ cv_full_ # {} => Full

\* How the methods may be shared out among threads without losing a wake-up.
\* front takes a notification and leaves the element behind, so a thread that
\* calls it has to be the only one that waits for elements; clear frees places
\* without a notification, so nobody may wait for room.
PeekDiscipline ==
    \A r \in Roles : \A t, u \in Threads :
        ("front" \in r[t] /\ r[u] \cap {"front", "pop"} # {}) => t = u

ClearDiscipline ==
    \A r \in Roles : \A t, u \in Threads :
        ~("push" \in r[t] /\ "clear" \in r[u])

-----------------------------------------------------------------------------
\* What the comments of the class promise: a queue without condition variables
\* in which a blocked call goes through when it can.
Promise == INSTANCE BlockingQueue WITH items <- queue_
ImplementsPromise == Promise!FairSpec
=============================================================================
