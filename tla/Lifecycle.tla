------------------------------ MODULE Lifecycle ------------------------------
(***************************************************************************)
(* Start and shutdown of the program: framework_main.cpp (the main thread), *)
(* dag_streaming.cpp (the DAG thread: start the operators, sweep until     *)
(* told to stop, join), Operator::run, stop and join, EventWorker (the     *)
(* loops of the worker threads), common/thread.cc, and the publish of      *)
(* EventManager, by which a worker is fed and by which it is woken up.     *)
(*                                                                         *)
(* An operator has one worker here.  Events are "data" or the "wake" event *)
(* with time stamp 0; what is done with the data is in Pipeline.           *)
(***************************************************************************)
EXTENDS Naturals, Sequences

CONSTANTS
    Ops,       \* the operators
    Order,     \* ops_: the operators, upstreams first
    Configs,   \* the graphs that are considered: what kind of operator each is
               \* and which operators it publishes to, in order
    Main, Dag, \* the other two threads
    MaxQueue   \* FLAGS_max_event_queue_size

\* An operator without upstream is a "source" (a TestOperator, whose run starts a
\* thread of its own) or a "cv" operator, whose worker waits to be notified.
Kinds == {"source", "cv", "event"}

Threads == Ops \cup {Main, Dag}
Elements(s) == {s[i] : i \in DOMAIN s}
Position(o) == CHOOSE i \in DOMAIN Order : Order[i] = o

ASSUME ThreadAssumption == Main # Dag /\ Main \notin Ops /\ Dag \notin Ops
ASSUME OrderAssumption ==
    /\ Ops # {}   \* (a graph without operators has nothing to start or to stop)
    /\ Order \in Seq(Ops) /\ Elements(Order) = Ops
    /\ \A i, j \in DOMAIN Order : Order[i] = Order[j] => i = j
ASSUME ConfigAssumption == \A c \in Configs :
    /\ c.kind \in [Ops -> Kinds] /\ c.downs \in [Ops -> Seq(Ops)]
    /\ \A o \in Ops : \A d \in Elements(c.downs[o]) :
         c.kind[d] = "event" /\ Position(o) < Position(d)
ASSUME QueueAssumption == MaxQueue \in Nat \ {0}

VARIABLES
    config_,   \* the graph (chosen once)
    queue_,    \* queue_[o]: the event queue in front of o
    stop_,     \* stop_[o]: EventWorker::stop_ of the worker of o
    dag_stop,  \* DAGStreaming::stop_
    pc,        \* pc[t]: what thread t does next
    todo       \* todo[t]: the operators t still has to start, stop, join or feed

vars == <<config_, queue_, stop_, dag_stop, pc, todo>>

IsInput(o) == config_.kind[o] # "event"
Downs(o) == config_.downs[o]

Publishing == {"push", "clear", "retry"}
WorkerSteps == {"none", "created", "pop", "work", "test", "make", "wait0",
                "asleep0", "wait", "asleep", "woken", "exited"} \cup Publishing
MainSteps == {"start", "shutdown", "stop", "flag", "notify", "join", "done"} \cup Publishing
DagSteps == {"none", "run", "sweep", "joining", "reset", "exited"}

\* The types; no event queue grows beyond its limit, whoever publishes to it.
TypeOK ==
    /\ config_ \in Configs
    /\ \A o \in Ops : queue_[o] \in Seq({"data", "wake"}) /\ Len(queue_[o]) <= MaxQueue
    /\ stop_ \in [Ops -> BOOLEAN] /\ dag_stop \in BOOLEAN
    /\ \A o \in Ops : pc[o] \in WorkerSteps
    /\ pc[Main] \in MainSteps /\ pc[Dag] \in DagSteps
    /\ todo \in [Threads -> Seq(Ops)]

\* EventWorker's constructor sets stop_; DAGStreaming::init clears its own.
Init ==
    /\ config_ \in Configs
    /\ queue_ = [o \in Ops |-> <<>>]
    /\ stop_ = [o \in Ops |-> TRUE]
    /\ dag_stop = FALSE
    /\ pc = [t \in Threads |-> IF t = Main THEN "start" ELSE "none"]
    /\ todo = [t \in Threads |-> <<>>]

Goto(t, label) == pc' = [pc EXCEPT ![t] = label]
Done(t) == todo' = [todo EXCEPT ![t] = Tail(@)]
Reverse(s) == [i \in 1 .. Len(s) |-> s[Len(s) + 1 - i]]

-----------------------------------------------------------------------------
(* EventManager::publish by thread t to the operator at the head of its    *)
(* list; each of the three calls holds the mutex of the queue.             *)

Event(t) == IF t = Main THEN "wake" ELSE "data"

Put(o, e) == queue_' = [queue_ EXCEPT ![o] = Append(@, e)]

\* Where the thread goes when it is done with the head of its list.
AfterPublish(t) ==
    IF Tail(todo[t]) # <<>> THEN (IF t = Main THEN "flag" ELSE "push")
    ELSE IF t = Main THEN "join"
    ELSE IF config_.kind[t] = "source" THEN "make" ELSE "test"

Published(t) == Goto(t, AfterPublish(t)) /\ Done(t) /\ UNCHANGED <<config_, stop_, dag_stop>>

\* (mutant) takes one event too many
PushOneMore(t) ==
    /\ pc[t] = "push"
    /\ IF Len(queue_[Head(todo[t])]) <= MaxQueue
       THEN Put(Head(todo[t]), Event(t)) /\ Published(t)
       ELSE Goto(t, "clear") /\ UNCHANGED <<config_, queue_, stop_, dag_stop, todo>>

Push(t) ==
    /\ pc[t] = "push"
    /\ IF Len(queue_[Head(todo[t])]) < MaxQueue
       THEN Put(Head(todo[t]), Event(t)) /\ Published(t)
       ELSE Goto(t, "clear") /\ UNCHANGED <<config_, queue_, stop_, dag_stop, todo>>

ClearQueue(t) ==
    /\ pc[t] = "clear"
    /\ queue_' = [queue_ EXCEPT ![Head(todo[t])] = <<>>]
    /\ Goto(t, "retry")
    /\ UNCHANGED <<config_, stop_, dag_stop, todo>>

\* (mutant) gives up when the queue was full
RetryDrops(t) == pc[t] = "retry" /\ UNCHANGED queue_ /\ Published(t)

\* The second try_push; if another thread was faster, its event is there.
Retry(t) ==
    /\ pc[t] = "retry"
    /\ IF Len(queue_[Head(todo[t])]) < MaxQueue
       THEN Put(Head(todo[t]), Event(t))
       ELSE UNCHANGED queue_
    /\ Published(t)

Publish(t) == Push(t) \/ ClearQueue(t) \/ Retry(t)

-----------------------------------------------------------------------------
(* The worker of operator o: EventWorker::run.                             *)

\* The first thing the new thread does is to clear stop_.
Begin(o) ==
    /\ pc[o] = "created"
    /\ stop_' = [stop_ EXCEPT ![o] = FALSE]
    /\ Goto(o, IF IsInput(o) THEN "wait0" ELSE "pop")
    /\ UNCHANGED <<config_, queue_, dag_stop, todo>>

\* subscribe: blocked while the queue is empty.  get_trigger_data fails on the
\* time stamp 0 of a wake event.
Pop(o) ==
    /\ pc[o] = "pop" /\ queue_[o] # <<>>
    /\ queue_' = [queue_ EXCEPT ![o] = Tail(@)]
    /\ Goto(o, IF Head(queue_[o]) = "wake" THEN "test" ELSE "work")
    /\ UNCHANGED <<config_, stop_, dag_stop, todo>>

\* The operator runs on the data, and publishes unless it fails.
Work(o) ==
    /\ pc[o] = "work"
    /\ \/ Goto(o, "test") /\ UNCHANGED todo
       \/ /\ Downs(o) # <<>>
          /\ Goto(o, "push")
          /\ todo' = [todo EXCEPT ![o] = Downs(o)]
    /\ UNCHANGED <<config_, queue_, stop_, dag_stop>>

\* while (!stop_)
Test(o) ==
    /\ pc[o] = "test"
    /\ Goto(o, IF stop_[o] THEN "exited" ELSE IF IsInput(o) THEN "wait" ELSE "pop")
    /\ UNCHANGED <<config_, queue_, stop_, dag_stop, todo>>

\* Operator::wait has no predicate: the thread sleeps even if it has been
\* notified already.
Wait(o) ==
    /\ \/ pc[o] = "wait0" /\ Goto(o, "asleep0")
       \/ pc[o] = "wait" /\ Goto(o, "asleep")
    /\ UNCHANGED <<config_, queue_, stop_, dag_stop, todo>>

\* The first wait is followed by peek_event (which fails: there is no trigger)
\* and the test of the loop, the others by a test of their own.
Awake(step) ==
    IF step = "asleep0" THEN "test" ELSE IF step = "asleep" THEN "woken" ELSE step

SpuriousWakeup(o) ==
    /\ pc[o] \in {"asleep0", "asleep"}
    /\ Goto(o, Awake(pc[o]))
    /\ UNCHANGED <<config_, queue_, stop_, dag_stop, todo>>

Woken(o) ==
    /\ pc[o] = "woken"
    /\ Goto(o, IF stop_[o] THEN "exited" ELSE "test")
    /\ UNCHANGED <<config_, queue_, stop_, dag_stop, todo>>

\* The thread of a TestOperator makes a frame once a second, for ever.
Make(o) ==
    /\ pc[o] = "make" /\ Downs(o) # <<>>
    /\ todo' = [todo EXCEPT ![o] = Downs(o)]
    /\ Goto(o, "push")
    /\ UNCHANGED <<config_, queue_, stop_, dag_stop>>

Worker(o) == Begin(o) \/ Work(o) \/ Test(o) \/ Wait(o) \/ Woken(o) \/ Publish(o)

-----------------------------------------------------------------------------
(* The DAG thread: DAGStreaming::schedule.                                 *)

\* Operator::run starts the worker; TestOperator::run its own thread.
DagRun ==
    /\ pc[Dag] = "run"
    /\ LET o == Head(todo[Dag])
           last == Len(todo[Dag]) = 1
       IN  pc' = [pc EXCEPT ![o] = IF config_.kind[o] = "source" THEN "make" ELSE "created",
                            ![Dag] = IF last THEN "sweep" ELSE @]
    /\ Done(Dag)
    /\ UNCHANGED <<config_, queue_, stop_, dag_stop>>

\* remove_stale_data returns when it sees stop_.
DagSweep ==
    /\ pc[Dag] = "sweep" /\ dag_stop
    /\ Goto(Dag, "joining")
    /\ todo' = [todo EXCEPT ![Dag] = Order]
    /\ UNCHANGED <<config_, queue_, stop_, dag_stop>>

\* Thread::is_alive assigns ESRCH where it should compare: it never says yes,
\* neither here nor in Operator::stop, which would cancel the thread.
IsAlive(o) == FALSE

\* Operator::join waits for the worker if it is alive.
DagJoin ==
    /\ pc[Dag] = "joining"
    /\ IsAlive(Head(todo[Dag])) => pc[Head(todo[Dag])] = "exited"
    /\ Goto(Dag, IF Len(todo[Dag]) = 1 THEN "reset" ELSE "joining")
    /\ Done(Dag)
    /\ UNCHANGED <<config_, queue_, stop_, dag_stop>>

\* SharedDataManager::reset, and the thread returns.
DagReset ==
    /\ pc[Dag] = "reset"
    /\ Goto(Dag, "exited")
    /\ UNCHANGED <<config_, queue_, stop_, dag_stop, todo>>

DagThread == DagRun \/ DagSweep \/ DagJoin \/ DagReset

-----------------------------------------------------------------------------
(* The main thread.                                                        *)

\* (mutant) starts the upstreams first
StartForward ==
    /\ pc[Main] = "start"
    /\ pc' = [pc EXCEPT ![Main] = "shutdown", ![Dag] = "run"]
    /\ todo' = [todo EXCEPT ![Dag] = Order]
    /\ UNCHANGED <<config_, queue_, stop_, dag_stop>>

\* dag_streaming->start(); the loop of schedule goes from the back.
Start ==
    /\ pc[Main] = "start"
    /\ pc' = [pc EXCEPT ![Main] = "shutdown", ![Dag] = "run"]
    /\ todo' = [todo EXCEPT ![Dag] = Reverse(Order)]
    /\ UNCHANGED <<config_, queue_, stop_, dag_stop>>

\* WaitForShutdown returns at any time.
Shutdown ==
    /\ pc[Main] = "shutdown"
    /\ Goto(Main, "stop")
    /\ UNCHANGED <<config_, queue_, stop_, dag_stop, todo>>

\* (mutant) forgets to tell the sweep
StopOperatorsOnly ==
    /\ pc[Main] = "stop"
    /\ Goto(Main, "flag")
    /\ todo' = [todo EXCEPT ![Main] = Order]
    /\ UNCHANGED <<config_, queue_, stop_, dag_stop>>

\* DAGStreaming::stop: its own flag first, then the operators in order.
Stop ==
    /\ pc[Main] = "stop"
    /\ dag_stop' = TRUE
    /\ Goto(Main, "flag")
    /\ todo' = [todo EXCEPT ![Main] = Order]
    /\ UNCHANGED <<config_, queue_, stop_>>

\* EventWorker::stop, first line.  Only an operator with a trigger is sent an
\* event to wake it up.
Flag ==
    /\ pc[Main] = "flag"
    /\ stop_' = [stop_ EXCEPT ![Head(todo[Main])] = TRUE]
    /\ Goto(Main, IF IsInput(Head(todo[Main])) THEN "notify" ELSE "push")
    /\ UNCHANGED <<config_, queue_, dag_stop, todo>>

\* EventWorker::stop, the rest: whoever sleeps in Operator::wait is woken up.
Notify ==
    /\ pc[Main] = "notify"
    /\ LET o == Head(todo[Main])
       IN  pc' = [pc EXCEPT ![Main] = AfterPublish(Main),
                            ![o] = Awake(@)]
    /\ Done(Main)
    /\ UNCHANGED <<config_, queue_, stop_, dag_stop>>

\* dag_streaming->join(): pthread_join, without is_alive.
Join ==
    /\ pc[Main] = "join" /\ pc[Dag] = "exited"
    /\ Goto(Main, "done")
    /\ UNCHANGED <<config_, queue_, stop_, dag_stop, todo>>

MainThread == Start \/ Stop \/ Flag \/ Notify \/ Publish(Main) \/ Join

-----------------------------------------------------------------------------
Next ==
    \/ MainThread \/ Shutdown \/ DagThread
    \/ \E o \in Ops : Worker(o) \/ Pop(o) \/ Make(o) \/ SpuriousWakeup(o)

Spec == Init /\ [][Next]_vars

\* Every thread goes on.  A worker for which events keep coming gets one of them
\* in the end, although each may be cleared away again (publishers pause between
\* two frames).  Shutdown and the frames of the sources need never come.
FairSpec ==
    /\ Spec
    /\ WF_vars(MainThread) /\ WF_vars(DagThread)
    /\ \A o \in Ops : WF_vars(Worker(o)) /\ SF_vars(Pop(o))

-----------------------------------------------------------------------------
\* "start each operator with reverse sequence to avoid data lose": data waits
\* only in front of an operator that has been started.
StartedBeforeFed ==
    \A o \in Ops : "data" \in Elements(queue_[o]) => pc[o] # "none"

InLoop(o) == pc[o] \in {"pop", "work", "test"} \cup Publishing

\* stop reaches every worker that has begun: one with a trigger exits although
\* its wake event may be cleared away by a publisher that finds the queue full,
\* and one that sleeps in Operator::wait when it is notified exits too.  (A worker
\* that begins only after Flag has cleared the flag again, and does not stop.)
StopReaches ==
    \A o \in Ops :
        /\ stop_[o]
        /\ \/ config_.kind[o] = "event" /\ InLoop(o)
           \/ /\ config_.kind[o] = "cv" /\ pc[o] \in {"asleep0", "asleep"}
              /\ pc[Main] = "notify" /\ Head(todo[Main]) = o
        ~> pc[o] = "exited"

\* Shutdown comes to an end, whenever it was asked for.
ShutdownTerminates == pc[Main] = "stop" ~> pc[Main] = "done"

\* "no signal sent, just check existence for thread" (thread.cc:48) and "joined
\* successfully" (operator.cpp:214): an operator the DAG thread has joined has no
\* running worker.
Joined(o) ==
    \/ pc[Dag] \in {"reset", "exited"}
    \/ pc[Dag] = "joining" /\ o \notin Elements(todo[Dag])

JoinedMeansExited ==
    \A o \in Ops : config_.kind[o] # "source" /\ Joined(o) => pc[o] = "exited"
=============================================================================
