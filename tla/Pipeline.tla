------------------------------ MODULE Pipeline ------------------------------
(***************************************************************************)
(* The data flow of a running DAG: framework/operator.cpp, event_worker.cpp,*)
(* port.cpp and event_manager.cpp over the caches of cached_data.h.        *)
(*                                                                         *)
(* A node is one trigger of one operator: its worker thread and its port.  *)
(* The worker takes an event from its queue, fetches the frame the event   *)
(* names from its trigger cache, runs the operator on it, and publishes    *)
(* the frame: a copy for the reference cache, then, per downstream, data   *)
(* (unless the downstream shares the cache) and an event.  The source node *)
(* makes its own frames.  The scheduler's thread sweeps the caches.        *)
(*                                                                         *)
(* Cache methods and queue methods hold their mutex throughout and are     *)
(* atomic; what runs between two of them belongs to the second step.  A    *)
(* worker blocked on its queue is a worker whose Take is disabled: that    *)
(* this is what pop does is shown in FixedSizeConQueue.                    *)
(***************************************************************************)
EXTENDS Integers, Sequences, FiniteSets

CONSTANTS
    Nodes, Source,   \* the workers, and the one that makes the frames
    Links,           \* the downstream entries of the outputs; one queue each
    Caches, NoCache,
    To,              \* To[l]: the node that link l triggers
    DataOf,          \* DataOf[l]: the cache its frames are in
    Period,          \* Period[l]: output_period_, the least time between frames
    Copies,          \* Copies[n]: output_copy_idx_, the links that get a copy
    NoCopies,        \* NoCopies[n]: output_nocopy_idx_, those that share the frame
    RefOf,           \* RefOf[n]: ref_data_, or NoCache
    Inputs,          \* Inputs[n]: the nodes whose reference data n reads
    MaxQueue,        \* FLAGS_max_event_queue_size
    SlotSize, StaleTime,
    MaxTime          \* bound: the last time stamp the source gives

Elements(s) == {s[i] : i \in DOMAIN s}

\* (mutant) hands the frame on before it is copied
LinksNoCopyFirst(n) == NoCopies[n] \o Copies[n]

\* The order in which Port::publish serves the downstreams: copies first.
LinksOf(n) == Copies[n] \o NoCopies[n]
LinkInto(n) == CHOOSE l \in Links : To[l] = n
TriggerCache(n) == DataOf[LinkInto(n)]
Publisher(l) == CHOOSE n \in Nodes : l \in Elements(LinksOf(n))

ASSUME ShapeAssumption ==
    /\ Source \in Nodes /\ IsFiniteSet(Nodes) /\ NoCache \notin Caches
    /\ To \in [Links -> Nodes] /\ DataOf \in [Links -> Caches] /\ Period \in [Links -> Nat]
    /\ RefOf \in [Nodes -> Caches \cup {NoCache}]
    /\ \A n \in Nodes : Copies[n] \in Seq(Links) /\ NoCopies[n] \in Seq(Links)
    /\ \A n \in Nodes : Inputs[n] \subseteq {i \in Nodes : RefOf[i] # NoCache}

\* The shape DAG::link_operator gives a graph: a node has one link into it, links
\* lead from an operator to a later one, and none is served twice; a link that
\* shares the frame shares the trigger cache, of several downstreams only one may
\* (the others get a name of their own), and every other cache has one writer.
ASSUME TopologyAssumption ==
    /\ NoCopies[Source] = <<>>
    /\ \A n \in Nodes \ {Source} : \E l \in Links : {k \in Links : To[k] = n} = {l}
    /\ \A l \in Links : To[l] # Source
    /\ \A l \in Links : \E n \in Nodes : {m \in Nodes : l \in Elements(LinksOf(m))} = {n}
    /\ \A n \in Nodes : \A i, j \in DOMAIN LinksOf(n) : LinksOf(n)[i] = LinksOf(n)[j] => i = j
    /\ \E rank \in [Nodes -> 0 .. Cardinality(Nodes)] :
         \A l \in Links : rank[Publisher(l)] < rank[To[l]]
    /\ \A n \in Nodes : Len(NoCopies[n]) <= 1
    /\ \A n \in Nodes : \A l \in Elements(NoCopies[n]) : DataOf[l] = TriggerCache(n)
    /\ \A n, m \in Nodes : \A l \in Elements(Copies[n]), k \in Elements(Copies[m]) :
         DataOf[l] = DataOf[k] => l = k
    /\ \A n \in Nodes : \A l \in Links : RefOf[n] # DataOf[l]
    /\ \A n, m \in Nodes : RefOf[n] = RefOf[m] => n = m \/ RefOf[n] = NoCache
ASSUME BoundsAssumption ==
    /\ MaxQueue \in Nat \ {0} /\ SlotSize \in Nat \ {0}
    /\ StaleTime \in Nat /\ MaxTime \in Nat

VARIABLES
    data_,    \* data_[c]: the time stamps of the frames in cache c
    latest_,  \* latest_[c]: the one put last
    queue_,   \* queue_[l]: the time stamps of the events waiting on link l
    pc,       \* pc[n]: what worker n does next
    frame,    \* frame[n]: the time stamp of the frame it works on (0: none yet)
    todo,     \* todo[n]: the links it still has to publish that frame to
    last_     \* last_[l]: output_last_, the last frame published on l (0: none)

vars == <<data_, latest_, queue_, pc, frame, todo, last_>>

Steps == {"take", "fetch", "run", "reference", "output", "push", "clear", "retry"}

\* The types; no event queue grows beyond its limit.
TypeOK ==
    /\ data_ \in [Caches -> SUBSET (1 .. MaxTime)]
    /\ latest_ \in [Caches -> 0 .. MaxTime]
    /\ \A l \in Links : queue_[l] \in Seq(1 .. MaxTime) /\ Len(queue_[l]) <= MaxQueue
    /\ pc \in [Nodes -> Steps]
    /\ frame \in [Nodes -> 0 .. MaxTime]
    /\ \A n \in Nodes : Elements(todo[n]) \subseteq Elements(LinksOf(n))
    /\ last_ \in [Links -> 0 .. MaxTime]

Init ==
    /\ data_ = [c \in Caches |-> {}]
    /\ latest_ = [c \in Caches |-> 0]
    /\ queue_ = [l \in Links |-> <<>>]
    /\ pc = [n \in Nodes |-> "take"]
    /\ frame = [n \in Nodes |-> 0]
    /\ todo = [n \in Nodes |-> <<>>]
    /\ last_ = [l \in Links |-> 0]

Goto(n, label) == pc' = [pc EXCEPT ![n] = label]

-----------------------------------------------------------------------------
(* Caches, as in CachedData.                                               *)

PutData(c, ts) ==
    /\ data_' = [data_ EXCEPT ![c] = @ \cup {ts}]
    /\ latest_' = [latest_ EXCEPT ![c] = IF ts \in data_[c] THEN @ ELSE ts]

\* (mutant) one slot too many
SweepMore(c) ==
    /\ latest_[c] >= StaleTime
    /\ data_' = [data_ EXCEPT ![c] =
         {k \in @ : k \div SlotSize > (latest_[c] - StaleTime) \div SlotSize}]
    /\ UNCHANGED <<latest_, queue_, pc, frame, todo, last_>>

\* One cache of SharedDataManager::remove_stale_data, at any time.
Sweep(c) ==
    /\ latest_[c] >= StaleTime
    /\ data_' = [data_ EXCEPT ![c] =
         {k \in @ : k \div SlotSize >= (latest_[c] - StaleTime) \div SlotSize}]
    /\ UNCHANGED <<latest_, queue_, pc, frame, todo, last_>>

-----------------------------------------------------------------------------
(* The worker.                                                             *)

\* The source makes a frame, later than the one before.
Make(n) ==
    /\ n = Source /\ pc[n] = "take"
    /\ \E ts \in (frame[n] + 1) .. MaxTime : frame' = [frame EXCEPT ![n] = ts]
    /\ Goto(n, "run")
    /\ UNCHANGED <<data_, latest_, queue_, todo, last_>>

\* EventManager::subscribe: the oldest event of the queue.
Take(n) ==
    /\ n # Source /\ pc[n] = "take"
    /\ LET l == LinkInto(n)
       IN  /\ queue_[l] # <<>>
           /\ frame' = [frame EXCEPT ![n] = Head(queue_[l])]
           /\ queue_' = [queue_ EXCEPT ![l] = Tail(@)]
    /\ Goto(n, "fetch")
    /\ UNCHANGED <<data_, latest_, todo, last_>>

\* Port::get_trigger_data: the very frame, with no tolerance; without it the
\* worker gives up on the event.
Fetch(n) ==
    /\ pc[n] = "fetch"
    /\ Goto(n, IF frame[n] \in data_[TriggerCache(n)] THEN "run" ELSE "take")
    /\ UNCHANGED <<data_, latest_, queue_, frame, todo, last_>>

\* (mutant) no reference copy when there is a downstream
RunNoReference(n) ==
    /\ pc[n] = "run"
    /\ \/ /\ Goto(n, IF LinksOf(n) = <<>> THEN "reference" ELSE "output")
          /\ todo' = [todo EXCEPT ![n] = LinksOf(n)]
       \/ Goto(n, "take") /\ UNCHANGED todo
    /\ UNCHANGED <<data_, latest_, queue_, frame, last_>>

\* Operator::process_and_publish: the processor succeeds (or the operator is
\* bypassed), or fails and nothing is published.
Run(n) ==
    /\ pc[n] = "run"
    /\ \/ Goto(n, "reference") /\ todo' = [todo EXCEPT ![n] = LinksOf(n)]
       \/ Goto(n, "take") /\ UNCHANGED todo
    /\ UNCHANGED <<data_, latest_, queue_, frame, last_>>

\* Port::publish starts with the reference copy; a refused one is only logged.
Reference(n) ==
    /\ pc[n] = "reference"
    /\ IF RefOf[n] = NoCache THEN UNCHANGED <<data_, latest_>>
                             ELSE PutData(RefOf[n], frame[n])
    /\ Goto(n, "output")
    /\ UNCHANGED <<queue_, frame, todo, last_>>

\* (mutant) lets a frame through that is one too early
TooSoonLax(l, ts) == ts > last_[l] /\ ts - last_[l] + 1 < Period[l]

TooSoon(l, ts) == ts > last_[l] /\ ts - last_[l] < Period[l]

Skip(n) == Goto(n, "output") /\ todo' = [todo EXCEPT ![n] = Tail(@)]

\* The head of the loops over copy_idx and nocopy_idx: a frame that comes too
\* soon or is in the cache already is skipped with its event.
Output(n) ==
    /\ pc[n] = "output"
    /\ UNCHANGED <<queue_, frame, last_>>
    /\ \/ /\ todo[n] = <<>>
          /\ Goto(n, "take")
          /\ UNCHANGED <<data_, latest_, todo>>
       \/ /\ todo[n] # <<>>
          /\ LET l == Head(todo[n])
                 refused == l \in Elements(Copies[n]) /\ frame[n] \in data_[DataOf[l]]
             IN  IF TooSoon(l, frame[n]) \/ refused
                 THEN Skip(n) /\ UNCHANGED <<data_, latest_>>
                 ELSE /\ IF l \in Elements(Copies[n])
                         THEN PutData(DataOf[l], frame[n])
                         ELSE UNCHANGED <<data_, latest_>>
                      /\ Goto(n, "push")
                      /\ UNCHANGED todo

-----------------------------------------------------------------------------
(* EventManager::publish: try_push; if the queue is full, clear it and     *)
(* try_push again, whatever that returns.                                  *)

Append1(l, ts) == queue_' = [queue_ EXCEPT ![l] = Append(@, ts)]

\* publish returns: the link is done.
Published(n) ==
    /\ last_' = [last_ EXCEPT ![Head(todo[n])] = frame[n]]
    /\ Skip(n)
    /\ UNCHANGED <<data_, latest_, frame>>

\* (mutant) takes one event too many
PushOneMore(n) ==
    /\ pc[n] = "push"
    /\ LET l == Head(todo[n])
       IN  IF Len(queue_[l]) <= MaxQueue
           THEN Append1(l, frame[n]) /\ Published(n)
           ELSE /\ Goto(n, "clear")
                /\ UNCHANGED <<data_, latest_, queue_, frame, todo, last_>>

Push(n) ==
    /\ pc[n] = "push"
    /\ LET l == Head(todo[n])
       IN  IF Len(queue_[l]) < MaxQueue
           THEN Append1(l, frame[n]) /\ Published(n)
           ELSE /\ Goto(n, "clear")
                /\ UNCHANGED <<data_, latest_, queue_, frame, todo, last_>>

ClearQueue(n) ==
    /\ pc[n] = "clear"
    /\ queue_' = [queue_ EXCEPT ![Head(todo[n])] = <<>>]
    /\ Goto(n, "retry")
    /\ UNCHANGED <<data_, latest_, frame, todo, last_>>

\* (mutant) forgets the event that found the queue full
RetryDrops(n) ==
    /\ pc[n] = "retry"
    /\ UNCHANGED queue_
    /\ Published(n)

Retry(n) ==
    /\ pc[n] = "retry"
    /\ LET l == Head(todo[n])
       IN  IF Len(queue_[l]) < MaxQueue THEN Append1(l, frame[n]) ELSE UNCHANGED queue_
    /\ Published(n)

-----------------------------------------------------------------------------
Step(n) ==
    \/ Take(n) \/ Fetch(n) \/ Run(n) \/ Reference(n) \/ Output(n)
    \/ Push(n) \/ ClearQueue(n) \/ Retry(n)

Next ==
    \/ \E n \in Nodes : Make(n) \/ Step(n)
    \/ \E c \in Caches : Sweep(c)

Spec == Init /\ [][Next]_vars

\* Every worker thread goes on; the source need not make another frame and the
\* sweep need not come.
FairSpec == Spec /\ \A n \in Nodes : WF_vars(Step(n))

-----------------------------------------------------------------------------
(* Properties.                                                             *)

InWindow(c, ts) == ts >= latest_[c] - StaleTime

\* An event never gets ahead of its data: the frame an event names is in the
\* cache when the event is in the queue, and stays there until a worker has
\* fetched it, unless newer frames have moved the window past it.
EventHasData ==
    \A l \in Links :
        LET c == DataOf[l]
            named == Elements(queue_[l])
                       \cup {frame[n] : n \in {m \in {To[l]} : pc[m] = "fetch"}}
        IN  \A ts \in named : InWindow(c, ts) => ts \in data_[c]

\* The frame objects the worker n still touches: the one it runs on, until it
\* has been copied for everybody who needs a copy and handed to the worker that
\* shares it.  (The source's frames are in no cache.)
Holds(n) ==
    IF n # Source /\
       ( \/ pc[n] \in {"run", "reference"}
         \/ pc[n] \in {"output", "push", "clear", "retry"} /\ todo[n] # <<>> )
    THEN {<<TriggerCache(n), frame[n]>>}
    ELSE {}

\* No two workers work on one frame object: a worker that hands its own frame on
\* (the nocopy case) has made every copy before.
FrameExclusive ==
    \A n, m \in Nodes : n # m => Holds(n) \cap Holds(m) = {}

\* The nodes that the frames of n come to by links of the set K: the smallest set
\* that holds them.
Below(n, K) ==
    {m \in Nodes : \A S \in SUBSET Nodes :
        (\A l \in K : Publisher(l) \in S \cup {n} => To[l] \in S) => m \in S}

\* The data an operator takes as input has been published when its trigger
\* arrives, if the trigger passed through the node that gives the input.
InputReady ==
    \A n \in Nodes : pc[n] = "run" =>
        \A i \in Inputs[n] :
            n \in Below(i, Links) /\ InWindow(RefOf[i], frame[n])
                => frame[n] \in data_[RefOf[i]]

\* Overflow and downsampling never reorder: the events a worker takes are later
\* and later, by the period of its link at least, and no frame comes twice.
Spaced ==
    [][\A n \in Nodes \ {Source} :
         (frame'[n] # frame[n] /\ frame[n] # 0) =>
           /\ frame'[n] > frame[n]
           /\ frame'[n] - frame[n] >= Period[LinkInto(n)]]_vars

\* No event is lost for good: once it is queued, the worker at the other end
\* gets to run on it, or on a later one if the queue was cleared for that, or
\* finds that the window has moved past it.
Delivered ==
    \A l \in Links : \A ts \in 1 .. MaxTime :
        (ts \in Elements(queue_[l])) ~>
            /\ frame[To[l]] >= ts
            /\ pc[To[l]] = "run" \/ ~InWindow(DataOf[l], frame[To[l]])
=============================================================================
