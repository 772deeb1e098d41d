# A TLA+ verification of the perception framework

The program is a data-flow engine.  A DAG of *operators* is read from a
configuration; every trigger of an operator has a *worker* thread that takes
events from a bounded queue, fetches the frame an event names from a cache of
time-stamped data, runs the user's algorithm on it and publishes the result:
data into the caches of the downstreams, then events into their queues.  One
more thread starts the operators, sweeps old data out of the caches, and joins
the workers at the end; the main thread waits for a signal and stops everything.

What is hard in it is what happens between threads: blocking queues with two
condition variables, caches that are swept while events still name their
entries, frames that are shared instead of copied, overflow, and shutdown.
These come first here.  All paths below are relative to `src/modules/`.

## 1. Inventory

| Component | State | Operations | Correct if |
|---|---|---|---|
| **Bounded queue** `common/concurrent_queue.h` | `queue_`, the sleepers of `cv_` and `cv_full_` | push, try_push, pop, try_pop, front, clear | FIFO, bounded; a blocked call goes on when its reason is gone; no wake-up is lost |
| **Cache** `framework/cached_data.h` | slots of entries by time stamp, `latest_` | put, get (with a tolerance), get_newest, remove_stale_data, reset | look-ups find the closest entry; the sweep is a sliding window; the newest entry can always be had |
| **Event manager** `framework/event_manager.cpp` | a queue per event | publish (try_push, clear, try_push), subscribe | overflow never blocks a publisher, never leaves a worker without an event, never reorders |
| **Worker and port** `framework/operator.cpp`, `event_worker.cpp`, `port.cpp` | the event and the frame at hand, last published time stamp per link | take, fetch, run, publish (reference, copies, shared) | an event never gets ahead of its data; a frame has one owner; downsampling keeps the distance |
| **DAG thread** `framework/dag_streaming.cpp`, `shared_data_manager.cpp` | `stop_` | start operators from the back, sweep, join, reset | nothing is fed before it is started; it ends when told to |
| **Main thread** `framework/main/framework_main.cpp`, **threads** `common/thread.cc` | `stop_` of every worker | stop (flag, notify, wake event), join | every worker is reached; shutdown ends |
| **Operator info** `framework/operator.cpp` | `is_running_`, `start_time_`, a cache of `OperatorInfo` | update_info, the policies WAIT, BLOCK, BUNDLE | what is heard of an operator is true; a dependent operator waits as the policy says, and never for ever |
| **Inputs of a worker** `framework/port.cpp` | the caches of references | get_input_data (offset, window, wait), get_latest_data | what is handed to the Ops is near the trigger; an input that comes in time is not missed |
| **Object pool** `common/concurrent_object_pool.h` | a lock-free list with a tagged head | GetObject, ConstructObject, ReleaseObject | no node is handed out twice |
| **DAG configuration** `framework/dag.h`, init functions of `dag_streaming.cpp`, `port.cpp`, `operator.cpp` | the sorted operators, the caches, `events_`, the ports | check, sort, link, set references, assign events and caches | the order is topological, a cycle is refused, caches have one writer, rates are met |
| **Processor** `framework/processor.cpp` | `valid_` | init, process, peek over a sequence of Ops | nothing is published that an Op has failed on or has not seen |
| `framework/param.h`, `common/thread_safe_queue.h`, `frame`, `factory`, `singleton`, `io/file`, flags, messages, the drawing tool | | | glue, data and I/O; see section 8 |

How they interact.  A publisher calls `Port::publish`, which calls `put` of the
downstream's cache and then `EventManager::publish`, which calls the downstream's
queue.  The worker at the other end blocks in the queue's `pop`, then calls `get`
of the same cache.  The DAG thread calls `remove_stale_data` of all caches at any
time.  `DAGStreaming::stop` runs in the main thread and calls the queues as one more
publisher.  All of it is shared state under one mutex per queue and per cache;
there is no lock that spans two of them, hence the interleavings.

The hazards, each at its line, are listed in `PROJECT.json`; those without a
property carry a note that says why.

## 2. Modules

    BlockingQueue            WindowCache                Pool       abstract specifications
          ^ implements            ^ implements           ^ implements
    FixedSizeConQueue        CachedData              ObjectPool
      ^         ^              ^      ^                ^      ^
    MCFixed..  .._proofs    MCCached..  .._proofs   MCObject..  .._proofs

    DagSort  SeqProcessor               Pipeline                 Lifecycle
        ^     ^     ^                   ^      ^                 ^      ^
          Dag       Operator          MCPipe.. .._proofs     MCLife..  .._proofs
         ^   ^       ^     ^
    MCDag     Dag_   MCOp.. Operator_
              proofs        proofs

`Dag` and `Operator` both extend `SeqProcessor`, the one for its `init`, the other for
`peek` and `process`.  `Pipeline` and `Lifecycle` compose queues, caches and workers.  They use the two
components by their abstraction: a queue operation and a cache operation is one
atomic step, a worker blocked in `pop` is a worker whose action is disabled.
That this is what the monitor with its condition variables amounts to is what
`FixedSizeConQueue` shows.  `Pipeline` is given a finished graph and assumes
(`TopologyAssumption`) the shape that `link_operator` gives it: every trigger one
link, copies and references caches of their own, one downstream at most that
shares the frame (`dag.h:281`), links from earlier operators to later ones.  That the graphs
`Dag` makes are like that is what `OneWriter`, `TriggersConnected` and `SortSound` say; of all
three there is a proof.
`Induction` is one lemma for the proofs: a non-empty set of numbers has a least.  What `Pipeline` does in the one step `Run` is what
`Operator` takes apart: `Pipeline` follows many frames through many workers,
`Operator` one frame through one call, with a clock.

### FixedSizeConQueue (common/concurrent_queue.h)

A method body holds `mutex_` from its first line to its return or its wait.  So
the mutex is no variable, and a body is one action: `Push`, `PushWait` (the call
goes to sleep on `cv_full_`), `Pop`, `PopWait`, and so on.  `op[t]` is the method
thread `t` is in; a thread in a method that is in neither wait set contends for the
mutex.  A notified thread leaves the wait set and contends again, and tests its
predicate again when it runs: that is the loop of `wait` with a predicate.
`NotifyOne` wakes any one sleeper, `SpuriousWakeup` one that nobody notified.
`Roles` says which methods which thread may call; a role is drawn in `Init` and
kept.  Both overloads of `pop` are `Pop`, the one without an argument being the
case in which nobody looks at `arg`.

`BlockingQueue` is what the comments of the class say, without wait sets: a
blocked call is a disabled action, and fairness says that some consumer goes on
while there are elements, and some producer while there is room.

### CachedData (framework/cached_data.h)

`DynamicCachedData` and `StaticCachedData` have the same code but for the worth of
one unit of tolerance, the constant `Unit`.  A slot is created by the put that
fills it and erased as a whole, so the two-level map is the set of its keys.
`latest_` is the key of the last put, which may be older than others; its first
value is 0, or anything for `StaticCachedData`, whose constructor does not
initialise it (`FreshLatest`).  `Get` is the look-up, with its loop over three slots
and its strict comparisons in ascending order, `GetNewest` the other one.

`WindowCache` is the abstraction: entries inside the window that ends at the last
put stay, those that are a slot older go, the entry of the last put stays.

### Pipeline (operator.cpp, event_worker.cpp, port.cpp, event_manager.cpp)

A node is one trigger of one operator.  The steps of its worker are the calls on
shared state: `Take` (subscribe), `Fetch` (get_trigger_data), `Run` (the processor
succeeds or fails), `Reference` (the copy for those who read the output as input),
`Output` (the head of the loop over the downstreams: skip, or put the copy), then
the three calls of `EventManager::publish`: `Push`, `ClearQueue`, `Retry`.  `LinksOf`
has the copies before the shared frames, as `Port::publish` has.  `Make` is the
source, which gives time stamps in ascending order as `TestOperator` does.  `Sweep`
takes one cache at a time, whenever it likes.  An output without downstream, which puts
data without an event, is not in the model.

### Lifecycle (framework_main.cpp, dag_streaming.cpp, operator.cpp, thread.cc)

Three kinds of threads: the main thread (`Start` to `Join`), the DAG thread (`DagRun`
to `DagReset`) and the workers.  Workers with a trigger loop over `Pop`, `Work` and
`Test`; those without sleep in `Operator::wait`, which has no predicate, so that they
sleep even if they have been notified already.  `Begin` clears `stop_`, as the first
line of `EventWorker::run` does.  A `TestOperator` is a thread that nothing stops.
The three calls of `EventManager::publish` are shared by workers and by the main
thread, whose wake event has the time stamp 0.  `IsAlive` is constantly false, which
is what `Thread::is_alive` computes (it assigns where it should compare); hence
`DagJoin` waits for nobody, and `pthread_cancel` in `Operator::stop` is never called.

### ObjectPool (common/concurrent_object_pool.h)

The list is lock-free, so each access to shared memory is an action: `Load` reads the
head (pointer and counter), `ReadNext` reads `next` of a node that may be somebody
else's by then, `Exchange` is the compare-and-exchange, which fails when the head is
no longer the `Same`; `Release`, `Link` and `Give` are the other way.  A failed exchange
gives the thread the head as it is now, as in the code, and can be spurious
(`compare_exchange_weak`).  `Pool` is a set from which nodes are taken and into which they
are put back; it takes effect in `Take` and `Give`.

### DagSort and Dag (framework/dag.h and the init functions)

One thread, from the file to the running graph.  `DagSort` is
`sort_and_check_has_loop`, one action per turn of one of its loops: `Scan` (who has no
upstream), `Pop` (the next one gets its place) and `CountDown` (one of its downstreams).
`Dag` extends it with what comes before and after: `Check` (`enable_if` and `disable_if` of
one operator), `Checked` (the links of those that are on), `Sorted`, `Parse`, `Link` (a turn of the four nested loops of `link_operator`,
which names the data), `SetReference`, `Register` (the caches of one output),
`InitEvents` (the event ids of one output) and `InitOperator` (all ports of one
operator).  `todo` holds the turns that are left and `IsNext` picks the first, in the order
of the nested loops.  `Fail` is the early return of any of them.

Before the operators come, `InitEventManager` makes the queues and the pipelines, the
chains of events from a source to an end (`Adjacent`, `Chains`, `Heads`).  `CanInit` has
every test of `Operator::init` and `Port::init`, those of the numbers of offsets, windows
and tolerances (`NumbersOK`) and of the group of Ops (`CanInitGroup` of `SeqProcessor`)
included.  A failed `CHECK` ends the program like a `false` does: both are `Fail`.
`shared_data_map_` gives every cache its rate, that of whoever registered it first;
the caches of `OperatorInfo` have rate 0 and are not found by those who look for
frames (`FrameCaches`, the `dynamic_cast` of the code).  From two rates comes the `Period`
of a link.

Names of data are put together from others (`<event>_RO`, `<data>_1_<operator>_COPY`);
which of them are equal is what the properties are about, so a name is a record of what
it is put together from: `of` which event, data or type, its `kind`, its rate, and the list
of `copies` that were made on the way.  An operator is a record with the fields of `OperatorConfig` that
are read; proto fields that are not given are `<<>>`, `""` or 0.

What a configuration has to be like to work is `Startable`, stated of the file alone, without
the algorithm: `SwitchesClear`, `RatesClear`, `NoCircle`, `OpsFit`, `InputsMade` and
`TriggersGiven`.  At the end of `Dag` are properties of the whole set of configurations
(`OneMaker` and others) that only theorems ask for; no action depends on them.

### SeqProcessor and Operator (processor.cpp, operator.cpp, port.cpp)

`SeqProcessor` is a module of operators without state: which Ops of a group are `Valid`,
whether a group can be initialised, which of its Ops run and what comes out
(`Processed` and `ProcessStatus`, `Peeked` and `PeekStatus`, which stop at different
statuses).  The Ops may return anything.

`Operator` is `process_and_publish(idx, trigger, is_peek)`, one action for every access to
something shared: `Round` and `Look` (the loop over the dependencies), `Wake` (after the
sleep: another round, or on), `Begin` to `PutInfo` (update_info), `Bundle`, `Newest` and
`Poll` (one input: the first look, whether there is hope, the looks in its wait),
`GetLatest`, `Process`, then update_info again, and `Publish`.  `is_running_` is a
`vector<bool>`: where several workers share it, a write of one is `ReadWord` and `WriteWord`,
and an update of another in between is lost.  A worker that has the operator to itself
does the whole update in `PutAlone`, as nobody else looks at its parts.  `Collect` writes
`start_time_` and reads all the flags and times of the operator in one step, where the code goes through
them one by one: for an operator with several workers, whose record may be wrong anyway, the
model has fewer mixtures than the code, and no property says that such a record is true.  The record
goes into the cache of infos under the time at which the update began (`stamp`), and
is refused if there is one of that time.

The clock is a variable.  `Tick` comes at any moment for the first few units of time
(`slack`, part of the scenario), so that threads are slow and times apart where the code
does not expect it, and later only when every worker sleeps or waits for a frame.
Frames come by themselves (`Take`), as old as the scenario has it.  The first frame of a
worker is peeked at, the others are processed (`EventWorker`).  `Find` is the look-up of
`CachedData` as `GetFindsClosest` has it, for windows of less than a slot.

A *scenario* says which operator waits for which, what is read from whom, and which groups there
are; `MCOperator` has ten.

## 3. What the runs check

| Run | Instance | Checks |
|---|---|---|
| `evq` | 4 threads, 2 places, 2 elements, 3 mixes of methods | `ConsumersSignalled`: while anyone sleeps in pop or front there is a pop under way for every element; `ProducersSignalled`: the same for places and push; `ImplementsPromise`: refinement of `BlockingQueue` with its fairness |
| `evq_peek` | one consumer peeks, another pops | **violated**: `BlockedOnlyWhenEmpty`.  `front` takes the notification and leaves the element |
| `evq_clear` | a producer blocks, another thread clears | **violated**: `BlockedOnlyWhenFull`.  `clear` does not notify `cv_full_` |
| `cache` | time stamps 1 and 3..11 in 6 slots, window of 4 | `NewestAvailable`, `GetFindsClosest` (all keys, all tolerances up to a slot), `KeepsWindow`: refinement of `WindowCache` |
| `cache_tolerance` | 1 Hz data | **violated**: `GetFindsTolerable`.  Only the neighbouring slots are searched, whatever the tolerance |
| `pipeline` | source, copy, shared frame, downsampled copy, reference reader | `EventHasData`, `FrameExclusive`, `InputReady`, `Spaced` (action property), `Delivered` (liveness) |
| `lifecycle` | a chain of three; a source, its downstream and an idle operator | `StartedBeforeFed`, `StopReaches`, `ShutdownTerminates` (liveness) |
| `lifecycle_join` | the same | **violated**: `JoinedMeansExited`.  The join joins nobody |
| `pool` | 2 threads, 3 nodes, counter up to 6 | `NodesAccounted`: every node is in the list or with one thread; `ImplementsPool`: refinement of `Pool` |
| `operator` | two operators, three workers, ten scenarios, a clock | `InfoTruthful`: what is heard of an operator with one worker is true, unless its last record was refused; `DependenciesHeeded`: nobody goes to work before every wait is over, or 100 ms are; `FramesNear`, `NotMissed`: inputs are in their windows, and one that is not there did not come within the wait; `WellProcessed`: what is published has been through the group; `CallsEnd` (liveness): whoever waits for whom, every call ends |
| `dag` | 989 configurations of two to five operators | `SortSound`; `LoopsFound`: the sort leaves somebody out exactly if there is a loop; `StartsOnlyStartable`, `FailsOnlyUnstartable`: it starts exactly if the configuration is `Startable`, which is stated without the algorithm; `TriggersConnected`, `OneWriter`, `ReadersServed` of the graph that starts; `PipelinesComplete`: the pipelines are the ways through it; `RatesMet`: a downstream that asks for a rate gets regular frames at the closest one possible |
| `dag_names` | two downstreams of one output that name their data | **violated**: `EachDownstreamFed`.  Both copies go into one cache |

Each passing run also checks its module's type invariant.  The five violated properties
state what a comment of the code says; the findings in `PROJECT.json` quote it.
How bad they are in this program: `EventManager` neither peeks nor blocks in `push`,
so the first two cannot bite today.  The third matters to configurations with
low rates and a large `input_window`.  The fifth takes an operator that names its output
data, has an upstream and is not the first downstream of it; no configuration in
`production` is like that.  The fourth is real on every shutdown: caches are
reset, and the program goes on to its end, while workers run.

Things a reader should know about properties that hold.

* `StopReaches` speaks of workers that have begun.  A stop that comes before the
  thread runs its first line is undone by that line (`event_worker.cpp:21`), and a
  notification that comes while a worker is between the test of `stop_` and its wait
  is lost.  The program still ends (`ShutdownTerminates`) because the join waits
  for nobody: repairing `is_alive` alone would turn both races into a shutdown that
  hangs.
* `Delivered` allows for one more end of an event: the window has moved past its
  frame.  A slow worker that shares a cache with a fast one can find
  its frame swept away; `pipeline` reaches such states.
* `InfoTruthful` leaves out two cases, both of which the run reaches.  Two updates in one
  microsecond: the second is refused, and an idle operator is heard to be running
  until its next frame.  Operators with several triggers: an update of `is_running_`
  can be lost, with the same effect or the opposite one.  `CallsEnd` says that neither
  holds anybody up for ever; that others wait for an operator with nothing to do, or do not wait
  for one at work, remains.
* `DependenciesHeeded` holds because of the retry.  A round in which a short wait has
  replaced a long one is made up for by the next; after 100 ms the worker goes to work
  whatever it has heard.  The repository's README (1.6) says of BLOCK that it "waits for a fixed time";
  the code waits again and again, with every policy, as `is_block` is always true.
* `NotMissed` speaks of inputs that were waited for.  The repository's README (1.7) promises a wait "up
  to" `input_wait`; the code does not wait at all if the maker of the input has not made
  any yet or only old ones, and waits up to one interval of polling longer.
* In `Startable`, with which `StartsOnlyStartable` and `FailsOnlyUnstartable` compare what the
  program does, the last Op's number of outputs
  is compared with the number of *triggers*, and a least number equal to the greatest
  one admits nothing: both as the code has it, neither as one would expect.  Of these two
  clauses (`OpsFit`, `Admits`) the two properties say only that the loops come to the checks.
* `RatesMet` is about the rate of the caches.  A downstream that asks for a rate *and* names
  its data makes the upstream's cache one of that rate, and gets every frame; no
  configuration of the run, or of `production`, is like that.

### Bounds

Two producers and two consumers are the fewest with which a notification can go
to the wrong thread on both sides; with two places a queue can be full, empty and
neither.  Six slots are three more than a look-up searches and more than the window
spans.  No data comes at 2, so that `TypeOK` tells the number of slot 2 from a time.  In `pipeline`, queues have one place (the default of
`max_event_queue_size`), so that the second frame overflows; with `MaxTime = 3` frames
come in a row, with a gap, too soon for the slow link and not, and the window passes
the first while it is under way.  `MaxTime` is the only artificial limit: the source
stops there, which is why deadlock is not checked in that run.  In `lifecycle`, a chain
of three is the least in which a worker that is being stopped is fed by one that is
also being stopped; sources make frames for ever.

In `pool`, three nodes and two threads are enough for a thread to hold a stale head while
another takes that node, takes the next and returns the first; `MaxCount` bounds
the counter next to the pointer, and threads that have used it up stop, which is why
deadlock is not checked.  In `dag`, four operators in unsorted order, each with several
possible triggers and one with two of them, make chains, forks, joins, parallel links, loops of
two and of three and operators that nobody triggers; together with those come all
combinations of the switches, of rates and types at a source, and the graphs of
`dag_streaming.prototxt` and `dag_streaming_multiinput.prototxt` in `production`, chains
of two that ask for rates from 1 to 30 Hz, and sinks with all kinds of
groups and of numbers.  Initialisation ends, and with it the behaviour: deadlock is not
checked there.

In `operator`, a unit of time is the least the code tells apart; the constants keep the
order of the real ones (`MinWait` 1 ms < `MinBlock` 5 ms < `RetryTime` 100 ms, `CheckDt` 2 ms).
`LastTime` is never reached: the last worker is done two units before.  `slack`, one or
two units, is what lets a step be late against the clock; two are enough for a record to
be refused, a frame to come between a look that fails and the next, an input
to be expired.  Two frames per worker are what it takes to peek and to process.

### Fairness

* `FixedSizeConQueue`: weak fairness of the step of each call.  A mutex is handed to
  everybody who waits for it.  Nobody has to call anything: `Call` is not fair, and
  spurious wake-ups need not come.
* `BlockingQueue`: only what users rely on: *some* blocked call goes on.
  `notify_one` does not say which.
* `Pipeline`: every worker thread is scheduled; source and sweep need not come.
* `Operator`: as long as some worker has a step to make, or the clock has to go on for one,
  something of this happens.  That is weaker than fairness for each worker, and is
  enough as no worker can make steps for ever.
* `Lifecycle`: every thread is scheduled.  `Pop` is strongly fair: a publisher that
  overflows a queue clears it for a moment before it fills it again, so the worker
  can see it empty again and again, but publishers pause between two frames (a
  second in `TestOperator`) and a woken worker gets the mutex in such a pause.  Frames and
  the signal that ends the program need never come.

## 4. What is proved

For every value of the constants that satisfies the named assumptions of the
modules, by TLAPS.  Every invariant of a passing run is proved but `FailsOnlyUnstartable`,
and every action property and the safety part of every refinement:

| Module | Theorem | Says |
|---|---|---|
| `FixedSizeConQueue_proofs` | `TypeCorrect` | `TypeOK`; the queue's length never exceeds `MaxCount` |
| | `NoLostConsumer` | under `PeekDiscipline`, `ConsumersSignalled` always holds |
| | `NoLostProducer` | under `ClearDiscipline`, `ProducersSignalled` always holds |
| | `BlockedAsDocumented` | under both, whoever sleeps in a moment of rest sleeps for the documented reason |
| | `QueueRefinement` | the monitor implements the safety part of `BlockingQueue`, under no discipline |
| `CachedData_proofs` | `TypeCorrect`, `NewestAlwaysAvailable` | `TypeOK`, `NewestAvailable` |
| | `SlotsSuffice` | no entry within a tolerance of up to a slot is outside the three slots `get` visits |
| | `ClosestFound` | `GetFindsClosest`: the loop of `get` ends with the closest entry |
| | `CacheRefinement` | the cache implements `WindowCache` (`KeepsWindow`) |
| `Pipeline_proofs` | `TypeCorrect` | `TypeOK`; no event queue exceeds its limit |
| | `DataBeforeEvent` | `EventHasData`: an event never gets ahead of its data |
| | `FrameNeverShared` | `FrameExclusive`: no two workers touch one frame |
| | `InputsPublished` | `InputReady`: inputs are there when the trigger is |
| | `FramesInOrder` | `Spaced` (an action property): frames come in order, a period apart |
| `Lifecycle_proofs` | `TypeCorrect`, `NobodyFedBeforeStarted` | `TypeOK`, `StartedBeforeFed` |
| `ObjectPool_proofs` | `TypeCorrect`, `NoNodeLostOrShared` | `TypeOK`, `NodesAccounted` |
| | `PoolRefinement` | the lock-free list implements `Pool` (`ImplementsPool`) |
| `Operator_proofs` | `TypeCorrect` | `TypeOK` |
| | `HeardIsTrue` | `InfoTruthful` |
| | `GivenIsNear`, `NothingMissed` | `FramesNear`, `NotMissed` |
| | `PublishedIsProcessed` | `WellProcessed` |
| | `WaitsAreHeeded` | `DependenciesHeeded`, if who bundles sees no frame ahead of the clock |
| `Dag_proofs` | `SortIsSound` | `SortSound`: everybody comes after its upstreams, once |
| | `LoopsAreFound` | `LoopsFound`: somebody is left out exactly if there is a loop |
| | `TypeOKHolds` | `TypeOK` |
| | `PipelinesAreComplete` | `PipelinesComplete`: the recursion ends, and finds all ways through the graph |
| | `TriggersAreConnected` | `TriggersConnected`, if each event has one maker and each output a trigger |
| | `ReadersAreServed` | `ReadersServed`, if each output has a trigger |
| | `OneWriterHolds` | `OneWriter`, if besides sources, and only they, have names |
| | `RatesAreMet` | `RatesMet`, if besides rates can be counted in microseconds |
| | `StartsOnlyClear` | the first four parts of `Startable`, of everything that starts |
| | `StartsHold` | `StartsOnlyStartable`, if the file is clear about who makes what |
| | `RefusesForCause` | an action property: up to `parse_config` nothing is refused without reason |

`Invariance` is in each module the inductive invariant from which the others follow; in
`Dag_proofs` there are several, one on top of another: `SortInvariance`, `DagInvariance`,
`FileInvariance`, `NamesInvariance`, `RatesInvariance`, `ChecksInvariance`, `TypesInvariance`.

### The arguments

*Queue.*  `BlockedOnlyWhenEmpty` is not inductive, since it speaks of
moments of rest only.  `ConsumersSignalled` is its strengthening to every moment:
it counts elements against callers of `pop` that are awake.  A push adds an
element and wakes a sleeper (the sleepers are callers of `pop`, or the one thread
that peeks, by the discipline); a pop takes one element and one caller; nobody else
changes either number for the worse.  The proof counts sets of threads with the
lemmas `ContendingMonotone`, `ContendingLosesOne` and `ContendingGainsOne`.
`PeekDiscipline` (a thread that peeks is the only one that waits for elements) and
`ClearDiscipline` (nobody clears a queue while others may wait for room) are
hypotheses of the theorems, and the two violation runs show that neither can be
dropped.

*Cache.*  The invariant is that `latest_` is the key of an entry unless
there is none.  The sweep keeps it because the slot of the last put is never
before the horizon (`SlotMonotone`); put and reset keep it at once.  With it, each step
is a step of `WindowCache`, the sweep by the lemma `SweepStep`.  The look-up is a fold over
the entries in ascending order with a strict comparison.  `LoopExists` shows that a
function satisfies the recursion of the fold, by naming one; `LoopBest` that whichever does
has the best of the entries gone through so far (the closest, of equal ones the first), as
otherwise there were a least last entry with which it has not.  `SlotsSuffice` then says that the three
slots hold everything tolerable, by `NextSlot`, a fact about division.

*Sort.*  Neither
theorem is inductive, since neither speaks of the counters.  A link is open as long as its
upstream has no place or has not been counted down from; the invariant `Counters` says that
`indegree[i]` is the number of open links to `i`, that it is 0 for everybody in the queue or
placed, and that everybody scanned for whom it is 0 is there.  Then whoever enters the queue
has no open link, hence all its upstreams have places; and at the end, where nothing is being
counted down, an open link of somebody left out comes from somebody left out.  `CountDown`
closes one link and lowers one counter; that the two agree is cardinality of a finite set
without one element.  Whoever is left out has an upstream that is left out
(`LeftOutByOthers`), so they are a loop; and the members of a loop cannot all have places,
as the one with the first place would have an upstream with an earlier one (`PlacedInNoLoop`).
Hence `sort_and_check_has_loop` is right in both directions.

*Dag.*  The proof goes through the loops in the order of the program, each with an invariant
of its own that says what the turns so far have done, and each resting on those before.

1. `StructInv`, for every configuration.  `TypedInv`: types, and the sort's invariant.
   `LinksMade`: an output has one downstream for each match that has had its turn (`Done`), and no
   other.  `EventsMade`: ids belong one to one to the links, or to an output without any.
   `PortsMade`: who has been initialised has the port that the graph says, with caches that exist.
   Events lead to later operators (`EventsGoDown`), so each way through the graph ends; then
   the recursive function of `EventManager::init` has one value only, the ways themselves
   (`ChainsAreWays`), which is `PipelinesComplete`.  The function is pinned down as
   in *Cache*: by the least place in the order where it would differ.
2. `FileInv` adds what ties operators to the file.  `FromFile`: the operators are those of the file that
   are on, each once, and nothing but what is found out about them has changed.  `Downwards`: from the sort on, whoever
   wants something comes after its maker.  `OneUpstream`: if each event has one maker, a link's downstream
   subscribes to the link's event and data, and no later turn overwrites that.  With `PortsMade` this is
   `TriggersConnected`.
   `NamesFree` and `ReferencesMade`: no link's name is that of a reference, and each reference
   that there is was made for an output of that event, which is `ReadersServed`.
3. `Named`: what is not linked yet has the name of the file; on each link the name is made from what is above it, as
   `get_data_and_type_name` and the copies say (`LinkNamed`).  So a name shows where it
   came from: a source, a rate, a type, a list of copies.  Two outputs with the same name are
   then on one *line* of heirs, in which each is the first downstream of the one before and takes its
   name (`Lines`, by the least sum of places of two that are not).  Along a line the frame is handed on, not copied
   (`Handed`), so that no two copies have one name (`EntriesApart`): `OneWriter`.
   Names of operators must differ for that (`NamesDiffer`), as they are part of names of copies;
   that they do in a program that starts follows from the cache of `OperatorInfo` that each one needs.
4. `TurnsTaken`, `DataMade`: caches are registered from the first operators on.  A name of a link that
   asks for a rate is used by nobody before it (`RatedAbove`, `RatedFirst`), so the cache gets the
   rate asked for (`RatesKept`).  The rest of `RatesMet` is arithmetic of integer division:
   `Nearest` shows that a period that is half a period of the frames too short, both rounded
   down, lets through the multiple that is closest.
5. `SwitchesChecked`, `RatesChecked`, `AllFitting`: what a turn has looked at is as it should be.
   That there is no circle is the order itself (`OrderClear`).  `CircleFound` is the other direction.
   These need no hypothesis on the file: `StartsOnlyClear`, `RefusesForCause`.
6. `Told`: nobody but the link to an output changes its name or type.  `UntypedLinks`,
   `RatesGiven`: the data of an output that nobody feeds, and that has no type, go by a name that nobody else uses
   (`SourceFirst`), so that the cache is made for it, which is refused unless the output has a rate
   and nobody takes the data.  That is `TriggersGiven`; with `ReferencesMade` and `PortsMade`,
   `InputsMade` as well, hence `StartsHold`.

*Pipeline.*  The invariant has three parts besides the types.  `Ordered`: along a link, the
frame the worker at its end is at, the events in the queue and the frame that was last published lie in this
order, a period apart, and none is newer than what the publisher is at.  It is what makes overflow harmless:
a clear takes events out of a sequence that stays one.  `LatestOnes`: no cache has been given a
frame newer than the one its only writer is at.  So a frame that is in the window of a cache was
not swept, and a put never moves the window backwards.  `DataFirst`: whatever an event
names, or a worker has taken or is about to push, is *backed* in its trigger cache and in the reference
caches of all nodes it has come through: it is there, unless the window has passed it.  A
put makes it so before the push, a sweep keeps what is in the window.  "Come through" is
`Below`, the smallest set closed under links, so that no recursion over paths is needed: each frame
pushed on a link into `Below(i)` was at `i`, or came by a link into `Below(i)`.
`FrameNeverShared` needs one more thing: two workers can hold one frame object only if they have one trigger
cache, and then one comes behind the other along shared links (`OneChain`, by the least
rank of a node that does not).  A worker that still holds its frame has not handed it on, since the only
shared link is served last, so by `Ordered` everybody behind it is at an older one
(`HolderAhead`).

*Lifecycle.*  `StartedBeforeFed` says nothing of who has yet to be started.
`StartOrder` does: the list of the DAG thread is what is left of the order, from the back, and who
has not been started is a beginning of the order, the first `Unstarted` of it.
A worker feeds its downstreams only (`FeedsDowns`), which come later in the order than it, so if it has been
started they have.

*ObjectPool.*  The counter is the witness.  It only grows, so a head that a thread has seen
under the present counter is the present head (`Counted`); whoever finds the head unchanged
then still knows the node behind it (`LooksTrue`), although in between that node may
have been free, taken, used and given back.  The list is the smallest set with the head
that is closed under `next`; taking the first node out of it leaves the others if the list does
not come back to it, which is the last part of the invariant: along the list a rank goes down
(`InOrder`).

*Operator.*  A worker's calls are independent but for what they read of one
another, so the main part of the invariant, `Good`, is a statement about one worker, its label and its
locals, and most lemmas are about one action of one worker.  `Placed` says at which labels it can be;
`Listening` that as long as no dependency has asked for a wait, none of those looked at does;
`Near` that the inputs it has are near; `Polling` that a look comes after all the waits
that have been used up, so that the last look comes when the whole wait is over;
`Processing` that what is on its way to be published has been through the group; `Past` what lies in the past
of the clock.  `RefsGood` says that no frame was put in the future: then a frame that came within the wait
was there at the last look.  `InfoTruthful` and `NotMissed` are inductive with these; `InfoTruthful`
because a worker that has its operator to itself writes its record in one step (`PutAlone`).

`WaitsAreHeeded` has a hypothesis, `BundlesSeeThePast`: an operator with a BUNDLE
dependency gets no frame whose time stamp is ahead of its clock.  The code does not wait when time stamp
and clock differ by the wait or more, in either direction (`operator.cpp:290`), as if it were over.  The theorem
would be false without it; all scenarios of the run with BUNDLE satisfy it.

### Assumptions

They are `ASSUME`s of the modules, evaluated in the runs, or the hypotheses above.  `CachedData`: times are naturals, slots and
units are not empty.  `FixedSizeConQueue`, `Pipeline`, `Lifecycle`, `ObjectPool`: room for one element at least
(a queue of none is refused by no code, but none is configured).  `Lifecycle`: there is an operator, the order is one, and
respects the links, as `SortIsSound` says.  `Pipeline`: the shape of the graph (section 2).  `Operator`:
the types of the configuration; times of the code (`MinWait` etc.) are not 0; the clock begins late enough
for the oldest input not to be before time 0, as a clock since 1970 does.

`Dag`: configurations have the types of the proto messages, and registered types have rates.  The code
does not check the following, so they are hypotheses of the theorems that need them.  TLC evaluates
all of them for the 989 configurations of `dag`, among them those of `production`
(`ShapesAreClear` of `MCDag`).

| Hypothesis | Of the configurations | Without it |
|---|---|---|
| `OneMaker` | an event is the output of one operator | the later link overwrites what the first has told the downstream |
| `OutputsTriggered` | an operator has a trigger for each output | nobody ever makes the output |
| `SourcesNamed` | data are named where they come from and only there, and differently, but for one source | two copies in one cache: the run `dag_names` |
| `RatesCountable` | no rate is above 1 MHz | a period is less than the unit it is counted in |
| `OthersRead` | nobody reads its own output | the reference is there if others read it too, so that the program starts, but it is nobody else's |
| `SourcesTyped` | `""` is no type; data without a type share their name with no source, and who makes something of them gives that no type | the type is found out from a namesake or a downstream, and the program starts with less than `TriggersGiven` asks for |

### Only model-checked

* All liveness (`Delivered`, `StopReaches`, `ShutdownTerminates`, `CallsEnd`, the fairness of
  `ImplementsPromise`), which with ENABLED is out of the prover's reach.
* `FailsOnlyUnstartable` of `Dag`.  The program refuses more than `Startable` says in general: types that
  nobody has registered, operators with equal names or with the name of some data, data for
  which no name can be found, names that meet.  No configuration of the run has these, and for
  those of the run the check is exact.  A theorem would have to exclude each of them by
  a hypothesis.  `RefusesForCause` is the part that needs none.
* The violated properties, of which a trace is the whole argument.

The theorems about induction in the prover's library take a predicate as a parameter, which the installed
provers cannot instantiate.  Where an induction is needed (the fold of `Get`, `OneChain`, `ChainsAreWays`, `Lines`), the
proofs look at the least number for which a statement fails: `LeastNumber` of `Induction`, which
is about a set and follows from the library's facts on finite sets and well-founded orders.

## 5. Mutants

Every property of a passing run has a mutant: an operator marked `(mutant)` next
to the definition it would replace, with a plausible mistake in it, such as a
notification only when the queue was empty before, a sweep that takes one slot too
many, shared frames before copies, an event dropped on overflow.  With it, the
property fails.  The mutants are not part of any specification.

## 6. Plan

In this order; what is done is described above.

1. **FixedSizeConQueue**, **BlockingQueue** (done, proved), **CachedData**,
   **WindowCache** (done, proved): what everything else stands on.
2. **Pipeline** and **Lifecycle** (done, safety proved): composition.
3. **SeqProcessor** and **Operator** (done, safety proved).
4. **ObjectPool** and **Pool** (done, proved).
5. **DagSort** and **Dag** (done, proved but for `FailsOnlyUnstartable`).

## 7. How to run

    tlc -config evq.cfg MCFixedSizeConQueue.tla       # likewise the other runs of PROJECT.json
    tlapm FixedSizeConQueue_proofs.tla                # likewise the other *_proofs, and Induction

The proofs of `Dag`, `Pipeline` and `Operator` take ten minutes or so each, the others less.
`pipeline` takes half a minute, `lifecycle` and `operator` a minute each on two cores, the
others seconds.

## 8. Not modelled

Payloads: what is in a frame is not modelled, and `FrameExclusive` is about frame objects.  A copy
(`Frame::Frame(const Frame&)`, `BaseFrame`'s copy constructor) has its own header and its own map
`supplement`, but the `CustomData` behind `data` and what the values of the map may point at are shared
with the original: that Ops leave them alone is up to the Ops.  Statistics, logging, perf strings, the summary of a graph.  A FATAL status, which
aborts the program.  The dependency policy BYPASS, which falls into the `default` of the switch
(`operator.cpp:295`), a line of log and no wait.  The user's algorithms, which may do anything but are called by
one worker at a time; their `init`, which succeeds or not, is in the configuration.
`Param` and `ParamManager`: a list filled by `init` and not touched again by any code of
the repository.  Of the cache: the measured rate (`hz` and `uperiod` of
`DynamicCachedData`), the look-up of a range, and `publish`, which nothing calls.
`ThreadSafeQueue`, which nothing uses.  Factories, singletons, file and protobuf
I/O.  Weak memory: the flags `stop_` are plain or volatile booleans
that are read and written without a lock; the models treat them as atomic, as they
are on the platforms of the build, since each test comes after calls that take locks.
