------------------------------ MODULE Operator ------------------------------
(***************************************************************************)
(* What a worker does with one frame: Operator::process_and_publish        *)
(* (framework/operator.cpp) with the dependencies between operators, what  *)
(* an operator tells about itself, the look-up of input and latest data    *)
(* (framework/port.cpp) and the group of Ops (SeqProcessor).  The workers  *)
(* of all operators take turns at every access to something they share:    *)
(* the clock, is_running_ and start_time_ of their operator, the caches.   *)
(*                                                                         *)
(* How frames get to a worker and on to the next is in Pipeline; here they *)
(* just come.  Caches answer as CachedData shows: the entry that was put   *)
(* last, the closest one within a tolerance (of less than a slot); nothing *)
(* is swept, as all that happens here is within the window.                *)
(***************************************************************************)
EXTENDS SeqProcessor

CONSTANTS
    Operators, Workers,
    Scenarios,          \* the operators and ports considered; what each is made of: see MCOperator
    None,               \* no info, no frame (nullptr)
    MinWait, MinBlock,  \* the least time to wait, in general and for BLOCK
    RetryTime,          \* how long a worker goes on waiting for dependencies
    CheckDt,            \* how long it sleeps between two looks for an input
    MaxExpire,          \* FLAGS_cached_data_expire_time
    Lag,                \* bound: the age of a frame when it comes
    StartTime,          \* the time at which the threads start
    LastTime            \* bound: the clock stops

Times == 0 .. LastTime
Labels == {"idle", "round", "look", "sleep", "begin", "read", "write", "collect", "put",
           "bundle", "newest", "poll", "latest", "process", "publish"}

ASSUME ScenariosAssumption ==
    \A s \in Scenarios :
        /\ s.slack \in Nat
        /\ \A o \in Operators :
             /\ {s.ops[o].bypass, s.ops[o].ignore_fail} \subseteq BOOLEAN
             /\ s.ops[o].dependency \in
                  Seq([on : Operators, policy : {"WAIT", "BLOCK", "BUNDLE"}, wait : Nat])
             /\ IsFiniteSet(DOMAIN s.ops[o].group)
        /\ \A w \in Workers :
             /\ s.ports[w].op \in Operators /\ s.ports[w].frames \in Nat
             /\ s.ports[w].ages \subseteq -1 .. Lag
             /\ s.ports[w].input \in Seq([from : Workers, offset : Int, window : Nat, wait : Nat])
             /\ s.ports[w].latest \in Seq([from : Workers, tolerance : Nat])
ASSUME NoneAssumption ==
    None \notin [utime : Nat, at : Nat] \cup [is_running : BOOLEAN, start_running_time : Nat]
ASSUME TimesAssumption ==
    /\ {MinWait, MinBlock, RetryTime, CheckDt} \subseteq Nat \ {0}
    /\ {MaxExpire, Lag, LastTime} \subseteq Nat
    /\ StartTime \in Nat /\ MaxExpire + Lag < StartTime /\ StartTime <= LastTime

VARIABLES
    scene,    \* the operators and ports: does not change
    now,      \* the clock
    running,  \* is_running_, start_time_: by worker (a worker is one index)
    began,
    infos,    \* infos[o]: the cache of o's OperatorInfo: keys, and the entry put last
    ref,      \* ref[w]: the reference data of w's port: frames, and the one put last
    pc, call  \* where each worker is, and the locals of its call

vars == <<scene, now, running, began, infos, ref, pc, call>>

OpOf(w) == scene.ports[w].op
Config(w) == scene.ops[OpOf(w)]
Deps(w) == Config(w).dependency
Input(w) == scene.ports[w].input
Latest(w) == scene.ports[w].latest
\* the places of valid_: the Ops of the group that are not bypassed
ValidOps(w) == 1 .. Cardinality({i \in DOMAIN Config(w).group : ~Config(w).group[i].bypass})
Mates(w) == {v \in Workers : OpOf(v) = OpOf(w)}

NewCall == [ts |-> 0, frames |-> 0, start |-> 0, now |-> 0, wait_time |-> 0, heard |-> <<>>,
            wake |-> 0, stamp |-> 0, on |-> FALSE, word |-> {}, info |-> None,
            refused |-> FALSE, inputs |-> <<>>, asked |-> <<>>, begin |-> 0, trail |-> 0,
            latests |-> <<>>, ran |-> <<>>, ret |-> "SUCC"]

Init ==
    /\ scene \in Scenarios
    /\ now = StartTime
    /\ running = [w \in Workers |-> FALSE]
    /\ began = [w \in Workers |-> 0]
    /\ infos = [o \in Operators |-> [keys |-> {}, newest |-> None]]
    /\ ref = [w \in Workers |-> [frames |-> {}, newest |-> None]]
    /\ pc = [w \in Workers |-> "idle"]
    /\ call = [w \in Workers |-> NewCall]

\* Worker w goes on at a label, with its locals changed.
Goto(w, label, locals) ==
    /\ pc' = [pc EXCEPT ![w] = label]
    /\ call' = [call EXCEPT ![w] = locals]

shared == <<running, began, infos, ref>>
Local(w, label, locals) == Goto(w, label, locals) /\ UNCHANGED <<scene, now, shared>>

\* A call that is over: what the next one, and the properties, need of it.
Return(c) == [NewCall EXCEPT !.ts = c.ts, !.frames = c.frames, !.refused = c.refused]

-----------------------------------------------------------------------------
(* process_denpendencies.                                                  *)

Larger(a, b) == IF a > b THEN a ELSE b
Distance(a, b) == IF a > b THEN a - b ELSE b - a

\* A frame comes, later than the one before.  An operator that is bypassed hands it
\* on as it is; one without dependencies does not wait.
Take(w) ==
    /\ pc[w] = "idle" /\ call[w].frames < scene.ports[w].frames
    /\ \E age \in scene.ports[w].ages :
         LET ts == now - age
             c == [call[w] EXCEPT !.ts = ts, !.frames = @ + 1, !.start = now, !.on = TRUE]
         IN  /\ ts > call[w].ts
             /\ Local(w, IF Config(w).bypass THEN "publish"
                         ELSE IF Deps(w) = <<>> THEN "begin" ELSE "round", c)

\* process_denpendency looks at the clock, then at each dependency.
Round(w) ==
    /\ pc[w] = "round"
    /\ Local(w, "look", [call[w] EXCEPT !.now = now, !.wait_time = 0, !.heard = <<>>])

\* How long a dependency makes the caller wait, 0 if not at all.
DepWait(dep, info, c) ==
    LET left == info.start_running_time + dep.wait - c.now
    IN  IF dep.policy = "WAIT" /\ info.is_running /\ left > 0 THEN Larger(left, MinWait)
        ELSE IF dep.policy = "BLOCK" /\ info.is_running THEN Larger(dep.wait, MinBlock)
        ELSE IF dep.policy = "BUNDLE" /\ Distance(c.now, c.ts) < dep.wait
             THEN Larger(dep.wait - (c.now - c.ts), MinWait)
        ELSE 0

\* The loop over the dependencies: one get_newest each.  Who asks for a wait
\* replaces what others have asked for before.  After the last one the worker
\* sleeps, or goes on if nobody has asked.
Look(w) ==
    /\ pc[w] = "look"
    /\ LET c == call[w]
           dep == Deps(w)[Len(c.heard) + 1]
           info == infos[dep.on].newest
           asked == IF info = None THEN 0 ELSE DepWait(dep, info, c)
           d == [c EXCEPT !.heard = Append(@, info),
                          !.wait_time = IF asked > 0 THEN asked ELSE @]
       IN  IF Len(d.heard) < Len(Deps(w)) THEN Local(w, "look", d)
           ELSE IF d.wait_time = 0 THEN Local(w, "begin", d)
           ELSE Local(w, "sleep", [d EXCEPT !.wake = now + d.wait_time])

\* (mutant) goes on however long it has been
RetryForEver(c) == TRUE

\* (mutant) every dependency has its wait once
RetryNever(c) == FALSE

Retry(c) == now - c.start < RetryTime

\* Awake, the worker looks again, unless it has been at it for too long.
Wake(w) ==
    /\ pc[w] = "sleep" /\ now >= call[w].wake
    /\ Local(w, IF Retry(call[w]) THEN "round" ELSE "begin", [call[w] EXCEPT !.wake = 0])

-----------------------------------------------------------------------------
(* update_info, called with running = on.                                  *)

\* The update begins: its time.  The only worker of an operator shares is_running_ and
\* start_time_ with nobody.
Update(w, c) ==
    Local(w, IF Mates(w) = {w} THEN "put" ELSE "read", [c EXCEPT !.stamp = now])

Begin(w) ==
    /\ pc[w] = "begin"
    /\ Update(w, [call[w] EXCEPT !.start = 0, !.now = 0, !.wait_time = 0, !.heard = <<>>])

\* With others, a write of one bit of is_running_, a vector<bool>, is a read of all of
\* them, and a write of them all.
ReadWord(w) ==
    /\ pc[w] = "read"
    /\ Local(w, "write", [call[w] EXCEPT !.word = {v \in Mates(w) : running[v]}])

WriteWord(w) ==
    /\ pc[w] = "write"
    /\ running' = [v \in Workers |->
         IF v = w THEN call[w].on
         ELSE IF v \in Mates(w) THEN v \in call[w].word ELSE running[v]]
    /\ Goto(w, "collect", [call[w] EXCEPT !.word = {}])
    /\ UNCHANGED <<scene, now, began, infos, ref>>

\* (mutant) marks the start time of a worker that is done as invalid
StartedInvalid(w) == [began EXCEPT ![w] = IF call[w].on THEN call[w].stamp ELSE -1]

\* start_time_ of this worker
Started(w) == [began EXCEPT ![w] = IF call[w].on THEN call[w].stamp ELSE @]

\* The record: who of the operator's workers is running, and since when (no later
\* than the time of the update).
Record(w, marks, starts) ==
    LET busy == {v \in Mates(w) : marks[v]}
    IN  [is_running |-> busy # {},
         start_running_time |-> Min({call[w].stamp} \cup {starts[v] : v \in busy})]

Collect(w) ==
    /\ pc[w] = "collect"
    /\ began' = Started(w)
    /\ Goto(w, "put", [call[w] EXCEPT !.info = Record(w, running, began')])
    /\ UNCHANGED <<scene, now, running, infos, ref>>

\* Where a worker goes on to: the next input, the next latest data (a worker that
\* peeks takes none), the group.
Fetching(w, c) ==
    IF Len(c.inputs) < Len(Input(w)) THEN "bundle"
    ELSE IF c.frames > 1 /\ Len(c.latests) < Len(Latest(w)) THEN "latest"
    ELSE "process"

\* After the update before the work comes the work; after the one that follows it the
\* frame is published, unless the group has failed or nobody reads what this worker makes.
Continue(w, c) ==
    IF c.on THEN Goto(w, Fetching(w, c), c)
    ELSE IF c.ret # "FAIL" /\ scene.ports[w].has_ref THEN Goto(w, "publish", c)
    ELSE Goto(w, "idle", Return(c))

\* The record goes under the time at which the update began; a second one of the same
\* microsecond is refused.
PutRecord(w, info) ==
    LET c == call[w]
        o == OpOf(w)
        refused == c.stamp \in infos[o].keys
        d == [c EXCEPT !.info = None, !.stamp = 0, !.refused = refused]
    IN  /\ infos' = IF refused THEN infos
                    ELSE [infos EXCEPT ![o] = [keys |-> @.keys \cup {c.stamp}, newest |-> info]]
        /\ Continue(w, d)
        /\ UNCHANGED <<scene, now, ref>>

PutInfo(w) ==
    /\ pc[w] = "put" /\ Mates(w) # {w}
    /\ PutRecord(w, call[w].info)
    /\ UNCHANGED <<running, began>>

\* The whole update of a worker that is alone.
PutAlone(w) ==
    /\ pc[w] = "put" /\ Mates(w) = {w}
    /\ running' = [running EXCEPT ![w] = call[w].on]
    /\ began' = Started(w)
    /\ PutRecord(w, Record(w, running', began'))

-----------------------------------------------------------------------------
(* Port::get_input_data and get_latest_data.                               *)

\* The frame of the time asked for, or the closest that is less than window away, the
\* older of two.
Find(cache, key, window) ==
    LET near == {f \in cache.frames : f.utime = key \/ Distance(f.utime, key) < window}
        closest == {f \in near : \A g \in near : Distance(f.utime, key) <= Distance(g.utime, key)}
    IN  IF near = {} THEN None
        ELSE CHOOSE f \in closest : \A g \in closest : f.utime <= g.utime

NextInput(w, c) == Input(w)[Len(c.inputs) + 1]
FindInput(w, c) ==
    LET in == NextInput(w, c) IN Find(ref[in.from], c.ts + in.offset, in.window)

\* An input is settled: the frame, or None.  asked is since when it was waited for,
\* 0 if it was not.
Settle(w, c, f, since) ==
    LET d == [c EXCEPT !.inputs = Append(@, f), !.asked = Append(@, since),
                       !.begin = 0, !.wake = 0, !.trail = 0]
    IN  Local(w, Fetching(w, d), d)

\* The first look.
Bundle(w) ==
    /\ pc[w] = "bundle"
    /\ LET c == call[w]
           f == FindInput(w, c)
       IN  IF f # None \/ NextInput(w, c).wait = 0 THEN Settle(w, c, f, 0)
           ELSE Local(w, "newest", [c EXCEPT !.begin = now])

\* (mutant) rounds down
TrailShort(wait) == wait \div CheckDt

\* The number of looks to come.
Trail(wait) == wait \div CheckDt + 1

Fresh(f, c) == f # None /\ f.utime > c.ts - MaxExpire

\* Is there any hope?  Only if the maker has given something that is not too old.
Newest(w) ==
    /\ pc[w] = "newest"
    /\ LET c == call[w]
           in == NextInput(w, c)
       IN  IF Fresh(ref[in.from].newest, c) /\ Trail(in.wait) > 0
           THEN Local(w, "poll", [c EXCEPT !.trail = Trail(in.wait), !.wake = now + CheckDt])
           ELSE Settle(w, c, None, 0)

\* (mutant) keeps the frame with which it saw that there is hope
MissedNewest(w, c) == ref[NextInput(w, c).from].newest

\* frames->at(i) was lent to the look for the newest frame, and is reset.
Missed(w, c) == None

\* Another look, after a sleep; the last one decides.
Poll(w) ==
    /\ pc[w] = "poll" /\ now >= call[w].wake
    /\ LET c == call[w]
           f == FindInput(w, c)
       IN  IF f # None THEN Settle(w, c, f, 0)
           ELSE IF c.trail = 1 THEN Settle(w, c, Missed(w, c), c.begin)
           ELSE Local(w, "poll", [c EXCEPT !.trail = @ - 1, !.wake = now + CheckDt])

\* One latest data: what was put last, unless it is too far from the trigger.
GetLatest(w) ==
    /\ pc[w] = "latest"
    /\ LET c == call[w]
           want == Latest(w)[Len(c.latests) + 1]
           f == ref[want.from].newest
           far == f # None /\ want.tolerance > 0 /\ Distance(c.ts, f.utime) > want.tolerance
           d == [c EXCEPT !.latests = Append(@, IF far THEN None ELSE f)]
       IN  Local(w, Fetching(w, d), d)

-----------------------------------------------------------------------------
(* The group of Ops, and Port::publish.                                    *)

\* (mutant) returns at once after a failure, and nobody hears that the worker is done
ProcessReturns(w) ==
    /\ pc[w] = "process"
    /\ \E st \in [ValidOps(w) -> Statuses] :
         LET c == call[w]
             ran == Processed(st, Config(w).ignore_fail)
         IN  IF ProcessStatus(ran) = "FAIL" THEN Local(w, "idle", Return(call[w]))
             ELSE Update(w, [c EXCEPT !.ran = ran, !.ret = "SUCC", !.on = FALSE,
                                      !.inputs = <<>>, !.asked = <<>>, !.latests = <<>>])

\* The end of the work: the first frame of a worker is peeked at, the others are
\* processed; then the second update begins.
Process(w) ==
    /\ pc[w] = "process"
    /\ \E st \in [ValidOps(w) -> Statuses] :
         LET c == call[w]
             ignore == Config(w).ignore_fail
             ran == IF c.frames = 1 THEN Peeked(st, ignore) ELSE Processed(st, ignore)
             ret == IF c.frames = 1 THEN PeekStatus(ran, ignore) ELSE ProcessStatus(ran)
         IN  Update(w, [c EXCEPT !.ran = ran, !.ret = ret, !.on = FALSE,
                                 !.inputs = <<>>, !.asked = <<>>, !.latests = <<>>])

\* The reference copy; one with the same time stamp is refused.
Publish(w) ==
    /\ pc[w] = "publish"
    /\ LET ts == call[w].ts
           f == [utime |-> ts, at |-> now]
       IN  ref' = IF ~scene.ports[w].has_ref \/ (\E g \in ref[w].frames : g.utime = ts) THEN ref
                  ELSE [ref EXCEPT ![w] = [frames |-> @.frames \cup {f}, newest |-> f]]
    /\ Goto(w, "idle", Return(call[w]))
    /\ UNCHANGED <<scene, now, running, began, infos>>

-----------------------------------------------------------------------------
Step(w) ==
    \/ Round(w) \/ Look(w) \/ Wake(w)
    \/ Begin(w) \/ ReadWord(w) \/ WriteWord(w) \/ Collect(w) \/ PutInfo(w) \/ PutAlone(w)
    \/ Bundle(w) \/ Newest(w) \/ Poll(w) \/ GetLatest(w) \/ Process(w) \/ Publish(w)

\* Sleeping, or without a frame.
Waiting(w) == pc[w] = "idle" \/ (pc[w] \in {"sleep", "poll"} /\ now < call[w].wake)

\* Time passes; threads may be as slow as they like for some time (a bound that is
\* part of the scenario), and then it passes only while all of them wait.
Tick ==
    /\ now < LastTime
    /\ \/ now < StartTime + scene.slack
       \/ (\A w \in Workers : Waiting(w)) /\ (\E w \in Workers : pc[w] # "idle")
    /\ now' = now + 1
    /\ UNCHANGED <<scene, shared, pc, call>>

Next == Tick \/ \E w \in Workers : Take(w) \/ Step(w)

Spec == Init /\ [][Next]_vars

\* Every thread is scheduled and the clock goes on; frames need not come.  As a call
\* has no end of steps only if it has no end of waits, it is enough that something
\* goes on as long as something can.
FairSpec == Spec /\ WF_vars(Tick \/ \E w \in Workers : Step(w))

-----------------------------------------------------------------------------
(* Properties.                                                             *)

\* The types; only a worker that has something to do is anywhere but at its start.
TypeOK ==
    /\ scene \in Scenarios /\ now \in Times
    /\ running \in [Workers -> BOOLEAN] /\ began \in [Workers -> Times]
    /\ \A o \in Operators : infos[o].keys \subseteq Times
    /\ \A w \in Workers :
         /\ pc[w] \in Labels
         /\ call[w].frames <= scene.ports[w].frames
         /\ pc[w] = "idle" => call[w] = Return(call[w])
         /\ ref[w].newest # None => ref[w].newest \in ref[w].frames

\* Between the two updates that a worker makes around its work.
Working(w) ==
    \/ pc[w] \in {"bundle", "newest", "poll", "latest", "process"}
    \/ pc[w] \in {"begin", "read", "write", "collect", "put"} /\ ~call[w].on

\* What the others hear of an operator with one worker is true (update_info): that
\* it is running, and since when, while the worker is at work, and that it is not
\* when the worker waits or has nothing to do; unless the last record was refused.
InfoTruthful ==
    \A w \in Workers : Mates(w) = {w} =>
        LET info == infos[OpOf(w)].newest
        IN  \/ call[w].refused
            \/ Working(w) /\ info = [is_running |-> TRUE, start_running_time |-> began[w]]
            \/ ~Working(w) /\ (info = None \/ ~info.is_running)

\* A worker goes to work only when each of its dependencies has had the wait its
\* policy asks for, as far as the operator was heard of at all, or when it has waited
\* for RetryTime: that a wait replaces the one of another dependency is made up for
\* by looking again.
Heeded(dep, info, c) ==
    /\ dep.policy = "BUNDLE" => now >= c.ts + dep.wait
    /\ dep.policy = "BLOCK" => ~info.is_running
    /\ dep.policy = "WAIT" => (info.is_running => now >= info.start_running_time + dep.wait)

DependenciesHeeded ==
    \A w \in Workers :
        LET c == call[w]
        IN  pc[w] = "begin" /\ Deps(w) # <<>> =>
                \/ now >= c.start + RetryTime
                \/ \A i \in DOMAIN Deps(w) : c.heard[i] = None \/ Heeded(Deps(w)[i], c.heard[i], c)

\* What is handed to the Ops is near the trigger: an input within its window around
\* the trigger's time and its offset, a latest frame within its tolerance.
FramesNear ==
    \A w \in Workers :
        /\ \A k \in DOMAIN call[w].inputs :
             LET f == call[w].inputs[k]
                 in == Input(w)[k]
                 d == Distance(call[w].ts + in.offset, f.utime)
             IN  f # None => d = 0 \/ d < in.window
        /\ \A k \in DOMAIN call[w].latests :
             LET f == call[w].latests[k]
                 max == Latest(w)[k].tolerance
             IN  f # None /\ max > 0 => Distance(call[w].ts, f.utime) <= max

\* An input that was waited for and is not there did not come within the wait: no
\* frame in the window was put until the wait was over.
NotMissed ==
    \A w \in Workers : \A k \in DOMAIN call[w].asked :
        LET in == Input(w)[k]
            since == call[w].asked[k]
        IN  since > 0 =>
                \A f \in ref[in.from].frames :
                    Distance(call[w].ts + in.offset, f.utime) < in.window =>
                        f.at > since + in.wait

\* What is published has been through the group: unless failures are ignored, no Op
\* has failed on it, and every Op has seen it, but for those after an IGNORE, and
\* those too if it was only peeked at.
WellProcessed ==
    \A w \in Workers : pc[w] = "publish" /\ ~Config(w).bypass =>
        LET ran == call[w].ran
            all == DOMAIN ran = ValidOps(w)
        IN  IF Config(w).ignore_fail THEN all
            ELSE /\ \A i \in DOMAIN ran : ran[i] # "FAIL"
                 /\ all \/ (call[w].frames > 1 /\ ran[Len(ran)] = "IGNORE")

\* Whatever is heard of others, true or not, and whoever waits for whom, every call comes
\* to an end: when no more frames come, all workers are back at their start.
CallsEnd == []<>(\A w \in Workers : pc[w] = "idle")
=============================================================================
