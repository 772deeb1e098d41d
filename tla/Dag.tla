-------------------------------- MODULE Dag --------------------------------
(***************************************************************************)
(* From a configuration to a running graph: DAG (framework/dag.h),         *)
(* DAGStreaming::parse_config, registe_data and init_dag                   *)
(* (framework/dag_streaming.cpp), Operator::init and Port::init.  One      *)
(* thread; one action per turn of the outer loops.                         *)
(*                                                                         *)
(* An operator is the record of its OperatorConfig.  A type "" and a rate  *)
(* 0 stand for fields that are not given; an algorithm of its own is a     *)
(* group of one Op, none a group without.  A failed step leaves its        *)
(* partial results out, as the program ends.                               *)
(***************************************************************************)
EXTENDS DagSort, SeqProcessor

\* The name of some data: what it begins with, what it says of them, and the copies they
\* are of others; None is the empty name.
Name(of, kind, hz) == [of |-> of, kind |-> kind, hz |-> hz, copies |-> <<>>]
Plain(string) == Name(string, "", 0)
None == Plain("")
Reference(event) == Name(event, "RO", 0)

\* What the file has of an output, of an Op and of an operator.
OutputConfig ==
    [event : STRING, data : [of : STRING, kind : {""}, hz : {0}, copies : {<<>>}],
     type : STRING, hz : Nat, downstream : {<<>>}, has_reference : {FALSE}]
Wanted == [num : Int, min : Int, max : Int]
OpConfig == [known : BOOLEAN, bypass : BOOLEAN, configured : BOOLEAN, input : Wanted, output : Wanted]
OperatorConfig ==
    [name : STRING, trigger : Seq(STRING), input : Seq(STRING), latest : Seq(STRING),
     output : Seq(OutputConfig), enable_if : STRING, disable_if : STRING,
     trigger_data : {<<>>}, upstream : {{}}, group : Seq(OpConfig), input_offset : Seq(Int),
     input_window : Seq(Int), input_wait : Seq(Int), latest_tolerate_offset : Seq(Int)]

CONSTANTS
    Configs,      \* the configurations considered: sequences of operators
    Environment,  \* the environment variables that are set
    TypeHz        \* the types of frame caches that are registered, with their rates

ASSUME ConfigsAssumption == Configs \subseteq Seq(OperatorConfig)
ASSUME TypesAssumption == \A type \in DOMAIN TypeHz : TypeHz[type] \in Nat \ {0}

VARIABLES
    stage,                 \* the loop that is running
    dag_config,            \* the operators as the file gives them
    ops,                   \* the operators that are on, with what is found out about them
    todo,                  \* the turns of that loop to come, as tuples of indices
    shared_data_map_,      \* the caches: [name |-> rate], 0 if it does not hold frames
    new_data,              \* registe_data: those among them that are not references
    events_,               \* the events: [from, to], the workers; an id is an index
    operator_pub_events_,  \* [worker |-> the ids it publishes, by downstream]
    operator_sub_events_,  \* [worker |-> the id it subscribes to, or 0]
    pipelines_,            \* the chains of events from a source to an end
    ports_                 \* [worker |-> its port], as far as they are initialised

dataVars == <<shared_data_map_, new_data>>
eventVars == <<events_, operator_pub_events_, operator_sub_events_, pipelines_>>
vars == <<sortVars, stage, dag_config, ops, todo, dataVars, eventVars, ports_>>

Stages == {"check", "sort", "parse", "link", "register", "events",
           "operators", "ready", "failed"}

EventsOf(o) == {o.output[m].event : m \in DOMAIN o.output}
Outputs == UNION {{<<i, m>> : m \in DOMAIN ops[i].output} : i \in DOMAIN ops}
Workers == UNION {{<<i, n>> : n \in DOMAIN ops[i].trigger} : i \in DOMAIN ops}
Output(w) == ops[w[1]].output[w[2]]

\* The order of nested loops.
Before(t, u) == \E k \in DOMAIN t : t[k] < u[k] /\ \A j \in 1 .. (k - 1) : t[j] = u[j]
IsNext(t) == t \in todo /\ \A u \in todo \ {t} : Before(t, u)

\* A map with more in it.
Joined(f, g) == [x \in DOMAIN f \cup DOMAIN g |-> IF x \in DOMAIN f THEN f[x] ELSE g[x]]

Fail ==
    /\ stage' = "failed"
    /\ UNCHANGED <<sortVars, ops, todo, dataVars, eventVars, ports_>>

Init ==
    /\ dag_config \in Configs /\ ops = <<>>
    /\ stage = "check" /\ todo = {<<k>> : k \in DOMAIN dag_config}
    /\ links = <<>> /\ indegree = <<>> /\ scan = 1 /\ q = <<>> /\ sorted = <<>> /\ rest = {}
    /\ shared_data_map_ = <<>> /\ new_data = {}
    /\ events_ = <<>> /\ operator_pub_events_ = <<>> /\ operator_sub_events_ = <<>>
    /\ pipelines_ = {} /\ ports_ = <<>>

-----------------------------------------------------------------------------
(* check_operator_config and sort_operator.                                *)

Contradictory(o) == o.enable_if # "" /\ o.disable_if # ""
Enabled(o) == IF o.enable_if # "" THEN o.enable_if \in Environment
                                  ELSE o.disable_if \notin Environment

\* An operator is upstream of those it triggers and of those that read its output.
OpLinks(s) ==
    [i \in DOMAIN s |-> {j \in DOMAIN s \ {i} :
        EventsOf(s[i]) \cap (Elements(s[j].trigger) \cup Elements(s[j].input)) # {}}]

Check ==
    /\ stage = "check"
    /\ \E t \in todo :
         LET o == dag_config[t[1]]
         IN  /\ IsNext(t)
             /\ \/ Contradictory(o) /\ Fail
                \/ /\ ~Contradictory(o)
                   /\ ops' = IF Enabled(o) THEN Append(ops, o) ELSE ops
                   /\ todo' = todo \ {t}
                   /\ UNCHANGED <<sortVars, stage, dataVars, eventVars, ports_>>

Checked ==
    /\ stage = "check" /\ todo = {}
    /\ StartSort(OpLinks(ops)) /\ stage' = "sort"
    /\ UNCHANGED <<ops, todo, dataVars, eventVars, ports_>>

Sort ==
    /\ stage = "sort" /\ SortStep
    /\ UNCHANGED <<stage, ops, todo, dataVars, eventVars, ports_>>

\* (mutant) takes whatever has been sorted
SortedUnchecked ==
    /\ stage = "sort" /\ SortDone
    /\ ops' = [k \in DOMAIN sorted |-> ops[sorted[k]]]
    /\ stage' = "parse"
    /\ UNCHANGED <<sortVars, todo, dataVars, eventVars, ports_>>

\* The operators get the order that was found; from now on an index is a place in it.
Sorted ==
    /\ stage = "sort" /\ SortDone
    /\ \/ Len(sorted) # Len(ops) /\ Fail
       \/ /\ Len(sorted) = Len(ops)
          /\ ops' = [k \in DOMAIN sorted |-> ops[sorted[k]]]
          /\ stage' = "parse"
          /\ UNCHANGED <<sortVars, todo, dataVars, eventVars, ports_>>

-----------------------------------------------------------------------------
(* parse_config, link_operator, set_reference.                             *)

\* Which output triggers whom: <<up, down, output, trigger>>, downwards only.
Matches == {t \in UNION {{<<w[1], v[1], w[2], v[2]>> : w \in Outputs} : v \in Workers} :
    t[1] < t[2] /\ ops[t[1]].output[t[3]].event = ops[t[2]].trigger[t[4]]}

\* No type with a rate; then the fields that are not the user's are reset, and
\* link_operator notes who is upstream of whom.
Parse ==
    /\ stage = "parse"
    /\ \/ (\E w \in Outputs : Output(w).hz > 0 /\ Output(w).type # "") /\ Fail
       \/ /\ \A w \in Outputs : ~(Output(w).hz > 0 /\ Output(w).type # "")
          /\ ops' = [i \in DOMAIN ops |->
               [ops[i] EXCEPT !.trigger_data = [n \in DOMAIN ops[i].trigger |-> None],
                              !.upstream = {t[1] : t \in {u \in Matches : u[2] = i}},
                              !.output = [m \in DOMAIN @ |->
                                            [@[m] EXCEPT !.downstream = <<>>]]]]
          /\ todo' = Matches /\ stage' = "link"
          /\ UNCHANGED <<sortVars, dataVars, eventVars, ports_>>

\* get_data_and_type_name: the name and the type of the data that goes from output
\* up to the trigger of output down, None or "" when they cannot be inferred.
DataName(up, down) ==
    IF down.hz > 0 /\ down.data = None
    THEN Name(up.event, "CACHED_DATA", down.hz)
    ELSE IF up.data # None THEN up.data
    ELSE IF down.type # "" THEN Name(down.type, "DATA", 0) ELSE None

TypeName(up, down) == IF down.type # "" THEN down.type ELSE up.type

Inferred(up, down) ==
    /\ ~(down.hz > 0 /\ down.type # "")
    /\ TypeName(up, down) # "" /\ DataName(up, down) # None

\* (mutant) names nothing a copy
CopiedSame(data, i, m, kind) == data

\* The second and later downstreams of an output get data of their own.
Copied(data, i, m, kind) ==
    LET before == Len(ops[i].output[m].downstream)
        copy == [nth |-> before, of |-> ops[i].name, kind |-> kind]
    IN  IF before = 0 THEN data ELSE [data EXCEPT !.copies = Append(@, copy)]

\* A downstream without output of its own for that trigger.
LinkEnd(i, j, m, n) ==
    LET up == ops[i].output[m]
        data == Copied(up.data, i, m, "END_COPY")
    IN  /\ n \notin DOMAIN ops[j].output
        /\ ops' = [ops EXCEPT
             ![i].output[m].downstream =
                Append(@, [op |-> j, trigger |-> n, data |-> data, type |-> up.type, hz |-> 0]),
             ![j].trigger_data[n] = data]

\* (mutant) subscribes to the name before it is made one of a copy
LinkOnStale(i, j, m, n) ==
    LET up == ops[i].output[m]
        down == ops[j].output[n]
        name == DataName(up, down)
        data == IF down.data = None THEN Copied(name, i, m, "COPY") ELSE name
        type == TypeName(up, down)
    IN  ops' = [ops EXCEPT
          ![i].output[m].downstream =
             Append(@, [op |-> j, trigger |-> n, data |-> data, type |-> type, hz |-> down.hz]),
          ![j].output[n].data = IF down.data # None THEN @ ELSE data,
          ![j].output[n].type = type,
          ![j].trigger_data[n] = DataName(up, down)]

\* A downstream that hands its data on: the data, unless the configuration has a
\* name for it, goes by the name of the data it is made from.
LinkOn(i, j, m, n) ==
    LET up == ops[i].output[m]
        down == ops[j].output[n]
        name == DataName(up, down)
        data == IF down.data = None THEN Copied(name, i, m, "COPY") ELSE name
        type == TypeName(up, down)
    IN  ops' = [ops EXCEPT
          ![i].output[m].downstream =
             Append(@, [op |-> j, trigger |-> n, data |-> data, type |-> type, hz |-> down.hz]),
          ![j].output[n].data = IF down.data # None THEN @ ELSE data,
          ![j].output[n].type = type,
          ![j].trigger_data[n] = data]

Link ==
    /\ stage = "link"
    /\ \E t \in todo :
         LET i == t[1]  j == t[2]  m == t[3]  n == t[4]
             on == n \in DOMAIN ops[j].output
             ok == on => Inferred(ops[i].output[m], ops[j].output[n])
         IN  /\ IsNext(t)
             /\ \/ ~ok /\ Fail
                \/ /\ ok
                   /\ (on /\ LinkOn(i, j, m, n)) \/ LinkEnd(i, j, m, n)
                   /\ todo' = todo \ {t}
                   /\ UNCHANGED <<sortVars, stage, dataVars, eventVars, ports_>>

ReadByOthers(i, event) ==
    \E j \in DOMAIN ops \ {i} : event \in Elements(ops[j].input) \cup Elements(ops[j].latest)

SetReference ==
    /\ stage = "link" /\ todo = {}
    /\ ops' = [i \in DOMAIN ops |-> [ops[i] EXCEPT !.output =
         [m \in DOMAIN @ |-> [@[m] EXCEPT !.has_reference = ReadByOthers(i, ops[i].output[m].event)]]]]
    /\ todo' = Outputs /\ stage' = "register"
    /\ UNCHANGED <<sortVars, dataVars, eventVars, ports_>>

-----------------------------------------------------------------------------
(* registe_data and SharedDataManager.                                     *)

\* The data of an output: one for each downstream, then its own.
DataOf(out) == [k \in DOMAIN out.downstream |->
                   LET d == out.downstream[k] IN [data |-> d.data, type |-> d.type, hz |-> d.hz]]
               \o <<[data |-> out.data, type |-> out.type, hz |-> out.hz]>>

CanMake(d) == d.hz > 0 \/ d.type \in DOMAIN TypeHz
HzOf(d) == IF d.hz > 0 THEN d.hz ELSE TypeHz[d.type]

\* get_shared_data, for those who want frames: the names it finds
FrameCaches == {name \in DOMAIN shared_data_map_ : shared_data_map_[name] > 0}

\* One output: the reference data, then its data, unless a name is known already; a
\* name that is taken by something else is an error.
Register ==
    /\ stage = "register"
    /\ \E w \in todo :
         LET out == Output(w)
             data == DataOf(out)
             fresh == {k \in DOMAIN data : data[k].data \notin new_data
                          /\ \A j \in 1 .. (k - 1) : data[j].data # data[k].data}
             names == {data[k].data : k \in fresh}
             ref == IF out.has_reference THEN {Reference(out.event)} ELSE {}
             hz(name) == IF name \in ref THEN HzOf(out)
                         ELSE HzOf(data[CHOOSE k \in fresh : data[k].data = name])
             ok == /\ (names \cup ref) \cap DOMAIN shared_data_map_ = {} /\ names \cap ref = {}
                   /\ out.has_reference => CanMake(out)
                   /\ \A k \in fresh : CanMake(data[k])
         IN  /\ IsNext(w)
             /\ \/ ~ok /\ Fail
                \/ /\ ok
                   /\ shared_data_map_' = Joined(shared_data_map_, [name \in names \cup ref |-> hz(name)])
                   /\ new_data' = new_data \cup names
                   /\ todo' = todo \ {w}
                   /\ UNCHANGED <<sortVars, stage, ops, eventVars, ports_>>

-----------------------------------------------------------------------------
(* init_dag: an event for every downstream.                                *)

StartEvents ==
    /\ stage = "register" /\ todo = {}
    /\ operator_pub_events_' = [w \in Outputs |-> <<>>]
    /\ operator_sub_events_' = [w \in Workers |-> 0]
    /\ todo' = Outputs /\ stage' = "events"
    /\ UNCHANGED <<sortVars, ops, dataVars, events_, pipelines_, ports_>>

\* (mutant) counts from 0
FirstIdZero == Len(events_)

FirstId == Len(events_) + 1

\* An output without downstream has one event too, to itself, which nobody subscribes to.
InitEvents ==
    /\ stage = "events"
    /\ \E w \in todo :
         LET down == Output(w).downstream
             to == IF down = <<>> THEN <<w>>
                   ELSE [k \in DOMAIN down |-> <<down[k].op, down[k].trigger>>]
             id == [k \in DOMAIN to |-> FirstId + k - 1]
         IN  /\ IsNext(w)
             /\ events_' = events_ \o [k \in DOMAIN to |-> [from |-> w, to |-> to[k]]]
             /\ operator_pub_events_' = [operator_pub_events_ EXCEPT ![w] = id]
             /\ operator_sub_events_' = [v \in Workers |->
                  IF \E k \in DOMAIN down : to[k] = v
                  THEN id[CHOOSE k \in DOMAIN down : to[k] = v]
                  ELSE operator_sub_events_[v]]
             /\ todo' = todo \ {w}
             /\ UNCHANGED <<sortVars, stage, ops, dataVars, pipelines_, ports_>>

-----------------------------------------------------------------------------
(* EventManager::init: a queue for every event, and the chains of events.  *)

\* (mutant) the other way round
AdjacentBack(e, f) == e # f /\ events_[f].to = events_[e].from

\* The worker to which e goes publishes f.
Adjacent(e, f) == e # f /\ events_[e].to = events_[f].from

\* traverse, for every event: the chains that begin with it.
Chains ==
    LET chains[e \in DOMAIN events_] ==
          LET next == {f \in DOMAIN events_ : Adjacent(e, f)}
          IN  IF next = {} THEN {<<e>>}
              ELSE UNION {{<<e>> \o chain : chain \in chains[f]} : f \in next}
    IN  chains

Heads == {e \in DOMAIN events_ : \A f \in DOMAIN events_ : ~Adjacent(f, e)}

InitEventManager ==
    /\ stage = "events" /\ todo = {}
    /\ pipelines_' = UNION {Chains[e] : e \in Heads}
    /\ todo' = {<<i>> : i \in DOMAIN ops} /\ stage' = "operators"
    /\ UNCHANGED <<sortVars, ops, dataVars, events_, operator_pub_events_,
                   operator_sub_events_, ports_>>

-----------------------------------------------------------------------------
(* Operator::init and Port::init.                                          *)

IsInput(i) == ops[i].upstream = {}
HasOutput(w) == w[2] \in DOMAIN ops[w[1]].output

\* init_trigger_data: a worker without upstream works on its own output data.
TriggerData(w) ==
    LET data == ops[w[1]].trigger_data[w[2]]
    IN  IF data = None /\ HasOutput(w) THEN Output(w).data ELSE data

\* init_output_data: the caches an output is put into.
OutputData(w) ==
    IF ~HasOutput(w) THEN <<>>
    ELSE IF Output(w).downstream # <<>>
         THEN [k \in DOMAIN Output(w).downstream |-> Output(w).downstream[k].data]
         ELSE IF Output(w).data # ops[w[1]].trigger_data[w[2]] THEN <<Output(w).data>> ELSE <<>>

\* Downstreams that get the very frame the worker has got, in the cache it is in.
NoCopy(w) ==
    {k \in DOMAIN OutputData(w) :
        /\ ~IsInput(w[1]) /\ Output(w).downstream # <<>>
        /\ Output(w).data = ops[w[1]].trigger_data[w[2]]
        /\ OutputData(w)[k] = Output(w).data}

\* (mutant) frames have to be a whole period apart
PeriodWhole(trigger_hz, data_hz) ==
    IF data_hz < trigger_hz THEN 1000000 \div data_hz ELSE 0

\* The least time in microseconds between two frames that are put into a cache, if its
\* rate is below that of the frames: with half a period of theirs to spare.
Period(trigger_hz, data_hz) ==
    IF data_hz < trigger_hz
    THEN (1000000 \div data_hz) - ((1000000 \div 2) \div trigger_hz) ELSE 0

OutputPeriod(w) ==
    [k \in DOMAIN OutputData(w) |->
        Period(shared_data_map_[TriggerData(w)], shared_data_map_[OutputData(w)[k]])]

\* init_input_data and init_latest_data: inputs are of no use to a worker without
\* upstream, and are not looked up for it.
Reads(i) == Elements(ops[i].latest) \cup (IF IsInput(i) THEN {} ELSE Elements(ops[i].input))

\* (mutant) the reference of the operator's first output
RefFirst(w) ==
    IF HasOutput(w) /\ Output(w).has_reference THEN Reference(ops[w[1]].output[1].event) ELSE None

RefData(w) == IF HasOutput(w) /\ Output(w).has_reference THEN Reference(Output(w).event) ELSE None

InitPort(w) ==
    [trigger_data |-> TriggerData(w),
     output_data |-> OutputData(w),
     nocopy |-> NoCopy(w),
     output_period |-> OutputPeriod(w),
     ref |-> RefData(w),
     reads |-> Reads(w[1])]

\* (mutant) has one for each in any case
OneEachAlways(numbers, names) == Len(numbers) = Len(names)

\* One for each, or none at all.
OneEach(numbers, names) == Len(numbers) \in {0, Len(names)}

\* The first checks of init_input_data and init_latest_data.
NumbersOK(o) ==
    /\ \A numbers \in {o.input_offset, o.input_window, o.input_wait} : OneEach(numbers, o.input)
    /\ \A k \in DOMAIN o.input_window : o.input_window[k] >= 0
    /\ OneEach(o.latest_tolerate_offset, o.latest)

CanInit(i) ==
    LET inputs == ops[i].input
        mine == {w \in Workers : w[1] = i}
    IN  /\ mine # {}
        /\ NumbersOK(ops[i])
        /\ CanInitGroup(ops[i].group, Len(inputs), Len(ops[i].trigger))
        /\ \A w \in mine :
             /\ TriggerData(w) # None \/ HasOutput(w)
             /\ TriggerData(w) \in FrameCaches
             /\ Elements(OutputData(w)) \subseteq FrameCaches
        /\ \A e \in Reads(i) : Reference(e) \in FrameCaches
        /\ IsInput(i) \/ \A j, k \in DOMAIN inputs : inputs[j] = inputs[k] => j = k
        /\ Plain(ops[i].name) \notin DOMAIN shared_data_map_

\* An operator, all of its ports, and the cache of what it tells about itself.
InitOperator ==
    /\ stage = "operators"
    /\ \E t \in todo :
         LET i == t[1]
         IN  /\ IsNext(t)
             /\ \/ ~CanInit(i) /\ Fail
                \/ /\ CanInit(i)
                   /\ ports_' = Joined([w \in {v \in Workers : v[1] = i} |-> InitPort(w)], ports_)
                   /\ shared_data_map_' = Joined(shared_data_map_, [name \in {Plain(ops[i].name)} |-> 0])
                   /\ todo' = todo \ {t}
                   /\ UNCHANGED <<sortVars, stage, ops, new_data, eventVars>>

Ready ==
    /\ stage = "operators" /\ todo = {}
    /\ stage' = "ready"
    /\ UNCHANGED <<sortVars, ops, todo, dataVars, eventVars, ports_>>

Step ==
    \/ Check \/ Checked \/ Sort \/ Sorted \/ Parse \/ Link \/ SetReference \/ Register
    \/ StartEvents \/ InitEvents \/ InitEventManager \/ InitOperator \/ Ready

Next == Step /\ UNCHANGED dag_config

Spec == Init /\ [][Next]_vars

-----------------------------------------------------------------------------
\* The types; events and links name workers that exist, and links go downwards.
TypeOK ==
    /\ stage \in Stages
    /\ Elements(q) \cup Elements(sorted) \subseteq Nodes /\ Len(sorted) <= Cardinality(Nodes)
    /\ new_data \subseteq FrameCaches
    /\ \A k \in DOMAIN events_ : events_[k].from \in Outputs
    /\ \A w \in DOMAIN operator_pub_events_ :
         Elements(operator_pub_events_[w]) \subseteq DOMAIN events_
    /\ DOMAIN ports_ \subseteq Workers

\* What a configuration must be like, part by part: of the operators that are on
On == {i \in DOMAIN dag_config : Enabled(dag_config[i])}

\* some make what others want;
MadeFor(i, e) == \E p \in On \ {i} : e \in EventsOf(dag_config[p])
WaitsFor(i, p) ==
    p # i /\ EventsOf(dag_config[p]) \cap (Elements(dag_config[i].trigger) \cup Elements(dag_config[i].input)) # {}

\* no operator says both when it is on and when it is off,
SwitchesClear == \A i \in DOMAIN dag_config : ~Contradictory(dag_config[i])

\* no output has both a rate and a type,
RatesClear ==
    \A i \in On : \A m \in DOMAIN dag_config[i].output :
        dag_config[i].output[m].hz = 0 \/ dag_config[i].output[m].type = ""

\* no operators wait for each other in a circle,
NoCircle == ~\E S \in SUBSET On : S # {} /\ \A i \in S : \E p \in S : WaitsFor(i, p)

\* the first Op of a group can do with the inputs there are and the last with the
\* triggers, where a least number that is the greatest, too, admits none, and the
\* numbers are as many as what they are for,
Admits(io, n) ==
    /\ io.num > 0 => n = io.num
    /\ io.min > 0 => n >= io.min
    /\ io.max > 0 => n <= io.max /\ io.min # io.max
OpsFit ==
    \A i \in On :
        LET o == dag_config[i]
        IN  /\ o.group # <<>>
            /\ \A op \in Elements(o.group) : op.known /\ (op.bypass \/ op.configured)
            /\ Admits(o.group[1].input, Len(o.input))
            /\ Admits(o.group[Len(o.group)].output, Len(o.trigger))
            /\ \A numbers \in {o.input_offset, o.input_window, o.input_wait} :
                 numbers # <<>> => Len(numbers) = Len(o.input)
            /\ o.latest_tolerate_offset # <<>> => Len(o.latest_tolerate_offset) = Len(o.latest)
            /\ Elements(o.input_window) \subseteq Nat

\* what is read is made,
InputsMade ==
    \A i \in On :
        LET triggered == \E e \in Elements(dag_config[i].trigger) : MadeFor(i, e)
        IN  \A e \in Elements(dag_config[i].latest)
                        \cup (IF triggered THEN Elements(dag_config[i].input) ELSE {}) : MadeFor(i, e)

\* and a worker that nobody triggers tells the type of what it makes, or a rate if that
\* triggers nobody.
Given(i, n) ==
    LET out == dag_config[i].output[n]
    IN  \/ out.type # ""
        \/ out.hz > 0 /\ \A j \in On \ {i} : out.event \notin Elements(dag_config[j].trigger)
TriggersGiven ==
    \A i \in On : \A n \in DOMAIN dag_config[i].trigger :
        \/ MadeFor(i, dag_config[i].trigger[n])
        \/ n \in DOMAIN dag_config[i].output /\ Given(i, n)

Startable == SwitchesClear /\ RatesClear /\ NoCircle /\ OpsFit /\ InputsMade /\ TriggersGiven

\* The program starts only with a configuration that can work,
StartsOnlyStartable == stage = "ready" => Startable

\* and refuses no other (every early return from parse_config to Operator::init).
FailsOnlyUnstartable == stage = "failed" => ~Startable

\* Once it has started: for every trigger that is another operator's output, the
\* event that output publishes is the one the worker subscribes to, no other worker
\* does, and the data goes to the cache in which the worker looks for it.
TriggersConnected ==
    stage = "ready" =>
        \A v \in Workers, w \in Outputs :
            w[1] # v[1] /\ Output(w).event = ops[v[1]].trigger[v[2]] =>
                \E k \in DOMAIN operator_pub_events_[w] :
                    /\ operator_pub_events_[w][k] = operator_sub_events_[v]
                    /\ events_[operator_sub_events_[v]].to = v
                    /\ ports_[w].output_data[k] = ports_[v].trigger_data
                    /\ \A u \in Workers \ {v} :
                         operator_sub_events_[u] # operator_sub_events_[v]

\* Once it has started: no two copies of frames go to the same cache, whoever makes
\* them, so that none is refused because of the other's.
OneWriter ==
    stage = "ready" =>
        \A v, w \in Workers :
            \A j \in DOMAIN ports_[v].output_data \ ports_[v].nocopy,
               k \in DOMAIN ports_[w].output_data \ ports_[w].nocopy :
                ports_[v].output_data[j] = ports_[w].output_data[k] => v = w /\ j = k

\* Once it has started: what a worker reads besides its trigger, the worker that
\* makes it puts there, and nobody takes it away as a trigger.
ReadersServed ==
    stage = "ready" =>
        \A v \in Workers : \A e \in ports_[v].reads :
            /\ \E w \in Workers : HasOutput(w) /\ Output(w).event = e
                                  /\ ports_[w].ref = Reference(e)
            /\ \A w \in Workers : ports_[w].trigger_data # Reference(e)

\* Of frames that come at a rate, regularly, those that are at least a period apart come
\* about as often as is asked for: at the multiple of their own period that is closest to
\* the one asked for, or all of them if that is a higher rate.
OftenEnough(asked, trigger_hz, period) ==
    LET every == 1000000 \div trigger_hz
        apart == Max({1, (period + every - 1) \div every}) * every
        wanted == 1000000 \div asked
    IN  IF 0 < asked /\ asked < trigger_hz
        THEN 2 * Max({apart - wanted, wanted - apart}) <= every + 2
        ELSE asked > 0 => apart = every

\* Once it has started: a downstream that asks for a rate below that of the data it is
\* made from gets frames about that often, when those come regularly.  A link with a
\* higher rate lets every frame pass.
RatesMet ==
    stage = "ready" =>
        \A w \in Workers : HasOutput(w) =>
            \A k \in {j \in DOMAIN Output(w).downstream :
                        LET d == Output(w).downstream[j] IN d.trigger \in DOMAIN ops[d.op].output} :
                LET d == Output(w).downstream[k]
                IN  OftenEnough(ops[d.op].output[d.trigger].hz,
                                shared_data_map_[ports_[w].trigger_data],
                                ports_[w].output_period[k])

\* The pipelines are the ways through the graph (EventManager::init, traverse): each
\* goes on from the worker it came to, from a worker to which no event goes to one that
\* publishes none but to itself; and every event is on one.
PipelinesComplete ==
    stage \in {"operators", "ready"} =>
        LET into(w) == {e \in DOMAIN events_ : events_[e].to = w /\ events_[e].from # w}
            outOf(w) == {e \in DOMAIN events_ : events_[e].from = w}
        IN  /\ \A p \in pipelines_ :
                 /\ \A k \in 1 .. (Len(p) - 1) : events_[p[k]].to = events_[p[k + 1]].from
                 /\ into(events_[p[1]].from) = {}
                 /\ outOf(events_[p[Len(p)]].to) \subseteq {p[Len(p)]}
            /\ DOMAIN events_ = UNION {Elements(p) : p \in pipelines_}

\* Every downstream of an output gets its results: no two of them share the cache
\* into which each is given a copy.
EachDownstreamFed ==
    stage = "ready" =>
        \A w \in Workers :
            \A j, k \in DOMAIN ports_[w].output_data \ ports_[w].nocopy :
                ports_[w].output_data[j] = ports_[w].output_data[k] => j = k

-----------------------------------------------------------------------------
(* Configurations that are clear about who makes what: the theorems ask    *)
(* for some of these.                                                      *)

\* No two outputs of operators that are on have the same event.
OneMaker ==
    \A s \in Configs : \A i, j \in DOMAIN s : Enabled(s[i]) /\ Enabled(s[j]) =>
        \A m \in DOMAIN s[i].output, n \in DOMAIN s[j].output :
            s[i].output[m].event = s[j].output[n].event => i = j /\ m = n

\* No operator has more outputs than triggers: each output has a worker that makes it.
OutputsTriggered == \A s \in Configs : \A i \in DOMAIN s : Len(s[i].output) <= Len(s[i].trigger)

\* Output m of operator i has a trigger of its own that another operator's output is,
Triggered(s, i, m) ==
    /\ m \in DOMAIN s[i].trigger
    /\ \E j \in DOMAIN s \ {i} : Enabled(s[j]) /\ s[i].trigger[m] \in EventsOf(s[j])

\* or is another operator's trigger.
Triggering(s, i, m) ==
    \E j \in DOMAIN s \ {i} : Enabled(s[j]) /\ s[i].output[m].event \in Elements(s[j].trigger)

\* The file has a name for data just where they come from, and no two sources have the
\* same; of those that have none, at most one triggers others.
SourcesNamed ==
    \A s \in Configs : \A i, j \in DOMAIN s : Enabled(s[i]) /\ Enabled(s[j]) =>
        \A m \in DOMAIN s[i].output, n \in DOMAIN s[j].output :
            /\ Triggered(s, i, m) => s[i].output[m].data = None
            /\ /\ ~Triggered(s, i, m) /\ ~Triggered(s, j, n)
               /\ s[i].output[m].data = s[j].output[n].data
               /\ s[i].output[m].data # None \/ (Triggering(s, i, m) /\ Triggering(s, j, n))
               => i = j /\ m = n

\* No operator reads what it makes itself.
OthersRead ==
    \A s \in Configs : \A i \in DOMAIN s :
        EventsOf(s[i]) \cap (Elements(s[i].input) \cup Elements(s[i].latest)) = {}

\* Data that have no type where they come from share their name with no others there, and
\* nobody who makes something from them gives that a type.
SourcesTyped ==
    /\ "" \notin DOMAIN TypeHz
    /\ \A s \in Configs : \A i, j \in DOMAIN s : Enabled(s[i]) /\ Enabled(s[j]) =>
         \A m \in DOMAIN s[i].output, n \in DOMAIN s[j].output :
             ~Triggered(s, i, m) /\ s[i].output[m].type = "" =>
                 /\ ~Triggered(s, j, n) /\ s[j].output[n].data = s[i].output[m].data => i = j /\ m = n
                 /\ i # j /\ n \in DOMAIN s[j].trigger /\ s[j].trigger[n] = s[i].output[m].event =>
                      s[j].output[n].type = ""

\* No rate is above one in a microsecond, the unit in which periods are counted.
RatesCountable ==
    /\ \A s \in Configs : \A i \in DOMAIN s : \A m \in DOMAIN s[i].output : s[i].output[m].hz <= 1000000
    /\ \A type \in DOMAIN TypeHz : TypeHz[type] <= 1000000
=============================================================================
