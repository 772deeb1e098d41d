---------------------------- MODULE Operator_proofs ----------------------------
(***************************************************************************)
(* Proofs about Operator for every set of operators, workers and ports,    *)
(* every dependency between them, and every time limit.                    *)
(***************************************************************************)
EXTENDS Operator, Induction

Frames == [utime : Nat, at : Nat]
Infos == [is_running : BOOLEAN, start_running_time : Nat]
Dependencies == [on : Operators, policy : {"WAIT", "BLOCK", "BUNDLE"}, wait : Nat]
InputMetas == [from : Workers, offset : Int, window : Nat, wait : Nat]
LatestMetas == [from : Workers, tolerance : Nat]

Calls ==
    [ts : Nat, frames : Nat, start : Nat, now : Nat, wait_time : Nat,
     heard : Seq(Infos \cup {None}), wake : Nat, stamp : Times, on : BOOLEAN,
     word : SUBSET Workers, info : Infos \cup {None}, refused : BOOLEAN,
     inputs : Seq(Frames \cup {None}), asked : Seq(Nat), begin : Nat, trail : Nat,
     latests : Seq(Frames \cup {None}), ran : Seq(Statuses), ret : Statuses]

\* The types.
Typed ==
    /\ scene \in Scenarios
    /\ now \in Times /\ StartTime <= now
    /\ running \in [Workers -> BOOLEAN] /\ began \in [Workers -> Times]
    /\ infos \in [Operators -> [keys : SUBSET Times, newest : Infos \cup {None}]]
    /\ ref \in [Workers -> [frames : SUBSET Frames, newest : Frames \cup {None}]]
    /\ pc \in [Workers -> Labels] /\ call \in [Workers -> Calls]

\* A sequence, its places and its elements.
LEMMA SeqElements ==
    ASSUME NEW T, NEW q \in Seq(T)
    PROVE  Len(q) \in Nat /\ DOMAIN q = 1 .. Len(q) /\ \A i \in DOMAIN q : q[i] \in T
OBVIOUS

\* The types of the configuration.
LEMMA ConfigTypes ==
    ASSUME Typed, NEW w \in Workers
    PROVE  /\ OpOf(w) \in Operators /\ Deps(w) \in Seq(Dependencies)
           /\ Config(w).bypass \in BOOLEAN /\ Config(w).ignore_fail \in BOOLEAN
           /\ Input(w) \in Seq(InputMetas) /\ Latest(w) \in Seq(LatestMetas)
           /\ scene.ports[w].frames \in Nat /\ scene.ports[w].ages \subseteq -1 .. Lag
BY ScenariosAssumption
   DEF Typed, OpOf, Deps, Config, Input, Latest, Dependencies, InputMetas, LatestMetas

\* The empty call.
LEMMA NewCallType == NewCall \in Calls
<1>1. <<>> \in Seq(Infos \cup {None}) /\ <<>> \in Seq(Frames \cup {None}) /\ <<>> \in Seq(Nat)
      /\ <<>> \in Seq(Statuses)
  OBVIOUS
<1>2. 0 \in Times
  BY TimesAssumption DEF Times
<1>. QED
  BY <1>1, <1>2 DEF NewCall, Calls, Statuses

-----------------------------------------------------------------------------
(* The types are kept.                                                     *)

\* Where a worker goes to with locals of their types.
LEMMA GotoTypes ==
    ASSUME Typed, NEW w \in Workers, NEW label \in Labels, NEW d \in Calls, Goto(w, label, d)
    PROVE  /\ pc' \in [Workers -> Labels] /\ call' \in [Workers -> Calls]
           /\ pc'[w] = label /\ call'[w] = d
           /\ \A v \in Workers \ {w} : pc'[v] = pc[v] /\ call'[v] = call[v]
BY DEF Typed, Goto

\* A step that changes only the locals of a worker.
LEMMA LocalTypes ==
    ASSUME Typed, NEW w \in Workers, NEW label \in Labels, NEW d \in Calls, Local(w, label, d)
    PROVE  Typed'
<1>1. pc' \in [Workers -> Labels] /\ call' \in [Workers -> Calls]
  BY GotoTypes DEF Local
<1>. QED
  BY <1>1 DEF Typed, Local, shared

\* A call that is over.
LEMMA ReturnType ==
    ASSUME NEW c \in Calls
    PROVE  /\ Return(c) \in Calls /\ Return(Return(c)) = Return(c)
           /\ Return(c).frames = c.frames /\ Return(c).refused = c.refused
           /\ Return(c).inputs = <<>> /\ Return(c).asked = <<>> /\ Return(c).latests = <<>>
<1>1. NewCall \in Calls
  BY NewCallType
<1>2. Return(c) \in Calls
  BY <1>1 DEF Return, Calls
<1>. QED
  BY <1>2 DEF Return, NewCall

\* The time that a dependency asks for.
LEMMA DepWaitType ==
    ASSUME TRUE, NEW dep \in Dependencies, NEW info \in Infos, NEW c \in Calls
    PROVE  DepWait(dep, info, c) \in Nat
<1>1. dep.wait \in Nat /\ info.start_running_time \in Nat /\ c.now \in Nat /\ c.ts \in Nat
      /\ MinWait \in Nat /\ MinBlock \in Nat
  BY TimesAssumption DEF Dependencies, Infos, Calls
<1>. QED
  BY <1>1 DEF DepWait, Larger

\* What is known of a worker.
LEMMA WorkerTypes ==
    ASSUME Typed, NEW w \in Workers
    PROVE  /\ call[w] \in Calls /\ pc[w] \in Labels /\ now \in Nat /\ now \in Times
           /\ infos[OpOf(w)] \in [keys : SUBSET Times, newest : Infos \cup {None}]
           /\ ref[w] \in [frames : SUBSET Frames, newest : Frames \cup {None}]
BY ConfigTypes DEF Typed, Times

\* Types are kept by the write of a word of is_running_.
LEMMA WriteWordTypes ==
    ASSUME Typed, NEW w \in Workers, WriteWord(w)
    PROVE  Typed'
<1>1. \A x \in Calls : [x EXCEPT !.word = {}] \in Calls
  BY DEF Calls
<1>2. [call[w] EXCEPT !.word = {}] \in Calls
  BY <1>1, WorkerTypes
<1>3. pc' \in [Workers -> Labels] /\ call' \in [Workers -> Calls]
  BY <1>2, GotoTypes DEF WriteWord, Labels
<1>4. running' \in [Workers -> BOOLEAN]
  <2>1. call[w].on \in BOOLEAN /\ running \in [Workers -> BOOLEAN]
    BY WorkerTypes DEF Calls, Typed
  <2>. DEFINE bit(v) == IF v = w THEN call[w].on
                        ELSE IF v \in Mates(w) THEN v \in call[w].word ELSE running[v]
  <2>2. ASSUME NEW v \in Workers
        PROVE  bit(v) \in BOOLEAN
    <3>1. CASE v = w
      BY <2>1, <3>1
    <3>2. CASE v # w /\ v \in Mates(w)
      BY <3>2
    <3>3. CASE v # w /\ v \notin Mates(w)
      BY <2>1, <3>3
    <3>. QED
      BY <3>1, <3>2, <3>3
  <2>3. running' = [v \in Workers |-> bit(v)]
    BY DEF WriteWord
  <2>. HIDE DEF bit
  <2>. QED
    BY <2>2, <2>3
<1>. QED
  BY <1>3, <1>4 DEF Typed, WriteWord

\* The time at which a worker began its work.
LEMMA StartedType ==
    ASSUME Typed, NEW w \in Workers
    PROVE  Started(w) \in [Workers -> Times]
BY WorkerTypes DEF Started, Typed, Calls

\* The record holds the least of some times.
LEMMA RecordType ==
    ASSUME Typed, NEW w \in Workers, NEW marks, NEW starts \in [Workers -> Times]
    PROVE  Record(w, marks, starts) \in Infos
<1>. DEFINE busy == {v \in Mates(w) : marks[v]}
            S == {call[w].stamp} \cup {starts[v] : v \in busy}
<1>1. S \in SUBSET Nat /\ S # {}
  <2>1. call[w].stamp \in Times
    BY WorkerTypes DEF Calls
  <2>. QED
    BY <2>1 DEF Mates, Times
<1>2. PICK x \in S : \A y \in S : x <= y
  <2>. HIDE DEF S
  <2>. QED
    BY <1>1, LeastNumber
<1>3. Min(S) \in S
  <2>. HIDE DEF S
  <2>. QED
    BY <1>2 DEF Min
<1>4. Min(S) \in Nat
  BY <1>1, <1>3
<1>5. Record(w, marks, starts) = [is_running |-> busy # {}, start_running_time |-> Min(S)]
  BY DEF Record
<1>6. (busy # {}) \in BOOLEAN
  OBVIOUS
<1>. HIDE DEF S, busy
<1>. QED
  BY <1>4, <1>5, <1>6 DEF Infos

\* Types are kept by the making of a record.
LEMMA CollectTypes ==
    ASSUME Typed, NEW w \in Workers, Collect(w)
    PROVE  Typed'
<1>1. began' \in [Workers -> Times]
  BY StartedType DEF Collect
<1>2. Record(w, running, began') \in Infos
  BY <1>1, RecordType
<1>3. \A x \in Calls : \A i \in Infos : [x EXCEPT !.info = i] \in Calls
  BY DEF Calls
<1>4. [call[w] EXCEPT !.info = Record(w, running, began')] \in Calls
  BY <1>2, <1>3, WorkerTypes
<1>5. pc' \in [Workers -> Labels] /\ call' \in [Workers -> Calls]
  BY <1>4, GotoTypes DEF Collect, Labels
<1>. QED
  BY <1>1, <1>5 DEF Typed, Collect

\* Where a worker goes on to.
LEMMA FetchingType ==
    ASSUME NEW w \in Workers, NEW c
    PROVE  Fetching(w, c) \in {"bundle", "latest", "process"}
BY DEF Fetching

\* Types are kept by a call that goes on after its update, or returns.
LEMMA ContinueTypes ==
    ASSUME Typed, NEW w \in Workers, NEW c \in Calls, Continue(w, c)
    PROVE  pc' \in [Workers -> Labels] /\ call' \in [Workers -> Calls]
<1>1. Fetching(w, c) \in Labels /\ Return(c) \in Calls
  BY FetchingType, ReturnType DEF Labels
<1>2. "publish" \in Labels /\ "idle" \in Labels
  BY DEF Labels
<1>. QED
  BY <1>1, <1>2, GotoTypes DEF Continue

\* A record of an update that is put keeps the types but those of the marks.
LEMMA PutRecordTypes ==
    ASSUME Typed, NEW w \in Workers, NEW info \in Infos \cup {None}, PutRecord(w, info)
    PROVE  /\ pc' \in [Workers -> Labels] /\ call' \in [Workers -> Calls]
           /\ infos' \in [Operators -> [keys : SUBSET Times, newest : Infos \cup {None}]]
           /\ scene' = scene /\ now' = now /\ ref' = ref
<1>. DEFINE c == call[w]
            o == OpOf(w)
            refused == c.stamp \in infos[o].keys
            d == [c EXCEPT !.info = None, !.stamp = 0, !.refused = refused]
<1>1. \A x \in Calls : \A r \in BOOLEAN : \A i \in Infos \cup {None} : \A t \in Times :
        [x EXCEPT !.info = i, !.stamp = t, !.refused = r] \in Calls
  BY DEF Calls
<1>2. c \in Calls /\ c.stamp \in Times /\ o \in Operators
  BY WorkerTypes, ConfigTypes DEF Calls
<1>3. refused \in BOOLEAN /\ None \in Infos \cup {None} /\ 0 \in Times
  BY TimesAssumption DEF Times
<1>4. d \in Calls
  <2>. HIDE DEF refused
  <2>. QED
    BY <1>1, <1>2, <1>3
<1>5. Continue(w, d)
  BY DEF PutRecord
<1>6. pc' \in [Workers -> Labels] /\ call' \in [Workers -> Calls]
  <2>. HIDE DEF d
  <2>. QED
    BY <1>4, <1>5, ContinueTypes
<1>7. infos' \in [Operators -> [keys : SUBSET Times, newest : Infos \cup {None}]]
  <2>1. infos' = infos \/
        infos' = [infos EXCEPT ![o] = [keys |-> @.keys \cup {c.stamp}, newest |-> info]]
    BY DEF PutRecord
  <2>2. infos \in [Operators -> [keys : SUBSET Times, newest : Infos \cup {None}]]
    BY DEF Typed
  <2>3. infos[o].keys \cup {c.stamp} \in SUBSET Times
    BY <1>2, <2>2
  <2>. HIDE DEF c, o
  <2>. QED
    BY <1>2, <2>1, <2>2, <2>3
<1>. QED
  BY <1>6, <1>7 DEF PutRecord

\* Types are kept by the put of a record.
LEMMA PutInfoTypes ==
    ASSUME Typed, NEW w \in Workers, PutInfo(w)
    PROVE  Typed'
<1>1. call[w].info \in Infos \cup {None} /\ PutRecord(w, call[w].info)
  BY WorkerTypes DEF PutInfo, Calls
<1>. QED
  BY <1>1, PutRecordTypes DEF Typed, PutInfo

\* Types are kept by the whole update of a worker that has its operator to itself.
LEMMA PutAloneTypes ==
    ASSUME Typed, NEW w \in Workers, PutAlone(w)
    PROVE  Typed'
<1>1. began' \in [Workers -> Times]
  BY StartedType DEF PutAlone
<1>2. Record(w, running', began') \in Infos
  BY <1>1, RecordType
<1>3. PutRecord(w, Record(w, running', began'))
  BY DEF PutAlone
<1>4. call[w].on \in BOOLEAN
  BY WorkerTypes DEF Calls
<1>5. running' \in [Workers -> BOOLEAN]
  BY <1>4 DEF Typed, PutAlone
<1>. QED
  BY <1>1, <1>2, <1>3, <1>5, PutRecordTypes DEF Typed

\* A look for a frame finds one of the cache that is near enough, if there is one.
LEMMA FindType ==
    ASSUME NEW cache, NEW key \in Int, NEW window \in Nat, cache.frames \subseteq Frames
    PROVE  /\ Find(cache, key, window) \in cache.frames \cup {None}
           /\ Find(cache, key, window) # None =>
                \/ Find(cache, key, window).utime = key
                \/ Distance(Find(cache, key, window).utime, key) < window
           /\ Find(cache, key, window) = None =>
                \A f \in cache.frames : ~(Distance(f.utime, key) < window)
<1>. DEFINE dist(f) == Distance(f.utime, key)
            near == {f \in cache.frames : f.utime = key \/ dist(f) < window}
            closest == {f \in near : \A g \in near : dist(f) <= dist(g)}
<1>1. CASE near = {}
  BY <1>1 DEF Find
<1>2. CASE near # {}
  <2>1. \A f \in near : f.utime \in Nat /\ dist(f) \in Nat
    BY DEF Distance, Frames
  <2>. DEFINE T == {dist(f) : f \in near}
  <2>2. PICK n \in T : \A m \in T : n <= m
    <3>1. T \in SUBSET Nat /\ T # {}
      BY <1>2, <2>1
    <3>. HIDE DEF T
    <3>. QED
      BY <3>1, LeastNumber
  <2>3. closest # {}
    BY <2>2
  <2>. DEFINE U == {f.utime : f \in closest}
  <2>4. PICK k \in U : \A m \in U : k <= m
    <3>1. U \in SUBSET Nat /\ U # {}
      BY <2>1, <2>3
    <3>. HIDE DEF U
    <3>. QED
      BY <3>1, LeastNumber
  <2>5. PICK f \in closest : f.utime = k
    BY <2>4
  <2>6. \A g \in closest : f.utime <= g.utime
    BY <2>4, <2>5
  <2>7. Find(cache, key, window) = CHOOSE h \in closest : \A g \in closest : h.utime <= g.utime
    BY <1>2 DEF Find
  <2>8. Find(cache, key, window) \in closest
    <3>. HIDE DEF closest
    <3>. QED
      BY <2>5, <2>6, <2>7
  <2>9. None \notin Frames
    BY NoneAssumption DEF Frames
  <2>. QED
    BY <2>8, <2>9
<1>. QED
  BY <1>1, <1>2

\* The input that a worker is at.
LEMMA NextInputType ==
    ASSUME Typed, NEW w \in Workers, NEW c \in Calls,
           Len(c.inputs) < Len(Input(w))
    PROVE  /\ NextInput(w, c) \in InputMetas
           /\ NextInput(w, c).from \in Workers /\ NextInput(w, c).offset \in Int
           /\ NextInput(w, c).window \in Nat /\ NextInput(w, c).wait \in Nat
           /\ NextInput(w, c) = Input(w)[Len(c.inputs) + 1]
<1>1. Input(w) \in Seq(InputMetas) /\ Len(c.inputs) \in Nat
  BY ConfigTypes DEF Calls
<1>2. Len(c.inputs) + 1 \in DOMAIN Input(w)
  BY <1>1
<1>3. \A T : \A q \in Seq(T) : \A i \in DOMAIN q : q[i] \in T
  OBVIOUS
<1>4. NextInput(w, c) \in InputMetas
  BY <1>1, <1>2, <1>3 DEF NextInput
<1>. QED
  BY <1>4 DEF InputMetas, NextInput

\* A look for that input.
LEMMA FindInputType ==
    ASSUME Typed, NEW w \in Workers, NEW c \in Calls,
           Len(c.inputs) < Len(Input(w))
    PROVE  LET in == NextInput(w, c)
               key == c.ts + in.offset
               f == FindInput(w, c)
           IN  /\ f \in ref[in.from].frames \cup {None} /\ f \in Frames \cup {None}
               /\ f # None => f.utime = key \/ Distance(f.utime, key) < in.window
               /\ f = None =>
                    \A g \in ref[in.from].frames : ~(Distance(g.utime, key) < in.window)
<1>. DEFINE in == NextInput(w, c)
            key == c.ts + in.offset
<1>1. in.from \in Workers /\ in.offset \in Int /\ in.window \in Nat
  BY NextInputType
<1>2. key \in Int
  BY <1>1 DEF Calls
<1>3. ref[in.from].frames \subseteq Frames
  BY <1>1, WorkerTypes
<1>4. FindInput(w, c) = Find(ref[in.from], key, in.window)
  BY DEF FindInput
<1>. HIDE DEF in, key
<1>5. /\ FindInput(w, c) \in ref[in.from].frames \cup {None}
      /\ FindInput(w, c) # None => \/ FindInput(w, c).utime = key
                                   \/ Distance(FindInput(w, c).utime, key) < in.window
      /\ FindInput(w, c) = None =>
           \A g \in ref[in.from].frames : ~(Distance(g.utime, key) < in.window)
  BY <1>1, <1>2, <1>3, <1>4, FindType
<1>. QED
  BY <1>3, <1>5 DEF in, key

\* The number of looks, and the time they take.
LEMMA TrailEnough ==
    ASSUME NEW wait \in Nat
    PROVE  Trail(wait) \in Nat /\ Trail(wait) > 0 /\ Trail(wait) * CheckDt > wait
<1>1. CheckDt \in Nat /\ CheckDt > 0
  BY TimesAssumption
<1>2. \A d \in Nat : d > 0 => /\ wait \div d \in Nat
                              /\ wait = d * (wait \div d) + (wait % d)
                              /\ wait % d < d
  OBVIOUS
<1>. DEFINE n == wait \div CheckDt
<1>3. n \in Nat /\ wait < CheckDt * n + CheckDt
  <2>1. wait % CheckDt \in Nat
    BY <1>1
  <2>2. CheckDt * n \in Nat
    BY <1>1, <1>2
  <2>. QED
    BY <1>1, <1>2, <2>1, <2>2
<1>. HIDE DEF n
<1>4. (n + 1) * CheckDt = CheckDt * n + CheckDt
  BY <1>1, <1>3
<1>. QED
  BY <1>3, <1>4 DEF Trail, n

-----------------------------------------------------------------------------
(* The Ops of a group.                                                     *)

\* The Ops that run are some of the first ones, up to the first that stops the
\* sequence; if all run, none before the last has stopped it.
LEMMA UpToFirst ==
    ASSUME NEW n \in Nat, NEW st \in [1 .. n -> Statuses], NEW stops \in SUBSET Statuses
    PROVE  LET ran == UpTo(st, stops)
           IN  /\ ran \in Seq(Statuses)
               /\ \A i \in DOMAIN ran : i < Len(ran) => ran[i] \notin stops
               /\ DOMAIN ran = 1 .. n \/ (ran # <<>> /\ ran[Len(ran)] \in stops)
<1>. DEFINE at == {i \in DOMAIN st : st[i] \in stops}
<1>1. st \in Seq(Statuses) /\ DOMAIN st = 1 .. n /\ Len(st) = n
  OBVIOUS
<1>2. CASE at = {}
  <2>1. UpTo(st, stops) = st
    BY <1>2 DEF UpTo
  <2>. QED
    BY <1>1, <1>2, <2>1
<1>3. CASE at # {}
  <2>1. at \in SUBSET Nat
    BY <1>1
  <2>2. PICK m \in at : \A k \in at : m <= k
    <3>. HIDE DEF at
    <3>. QED
      BY <1>3, <2>1, LeastNumber
  <2>3. Min(at) \in at /\ \A k \in at : Min(at) <= k
    <3>. HIDE DEF at
    <3>. QED
      BY <2>2 DEF Min
  <2>. DEFINE l == Min(at)
  <2>4. l \in 1 .. n /\ st[l] \in stops /\ \A k \in 1 .. n : k < l => st[k] \notin stops
    <3>1. l \in at /\ \A k \in at : l <= k
      BY <2>3
    <3>2. \A k \in 1 .. n : st[k] \in stops => k \in at
      BY <1>1
    <3>3. l \in 1 .. n /\ st[l] \in stops
      BY <1>1, <3>1
    <3>. HIDE DEF l, at
    <3>. QED
      BY <3>1, <3>2, <3>3
  <2>5. UpTo(st, stops) = SubSeq(st, 1, l)
    BY <1>3 DEF UpTo
  <2>. HIDE DEF l, at
  <2>. DEFINE ran == SubSeq(st, 1, l)
  <2>6. ran \in Seq(Statuses) /\ Len(ran) = l /\ \A i \in 1 .. l : ran[i] = st[i]
    BY <1>1, <2>4
  <2>7. DOMAIN ran = 1 .. l
    BY <2>6
  <2>8. ran # <<>> /\ ran[Len(ran)] \in stops
    BY <2>4, <2>6
  <2>. HIDE DEF ran
  <2>9. \A i \in DOMAIN ran : i < Len(ran) => ran[i] \notin stops
    BY <2>4, <2>6, <2>7
  <2>. QED
    BY <2>5, <2>6, <2>8, <2>9 DEF ran
<1>. QED
  BY <1>2, <1>3

\* The places of the Ops that are not bypassed.
LEMMA ValidOpsCount ==
    ASSUME Typed, NEW w \in Workers
    PROVE  \E n \in Nat : ValidOps(w) = 1 .. n
<1>. DEFINE S == {i \in DOMAIN Config(w).group : ~Config(w).group[i].bypass}
<1>1. IsFiniteSet(DOMAIN Config(w).group)
  BY ConfigTypes, ScenariosAssumption DEF Typed, Config
<1>2. IsFiniteSet(S)
  BY <1>1, FS_Subset
<1>3. Cardinality(S) \in Nat
  BY <1>2, FS_CardinalityType
<1>. QED
  BY <1>3 DEF ValidOps

\* The statuses that are enumerated, and what becomes of them.
LEMMA ProcessedTypes ==
    ASSUME Typed, NEW w \in Workers, NEW st \in [ValidOps(w) -> Statuses], NEW ignore \in BOOLEAN
    PROVE  /\ Processed(st, ignore) \in Seq(Statuses) /\ Peeked(st, ignore) \in Seq(Statuses)
           /\ ProcessStatus(Processed(st, ignore)) \in Statuses
           /\ PeekStatus(Peeked(st, ignore), ignore) \in Statuses
<1>1. PICK n \in Nat : ValidOps(w) = 1 .. n
  BY ValidOpsCount
<1>3. \A stops \in SUBSET Statuses : UpTo(st, stops) \in Seq(Statuses)
  BY <1>1, UpToFirst
<1>4. Processed(st, ignore) \in Seq(Statuses) /\ Peeked(st, ignore) \in Seq(Statuses)
  <2>1. {} \in SUBSET Statuses /\ {"FAIL", "IGNORE"} \in SUBSET Statuses
        /\ {"FAIL"} \in SUBSET Statuses
    BY DEF Statuses
  <2>. QED
    BY <1>3, <2>1 DEF Processed, Peeked
<1>5. \A q \in Seq(Statuses) : q # <<>> => q[Len(q)] \in Statuses
  <2>1. \A q \in Seq(Statuses) : q # <<>> => Len(q) \in DOMAIN q
    OBVIOUS
  <2>2. \A q \in Seq(Statuses) : \A i \in DOMAIN q : q[i] \in Statuses
    OBVIOUS
  <2>. QED
    BY <2>1, <2>2
<1>. QED
  BY <1>4, <1>5 DEF ProcessStatus, PeekStatus, Statuses

\* Types are kept by the put of the reference data.
LEMMA PublishTypes ==
    ASSUME Typed, NEW w \in Workers, Publish(w)
    PROVE  Typed'
<1>. DEFINE f == [utime |-> call[w].ts, at |-> now]
<1>1. call[w] \in Calls /\ now \in Nat /\ call[w].ts \in Nat
  BY WorkerTypes DEF Calls
<1>2. f \in Frames
  BY <1>1 DEF Frames
<1>3. pc' \in [Workers -> Labels] /\ call' \in [Workers -> Calls]
  <2>1. Return(call[w]) \in Calls
    BY <1>1, ReturnType
  <2>. QED
    BY <2>1, GotoTypes DEF Publish, Labels
<1>4. ref' = ref \/ ref' = [ref EXCEPT ![w] = [frames |-> @.frames \cup {f}, newest |-> f]]
  BY DEF Publish
<1>5. ref' \in [Workers -> [frames : SUBSET Frames, newest : Frames \cup {None}]]
  <2>1. ref \in [Workers -> [frames : SUBSET Frames, newest : Frames \cup {None}]]
    BY DEF Typed
  <2>2. ref[w].frames \cup {f} \in SUBSET Frames
    BY <1>2, <2>1
  <2>. HIDE DEF f
  <2>. QED
    BY <1>2, <1>4, <2>1, <2>2
<1>. QED
  BY <1>3, <1>5 DEF Typed, Publish

\* The clock.
LEMMA TickTypes ==
    ASSUME Typed, Tick
    PROVE  Typed'
<1>1. now' \in Times /\ StartTime <= now'
  BY TimesAssumption DEF Typed, Tick, Times
<1>. QED
  BY <1>1 DEF Typed, Tick, shared

-----------------------------------------------------------------------------
(* The inductive invariant.  Most of it says, of one worker alone, what its *)
(* locals c are when it is at a label.                                      *)

\* Which of the labels it can be at.
Placed(w, label, c) ==
    /\ c.frames <= scene.ports[w].frames
    /\ label = "idle" => c = Return(c)
    /\ label # "idle" => c.frames >= 1
    /\ label \in {"round", "look", "sleep"} => Deps(w) # <<>>
    /\ label \in {"round", "look", "sleep", "begin"} => c.on
    /\ label = "look" => Len(c.heard) < Len(Deps(w))
    /\ label \in {"bundle", "newest", "poll"} => Len(c.inputs) < Len(Input(w))
    /\ label = "latest" => Len(c.latests) < Len(Latest(w))
    /\ Mates(w) = {w} => label \notin {"read", "write", "collect"}

\* A dependency that has been looked at does not ask for a wait.
NoWait(dep, info, c) == info = None \/ DepWait(dep, info, c) = 0

\* What the dependencies have said: as long as nobody has asked for a wait, none of
\* those that have been looked at does.
Listening(w, label, c) ==
    /\ label \in {"look", "sleep", "begin"} /\ c.wait_time = 0 =>
         \A i \in DOMAIN c.heard : i \in DOMAIN Deps(w) /\ NoWait(Deps(w)[i], c.heard[i], c)
    /\ label \in {"look", "sleep", "begin"} /\ Deps(w) # <<>> => c.start <= c.now
    /\ label \in {"round", "look", "sleep", "begin"} /\ scene.ports[w].ages \subseteq Nat =>
         c.ts <= c.start

\* The inputs and the latest frames that it has are near the trigger.
Near(w, c) ==
    /\ Len(c.asked) = Len(c.inputs)
    /\ Len(c.inputs) <= Len(Input(w)) /\ Len(c.latests) <= Len(Latest(w))
    /\ \A k \in DOMAIN c.inputs :
         LET f == c.inputs[k]
             d == Distance(c.ts + Input(w)[k].offset, f.utime)
         IN  f # None => d = 0 \/ d < Input(w)[k].window
    /\ \A k \in DOMAIN c.latests :
         LET f == c.latests[k]
             max == Latest(w)[k].tolerance
         IN  f # None /\ max > 0 => Distance(c.ts, f.utime) <= max

\* Each look for an input is CheckDt or more after the one before.
Polling(w, label, c) ==
    label = "poll" =>
        /\ c.trail \in 1 .. Trail(NextInput(w, c).wait)
        /\ c.wake >= c.begin + (Trail(NextInput(w, c).wait) - c.trail + 1) * CheckDt

\* What the group has made of the frame.
Through(w, c) ==
    LET all == DOMAIN c.ran = ValidOps(w)
    IN  IF Config(w).ignore_fail THEN all
        ELSE /\ \A i \in DOMAIN c.ran : c.ran[i] # "FAIL"
             /\ all \/ (c.frames > 1 /\ c.ran[Len(c.ran)] = "IGNORE")

Processing(w, label, c) ==
    \/ label = "publish" /\ ~Config(w).bypass
    \/ label \in {"read", "write", "collect", "put"} /\ ~c.on /\ c.ret # "FAIL"
    => Through(w, c)

\* What lies in the past at time t.
Past(w, label, c, t) ==
    /\ c.now <= t /\ c.start <= t /\ c.begin <= t
    /\ label = "begin" /\ Deps(w) # <<>> =>
         \/ c.wait_time = 0 /\ DOMAIN c.heard = DOMAIN Deps(w)
         \/ t >= c.start + RetryTime
    /\ \A k \in DOMAIN c.asked : c.asked[k] > 0 => c.asked[k] + Input(w)[k].wait < t

Good(w, label, c, t) ==
    /\ Placed(w, label, c) /\ Listening(w, label, c) /\ Near(w, c) /\ Polling(w, label, c)
    /\ Processing(w, label, c) /\ Past(w, label, c, t)

AllGood == \A w \in Workers : Good(w, pc[w], call[w], now)

\* What was put last is there, and nothing was put in the future.
RefsGood ==
    \A w \in Workers :
        /\ ref[w].newest # None => ref[w].newest \in ref[w].frames
        /\ \A f \in ref[w].frames : f.at <= now

Inv == Typed /\ AllGood /\ RefsGood /\ InfoTruthful /\ NotMissed

-----------------------------------------------------------------------------
(* What is good stays good.                                                *)

\* What is good is so at the end of a step that leaves the scene.
LEMMA GoodPrimed ==
    ASSUME scene' = scene, NEW w \in Workers, NEW label, NEW c, NEW t,
           Good(w, label, c, t), pc'[w] = label, call'[w] = c, now' = t
    PROVE  Good(w, pc[w], call[w], now)'
<1>1. /\ OpOf(w)' = OpOf(w) /\ Config(w)' = Config(w) /\ Deps(w)' = Deps(w)
      /\ Input(w)' = Input(w) /\ Latest(w)' = Latest(w)
      /\ scene.ports[w]' = scene.ports[w]
  BY DEF OpOf, Config, Deps, Input, Latest
<1>2. Mates(w)' = Mates(w) /\ ValidOps(w)' = ValidOps(w)
  BY <1>1 DEF OpOf, Mates, ValidOps
<1>3. Placed(w, pc[w], call[w])'
  BY <1>1, <1>2 DEF Good, Placed, Return
<1>4. Listening(w, pc[w], call[w])'
  BY <1>1 DEF Good, Listening, NoWait, DepWait, Larger, Distance
<1>5. Near(w, call[w])'
  BY <1>1 DEF Good, Near, Distance
<1>6. Polling(w, pc[w], call[w])'
  BY <1>1 DEF Good, Polling, NextInput, Trail
<1>7. Processing(w, pc[w], call[w])'
  BY <1>1, <1>2 DEF Good, Processing, Through
<1>8. Past(w, pc[w], call[w], now)'
  BY <1>1 DEF Good, Past
<1>. QED
  BY <1>3, <1>4, <1>5, <1>6, <1>7, <1>8 DEF Good

\* A worker goes on with good locals.
LEMMA GotoGood ==
    ASSUME Typed, AllGood, NEW w \in Workers, NEW label \in Labels, NEW d \in Calls,
           Goto(w, label, d), scene' = scene, now' = now, Good(w, label, d, now)
    PROVE  AllGood'
<1>1. ASSUME NEW v \in Workers
      PROVE  Good(v, pc[v], call[v], now)'
  <2>1. pc'[w] = label /\ call'[w] = d
        /\ \A u \in Workers \ {w} : pc'[u] = pc[u] /\ call'[u] = call[u]
    BY GotoTypes
  <2>2. CASE v = w
    BY <2>1, <2>2, GoodPrimed
  <2>3. CASE v # w
    <3>1. Good(v, pc[v], call[v], now) /\ pc'[v] = pc[v] /\ call'[v] = call[v]
      BY <2>1, <2>3 DEF AllGood
    <3>. QED
      BY <3>1, GoodPrimed
  <2>. QED
    BY <2>2, <2>3
<1>. QED
  BY <1>1 DEF AllGood

\* A step that changes only the locals of a worker.
LEMMA LocalGood ==
    ASSUME Typed, AllGood, NEW w \in Workers, NEW label \in Labels, NEW d \in Calls,
           Local(w, label, d), Good(w, label, d, now)
    PROVE  Typed' /\ AllGood'
BY LocalTypes, GotoGood DEF Local

\* Time passes.
LEMMA TickGood ==
    ASSUME Typed, AllGood, Tick
    PROVE  AllGood'
<1>1. now \in Nat /\ now' = now + 1 /\ scene' = scene /\ pc' = pc /\ call' = call
  BY DEF Typed, Tick, Times
<1>2. ASSUME NEW v \in Workers
      PROVE  Good(v, pc[v], call[v], now)'
  <2>1. call[v] \in Calls /\ Good(v, pc[v], call[v], now)
    BY WorkerTypes DEF AllGood
  <2>2. Past(v, pc[v], call[v], now + 1)
    <3>1. Past(v, pc[v], call[v], now)
      BY <2>1 DEF Good
    <3>2. call[v].now \in Nat /\ call[v].start \in Nat /\ call[v].begin \in Nat /\ RetryTime \in Nat
          /\ call[v].asked \in Seq(Nat)
      BY <2>1, TimesAssumption DEF Calls
    <3>3. \A m \in Nat : \A x \in Int : (x <= m => x <= m + 1) /\ (x < m => x < m + 1)
      OBVIOUS
    <3>4. call[v].now <= now + 1 /\ call[v].start <= now + 1 /\ call[v].begin <= now + 1
      BY <1>1, <3>1, <3>2, <3>3 DEF Past
    <3>5. now >= call[v].start + RetryTime => now + 1 >= call[v].start + RetryTime
      BY <1>1, <3>2
    <3>6. ASSUME NEW k \in DOMAIN call[v].asked, call[v].asked[k] > 0
          PROVE  call[v].asked[k] + Input(v)[k].wait < now + 1
      <4>1. Len(call[v].asked) <= Len(Input(v)) /\ call[v].inputs \in Seq(Frames \cup {None})
        BY <2>1, <3>2 DEF Good, Near, Calls
      <4>2. k \in DOMAIN Input(v) /\ Input(v) \in Seq(InputMetas)
        BY <3>2, <4>1, ConfigTypes
      <4>3. Input(v)[k] \in InputMetas /\ call[v].asked[k] \in Nat
        BY <3>2, <4>2, SeqElements
      <4>5. Input(v)[k].wait \in Nat
        BY <4>3 DEF InputMetas
      <4>4. call[v].asked[k] + Input(v)[k].wait < now
        BY <3>1, <3>6 DEF Past
      <4>. QED
        BY <1>1, <4>3, <4>4, <4>5
    <3>. QED
      BY <3>1, <3>4, <3>5, <3>6 DEF Past
  <2>3. Good(v, pc[v], call[v], now + 1)
    BY <2>1, <2>2 DEF Good
  <2>. QED
    BY <1>1, <2>3, GoodPrimed
<1>. QED
  BY <1>2 DEF AllGood

\* A frame comes.
LEMMA TakeGood ==
    ASSUME Typed, AllGood, NEW w \in Workers, Take(w)
    PROVE  Typed' /\ AllGood'
<1>1. PICK age \in scene.ports[w].ages :
        LET ts == now - age
            c == [call[w] EXCEPT !.ts = ts, !.frames = @ + 1, !.start = now, !.on = TRUE]
        IN  /\ ts > call[w].ts
            /\ Local(w, IF Config(w).bypass THEN "publish"
                        ELSE IF Deps(w) = <<>> THEN "begin" ELSE "round", c)
  BY DEF Take
<1>. DEFINE c == call[w]
            d == [c EXCEPT !.ts = now - age, !.frames = @ + 1, !.start = now, !.on = TRUE]
            label == IF Config(w).bypass THEN "publish"
                     ELSE IF Deps(w) = <<>> THEN "begin" ELSE "round"
<1>2. /\ c \in Calls /\ now \in Nat /\ age \in Int /\ c.ts \in Nat /\ c.frames \in Nat
      /\ scene.ports[w].frames \in Nat
  <2>1. c \in Calls /\ now \in Nat
    BY WorkerTypes
  <2>2. c.ts \in Nat /\ c.frames \in Nat
    BY <2>1 DEF Calls
  <2>3. age \in Int /\ scene.ports[w].frames \in Nat
    BY ConfigTypes
  <2>. QED
    BY <2>1, <2>2, <2>3
<1>3. pc[w] = "idle" /\ c.frames < scene.ports[w].frames /\ c = Return(c) /\ Good(w, "idle", c, now)
  BY DEF Take, AllGood, Good, Placed
<1>4. /\ c.heard = <<>> /\ c.wait_time = 0 /\ c.now = 0 /\ c.begin = 0 /\ c.inputs = <<>>
      /\ c.asked = <<>> /\ c.latests = <<>>
  BY <1>3 DEF Return, NewCall
<1>5. d \in Calls /\ label \in Labels
  <2>1. \A x \in Calls : \A ts, start, frames \in Nat :
          [x EXCEPT !.ts = ts, !.frames = frames, !.start = start, !.on = TRUE] \in Calls
    BY DEF Calls
  <2>2. now - age \in Nat /\ c.frames + 1 \in Nat
    BY <1>1, <1>2
  <2>3. [c EXCEPT !.ts = now - age, !.frames = c.frames + 1, !.start = now, !.on = TRUE] \in Calls
    BY <1>2, <2>1, <2>2
  <2>. QED
    BY <2>3 DEF Labels
<1>6. /\ d.ts = now - age /\ d.frames = c.frames + 1 /\ d.start = now /\ d.on
      /\ d.heard = <<>> /\ d.wait_time = 0 /\ d.now = 0 /\ d.begin = 0 /\ d.inputs = <<>>
      /\ d.asked = <<>> /\ d.latests = <<>>
  BY <1>2, <1>4 DEF Calls
<1>7. /\ label \in {"publish", "begin", "round"}
      /\ label = "publish" => Config(w).bypass
      /\ label = "begin" => Deps(w) = <<>>
      /\ label = "round" => Deps(w) # <<>>
  OBVIOUS
<1>8. Local(w, label, d)
  BY <1>1
<1>. HIDE DEF d, label
<1>9. Good(w, label, d, now)
  <2>1. Placed(w, label, d)
    BY <1>2, <1>3, <1>6, <1>7 DEF Placed
  <2>2. Listening(w, label, d)
    <3>1. scene.ports[w].ages \subseteq Nat => now - age <= now
      BY <1>2
    <3>. QED
      BY <1>6, <1>7, <3>1 DEF Listening
  <2>3. Near(w, d)
    <3>1. Input(w) \in Seq(InputMetas) /\ Latest(w) \in Seq(LatestMetas)
      BY ConfigTypes
    <3>. QED
      BY <1>6, <3>1, SeqElements DEF Near
  <2>4. Polling(w, label, d) /\ Processing(w, label, d)
    BY <1>6, <1>7 DEF Polling, Processing
  <2>5. Past(w, label, d, now)
    BY <1>2, <1>6, <1>7 DEF Past
  <2>. QED
    BY <2>1, <2>2, <2>3, <2>4, <2>5 DEF Good
<1>. QED
  BY <1>5, <1>8, <1>9, LocalGood

\* process_denpendency begins.
LEMMA RoundGood ==
    ASSUME Typed, AllGood, NEW w \in Workers, Round(w)
    PROVE  Typed' /\ AllGood'
<1>. DEFINE c == call[w]
            d == [c EXCEPT !.now = now, !.wait_time = 0, !.heard = <<>>]
<1>1. c \in Calls /\ now \in Nat /\ pc[w] = "round" /\ Good(w, "round", c, now)
  BY WorkerTypes DEF Round, AllGood
<1>2. d \in Calls
  <2>1. \A x \in Calls : \A n \in Nat : \A h \in Seq(Infos \cup {None}) :
          [x EXCEPT !.now = n, !.wait_time = 0, !.heard = h] \in Calls
    BY DEF Calls
  <2>2. <<>> \in Seq(Infos \cup {None})
    OBVIOUS
  <2>. QED
    BY <1>1, <2>1, <2>2
<1>3. /\ d.now = now /\ d.wait_time = 0 /\ d.heard = <<>> /\ d.frames = c.frames /\ d.on = c.on
      /\ d.ts = c.ts /\ d.start = c.start /\ d.begin = c.begin
      /\ d.inputs = c.inputs /\ d.asked = c.asked /\ d.latests = c.latests
  BY <1>1 DEF Calls
<1>4. Local(w, "look", d)
  BY DEF Round
<1>. HIDE DEF d
<1>5. Placed(w, "look", d)
  <2>1. Deps(w) # <<>> /\ Deps(w) \in Seq(Dependencies)
    BY <1>1, ConfigTypes DEF Good, Placed
  <2>2. Len(d.heard) < Len(Deps(w))
    BY <1>3, <2>1
  <2>. QED
    BY <1>1, <1>3, <2>1, <2>2 DEF Good, Placed
<1>6. Listening(w, "look", d)
  BY <1>1, <1>3 DEF Good, Listening, Past
<1>7. Near(w, d)
  BY <1>1, <1>3 DEF Good, Near
<1>8. Polling(w, "look", d) /\ Processing(w, "look", d)
  BY DEF Polling, Processing
<1>9. Past(w, "look", d, now)
  BY <1>1, <1>3 DEF Good, Past
<1>10. Good(w, "look", d, now)
  BY <1>5, <1>6, <1>7, <1>8, <1>9 DEF Good
<1>. QED
  BY <1>2, <1>4, <1>10, LocalGood DEF Labels

\* A dependency that asks for no wait counts as one that has not asked.
LEMMA LookGood ==
    ASSUME Typed, AllGood, NEW w \in Workers, Look(w)
    PROVE  Typed' /\ AllGood'
<1>. DEFINE c == call[w]
            dep == Deps(w)[Len(c.heard) + 1]
            info == infos[dep.on].newest
            asked == IF info = None THEN 0 ELSE DepWait(dep, info, c)
            d == [c EXCEPT !.heard = Append(@, info),
                           !.wait_time = IF asked > 0 THEN asked ELSE @]
            e == [d EXCEPT !.wake = now + d.wait_time]
<1>1. c \in Calls /\ now \in Nat /\ pc[w] = "look" /\ Good(w, "look", c, now)
  BY WorkerTypes DEF Look, AllGood
<1>2. c.wait_time \in Nat /\ c.heard \in Seq(Infos \cup {None})
  BY <1>1 DEF Calls
<1>3. Deps(w) \in Seq(Dependencies) /\ Len(c.heard) < Len(Deps(w))
  BY <1>1, ConfigTypes DEF Good, Placed
<1>4. Len(c.heard) \in Nat /\ Len(c.heard) + 1 \in DOMAIN Deps(w)
  BY <1>2, <1>3
<1>5. dep \in Dependencies
  BY <1>3, <1>4, SeqElements
<1>6. info \in Infos \cup {None}
  <2>. HIDE DEF dep
  <2>1. dep.on \in Operators
    BY <1>5 DEF Dependencies
  <2>. QED
    BY <2>1 DEF Typed
<1>7. asked \in Nat /\ (asked = 0 => NoWait(dep, info, c))
  <2>. HIDE DEF dep, info
  <2>. QED
    BY <1>1, <1>5, <1>6, DepWaitType DEF NoWait
<1>. HIDE DEF dep, info, asked
<1>8. d \in Calls
  <2>1. \A x \in Calls : \A n \in Nat : \A h \in Seq(Infos \cup {None}) :
          [x EXCEPT !.heard = h, !.wait_time = n] \in Calls
    BY DEF Calls
  <2>2. Append(c.heard, info) \in Seq(Infos \cup {None})
    BY <1>2, <1>6
  <2>3. (IF asked > 0 THEN asked ELSE c.wait_time) \in Nat
    BY <1>2, <1>7
  <2>4. [c EXCEPT !.heard = Append(c.heard, info),
                  !.wait_time = IF asked > 0 THEN asked ELSE c.wait_time] \in Calls
    BY <1>1, <2>1, <2>2, <2>3
  <2>. QED
    BY <2>4
<1>9. /\ d.heard = Append(c.heard, info) /\ d.wait_time = (IF asked > 0 THEN asked ELSE c.wait_time)
      /\ d.now = c.now /\ d.frames = c.frames /\ d.on = c.on /\ d.ts = c.ts /\ d.start = c.start
      /\ d.begin = c.begin /\ d.inputs = c.inputs /\ d.asked = c.asked /\ d.latests = c.latests
  BY <1>1 DEF Calls
<1>10. \/ Local(w, "look", d) /\ Len(d.heard) < Len(Deps(w))
       \/ Local(w, "begin", d) /\ d.wait_time = 0 /\ ~(Len(d.heard) < Len(Deps(w)))
       \/ Local(w, "sleep", e)
  BY DEF Look, dep, info, asked
<1>. HIDE DEF d
<1>11. Near(w, d) /\ c.now <= now /\ c.start <= now /\ c.begin <= now /\ Deps(w) # <<>>
       /\ (\A k \in DOMAIN d.asked : d.asked[k] > 0 => d.asked[k] + Input(w)[k].wait < now)
  BY <1>1, <1>9 DEF Good, Near, Past, Placed
<1>12. /\ d.wait_time = 0 =>
            \A i \in DOMAIN d.heard : i \in DOMAIN Deps(w) /\ NoWait(Deps(w)[i], d.heard[i], d)
       /\ d.start <= d.now
       /\ scene.ports[w].ages \subseteq Nat => d.ts <= d.start
  <2>1. \A x, y : NoWait(x, y, d) <=> NoWait(x, y, c)
    BY <1>9 DEF NoWait, DepWait, Distance
  <2>2. d.wait_time = 0 => c.wait_time = 0 /\ NoWait(dep, info, c)
    BY <1>2, <1>7, <1>9
  <2>3. c.wait_time = 0 =>
          \A i \in DOMAIN c.heard : i \in DOMAIN Deps(w) /\ NoWait(Deps(w)[i], c.heard[i], c)
    BY <1>1 DEF Good, Listening
  <2>4. \A i \in DOMAIN d.heard :
          \/ i \in DOMAIN c.heard /\ d.heard[i] = c.heard[i]
          \/ i = Len(c.heard) + 1 /\ d.heard[i] = info
    BY <1>2, <1>6, <1>9
  <2>5. c.start <= c.now /\ (scene.ports[w].ages \subseteq Nat => c.ts <= c.start)
    BY <1>1, <1>11 DEF Good, Listening
  <2>. QED
    BY <1>4, <1>9, <2>1, <2>2, <2>3, <2>4, <2>5 DEF dep
<1>13. c.frames <= scene.ports[w].frames /\ c.frames >= 1 /\ c.on
  BY <1>1 DEF Good, Placed
<1>14. CASE Local(w, "look", d) /\ Len(d.heard) < Len(Deps(w))
  <2>1. Good(w, "look", d, now)
    BY <1>9, <1>11, <1>12, <1>13, <1>14
       DEF Good, Placed, Listening, Polling, Processing, Past
  <2>. QED
    BY <1>8, <1>14, <2>1, LocalGood DEF Labels
<1>15. CASE Local(w, "begin", d) /\ d.wait_time = 0 /\ ~(Len(d.heard) < Len(Deps(w)))
  <2>1. DOMAIN d.heard = DOMAIN Deps(w)
    <3>1. Len(d.heard) = Len(c.heard) + 1 /\ d.heard \in Seq(Infos \cup {None})
      BY <1>2, <1>6, <1>9
    <3>2. Len(d.heard) = Len(Deps(w))
      BY <1>3, <1>4, <1>15, <3>1
    <3>. QED
      BY <1>3, <3>1, <3>2
  <2>2. Good(w, "begin", d, now)
    BY <1>9, <1>11, <1>12, <1>13, <1>15, <2>1
       DEF Good, Placed, Listening, Polling, Processing, Past
  <2>. QED
    BY <1>8, <1>15, <2>2, LocalGood DEF Labels
<1>16. CASE Local(w, "sleep", e)
  <2>1. d.wait_time \in Nat
    BY <1>8 DEF Calls
  <2>2. e \in Calls
    <3>1. \A x \in Calls : \A n \in Nat : [x EXCEPT !.wake = n] \in Calls
      BY DEF Calls
    <3>. QED
      BY <1>1, <1>8, <2>1, <3>1
  <2>3. /\ e.heard = d.heard /\ e.wait_time = d.wait_time
        /\ e.now = d.now /\ e.frames = d.frames /\ e.on = d.on /\ e.ts = d.ts /\ e.start = d.start
        /\ e.begin = d.begin /\ e.inputs = d.inputs /\ e.asked = d.asked /\ e.latests = d.latests
    BY <1>8 DEF Calls
  <2>. HIDE DEF e
  <2>4. Near(w, e)
    BY <1>11, <2>3 DEF Near
  <2>5. \A x, y : NoWait(x, y, e) <=> NoWait(x, y, d)
    BY <2>3 DEF NoWait, DepWait, Distance
  <2>6. Listening(w, "sleep", e)
    BY <1>12, <2>3, <2>5 DEF Listening
  <2>7. Good(w, "sleep", e, now)
    BY <1>9, <1>11, <1>12, <1>13, <2>3, <2>4, <2>6
       DEF Good, Placed, Polling, Processing, Past
  <2>. QED
    BY <1>16, <2>2, <2>7, LocalGood DEF Labels
<1>. QED
  BY <1>10, <1>14, <1>15, <1>16

\* The worker wakes up.
LEMMA WakeGood ==
    ASSUME Typed, AllGood, NEW w \in Workers, Wake(w)
    PROVE  Typed' /\ AllGood'
<1>. DEFINE c == call[w]
            d == [c EXCEPT !.wake = 0]
            label == IF Retry(c) THEN "round" ELSE "begin"
<1>1. c \in Calls /\ now \in Nat /\ pc[w] = "sleep" /\ Good(w, "sleep", c, now)
  BY WorkerTypes DEF Wake, AllGood
<1>2. d \in Calls
  <2>1. \A x \in Calls : [x EXCEPT !.wake = 0] \in Calls
    BY DEF Calls
  <2>. QED
    BY <1>1, <2>1
<1>3. /\ d.heard = c.heard /\ d.wait_time = c.wait_time /\ d.now = c.now /\ d.start = c.start
      /\ d.frames = c.frames /\ d.on = c.on /\ d.ts = c.ts /\ d.begin = c.begin
      /\ d.inputs = c.inputs /\ d.asked = c.asked /\ d.latests = c.latests
  BY <1>1 DEF Calls
<1>4. Local(w, label, d)
  BY DEF Wake
<1>5. \/ label = "round"
      \/ label = "begin" /\ now >= c.start + RetryTime
  <2>1. c.start \in Nat /\ RetryTime \in Nat
    BY <1>1, TimesAssumption DEF Calls
  <2>. QED
    BY <1>1, <2>1 DEF Retry
<1>. HIDE DEF c, d, label
<1>6. Good(w, label, d, now)
  <2>1. Placed(w, label, d)
    BY <1>1, <1>3, <1>5 DEF Good, Placed
  <2>2. Near(w, d) /\ Past(w, label, d, now)
    BY <1>1, <1>3, <1>5 DEF Good, Near, Past
  <2>3. Polling(w, label, d) /\ Processing(w, label, d)
    BY <1>5 DEF Polling, Processing
  <2>4. \A x, y : NoWait(x, y, d) <=> NoWait(x, y, c)
    BY <1>3 DEF NoWait, DepWait, Distance
  <2>5. Listening(w, label, d)
    BY <1>1, <1>3, <1>5, <2>4 DEF Good, Listening
  <2>. QED
    BY <2>1, <2>2, <2>3, <2>5 DEF Good
<1>. QED
  BY <1>2, <1>4, <1>5, <1>6, LocalGood DEF Labels

\* The sequence of labels that an update goes through.
LEMMA UpdateGood ==
    ASSUME Typed, AllGood, NEW w \in Workers, NEW c \in Calls, Update(w, c),
           1 <= c.frames, c.frames <= scene.ports[w].frames,
           Near(w, c), \A label \in Labels \ {"begin"} : Past(w, label, c, now),
           ~c.on /\ c.ret # "FAIL" => Through(w, c)
    PROVE  Typed' /\ AllGood'
<1>. DEFINE d == [c EXCEPT !.stamp = now]
            label == IF Mates(w) = {w} THEN "put" ELSE "read"
<1>1. d \in Calls
  <2>1. \A x \in Calls : \A n \in Times : [x EXCEPT !.stamp = n] \in Calls
    BY DEF Calls
  <2>. QED
    BY <2>1, WorkerTypes
<1>2. /\ d.now = c.now /\ d.start = c.start /\ d.frames = c.frames /\ d.on = c.on /\ d.ts = c.ts
      /\ d.begin = c.begin /\ d.inputs = c.inputs /\ d.asked = c.asked /\ d.latests = c.latests
      /\ d.ran = c.ran /\ d.ret = c.ret
  BY DEF Calls
<1>3. Local(w, label, d)
  BY DEF Update
<1>4. label \in {"put", "read"} /\ (Mates(w) = {w} => label = "put")
  OBVIOUS
<1>. HIDE DEF d, label
<1>5. Placed(w, label, d) /\ Listening(w, label, d) /\ Polling(w, label, d)
  BY <1>2, <1>4 DEF Placed, Listening, Polling
<1>6. Near(w, d)
  BY <1>2 DEF Near
<1>7. Processing(w, label, d)
  BY <1>2, <1>4 DEF Processing, Through
<1>8. Past(w, label, d, now)
  <2>1. Past(w, "put", c, now)
    BY DEF Labels
  <2>. QED
    BY <1>2, <1>4, <2>1 DEF Past
<1>. QED
  BY <1>1, <1>3, <1>4, <1>5, <1>6, <1>7, <1>8, LocalGood DEF Good, Labels

\* The update before the work begins.
LEMMA BeginGood ==
    ASSUME Typed, AllGood, NEW w \in Workers, Begin(w)
    PROVE  Typed' /\ AllGood'
<1>. DEFINE c == call[w]
            d == [c EXCEPT !.start = 0, !.now = 0, !.wait_time = 0, !.heard = <<>>]
<1>1. c \in Calls /\ now \in Nat /\ pc[w] = "begin" /\ Good(w, "begin", c, now)
  BY WorkerTypes DEF Begin, AllGood
<1>2. d \in Calls
  <2>1. \A x \in Calls : \A h \in Seq(Infos \cup {None}) :
          [x EXCEPT !.start = 0, !.now = 0, !.wait_time = 0, !.heard = h] \in Calls
    BY DEF Calls
  <2>2. <<>> \in Seq(Infos \cup {None})
    OBVIOUS
  <2>. QED
    BY <1>1, <2>1, <2>2
<1>3. /\ d.now = 0 /\ d.start = 0 /\ d.frames = c.frames /\ d.on = c.on /\ d.ts = c.ts
      /\ d.begin = c.begin /\ d.inputs = c.inputs /\ d.asked = c.asked /\ d.latests = c.latests
  BY <1>1 DEF Calls
<1>4. Update(w, d)
  BY DEF Begin
<1>. HIDE DEF d
<1>5. d.on /\ 1 <= d.frames /\ d.frames <= scene.ports[w].frames
  <2>1. c.frames \in Nat
    BY <1>1 DEF Calls
  <2>. QED
    BY <1>1, <1>3, <2>1 DEF Good, Placed
<1>6. Near(w, d)
  BY <1>1, <1>3 DEF Good, Near
<1>7. \A label \in Labels \ {"begin"} : Past(w, label, d, now)
  BY <1>1, <1>3 DEF Good, Past
<1>. QED
  BY <1>2, <1>4, <1>5, <1>6, <1>7, UpdateGood

\* A change of locals on the way through an update.
LEMMA UpdatingGood ==
    ASSUME Typed, AllGood, NEW w \in Workers, NEW d \in Calls,
           NEW from \in {"read", "write", "collect"}, NEW to \in {"write", "collect", "put"},
           pc[w] = from, Goto(w, to, d), scene' = scene, now' = now,
           LET c == call[w]
           IN  /\ d.now = c.now /\ d.start = c.start /\ d.frames = c.frames /\ d.on = c.on
               /\ d.ts = c.ts /\ d.begin = c.begin /\ d.inputs = c.inputs /\ d.asked = c.asked
               /\ d.latests = c.latests /\ d.ran = c.ran /\ d.ret = c.ret
    PROVE  AllGood'
<1>. DEFINE c == call[w]
<1>1. c \in Calls /\ Good(w, from, c, now)
  BY WorkerTypes DEF AllGood
<1>2. Placed(w, to, d) /\ Listening(w, to, d) /\ Polling(w, to, d)
  BY <1>1 DEF Good, Placed, Listening, Polling
<1>3. Near(w, d)
  BY <1>1 DEF Good, Near
<1>4. Processing(w, to, d)
  BY <1>1 DEF Good, Processing, Through
<1>5. Past(w, to, d, now)
  BY <1>1 DEF Good, Past
<1>. QED
  BY <1>2, <1>3, <1>4, <1>5, GotoGood DEF Good, Labels

\* All marks of the operator's workers are read,
LEMMA ReadWordGood ==
    ASSUME Typed, AllGood, NEW w \in Workers, ReadWord(w)
    PROVE  Typed' /\ AllGood'
<1>. DEFINE d == [call[w] EXCEPT !.word = {v \in Mates(w) : running[v]}]
<1>1. call[w] \in Calls
  BY WorkerTypes
<1>2. d \in Calls
  <2>1. \A x \in Calls : \A n \in SUBSET Workers : [x EXCEPT !.word = n] \in Calls
    BY DEF Calls
  <2>2. {v \in Mates(w) : running[v]} \in SUBSET Workers
    BY DEF Mates
  <2>. QED
    BY <1>1, <2>1, <2>2
<1>3. Local(w, "write", d) /\ pc[w] = "read"
  BY DEF ReadWord
<1>4. LET c == call[w]
      IN  /\ d.now = c.now /\ d.start = c.start /\ d.frames = c.frames /\ d.on = c.on
          /\ d.ts = c.ts /\ d.begin = c.begin /\ d.inputs = c.inputs /\ d.asked = c.asked
          /\ d.latests = c.latests /\ d.ran = c.ran /\ d.ret = c.ret
  BY <1>1 DEF Calls
<1>. HIDE DEF d
<1>5. Typed'
  BY <1>2, <1>3, LocalTypes DEF Labels
<1>. QED
  BY <1>2, <1>3, <1>4, <1>5, UpdatingGood DEF Local

\* and written,
LEMMA WriteWordGood ==
    ASSUME Typed, AllGood, NEW w \in Workers, WriteWord(w)
    PROVE  Typed' /\ AllGood'
<1>. DEFINE d == [call[w] EXCEPT !.word = {}]
<1>1. call[w] \in Calls
  BY WorkerTypes
<1>2. d \in Calls
  <2>1. \A x \in Calls : [x EXCEPT !.word = {}] \in Calls
    BY DEF Calls
  <2>. QED
    BY <1>1, <2>1
<1>3. Goto(w, "collect", d) /\ pc[w] = "write" /\ scene' = scene /\ now' = now
  BY DEF WriteWord
<1>4. LET c == call[w]
      IN  /\ d.now = c.now /\ d.start = c.start /\ d.frames = c.frames /\ d.on = c.on
          /\ d.ts = c.ts /\ d.begin = c.begin /\ d.inputs = c.inputs /\ d.asked = c.asked
          /\ d.latests = c.latests /\ d.ran = c.ran /\ d.ret = c.ret
  BY <1>1 DEF Calls
<1>. HIDE DEF d
<1>. QED
  BY <1>2, <1>3, <1>4, UpdatingGood, WriteWordTypes

\* and the record is made.
LEMMA CollectGood ==
    ASSUME Typed, AllGood, NEW w \in Workers, Collect(w)
    PROVE  Typed' /\ AllGood'
<1>. DEFINE d == [call[w] EXCEPT !.info = Record(w, running, began')]
<1>1. call[w] \in Calls
  BY WorkerTypes
<1>2. d \in Calls
  <2>1. began' \in [Workers -> Times]
    BY StartedType DEF Collect
  <2>2. Record(w, running, began') \in Infos
    BY <2>1, RecordType
  <2>3. \A x \in Calls : \A i \in Infos : [x EXCEPT !.info = i] \in Calls
    BY DEF Calls
  <2>. QED
    BY <1>1, <2>2, <2>3
<1>3. Goto(w, "put", d) /\ pc[w] = "collect" /\ scene' = scene /\ now' = now
  BY DEF Collect
<1>4. LET c == call[w]
      IN  /\ d.now = c.now /\ d.start = c.start /\ d.frames = c.frames /\ d.on = c.on
          /\ d.ts = c.ts /\ d.begin = c.begin /\ d.inputs = c.inputs /\ d.asked = c.asked
          /\ d.latests = c.latests /\ d.ran = c.ran /\ d.ret = c.ret
  BY <1>1 DEF Calls
<1>. HIDE DEF d
<1>. QED
  BY <1>2, <1>3, <1>4, UpdatingGood, CollectTypes

\* Where a worker goes on to, it has something to fetch.
LEMMA FetchingGood ==
    ASSUME NEW w \in Workers, NEW c \in Calls,
           1 <= c.frames, c.frames <= scene.ports[w].frames,
           Near(w, c), Past(w, "process", c, now)
    PROVE  Good(w, Fetching(w, c), c, now)
<1>. DEFINE label == Fetching(w, c)
<1>1. /\ label \in {"bundle", "latest", "process"}
      /\ label = "bundle" => Len(c.inputs) < Len(Input(w))
      /\ label = "latest" => Len(c.latests) < Len(Latest(w))
  BY DEF Fetching
<1>. HIDE DEF label
<1>2. Placed(w, label, c) /\ Listening(w, label, c) /\ Polling(w, label, c)
      /\ Processing(w, label, c)
  BY <1>1 DEF Placed, Listening, Polling, Processing
<1>3. Past(w, label, c, now)
  BY <1>1 DEF Past
<1>4. Good(w, label, c, now)
  BY <1>2, <1>3 DEF Good
<1>. QED
  BY <1>4 DEF label

\* A call that is over leaves nothing.
LEMMA ReturnGood ==
    ASSUME Typed, NEW w \in Workers, NEW c \in Calls, c.frames <= scene.ports[w].frames
    PROVE  Good(w, "idle", Return(c), now)
<1>. DEFINE d == Return(c)
<1>1. /\ d = Return(d) /\ d.frames = c.frames /\ d.now = 0 /\ d.start = 0 /\ d.begin = 0
      /\ d.inputs = <<>> /\ d.asked = <<>> /\ d.latests = <<>>
  BY ReturnType DEF Return, NewCall
<1>2. now \in Nat /\ Input(w) \in Seq(InputMetas) /\ Latest(w) \in Seq(LatestMetas)
  BY ConfigTypes, WorkerTypes
<1>. HIDE DEF d
<1>3. Placed(w, "idle", d) /\ Listening(w, "idle", d) /\ Polling(w, "idle", d)
      /\ Processing(w, "idle", d)
  BY <1>1 DEF Placed, Listening, Polling, Processing
<1>4. Near(w, d) /\ Past(w, "idle", d, now)
  BY <1>1, <1>2, SeqElements DEF Near, Past
<1>5. Good(w, "idle", d, now)
  BY <1>3, <1>4 DEF Good
<1>. QED
  BY <1>5 DEF d

\* A record is put, and the worker goes on.
LEMMA PutRecordGood ==
    ASSUME Typed, AllGood, NEW w \in Workers, NEW info \in Infos \cup {None},
           pc[w] = "put", PutRecord(w, info)
    PROVE  AllGood'
<1>. DEFINE c == call[w]
            refused == c.stamp \in infos[OpOf(w)].keys
            d == [c EXCEPT !.info = None, !.stamp = 0, !.refused = refused]
<1>1. c \in Calls /\ c.frames \in Nat /\ Good(w, "put", c, now)
  <2>1. c \in Calls
    BY WorkerTypes
  <2>. QED
    BY <2>1 DEF AllGood, Calls
<1>2. d \in Calls
  <2>1. \A x \in Calls : \A r \in BOOLEAN : \A i \in Infos \cup {None} : \A t \in Times :
          [x EXCEPT !.info = i, !.stamp = t, !.refused = r] \in Calls
    BY DEF Calls
  <2>2. refused \in BOOLEAN /\ None \in Infos \cup {None} /\ 0 \in Times
    BY TimesAssumption DEF Times
  <2>. HIDE DEF refused
  <2>. QED
    BY <1>1, <2>1, <2>2
<1>3. /\ d.now = c.now /\ d.start = c.start /\ d.frames = c.frames /\ d.on = c.on /\ d.ts = c.ts
      /\ d.begin = c.begin /\ d.inputs = c.inputs /\ d.asked = c.asked /\ d.latests = c.latests
      /\ d.ran = c.ran /\ d.ret = c.ret
  BY <1>1 DEF Calls
<1>4. Continue(w, d) /\ scene' = scene /\ now' = now
  BY DEF PutRecord
<1>. HIDE DEF d
<1>5. 1 <= d.frames /\ d.frames <= scene.ports[w].frames
  BY <1>1, <1>3 DEF Good, Placed
<1>6. Near(w, d)
  BY <1>1, <1>3 DEF Good, Near
<1>7. \A label \in {"process", "publish"} : Past(w, label, d, now)
  BY <1>1, <1>3 DEF Good, Past
<1>8. CASE d.on
  <2>1. Goto(w, Fetching(w, d), d)
    BY <1>4, <1>8 DEF Continue
  <2>2. Good(w, Fetching(w, d), d, now)
    BY <1>2, <1>5, <1>6, <1>7, FetchingGood
  <2>3. Fetching(w, d) \in Labels
    BY FetchingType DEF Labels
  <2>. QED
    BY <1>2, <1>4, <2>1, <2>2, <2>3, GotoGood
<1>9. CASE ~d.on /\ d.ret # "FAIL" /\ Goto(w, "publish", d)
  <2>1. Placed(w, "publish", d) /\ Listening(w, "publish", d) /\ Polling(w, "publish", d)
    BY <1>3, <1>5 DEF Placed, Listening, Polling
  <2>2. Processing(w, "publish", d)
    BY <1>1, <1>3, <1>9 DEF Good, Processing, Through
  <2>3. Good(w, "publish", d, now)
    BY <1>6, <1>7, <2>1, <2>2 DEF Good
  <2>. QED
    BY <1>2, <1>4, <1>9, <2>3, GotoGood DEF Labels
<1>10. CASE Goto(w, "idle", Return(d))
  <2>1. Good(w, "idle", Return(d), now) /\ Return(d) \in Calls
    BY <1>2, <1>5, ReturnGood, ReturnType
  <2>. QED
    BY <1>4, <1>10, <2>1, GotoGood DEF Labels
<1>. QED
  BY <1>4, <1>8, <1>9, <1>10 DEF Continue

\* The record of an operator with several workers,
LEMMA PutInfoGood ==
    ASSUME Typed, AllGood, NEW w \in Workers, PutInfo(w)
    PROVE  Typed' /\ AllGood'
<1>1. call[w].info \in Infos \cup {None} /\ PutRecord(w, call[w].info) /\ pc[w] = "put"
  <2>1. call[w] \in Calls
    BY WorkerTypes
  <2>. QED
    BY <2>1 DEF PutInfo, Calls
<1>. QED
  BY <1>1, PutRecordGood, PutInfoTypes

\* and of one with one.
LEMMA PutAloneGood ==
    ASSUME Typed, AllGood, NEW w \in Workers, PutAlone(w)
    PROVE  Typed' /\ AllGood'
<1>1. Record(w, running', began') \in Infos
  <2>1. began' \in [Workers -> Times]
    BY StartedType DEF PutAlone
  <2>. QED
    BY <2>1, RecordType
<1>2. PutRecord(w, Record(w, running', began')) /\ pc[w] = "put"
  BY DEF PutAlone
<1>. QED
  BY <1>1, <1>2, PutRecordGood, PutAloneTypes

\* An input is settled: what is found is near, and what is given up was waited for.
LEMMA SettleGood ==
    ASSUME Typed, AllGood, NEW w \in Workers, pc[w] \in {"bundle", "newest", "poll"},
           NEW f \in Frames \cup {None}, NEW since \in Nat,
           LET c == call[w]
               in == NextInput(w, c)
               key == c.ts + in.offset
           IN  /\ Settle(w, c, f, since)
               /\ f # None => f.utime = key \/ Distance(f.utime, key) < in.window
               /\ since > 0 => since + in.wait < now
    PROVE  Typed' /\ AllGood'
<1>. DEFINE c == call[w]
            d == [c EXCEPT !.inputs = Append(@, f), !.asked = Append(@, since),
                           !.begin = 0, !.wake = 0, !.trail = 0]
            in == NextInput(w, c)
            n == Len(c.inputs)
<1>1. c \in Calls /\ now \in Nat /\ Good(w, pc[w], c, now)
  BY WorkerTypes DEF AllGood
<1>2. /\ c.inputs \in Seq(Frames \cup {None}) /\ c.asked \in Seq(Nat) /\ n \in Nat
      /\ Len(c.asked) = n /\ c.ts \in Nat /\ c.frames \in Nat
  <2>1. c.inputs \in Seq(Frames \cup {None}) /\ c.asked \in Seq(Nat) /\ c.ts \in Nat
        /\ c.frames \in Nat
    BY <1>1 DEF Calls
  <2>. QED
    BY <1>1, <2>1, SeqElements DEF Good, Near
<1>3. d \in Calls
  <2>1. \A x \in Calls : \A q \in Seq(Frames \cup {None}) : \A r \in Seq(Nat) :
          [x EXCEPT !.inputs = q, !.asked = r, !.begin = 0, !.wake = 0, !.trail = 0] \in Calls
    BY DEF Calls
  <2>2. Append(c.inputs, f) \in Seq(Frames \cup {None}) /\ Append(c.asked, since) \in Seq(Nat)
    BY <1>2
  <2>3. [c EXCEPT !.inputs = Append(c.inputs, f), !.asked = Append(c.asked, since),
                  !.begin = 0, !.wake = 0, !.trail = 0] \in Calls
    BY <1>1, <2>1, <2>2
  <2>. QED
    BY <2>3
<1>4. /\ d.now = c.now /\ d.start = c.start /\ d.frames = c.frames /\ d.ts = c.ts /\ d.begin = 0
      /\ d.inputs = Append(c.inputs, f) /\ d.asked = Append(c.asked, since)
      /\ d.latests = c.latests
  BY <1>1 DEF Calls
<1>5. Local(w, Fetching(w, d), d)
  BY DEF Settle
<1>6. Len(c.inputs) < Len(Input(w)) /\ Input(w) \in Seq(InputMetas)
  BY <1>1, ConfigTypes DEF Good, Placed
<1>7. in \in InputMetas /\ in.offset \in Int /\ in = Input(w)[n + 1]
  BY <1>1, <1>6, NextInputType
<1>8. f # None => f.utime = c.ts + in.offset \/ Distance(f.utime, c.ts + in.offset) < in.window
  OBVIOUS
<1>9. since > 0 => since + in.wait < now
  OBVIOUS
<1>. HIDE DEF d, in
<1>10. \A k \in DOMAIN d.inputs :
         \/ k \in DOMAIN c.inputs /\ d.inputs[k] = c.inputs[k] /\ d.asked[k] = c.asked[k]
         \/ k = n + 1 /\ d.inputs[k] = f /\ d.asked[k] = since
  BY <1>2, <1>4
<1>11. /\ Len(d.inputs) = n + 1 /\ Len(d.asked) = n + 1 /\ n + 1 <= Len(Input(w))
       /\ DOMAIN d.asked = DOMAIN d.inputs /\ DOMAIN c.asked = DOMAIN c.inputs
  BY <1>2, <1>4, <1>6
<1>12. Near(w, d)
  <2>1. f # None =>
          \/ Distance(c.ts + in.offset, f.utime) = 0
          \/ Distance(c.ts + in.offset, f.utime) < in.window
    <3>1. ASSUME f # None
          PROVE  \/ Distance(c.ts + in.offset, f.utime) = 0
                 \/ Distance(c.ts + in.offset, f.utime) < in.window
      <4>1. f.utime \in Int
        BY <3>1 DEF Frames
      <4>2. c.ts + in.offset \in Int
        BY <1>2, <1>7
      <4>. QED
        BY <1>8, <3>1, <4>1, <4>2 DEF Distance
    <3>. QED
      BY <3>1
  <2>2. ASSUME NEW k \in DOMAIN d.inputs, d.inputs[k] # None
        PROVE  LET e == Distance(d.ts + Input(w)[k].offset, d.inputs[k].utime)
               IN  e = 0 \/ e < Input(w)[k].window
    <3>1. CASE k \in DOMAIN c.inputs /\ d.inputs[k] = c.inputs[k]
      BY <1>1, <1>4, <2>2, <3>1 DEF Good, Near
    <3>2. CASE k = n + 1 /\ d.inputs[k] = f
      BY <1>4, <1>7, <2>1, <2>2, <3>2
    <3>. QED
      BY <1>10, <3>1, <3>2
  <2>3. Len(d.latests) <= Len(Latest(w)) /\
        \A k \in DOMAIN d.latests :
          d.latests[k] # None /\ Latest(w)[k].tolerance > 0 =>
            Distance(d.ts, d.latests[k].utime) <= Latest(w)[k].tolerance
    BY <1>1, <1>4 DEF Good, Near
  <2>. QED
    BY <1>11, <2>2, <2>3 DEF Near
<1>13. Past(w, "process", d, now)
  <2>1. ASSUME NEW k \in DOMAIN d.asked, d.asked[k] > 0
        PROVE  d.asked[k] + Input(w)[k].wait < now
    <3>1. CASE k \in DOMAIN c.asked /\ d.asked[k] = c.asked[k]
      BY <1>1, <2>1, <3>1 DEF Good, Past
    <3>2. CASE k = n + 1 /\ d.asked[k] = since
      BY <1>7, <1>9, <2>1, <3>2
    <3>. QED
      BY <1>10, <1>11, <3>1, <3>2
  <2>. QED
    BY <1>1, <1>4, <2>1 DEF Good, Past
<1>14. 1 <= d.frames /\ d.frames <= scene.ports[w].frames
  BY <1>1, <1>2, <1>4 DEF Good, Placed
<1>15. Good(w, Fetching(w, d), d, now)
  BY <1>3, <1>12, <1>13, <1>14, FetchingGood
<1>16. Fetching(w, d) \in Labels
  BY FetchingType DEF Labels
<1>. QED
  BY <1>3, <1>5, <1>15, <1>16, LocalGood

\* The first look for an input.
LEMMA BundleGood ==
    ASSUME Typed, AllGood, NEW w \in Workers, Bundle(w)
    PROVE  Typed' /\ AllGood'
<1>. DEFINE c == call[w]
            f == FindInput(w, c)
            d == [c EXCEPT !.begin = now]
<1>1. c \in Calls /\ now \in Nat /\ pc[w] = "bundle" /\ Good(w, "bundle", c, now)
  BY WorkerTypes DEF Bundle, AllGood
<1>2. Len(c.inputs) < Len(Input(w))
  BY <1>1 DEF Good, Placed
<1>3. CASE Settle(w, c, f, 0)
  <2>1. LET in == NextInput(w, c)
            key == c.ts + in.offset
        IN  /\ f \in Frames \cup {None}
            /\ f # None => f.utime = key \/ Distance(f.utime, key) < in.window
    BY <1>1, <1>2, FindInputType
  <2>. HIDE DEF f
  <2>. QED
    BY <1>1, <1>3, <2>1, SettleGood
<1>4. CASE Local(w, "newest", d)
  <2>1. d \in Calls
    <3>1. \A x \in Calls : \A n \in Nat : [x EXCEPT !.begin = n] \in Calls
      BY DEF Calls
    <3>. QED
      BY <1>1, <3>1
  <2>2. /\ d.now = c.now /\ d.start = c.start /\ d.frames = c.frames /\ d.ts = c.ts
        /\ d.begin = now /\ d.inputs = c.inputs /\ d.asked = c.asked /\ d.latests = c.latests
    BY <1>1 DEF Calls
  <2>. HIDE DEF d
  <2>3. Near(w, d) /\ Past(w, "newest", d, now)
    BY <1>1, <2>2 DEF Good, Near, Past
  <2>4. Placed(w, "newest", d) /\ Listening(w, "newest", d) /\ Polling(w, "newest", d)
        /\ Processing(w, "newest", d)
    BY <1>1, <2>2 DEF Good, Placed, Listening, Polling, Processing
  <2>5. Good(w, "newest", d, now)
    BY <2>3, <2>4 DEF Good
  <2>. QED
    BY <1>4, <2>1, <2>5, LocalGood DEF Labels
<1>. QED
  BY <1>3, <1>4 DEF Bundle

\* The look for the newest frame.
LEMMA NewestGood ==
    ASSUME Typed, AllGood, NEW w \in Workers, Newest(w)
    PROVE  Typed' /\ AllGood'
<1>. DEFINE c == call[w]
            in == NextInput(w, c)
            d == [c EXCEPT !.trail = Trail(in.wait), !.wake = now + CheckDt]
<1>1. c \in Calls /\ now \in Nat /\ pc[w] = "newest" /\ Good(w, "newest", c, now)
  BY WorkerTypes DEF Newest, AllGood
<1>2. Len(c.inputs) < Len(Input(w))
  BY <1>1 DEF Good, Placed
<1>3. CASE Settle(w, c, None, 0)
  BY <1>1, <1>3, SettleGood
<1>4. CASE Local(w, "poll", d)
  <2>1. Trail(in.wait) \in Nat /\ Trail(in.wait) > 0 /\ CheckDt \in Nat
    <3>1. in.wait \in Nat
      BY <1>1, <1>2, NextInputType
    <3>. QED
      BY <3>1, TrailEnough, TimesAssumption
  <2>2. d \in Calls
    <3>1. \A x \in Calls : \A m, n \in Nat : [x EXCEPT !.trail = m, !.wake = n] \in Calls
      BY DEF Calls
    <3>2. now + CheckDt \in Nat
      BY <1>1, <2>1
    <3>. HIDE DEF in
    <3>. QED
      BY <1>1, <2>1, <3>1, <3>2
  <2>3. /\ d.now = c.now /\ d.start = c.start /\ d.frames = c.frames /\ d.ts = c.ts
        /\ d.begin = c.begin /\ d.inputs = c.inputs /\ d.asked = c.asked /\ d.latests = c.latests
        /\ d.trail = Trail(in.wait) /\ d.wake = now + CheckDt
    BY <1>1 DEF Calls
  <2>4. NextInput(w, d) = in
    BY <2>3 DEF NextInput
  <2>. HIDE DEF d, in
  <2>5. Near(w, d) /\ Past(w, "poll", d, now)
    BY <1>1, <2>3 DEF Good, Near, Past
  <2>6. Placed(w, "poll", d) /\ Listening(w, "poll", d) /\ Processing(w, "poll", d)
    BY <1>1, <2>3 DEF Good, Placed, Listening, Processing
  <2>7. Polling(w, "poll", d)
    <3>1. c.begin \in Nat /\ c.begin <= now
      BY <1>1 DEF Calls, Good, Past
    <3>2. (d.trail - d.trail + 1) * CheckDt = CheckDt
      BY <2>1, <2>3
    <3>3. d.wake >= d.begin + (d.trail - d.trail + 1) * CheckDt
      BY <1>1, <2>1, <2>3, <3>1, <3>2
    <3>4. d.trail \in 1 .. Trail(in.wait)
      BY <2>1, <2>3
    <3>. QED
      BY <2>3, <2>4, <3>3, <3>4 DEF Polling
  <2>8. Good(w, "poll", d, now)
    BY <2>5, <2>6, <2>7 DEF Good
  <2>. QED
    BY <1>4, <2>2, <2>8, LocalGood DEF Labels
<1>. QED
  BY <1>3, <1>4 DEF Newest

\* When the last look of all has failed, the whole wait is over.
LEMMA PollGood ==
    ASSUME Typed, AllGood, NEW w \in Workers, Poll(w)
    PROVE  Typed' /\ AllGood'
<1>. DEFINE c == call[w]
            in == NextInput(w, c)
            f == FindInput(w, c)
            d == [c EXCEPT !.trail = @ - 1, !.wake = now + CheckDt]
            n == Trail(in.wait)
<1>1. c \in Calls /\ now \in Nat /\ pc[w] = "poll" /\ now >= c.wake /\ Good(w, "poll", c, now)
  BY WorkerTypes DEF Poll, AllGood
<1>2. Len(c.inputs) < Len(Input(w))
  BY <1>1 DEF Good, Placed
<1>3. c.begin \in Nat /\ c.trail \in Nat /\ c.wake \in Nat
  BY <1>1 DEF Calls
<1>4. in.wait \in Nat /\ n \in Nat /\ n * CheckDt > in.wait /\ CheckDt \in Nat
  <2>1. in.wait \in Nat
    BY <1>1, <1>2, NextInputType
  <2>. QED
    BY <2>1, TrailEnough, TimesAssumption
<1>5. c.trail \in 1 .. n /\ c.wake >= c.begin + (n - c.trail + 1) * CheckDt
  BY <1>1 DEF Good, Polling
<1>6. CASE Settle(w, c, f, 0)
  <2>1. LET key == c.ts + in.offset
        IN  /\ f \in Frames \cup {None}
            /\ f # None => f.utime = key \/ Distance(f.utime, key) < in.window
    BY <1>1, <1>2, FindInputType
  <2>. HIDE DEF f
  <2>. QED
    BY <1>1, <1>6, <2>1, SettleGood
<1>7. CASE c.trail = 1 /\ Settle(w, c, Missed(w, c), c.begin)
  <2>1. c.begin + in.wait < now
    <3>1. n - c.trail + 1 = n
      BY <1>4, <1>7
    <3>2. c.wake >= c.begin + n * CheckDt
      BY <1>5, <3>1
    <3>. DEFINE m == n * CheckDt
    <3>3. m \in Nat /\ m > in.wait
      BY <1>4
    <3>4. c.wake >= c.begin + m
      BY <3>2
    <3>. HIDE DEF m, n, in, c
    <3>. QED
      BY <1>1, <1>3, <1>4, <3>3, <3>4
  <2>2. Missed(w, c) = None
    BY DEF Missed
  <2>. QED
    BY <1>1, <1>3, <1>7, <2>1, <2>2, SettleGood
<1>8. CASE c.trail # 1 /\ Local(w, "poll", d)
  <2>1. d \in Calls
    <3>1. \A x \in Calls : \A k, l \in Nat : [x EXCEPT !.trail = k, !.wake = l] \in Calls
      BY DEF Calls
    <3>2. now + CheckDt \in Nat /\ c.trail - 1 \in Nat
      BY <1>1, <1>3, <1>4, <1>5
    <3>3. [c EXCEPT !.trail = c.trail - 1, !.wake = now + CheckDt] \in Calls
      BY <1>1, <3>1, <3>2
    <3>. QED
      BY <3>3
  <2>2. /\ d.now = c.now /\ d.start = c.start /\ d.frames = c.frames /\ d.ts = c.ts
        /\ d.begin = c.begin /\ d.inputs = c.inputs /\ d.asked = c.asked /\ d.latests = c.latests
        /\ d.trail = c.trail - 1 /\ d.wake = now + CheckDt
    BY <1>1 DEF Calls
  <2>3. NextInput(w, d) = in
    BY <2>2 DEF NextInput
  <2>. HIDE DEF d, n, in
  <2>4. Near(w, d) /\ Past(w, "poll", d, now)
    BY <1>1, <2>2 DEF Good, Near, Past
  <2>5. Placed(w, "poll", d) /\ Listening(w, "poll", d) /\ Processing(w, "poll", d)
    BY <1>1, <2>2 DEF Good, Placed, Listening, Processing
  <2>6. Polling(w, "poll", d)
    <3>1. \A k \in Int : (k + 1) * CheckDt = k * CheckDt + CheckDt
      BY <1>4
    <3>. DEFINE k == n - c.trail + 1
                m == k * CheckDt
    <3>2. k \in Int /\ n - d.trail + 1 = k + 1
      BY <1>3, <1>4, <2>2
    <3>3. m \in Int
      BY <1>4, <3>2
    <3>4. (n - d.trail + 1) * CheckDt = m + CheckDt
      BY <3>1, <3>2
    <3>5. c.wake >= c.begin + m
      BY <1>5
    <3>6. d.trail \in 1 .. n
      BY <1>3, <1>4, <1>5, <1>8, <2>2
    <3>. HIDE DEF m, k
    <3>7. now + CheckDt >= c.begin + (m + CheckDt)
      BY <1>1, <1>3, <1>4, <3>3, <3>5
    <3>. QED
      BY <2>2, <2>3, <3>4, <3>6, <3>7 DEF Polling, n
  <2>7. Good(w, "poll", d, now)
    BY <2>4, <2>5, <2>6 DEF Good
  <2>. QED
    BY <1>8, <2>1, <2>7, LocalGood DEF Labels
<1>. QED
  BY <1>6, <1>7, <1>8 DEF Poll

\* A latest frame is within its tolerance.
LEMMA GetLatestGood ==
    ASSUME Typed, AllGood, NEW w \in Workers, GetLatest(w)
    PROVE  Typed' /\ AllGood'
<1>. DEFINE c == call[w]
            n == Len(c.latests)
            want == Latest(w)[n + 1]
            f == ref[want.from].newest
            far == f # None /\ want.tolerance > 0 /\ Distance(c.ts, f.utime) > want.tolerance
            g == IF far THEN None ELSE f
            d == [c EXCEPT !.latests = Append(@, g)]
<1>1. c \in Calls /\ now \in Nat /\ pc[w] = "latest" /\ Good(w, "latest", c, now)
  BY WorkerTypes DEF GetLatest, AllGood
<1>2. c.latests \in Seq(Frames \cup {None}) /\ c.ts \in Nat /\ c.frames \in Nat
  BY <1>1 DEF Calls
<1>3. n \in Nat /\ n < Len(Latest(w)) /\ Latest(w) \in Seq(LatestMetas)
  BY <1>1, <1>2, ConfigTypes DEF Good, Placed
<1>4. want \in LatestMetas /\ want.from \in Workers /\ want.tolerance \in Nat
  <2>1. n + 1 \in DOMAIN Latest(w)
    BY <1>3
  <2>2. want \in LatestMetas
    BY <1>3, <2>1, SeqElements
  <2>. HIDE DEF want
  <2>. QED
    BY <2>2 DEF LatestMetas
<1>5. f \in Frames \cup {None}
  <2>. HIDE DEF want
  <2>. QED
    BY <1>4, WorkerTypes
<1>6. /\ g \in Frames \cup {None}
      /\ g # None /\ want.tolerance > 0 => Distance(c.ts, g.utime) <= want.tolerance
  <2>. HIDE DEF f, want
  <2>1. f # None => Distance(c.ts, f.utime) \in Int
    BY <1>2, <1>5 DEF Distance, Frames
  <2>. QED
    BY <1>4, <1>5, <2>1
<1>7. Local(w, Fetching(w, d), d)
  BY DEF GetLatest
<1>8. d \in Calls
  <2>. HIDE DEF g
  <2>1. \A x \in Calls : \A q \in Seq(Frames \cup {None}) : [x EXCEPT !.latests = q] \in Calls
    BY DEF Calls
  <2>2. Append(c.latests, g) \in Seq(Frames \cup {None})
    BY <1>2, <1>6
  <2>. QED
    BY <1>1, <2>1, <2>2
<1>9. /\ d.now = c.now /\ d.start = c.start /\ d.frames = c.frames /\ d.ts = c.ts
      /\ d.begin = c.begin /\ d.inputs = c.inputs /\ d.asked = c.asked
      /\ d.latests = Append(c.latests, g)
  BY <1>1 DEF Calls
<1>. HIDE DEF d, g
<1>10. \A k \in DOMAIN d.latests :
         \/ k \in DOMAIN c.latests /\ d.latests[k] = c.latests[k]
         \/ k = n + 1 /\ d.latests[k] = g
  BY <1>2, <1>6, <1>9
<1>11. Len(d.latests) <= Len(Latest(w))
  BY <1>2, <1>3, <1>6, <1>9
<1>12. Near(w, d)
  <2>1. ASSUME NEW k \in DOMAIN d.latests, d.latests[k] # None, Latest(w)[k].tolerance > 0
        PROVE  Distance(d.ts, d.latests[k].utime) <= Latest(w)[k].tolerance
    <3>1. CASE k \in DOMAIN c.latests /\ d.latests[k] = c.latests[k]
      BY <1>1, <1>9, <2>1, <3>1 DEF Good, Near
    <3>2. CASE k = n + 1 /\ d.latests[k] = g
      BY <1>6, <1>9, <2>1, <3>2
    <3>. QED
      BY <1>10, <3>1, <3>2
  <2>. QED
    BY <1>1, <1>9, <1>11, <2>1 DEF Good, Near
<1>13. Past(w, "process", d, now) /\ 1 <= d.frames /\ d.frames <= scene.ports[w].frames
  BY <1>1, <1>2, <1>9 DEF Good, Past, Placed
<1>14. Good(w, Fetching(w, d), d, now) /\ Fetching(w, d) \in Labels
  BY <1>8, <1>12, <1>13, FetchingGood, FetchingType DEF Labels
<1>. QED
  BY <1>7, <1>8, <1>14, LocalGood

\* What comes out of the group with a status other than FAIL has been through it.
LEMMA GroupThrough ==
    ASSUME Typed, NEW w \in Workers, NEW st \in [ValidOps(w) -> Statuses],
           NEW c \in Calls, c.frames >= 1,
           LET ignore == Config(w).ignore_fail
               ran == IF c.frames = 1 THEN Peeked(st, ignore) ELSE Processed(st, ignore)
               ret == IF c.frames = 1 THEN PeekStatus(ran, ignore) ELSE ProcessStatus(ran)
           IN  c.ran = ran /\ c.ret = ret,
           c.ret # "FAIL"
    PROVE  Through(w, c)
<1>. DEFINE ignore == Config(w).ignore_fail
            ran == c.ran
            stops == IF ignore THEN {} ELSE IF c.frames = 1 THEN {"FAIL"} ELSE {"FAIL", "IGNORE"}
            all == DOMAIN ran = ValidOps(w)
<1>1. ignore \in BOOLEAN /\ c.frames \in Nat
  BY ConfigTypes DEF Calls
<1>2. PICK n \in Nat : ValidOps(w) = 1 .. n
  BY ValidOpsCount
<1>3. stops \in SUBSET Statuses
  BY DEF Statuses
<1>4. ran = UpTo(st, stops)
  BY <1>1 DEF Peeked, Processed
<1>. HIDE DEF stops
<1>5. /\ ran \in Seq(Statuses)
      /\ \A i \in DOMAIN ran : i < Len(ran) => ran[i] \notin stops
      /\ all \/ (ran # <<>> /\ ran[Len(ran)] \in stops)
  BY <1>2, <1>3, <1>4, UpToFirst
<1>6. CASE ignore
  BY <1>5, <1>6 DEF Through, stops
<1>7. CASE ~ignore
  <2>1. "FAIL" \in stops /\ (stops = {"FAIL"} \/ (c.frames > 1 /\ stops = {"FAIL", "IGNORE"}))
    BY <1>1, <1>7 DEF stops
  <2>2. ran # <<>> => ran[Len(ran)] # "FAIL"
    BY <1>7 DEF PeekStatus, ProcessStatus
  <2>3. \A i \in DOMAIN ran : i < Len(ran) \/ (i = Len(ran) /\ ran # <<>>)
    BY <1>5
  <2>4. \A i \in DOMAIN ran : ran[i] # "FAIL"
    BY <1>5, <2>1, <2>2, <2>3
  <2>. QED
    BY <1>5, <1>7, <2>1, <2>2, <2>4 DEF Through
<1>. QED
  BY <1>1, <1>6, <1>7

\* The end of the work.
LEMMA ProcessGood ==
    ASSUME Typed, AllGood, NEW w \in Workers, Process(w)
    PROVE  Typed' /\ AllGood'
<1>. DEFINE c == call[w]
            ignore == Config(w).ignore_fail
<1>1. PICK st \in [ValidOps(w) -> Statuses] :
        LET ran == IF c.frames = 1 THEN Peeked(st, ignore) ELSE Processed(st, ignore)
            ret == IF c.frames = 1 THEN PeekStatus(ran, ignore) ELSE ProcessStatus(ran)
        IN  Update(w, [c EXCEPT !.ran = ran, !.ret = ret, !.on = FALSE,
                                !.inputs = <<>>, !.asked = <<>>, !.latests = <<>>])
  BY DEF Process
<1>. DEFINE ran == IF c.frames = 1 THEN Peeked(st, ignore) ELSE Processed(st, ignore)
            ret == IF c.frames = 1 THEN PeekStatus(ran, ignore) ELSE ProcessStatus(ran)
            d == [c EXCEPT !.ran = ran, !.ret = ret, !.on = FALSE,
                           !.inputs = <<>>, !.asked = <<>>, !.latests = <<>>]
<1>2. ran \in Seq(Statuses) /\ ret \in Statuses
  <2>1. ignore \in BOOLEAN
    BY ConfigTypes
  <2>. QED
    BY <2>1, ProcessedTypes
<1>3. \A x \in Calls : \A r \in Seq(Statuses) : \A t \in Statuses :
      \A p, q \in Seq(Frames \cup {None}) : \A u \in Seq(Nat) :
        [x EXCEPT !.ran = r, !.ret = t, !.on = FALSE, !.inputs = p, !.asked = u, !.latests = q]
          \in Calls
  <2>1. \A x \in Calls : \A r \in Seq(Statuses) : \A t \in Statuses :
          [x EXCEPT !.ran = r, !.ret = t, !.on = FALSE] \in Calls
    BY DEF Calls
  <2>2. \A x \in Calls : \A p, q \in Seq(Frames \cup {None}) : \A u \in Seq(Nat) :
          [x EXCEPT !.inputs = p, !.asked = u, !.latests = q] \in Calls
    BY DEF Calls
  <2>3. \A x \in Calls : \A r, t, p, u, q :
          [x EXCEPT !.ran = r, !.ret = t, !.on = FALSE, !.inputs = p, !.asked = u, !.latests = q]
            = [[x EXCEPT !.ran = r, !.ret = t, !.on = FALSE] EXCEPT
                 !.inputs = p, !.asked = u, !.latests = q]
    OBVIOUS
  <2>. QED
    BY <2>1, <2>2, <2>3
<1>4. <<>> \in Seq(Frames \cup {None}) /\ <<>> \in Seq(Nat)
  OBVIOUS
<1>5. c \in Calls /\ pc[w] = "process" /\ Good(w, "process", c, now)
  BY WorkerTypes DEF Process, AllGood
<1>6. d \in Calls
  <2>. HIDE DEF ran, ret
  <2>. QED
    BY <1>2, <1>3, <1>4, <1>5
<1>7. Update(w, d)
  BY <1>1
<1>8. /\ d.now = c.now /\ d.start = c.start /\ d.frames = c.frames /\ d.begin = c.begin
      /\ d.inputs = <<>> /\ d.asked = <<>> /\ d.latests = <<>>
      /\ d.ran = ran /\ d.ret = ret
  <2>. HIDE DEF ran, ret
  <2>. QED
    BY <1>5 DEF Calls
<1>. HIDE DEF d
<1>9. 1 <= d.frames /\ d.frames <= scene.ports[w].frames
  <2>1. c.frames \in Nat
    BY <1>5 DEF Calls
  <2>. QED
    BY <1>5, <1>8, <2>1 DEF Good, Placed
<1>10. d.ret # "FAIL" => Through(w, d)
  <2>1. d.frames >= 1
    BY <1>9
  <2>. QED
    BY <1>6, <1>8, <2>1, GroupThrough
<1>11. Near(w, d)
  <2>1. Input(w) \in Seq(InputMetas) /\ Latest(w) \in Seq(LatestMetas)
    BY ConfigTypes
  <2>. QED
    BY <1>8, <2>1, SeqElements DEF Near
<1>12. \A label \in Labels \ {"begin"} : Past(w, label, d, now)
  BY <1>5, <1>8 DEF Good, Past
<1>. QED
  BY <1>6, <1>7, <1>9, <1>10, <1>11, <1>12, UpdateGood

\* The frame is published.
LEMMA PublishGood ==
    ASSUME Typed, AllGood, NEW w \in Workers, Publish(w)
    PROVE  Typed' /\ AllGood'
<1>1. call[w] \in Calls /\ call[w].frames <= scene.ports[w].frames
  BY WorkerTypes DEF AllGood, Good, Placed
<1>2. Good(w, "idle", Return(call[w]), now) /\ Return(call[w]) \in Calls
  BY <1>1, ReturnGood, ReturnType
<1>3. Goto(w, "idle", Return(call[w])) /\ scene' = scene /\ now' = now
  BY DEF Publish
<1>4. AllGood'
  BY <1>2, <1>3, GotoGood DEF Labels
<1>. QED
  BY <1>4, PublishTypes

\* Every step keeps the types, and what is good.
LEMMA NextGood ==
    ASSUME Typed, AllGood, [Next]_vars
    PROVE  Typed' /\ AllGood'
<1>1. ASSUME NEW w \in Workers, Take(w) \/ Step(w)
      PROVE  Typed' /\ AllGood'
  BY <1>1, TakeGood, RoundGood, LookGood, WakeGood, BeginGood, ReadWordGood, WriteWordGood,
     CollectGood, PutInfoGood, PutAloneGood, BundleGood, NewestGood, PollGood, GetLatestGood,
     ProcessGood, PublishGood
     DEF Step
<1>2. CASE Tick
  BY <1>2, TickTypes, TickGood
<1>3. CASE UNCHANGED vars
  <2>1. /\ scene' = scene /\ now' = now /\ running' = running /\ began' = began
        /\ infos' = infos /\ ref' = ref /\ pc' = pc /\ call' = call
    BY <1>3 DEF vars
  <2>2. Typed'
    BY <2>1 DEF Typed
  <2>3. ASSUME NEW v \in Workers
        PROVE  Good(v, pc[v], call[v], now)'
    BY <2>1, GoodPrimed DEF AllGood
  <2>. QED
    BY <2>2, <2>3 DEF AllGood
<1>. QED
  BY <1>1, <1>2, <1>3 DEF Next

-----------------------------------------------------------------------------
(* What others hear, and what was missed.                                  *)

\* A step of w that tells the others nothing, and does not begin or end its work.
Silent(w) ==
    /\ scene' = scene /\ infos' = infos /\ began' = began
    /\ call'[w].refused = call[w].refused
    /\ Working(w)' <=> Working(w)

\* No frame that is there now would do for the k-th input of w.
Unseen(w, k) ==
    \A g \in ref[Input(w)[k].from].frames :
        ~(Distance(call'[w].ts + Input(w)[k].offset, g.utime) < Input(w)[k].window)

\* A step of w gives an input up only when no frame would do for it.
GivesUp(w) ==
    \A k \in DOMAIN call'[w].asked :
        \/ call'[w].asked[k] = 0
        \/ /\ k \in DOMAIN call[w].asked /\ call'[w].asked[k] = call[w].asked[k]
           /\ call'[w].ts = call[w].ts
        \/ Unseen(w, k)

\* The steps before the work.
LEMMA WaitingSilent ==
    ASSUME Typed, AllGood, NEW w \in Workers,
           Take(w) \/ Round(w) \/ Look(w) \/ Wake(w) \/ Begin(w)
    PROVE  Silent(w) /\ GivesUp(w)
<1>. DEFINE c == call[w]
<1>1. c \in Calls /\ pc \in [Workers -> Labels] /\ call \in [Workers -> Calls]
  BY WorkerTypes DEF Typed
<1>2. /\ Good(w, pc[w], c, now)
      /\ pc[w] \in {"round", "look", "sleep", "begin"} => c.on
      /\ pc[w] = "idle" => c.asked = <<>>
  <2>1. Good(w, pc[w], c, now)
    BY DEF AllGood
  <2>2. pc[w] = "idle" => c = Return(c)
    BY <2>1 DEF Good, Placed
  <2>3. Return(c).asked = <<>>
    BY <1>1, ReturnType
  <2>. QED
    BY <2>1, <2>2, <2>3 DEF Good, Placed
<1>3. CASE Take(w)
  <2>1. PICK age \in scene.ports[w].ages :
          Local(w, IF Config(w).bypass THEN "publish"
                   ELSE IF Deps(w) = <<>> THEN "begin" ELSE "round",
                [c EXCEPT !.ts = now - age, !.frames = @ + 1, !.start = now, !.on = TRUE])
    BY <1>3 DEF Take
  <2>2. /\ call'[w].refused = c.refused /\ call'[w].asked = c.asked /\ call'[w].on
        /\ pc'[w] \in {"publish", "begin", "round"}
    BY <1>1, <2>1 DEF Local, Goto, Calls
  <2>3. pc[w] = "idle"
    BY <1>3 DEF Take
  <2>. QED
    BY <1>2, <2>1, <2>2, <2>3 DEF Silent, GivesUp, Working, Local, shared
<1>4. CASE Round(w)
  <2>1. pc[w] = "round" /\ Local(w, "look", [c EXCEPT !.now = now, !.wait_time = 0, !.heard = <<>>])
    BY <1>4 DEF Round
  <2>2. /\ call'[w].refused = c.refused /\ call'[w].asked = c.asked /\ call'[w].ts = c.ts
        /\ pc'[w] = "look"
    BY <1>1, <2>1 DEF Local, Goto, Calls
  <2>. QED
    BY <2>1, <2>2 DEF Silent, GivesUp, Working, Local, shared
<1>5. CASE Look(w)
  <2>. DEFINE dep == Deps(w)[Len(c.heard) + 1]
              info == infos[dep.on].newest
              asked == IF info = None THEN 0 ELSE DepWait(dep, info, c)
              d == [c EXCEPT !.heard = Append(@, info),
                             !.wait_time = IF asked > 0 THEN asked ELSE @]
  <2>1. pc[w] = "look" /\
        \/ Local(w, "look", d)
        \/ Local(w, "begin", d)
        \/ Local(w, "sleep", [d EXCEPT !.wake = now + d.wait_time])
    BY <1>5 DEF Look
  <2>. HIDE DEF info, asked
  <2>2. /\ call'[w].refused = c.refused /\ call'[w].asked = c.asked /\ call'[w].ts = c.ts
        /\ call'[w].on = c.on /\ pc'[w] \in {"look", "begin", "sleep"}
    <3>1. /\ d.refused = c.refused /\ d.asked = c.asked /\ d.ts = c.ts /\ d.on = c.on
      BY <1>1 DEF Calls
    <3>. DEFINE e == [d EXCEPT !.wake = now + d.wait_time]
    <3>2. /\ e.refused = d.refused /\ e.asked = d.asked /\ e.ts = d.ts /\ e.on = d.on
      BY <1>1 DEF Calls
    <3>. HIDE DEF d, e
    <3>3. call'[w] \in {d, e} /\ pc'[w] \in {"look", "begin", "sleep"}
      BY <1>1, <2>1 DEF Local, Goto, e
    <3>. QED
      BY <3>1, <3>2, <3>3
  <2>. QED
    BY <1>2, <2>1, <2>2 DEF Silent, GivesUp, Working, Local, shared
<1>6. CASE Wake(w)
  <2>1. pc[w] = "sleep" /\ Local(w, IF Retry(c) THEN "round" ELSE "begin", [c EXCEPT !.wake = 0])
    BY <1>6 DEF Wake
  <2>2. /\ call'[w].refused = c.refused /\ call'[w].asked = c.asked /\ call'[w].ts = c.ts
        /\ call'[w].on = c.on /\ pc'[w] \in {"round", "begin"}
    BY <1>1, <2>1 DEF Local, Goto, Calls
  <2>. QED
    BY <1>2, <2>1, <2>2 DEF Silent, GivesUp, Working, Local, shared
<1>7. CASE Begin(w)
  <2>1. pc[w] = "begin" /\
        Local(w, IF Mates(w) = {w} THEN "put" ELSE "read",
              [[c EXCEPT !.start = 0, !.now = 0, !.wait_time = 0, !.heard = <<>>] EXCEPT !.stamp = now])
    BY <1>7 DEF Begin, Update
  <2>2. /\ call'[w].refused = c.refused /\ call'[w].asked = c.asked /\ call'[w].ts = c.ts
        /\ call'[w].on = c.on /\ pc'[w] \in {"put", "read"}
    BY <1>1, <2>1 DEF Local, Goto, Calls
  <2>. QED
    BY <1>2, <2>1, <2>2 DEF Silent, GivesUp, Working, Local, shared
<1>. QED
  BY <1>3, <1>4, <1>5, <1>6, <1>7

\* An input is settled.
LEMMA SettleSilent ==
    ASSUME Typed, AllGood, NEW w \in Workers, pc[w] \in {"bundle", "newest", "poll"},
           NEW f \in Frames \cup {None}, NEW since \in Nat, Settle(w, call[w], f, since),
           since > 0 => FindInput(w, call[w]) = None
    PROVE  Silent(w) /\ GivesUp(w)
<1>. DEFINE c == call[w]
            d == [c EXCEPT !.inputs = Append(@, f), !.asked = Append(@, since),
                           !.begin = 0, !.wake = 0, !.trail = 0]
            in == NextInput(w, c)
<1>1. /\ c \in Calls /\ Good(w, pc[w], c, now)
      /\ pc \in [Workers -> Labels] /\ call \in [Workers -> Calls]
  BY WorkerTypes DEF AllGood, Typed
<1>2. c.asked \in Seq(Nat) /\ c.inputs \in Seq(Frames \cup {None}) /\ c.ts \in Nat
  BY <1>1 DEF Calls
<1>3. Len(c.inputs) < Len(Input(w)) /\ Len(c.asked) = Len(c.inputs)
  BY <1>1 DEF Good, Placed, Near
<1>4. Local(w, Fetching(w, d), d)
  BY DEF Settle
<1>5. /\ d.refused = c.refused /\ d.asked = Append(c.asked, since) /\ d.ts = c.ts
  BY <1>1 DEF Calls
<1>. HIDE DEF d
<1>6. call'[w] = d /\ pc'[w] \in {"bundle", "latest", "process"}
  BY <1>1, <1>4, FetchingType DEF Local, Goto
<1>7. Silent(w)
  BY <1>4, <1>5, <1>6 DEF Silent, Working, Local, shared
<1>8. in \in InputMetas /\ in = Input(w)[Len(c.inputs) + 1]
  BY <1>1, <1>3, NextInputType
<1>9. since > 0 => Unseen(w, Len(c.inputs) + 1)
  <2>1. ASSUME since > 0, NEW g \in ref[in.from].frames
        PROVE  ~(Distance(c.ts + in.offset, g.utime) < in.window)
    <3>1. ~(Distance(g.utime, c.ts + in.offset) < in.window)
      BY <1>1, <1>3, <2>1, FindInputType
    <3>2. in.from \in Workers /\ in.offset \in Int
      BY <1>1, <1>3, NextInputType
    <3>3. g.utime \in Int
      <4>1. ref[in.from].frames \subseteq Frames
        BY <3>2, WorkerTypes
      <4>. QED
        BY <4>1 DEF Frames
    <3>. HIDE DEF in
    <3>4. Distance(c.ts + in.offset, g.utime) = Distance(g.utime, c.ts + in.offset)
      BY <1>2, <3>2, <3>3 DEF Distance
    <3>. QED
      BY <3>1, <3>4
  <2>. QED
    BY <1>5, <1>6, <1>8, <2>1 DEF Unseen
<1>10. \A k \in DOMAIN d.asked :
         \/ k \in DOMAIN c.asked /\ d.asked[k] = c.asked[k]
         \/ k = Len(c.asked) + 1 /\ d.asked[k] = since
  BY <1>2, <1>5
<1>11. GivesUp(w)
  <2>1. ASSUME NEW k \in DOMAIN call'[w].asked
        PROVE  \/ call'[w].asked[k] = 0
               \/ /\ k \in DOMAIN call[w].asked /\ call'[w].asked[k] = call[w].asked[k]
                  /\ call'[w].ts = call[w].ts
               \/ Unseen(w, k)
    <3>1. CASE k \in DOMAIN c.asked /\ d.asked[k] = c.asked[k]
      BY <1>5, <1>6, <3>1
    <3>2. CASE k = Len(c.asked) + 1 /\ d.asked[k] = since
      BY <1>3, <1>6, <1>9, <3>2
    <3>. QED
      BY <1>6, <1>10, <2>1, <3>1, <3>2
  <2>. QED
    BY <2>1 DEF GivesUp
<1>. QED
  BY <1>7, <1>11

\* The steps of the work.
LEMMA WorkingSilent ==
    ASSUME Typed, AllGood, NEW w \in Workers,
           Bundle(w) \/ Newest(w) \/ Poll(w) \/ GetLatest(w) \/ Process(w) \/ Publish(w)
    PROVE  Silent(w) /\ GivesUp(w)
<1>. DEFINE c == call[w]
<1>1. /\ c \in Calls /\ pc \in [Workers -> Labels] /\ call \in [Workers -> Calls]
      /\ Good(w, pc[w], c, now)
  BY WorkerTypes DEF Typed, AllGood
<1>2. CASE Bundle(w)
  <2>1. pc[w] = "bundle"
    BY <1>2 DEF Bundle
  <2>2. CASE Settle(w, c, FindInput(w, c), 0)
    <3>1. FindInput(w, c) \in Frames \cup {None}
      BY <1>1, <2>1, FindInputType DEF Good, Placed
    <3>. QED
      BY <2>1, <2>2, <3>1, SettleSilent
  <2>3. CASE Local(w, "newest", [c EXCEPT !.begin = now])
    <3>1. /\ call'[w].refused = c.refused /\ call'[w].asked = c.asked /\ call'[w].ts = c.ts
          /\ pc'[w] = "newest"
      BY <1>1, <2>3 DEF Local, Goto, Calls
    <3>. QED
      BY <2>1, <2>3, <3>1 DEF Silent, GivesUp, Working, Local, shared
  <2>. QED
    BY <1>2, <2>2, <2>3 DEF Bundle
<1>3. CASE Newest(w)
  <2>. DEFINE in == NextInput(w, c)
  <2>1. pc[w] = "newest"
    BY <1>3 DEF Newest
  <2>2. CASE Settle(w, c, None, 0)
    BY <2>1, <2>2, SettleSilent
  <2>3. CASE Local(w, "poll", [c EXCEPT !.trail = Trail(in.wait), !.wake = now + CheckDt])
    <3>. HIDE DEF in
    <3>1. /\ call'[w].refused = c.refused /\ call'[w].asked = c.asked /\ call'[w].ts = c.ts
          /\ pc'[w] = "poll"
      BY <1>1, <2>3 DEF Local, Goto, Calls
    <3>. QED
      BY <2>1, <2>3, <3>1 DEF Silent, GivesUp, Working, Local, shared
  <2>. QED
    BY <1>3, <2>2, <2>3 DEF Newest
<1>4. CASE Poll(w)
  <2>1. pc[w] = "poll"
    BY <1>4 DEF Poll
  <2>2. CASE Settle(w, c, FindInput(w, c), 0)
    <3>1. FindInput(w, c) \in Frames \cup {None}
      BY <1>1, <2>1, FindInputType DEF Good, Placed
    <3>. QED
      BY <2>1, <2>2, <3>1, SettleSilent
  <2>3. CASE Settle(w, c, Missed(w, c), c.begin) /\ FindInput(w, c) = None
    <3>1. Missed(w, c) = None /\ c.begin \in Nat
      BY <1>1 DEF Missed, Calls
    <3>. QED
      BY <2>1, <2>3, <3>1, SettleSilent
  <2>4. CASE Local(w, "poll", [c EXCEPT !.trail = @ - 1, !.wake = now + CheckDt])
    <3>1. /\ call'[w].refused = c.refused /\ call'[w].asked = c.asked /\ call'[w].ts = c.ts
          /\ pc'[w] = "poll"
      BY <1>1, <2>4 DEF Local, Goto, Calls
    <3>. QED
      BY <2>1, <2>4, <3>1 DEF Silent, GivesUp, Working, Local, shared
  <2>. QED
    BY <1>4, <2>2, <2>3, <2>4 DEF Poll
<1>5. CASE GetLatest(w)
  <2>1. pc[w] = "latest" /\ \E g :
          Local(w, Fetching(w, [c EXCEPT !.latests = Append(@, g)]),
                [c EXCEPT !.latests = Append(@, g)])
    BY <1>5 DEF GetLatest
  <2>2. PICK g : Local(w, Fetching(w, [c EXCEPT !.latests = Append(@, g)]),
                       [c EXCEPT !.latests = Append(@, g)])
    BY <2>1
  <2>3. /\ call'[w].refused = c.refused /\ call'[w].asked = c.asked /\ call'[w].ts = c.ts
        /\ pc'[w] \in {"bundle", "latest", "process"}
    BY <1>1, <2>2, FetchingType DEF Local, Goto, Calls
  <2>. QED
    BY <2>1, <2>2, <2>3 DEF Silent, GivesUp, Working, Local, shared
<1>6. CASE Process(w)
  <2>1. pc[w] = "process" /\ \E r, t :
          Update(w, [c EXCEPT !.ran = r, !.ret = t, !.on = FALSE,
                              !.inputs = <<>>, !.asked = <<>>, !.latests = <<>>])
    BY <1>6 DEF Process
  <2>2. PICK r, t :
          Update(w, [c EXCEPT !.ran = r, !.ret = t, !.on = FALSE,
                              !.inputs = <<>>, !.asked = <<>>, !.latests = <<>>])
    BY <2>1
  <2>3. Local(w, IF Mates(w) = {w} THEN "put" ELSE "read",
              [[c EXCEPT !.ran = r, !.ret = t, !.on = FALSE, !.inputs = <<>>, !.asked = <<>>,
                         !.latests = <<>>] EXCEPT !.stamp = now])
    BY <2>2 DEF Update
  <2>4. /\ call'[w].refused = c.refused /\ call'[w].asked = <<>> /\ call'[w].on = FALSE
        /\ pc'[w] \in {"put", "read"}
    BY <1>1, <2>3 DEF Local, Goto, Calls
  <2>. QED
    BY <2>1, <2>3, <2>4 DEF Silent, GivesUp, Working, Local, shared
<1>7. CASE Publish(w)
  <2>1. pc[w] = "publish" /\ Goto(w, "idle", Return(c)) /\ UNCHANGED <<scene, now, running, began, infos>>
    BY <1>7 DEF Publish
  <2>2. call'[w].refused = c.refused /\ call'[w].asked = <<>> /\ pc'[w] = "idle"
    <3>1. call'[w] = Return(c) /\ pc'[w] = "idle"
      BY <1>1, <2>1 DEF Goto
    <3>. QED
      BY <1>1, <3>1, ReturnType
  <2>. QED
    BY <2>1, <2>2 DEF Silent, GivesUp, Working
<1>. QED
  BY <1>2, <1>3, <1>4, <1>5, <1>6, <1>7

\* An update has nothing to do with the inputs.
LEMMA UpdateGivesUp ==
    ASSUME Typed, NEW w \in Workers,
           ReadWord(w) \/ WriteWord(w) \/ Collect(w) \/ PutInfo(w) \/ PutAlone(w)
    PROVE  GivesUp(w)
<1>. DEFINE c == call[w]
<1>1. c \in Calls /\ pc \in [Workers -> Labels] /\ call \in [Workers -> Calls]
  BY WorkerTypes DEF Typed
<1>2. CASE ReadWord(w) \/ WriteWord(w) \/ Collect(w)
  <2>1. PICK label, word, info :
          Goto(w, label, [c EXCEPT !.word = word]) \/ Goto(w, label, [c EXCEPT !.info = info])
    BY <1>2 DEF ReadWord, WriteWord, Collect, Local
  <2>2. call'[w].asked = c.asked /\ call'[w].ts = c.ts
    BY <1>1, <2>1 DEF Goto, Calls
  <2>. QED
    BY <2>2 DEF GivesUp
<1>3. CASE PutInfo(w) \/ PutAlone(w)
  <2>1. PICK r : Continue(w, [c EXCEPT !.info = None, !.stamp = 0, !.refused = r])
    BY <1>3 DEF PutInfo, PutAlone, PutRecord
  <2>. DEFINE d == [c EXCEPT !.info = None, !.stamp = 0, !.refused = r]
  <2>2. d.asked = c.asked /\ d.ts = c.ts
    BY <1>1 DEF Calls
  <2>3. Return(d).asked = <<>>
    BY DEF Return, NewCall
  <2>4. Continue(w, d)
    BY <2>1
  <2>. HIDE DEF d
  <2>5. call'[w] = d \/ call'[w] = Return(d)
    BY <1>1, <2>4 DEF Continue, Goto
  <2>. QED
    BY <2>2, <2>3, <2>5 DEF GivesUp
<1>. QED
  BY <1>2, <1>3

\* What one worker does leaves the others where they are, and publishes nothing but
\* a frame of its own, now.
LEMMA OthersStay ==
    ASSUME Typed, NEW w \in Workers, Take(w) \/ Step(w)
    PROVE  /\ \A v \in Workers \ {w} : pc'[v] = pc[v] /\ call'[v] = call[v]
           /\ scene' = scene /\ now' = now
           /\ \/ ref' = ref
              \/ \E f \in Frames :
                   /\ f.at = now
                   /\ ref' = [ref EXCEPT ![w] = [frames |-> @.frames \cup {f}, newest |-> f]]
<1>1. scene' = scene /\ now' = now /\ \E label, d : Goto(w, label, d)
  BY DEF Step, Take, Round, Look, Wake, Begin, ReadWord, WriteWord, Collect, PutInfo, PutAlone,
         Bundle, Newest, Poll, GetLatest, Process, Publish, Update, Settle, PutRecord, Continue,
         Local
<1>2. \A v \in Workers \ {w} : pc'[v] = pc[v] /\ call'[v] = call[v]
  BY <1>1 DEF Goto, Typed
<1>3. CASE Publish(w)
  <2>. DEFINE f == [utime |-> call[w].ts, at |-> now]
  <2>1. f \in Frames /\ f.at = now
    <3>1. call[w].ts \in Nat /\ now \in Nat
      BY WorkerTypes DEF Calls
    <3>. QED
      BY <3>1 DEF Frames
  <2>2. ref' = ref \/ ref' = [ref EXCEPT ![w] = [frames |-> @.frames \cup {f}, newest |-> f]]
    BY <1>3 DEF Publish
  <2>. HIDE DEF f
  <2>. QED
    BY <1>1, <1>2, <2>1, <2>2
<1>4. CASE ~Publish(w)
  <2>1. ref' = ref
    BY <1>4
       DEF Step, Take, Round, Look, Wake, Begin, ReadWord, WriteWord, Collect, PutInfo, PutAlone,
           Bundle, Newest, Poll, GetLatest, Process, Update, Settle, PutRecord, Local, shared
  <2>. QED
    BY <1>1, <1>2, <2>1
<1>. QED
  BY <1>3, <1>4

\* What was put last is there, and nothing is put in the future.
LEMMA RefsStep ==
    ASSUME Typed, RefsGood, [Next]_vars
    PROVE  RefsGood'
<1>1. now \in Nat /\ ref \in [Workers -> [frames : SUBSET Frames, newest : Frames \cup {None}]]
  BY DEF Typed, Times
<1>2. ASSUME NEW w \in Workers, Take(w) \/ Step(w)
      PROVE  RefsGood'
  <2>1. now' = now
    BY <1>2, OthersStay
  <2>2. CASE ref' = ref
    BY <2>1, <2>2 DEF RefsGood
  <2>3. ASSUME NEW f \in Frames, f.at = now,
               ref' = [ref EXCEPT ![w] = [frames |-> @.frames \cup {f}, newest |-> f]]
        PROVE  RefsGood'
    <3>1. \A v \in Workers : \/ ref'[v] = ref[v]
                             \/ ref'[v] = [frames |-> ref[v].frames \cup {f}, newest |-> f]
      BY <1>1, <2>3
    <3>. QED
      BY <1>1, <2>1, <2>3, <3>1 DEF RefsGood
  <2>. QED
    BY <1>2, <2>2, <2>3, OthersStay
<1>3. CASE Tick
  <2>1. now' = now + 1 /\ ref' = ref
    BY <1>3 DEF Tick, shared
  <2>2. \A w \in Workers : \A f \in ref[w].frames : f.at \in Nat
    BY <1>1 DEF Frames
  <2>. QED
    BY <1>1, <2>1, <2>2 DEF RefsGood
<1>4. CASE UNCHANGED vars
  BY <1>4 DEF vars, RefsGood
<1>. QED
  BY <1>2, <1>3, <1>4 DEF Next

\* A frame that comes when an input has been given up comes after the wait.
LEMMA NotMissedStep ==
    ASSUME Typed, AllGood, NotMissed, [Next]_vars, Typed', AllGood'
    PROVE  NotMissed'
<1>. DEFINE Late(q, t, w, k, since) ==
              \A f \in q[Input(w)[k].from].frames :
                 Distance(t + Input(w)[k].offset, f.utime) < Input(w)[k].window =>
                     f.at > since + Input(w)[k].wait
<1>1. CASE UNCHANGED <<scene, ref, call>>
  BY <1>1 DEF NotMissed, Input
<1>2. ASSUME NEW w \in Workers, Take(w) \/ Step(w),
             NEW v \in Workers, NEW k \in DOMAIN call'[v].asked, call'[v].asked[k] > 0
      PROVE  Late(ref', call'[v].ts, v, k, call'[v].asked[k])
  <2>1. \/ ref' = ref
        \/ \E f \in Frames :
             /\ f.at = now
             /\ ref' = [ref EXCEPT ![w] = [frames |-> @.frames \cup {f}, newest |-> f]]
    BY <1>2, OthersStay
  <2>2. \A u \in Workers : \A f \in ref'[u].frames : f \in ref[u].frames \/ f.at = now
    <3>1. ref \in [Workers -> [frames : SUBSET Frames, newest : Frames \cup {None}]]
      BY DEF Typed
    <3>. QED
      BY <2>1, <3>1
  <2>3. Input(v)[k].from \in Workers
    <3>1. call'[v] \in Calls /\ Good(v, pc[v], call[v], now)'
      BY DEF Typed, AllGood
    <3>2. Len(call'[v].asked) <= Len(Input(v))
      BY <1>2, <3>1, OthersStay DEF Good, Near, Input
    <3>3. call'[v].asked \in Seq(Nat) /\ Input(v) \in Seq(InputMetas)
      BY <3>1, ConfigTypes DEF Calls
    <3>4. k \in DOMAIN Input(v)
      BY <1>2, <3>2, <3>3
    <3>5. Input(v)[k] \in InputMetas
      BY <3>3, <3>4, SeqElements
    <3>. QED
      BY <3>5 DEF InputMetas
  <2>4. now > call'[v].asked[k] + Input(v)[k].wait
    <3>1. Good(v, pc[v], call[v], now)'
      BY DEF AllGood
    <3>2. call'[v].asked[k] + Input(v)[k].wait < now
      BY <1>2, <3>1, OthersStay DEF Good, Past, Input
    <3>3. call'[v].asked[k] \in Nat /\ Input(v)[k].wait \in Nat /\ now \in Nat
      <4>1. call'[v] \in Calls /\ Len(call'[v].asked) <= Len(Input(v))
        BY <1>2, <3>1, OthersStay DEF Typed, Good, Near, Input
      <4>2. call'[v].asked \in Seq(Nat) /\ Input(v) \in Seq(InputMetas)
        BY <4>1, ConfigTypes DEF Calls
      <4>3. k \in DOMAIN Input(v)
        BY <1>2, <4>1, <4>2
      <4>4. Input(v)[k] \in InputMetas /\ call'[v].asked[k] \in Nat
        BY <1>2, <4>2, <4>3, SeqElements
      <4>. QED
        BY <4>4, WorkerTypes DEF InputMetas
    <3>. QED
      BY <3>2, <3>3
  <2>5. Late(ref, call'[v].ts, v, k, call'[v].asked[k])
    <3>1. CASE v # w
      <4>1. call'[v] = call[v]
        BY <1>2, <3>1, OthersStay
      <4>. QED
        BY <1>2, <4>1 DEF NotMissed
    <3>2. CASE v = w
      <4>1. GivesUp(w)
        BY <1>2, WaitingSilent, WorkingSilent, UpdateGivesUp DEF Step
      <4>. QED
        BY <1>2, <3>2, <4>1 DEF GivesUp, Unseen, NotMissed
    <3>. QED
      BY <3>1, <3>2
  <2>. QED
    BY <2>2, <2>3, <2>4, <2>5
<1>3. ASSUME NEW w \in Workers, Take(w) \/ Step(w)
      PROVE  NotMissed'
  <2>1. \A v \in Workers : Input(v)' = Input(v)
    BY <1>3, OthersStay DEF Input
  <2>. QED
    BY <1>2, <1>3, <2>1 DEF NotMissed, Distance
<1>. QED
  BY <1>1, <1>3 DEF Next, Tick, vars, shared

\* The record of a worker that is alone is true, when it is not refused.
LEMMA AloneRecord ==
    ASSUME Typed, NEW w \in Workers, PutAlone(w)
    PROVE  \/ call'[w].refused
           \/ /\ Working(w)'
              /\ infos'[OpOf(w)].newest = [is_running |-> TRUE, start_running_time |-> began'[w]]
           \/ ~Working(w)' /\ ~infos'[OpOf(w)].newest.is_running
<1>. DEFINE c == call[w]
            o == OpOf(w)
            refused == c.stamp \in infos[o].keys
            d == [c EXCEPT !.info = None, !.stamp = 0, !.refused = refused]
            info == Record(w, running', began')
            busy == {v \in Mates(w) : running'[v]}
<1>1. /\ c \in Calls /\ c.stamp \in Times /\ c.on \in BOOLEAN /\ o \in Operators
      /\ pc \in [Workers -> Labels] /\ call \in [Workers -> Calls]
      /\ running \in [Workers -> BOOLEAN] /\ began \in [Workers -> Times]
      /\ infos \in [Operators -> [keys : SUBSET Times, newest : Infos \cup {None}]]
  <2>1. c \in Calls
    BY WorkerTypes
  <2>. QED
    BY <2>1, ConfigTypes DEF Typed, Calls
<1>2. /\ Mates(w) = {w} /\ running' = [running EXCEPT ![w] = c.on] /\ began' = Started(w)
      /\ PutRecord(w, info)
  BY DEF PutAlone
<1>3. d.refused = refused /\ d.on = c.on /\ Return(d).refused = refused
  <2>1. d.refused = refused /\ d.on = c.on
    BY <1>1 DEF Calls
  <2>2. \A x : Return(x).refused = x.refused
    BY DEF Return, NewCall
  <2>. QED
    BY <2>1, <2>2
<1>4. Continue(w, d)
  BY <1>2 DEF PutRecord
<1>5. /\ call'[w].refused = refused
      /\ c.on => pc'[w] \in {"bundle", "latest", "process"}
      /\ ~c.on => pc'[w] \in {"publish", "idle"}
  <2>. HIDE DEF d, refused
  <2>1. call'[w] \in {d, Return(d)}
    BY <1>1, <1>4 DEF Continue, Goto
  <2>. QED
    BY <1>1, <1>3, <1>4, <2>1, FetchingType DEF Continue, Goto
<1>6. Working(w)' <=> c.on
  BY <1>1, <1>5 DEF Working
<1>7. CASE refused
  BY <1>5, <1>7
<1>8. CASE ~refused
  <2>1. infos' = [infos EXCEPT ![o] = [keys |-> @.keys \cup {c.stamp}, newest |-> info]]
    BY <1>2, <1>8 DEF PutRecord
  <2>2. infos'[o].newest = info
    BY <1>1, <2>1
  <2>3. info = [is_running |-> busy # {},
                start_running_time |-> Min({c.stamp} \cup {began'[v] : v \in busy})]
    BY DEF Record
  <2>4. running'[w] = c.on
    BY <1>1, <1>2
  <2>5. CASE c.on
    <3>1. busy = {w}
      BY <1>2, <2>4, <2>5
    <3>2. began'[w] = c.stamp
      BY <1>1, <1>2, <2>5 DEF Started
    <3>3. {c.stamp} \cup {began'[v] : v \in busy} = {c.stamp}
      BY <3>1, <3>2
    <3>4. Min({c.stamp}) = c.stamp
      <4>1. c.stamp <= c.stamp
        BY <1>1 DEF Times
      <4>. QED
        BY <4>1 DEF Min
    <3>5. info = [is_running |-> TRUE, start_running_time |-> began'[w]]
      <4>1. (busy # {}) = TRUE
        BY <3>1
      <4>. QED
        BY <2>3, <3>2, <3>3, <3>4, <4>1
    <3>. QED
      BY <1>6, <2>2, <2>5, <3>5
  <2>6. CASE ~c.on
    <3>1. busy = {}
      BY <1>2, <2>4, <2>6
    <3>2. info.is_running = FALSE
      <4>1. (busy # {}) = FALSE
        BY <3>1
      <4>. HIDE DEF info, busy
      <4>. QED
        BY <2>3, <4>1
    <3>. QED
      BY <1>6, <2>2, <2>6, <3>2
  <2>. QED
    BY <1>1, <2>5, <2>6
<1>. QED
  BY <1>7, <1>8

\* What the others hear of an operator with one worker stays true.
LEMMA InfoStep ==
    ASSUME Typed, AllGood, InfoTruthful, [Next]_vars
    PROVE  InfoTruthful'
<1>. DEFINE True(w) ==
       \/ call[w].refused
       \/ Working(w)
          /\ infos[OpOf(w)].newest = [is_running |-> TRUE, start_running_time |-> began[w]]
       \/ ~Working(w) /\ (infos[OpOf(w)].newest = None \/ ~infos[OpOf(w)].newest.is_running)
<1>1. CASE UNCHANGED <<scene, infos, began, pc, call>>
  BY <1>1 DEF InfoTruthful, Mates, OpOf, Working
<1>2. ASSUME NEW w \in Workers, Take(w) \/ Step(w),
             NEW v \in Workers, Mates(v) = {v}
      PROVE  /\ OpOf(v)' = OpOf(v)
             /\ \/ call'[v].refused
                \/ Working(v)' /\
                   infos'[OpOf(v)].newest = [is_running |-> TRUE, start_running_time |-> began'[v]]
                \/ ~Working(v)' /\
                   (infos'[OpOf(v)].newest = None \/ ~infos'[OpOf(v)].newest.is_running)
  <2>1. OpOf(v)' = OpOf(v) /\ True(v)
    BY <1>2, OthersStay DEF OpOf, InfoTruthful
  <2>2. /\ infos \in [Operators -> [keys : SUBSET Times, newest : Infos \cup {None}]]
        /\ began \in [Workers -> Times] /\ OpOf(w) \in Operators /\ OpOf(v) \in Operators
    BY ConfigTypes DEF Typed
  <2>3. CASE v # w
    <3>1. pc'[v] = pc[v] /\ call'[v] = call[v]
      BY <1>2, <2>3, OthersStay
    <3>2. OpOf(w) # OpOf(v)
      BY <1>2, <2>3 DEF Mates
    <3>3. infos' = infos \/ \E x : infos' = [infos EXCEPT ![OpOf(w)] = x]
      BY <1>2
         DEF Step, Take, Round, Look, Wake, Begin, ReadWord, WriteWord, Collect, PutInfo, PutAlone,
             Bundle, Newest, Poll, GetLatest, Process, Publish, Update, Settle, PutRecord, Local,
             shared
    <3>4. began' = began \/ \E x : began' = [began EXCEPT ![w] = x]
      BY <1>2
         DEF Step, Take, Round, Look, Wake, Begin, ReadWord, WriteWord, Collect, PutInfo, PutAlone,
             Bundle, Newest, Poll, GetLatest, Process, Publish, Update, Settle, Started, Local,
             shared
    <3>5. infos'[OpOf(v)] = infos[OpOf(v)]
      BY <2>2, <3>2, <3>3
    <3>6. began'[v] = began[v]
      BY <2>2, <2>3, <3>4
    <3>. QED
      BY <2>1, <3>1, <3>5, <3>6 DEF Working
  <2>4. CASE v = w
    <3>1. pc[w] \notin {"read", "write", "collect"}
      BY <1>2, <2>4 DEF AllGood, Good, Placed
    <3>2. ~ReadWord(w) /\ ~WriteWord(w) /\ ~Collect(w) /\ ~PutInfo(w)
      BY <1>2, <2>4, <3>1 DEF ReadWord, WriteWord, Collect, PutInfo
    <3>3. CASE PutAlone(w)
      BY <2>1, <2>4, <3>3, AloneRecord
    <3>4. CASE ~PutAlone(w)
      <4>1. Silent(w)
        BY <1>2, <3>2, <3>4, WaitingSilent, WorkingSilent DEF Step
      <4>. QED
        BY <2>1, <2>4, <4>1 DEF Silent
    <3>. QED
      BY <3>3, <3>4
  <2>. QED
    BY <2>3, <2>4
<1>3. ASSUME NEW w \in Workers, Take(w) \/ Step(w)
      PROVE  InfoTruthful'
  <2>1. \A v \in Workers : Mates(v)' = Mates(v)
    BY <1>3, OthersStay DEF Mates, OpOf
  <2>. QED
    BY <1>2, <1>3, <2>1 DEF InfoTruthful
<1>. QED
  BY <1>1, <1>3 DEF Next, Tick, vars, shared

-----------------------------------------------------------------------------
(* The theorems.                                                           *)

\* At the start all workers are idle, and nothing was put.
LEMMA InitInv == Init => Inv
<1>. SUFFICES ASSUME Init PROVE Inv
  OBVIOUS
<1>1. StartTime \in Nat /\ LastTime \in Nat /\ StartTime <= LastTime
  BY TimesAssumption
<1>2. Typed
  <2>1. "idle" \in Labels /\ 0 \in Times /\ StartTime \in Times
    BY <1>1 DEF Labels, Times
  <2>. QED
    BY <1>1, <2>1, NewCallType DEF Init, Typed
<1>3. AllGood
  <2>1. ASSUME NEW w \in Workers
        PROVE  Good(w, pc[w], call[w], now)
    <3>1. NewCall \in Calls /\ pc[w] = "idle" /\ call[w] = NewCall
      BY NewCallType DEF Init
    <3>2. NewCall = Return(NewCall)
      BY DEF Return, NewCall
    <3>3. NewCall.frames <= scene.ports[w].frames
      <4>1. NewCall.frames = 0 /\ scene.ports[w].frames \in Nat
        BY <1>2, ConfigTypes DEF NewCall
      <4>. QED
        BY <4>1
    <3>4. Good(w, "idle", Return(NewCall), now)
      BY <1>2, <3>1, <3>3, ReturnGood
    <3>. QED
      BY <3>1, <3>2, <3>4
  <2>. QED
    BY <2>1 DEF AllGood
<1>4. RefsGood
  BY DEF Init, RefsGood
<1>5. InfoTruthful
  <2>1. \A w \in Workers : pc[w] = "idle" /\ infos[OpOf(w)].newest = None
    BY <1>2, ConfigTypes DEF Init
  <2>. QED
    BY <2>1 DEF InfoTruthful, Working
<1>6. NotMissed
  <2>1. \A w \in Workers : call[w].asked = <<>>
    BY DEF Init, NewCall
  <2>. QED
    BY <2>1 DEF NotMissed
<1>. QED
  BY <1>2, <1>3, <1>4, <1>5, <1>6 DEF Inv

\* Every step keeps the invariant.
LEMMA NextInv == Inv /\ [Next]_vars => Inv'
<1>. SUFFICES ASSUME Inv, [Next]_vars PROVE Inv'
  OBVIOUS
<1>1. Typed /\ AllGood /\ RefsGood /\ InfoTruthful /\ NotMissed
  BY DEF Inv
<1>2. Typed' /\ AllGood'
  BY <1>1, NextGood
<1>3. RefsGood' /\ InfoTruthful' /\ NotMissed'
  BY <1>1, <1>2, RefsStep, InfoStep, NotMissedStep
<1>. QED
  BY <1>2, <1>3 DEF Inv

\* The inductive invariant holds in every state of every behaviour.
THEOREM Invariance == Spec => []Inv
<1>1. Init => Inv
  BY InitInv
<1>2. Inv /\ [Next]_vars => Inv'
  BY NextInv
<1>. QED
  BY <1>1, <1>2, PTL DEF Spec

\* The types, and a worker that is idle has nothing left of the last call.
THEOREM TypeCorrect == Spec => []TypeOK
<1>1. Inv => TypeOK
  <2>. SUFFICES ASSUME Inv PROVE TypeOK
    OBVIOUS
  <2>1. Typed /\ AllGood /\ RefsGood
    BY DEF Inv
  <2>2. \A o \in Operators : infos[o].keys \subseteq Times
    BY <2>1 DEF Typed
  <2>3. ASSUME NEW w \in Workers
        PROVE  /\ pc[w] \in Labels
               /\ call[w].frames <= scene.ports[w].frames
               /\ pc[w] = "idle" => call[w] = Return(call[w])
               /\ ref[w].newest # None => ref[w].newest \in ref[w].frames
    BY <2>1 DEF Typed, AllGood, Good, Placed, RefsGood
  <2>. QED
    BY <2>1, <2>2, <2>3 DEF TypeOK, Typed
<1>. QED
  BY <1>1, Invariance, PTL

\* What the others hear of an operator with one worker is true (update_info).
THEOREM HeardIsTrue == Spec => []InfoTruthful
<1>1. Inv => InfoTruthful
  BY DEF Inv
<1>. QED
  BY <1>1, Invariance, PTL

\* What the Ops are given is within its window or tolerance (Port::get_input_data,
\* get_latest_data).
THEOREM GivenIsNear == Spec => []FramesNear
<1>1. Inv => FramesNear
  BY DEF Inv, AllGood, Good, Near, FramesNear
<1>. QED
  BY <1>1, Invariance, PTL

\* An input that was given up did not come within its wait, whatever the wait and the
\* time between two looks.
THEOREM NothingMissed == Spec => []NotMissed
<1>1. Inv => NotMissed
  BY DEF Inv
<1>. QED
  BY <1>1, Invariance, PTL

\* What is published has been through the whole group (SeqProcessor::process and peek).
THEOREM PublishedIsProcessed == Spec => []WellProcessed
<1>1. Inv => WellProcessed
  BY DEF Inv, AllGood, Good, Processing, Through, WellProcessed
<1>. QED
  BY <1>1, Invariance, PTL

\* No operator that bundles is given a frame that is ahead of the clock.  (With one that
\* is ahead by more than the wait, process_denpendency does not wait.)
BundlesSeeThePast ==
    \A s \in Scenarios : \A w \in Workers :
        LET deps == s.ops[s.ports[w].op].dependency
        IN  (\E i \in DOMAIN deps : deps[i].policy = "BUNDLE") => s.ports[w].ages \subseteq Nat

\* A dependency that asks for no wait has had it.
LEMMA NoWaitHeeded ==
    ASSUME NEW dep \in Dependencies, NEW info \in Infos, NEW c \in Calls, Typed,
           DepWait(dep, info, c) = 0, c.now <= now, dep.policy = "BUNDLE" => c.ts <= c.now
    PROVE  Heeded(dep, info, c)
<1>1. /\ dep.wait \in Nat /\ info.start_running_time \in Nat /\ info.is_running \in BOOLEAN
      /\ c.now \in Nat /\ c.ts \in Nat /\ now \in Nat
      /\ MinWait \in Nat /\ MinWait > 0 /\ MinBlock \in Nat /\ MinBlock > 0
      /\ dep.policy \in {"WAIT", "BLOCK", "BUNDLE"}
  <2>1. /\ dep.wait \in Nat /\ dep.policy \in {"WAIT", "BLOCK", "BUNDLE"}
        /\ info.start_running_time \in Nat /\ info.is_running \in BOOLEAN
    BY DEF Dependencies, Infos
  <2>2. c.now \in Nat /\ c.ts \in Nat
    BY DEF Calls
  <2>3. now \in Nat
    BY DEF Typed, Times
  <2>4. MinWait \in Nat /\ MinWait > 0 /\ MinBlock \in Nat /\ MinBlock > 0
    BY TimesAssumption
  <2>. QED
    BY <2>1, <2>2, <2>3, <2>4
<1>2. \A x \in Int : Larger(x, MinWait) # 0 /\ Larger(x, MinBlock) # 0
  BY <1>1 DEF Larger
<1>3. CASE dep.policy = "WAIT"
  <2>1. info.is_running => info.start_running_time + dep.wait - c.now <= 0
    BY <1>1, <1>2, <1>3 DEF DepWait
  <2>. QED
    BY <1>1, <1>3, <2>1 DEF Heeded
<1>4. CASE dep.policy = "BLOCK"
  <2>1. ~info.is_running
    BY <1>1, <1>2, <1>4 DEF DepWait
  <2>. QED
    BY <1>4, <2>1 DEF Heeded
<1>5. CASE dep.policy = "BUNDLE"
  <2>1. ~(Distance(c.now, c.ts) < dep.wait)
    BY <1>1, <1>2, <1>5 DEF DepWait
  <2>2. c.now >= c.ts + dep.wait
    BY <1>1, <1>5, <2>1 DEF Distance
  <2>. QED
    BY <1>1, <1>5, <2>2 DEF Heeded
<1>. QED
  BY <1>1, <1>3, <1>4, <1>5

\* A worker goes to work when each of its dependencies has had its wait, or when it
\* has waited for RetryTime (process_denpendencies).
THEOREM WaitsAreHeeded ==
    ASSUME BundlesSeeThePast
    PROVE  Spec => []DependenciesHeeded
<1>1. Inv => DependenciesHeeded
  <2>. SUFFICES ASSUME Inv, NEW w \in Workers, pc[w] = "begin", Deps(w) # <<>>,
                       ~(now >= call[w].start + RetryTime), NEW i \in DOMAIN Deps(w),
                       call[w].heard[i] # None
                PROVE  Heeded(Deps(w)[i], call[w].heard[i], call[w])
    BY DEF DependenciesHeeded
  <2>. DEFINE c == call[w]
  <2>1. Typed /\ Good(w, "begin", c, now)
    BY DEF Inv, AllGood
  <2>2. c.wait_time = 0 /\ DOMAIN c.heard = DOMAIN Deps(w) /\ c.now <= now
    BY <2>1 DEF Good, Past
  <2>3. c \in Calls /\ c.heard \in Seq(Infos \cup {None})
    <3>1. c \in Calls
      BY <2>1, WorkerTypes
    <3>. QED
      BY <3>1 DEF Calls
  <2>4. c.heard[i] \in Infos /\ Deps(w)[i] \in Dependencies
    <3>1. c.heard[i] \in Infos \cup {None}
      BY <2>2, <2>3, SeqElements
    <3>2. Deps(w) \in Seq(Dependencies)
      BY <2>1, ConfigTypes
    <3>. QED
      BY <3>1, <3>2, SeqElements
  <2>5. DepWait(Deps(w)[i], c.heard[i], c) = 0
    BY <2>1, <2>2 DEF Good, Listening, NoWait
  <2>6. Deps(w)[i].policy = "BUNDLE" => c.ts <= c.now
    <3>1. ASSUME Deps(w)[i].policy = "BUNDLE"
          PROVE  c.ts <= c.now
      <4>1. scene.ports[w].ages \subseteq Nat
        BY <2>1, <3>1 DEF BundlesSeeThePast, Typed, Deps, Config, OpOf
      <4>2. c.ts <= c.start /\ c.start <= c.now
        BY <2>1, <4>1 DEF Good, Listening
      <4>3. c.ts \in Nat /\ c.start \in Nat /\ c.now \in Nat
        BY <2>3 DEF Calls
      <4>. QED
        BY <4>2, <4>3
    <3>. QED
      BY <3>1
  <2>. QED
    BY <2>1, <2>2, <2>3, <2>4, <2>5, <2>6, NoWaitHeeded
<1>. QED
  BY <1>1, Invariance, PTL
=============================================================================
