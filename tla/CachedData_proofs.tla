-------------------------- MODULE CachedData_proofs --------------------------
(***************************************************************************)
(* Proofs about CachedData for every set of time stamps, slot size and     *)
(* stale time.                                                             *)
(***************************************************************************)
EXTENDS CachedData, Induction

-----------------------------------------------------------------------------
(* Arithmetic of slots.                                                    *)

\* A slot number is a natural number.
LEMMA SlotType ==
    ASSUME NEW k \in Nat
    PROVE  Slot(k) \in Nat
BY SlotAssumption DEF Slot

\* An older entry is in the same slot or an earlier one.
LEMMA SlotMonotone ==
    ASSUME NEW a \in Nat, NEW b \in Nat, a <= b
    PROVE  Slot(a) <= Slot(b)
BY SlotAssumption DEF Slot

\* An entry of the same slot, or of a later one, is at most less than a slot older.
LEMMA SameSlot ==
    ASSUME NEW a \in Nat, NEW b \in Nat, Slot(a) >= Slot(b)
    PROVE  a > b - SlotSize
BY SlotAssumption DEF Slot

-----------------------------------------------------------------------------
\* The types, and the fact that makes get_newest answer: the key of the last put
\* is never swept away while anything else stays.
Inv == TypeOK /\ (data_ # {} => latest_ \in data_)

\* An empty cache satisfies the invariant, whatever latest_ starts as.
LEMMA InvInit == Init => Inv
BY FreshAssumption DEF Init, Inv, TypeOK

\* Put, sweep and reset keep it: the slot of the last put is never before the
\* horizon, which is never later than the last put.
LEMMA InvStep ==
    ASSUME Inv, [Next]_vars
    PROVE  Inv'
<1>. USE KeysAssumption, FreshAssumption DEF Inv, TypeOK
<1>1. CASE UNCHANGED vars
  BY <1>1 DEF vars
<1>2. CASE RemoveStale
  <2>1. CASE data_ = {}
    BY <1>2, <2>1 DEF RemoveStale
  <2>2. CASE latest_ \in data_
    <3>1. latest_ - StaleTime \in Nat /\ latest_ - StaleTime <= latest_
      BY <1>2, StaleAssumption DEF RemoveStale
    <3>2. Slot(latest_) >= FirstKeptSlot
      BY <3>1, SlotMonotone, SlotType DEF FirstKeptSlot, Slot
    <3>. QED
      BY <1>2, <2>2, <3>2 DEF RemoveStale
  <2>. QED
    BY <2>1, <2>2
<1>3. CASE Reset
  BY <1>3 DEF Reset
<1>4. ASSUME NEW k \in Keys, Put(k)
      PROVE  Inv'
  BY <1>4 DEF Put
<1>. QED
  BY <1>1, <1>2, <1>3, <1>4 DEF Next

\* The invariant holds in every reachable state.
THEOREM Invariance == Spec => []Inv
BY InvInit, InvStep, PTL DEF Spec

\* The types: whatever is put, swept and reset, every entry is under a key that was
\* put, and latest_ is one of those times, or what it was at first.
THEOREM TypeCorrect == Spec => []TypeOK
BY Invariance, PTL DEF Inv

\* get_newest answers whenever the cache holds anything, in whatever order the
\* entries are put, swept and reset.
THEOREM NewestAlwaysAvailable == Spec => []NewestAvailable
<1>1. Inv => NewestAvailable
  BY KeysAssumption, FreshAssumption, NoKeyAssumption DEF Inv, TypeOK, NewestAvailable, GetNewest
<1>. QED
  BY <1>1, Invariance, PTL

-----------------------------------------------------------------------------
(* The slots of a look-up.                                                 *)

\* A time stamp that is later by a slot of time at most is in the same slot or the next.
LEMMA NextSlot ==
    ASSUME NEW a \in Nat, NEW b \in Nat, a <= b, b <= a + SlotSize
    PROVE  Slot(b) \in Slot(a) .. Slot(a) + 1
<1>. DEFINE n == SlotSize
            p == a \div n
            r == a % n
<1>1. n \in Nat /\ n > 0
  BY SlotAssumption
<1>2. \A x, m \in Nat : m > 0 => x \div m \in Nat /\ x % m \in 0 .. m - 1
                                 /\ x = m * (x \div m) + (x % m)
  OBVIOUS
<1>3. p \in Nat /\ r \in 0 .. n - 1 /\ a = n * p + r
  BY <1>1, <1>2
<1>4. \A x \in Nat : n * (x + 1) = n * x + n /\ n * (x + 2) = n * x + n + n
  BY <1>1
<1>5. Slot(b) < p + 2
  <2>1. n * p \in Nat
    BY <1>1, <1>3
  <2>2. b < n * (p + 2)
    BY <1>1, <1>3, <1>4, <2>1
  <2>3. \A y, m, k \in Nat : m > 0 /\ y < m * k => y \div m < k
    OBVIOUS
  <2>4. p + 2 \in Nat
    BY <1>3
  <2>. QED
    BY <1>1, <2>2, <2>3, <2>4 DEF Slot
<1>6. Slot(a) = p /\ Slot(a) <= Slot(b) /\ Slot(b) \in Nat
  BY SlotMonotone, SlotType DEF Slot
<1>. QED
  BY <1>3, <1>5, <1>6

\* For every slot size, tolerance of up to a slot and key outside the first slot, no
\* entry that is tolerable is outside the three slots that get goes through.
THEOREM SlotsSuffice ==
    ASSUME TypeOK, NEW key \in Nat, NEW tolerate \in Nat,
           Slot(key) > 0, Unit * tolerate <= SlotSize
    PROVE  \A k \in Tolerable(key, tolerate) : Slot(k) \in SlotsAround(Slot(key))
<1>. SUFFICES ASSUME NEW k \in Tolerable(key, tolerate)
              PROVE  Slot(k) \in SlotsAround(Slot(key))
  OBVIOUS
<1>. DEFINE limit == Unit * tolerate
<1>1. /\ k \in Nat /\ Slot(key) \in Nat /\ Slot(k) \in Nat
      /\ limit \in Nat /\ SlotSize \in Nat /\ limit <= SlotSize
  BY KeysAssumption, UnitAssumption, SlotAssumption, SlotType DEF TypeOK, Tolerable
<1>2. k = key \/ Distance(key, k) < limit
  BY DEF Tolerable
<1>. HIDE DEF limit
<1>3. CASE key <= k
  <2>1. k <= key + SlotSize
    BY <1>1, <1>2, <1>3 DEF Distance
  <2>2. Slot(k) \in Slot(key) .. Slot(key) + 1
    BY <1>1, <1>3, <2>1, NextSlot
  <2>. QED
    BY <1>1, <2>2 DEF SlotsAround
<1>4. CASE k < key
  <2>1. key <= k + SlotSize
    BY <1>1, <1>2, <1>4 DEF Distance
  <2>2. Slot(key) \in Slot(k) .. Slot(k) + 1
    BY <1>1, <1>4, <2>1, NextSlot
  <2>. QED
    BY <1>1, <2>2 DEF SlotsAround
<1>. QED
  BY <1>1, <1>3, <1>4

-----------------------------------------------------------------------------
(* The loop over the entries finds the closest.                            *)

\* The entries of s that are close enough, and the best of them: the closest, the older
\* one of two.
Candidates(key, limit, s) == {k \in s : Distance(key, k) < limit}

Before(key, a, b) ==
    \/ Distance(key, a) < Distance(key, b)
    \/ Distance(key, a) = Distance(key, b) /\ a <= b

IsBest(key, limit, s, x) ==
    LET cand == Candidates(key, limit, s)
    IN  IF cand = {} THEN x = NoKey ELSE x \in cand /\ \A k \in cand : Before(key, x, k)

\* There is one,
LEMMA BestExists ==
    ASSUME NEW key \in Nat, NEW limit \in Nat, NEW s \in SUBSET Nat
    PROVE  \E x : IsBest(key, limit, s, x)
<1>. DEFINE cand == Candidates(key, limit, s)
            dist(k) == Distance(key, k)
            T == {dist(k) : k \in cand}
<1>1. CASE cand = {}
  BY <1>1 DEF IsBest
<1>2. CASE cand # {}
  <2>1. \A k \in cand : k \in Nat /\ dist(k) \in Nat
    BY DEF Candidates, Distance
  <2>2. PICK d \in T : \A e \in T : d <= e
    <3>1. T \in SUBSET Nat /\ T # {}
      BY <1>2, <2>1
    <3>. HIDE DEF T
    <3>. QED
      BY <3>1, LeastNumber
  <2>. DEFINE U == {k \in cand : dist(k) = d}
  <2>3. PICK x \in U : \A k \in U : x <= k
    <3>1. U \in SUBSET Nat /\ U # {}
      BY <2>1, <2>2
    <3>. HIDE DEF U
    <3>. QED
      BY <3>1, LeastNumber
  <2>4. x \in cand /\ dist(x) = d
    BY <2>3
  <2>5. ASSUME NEW k \in cand
        PROVE  Before(key, x, k)
    <3>1. d <= dist(k)
      BY <2>2
    <3>2. dist(k) = d => x <= k
      BY <2>3
    <3>3. d \in Nat /\ dist(k) \in Nat
      BY <2>1, <2>4
    <3>. QED
      BY <2>4, <3>1, <3>2, <3>3 DEF Before
  <2>6. IsBest(key, limit, s, x)
    <3>. HIDE DEF dist, T, U
    <3>. QED
      BY <2>4, <2>5 DEF IsBest
  <2>. QED
    BY <2>6
<1>. QED
  BY <1>1, <1>2

\* and only one.
LEMMA BestUnique ==
    ASSUME NEW key \in Nat, NEW limit \in Nat, NEW s \in SUBSET Nat, NEW x, NEW y,
           IsBest(key, limit, s, x), IsBest(key, limit, s, y)
    PROVE  x = y
<1>. DEFINE cand == Candidates(key, limit, s)
<1>1. CASE cand = {}
  BY <1>1 DEF IsBest
<1>2. CASE cand # {}
  <2>1. x \in cand /\ y \in cand /\ Before(key, x, y) /\ Before(key, y, x)
    BY <1>2 DEF IsBest
  <2>2. x \in Nat /\ y \in Nat /\ Distance(key, x) \in Nat /\ Distance(key, y) \in Nat
    BY <2>1 DEF Candidates, Distance
  <2>. QED
    BY <2>1, <2>2 DEF Before
<1>. QED
  BY <1>1, <1>2

\* One turn of the loop: the best of the older entries, or the next one if it is closer.
LEMMA BestStep ==
    ASSUME NEW key \in Nat, NEW limit \in Nat, NEW s \in SUBSET Nat,
           NEW m \in s, \A k \in s : k <= m,
           NEW b, IsBest(key, limit, s \ {m}, b)
    PROVE  IsBest(key, limit, s, IF Closer(key, limit, m, b) THEN m ELSE b)
<1>. DEFINE old == Candidates(key, limit, s \ {m})
            cand == Candidates(key, limit, s)
<1>1. /\ \A k \in cand : k \in Nat /\ Distance(key, k) \in Nat /\ k <= m
      /\ m \in Nat /\ Distance(key, m) \in Nat
      /\ old \subseteq cand /\ \A k \in cand : k = m \/ k \in old
      /\ m \in cand <=> Distance(key, m) < limit
  BY DEF Candidates, Distance
<1>2. CASE Closer(key, limit, m, b)
  <2>1. m \in cand
    BY <1>1, <1>2 DEF Closer
  <2>2. ASSUME NEW k \in cand
        PROVE  Before(key, m, k)
    <3>1. CASE k = m
      BY <1>1, <3>1 DEF Before
    <3>2. CASE k \in old
      <4>1. b \in old /\ Before(key, b, k)
        BY <3>2 DEF IsBest
      <4>2. b # NoKey
        BY <1>1, <4>1, NoKeyAssumption
      <4>3. Distance(key, m) < Distance(key, b)
        BY <1>2, <4>2 DEF Closer
      <4>4. Distance(key, b) \in Nat /\ Distance(key, k) \in Nat
        BY <1>1, <3>2, <4>1
      <4>. QED
        BY <1>1, <4>1, <4>3, <4>4 DEF Before
    <3>. QED
      BY <1>1, <3>1, <3>2
  <2>. QED
    BY <1>2, <2>1, <2>2 DEF IsBest
<1>3. CASE ~Closer(key, limit, m, b)
  <2>1. CASE old = {}
    <3>1. b = NoKey
      BY <2>1 DEF IsBest
    <3>2. cand = {}
      BY <1>1, <1>3, <2>1, <3>1 DEF Closer
    <3>. QED
      BY <1>3, <3>1, <3>2 DEF IsBest
  <2>2. CASE old # {}
    <3>1. b \in old /\ \A k \in old : Before(key, b, k)
      BY <2>2 DEF IsBest
    <3>2. b \in Nat /\ b <= m /\ Distance(key, b) \in Nat
      BY <1>1, <3>1
    <3>3. m \in cand => Before(key, b, m)
      <4>1. m \in cand => ~(Distance(key, m) < Distance(key, b))
        BY <1>1, <1>3 DEF Closer
      <4>. QED
        BY <1>1, <3>2, <4>1 DEF Before
    <3>4. \A k \in cand : Before(key, b, k)
      BY <1>1, <3>1, <3>3
    <3>. QED
      BY <1>1, <1>3, <3>1, <3>4 DEF IsBest
  <2>. QED
    BY <2>1, <2>2
<1>. QED
  BY <1>2, <1>3

\* The entries that the loop goes through, in ascending order.
Around(key) == {k \in data_ : Slot(k) \in SlotsAround(Slot(key))}

\* The largest time stamp of a set of those.
LEMMA LargestAround ==
    ASSUME TypeOK, NEW key \in Nat, NEW s \in SUBSET Around(key), s # {}
    PROVE  Max(s) \in s /\ \A k \in s : k <= Max(s)
<1>. DEFINE B == SlotSize * (Slot(key) + 2)
            T == {B - k : k \in s}
<1>1. SlotSize \in Nat /\ SlotSize > 0 /\ Slot(key) \in Nat /\ s \subseteq Nat
  BY KeysAssumption, SlotAssumption, SlotType DEF TypeOK, Around
<1>2. B \in Nat
  BY <1>1
<1>3. ASSUME NEW k \in s
      PROVE  B - k \in Nat
  <2>1. k \in Nat /\ Slot(k) \in Nat
    BY <1>1, SlotType
  <2>2. Slot(k) <= Slot(key) + 1
    BY <1>1, <2>1 DEF Around, SlotsAround
  <2>3. \A x, n \in Nat : n > 0 => x \div n \in Nat /\ x % n \in 0 .. n - 1
                                   /\ x = n * (x \div n) + (x % n)
    OBVIOUS
  <2>. DEFINE q == k \div SlotSize
              r == k % SlotSize
  <2>4. k = SlotSize * q + r /\ r \in 0 .. SlotSize - 1 /\ q = Slot(k) /\ q \in Nat
    BY <1>1, <2>1, <2>3 DEF Slot
  <2>5. \A x, y, n \in Nat : x <= y => n * x <= n * y
    OBVIOUS
  <2>6. \A x, n \in Nat : n * (x + 2) = n * (x + 1) + n
    OBVIOUS
  <2>7. Slot(key) + 1 \in Nat
    BY <1>1
  <2>. HIDE DEF q, r
  <2>8. SlotSize * q <= SlotSize * (Slot(key) + 1)
    BY <1>1, <2>2, <2>4, <2>5, <2>7
  <2>9. B = SlotSize * (Slot(key) + 1) + SlotSize
    BY <1>1, <2>6
  <2>. DEFINE u == SlotSize * q
              v == SlotSize * (Slot(key) + 1)
  <2>10. u \in Nat /\ v \in Nat
    BY <1>1, <2>4, <2>7
  <2>11. k = u + r /\ u <= v /\ B = v + SlotSize
    BY <2>4, <2>8, <2>9
  <2>. HIDE DEF u, v, B
  <2>. QED
    BY <1>1, <1>2, <2>1, <2>4, <2>10, <2>11
<1>. HIDE DEF B
<1>4. PICK n \in T : \A t \in T : n <= t
  <2>1. T \in SUBSET Nat /\ T # {}
    BY <1>3
  <2>. HIDE DEF T
  <2>. QED
    BY <2>1, LeastNumber
<1>5. PICK m \in s : n = B - m
  BY <1>4
<1>6. ASSUME NEW k \in s
      PROVE  k <= m
  <2>1. B - m <= B - k /\ k \in Nat /\ m \in Nat
    BY <1>1, <1>4, <1>5
  <2>. QED
    BY <1>2, <2>1
<1>7. \E x \in s : \A y \in s : x >= y
  BY <1>1, <1>5, <1>6
<1>8. Max(s) \in s /\ \A y \in s : Max(s) >= y
  BY <1>7 DEF Max
<1>. QED
  BY <1>1, <1>8

\* What the loop makes of the first entries: a function of the sets of those, as the
\* result for a set is made from that for the set without its last entry.
Loop(key, limit, f) ==
    [s \in SUBSET Around(key) |->
        IF s = {} THEN NoKey
        ELSE IF Closer(key, limit, Max(s), f[s \ {Max(s)}]) THEN Max(s) ELSE f[s \ {Max(s)}]]

\* There is such a function: the one that gives the best of each set.
LEMMA LoopExists ==
    ASSUME TypeOK, NEW key \in Nat, NEW limit \in Nat
    PROVE  \E f : f = Loop(key, limit, f)
<1>. DEFINE best(s) == CHOOSE x : IsBest(key, limit, s, x)
            f == [s \in SUBSET Around(key) |-> best(s)]
<1>1. Around(key) \subseteq Nat
  BY KeysAssumption DEF TypeOK, Around
<1>2. \A s \in SUBSET Around(key) : IsBest(key, limit, s, f[s])
  <2>1. ASSUME NEW s \in SUBSET Around(key)
        PROVE  IsBest(key, limit, s, best(s))
    <3>1. \E x : IsBest(key, limit, s, x)
      BY <1>1, BestExists
    <3>. QED
      BY <3>1
  <2>. QED
    BY <2>1
<1>. HIDE DEF f
<1>3. ASSUME NEW s \in SUBSET Around(key)
      PROVE  f[s] = IF s = {} THEN NoKey
                    ELSE IF Closer(key, limit, Max(s), f[s \ {Max(s)}]) THEN Max(s)
                    ELSE f[s \ {Max(s)}]
  <2>1. CASE s = {}
    BY <1>2, <2>1 DEF IsBest, Candidates
  <2>2. CASE s # {}
    <3>1. Max(s) \in s /\ \A k \in s : k <= Max(s)
      BY <2>2, LargestAround
    <3>. DEFINE m == Max(s)
                b == f[s \ {m}]
                x == IF Closer(key, limit, m, b) THEN m ELSE b
    <3>2. s \ {m} \in SUBSET Around(key)
      OBVIOUS
    <3>3. IsBest(key, limit, s \ {m}, b)
      BY <1>2, <3>2
    <3>. HIDE DEF m, b
    <3>4. m \in s /\ \A k \in s : k <= m
      BY <3>1 DEF m
    <3>5. IsBest(key, limit, s, x)
      BY <1>1, <3>3, <3>4, BestStep
    <3>6. f[s] = x
      <4>. HIDE DEF x
      <4>. QED
        BY <1>1, <1>2, <3>5, BestUnique
    <3>. QED
      BY <2>2, <3>6 DEF m, b
  <2>. QED
    BY <2>1, <2>2
<1>4. f = Loop(key, limit, f)
  <2>1. f = [s \in SUBSET Around(key) |-> f[s]]
    BY DEF f
  <2>. QED
    BY <1>3, <2>1 DEF Loop
<1>. QED
  BY <1>4

\* Whatever function that is, it gives the best of each set: otherwise there were a set
\* with a least last entry for which it does not.
LEMMA LoopBest ==
    ASSUME TypeOK, NEW key \in Nat, NEW limit \in Nat, NEW f, f = Loop(key, limit, f)
    PROVE  \A s \in SUBSET Around(key) : IsBest(key, limit, s, f[s])
<1>. DEFINE last(s) == IF s = {} THEN 0 ELSE Max(s) + 1
            Bad == {s \in SUBSET Around(key) : ~IsBest(key, limit, s, f[s])}
            T == {last(s) : s \in Bad}
<1>1. Around(key) \subseteq Nat
  BY KeysAssumption DEF TypeOK, Around
<1>2. \A s \in SUBSET Around(key) :
        f[s] = IF s = {} THEN NoKey
               ELSE IF Closer(key, limit, Max(s), f[s \ {Max(s)}]) THEN Max(s)
               ELSE f[s \ {Max(s)}]
  BY DEF Loop
<1>3. \A s \in SUBSET Around(key) : last(s) \in Nat
  BY <1>1, LargestAround
<1>4. CASE Bad # {}
  <2>1. PICK n \in T : \A t \in T : n <= t
    <3>1. T \in SUBSET Nat /\ T # {}
      BY <1>3, <1>4
    <3>. HIDE DEF T
    <3>. QED
      BY <3>1, LeastNumber
  <2>2. PICK s \in Bad : n = last(s)
    BY <2>1
  <2>3. s # {}
    BY <1>2, <2>2 DEF IsBest, Candidates
  <2>. DEFINE m == Max(s)
              r == s \ {m}
  <2>4. m \in s /\ m \in Nat /\ \A k \in s : k <= m
    BY <1>1, <2>2, <2>3, LargestAround
  <2>5. r \in SUBSET Around(key)
    BY <2>2
  <2>6. last(r) < last(s)
    <3>1. last(s) = m + 1
      BY <2>3
    <3>2. CASE r = {}
      BY <2>4, <3>1, <3>2
    <3>3. CASE r # {}
      <4>1. Max(r) \in r
        BY <2>5, <3>3, LargestAround
      <4>2. Max(r) \in s /\ Max(r) # m
        BY <4>1
      <4>3. Max(r) \in Nat /\ Max(r) <= m
        BY <1>1, <2>2, <2>4, <4>2
      <4>4. last(r) = Max(r) + 1
        BY <3>3
      <4>. QED
        BY <2>4, <3>1, <4>2, <4>3, <4>4
    <3>. QED
      BY <3>2, <3>3
  <2>7. r \notin Bad
    <3>1. r \in Bad => last(s) <= last(r)
      BY <2>1, <2>2
    <3>2. last(r) \in Nat /\ last(s) \in Nat
      BY <1>3, <2>2, <2>5
    <3>. HIDE DEF last
    <3>. QED
      BY <2>6, <3>1, <3>2
  <2>8. IsBest(key, limit, r, f[r])
    BY <2>5, <2>7
  <2>9. f[s] = IF Closer(key, limit, m, f[r]) THEN m ELSE f[r]
    BY <1>2, <2>2, <2>3
  <2>10. s \in SUBSET Nat /\ s \in Bad
    BY <1>1, <2>2
  <2>. HIDE DEF m
  <2>11. IsBest(key, limit, s, f[s])
    BY <2>4, <2>8, <2>9, <2>10, BestStep
  <2>. QED
    BY <2>10, <2>11
<1>. QED
  BY <1>4

\* So does the loop.
LEMMA ScanBest ==
    ASSUME TypeOK, NEW key \in Nat, NEW limit \in Nat
    PROVE  IsBest(key, limit, Around(key), Scan(key, limit))
<1>. DEFINE iter == CHOOSE f : f = [s \in SUBSET Around(key) |->
                  IF s = {} THEN NoKey
                  ELSE IF Closer(key, limit, Max(s), f[s \ {Max(s)}]) THEN Max(s)
                  ELSE f[s \ {Max(s)}]]
<1>1. Scan(key, limit) = iter[Around(key)]
  BY DEF Scan, MapThenFoldSet, Around
<1>2. iter = CHOOSE f : f = Loop(key, limit, f)
  BY DEF Loop
<1>. HIDE DEF iter
<1>3. iter = Loop(key, limit, iter)
  BY <1>2, LoopExists
<1>. QED
  BY <1>1, <1>3, LoopBest

\* For every set of entries, slot size and unit of tolerance: get finds the closest of
\* the tolerable entries, the older one of two, whenever there is one, for a tolerance
\* of up to a slot and a key outside the first slot.
THEOREM ClosestFound == Spec => []GetFindsClosest
<1>1. TypeOK => GetFindsClosest
  <2>. SUFFICES ASSUME TypeOK, NEW key \in Queries, NEW tolerate \in 0 .. SlotSize,
                       Slot(key) > 0, Unit * tolerate <= SlotSize
                PROVE  LET found == Get(key, tolerate)
                           tolerable == Tolerable(key, tolerate)
                       IN  /\ (found = NoKey) = (tolerable = {})
                           /\ found # NoKey =>
                                /\ found \in tolerable
                                /\ \A k \in tolerable :
                                     \/ Distance(key, found) < Distance(key, k)
                                     \/ Distance(key, found) = Distance(key, k) /\ found <= k
    BY DEF GetFindsClosest
  <2>. DEFINE limit == Unit * tolerate
              tolerable == Tolerable(key, tolerate)
  <2>1. data_ \subseteq Nat /\ tolerate \in Nat /\ limit \in Nat
    BY KeysAssumption, SlotAssumption, UnitAssumption DEF TypeOK
  <2>2. key \in Nat
    <3>1. key \in Int
      BY KeysAssumption DEF Queries
    <3>2. key < 0 => ~(Slot(key) > 0)
      BY <3>1, SlotAssumption DEF Slot
    <3>. QED
      BY <3>1, <3>2
  <2>3. CASE key \in data_
    <3>1. Get(key, tolerate) = key /\ key \in tolerable /\ key # NoKey
      BY <2>1, <2>3, NoKeyAssumption DEF Get, Tolerable
    <3>2. ASSUME NEW k \in tolerable
          PROVE  \/ Distance(key, key) < Distance(key, k)
                 \/ Distance(key, key) = Distance(key, k) /\ key <= k
      <4>1. k \in Nat
        BY <2>1 DEF Tolerable
      <4>. QED
        BY <2>2, <4>1 DEF Distance
    <3>. HIDE DEF tolerable
    <3>. QED
      BY <3>1, <3>2 DEF tolerable
  <2>4. CASE key \notin data_ /\ tolerate > 0
    <3>1. Get(key, tolerate) = Scan(key, limit)
      BY <2>4 DEF Get
    <3>2. Candidates(key, limit, Around(key)) = tolerable
      <4>1. \A k \in tolerable : Slot(k) \in SlotsAround(Slot(key))
        BY <2>1, <2>2, SlotsSuffice
      <4>. QED
        BY <2>4, <4>1 DEF Candidates, Around, Tolerable
    <3>3. IsBest(key, limit, Around(key), Get(key, tolerate))
      BY <2>1, <2>2, <3>1, ScanBest
    <3>4. NoKey \notin tolerable
      BY <2>1, NoKeyAssumption DEF Tolerable
    <3>. HIDE DEF tolerable
    <3>. QED
      BY <3>2, <3>3, <3>4 DEF IsBest, Before, tolerable
  <2>5. CASE key \notin data_ /\ tolerate = 0
    <3>1. Get(key, tolerate) = NoKey
      BY <2>5 DEF Get
    <3>2. limit = 0
      BY <2>5, UnitAssumption
    <3>3. \A k \in data_ : Distance(key, k) \in Nat
      BY <2>1, <2>2 DEF Distance
    <3>4. tolerable = {}
      BY <2>5, <3>2, <3>3 DEF Tolerable
    <3>. HIDE DEF tolerable
    <3>. QED
      BY <3>1, <3>4 DEF tolerable
  <2>. QED
    BY <2>1, <2>3, <2>4, <2>5
<1>. QED
  BY <1>1, TypeCorrect, PTL

-----------------------------------------------------------------------------
(* The cache implements the window.                                        *)

\* The sweep keeps everything in the window, drops everything that is more than
\* one slot beyond it, and keeps the entry of the last put.
LEMMA SweepStep ==
    ASSUME Inv, RemoveStale
    PROVE  Promise!Expire
<1>. USE KeysAssumption, FreshAssumption, StaleAssumption, SlotAssumption DEF Inv, TypeOK
<1>1. latest_ - StaleTime \in Nat /\ FirstKeptSlot = Slot(latest_ - StaleTime)
  BY DEF RemoveStale, FirstKeptSlot, Slot
<1>2. ASSUME NEW k \in data_, k >= latest_ - StaleTime
      PROVE  k \in data_'
  <2>1. Slot(k) >= FirstKeptSlot
    BY <1>1, <1>2, SlotMonotone, SlotType
  <2>. QED
    BY <2>1 DEF RemoveStale
<1>3. ASSUME NEW k \in data_'
      PROVE  k > latest_ - StaleTime - SlotSize
  <2>1. k \in Nat /\ Slot(k) >= Slot(latest_ - StaleTime)
    BY <1>1, <1>3 DEF RemoveStale
  <2>. QED
    BY <1>1, <2>1, SameSlot
<1>4. data_ # {} => latest_ \in data_'
  BY <1>2
<1>. QED
  BY <1>2, <1>3, <1>4 DEF RemoveStale, Promise!Expire, Promise!Horizon

\* For every slot size and stale time, every behaviour of the cache is one of
\* the sliding window: no entry within the stale time of the last put is lost to
\* the sweep, whatever the order in which entries arrive.
THEOREM CacheRefinement == Spec => KeepsWindow
<1>1. Init => Promise!Init
  BY FreshAssumption DEF Init, Promise!Init
<1>2. Inv /\ [Next]_vars => [Promise!Next]_(Promise!vars)
  <2>. SUFFICES ASSUME Inv, [Next]_vars
                PROVE  [Promise!Next]_(Promise!vars)
    OBVIOUS
  <2>1. CASE UNCHANGED vars
    BY <2>1 DEF vars, Promise!vars
  <2>2. CASE RemoveStale
    BY <2>2, SweepStep DEF Promise!Next
  <2>3. CASE Reset
    BY <2>3 DEF Reset, Promise!Next, Promise!Clear
  <2>4. ASSUME NEW k \in Keys, Put(k)
        PROVE  Promise!Next
    BY <2>4 DEF Put, Promise!Next, Promise!Put
  <2>. QED
    BY <2>1, <2>2, <2>3, <2>4 DEF Next
<1>. QED
  BY <1>1, <1>2, Invariance, PTL DEF Spec, Promise!Spec, KeepsWindow
=============================================================================
