----------------------------- MODULE CachedData -----------------------------
(***************************************************************************)
(* framework/cached_data.h: one cache of time-stamped data, read and       *)
(* written by the worker threads and swept by the scheduler's thread.  The *)
(* same code serves DynamicCachedData and StaticCachedData, but for the    *)
(* unit of a tolerance (1000 us, or the period of the data).               *)
(*                                                                         *)
(* Every method holds lock_ from its first line to its last: one action or *)
(* one operator each.  data_ is a map from a slot (SlotSize microseconds)  *)
(* to the map of its entries; a slot is created by the put that fills it   *)
(* and erased as a whole, so there is never an empty one, and the set of   *)
(* keys says it all.  The payload is abstracted away: an entry is its key. *)
(***************************************************************************)
EXTENDS Integers, FiniteSetsExt

CONSTANTS
    Keys,       \* the time stamps under which data is put
    SlotSize,   \* slot_size_
    StaleTime,  \* stale_time_
    Unit,       \* what one unit of tolerance is worth
    NoKey,      \* "not found"
    FreshLatest \* what latest_ may be before the first put: 0, or, in
                \* StaticCachedData, whose constructor leaves it out, anything

ASSUME KeysAssumption  == Keys \subseteq Nat
ASSUME SlotAssumption  == SlotSize \in Nat \ {0}
ASSUME StaleAssumption == StaleTime \in Nat
ASSUME UnitAssumption  == Unit \in Nat \ {0}
ASSUME NoKeyAssumption == NoKey \notin Nat
ASSUME FreshAssumption == FreshLatest \subseteq Nat

VARIABLES
    data_,   \* the keys of the entries
    latest_  \* the key of the last successful put

vars == <<data_, latest_>>

\* The types; latest_ is a time under which data was put, or what it was at first,
\* and never the number of a slot or a horizon.
TypeOK == data_ \subseteq Keys /\ latest_ \in Keys \cup FreshLatest

Init == data_ = {} /\ latest_ \in FreshLatest

Slot(k) == k \div SlotSize
HasSlot(s) == \E k \in data_ : Slot(k) = s

-----------------------------------------------------------------------------
\* (mutant) latest_ only moves forward
PutForward(k) ==
    /\ k \notin data_
    /\ data_' = data_ \cup {k}
    /\ latest_' = IF k > latest_ THEN k ELSE latest_

\* (mutant) latest_ takes the slot instead of the key: both are uint64_t
PutSlot(k) ==
    /\ k \notin data_
    /\ data_' = data_ \cup {k}
    /\ latest_' = Slot(k)

\* A key that is there already is refused and changes nothing.
Put(k) ==
    /\ k \notin data_
    /\ data_' = data_ \cup {k}
    /\ latest_' = k

\* remove_stale_data erases the slots before the one that is StaleTime older
\* than the last put, and returns at once if that time is before the epoch.
FirstKeptSlot == (latest_ - StaleTime) \div SlotSize

\* (mutant) erases the slot in which the window begins as well
RemoveStaleWhole ==
    /\ latest_ >= StaleTime
    /\ data_' = {k \in data_ : Slot(k) > FirstKeptSlot}
    /\ UNCHANGED latest_

RemoveStale ==
    /\ latest_ >= StaleTime
    /\ data_' = {k \in data_ : Slot(k) >= FirstKeptSlot}
    /\ UNCHANGED latest_

\* reset empties the map; latest_ keeps its value.
Reset == data_' = {} /\ UNCHANGED latest_

Next == RemoveStale \/ Reset \/ \E k \in Keys : Put(k)

Spec == Init /\ [][Next]_vars

-----------------------------------------------------------------------------
(* Look-ups: the key of the entry that is handed out, or NoKey.            *)

Distance(a, b) == IF a > b THEN a - b ELSE b - a

\* (mutant) stops a slot early
SlotsBefore(slot) == IF slot = 0 THEN {} ELSE (slot - 1) .. slot

\* The slots of the loop "for (s = slot - 1; s < slot + 2; ++s)".  s is
\* unsigned: below slot 0 it starts at the largest integer and the body is
\* never entered.
SlotsAround(slot) == IF slot = 0 THEN {} ELSE (slot - 1) .. (slot + 1)

\* The body of the loop over the entries in ascending order: best is replaced
\* by k when k is strictly closer.
Closer(key, limit, k, best) ==
    /\ Distance(key, k) < limit
    /\ best = NoKey \/ Distance(key, k) < Distance(key, best)

Scan(key, limit) ==
    MapThenFoldSet(LAMBDA k, best : IF Closer(key, limit, k, best) THEN k ELSE best,
                   NoKey, LAMBDA k : k, Max,
                   {k \in data_ : Slot(k) \in SlotsAround(Slot(key))})

Get(key, tolerate) ==
    IF key \in data_ THEN key
    ELSE IF tolerate > 0 THEN Scan(key, Unit * tolerate) ELSE NoKey

\* get_newest: the entry of the last put, if it is still there
GetNewest == IF latest_ \in data_ THEN latest_ ELSE NoKey

-----------------------------------------------------------------------------
\* get_newest answers whenever the cache holds anything: neither the sweep,
\* whose horizon moves with latest_ in both directions, nor a reset that leaves
\* latest_ behind ever strands it on an entry that is gone.
NewestAvailable == data_ # {} => GetNewest # NoKey

\* The entries a look-up may return, by the comment of get ("get the data in
\* the cache by key in tolerate").
Tolerable(key, tolerate) ==
    {k \in data_ : k = key \/ Distance(key, k) < Unit * tolerate}

\* How the entries fall into slots does not show: get finds the closest
\* tolerable entry, the older one of two, whenever there is one, for every
\* tolerance up to one slot and every key outside the first slot.
Queries == UNION {{k - 1, k, k + 1} : k \in Keys}

GetFindsClosest ==
    \A key \in Queries, tolerate \in 0 .. SlotSize :
        (Slot(key) > 0 /\ Unit * tolerate <= SlotSize) =>
            LET found == Get(key, tolerate)
                tolerable == Tolerable(key, tolerate)
            IN  /\ (found = NoKey) = (tolerable = {})
                /\ found # NoKey =>
                     /\ found \in tolerable
                     /\ \A k \in tolerable :
                          \/ Distance(key, found) < Distance(key, k)
                          \/ Distance(key, found) = Distance(key, k) /\ found <= k

\* The comment of get without limits of its own (line 64: "get the data in the
\* cache by key in tolerate"): whatever is within the tolerance is found.
GetFindsTolerable ==
    \A key \in Keys, tolerate \in 1 .. 2 :
        Tolerable(key, tolerate) # {} => Get(key, tolerate) # NoKey

-----------------------------------------------------------------------------
Promise == INSTANCE WindowCache
               WITH entries <- data_, newest <- latest_,
                    Window <- StaleTime, Slack <- SlotSize

\* The cache is a window: the sweep never drops an entry that is at most
\* StaleTime older than the last put, and leaves none that is a slot older.
KeepsWindow == Promise!Spec
=============================================================================
