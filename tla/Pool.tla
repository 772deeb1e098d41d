-------------------------------- MODULE Pool --------------------------------
(***************************************************************************)
(* What the users of CCObjectPool (common/concurrent_object_pool.h) rely   *)
(* on: every object has at most one holder, GetObject answers null only    *)
(* when no object is free, and a released object can be had again.         *)
(***************************************************************************)
CONSTANTS Threads, Objects, Null

VARIABLES
    free,  \* the objects that can be had
    held,  \* held[t]: the objects of thread t
    got    \* got[t]: the last answer to thread t

vars == <<free, held, got>>

Init ==
    /\ free = Objects
    /\ held = [t \in Threads |-> {}]
    /\ got = [t \in Threads |-> Null]

Acquire(t, o) ==
    /\ free' = free \ {o}
    /\ held' = [held EXCEPT ![t] = @ \cup {o}]
    /\ got' = [got EXCEPT ![t] = o]

Refuse(t) ==
    /\ free = {}
    /\ got' = [got EXCEPT ![t] = Null]
    /\ UNCHANGED <<free, held>>

Release(t, o) ==
    /\ free' = free \cup {o}
    /\ held' = [held EXCEPT ![t] = @ \ {o}]
    /\ UNCHANGED got

Next == \E t \in Threads :
    \/ Refuse(t)
    \/ \E o \in free : Acquire(t, o)
    \/ \E o \in held[t] : Release(t, o)

Spec == Init /\ [][Next]_vars
=============================================================================
