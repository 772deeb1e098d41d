----------------------------- MODULE ObjectPool -----------------------------
(***************************************************************************)
(* common/concurrent_object_pool.h: CCObjectPool, a free list of nodes     *)
(* without locks.  free_head_ is a pointer with a counter, exchanged as    *)
(* one; next is a plain field, written by the thread that releases a node  *)
(* and read by any thread that once saw the node at the head of the list.  *)
(*                                                                         *)
(* One action per access to shared memory.  GetObject and ConstructObject  *)
(* differ in what they do with a node that is theirs already.  next is an  *)
(* aligned word: a read that races with a write sees its old or new value. *)
(***************************************************************************)
EXTENDS Naturals, FiniteSets

CONSTANTS
    Threads,
    Capacity,  \* capacity_
    MaxCount   \* bound: how often the head is exchanged

ASSUME CapacityAssumption == Capacity \in Nat \ {0}
ASSUME MaxCountAssumption == MaxCount \in Nat

Nodes == 1 .. Capacity
Null == 0

VARIABLES
    free_head_,  \* [node, count]
    next,        \* next[n]: the node behind n, as n's memory says
    pc,          \* pc[t]: "idle", or the next access of t
    old_head,    \* old_head[t]: the head as t has seen it
    new_head,    \* new_head[t]: the node t wants to put in its place
    held,        \* held[t]: the nodes t uses
    got          \* got[t]: what the last GetObject of t returned

vars == <<free_head_, next, pc, old_head, new_head, held, got>>

Heads == [node : Nodes \cup {Null}, count : 0 .. MaxCount]

\* The types; a thread that is about to read a node's next never does so through
\* a null pointer.
TypeOK ==
    /\ free_head_ \in Heads
    /\ next \in [Nodes -> Nodes \cup {Null}]
    /\ pc \in [Threads -> {"idle", "next", "take", "link", "give"}]
    /\ old_head \in [Threads -> Heads]
    /\ new_head \in [Threads -> Nodes \cup {Null}]
    /\ held \in [Threads -> SUBSET Nodes]
    /\ got \in [Threads -> Nodes \cup {Null}]
    /\ \A t \in Threads : pc[t] = "next" => old_head[t].node # Null
    /\ \A t \in Threads : pc[t] \in {"link", "give"} => new_head[t] # Null

Init ==
    /\ free_head_ = [node |-> 1, count |-> 0]
    /\ next = [n \in Nodes |-> IF n = Capacity THEN Null ELSE n + 1]
    /\ pc = [t \in Threads |-> "idle"]
    /\ old_head = [t \in Threads |-> free_head_]
    /\ new_head = [t \in Threads |-> Null]
    /\ held = [t \in Threads |-> {}]
    /\ got = [t \in Threads |-> Null]

-----------------------------------------------------------------------------
(* FindFreeHead.                                                           *)

\* (mutant) looks for null only before the loop
SeeAgain(t) ==
    /\ old_head' = [old_head EXCEPT ![t] = free_head_]
    /\ pc' = [pc EXCEPT ![t] = "next"]
    /\ UNCHANGED got

\* What a thread does with a head it has just loaded, by a load or by an exchange
\* that failed.
See(t) ==
    /\ old_head' = [old_head EXCEPT ![t] = free_head_]
    /\ IF free_head_.node = Null
       THEN pc' = [pc EXCEPT ![t] = "idle"] /\ got' = [got EXCEPT ![t] = Null]
       ELSE pc' = [pc EXCEPT ![t] = "next"] /\ UNCHANGED got

Load(t) ==
    /\ pc[t] = "idle"
    /\ See(t)
    /\ UNCHANGED <<free_head_, next, new_head, held>>

ReadNext(t) ==
    /\ pc[t] = "next"
    /\ new_head' = [new_head EXCEPT ![t] = next[old_head[t].node]]
    /\ pc' = [pc EXCEPT ![t] = "take"]
    /\ UNCHANGED <<free_head_, next, old_head, held, got>>

\* (mutant) compares the pointer without its counter
SamePointer(t) == free_head_.node = old_head[t].node

\* compare_exchange compares the pointer and the counter.
Same(t) == free_head_ = old_head[t]

Exchange(t) ==
    /\ Same(t) /\ free_head_.count < MaxCount
    /\ free_head_' = [node |-> new_head[t], count |-> old_head[t].count + 1]

Take(t) ==
    /\ pc[t] = "take"
    /\ Exchange(t)
    /\ held' = [held EXCEPT ![t] = @ \cup {old_head[t].node}]
    /\ got' = [got EXCEPT ![t] = old_head[t].node]
    /\ pc' = [pc EXCEPT ![t] = "idle"]
    /\ UNCHANGED <<next, old_head, new_head>>

\* The weak exchange may fail although the head is the same.
TakeFails(t) ==
    /\ pc[t] = "take"
    /\ See(t)
    /\ UNCHANGED <<free_head_, next, new_head, held>>

-----------------------------------------------------------------------------
(* ReleaseObject, called when the last shared pointer to an object goes.   *)

Release(t) ==
    /\ pc[t] = "idle"
    /\ \E n \in held[t] :
         /\ new_head' = [new_head EXCEPT ![t] = n]
         /\ held' = [held EXCEPT ![t] = @ \ {n}]
    /\ old_head' = [old_head EXCEPT ![t] = free_head_]
    /\ pc' = [pc EXCEPT ![t] = "link"]
    /\ UNCHANGED <<free_head_, next, got>>

Link(t) ==
    /\ pc[t] = "link"
    /\ next' = [next EXCEPT ![new_head[t]] = old_head[t].node]
    /\ pc' = [pc EXCEPT ![t] = "give"]
    /\ UNCHANGED <<free_head_, old_head, new_head, held, got>>

Give(t) ==
    /\ pc[t] = "give"
    /\ Exchange(t)
    /\ pc' = [pc EXCEPT ![t] = "idle"]
    /\ UNCHANGED <<next, old_head, new_head, held, got>>

\* (mutant) tries again without linking the node to the new head
GiveFailsUnlinked(t) ==
    /\ pc[t] = "give"
    /\ old_head' = [old_head EXCEPT ![t] = free_head_]
    /\ UNCHANGED <<free_head_, next, pc, new_head, held, got>>

GiveFails(t) ==
    /\ pc[t] = "give"
    /\ old_head' = [old_head EXCEPT ![t] = free_head_]
    /\ pc' = [pc EXCEPT ![t] = "link"]
    /\ UNCHANGED <<free_head_, next, new_head, held, got>>

Next == \E t \in Threads :
    \/ Load(t) \/ ReadNext(t) \/ Take(t) \/ TakeFails(t)
    \/ Release(t) \/ Link(t) \/ Give(t) \/ GiveFails(t)

Spec == Init /\ [][Next]_vars

-----------------------------------------------------------------------------
\* The nodes in the list that begins at head: the smallest set that holds head
\* and, with a node, the one its next points to.
Linked(S, nxt) == \A n \in S : nxt[n] \in S \cup {Null}
List(head, nxt) ==
    {n \in Nodes : \A S \in SUBSET Nodes :
        head \in S \cup {Null} /\ Linked(S, nxt) => n \in S}

FreeNodes == List(free_head_.node, next)

\* The nodes a thread is about to put back, and all that it has.
Releasing(t) == IF pc[t] \in {"link", "give"} THEN {new_head[t]} ELSE {}
InUse(t) == held[t] \cup Releasing(t)

\* Every node is in the list or with exactly one thread, however often heads are
\* seen that are no longer the head: none is handed out twice, none gets lost.
NodesAccounted ==
    /\ FreeNodes \cup UNION {InUse(t) : t \in Threads} = Nodes
    /\ \A t \in Threads : FreeNodes \cap InUse(t) = {} /\ held[t] \cap Releasing(t) = {}
    /\ \A t, u \in Threads : t # u => InUse(t) \cap InUse(u) = {}

\* The list takes effect in one step per call, as if it were a set: GetObject
\* answers null only if no node is free at some moment of the call.
Promise == INSTANCE Pool
               WITH Objects <- Nodes, free <- FreeNodes,
                    held <- [t \in Threads |-> InUse(t)]
ImplementsPool == Promise!Spec
=============================================================================
