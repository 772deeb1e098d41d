---------------------------- MODULE BlockingQueue ----------------------------
(***************************************************************************)
(* What common/concurrent_queue.h promises its callers, in the words of    *)
(* its comments: push is "blocking if the container is full" and for no    *)
(* other reason, pop and front are "blocking if queue is empty" and for no *)
(* other reason, the try_ variants and clear never block, elements leave   *)
(* in the order in which they came.  There are no wait sets here: a        *)
(* blocked call is an action whose guard is false.                         *)
(***************************************************************************)
EXTENDS Naturals, Sequences

CONSTANTS Threads, Data, NoData, MaxCount

VARIABLES
    items,  \* the elements, oldest first
    op,     \* op[t]: the method t is in, or "none"
    arg,    \* arg[t]: what t's call carries in, then what it hands out
    role    \* role[t]: the methods t calls

vars == <<items, op, arg, role>>

Init ==
    /\ items = <<>>
    /\ op = [t \in Threads |-> "none"]
    /\ arg = [t \in Threads |-> NoData]

Return(t, d) ==
    /\ op' = [op EXCEPT ![t] = "none"]
    /\ arg' = [arg EXCEPT ![t] = d]

Call(t) ==
    /\ op[t] = "none"
    /\ \E o \in role[t] : op' = [op EXCEPT ![t] = o]
    /\ \E d \in Data \cup {NoData} : arg' = [arg EXCEPT ![t] = d]
    /\ UNCHANGED <<items, role>>

Insert(t, o) ==
    /\ op[t] = o /\ Len(items) < MaxCount
    /\ items' = Append(items, arg[t])
    /\ Return(t, NoData)
    /\ UNCHANGED role

Remove(t, o) ==
    /\ op[t] = o /\ items # <<>>
    /\ items' = Tail(items)
    /\ Return(t, Head(items))
    /\ UNCHANGED role

Peek(t) ==
    /\ op[t] = "front" /\ items # <<>>
    /\ Return(t, Head(items))
    /\ UNCHANGED <<items, role>>

\* The calls that never block.
Fail(t) ==
    /\ \/ op[t] = "try_push" /\ Len(items) >= MaxCount /\ Return(t, arg[t])
       \/ op[t] = "try_pop" /\ items = <<>> /\ Return(t, NoData)
    /\ UNCHANGED <<items, role>>

Drop(t) ==
    /\ op[t] = "clear"
    /\ items' = <<>>
    /\ Return(t, NoData)
    /\ UNCHANGED role

Immediate(t) ==
    Insert(t, "try_push") \/ Remove(t, "try_pop") \/ Fail(t) \/ Drop(t)

Consume == \E t \in Threads : Remove(t, "pop") \/ Peek(t)
Produce == \E t \in Threads : Insert(t, "push")

Next == Consume \/ Produce \/ \E t \in Threads : Call(t) \/ Immediate(t)

Spec == Init /\ [][Next]_vars

\* Calls that need not block return.  While elements stay in the queue, some
\* waiting consumer goes on; while there is room, some waiting producer does.
FairSpec ==
    /\ Spec
    /\ WF_vars(Consume) /\ WF_vars(Produce)
    /\ \A t \in Threads : WF_vars(Immediate(t))
=============================================================================
