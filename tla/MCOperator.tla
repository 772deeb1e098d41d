----------------------------- MODULE MCOperator -----------------------------
(***************************************************************************)
(* Operator "A" with worker a, or with a and a2; operator "B" with worker  *)
(* b.  What differs from scenario to scenario is who waits for whom, what  *)
(* b reads of a's frames, and the groups.                                  *)
(***************************************************************************)
EXTENDS Operator

CONSTANTS a, a2, b

MCWorkers == {a, a2, b}
MCOperators == {"A", "B", "nobody"}

\* Ops: one that runs, one that is bypassed.
TheOp == [bypass |-> FALSE]
NoOp == [bypass |-> TRUE]

Dep(on, policy, wait) == [on |-> on, policy |-> policy, wait |-> wait]
Cfg(group, deps) == [bypass |-> FALSE, ignore_fail |-> FALSE, group |-> group, dependency |-> deps]
Port(o, frames) ==
    [op |-> o, frames |-> frames, ages |-> {0}, has_ref |-> FALSE, input |-> <<>>, latest |-> <<>>]
Read(port, ages) == [port EXCEPT !.has_ref = TRUE, !.ages = ages]
Late(port, ages) == [port EXCEPT !.ages = ages]

Scene(A, B, pa, pa2, pb) ==
    [slack |-> 2,
     ops |-> [o \in MCOperators |-> IF o = "A" THEN A ELSE B],
     ports |-> [w \in MCWorkers |-> IF w = a THEN pa ELSE IF w = a2 THEN pa2 ELSE pb]]

Idle == Port("nobody", 0)

\* b waits for A, in every way.
OneWay ==
    {Scene(Cfg(<<TheOp>>, <<>>), Cfg(<<NoOp>>, <<Dep("A", p, 2)>>),
           Port("A", 2), Idle, Port("B", 1)) : p \in {"WAIT", "BLOCK"}}
      \cup
    {Scene(Cfg(<<NoOp>>, <<>>), Cfg(<<NoOp>>, deps),
           Port("A", 2), Idle, Late(Port("B", 1), {0, 1})) :
        deps \in {<<Dep("A", "BUNDLE", 2)>>, <<Dep("A", "BUNDLE", 2), Dep("A", "WAIT", 1)>>}}

\* a and b wait for each other.
BothWays ==
    {Scene(Cfg(<<NoOp>>, <<Dep("B", p, 1)>>), Cfg(<<NoOp>>, <<Dep("A", "BLOCK", 1)>>),
           Port("A", 1), Idle, Port("B", 1)) : p \in {"WAIT", "BLOCK"}}

\* b waits for an operator with two workers.
TwoWorkers ==
    {[Scene(Cfg(<<NoOp>>, <<>>), Cfg(<<NoOp>>, <<Dep("A", "BLOCK", 1)>>),
            Port("A", 1), Port("A", 1), Port("B", 1)) EXCEPT !.slack = 1]}

\* b reads a's frames, as input and as latest data; A is bypassed, and b waits for it.
Readers ==
    {Scene([Cfg(<<>>, <<>>) EXCEPT !.bypass = TRUE], Cfg(<<NoOp>>, <<Dep("A", "BLOCK", 1)>>),
           Read(Port("A", 2), {0, 1}), Idle,
           [Late(Port("B", 2), {-1, 0}) EXCEPT
               !.input = <<[from |-> a, offset |-> 1, window |-> 2, wait |-> 1]>>,
               !.latest = <<[from |-> a, tolerance |-> 1]>>])}

\* What a group makes of its Ops' statuses.
Groups ==
    {Scene([Cfg(<<TheOp, NoOp, TheOp>>, <<>>) EXCEPT !.ignore_fail = ignore],
           Cfg(<<NoOp>>, <<>>), Read(Port("A", 2), {0}), Idle, Idle) : ignore \in BOOLEAN}

MCScenarios == OneWay \cup BothWays \cup TwoWorkers \cup Readers \cup Groups
=============================================================================
