---------------------------- MODULE SeqProcessor ----------------------------
(***************************************************************************)
(* framework/processor.cpp: a group of Ops that run one after the other on *)
(* the frame of a trigger.  What the Ops do is the user's affair; here is  *)
(* which of them run, and what their statuses amount to.                   *)
(*                                                                         *)
(* An Op of a group is a record: bypass and configured (it is initialised  *)
(* by itself, or has a file to be initialised from) say what the           *)
(* configuration has, known that there is such an algorithm, input and     *)
(* output how many events it wants: [num, min, max], -1 for "any".  FATAL, *)
(* which ends the program, is no status here.                              *)
(***************************************************************************)
EXTENDS Integers, Sequences, FiniteSetsExt

Statuses == {"SUCC", "FAIL", "IGNORE"}

-----------------------------------------------------------------------------
(* SeqProcessor::init.                                                     *)

\* valid_: the Ops that are not bypassed
Valid(group) == SelectSeq(group, LAMBDA op : ~op.bypass)

\* What an Op says of itself must make sense: min and max leave a choice, and num
\* lies between them.  (A CHECK; the program ends if not.)
Consistent(io) ==
    /\ io.min > 0 /\ io.max > 0 => io.min < io.max
    /\ io.num > 0 => /\ io.max > 0 => io.num <= io.max
                     /\ io.min > 0 => io.num >= io.min

\* That many events are there.
Fits(io, size) ==
    /\ io.num > 0 => io.num = size
    /\ io.min > 0 => io.min <= size
    /\ io.max > 0 => io.max >= size

\* io_sanity_check: what the first Op takes, and what the last one gives, bypassed or
\* not.  The output events are counted by the triggers of the operator.
IoSane(group, inputs, triggers) ==
    LET in == group[1].input
        out == group[Len(group)].output
    IN  Consistent(in) /\ Consistent(out) /\ Fits(in, inputs) /\ Fits(out, triggers)

\* init_group (operator.cpp): an operator has an algorithm, which becomes a group of
\* one Op, or a group with an Op at least.
HasOps(group) == group # <<>>

\* init_op
CanInitOp(op) == op.configured

CanInitGroup(group, inputs, triggers) ==
    /\ HasOps(group)
    /\ \A i \in DOMAIN group : group[i].known
    /\ IoSane(group, inputs, triggers)
    /\ \A i \in DOMAIN group : group[i].bypass \/ CanInitOp(group[i])

-----------------------------------------------------------------------------
(* process and peek, for the statuses st that the valid Ops would give: the *)
(* statuses of those that run, and what the caller gets.                   *)

\* The Ops up to the first whose status stops the sequence.
UpTo(st, stops) ==
    LET at == {i \in DOMAIN st : st[i] \in stops}
    IN  IF at = {} THEN st ELSE SubSeq(st, 1, Min(at))

\* (mutant) stops at what peek goes on after, and the other way round
ProcessedLax(st, ignore_fail) == UpTo(st, IF ignore_fail THEN {} ELSE {"IGNORE"})

Processed(st, ignore_fail) == UpTo(st, IF ignore_fail THEN {} ELSE {"FAIL", "IGNORE"})

\* process returns what the last Op that ran has returned.
ProcessStatus(ran) == IF ran = <<>> THEN "SUCC" ELSE ran[Len(ran)]

\* peek goes on after IGNORE,
Peeked(st, ignore_fail) == UpTo(st, IF ignore_fail THEN {} ELSE {"FAIL"})

\* and is a success unless it had to stop.
PeekStatus(ran, ignore_fail) ==
    IF ~ignore_fail /\ ran # <<>> /\ ran[Len(ran)] = "FAIL" THEN "FAIL" ELSE "SUCC"
=============================================================================
