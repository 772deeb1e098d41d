------------------------------- MODULE MCDag -------------------------------
(***************************************************************************)
(* Four operators, in the order of the file: "D", a sink, a link or a      *)
(* second source, an operator "B", the source "A", and "C", which may have *)
(* two triggers.  Only sources name their data.                            *)
(***************************************************************************)
EXTENDS Dag

Out(event, data, type, hz) ==
    [event |-> event, data |-> Plain(data), type |-> type, hz |-> hz,
     downstream |-> <<>>, has_reference |-> FALSE]

AnyNumber == [num |-> -1, min |-> -1, max |-> -1]
TestOp == [known |-> TRUE, bypass |-> FALSE, configured |-> TRUE, input |-> AnyNumber, output |-> AnyNumber]

Op(name, trigger, input, latest, output) ==
    [name |-> name, trigger |-> trigger, input |-> input, latest |-> latest, output |-> output,
     enable_if |-> "", disable_if |-> "", trigger_data |-> <<>>, upstream |-> {},
     group |-> <<TestOp>>, input_offset |-> <<>>, input_window |-> <<>>, input_wait |-> <<>>,
     latest_tolerate_offset |-> <<>>]

Source == Op("A", <<"lidar">>, <<>>, <<>>, <<Out("a", "cloud", "ApplicationCachedData", 0)>>)

\* Every shape of the graph: who is triggered by whom, loops included.
Shapes ==
    {<<Op("D", d[1], id, <<>>, d[2]), Op("B", tb, <<>>, lb, <<Out("b", "", "", 0)>>), Source,
       Op("C", tc, <<>>, <<>>, IF Len(tc) = 1 THEN <<Out("c", "", "", 0)>>
                            ELSE <<Out("c", "", "", 0), Out("e", "", "", 5)>>)>> :
        d \in {<<"a">>, <<"b">>, <<"c">>} \X {<<>>, <<Out("d", "", "", 0)>>}
              \cup {<< <<"radar">>, <<Out("d", "points", "ApplicationCachedData", 0)>> >>},
        id \in {<<>>, <<"b">>, <<"e">>},
        tb \in {<<"a">>, <<"c">>, <<"a", "d">>}, lb \in {<<>>, <<"c">>},
        tc \in {<<"a">>, <<"b">>, <<"d">>, <<"a", "a">>, <<"b", "a">>, <<"a", "d">>}}

\* One operator that is on or off, or says both.
Switches ==
    {<<[Op("D", <<"a">>, <<>>, <<>>, <<>>) EXCEPT !.enable_if = on, !.disable_if = off], Source>> :
        on \in {"", "SET", "UNSET"}, off \in {"", "SET", "UNSET"}}

\* What the source tells of its data.
Rates ==
    {<<Op("D", <<"b">>, <<>>, <<>>, <<>>), Op("B", <<t>>, <<>>, <<>>, <<Out("b", "", "", 0)>>),
       Op("A", <<"lidar">>, <<>>, <<>>, <<Out("a", "cloud", type, hz)>>)>> :
        t \in {"a", "lidar"}, type \in {"", "ApplicationCachedData"}, hz \in {0, 5}}

\* A chain of two that ask for rates.
Downsampled ==
    {<<Source, Op("B", <<"a">>, <<>>, <<>>, <<Out("b", "", "", r[1])>>),
               Op("C", <<"b">>, <<>>, <<>>, <<Out("c", "", "", r[2])>>)>> :
        r \in {0, 1, 3, 4, 7, 9, 10, 30} \X {0, 1, 3, 4, 7, 9, 10, 30}}

\* What the Ops of a sink want, and of which kind they are.
Sink(input, trigger) == Op("D", trigger, input, <<>>, <<>>)
Wants == {[num |-> n, min |-> lo, max |-> hi] :
            n \in {-1, 1, 2}, lo \in {-1, 1, 2}, hi \in {-1, 1, 2}}
OpKinds == {[TestOp EXCEPT !.known = k, !.bypass = by, !.configured = c] :
               k \in BOOLEAN, by \in BOOLEAN, c \in BOOLEAN}
Groups ==
    {<<[Sink(input, <<"a">>) EXCEPT !.group = <<[TestOp EXCEPT !.input = io], TestOp>>], Source>> :
        input \in {<<>>, <<"a">>}, io \in Wants}
      \cup
    {<<[Sink(<<>>, trigger) EXCEPT !.group = <<TestOp, [TestOp EXCEPT !.output = io]>>], Source>> :
        trigger \in {<<"a">>, <<"a", "a">>}, io \in Wants}
      \cup
    {<<[Sink(<<>>, <<"a">>) EXCEPT !.group = g], Source>> :
        g \in {<<>>} \cup {<<k>> : k \in OpKinds} \cup {<<TestOp, k>> : k \in OpKinds}}

\* As many offsets, windows and tolerances as there are names, or not.
Numbers ==
    {<<[Op("D", <<"a">>, <<"a">>, <<"a">>, <<>>) EXCEPT
          !.input_offset = offset, !.input_window = window, !.latest_tolerate_offset = tolerance],
       Source>> :
        offset \in {<<>>, <<0>>, <<0, 0>>}, window \in {<<>>, <<1>>, <<-1>>},
        tolerance \in {<<>>, <<0>>, <<0, 0>>}}

\* production/dag_streaming.prototxt and dag_streaming_multiinput.prototxt; the latter
\* has inputs that nobody makes.
Production ==
    LET App == "ApplicationCachedData"
        test1 == Op("Test1", <<"lidar_tracking">>, <<>>, <<>>, <<Out("test1", "", App, 0)>>)
        test2 == Op("Test2", <<"test1">>, <<>>, <<>>, <<Out("test2", "", App, 0)>>)
        test3(input) == Op("Test3", <<"test2">>, input, <<>>, <<Out("test3", "", "", 0)>>)
        test4 == Op("Test4", <<"test3">>, <<>>, <<>>, <<>>)
        test5 == Op("Test5", <<"lidar_tracking">>, <<>>, <<>>, <<Out("test5", "", App, 0)>>)
    IN  {<<test1, test2, test3(<<>>), test4>>,
         <<test1, test5, test2, test3(<<"test5", "test6", "test7">>), test4>>,
         <<test1, test5, test2, test3(<<"test5">>), test4>>}

\* Two downstreams that have names for their own data.
NamedShapes ==
    {<<Source, Op("B", <<"a">>, <<>>, <<>>, <<Out("b", b, "", 0)>>),
               Op("C", <<"a">>, <<>>, <<>>, <<Out("c", c, "", 0)>>)>> :
        b \in {"", "boxes"}, c \in {"", "lanes"}}

AllShapes == Shapes \cup Switches \cup Rates \cup Downsampled \cup Groups \cup Numbers \cup Production
Set == {"SET"}
MCTypeHz == [ApplicationCachedData |-> 10]

\* All but NamedShapes are what the theorems ask for.
ASSUME ShapesAreClear ==
    Configs \subseteq AllShapes =>
        /\ OneMaker /\ OutputsTriggered /\ SourcesNamed /\ RatesCountable
        /\ OthersRead /\ SourcesTyped
=============================================================================
