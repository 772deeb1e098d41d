---------------------------- MODULE MCLifecycle ----------------------------
(* Three operators: a chain of three, or a source with one operator behind  *)
(* it and another that nothing triggers.                                    *)
EXTENDS Lifecycle, TLC

CONSTANTS a, b, c

MCOps == {a, b, c}
MCOrder == <<a, b, c>>

Chain == [kind  |-> a :> "source" @@ b :> "event" @@ c :> "event",
          downs |-> a :> <<b>> @@ b :> <<c>> @@ c :> <<>>]

Idle == [kind  |-> a :> "cv" @@ b :> "source" @@ c :> "event",
         downs |-> a :> <<>> @@ b :> <<c>> @@ c :> <<>>]

MCConfigs == {Chain, Idle}
=============================================================================
