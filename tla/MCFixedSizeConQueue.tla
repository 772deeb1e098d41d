------------------------- MODULE MCFixedSizeConQueue -------------------------
(* Four threads around a queue of MaxCount places, in the mixes of methods *)
(* that lose no wake-up, and in one that does.                             *)
EXTENDS FixedSizeConQueue, TLC

CONSTANTS p1, p2, c1, c2

Mix(producer1, producer2, consumer1, consumer2) ==
    p1 :> producer1 @@ p2 :> producer2 @@ c1 :> consumer1 @@ c2 :> consumer2

\* Blocking producers; an EventManager queue (a publisher that clears); a
\* consumer that peeks before it pops and is the only one to wait.
MCRoles == {
    Mix({"push", "try_push"}, {"push"}, {"pop", "try_pop"}, {"pop"}),
    Mix({"try_push", "clear"}, {"try_push"}, {"pop"}, {"pop", "try_pop"}),
    Mix({"push"}, {"push"}, {"front", "pop"}, {"try_pop"})}

\* Two consumers, one of which peeks.
MCPeekRoles == {Mix({"push"}, {"push"}, {"front", "pop"}, {"pop"})}

\* A blocking producer next to a thread that clears.
MCClearRoles == {Mix({"push"}, {"push", "clear"}, {"pop"}, {"try_pop"})}
=============================================================================
