----------------------------- MODULE WindowCache -----------------------------
(***************************************************************************)
(* What the users of a cache of framework/cached_data.h rely on: a set of  *)
(* time-stamped entries, none of which is replaced; old ones go and recent *)
(* ones stay, where "recent" is a window that ends at the entry that was   *)
(* put last; and that entry can always be had while there is any.          *)
(***************************************************************************)
EXTENDS Integers

CONSTANTS
    Keys,    \* time stamps
    Window,  \* entries up to this much older than the newest are never dropped
    Slack    \* entries this much beyond the window are always dropped

VARIABLES
    entries,  \* the time stamps that can be looked up
    newest    \* the one that was put last (anything before the first Put)

vars == <<entries, newest>>

Horizon == newest - Window

Init == entries = {} /\ newest \in Nat

Put(k) ==
    /\ k \notin entries
    /\ entries' = entries \cup {k}
    /\ newest' = k

Expire ==
    /\ entries' \subseteq entries
    /\ \A k \in entries : k >= Horizon => k \in entries'
    /\ \A k \in entries' : k > Horizon - Slack
    /\ entries # {} => newest \in entries'
    /\ UNCHANGED newest

Clear == entries' = {} /\ UNCHANGED newest

Next == Expire \/ Clear \/ \E k \in Keys : Put(k)

Spec == Init /\ [][Next]_vars
=============================================================================
