---------------------------- MODULE MCCachedData ----------------------------
(* Six slots of two time stamps each, two of them half empty; the window   *)
(* is two slots.  Nothing is put at 2, so that slot 2 has a number that is *)
(* no time of this instance, and TypeOK tells the two apart.               *)
EXTENDS CachedData
MCKeys == {1} \cup 3 .. 11

\* Away from slot 0, as time stamps of the present are; with Unit = SlotSize the
\* cache is a StaticCachedData of 1 Hz.
MCLateKeys == 2 .. 10

MCFreshLatest == {0, 5, 12}
=============================================================================
