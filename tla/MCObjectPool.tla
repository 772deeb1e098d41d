---------------------------- MODULE MCObjectPool ----------------------------
(* Two threads and three nodes: one thread can take two nodes and put the  *)
(* first one back while the other looks at it.                             *)
EXTENDS ObjectPool
=============================================================================
