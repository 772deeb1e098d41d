----------------------------- MODULE MCPipeline -----------------------------
(***************************************************************************)
(* src -> mid, which passes its frames on to share (same cache) and gives  *)
(* down a copy at a lower rate; share reads the reference data of src.     *)
(***************************************************************************)
EXTENDS Pipeline, TLC

CONSTANTS src, mid, share, down, toMid, toShare, toDown, frames, slow, ref

MCNodes == {src, mid, share, down}
MCLinks == {toMid, toShare, toDown}
MCCaches == {frames, slow, ref}
MCTo == toMid :> mid @@ toShare :> share @@ toDown :> down
MCDataOf == toMid :> frames @@ toShare :> frames @@ toDown :> slow
MCPeriod == toMid :> 0 @@ toShare :> 0 @@ toDown :> 2
MCCopies == src :> <<toMid>> @@ mid :> <<toDown>> @@ share :> <<>> @@ down :> <<>>
MCNoCopies == src :> <<>> @@ mid :> <<toShare>> @@ share :> <<>> @@ down :> <<>>
MCRefOf == src :> ref @@ mid :> NoCache @@ share :> NoCache @@ down :> NoCache
MCInputs == src :> {} @@ mid :> {} @@ share :> {src} @@ down :> {}
=============================================================================
