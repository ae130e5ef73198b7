----------------------------- MODULE MCMuxCache -----------------------------
(***************************************************************************)
(* A media playlist and segments, in ticks of which muxFetchLimit (60 s)   *)
(* is one: a playlist (2 s) may expire while its fetch is under way, a     *)
(* segment (3 min) expires only after its fetch has ended.                 *)
(***************************************************************************)
EXTENDS MuxCache

MCTTL == [k \in Keys |-> IF k = "playlist" THEN 0 ELSE 1]
=============================================================================
