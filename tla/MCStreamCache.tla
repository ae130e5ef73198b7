--------------------------- MODULE MCStreamCache ---------------------------
(***************************************************************************)
(* One stream and two resolutions, so that a master may list some, all or  *)
(* none of them, and two requests of any kind.  What requests of different *)
(* streams share is the snapshot; a request of the player page refreshes   *)
(* and prunes it just as one of another stream would.                      *)
(***************************************************************************)
EXTENDS StreamCache, TLC

MCSymmetry == Permutations(Requests) \cup Permutations(Resolutions)
=============================================================================
