----------------------------- MODULE MCServing -----------------------------
(***************************************************************************)
(* Two players that poll one playlist, one of which also asks for its      *)
(* segment, and a stream that moves once.  Both tiers are on, or one, or   *)
(* none; playlists are redirected where the memory tier is off, since what *)
(* a redirect changes does not depend on the tiers.                        *)
(***************************************************************************)
EXTENDS Serving

MCSetups ==
    {[on |-> {"memory", "disk"}, redirected |-> FALSE],
     [on |-> {"disk"}, redirected |-> TRUE],
     [on |-> {}, redirected |-> FALSE]}
=============================================================================
