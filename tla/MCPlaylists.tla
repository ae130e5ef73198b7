---------------------------- MODULE MCPlaylists ----------------------------
(***************************************************************************)
(* Two resolutions, variants of two bandwidths, and three hosts, of which  *)
(* one is not allowed; the .cfg files give them as model values.           *)
(***************************************************************************)
EXTENDS Playlists
=============================================================================
