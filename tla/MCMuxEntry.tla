----------------------------- MODULE MCMuxEntry -----------------------------
(***************************************************************************)
(* A body of three distinct bytes, so that a loss, a repetition or a swap  *)
(* shows; reads of up to two of them, so that the body may arrive in       *)
(* several pieces and the last piece alone, with, or before its EOF.       *)
(***************************************************************************)
EXTENDS MuxEntry

MCBody == <<1, 2, 3>>
=============================================================================
