---------------------------- MODULE MCShortURLs ----------------------------
(***************************************************************************)
(* Three URLs whose hashes end in the same digit, two of them in the same  *)
(* two digits: every length that register may try is taken by some order.  *)
(***************************************************************************)
EXTENDS ShortURLs

MCHash == [u \in URLs |-> CASE u = "sd" -> <<1, 1, 1>>
                            [] u = "hd" -> <<2, 1, 1>>
                            [] u = "4k" -> <<1, 2, 1>>]
=============================================================================
