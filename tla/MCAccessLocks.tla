--------------------------- MODULE MCAccessLocks ---------------------------
(***************************************************************************)
(* One address of each kind; one ASN that announces addresses and one that *)
(* announces none.                                                         *)
(***************************************************************************)
EXTENDS AccessLocks

MCAnnounced == [a \in ASNs |-> IF a = "AS577" THEN {"isp"} ELSE {}]
=============================================================================
