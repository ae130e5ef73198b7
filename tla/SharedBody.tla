----------------------------- MODULE SharedBody -----------------------------
(***************************************************************************)
(* What the memory tier promises about one upstream response that several  *)
(* requests share (mux.go:18-22): one log that only grows along the        *)
(* upstream body, is sealed exactly once as complete or failed, and is     *)
(* read by any number of readers, each at its own pace, that see the log   *)
(* from its first byte, in order, with nothing lost or repeated.  The body *)
(* is handed to the disk tier at most once, and only when it is complete.  *)
(*                                                                         *)
(* MuxEntry implements this with a mutex, a condition variable and one     *)
(* fetch goroutine; see the refinement mapping there.                      *)
(***************************************************************************)
EXTENDS Naturals, Sequences

CONSTANTS Readers, \* the requests attached to the response
          Body     \* the bytes upstream sends

VARIABLES log,     \* the bytes shared so far
          verdict, \* "open", or how the fetch ended
          phase,   \* what each reader is doing
          got,     \* the bytes each reader's client has been sent
          stored   \* the bodies handed to the disk tier

vars == <<log, verdict, phase, got, stored>>

Init == /\ log = <<>>
        /\ verdict = "open"
        /\ phase = [r \in Readers |-> "waiting"]
        /\ got = [r \in Readers |-> <<>>]
        /\ stored = <<>>

(* Upstream sends some more of the body. *)
Grow == /\ verdict = "open"
        /\ \E n \in Len(log) .. Len(Body) : log' = SubSeq(Body, 1, n)
        /\ UNCHANGED <<verdict, phase, got, stored>>

(* The fetch ends; it may only call itself complete with the whole body. *)
Seal == /\ verdict = "open"
        /\ verdict' \in {"complete", "failed"}
        /\ verdict' = "complete" => log = Body
        /\ UNCHANGED <<log, phase, got, stored>>

(* The complete body is handed over, once. *)
Store == /\ verdict = "complete"
         /\ stored = <<>>
         /\ stored' = <<Body>>
         /\ UNCHANGED <<log, verdict, phase, got>>

(* A reader starts to send the log to its client. *)
Begin(r) == /\ phase[r] = "waiting"
            /\ phase' = [phase EXCEPT ![r] = "reading"]
            /\ UNCHANGED <<log, verdict, got, stored>>

(* A reader answers with an error instead: only once the fetch is over, and
   before its client was sent anything. *)
Reject(r) == /\ phase[r] = "waiting"
             /\ verdict # "open"
             /\ phase' = [phase EXCEPT ![r] = "rejected"]
             /\ UNCHANGED <<log, verdict, got, stored>>

(* A reader catches up with some or all of the log. *)
Advance(r) == /\ phase[r] = "reading"
              /\ \E n \in Len(got[r]) .. Len(log) :
                    got' = [got EXCEPT ![r] = SubSeq(log, 1, n)]
              /\ UNCHANGED <<log, verdict, phase, stored>>

(* A reader ends its response normally: the fetch is over and its client
   has been sent all there will ever be. *)
Complete(r) == /\ phase[r] = "reading"
               /\ verdict # "open"
               /\ got' = [got EXCEPT ![r] = log]
               /\ phase' = [phase EXCEPT ![r] = "ended"]
               /\ UNCHANGED <<log, verdict, stored>>

(* A reader's client goes away; nobody else notices. *)
Leave(r) == /\ phase[r] = "reading"
            /\ phase' = [phase EXCEPT ![r] = "gone"]
            /\ UNCHANGED <<log, verdict, got, stored>>

Next == \/ Grow
        \/ Seal
        \/ Store
        \/ \E r \in Readers : \/ Begin(r)
                              \/ Reject(r)
                              \/ Advance(r)
                              \/ Complete(r)
                              \/ Leave(r)

Spec == Init /\ [][Next]_vars
=============================================================================
