------------------------------ MODULE MuxEntry ------------------------------
(***************************************************************************)
(* One muxEntry of the memory tier (mux.go:56-226) and the requests that   *)
(* follow it (stream.go:116-152 and 228-243).                              *)
(*                                                                         *)
(* A fetch goroutine, detached from every request, downloads the upstream  *)
(* body into a growing buffer.  Requests wait on the entry's condition     *)
(* variable, for the response header, for more bytes, or for the end, and  *)
(* copy the buffer to their clients at their own pace.  Every critical     *)
(* section of entry.mu is one action; a chunk taken under the lock is      *)
(* written to the client without it, as is the body handed to persist.     *)
(*                                                                         *)
(* sync.Cond: Wait adds the caller to "waiting" in the step that tested    *)
(* the predicate, Broadcast empties the set, and a woken goroutine tests   *)
(* again.                                                                  *)
(***************************************************************************)
EXTENDS Integers, Sequences, SequencesExt

CONSTANTS Clients, \* requests that may use the entry
          Steady,  \* the clients among them that keep reading their response
          Body,    \* the bytes upstream would send
          MaxRead, \* the longest piece a single Read returns (mux.go:106)
          Statuses \* the status codes upstream may answer with

OK == 200        \* http.StatusOK
NoStatus == 0    \* the zero value of muxEntry.status
NoLength == -1       \* no Content-Length header

ASSUME MuxEntryAssumption ==
    /\ Steady \subseteq Clients
    /\ Body \in Seq(Nat)
    /\ MaxRead \in Nat \ {0}
    /\ Statuses \subseteq Nat \ {NoStatus}

VARIABLES
    \* the fetch goroutine
    pc,        \* where it is
    deadline,  \* the context's muxFetchLimit has passed
    pos,       \* how much of Body has been read from the connection
    chunk,     \* the bytes of the last Read, not yet in buf
    rerr,      \* the error of the last Read or Do
    \* the entry
    playlist,  \* the entry is a media playlist, not a segment
    persist,   \* the entry has a persist callback
    buf, ready, done, err, status,
    persisted, \* the bodies given to persist
    \* the requests
    cpc,       \* where each request is
    waiting,   \* the requests inside cond.Wait
    hand,      \* the chunk a request has taken and not yet written
    sawDone,   \* e.done as the request saw it when it took the chunk
    delivered, \* the bytes written to the request's client
    code,      \* the status code sent to the client
    clen       \* the Content-Length sent to the client

fetchVars == <<pc, deadline, pos, chunk, rerr>>
entryVars == <<playlist, persist, buf, ready, done, err, status, persisted>>
clientVars == <<cpc, waiting, hand, sawDone, delivered, code, clen>>
vars == <<fetchVars, entryVars, clientVars>>

Init ==
    /\ pc = "request"
    /\ deadline = FALSE
    /\ pos = 0
    /\ chunk = <<>>
    /\ rerr = "none"
    /\ playlist \in BOOLEAN
    /\ persist \in BOOLEAN
    /\ playlist => ~persist
    /\ buf = <<>>
    /\ ready = FALSE
    /\ done = FALSE
    /\ err = "none"
    /\ status = NoStatus
    /\ persisted = <<>>
    /\ cpc = [c \in Clients |-> "idle"]
    /\ waiting = {}
    /\ hand = [c \in Clients |-> <<>>]
    /\ sawDone = [c \in Clients |-> FALSE]
    /\ delivered = [c \in Clients |-> <<>>]
    /\ code = [c \in Clients |-> NoStatus]
    /\ clen = [c \in Clients |-> NoLength]

-----------------------------------------------------------------------------
(* The fetch goroutine.                                                    *)

(* e.cond.Broadcast() *)
Broadcast == waiting' = {}

(* Faulty variant: the fetch has no time limit. *)
ExpireNever == FALSE

(* The context given to the request expires. *)
Expire ==
    /\ pc \in {"request", "read", "append"}
    /\ ~deadline
    /\ deadline' = TRUE
    /\ UNCHANGED <<pc, pos, chunk, rerr, entryVars, clientVars>>

(* The request cannot be built, or Do fails. *)
RequestFails ==
    /\ pc = "request"
    /\ rerr' = "error"
    /\ pc' = "finish"
    /\ UNCHANGED <<deadline, pos, chunk, entryVars, clientVars>>

(* Do returns: the header is published.  contentType and finalURL are set in
   the same critical section as status. *)
PublishHeader ==
    /\ pc = "request"
    /\ ~deadline
    /\ status' \in Statuses
    /\ ready' = TRUE
    /\ Broadcast
    /\ pc' = "read"
    /\ UNCHANGED <<deadline, pos, chunk, rerr, playlist, persist, buf, done, err, persisted,
                   cpc, hand, sawDone, delivered, code, clen>>

(* resp.Body.Read returns the next n bytes of the body, possibly together
   with the end of it or an error.  Past the deadline it cannot return
   without one. *)
Read ==
    /\ pc = "read"
    /\ \E n \in 0 .. MaxRead, e \in {"none", "eof", "error"} :
        /\ pos + n <= Len(Body)
        /\ e = "eof" => pos + n = Len(Body)
        /\ e = "none" => ~deadline
        /\ chunk' = SubSeq(Body, pos + 1, pos + n)
        /\ pos' = pos + n
        /\ rerr' = e
    /\ pc' = "append"
    /\ UNCHANGED <<deadline, entryVars, clientVars>>

(* if n > 0 { lock; append; Broadcast; unlock }, then the error is looked at *)
AppendBytes(bytes) ==
    /\ pc = "append"
    /\ buf' = buf \o bytes
    /\ IF bytes # <<>> THEN Broadcast ELSE UNCHANGED waiting
    /\ chunk' = <<>>
    /\ pc' = IF rerr = "none" THEN "read" ELSE "finish"
    /\ UNCHANGED <<deadline, pos, rerr, playlist, persist, ready, done, err, status, persisted,
                   cpc, hand, sawDone, delivered, code, clen>>

(* Faulty variant: the error of the Read is looked at before its bytes. *)
AppendErrorFirst == AppendBytes(IF rerr = "none" THEN chunk ELSE <<>>)

(* The bytes of the Read join the buffer before its error is looked at. *)
AppendChunk == AppendBytes(chunk)

(* finish with error e; next is where the goroutine goes after the unlock. *)
FinishWith(e, next) ==
    /\ pc = "finish"
    /\ done' = TRUE
    /\ err' = e
    /\ pc' = next
    /\ UNCHANGED <<deadline, pos, chunk, rerr, playlist, persist, buf, ready, status, persisted,
                   cpc, hand, sawDone, delivered, code, clen>>

(* The end of the body is not an error. *)
FinalError == IF rerr = "error" THEN "error" ELSE "none"

(* Where a fetch goes whose body is persisted if "success" says so. *)
After(success) == IF success /\ persist THEN "persist" ELSE "stop"

(* finish decides the success of the fetch under the lock. *)
Success == FinalError = "none" /\ status = OK

(* Faulty variants: nobody is woken; io.EOF is kept as an error; the status
   is not looked at; the flag is raised in one critical section and the error
   set in the next. *)
FinishSilently == FinishWith(FinalError, After(Success)) /\ UNCHANGED waiting
FinishKeepingEOF == FinishWith(rerr, After(Success)) /\ Broadcast
FinishAnyStatus == FinishWith(FinalError, After(FinalError = "none")) /\ Broadcast
FinishInTwoSteps == Broadcast /\ IF done THEN FinishWith(FinalError, After(Success))
                                         ELSE FinishWith(err, "finish")

(* finish: seal the entry and wake everybody. *)
Finish == FinishWith(FinalError, After(Success)) /\ Broadcast

(* The callback runs after the lock is released, on the buffer that was
   captured under it. *)
Persist ==
    /\ pc = "persist"
    /\ persisted' = Append(persisted, buf)
    /\ pc' = "stop"
    /\ UNCHANGED <<deadline, pos, chunk, rerr, playlist, persist, buf, ready, done, err, status,
                   clientVars>>

-----------------------------------------------------------------------------
(* The requests.                                                           *)

(* The part of expired() that does not depend on time: a failed entry is
   never handed to another request. *)
Failed == done /\ err = "error"

(* A request obtains the entry from peek or get. *)
Join(c) ==
    /\ cpc[c] = "idle"
    /\ ~Failed
    /\ cpc' = [cpc EXCEPT ![c] = IF playlist THEN "waitDone" ELSE "waitHeader"]
    /\ UNCHANGED <<fetchVars, entryVars, waiting, hand, sawDone, delivered, code, clen>>

(* for !e.ready && !e.done { e.cond.Wait() }, and the same for done only *)
Sleep(c) ==
    /\ c \notin waiting
    /\ \/ cpc[c] = "waitHeader" /\ ~ready /\ ~done
       \/ cpc[c] = "waitDone" /\ ~done
       \/ cpc[c] = "serve" /\ Len(buf) = Len(delivered[c]) /\ ~done
    /\ waiting' = waiting \cup {c}
    /\ UNCHANGED <<fetchVars, entryVars, cpc, hand, sawDone, delivered, code, clen>>

(* waitHeader returns: with an error the client gets 502. *)
WaitHeader(c) ==
    /\ cpc[c] = "waitHeader"
    /\ c \notin waiting
    /\ ready \/ done
    /\ cpc' = [cpc EXCEPT ![c] = IF err = "none" THEN "header" ELSE "rejected"]
    /\ UNCHANGED <<fetchVars, entryVars, waiting, hand, sawDone, delivered, code, clen>>

(* The header of a response, with a Content-Length if its length is known. *)
SendHeaderIf(c, known) ==
    /\ cpc[c] = "header"
    /\ clen' = [clen EXCEPT ![c] = IF known THEN Len(buf) ELSE NoLength]
    /\ code' = [code EXCEPT ![c] = status]
    /\ cpc' = [cpc EXCEPT ![c] = "serve"]
    /\ UNCHANGED <<fetchVars, entryVars, waiting, hand, sawDone, delivered>>

(* Faulty variant: the length is sent before the fetch is done. *)
SendHeaderEarly(c) == SendHeaderIf(c, err = "none")

(* lengthIfDone and WriteHeader. *)
SendHeader(c) == SendHeaderIf(c, done /\ err = "none")

(* serve takes what the buffer holds from byte "first" on. *)
TakeFrom(c, first) ==
    /\ cpc[c] = "serve"
    /\ c \notin waiting
    /\ Len(buf) # Len(delivered[c]) \/ done
    /\ hand' = [hand EXCEPT ![c] = SubSeq(buf, first, Len(buf))]
    /\ sawDone' = [sawDone EXCEPT ![c] = done]
    /\ cpc' = [cpc EXCEPT ![c] = "write"]
    /\ UNCHANGED <<fetchVars, entryVars, waiting, delivered, code, clen>>

(* Faulty variant: the last byte is taken again. *)
TakeOneBack(c) == TakeFrom(c, IF delivered[c] = <<>> THEN 1 ELSE Len(delivered[c]))

(* serve takes what lies beyond its offset. *)
Take(c) == TakeFrom(c, Len(delivered[c]) + 1)

(* serve writes its chunk, and returns or goes on. *)
WriteThen(c, return) ==
    /\ cpc[c] = "write"
    /\ delivered' = [delivered EXCEPT ![c] = @ \o hand[c]]
    /\ hand' = [hand EXCEPT ![c] = <<>>]
    /\ cpc' = [cpc EXCEPT ![c] = IF return THEN "ended" ELSE "serve"]
    /\ UNCHANGED <<fetchVars, entryVars, waiting, sawDone, code, clen>>

(* Faulty variant: done is looked at after the write. *)
WriteThenTestDone(c) == WriteThen(c, done)

(* With nothing left of a buffer that was done serve returns. *)
Write(c) == WriteThen(c, sawDone[c] /\ hand[c] = <<>>)

(* The client is gone: its request returns, nothing else changes. *)
WriteFails(c) ==
    /\ cpc[c] \in {"write", "playlist"}
    /\ hand[c] # <<>>
    /\ cpc' = [cpc EXCEPT ![c] = "gone"]
    /\ UNCHANGED <<fetchVars, entryVars, waiting, hand, sawDone, delivered, code, clen>>

(* handleStream after waitDone: a failed fetch or a status other than 200
   is answered with 502. *)
WaitDone(c) ==
    /\ cpc[c] = "waitDone"
    /\ c \notin waiting
    /\ done
    /\ IF err = "none" /\ status = OK
         THEN /\ cpc' = [cpc EXCEPT ![c] = "playlist"]
              /\ hand' = [hand EXCEPT ![c] = buf]
              /\ code' = [code EXCEPT ![c] = OK]
         ELSE /\ cpc' = [cpc EXCEPT ![c] = "rejected"]
              /\ UNCHANGED <<hand, code>>
    /\ UNCHANGED <<fetchVars, entryVars, waiting, sawDone, delivered, clen>>

(* handleStream writes the whole playlist, rewritten, in one call. *)
WritePlaylist(c) ==
    /\ cpc[c] = "playlist"
    /\ delivered' = [delivered EXCEPT ![c] = hand[c]]
    /\ hand' = [hand EXCEPT ![c] = <<>>]
    /\ cpc' = [cpc EXCEPT ![c] = "ended"]
    /\ UNCHANGED <<fetchVars, entryVars, waiting, sawDone, code, clen>>

-----------------------------------------------------------------------------
Fetch == RequestFails \/ PublishHeader \/ Read \/ AppendChunk \/ Finish \/ Persist

Request(c) ==
    \/ Join(c) \/ Sleep(c)
    \/ WaitHeader(c) \/ SendHeader(c) \/ Take(c) \/ Write(c) \/ WriteFails(c)
    \/ WaitDone(c) \/ WritePlaylist(c)

(* Everything is over: the goroutine has returned and so has every request. *)
Terminated ==
    /\ pc = "stop"
    /\ \A c \in Clients : cpc[c] \in {"idle", "ended", "rejected", "gone"}
    /\ UNCHANGED vars

Next == Expire \/ Fetch \/ (\E c \in Clients : Request(c)) \/ Terminated

(* Upstream owes us nothing: Do and Read need not return until the deadline
   of the context has passed, which it does; from then on they return. *)
Aborted == deadline /\ (RequestFails \/ Read)

(* What a request does once it has the entry.  A client that stops reading
   blocks its own Write for good: only Steady clients are fair. *)
Serving(c) ==
    \/ WaitHeader(c) \/ SendHeader(c) \/ Take(c) \/ Write(c)
    \/ WaitDone(c) \/ WritePlaylist(c)

Fairness ==
    /\ WF_vars(Expire)
    /\ WF_vars(Aborted)
    /\ WF_vars(AppendChunk \/ Finish \/ Persist)
    /\ \A c \in Steady : WF_vars(Serving(c))

Spec == Init /\ [][Next]_vars /\ Fairness

-----------------------------------------------------------------------------
(* The type invariant. *)
TypeOK ==
    /\ pc \in {"request", "read", "append", "finish", "persist", "stop"}
    /\ deadline \in BOOLEAN
    /\ pos \in 0 .. Len(Body)
    /\ chunk \in Seq(Nat)
    /\ rerr \in {"none", "eof", "error"}
    /\ playlist \in BOOLEAN /\ persist \in BOOLEAN
    /\ buf \in Seq(Nat)
    /\ ready \in BOOLEAN /\ done \in BOOLEAN
    /\ err \in {"none", "error"}
    /\ status \in Statuses \cup {NoStatus}
    /\ persisted \in Seq(Seq(Nat))
    /\ cpc \in [Clients -> {"idle", "waitHeader", "header", "serve", "write", "waitDone",
                            "playlist", "ended", "rejected", "gone"}]
    /\ waiting \subseteq Clients
    /\ hand \in [Clients -> Seq(Nat)]
    /\ sawDone \in [Clients -> BOOLEAN]
    /\ delivered \in [Clients -> Seq(Nat)]
    /\ code \in [Clients -> Nat]
    /\ clen \in [Clients -> Nat \cup {NoLength}]

(* A request asleep on the condition variable still has what it waits for
   ahead of it: no header, byte or end was published that it was not woken
   for (Wait in mux.go:160, 169 and 191 against the Broadcasts). *)
NoLostWakeup ==
    \A c \in waiting :
        /\ ~done
        /\ \/ cpc[c] = "waitHeader" /\ ~ready
           \/ cpc[c] = "waitDone"
           \/ cpc[c] = "serve" /\ Len(delivered[c]) = Len(buf)

(* What a client has been sent, with what its request holds in hand, is a
   prefix of the shared buffer, and the buffer a prefix of the body: late
   joiners, slow readers and reads that return bytes with an error lose
   nothing, repeat nothing and reorder nothing (serve, mux.go:185-209). *)
InOrder ==
    /\ IsPrefix(buf, Body)
    /\ \A c \in Clients : IsPrefix(delivered[c] \o hand[c], buf)

(* A response that ends normally was the whole buffer of a finished fetch,
   which is the whole body unless that fetch failed: serve never leaves
   between two chunks, and the chunk taken with the last Read is not cut. *)
EndedIsWhole ==
    \A c \in Clients : cpc[c] = "ended" =>
        /\ done
        /\ delivered[c] = buf
        /\ err = "none" => delivered[c] = Body

(* serveMuxEntry reads status and contentType without the lock: by then they
   are set, and the header it sends is the upstream one; a Content-Length,
   sent while other requests are still following, is that of the body. *)
HonestHeader ==
    \A c \in Clients :
        /\ cpc[c] \in {"header", "serve", "write", "playlist", "ended", "gone"} => ready
        /\ code[c] # NoStatus => code[c] = status
        /\ clen[c] # NoLength => clen[c] = Len(Body)

(* The disk tier gets a body at most once, and only the complete body of a
   successful segment fetch with status 200 (mux.go:60 and 143-154). *)
PersistedIsComplete ==
    persisted # <<>> =>
        /\ persisted = <<Body>>
        /\ done /\ err = "none" /\ status = OK
        /\ ~playlist

(* A finished entry is never written again: requests keep reading buf,
   status and err of it without the lock (mux.go:148, stream.go:142-151). *)
SealedForGood ==
    [][done => done' /\ UNCHANGED <<buf, err, ready, status>>]_vars

(* The goroutine returns, whatever upstream and the clients do: a stalled
   download is cut by muxFetchLimit, a stalled client does not hold it. *)
FetchEnds == <>[](pc = "stop" /\ done)

(* Every request whose client keeps reading is answered to its end, however
   many others stall, leave or arrive late. *)
SteadyClientsFinish ==
    \A c \in Steady :
        cpc[c] # "idle" ~> cpc[c] \in {"ended", "rejected", "gone"}

-----------------------------------------------------------------------------
(* The refinement: the entry is a shared body. *)
Verdict == CASE ~done -> "open"
             [] done /\ err = "none" -> "complete"
             [] done /\ err # "none" -> "failed"

Phase(c) == CASE cpc[c] \in {"idle", "waitHeader", "header", "waitDone"} -> "waiting"
              [] cpc[c] \in {"serve", "write", "playlist"} -> "reading"
              [] cpc[c] \in {"ended", "rejected", "gone"} -> cpc[c]

Shared == INSTANCE SharedBody
            WITH Readers <- Clients,
                 log <- buf,
                 verdict <- Verdict,
                 phase <- [c \in Clients |-> Phase(c)],
                 got <- delivered,
                 stored <- persisted

(* Seen through that mapping every behaviour of the entry is one that the
   memory tier promises (mux.go:18-22). *)
ImplementsSharedBody == Shared!Spec
=============================================================================
