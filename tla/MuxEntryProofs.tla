--------------------------- MODULE MuxEntryProofs ---------------------------
(***************************************************************************)
(* Proofs about MuxEntry, for any body, any clients, any read size and any *)
(* status codes: the inductive invariant IInv, one lemma for each action,  *)
(* the safety properties it implies, and the refinement of SharedBody.     *)
(***************************************************************************)
EXTENDS MuxEntry, SequenceTheorems, TLAPS

(* A prefix is no longer than the sequence and agrees with it everywhere. *)
LEMMA PrefixElements ==
    ASSUME NEW S, NEW s \in Seq(S), NEW t \in Seq(S)
    PROVE  IsPrefix(s, t) <=> /\ Len(s) <= Len(t)
                              /\ \A i \in 1 .. Len(s) : s[i] = t[i]
<1>1. SubSeq(s, 1, Len(s)) = s
  BY SubSeqFull
<1>2. ASSUME Len(s) <= Len(t)
      PROVE  /\ SubSeq(t, 1, Len(s)) \in Seq(S)
             /\ Len(SubSeq(t, 1, Len(s))) = Len(s)
             /\ \A i \in 1 .. Len(s) : SubSeq(t, 1, Len(s))[i] = t[i]
  BY <1>2, LenProperties, ElementOfSeq, SubSeqProperties
<1>3. QED
  BY <1>1, <1>2, SeqEqual DEF IsPrefix

(* A prefix stays one when the sequence grows at its end. *)
LEMMA PrefixConcat ==
    ASSUME NEW S, NEW s \in Seq(S), NEW t \in Seq(S), NEW u \in Seq(S), IsPrefix(s, t)
    PROVE  IsPrefix(s, t \o u)
<1>1. /\ Len(s) \in Nat /\ Len(t) \in Nat /\ Len(u) \in Nat
      /\ Len(s) <= Len(t)
      /\ \A i \in 1 .. Len(s) : s[i] = t[i]
  BY PrefixElements, LenProperties
<1>2. /\ t \o u \in Seq(S)
      /\ Len(t \o u) = Len(t) + Len(u)
      /\ \A i \in 1 .. Len(t) : (t \o u)[i] = t[i]
  BY <1>1, ConcatProperties
<1>3. Len(s) <= Len(t \o u) /\ \A i \in 1 .. Len(s) : s[i] = (t \o u)[i]
  BY <1>1, <1>2
<1>4. QED
  BY <1>2, <1>3, PrefixElements

(* Every sequence is a prefix of itself. *)
LEMMA PrefixReflexive ==
    ASSUME NEW S, NEW s \in Seq(S)
    PROVE  IsPrefix(s, s)
  BY PrefixElements, LenProperties

(* The first part of a prefix is a prefix. *)
LEMMA PrefixLeft ==
    ASSUME NEW S, NEW s \in Seq(S), NEW u \in Seq(S), NEW t \in Seq(S), IsPrefix(s \o u, t)
    PROVE  IsPrefix(s, t)
<1>1. /\ Len(s) \in Nat /\ Len(u) \in Nat /\ Len(t) \in Nat
      /\ s \o u \in Seq(S)
      /\ Len(s \o u) = Len(s) + Len(u)
      /\ \A i \in 1 .. Len(s) : (s \o u)[i] = s[i]
  BY LenProperties, ConcatProperties
<1> DEFINE w == s \o u
<1>2. /\ Len(w) <= Len(t)
      /\ \A i \in 1 .. Len(w) : w[i] = t[i]
  <2>1. w \in Seq(S) /\ IsPrefix(w, t)
    BY <1>1
  <2> HIDE DEF w
  <2>2. QED
    BY <2>1, PrefixElements
<1>3. Len(s) <= Len(t) /\ \A i \in 1 .. Len(s) : s[i] = t[i]
  BY <1>1, <1>2
<1>4. QED
  BY <1>3, PrefixElements

(* A prefix and what lies beyond it make up the sequence: what serve takes
   from its offset on completes what it has sent. *)
LEMMA PrefixRest ==
    ASSUME NEW S, NEW s \in Seq(S), NEW t \in Seq(S), IsPrefix(s, t)
    PROVE  /\ SubSeq(t, Len(s) + 1, Len(t)) \in Seq(S)
           /\ s \o SubSeq(t, Len(s) + 1, Len(t)) = t
<1>1. s = SubSeq(t, 1, Len(s)) /\ Len(s) <= Len(t)
  BY SubSeqFull DEF IsPrefix
<1>2. t = SubSeq(t, 1, Len(t))
  BY SubSeqFull
<1>3. SubSeq(t, 1, Len(s)) \o SubSeq(t, Len(s) + 1, Len(t)) = SubSeq(t, 1, Len(t))
  <2>1. /\ Len(s) \in Nat /\ Len(t) \in Nat
        /\ 1 \in 1 .. Len(t) + 1
        /\ Len(s) \in 1 - 1 .. Len(t)
        /\ Len(t) \in Len(s) .. Len(t)
    BY <1>1, LenProperties
  <2>2. QED
    BY <2>1, ConcatAdjacentSubSeq
<1>4. \A i \in Len(s) + 1 .. Len(t) : t[i] \in S
  BY LenProperties, ElementOfSeq
<1>5. SubSeq(t, Len(s) + 1, Len(t)) \in Seq(S)
  BY <1>4, LenProperties, SubSeqProperties
<1>6. QED
  BY <1>1, <1>2, <1>3, <1>5

(* The first p elements and the n elements after them are the first p + n:
   a Read continues where the one before it stopped. *)
LEMMA NextPiece ==
    ASSUME NEW S, NEW t \in Seq(S), NEW p \in 0 .. Len(t), NEW n \in Nat, p + n <= Len(t)
    PROVE  /\ SubSeq(t, p + 1, p + n) \in Seq(S)
           /\ SubSeq(t, 1, p) \o SubSeq(t, p + 1, p + n) = SubSeq(t, 1, p + n)
<1>1. \A i \in p + 1 .. p + n : t[i] \in S
  BY LenProperties, ElementOfSeq
<1>2. SubSeq(t, p + 1, p + n) \in Seq(S)
  BY <1>1, LenProperties, SubSeqProperties
<1>3. QED
  BY <1>2, LenProperties, ConcatAdjacentSubSeq

(* The first part of an initial segment is a prefix of the whole. *)
LEMMA PrefixOfInitial ==
    ASSUME NEW S, NEW s \in Seq(S), NEW u \in Seq(S), NEW t \in Seq(S), NEW p \in 0 .. Len(t),
           s \o u = SubSeq(t, 1, p)
    PROVE  IsPrefix(s, t)
<1>1. \A i \in 1 .. p : t[i] \in S
  BY LenProperties, ElementOfSeq
<1>2. SubSeq(t, 1, p) \in Seq(S) /\ Len(SubSeq(t, 1, p)) = p
      /\ \A i \in 1 .. p : SubSeq(t, 1, p)[i] = t[i]
  BY <1>1, LenProperties, SubSeqProperties
<1>3. /\ Len(s) \in Nat /\ Len(u) \in Nat
      /\ Len(s \o u) = Len(s) + Len(u)
      /\ \A i \in 1 .. Len(s) : (s \o u)[i] = s[i]
  BY LenProperties, ConcatProperties
<1>4. Len(s) <= p /\ \A i \in 1 .. Len(s) : s[i] = t[i]
  BY <1>2, <1>3
<1>5. QED
  BY <1>4, PrefixElements, LenProperties

(* A prefix that begins with s is an initial segment at least as long as s. *)
LEMMA PrefixExtension ==
    ASSUME NEW S, NEW s \in Seq(S), NEW u \in Seq(S), NEW t \in Seq(S), IsPrefix(s \o u, t)
    PROVE  \E n \in Len(s) .. Len(t) : s \o u = SubSeq(t, 1, n)
<1>1. /\ Len(s) \in Nat /\ Len(u) \in Nat /\ Len(t) \in Nat
      /\ s \o u \in Seq(S)
      /\ Len(s \o u) = Len(s) + Len(u)
  BY LenProperties, ConcatProperties
<1>2. Len(s \o u) <= Len(t)
  BY DEF IsPrefix
<1>3. Len(s) + Len(u) \in Len(s) .. Len(t)
  BY <1>1, <1>2
<1>4. s \o u = SubSeq(t, 1, Len(s) + Len(u))
  BY <1>1, SubSeqFull DEF IsPrefix
<1>5. QED
  BY <1>3, <1>4

-----------------------------------------------------------------------------

(* What holds of the fetch goroutine and the entry it fills. *)
FetchInv ==
    /\ buf \o chunk = SubSeq(Body, 1, pos)
    /\ pc # "append" => chunk = <<>>
    /\ pc = "request" => rerr = "none"
    /\ pc \in {"read", "append"} => ready
    /\ ~ready => status = NoStatus
    /\ ready => pc # "request" /\ status # NoStatus
    /\ pc \in {"request", "read"} => rerr = "none"
    /\ pc \in {"finish", "persist", "stop"} => rerr # "none"
    /\ rerr = "eof" => pos = Len(Body) /\ ready
    /\ done <=> pc \in {"persist", "stop"}
    /\ err = IF done THEN FinalError ELSE "none"
    /\ pc = "persist" => Success /\ persist
    /\ pc # "stop" => persisted = <<>>
    /\ persisted # <<>> => persisted = <<buf>> /\ Success /\ persist
    /\ playlist => ~persist

(* What holds of each request. *)
RequestInv(c) ==
    /\ IsPrefix(delivered[c] \o hand[c], buf)
    /\ cpc[c] \in {"idle", "waitHeader", "header", "waitDone", "rejected"} =>
          delivered[c] = <<>> /\ hand[c] = <<>> /\ code[c] = NoStatus /\ clen[c] = NoLength
    /\ cpc[c] \in {"header", "serve", "write", "playlist", "ended", "gone"} => ready
    /\ cpc[c] \in {"serve", "ended"} => hand[c] = <<>>
    /\ cpc[c] = "write" /\ sawDone[c] => done /\ delivered[c] \o hand[c] = buf
    /\ cpc[c] = "playlist" => done /\ err = "none" /\ hand[c] = buf /\ delivered[c] = <<>>
    /\ cpc[c] = "ended" => done /\ delivered[c] = buf
    /\ code[c] # NoStatus => code[c] = status
    /\ clen[c] # NoLength => done /\ err = "none" /\ clen[c] = Len(buf)

IInv ==
    /\ TypeOK
    /\ FetchInv
    /\ \A c \in Clients : RequestInv(c)
    /\ NoLostWakeup

(* A new entry that nobody has asked for yet (newMuxEntry). *)
LEMMA InitInv == Init => IInv
<1> SUFFICES ASSUME Init PROVE IInv
  OBVIOUS
<1> USE MuxEntryAssumption DEF Init
<1>1. TypeOK
  <2>1. <<>> \in Seq(Nat) /\ <<>> \in Seq(Seq(Nat)) /\ 0 \in 0 .. Len(Body)
    BY EmptySeq, LenProperties
  <2>2. QED
    BY <2>1 DEF TypeOK, NoStatus, NoLength
<1>2. FetchInv
  <2>1. <<>> \o <<>> = SubSeq(Body, 1, 0)
    BY SubSeqEmpty, EmptySeq, ConcatEmptySeq
  <2>2. QED
    BY <2>1 DEF FetchInv, NoStatus
<1>3. ASSUME NEW c \in Clients PROVE RequestInv(c)
  <2>1. IsPrefix(<<>> \o <<>>, <<>>)
    <3>1. <<>> \in Seq(Nat) /\ <<>> \o <<>> = <<>>
      BY EmptySeq, ConcatEmptySeq
    <3>2. QED
      BY <3>1, PrefixReflexive
  <2>2. QED
    BY <2>1 DEF RequestInv, NoStatus, NoLength
<1>4. NoLostWakeup
  BY DEF NoLostWakeup
<1>5. QED
  BY <1>1, <1>2, <1>3, <1>4 DEF IInv

(* The deadline of the context touches neither buffer nor requests. *)
LEMMA ExpireInv == IInv /\ Expire => IInv'
<1> SUFFICES ASSUME IInv, Expire PROVE IInv'
  OBVIOUS
<1> USE MuxEntryAssumption DEF IInv, Expire, fetchVars, entryVars, clientVars
<1>1. TypeOK'
  BY DEF TypeOK
<1>2. FetchInv'
  BY DEF TypeOK, FetchInv, FinalError, Success, NoStatus
<1>3. ASSUME NEW c \in Clients PROVE RequestInv(c)'
  BY DEF TypeOK, FetchInv, RequestInv, NoStatus, NoLength
<1>4. NoLostWakeup'
  BY DEF TypeOK, FetchInv, NoLostWakeup
<1>5. QED
  BY <1>1, <1>2, <1>3, <1>4

(* A fetch whose request fails still owes the entry its end. *)
LEMMA RequestFailsInv == IInv /\ RequestFails => IInv'
<1> SUFFICES ASSUME IInv, RequestFails PROVE IInv'
  OBVIOUS
<1> USE MuxEntryAssumption DEF IInv, RequestFails, fetchVars, entryVars, clientVars
<1>1. TypeOK'
  BY DEF TypeOK
<1>2. FetchInv'
  BY DEF TypeOK, FetchInv, FinalError, Success, NoStatus
<1>3. ASSUME NEW c \in Clients PROVE RequestInv(c)'
  BY DEF TypeOK, FetchInv, RequestInv, NoStatus, NoLength
<1>4. NoLostWakeup'
  BY DEF TypeOK, FetchInv, NoLostWakeup
<1>5. QED
  BY <1>1, <1>2, <1>3, <1>4

(* The header is published once, and wakes everybody who waits for it. *)
LEMMA PublishHeaderInv == IInv /\ PublishHeader => IInv'
<1> SUFFICES ASSUME IInv, PublishHeader PROVE IInv'
  OBVIOUS
<1> USE MuxEntryAssumption DEF IInv, PublishHeader, Broadcast, fetchVars, entryVars, clientVars
<1>1. TypeOK'
  BY DEF TypeOK
<1>2. FetchInv'
  BY DEF TypeOK, FetchInv, FinalError, Success, NoStatus
<1>3. ASSUME NEW c \in Clients PROVE RequestInv(c)'
  BY DEF TypeOK, FetchInv, RequestInv, NoStatus, NoLength
<1>4. NoLostWakeup'
  BY DEF TypeOK, FetchInv, NoLostWakeup
<1>5. QED
  BY <1>1, <1>2, <1>3, <1>4

(* What is in buf and in chunk together is what was read of the body. *)
LEMMA ReadInv == IInv /\ Read => IInv'
<1> SUFFICES ASSUME IInv, Read PROVE IInv'
  OBVIOUS
<1>0. PICK n \in 0 .. MaxRead, e \in {"none", "eof", "error"} :
         /\ pos + n <= Len(Body)
         /\ e = "eof" => pos + n = Len(Body)
         /\ chunk' = SubSeq(Body, pos + 1, pos + n)
         /\ pos' = pos + n
         /\ rerr' = e
  BY DEF Read
<1>1. TypeOK'
  <2>1. /\ n \in Nat /\ Body \in Seq(Nat) /\ Len(Body) \in Nat
        /\ pos \in 0 .. Len(Body) /\ pos + n <= Len(Body)
    BY <1>0, MuxEntryAssumption, LenProperties DEF IInv, TypeOK
  <2>2. chunk' \in Seq(Nat)
    BY <1>0, <2>1, NextPiece
  <2>3. pos' \in 0 .. Len(Body) /\ rerr' \in {"none", "eof", "error"}
    BY <1>0, <2>1
  <2>4. pc' = "append" /\ UNCHANGED <<deadline, entryVars, clientVars>>
    BY DEF Read
  <2>5. QED
    BY <2>2, <2>3, <2>4 DEF IInv, TypeOK, entryVars, clientVars
<1> USE MuxEntryAssumption DEF IInv, Read, fetchVars, entryVars, clientVars
<1>2. FetchInv'
  <2>2. buf = SubSeq(Body, 1, pos)
    BY ConcatEmptySeq DEF TypeOK, FetchInv
  <2>3. buf' \o chunk' = SubSeq(Body, 1, pos')
    <3>1. pos \in 0 .. Len(Body) /\ n \in Nat /\ pos + n <= Len(Body)
      BY <1>0 DEF TypeOK
    <3>2. Body \in Seq(Nat) /\ buf' = buf
      OBVIOUS
    <3> HIDE MuxEntryAssumption DEF IInv, Read
    <3>4. SubSeq(Body, 1, pos) \o SubSeq(Body, pos + 1, pos + n) = SubSeq(Body, 1, pos + n)
      BY <3>1, <3>2, NextPiece
    <3>3. QED
      BY <1>0, <2>2, <3>2, <3>4
  <2>4. QED
    BY <1>0, <2>3 DEF TypeOK, FetchInv, FinalError, Success, NoStatus
<1>3. ASSUME NEW c \in Clients PROVE RequestInv(c)'
  BY DEF TypeOK, FetchInv, RequestInv, NoStatus, NoLength
<1>4. NoLostWakeup'
  BY DEF TypeOK, FetchInv, NoLostWakeup
<1>5. QED
  BY <1>1, <1>2, <1>3, <1>4

(* Growing buf keeps every prefix of it one, and wakes whoever waits for bytes. *)
LEMMA AppendChunkInv == IInv /\ AppendChunk => IInv'
<1> SUFFICES ASSUME IInv, AppendChunk PROVE IInv'
  OBVIOUS
<1> USE MuxEntryAssumption DEF IInv, AppendChunk, AppendBytes, Broadcast, fetchVars, entryVars, clientVars
<1>1. TypeOK'
  BY DEF TypeOK
<1>2. FetchInv'
  BY DEF TypeOK, FetchInv, FinalError, Success, NoStatus
<1>3. ASSUME NEW c \in Clients PROVE RequestInv(c)'
  <2>1. IsPrefix(delivered[c] \o hand[c], buf)'
    BY PrefixConcat, ConcatProperties DEF TypeOK, RequestInv
  <2>2. ~done
    BY DEF FetchInv
  <2>3. QED
    BY <2>1, <2>2 DEF TypeOK, RequestInv
<1>4. NoLostWakeup'
  BY DEF TypeOK, FetchInv, NoLostWakeup
<1>5. QED
  BY <1>1, <1>2, <1>3, <1>4

(* The entry ends once, and with it every wait. *)
LEMMA FinishInv == IInv /\ Finish => IInv'
<1> SUFFICES ASSUME IInv, Finish PROVE IInv'
  OBVIOUS
<1> USE MuxEntryAssumption DEF IInv, Finish, FinishWith, FinalError, After, Success, Broadcast, fetchVars, entryVars, clientVars
<1>1. TypeOK'
  BY DEF TypeOK
<1>2. FetchInv'
  BY DEF TypeOK, FetchInv, FinalError, Success, NoStatus
<1>3. ASSUME NEW c \in Clients PROVE RequestInv(c)'
  BY DEF TypeOK, FetchInv, RequestInv, NoStatus, NoLength
<1>4. NoLostWakeup'
  BY DEF TypeOK, FetchInv, NoLostWakeup
<1>5. QED
  BY <1>1, <1>2, <1>3, <1>4

(* The body is handed over once, and the entry no longer changes. *)
LEMMA PersistInv == IInv /\ Persist => IInv'
<1> SUFFICES ASSUME IInv, Persist PROVE IInv'
  OBVIOUS
<1> USE MuxEntryAssumption DEF IInv, Persist, fetchVars, entryVars, clientVars
<1>1. TypeOK'
  BY DEF TypeOK
<1>2. FetchInv'
  BY DEF TypeOK, FetchInv, FinalError, Success, NoStatus
<1>3. ASSUME NEW c \in Clients PROVE RequestInv(c)'
  BY DEF TypeOK, FetchInv, RequestInv, NoStatus, NoLength
<1>4. NoLostWakeup'
  BY DEF TypeOK, FetchInv, NoLostWakeup
<1>5. QED
  BY <1>1, <1>2, <1>3, <1>4

(* A request that joins has sent nothing. *)
LEMMA JoinInv == ASSUME NEW c \in Clients, IInv, Join(c) PROVE IInv'
<1> USE MuxEntryAssumption DEF IInv, Join, Failed, fetchVars, entryVars, clientVars
<1>1. TypeOK'
  BY DEF TypeOK
<1>2. FetchInv'
  BY DEF TypeOK, FetchInv, FinalError, Success, NoStatus
<1>3. ASSUME NEW d \in Clients PROVE RequestInv(d)'
  BY DEF TypeOK, FetchInv, RequestInv, NoStatus, NoLength
<1>4. NoLostWakeup'
  BY DEF TypeOK, FetchInv, RequestInv, NoLostWakeup
<1>5. QED
  BY <1>1, <1>2, <1>3, <1>4

(* A request falls asleep only while what it waits for is still to come. *)
LEMMA SleepInv == ASSUME NEW c \in Clients, IInv, Sleep(c) PROVE IInv'
<1> USE MuxEntryAssumption DEF IInv, Sleep, fetchVars, entryVars, clientVars
<1>1. TypeOK'
  BY DEF TypeOK
<1>2. FetchInv'
  BY DEF TypeOK, FetchInv, FinalError, Success, NoStatus
<1>3. ASSUME NEW d \in Clients PROVE RequestInv(d)'
  BY DEF TypeOK, FetchInv, RequestInv, NoStatus, NoLength
<1>4. NoLostWakeup'
  BY DEF TypeOK, FetchInv, RequestInv, NoLostWakeup
<1>5. QED
  BY <1>1, <1>2, <1>3, <1>4

(* A request leaves waitHeader with the header set, or is rejected. *)
LEMMA WaitHeaderInv == ASSUME NEW c \in Clients, IInv, WaitHeader(c) PROVE IInv'
<1> USE MuxEntryAssumption DEF IInv, WaitHeader, fetchVars, entryVars, clientVars
<1>1. TypeOK'
  BY DEF TypeOK
<1>2. FetchInv'
  BY DEF TypeOK, FetchInv, FinalError, Success, NoStatus
<1>3. ASSUME NEW d \in Clients PROVE RequestInv(d)'
  <2>1. err = "none" => ready
    BY DEF TypeOK, FetchInv, FinalError
  <2>2. QED
    BY <2>1 DEF TypeOK, RequestInv
<1>4. NoLostWakeup'
  BY DEF TypeOK, FetchInv, RequestInv, NoLostWakeup
<1>5. QED
  BY <1>1, <1>2, <1>3, <1>4

(* The header sent is the published one; a length is sent only when it is final. *)
LEMMA SendHeaderInv == ASSUME NEW c \in Clients, IInv, SendHeader(c) PROVE IInv'
<1> USE MuxEntryAssumption DEF IInv, SendHeader, SendHeaderIf, fetchVars, entryVars, clientVars
<1>1. TypeOK'
  <2>1. Len(buf) \in Nat /\ status \in Nat
    BY LenProperties DEF TypeOK, NoStatus
  <2>2. QED
    BY <2>1 DEF TypeOK
<1>2. FetchInv'
  BY DEF TypeOK, FetchInv, FinalError, Success, NoStatus
<1>3. ASSUME NEW d \in Clients PROVE RequestInv(d)'
  BY DEF TypeOK, FetchInv, RequestInv, NoStatus, NoLength
<1>4. NoLostWakeup'
  BY DEF TypeOK, FetchInv, RequestInv, NoLostWakeup
<1>5. QED
  BY <1>1, <1>2, <1>3, <1>4

(* What serve takes continues what its client has been sent. *)
LEMMA TakeInv == ASSUME NEW c \in Clients, IInv, Take(c) PROVE IInv'
<1> DEFINE rest == SubSeq(buf, Len(delivered[c]) + 1, Len(buf))
<1>0. /\ rest \in Seq(Nat)
      /\ delivered[c] \o rest = buf
      /\ IsPrefix(delivered[c] \o rest, buf)
  <2>1. delivered[c] \in Seq(Nat) /\ hand[c] \in Seq(Nat) /\ buf \in Seq(Nat)
    BY DEF IInv, TypeOK
  <2>2. IsPrefix(delivered[c], buf)
    BY <2>1, PrefixLeft DEF IInv, RequestInv
  <2>3. rest \in Seq(Nat) /\ delivered[c] \o rest = buf
    BY <2>1, <2>2, PrefixRest
  <2>4. QED
    BY <2>1, <2>3, PrefixReflexive
<1> HIDE DEF rest
<1>t. /\ hand' = [hand EXCEPT ![c] = rest]
      /\ sawDone' = [sawDone EXCEPT ![c] = done]
      /\ cpc' = [cpc EXCEPT ![c] = "write"]
      /\ UNCHANGED <<fetchVars, entryVars, waiting, delivered, code, clen>>
  BY DEF Take, TakeFrom, rest
<1>1. TypeOK'
  <2>1. rest \in Seq(Nat) /\ done \in BOOLEAN
    BY <1>0 DEF IInv, TypeOK
  <2>2. QED
    BY <2>1, <1>t DEF IInv, TypeOK, fetchVars, entryVars
<1> USE MuxEntryAssumption DEF IInv, Take, TakeFrom, fetchVars, entryVars, clientVars
<1>2. FetchInv'
  BY DEF TypeOK, FetchInv, FinalError, Success, NoStatus
<1>3. ASSUME NEW d \in Clients PROVE RequestInv(d)'
  <2>1. CASE d # c
    BY <2>1 DEF TypeOK, RequestInv
  <2>2. CASE d = c
    BY <2>2, <1>0 DEF TypeOK, RequestInv, rest
  <2>3. QED
    BY <2>1, <2>2
<1>4. NoLostWakeup'
  BY DEF TypeOK, FetchInv, RequestInv, NoLostWakeup
<1>5. QED
  BY <1>1, <1>2, <1>3, <1>4

(* What serve had in hand has been sent; it returns only at the end of buf. *)
LEMMA WriteInv == ASSUME NEW c \in Clients, IInv, Write(c) PROVE IInv'
<1>1. TypeOK'
  <2>1. delivered[c] \in Seq(Nat) /\ hand[c] \in Seq(Nat)
    BY DEF IInv, TypeOK
  <2>2. delivered[c] \o hand[c] \in Seq(Nat) /\ <<>> \in Seq(Nat)
    BY <2>1, ConcatProperties, EmptySeq
  <2>3. /\ delivered' = [delivered EXCEPT ![c] = delivered[c] \o hand[c]]
        /\ hand' = [hand EXCEPT ![c] = <<>>]
        /\ \E p \in {"ended", "serve"} : cpc' = [cpc EXCEPT ![c] = p]
        /\ UNCHANGED <<fetchVars, entryVars, waiting, sawDone, code, clen>>
    BY DEF Write, WriteThen
  <2>4. QED
    BY <2>2, <2>3 DEF IInv, TypeOK, fetchVars, entryVars
<1> USE MuxEntryAssumption DEF IInv, Write, WriteThen, fetchVars, entryVars, clientVars
<1>2. FetchInv'
  BY DEF TypeOK, FetchInv, FinalError, Success, NoStatus
<1>3. ASSUME NEW d \in Clients PROVE RequestInv(d)'
  <2>1. CASE d # c
    BY <2>1 DEF TypeOK, RequestInv
  <2>2. CASE d = c
    <3>1. (delivered[c] \o hand[c]) \o <<>> = delivered[c] \o hand[c]
      BY ConcatProperties, ConcatEmptySeq DEF TypeOK
    <3>2. delivered'[c] = delivered[c] \o hand[c] /\ hand'[c] = <<>>
      BY DEF TypeOK
    <3>3. QED
      BY <2>2, <3>1, <3>2 DEF TypeOK, RequestInv
  <2>3. QED
    BY <2>1, <2>2
<1>4. NoLostWakeup'
  BY DEF TypeOK, FetchInv, RequestInv, NoLostWakeup
<1>5. QED
  BY <1>1, <1>2, <1>3, <1>4

(* A client that leaves changes nothing for the others. *)
LEMMA WriteFailsInv == ASSUME NEW c \in Clients, IInv, WriteFails(c) PROVE IInv'
<1> USE MuxEntryAssumption DEF IInv, WriteFails, fetchVars, entryVars, clientVars
<1>1. TypeOK'
  BY DEF TypeOK
<1>2. FetchInv'
  BY DEF TypeOK, FetchInv, FinalError, Success, NoStatus
<1>3. ASSUME NEW d \in Clients PROVE RequestInv(d)'
  BY DEF TypeOK, FetchInv, RequestInv, NoStatus, NoLength
<1>4. NoLostWakeup'
  BY DEF TypeOK, FetchInv, RequestInv, NoLostWakeup
<1>5. QED
  BY <1>1, <1>2, <1>3, <1>4

(* A playlist request leaves waitDone with the whole buffer, or is rejected. *)
LEMMA WaitDoneInv == ASSUME NEW c \in Clients, IInv, WaitDone(c) PROVE IInv'
<1>1. TypeOK'
  <2>1. UNCHANGED <<fetchVars, entryVars, waiting, sawDone, delivered, clen>>
    BY DEF WaitDone
  <2>2. CASE err = "none" /\ status = OK
    <3>1. /\ cpc' = [cpc EXCEPT ![c] = "playlist"]
          /\ hand' = [hand EXCEPT ![c] = buf]
          /\ code' = [code EXCEPT ![c] = 200]
      BY <2>2 DEF WaitDone, OK
    <3>2. QED
      BY <2>1, <3>1 DEF IInv, TypeOK, fetchVars, entryVars
  <2>3. CASE ~(err = "none" /\ status = OK)
    <3>1. cpc' = [cpc EXCEPT ![c] = "rejected"] /\ UNCHANGED <<hand, code>>
      BY <2>3 DEF WaitDone
    <3>2. QED
      BY <2>1, <3>1 DEF IInv, TypeOK, fetchVars, entryVars
  <2>4. QED
    BY <2>2, <2>3
<1> USE MuxEntryAssumption DEF IInv, WaitDone, fetchVars, entryVars, clientVars
<1>2. FetchInv'
  BY DEF TypeOK, FetchInv, FinalError, Success, NoStatus
<1>3. ASSUME NEW d \in Clients PROVE RequestInv(d)'
  <2>1. CASE d # c
    BY <2>1 DEF TypeOK, RequestInv
  <2>2. CASE d = c
    <3>1. <<>> \o buf = buf /\ IsPrefix(buf, buf)
      BY ConcatEmptySeq, PrefixReflexive DEF TypeOK
    <3>2. err = "none" => ready
      BY DEF TypeOK, FetchInv, FinalError
    <3>3. CASE err = "none" /\ status = OK
      <4>1. /\ cpc'[c] = "playlist" /\ hand'[c] = buf /\ code'[c] = status
            /\ UNCHANGED <<delivered, clen, done, err, buf, status, ready>>
        BY <3>3 DEF TypeOK
      <4>2. delivered[c] = <<>> /\ clen[c] = NoLength
        BY DEF TypeOK, RequestInv
      <4>3. QED
        BY <2>2, <3>1, <3>2, <3>3, <4>1, <4>2 DEF RequestInv
    <3>4. CASE ~(err = "none" /\ status = OK)
      BY <2>2, <3>4 DEF TypeOK, RequestInv
    <3>5. QED
      BY <3>3, <3>4
  <2>3. QED
    BY <2>1, <2>2
<1>4. NoLostWakeup'
  BY DEF TypeOK, FetchInv, RequestInv, NoLostWakeup
<1>5. QED
  BY <1>1, <1>2, <1>3, <1>4

(* A playlist is sent whole. *)
LEMMA WritePlaylistInv == ASSUME NEW c \in Clients, IInv, WritePlaylist(c) PROVE IInv'
<1> USE MuxEntryAssumption DEF IInv, WritePlaylist, fetchVars, entryVars, clientVars
<1>1. TypeOK'
  BY DEF TypeOK
<1>2. FetchInv'
  BY DEF TypeOK, FetchInv, FinalError, Success, NoStatus
<1>3. ASSUME NEW d \in Clients PROVE RequestInv(d)'
  <2>1. CASE d # c
    BY <2>1 DEF TypeOK, RequestInv
  <2>2. CASE d = c
    <3>1. buf \o <<>> = buf /\ IsPrefix(buf, buf)
      BY ConcatEmptySeq, PrefixReflexive DEF TypeOK
    <3>2. QED
      BY <2>2, <3>1 DEF TypeOK, RequestInv
  <2>3. QED
    BY <2>1, <2>2
<1>4. NoLostWakeup'
  BY DEF TypeOK, FetchInv, RequestInv, NoLostWakeup
<1>5. QED
  BY <1>1, <1>2, <1>3, <1>4

(* Every step of the entry and its requests preserves the invariant. *)
LEMMA StepInv == IInv /\ [Next]_vars => IInv'
<1> SUFFICES ASSUME IInv, [Next]_vars PROVE IInv'
  OBVIOUS
<1>1. CASE Expire
  BY <1>1, ExpireInv
<1>2. CASE Fetch
  BY <1>2, RequestFailsInv, PublishHeaderInv, ReadInv, AppendChunkInv, FinishInv, PersistInv DEF Fetch
<1>3. ASSUME NEW c \in Clients, Request(c) PROVE IInv'
  BY <1>3, JoinInv, SleepInv, WaitHeaderInv, SendHeaderInv, TakeInv, WriteInv, WriteFailsInv,
     WaitDoneInv, WritePlaylistInv DEF Request
<1>4. CASE UNCHANGED vars
  BY <1>4 DEF vars, fetchVars, entryVars, clientVars, IInv, TypeOK, FetchInv, RequestInv,
              NoLostWakeup, FinalError, Success
<1>5. QED
  BY <1>1, <1>2, <1>3, <1>4 DEF Next, Terminated

(* The inductive invariant holds throughout. *)
THEOREM Invariance == Spec => []IInv
<1>1. QED
  BY InitInv, StepInv, PTL DEF Spec

-----------------------------------------------------------------------------
(* A fetch that ended without an error has read, and shared, all of Body. *)
LEMMA WholeBody == IInv /\ done /\ err = "none" => buf = Body
<1> SUFFICES ASSUME IInv, done, err = "none" PROVE buf = Body
  OBVIOUS
<1>1. pos = Len(Body) /\ chunk = <<>>
  BY DEF IInv, TypeOK, FetchInv, FinalError
<1>2. buf \in Seq(Nat) /\ Body \in Seq(Nat)
  BY MuxEntryAssumption DEF IInv, TypeOK
<1>3. buf \o <<>> = SubSeq(Body, 1, Len(Body))
  BY <1>1 DEF IInv, FetchInv
<1>4. QED
  BY <1>2, <1>3, ConcatEmptySeq, SubSeqFull

(* Every state of the entry and its requests is well typed. *)
THEOREM TypeCorrect == Spec => []TypeOK
<1>1. IInv => TypeOK
  BY DEF IInv
<1>2. QED
  BY <1>1, Invariance, PTL

(* No request sleeps through the event it waits for. *)
THEOREM WakeupsAreNotLost == Spec => []NoLostWakeup
<1>1. IInv => NoLostWakeup
  BY DEF IInv
<1>2. QED
  BY <1>1, Invariance, PTL

(* Each client is sent a prefix of the body, whatever the interleaving. *)
THEOREM DeliveryInOrder == Spec => []InOrder
<1>1. IInv => InOrder
  <2> SUFFICES ASSUME IInv PROVE InOrder
    OBVIOUS
  <2>1. /\ buf \in Seq(Nat) /\ chunk \in Seq(Nat) /\ Body \in Seq(Nat)
        /\ pos \in 0 .. Len(Body)
        /\ buf \o chunk = SubSeq(Body, 1, pos)
    BY MuxEntryAssumption DEF IInv, TypeOK, FetchInv
  <2>2. IsPrefix(buf, Body)
    BY <2>1, PrefixOfInitial
  <2>3. QED
    BY <2>2 DEF IInv, InOrder, RequestInv
<1>2. QED
  BY <1>1, Invariance, PTL

(* A response that ends normally is not cut short by this program. *)
THEOREM EndedResponsesAreWhole == Spec => []EndedIsWhole
<1>1. IInv => EndedIsWhole
  BY WholeBody DEF IInv, RequestInv, EndedIsWhole
<1>2. QED
  BY <1>1, Invariance, PTL

(* The header of every response is the upstream one, its length the body's. *)
THEOREM HeadersAreHonest == Spec => []HonestHeader
<1>1. IInv => HonestHeader
  BY WholeBody DEF IInv, RequestInv, HonestHeader
<1>2. QED
  BY <1>1, Invariance, PTL

(* Only complete bodies of successful fetches reach the disk tier, once. *)
THEOREM OnlyCompleteBodiesPersist == Spec => []PersistedIsComplete
<1>1. IInv => PersistedIsComplete
  <2> SUFFICES ASSUME IInv, persisted # <<>> PROVE PersistedIsComplete
    BY DEF PersistedIsComplete
  <2>1. persisted = <<buf>> /\ Success /\ persist /\ done /\ ~playlist
    BY DEF IInv, TypeOK, FetchInv
  <2>2. err = "none" /\ status = OK
    BY <2>1 DEF IInv, FetchInv, Success
  <2>3. buf = Body
    BY <2>1, <2>2, WholeBody
  <2>4. QED
    BY <2>1, <2>2, <2>3 DEF PersistedIsComplete
<1>2. QED
  BY <1>1, Invariance, PTL

(* A finished entry is immutable: unlocked reads of it see one value. *)
THEOREM FinishedEntriesAreSealed == Spec => SealedForGood
<1>1. IInv /\ [Next]_vars => [done => done' /\ UNCHANGED <<buf, err, ready, status>>]_vars
  <2> SUFFICES ASSUME IInv, Next, done
               PROVE  done' /\ UNCHANGED <<buf, err, ready, status>>
    OBVIOUS
  <2>1. pc \in {"persist", "stop"}
    BY DEF IInv, FetchInv
  <2>2. CASE Expire
    BY <2>1, <2>2 DEF Expire
  <2>3. CASE Fetch
    BY <2>1, <2>3 DEF Fetch, RequestFails, PublishHeader, Read, AppendChunk, AppendBytes,
                      Finish, FinishWith, Persist
  <2>4. ASSUME NEW c \in Clients, Request(c)
        PROVE  UNCHANGED entryVars
    BY <2>4 DEF Request, Join, Sleep, WaitHeader, SendHeader, SendHeaderIf, Take, TakeFrom,
                Write, WriteThen, WriteFails, WaitDone, WritePlaylist
  <2>5. QED
    BY <2>2, <2>3, <2>4 DEF Next, Terminated, vars, entryVars
<1>2. QED
  BY <1>1, Invariance, PTL DEF Spec, SealedForGood

-----------------------------------------------------------------------------
(* The refinement, one lemma for the goroutine and one for the requests.    *)

(* A new entry maps to a shared body that nothing has happened to. *)
LEMMA InitRefines == Init => Shared!Init
  BY DEF Init, Shared!Init, Verdict, Phase

(* A step of the fetch goroutine grows, seals or stores the shared body, or
   stutters. *)
LEMMA FetchRefines == IInv /\ Fetch => [Shared!Next]_(Shared!vars)
<1> SUFFICES ASSUME IInv, Fetch PROVE [Shared!Next]_(Shared!vars)
  OBVIOUS
<1> USE DEF clientVars, entryVars, fetchVars
<1>1. [c \in Clients |-> Phase(c)]' = [c \in Clients |-> Phase(c)]
  <2>1. cpc' = cpc
    BY DEF Fetch, RequestFails, PublishHeader, Read, AppendChunk, AppendBytes, Finish, FinishWith,
           Persist
  <2>2. QED
    BY <2>1 DEF Phase
<1>2. CASE RequestFails \/ PublishHeader \/ Read
  BY <1>1, <1>2 DEF RequestFails, PublishHeader, Read, Verdict, Shared!vars
<1>3. CASE AppendChunk
  <2>1. ~done /\ UNCHANGED <<done, err, delivered, persisted>> /\ buf' = buf \o chunk
    BY <1>3 DEF AppendChunk, AppendBytes, IInv, FetchInv
  <2>2. IInv'
    BY <1>3, AppendChunkInv
  <2>3. /\ buf \in Seq(Nat) /\ chunk \in Seq(Nat) /\ Body \in Seq(Nat)
        /\ pos \in 0 .. Len(Body)
        /\ buf \o chunk = SubSeq(Body, 1, pos)
    BY MuxEntryAssumption DEF IInv, TypeOK, FetchInv
  <2>4. pos \in Len(buf) .. Len(Body)
    <3>1. Len(buf \o chunk) = Len(buf) + Len(chunk) /\ Len(buf) \in Nat /\ Len(chunk) \in Nat
      BY <2>3, ConcatProperties, LenProperties
    <3>2. Len(SubSeq(Body, 1, pos)) = pos
      BY <2>3, SubSeqProperties, LenProperties, ElementOfSeq
    <3>3. QED
      BY <2>3, <3>1, <3>2
  <2>5. Shared!Grow
    BY <1>1, <2>1, <2>3, <2>4 DEF Shared!Grow, Verdict
  <2>6. QED
    BY <2>5 DEF Shared!Next
<1>4. CASE Finish
  <2>1. ~done /\ done' /\ err' \in {"none", "error"}
        /\ UNCHANGED <<buf, delivered, persisted>>
    BY <1>4 DEF Finish, FinishWith, FinalError, IInv, FetchInv
  <2>2. err' = "none" => buf = Body
    <3>1. IInv'
      BY <1>4, FinishInv
    <3>2. (IInv /\ done /\ err = "none" => buf = Body)'
      BY WholeBody, PTL
    <3>3. QED
      BY <2>1, <3>1, <3>2
  <2>3. Shared!Seal
    BY <1>1, <2>1, <2>2 DEF Shared!Seal, Verdict
  <2>4. QED
    BY <2>3 DEF Shared!Next
<1>5. CASE Persist
  <2>1. done /\ err = "none" /\ persisted = <<>>
        /\ UNCHANGED <<buf, done, err, delivered>>
    BY <1>5 DEF Persist, IInv, FetchInv, Success
  <2>2. persisted' = <<Body>>
    BY <1>5, <2>1, WholeBody DEF Persist
  <2>3. Shared!Store
    BY <1>1, <2>1, <2>2 DEF Shared!Store, Verdict
  <2>4. QED
    BY <2>3 DEF Shared!Next
<1>6. QED
  BY <1>2, <1>3, <1>4, <1>5 DEF Fetch

(* A step of a request is one of a reader of the shared body, or stutters. *)
LEMMA RequestRefines ==
    ASSUME NEW c \in Clients, IInv, Request(c)
    PROVE  [Shared!Next]_(Shared!vars)
<1> DEFINE phase == [d \in Clients |-> Phase(d)]
<1> USE DEF clientVars, entryVars, fetchVars
<1>1. UNCHANGED <<buf, done, err, status, persisted>>
  BY DEF Request, Join, Sleep, WaitHeader, SendHeader, SendHeaderIf, Take, TakeFrom,
         Write, WriteThen, WriteFails, WaitDone, WritePlaylist
<1>2. Verdict' = Verdict
  BY <1>1 DEF Verdict
<1>3. /\ cpc \in [Clients -> {"idle", "waitHeader", "header", "serve", "write", "waitDone",
                            "playlist", "ended", "rejected", "gone"}]
      /\ delivered \in [Clients -> Seq(Nat)]
      /\ buf \in Seq(Nat)
      /\ done \in BOOLEAN
      /\ RequestInv(c)
  BY DEF IInv, TypeOK
<1>4. ASSUME NEW s, cpc' = [cpc EXCEPT ![c] = s]
      PROVE  phase' = [phase EXCEPT ![c] = Phase(c)']
  <2>1. \A d \in Clients \ {c} : Phase(d)' = Phase(d)
    BY <1>3, <1>4 DEF Phase
  <2>2. QED
    BY <2>1
<1>5. CASE Join(c)
  <2>1. cpc[c] = "idle" /\ cpc'[c] \in {"waitDone", "waitHeader"} /\ delivered' = delivered
    BY <1>3, <1>5 DEF Join
  <2>2. Phase(c)' = Phase(c)
    BY <2>1 DEF Phase
  <2>3. phase' = phase
    BY <1>3, <1>4, <1>5, <2>2 DEF Join
  <2>4. QED
    BY <1>1, <1>2, <2>1, <2>3 DEF Shared!vars
<1>6. CASE Sleep(c)
  <2>1. cpc' = cpc /\ delivered' = delivered
    BY <1>6 DEF Sleep
  <2>2. phase' = phase
    BY <2>1 DEF Phase
  <2>3. QED
    BY <1>1, <1>2, <2>1, <2>2 DEF Shared!vars
<1>7. CASE WaitHeader(c)
  <2>1. delivered' = delivered /\ cpc[c] = "waitHeader" /\ Phase(c) = "waiting"
    BY <1>7 DEF WaitHeader, Phase
  <2>2. CASE err = "none"
    <3>1. cpc' = [cpc EXCEPT ![c] = "header"] /\ Phase(c)' = "waiting"
      BY <1>3, <1>7, <2>2 DEF WaitHeader, Phase
    <3>2. phase' = phase
      BY <1>3, <1>4, <2>1, <3>1
    <3>3. QED
      BY <1>1, <1>2, <2>1, <3>2 DEF Shared!vars
  <2>3. CASE err # "none"
    <3>1. cpc' = [cpc EXCEPT ![c] = "rejected"] /\ Phase(c)' = "rejected"
      BY <1>3, <1>7, <2>3 DEF WaitHeader, Phase
    <3>2. phase' = [phase EXCEPT ![c] = "rejected"]
      BY <1>4, <3>1
    <3>3. Verdict # "open"
      BY <1>7, <2>3 DEF Verdict, IInv, FetchInv
    <3>4. Shared!Reject(c)
      BY <1>1, <1>2, <2>1, <3>2, <3>3 DEF Shared!Reject
    <3>5. QED
      BY <3>4 DEF Shared!Next
  <2>4. QED
    BY <2>2, <2>3
<1>8. CASE SendHeader(c)
  <2>1. /\ delivered' = delivered /\ cpc[c] = "header" /\ Phase(c) = "waiting"
        /\ cpc' = [cpc EXCEPT ![c] = "serve"]
    BY <1>8 DEF SendHeader, SendHeaderIf, Phase
  <2>2. Phase(c)' = "reading"
    BY <1>3, <2>1 DEF Phase
  <2>3. Shared!Begin(c)
    BY <1>1, <1>2, <1>4, <2>1, <2>2 DEF Shared!Begin
  <2>4. QED
    BY <2>3 DEF Shared!Next
<1>9. CASE Take(c)
  <2>1. /\ delivered' = delivered /\ Phase(c) = "reading"
        /\ cpc' = [cpc EXCEPT ![c] = "write"]
    BY <1>9 DEF Take, TakeFrom, Phase
  <2>2. Phase(c)' = "reading"
    BY <1>3, <2>1 DEF Phase
  <2>3. phase' = phase
    BY <1>3, <1>4, <2>1, <2>2
  <2>4. QED
    BY <1>1, <1>2, <2>1, <2>3 DEF Shared!vars
<1>10. CASE Write(c)
  <2>1. Phase(c) = "reading" /\ delivered' = [delivered EXCEPT ![c] = delivered[c] \o hand[c]]
    BY <1>10 DEF Write, WriteThen, Phase
  <2>2. CASE sawDone[c] /\ hand[c] = <<>>
    <3>1. cpc' = [cpc EXCEPT ![c] = "ended"]
      BY <1>10, <2>2 DEF Write, WriteThen
    <3>2. Phase(c)' = "ended"
      BY <1>3, <3>1 DEF Phase
    <3>3. done /\ delivered[c] \o hand[c] = buf
      BY <1>10, <2>2 DEF Write, WriteThen, IInv, RequestInv
    <3>4. Shared!Complete(c)
      BY <1>1, <1>2, <1>4, <2>1, <3>1, <3>2, <3>3 DEF Shared!Complete, Verdict
    <3>5. QED
      BY <3>4 DEF Shared!Next
  <2>3. CASE ~(sawDone[c] /\ hand[c] = <<>>)
    <3>1. cpc' = [cpc EXCEPT ![c] = "serve"]
      BY <1>10, <2>3 DEF Write, WriteThen
    <3>2. Phase(c)' = "reading"
      BY <1>3, <3>1 DEF Phase
    <3>3. phase' = phase
      BY <1>4, <2>1, <3>1, <3>2
    <3>4. PICK n \in Len(delivered[c]) .. Len(buf) : delivered[c] \o hand[c] = SubSeq(buf, 1, n)
      <4>1. hand[c] \in Seq(Nat) /\ delivered[c] \in Seq(Nat) /\ buf \in Seq(Nat)
        BY DEF IInv, TypeOK
      <4>2. IsPrefix(delivered[c] \o hand[c], buf)
        BY <1>3 DEF RequestInv
      <4>3. \E n \in Len(delivered[c]) .. Len(buf) :
               delivered[c] \o hand[c] = SubSeq(buf, 1, n)
        BY <4>1, <4>2, PrefixExtension
      <4>4. QED
        BY <4>3
    <3>5. Shared!Advance(c)
      BY <1>1, <1>2, <2>1, <3>3, <3>4 DEF Shared!Advance
    <3>6. QED
      BY <3>5 DEF Shared!Next
  <2>4. QED
    BY <2>2, <2>3
<1>11. CASE WriteFails(c)
  <2>1. /\ delivered' = delivered /\ Phase(c) = "reading"
        /\ cpc' = [cpc EXCEPT ![c] = "gone"]
    BY <1>11 DEF WriteFails, Phase
  <2>2. Phase(c)' = "gone"
    BY <1>3, <2>1 DEF Phase
  <2>3. Shared!Leave(c)
    BY <1>1, <1>2, <1>4, <2>1, <2>2 DEF Shared!Leave
  <2>4. QED
    BY <2>3 DEF Shared!Next
<1>12. CASE WaitDone(c)
  <2>1. delivered' = delivered /\ cpc[c] = "waitDone" /\ Phase(c) = "waiting" /\ done
    BY <1>12 DEF WaitDone, Phase
  <2>2. CASE err = "none" /\ status = OK
    <3>1. cpc' = [cpc EXCEPT ![c] = "playlist"]
      BY <1>12, <2>2 DEF WaitDone
    <3>2. Phase(c)' = "reading"
      BY <1>3, <3>1 DEF Phase
    <3>3. Shared!Begin(c)
      BY <1>1, <1>2, <1>4, <2>1, <3>1, <3>2 DEF Shared!Begin
    <3>4. QED
      BY <3>3 DEF Shared!Next
  <2>3. CASE ~(err = "none" /\ status = OK)
    <3>1. cpc' = [cpc EXCEPT ![c] = "rejected"]
      BY <1>12, <2>3 DEF WaitDone
    <3>2. Phase(c)' = "rejected"
      BY <1>3, <3>1 DEF Phase
    <3>3. Verdict # "open"
      BY <2>1 DEF Verdict
    <3>4. Shared!Reject(c)
      BY <1>1, <1>2, <1>4, <2>1, <3>1, <3>2, <3>3 DEF Shared!Reject
    <3>5. QED
      BY <3>4 DEF Shared!Next
  <2>4. QED
    BY <2>2, <2>3
<1>13. CASE WritePlaylist(c)
  <2>1. /\ cpc' = [cpc EXCEPT ![c] = "ended"] /\ Phase(c) = "reading"
        /\ delivered' = [delivered EXCEPT ![c] = hand[c]]
    BY <1>13 DEF WritePlaylist, Phase
  <2>2. Phase(c)' = "ended"
    BY <1>3, <2>1 DEF Phase
  <2>3. done /\ hand[c] = buf
    BY <1>3, <1>13 DEF WritePlaylist, RequestInv
  <2>4. Shared!Complete(c)
    BY <1>1, <1>2, <1>4, <2>1, <2>2, <2>3 DEF Shared!Complete, Verdict
  <2>5. QED
    BY <2>4 DEF Shared!Next
<1>14. QED
  BY <1>5, <1>6, <1>7, <1>8, <1>9, <1>10, <1>11, <1>12, <1>13 DEF Request

(* The entry implements the shared body the memory tier promises. *)
THEOREM Refinement == Spec => ImplementsSharedBody
<1>1. IInv /\ [Next]_vars => [Shared!Next]_(Shared!vars)
  <2> SUFFICES ASSUME IInv, [Next]_vars PROVE [Shared!Next]_(Shared!vars)
    OBVIOUS
  <2>1. CASE Expire
    BY <2>1 DEF Expire, entryVars, clientVars, Verdict, Phase, Shared!vars
  <2>2. CASE Fetch
    BY <2>2, FetchRefines
  <2>3. ASSUME NEW c \in Clients, Request(c) PROVE [Shared!Next]_(Shared!vars)
    BY <2>3, RequestRefines
  <2>4. CASE UNCHANGED vars
    BY <2>4 DEF vars, entryVars, clientVars, Verdict, Phase, Shared!vars
  <2>5. QED
    BY <2>1, <2>2, <2>3, <2>4 DEF Next, Terminated
<1>2. QED
  BY <1>1, InitRefines, Invariance, PTL DEF Spec, ImplementsSharedBody, Shared!Spec
=============================================================================
