-------------------------- MODULE ShortURLsProofs --------------------------
(***************************************************************************)
(* Proofs about ShortURLs, for any URLs with different hashes, of any      *)
(* length, any number of requests and any number of restarts.  What they   *)
(* rest on is that register is stable: the code a URL has is the one that  *)
(* register would give it again, whatever has been registered since.       *)
(***************************************************************************)
EXTENDS ShortURLs, SequenceTheorems, FiniteSetTheorems, WellFoundedInduction, TLAPS

(* The lengths register may choose for u. *)
Free(u) == {n \in Shortest .. Digits : byCode[Suffix(Hash[u], n)] \in {None, u}}
Least(S) == CHOOSE n \in S : \A m \in S : n <= m

(* Every code that stands for a URL is the one register would return for it. *)
Settled == \A c \in Codes : byCode[c] # None => c = Code(byCode[c])

Registering == [pc : {"registering"}, code : Codes, todo : SUBSET URLs]

(* A request in a state it may be in; what it has been told still holds. *)
Consistent(q) ==
    /\ q.pc \in {"idle", "refresh", "registering", "redirected", "not found"}
    /\ q.pc # "idle" => q.code \in Codes
    /\ q.pc = "registering" => q \in Registering
    /\ q.pc = "redirected" => q.to \in URLs /\ q.to = byCode[q.code]

RequestInv ==
    /\ request = [r \in Requests |-> request[r]]
    /\ \A r \in Requests : Consistent(request[r])

HandedInv == \A h \in handed : h.code \in CodesOf(h.url)

IInv == TypeOK /\ Settled /\ RequestInv /\ HandedInv /\ CodesStayValid

(* The end of a hash has as many digits as were asked for, and its end of all
   its digits is the hash. *)
LEMMA SuffixProperties ==
    ASSUME NEW u \in URLs, NEW n \in Shortest .. Digits
    PROVE  Len(Suffix(Hash[u], n)) = n /\ Suffix(Hash[u], Digits) = Hash[u]
<1> USE ShortURLsAssumption
<1>1. Hash[u] \in Seq(Nat) /\ Len(Hash[u]) = Digits
  <2>1. Hash[u] \in [1 .. Digits -> Nat]
    OBVIOUS
  <2>2. QED
    BY <2>1
<1>2. Len(SubSeq(Hash[u], Digits - n + 1, Digits)) = n
  <2>1. \A i \in Digits - n + 1 .. Digits : Hash[u][i] \in Nat
    OBVIOUS
  <2>2. QED
    BY <2>1, SubSeqProperties
<1>3. SubSeq(Hash[u], 1, Digits) = Hash[u]
  BY <1>1, SubSeqFull
<1>4. QED
  BY <1>2, <1>3 DEF Suffix

(* The least of a set of lengths. *)
LEMMA LeastProperties ==
    ASSUME NEW S \in SUBSET Nat, S # {}
    PROVE  Least(S) \in S /\ \A m \in S : Least(S) <= m
<1>1. PICK n \in S : \A m \in S : ~(<<m, n>> \in OpToRel(<, Nat))
  BY WFMin, NatLessThanWellFounded
<1>2. \A m \in S : <<m, n>> \in OpToRel(<, Nat) <=> m < n
  BY DEF OpToRel
<1>3. \A m \in S : ~(m < n)
  BY <1>1, <1>2
<1>4. \A m \in S : n <= m
  BY <1>3
<1>5. QED
  BY <1>4 DEF Least

(* What the type invariant says of the codes that have been handed out. *)
LEMMA HandedType ==
    ASSUME TypeOK
    PROVE  /\ starts \in Nat /\ 1 <= starts /\ starts <= MaxStarts
           /\ handed \subseteq [code : Codes, url : URLs, by : 1 .. starts]
           /\ \A h \in handed : h.code \in Codes /\ h.url \in URLs /\ h.by \in 1 .. starts
<1>1. starts \in 1 .. MaxStarts /\ handed \subseteq [code : Codes, url : URLs, by : 1 .. starts]
  BY DEF TypeOK
<1>2. QED
  BY <1>1, ShortURLsAssumption

(* register always finds a code: the whole hash can only be the URL's own. *)
LEMMA CodeProperties ==
    ASSUME NEW u \in URLs, TypeOK
    PROVE  /\ Least(Free(u)) \in Free(u) /\ \A n \in Free(u) : Least(Free(u)) <= n
           /\ Code(u) = Suffix(Hash[u], Least(Free(u)))
           /\ Code(u) \in CodesOf(u) /\ Code(u) \in Codes
           /\ byCode[Code(u)] \in {None, u}
<1> USE ShortURLsAssumption
<1>1. Digits \in Free(u)
  <2>1. Digits \in Shortest .. Digits /\ Hash[u] = Suffix(Hash[u], Digits)
    BY SuffixProperties
  <2>2. Hash[u] \in Codes
    BY <2>1 DEF Codes, CodesOf
  <2> DEFINE v == byCode[Hash[u]]
  <2>3. ASSUME v # None PROVE v = u
    <3>1. v \in URLs /\ Hash[u] \in CodesOf(v)
      BY <2>2, <2>3 DEF TypeOK
    <3>2. PICK n \in Shortest .. Digits : Hash[u] = Suffix(Hash[v], n)
      BY <3>1 DEF CodesOf
    <3>3. n = Digits
      BY <2>1, <3>1, <3>2, SuffixProperties
    <3>4. QED
      BY <3>1, <3>2, <3>3, SuffixProperties
  <2>4. QED
    BY <2>1, <2>3 DEF Free
<1>2. Free(u) \in SUBSET Nat
  BY DEF Free
<1>3. Least(Free(u)) \in Free(u) /\ \A n \in Free(u) : Least(Free(u)) <= n
  BY <1>1, <1>2, LeastProperties
<1>4. Code(u) = Suffix(Hash[u], Least(Free(u)))
  BY DEF Code, Least, Free
<1>5. Code(u) \in CodesOf(u) /\ byCode[Code(u)] \in {None, u}
  BY <1>3, <1>4 DEF Free, CodesOf
<1>6. QED
  BY <1>3, <1>4, <1>5 DEF Codes

(* register is stable: it adds a code at most, and every code that stands for
   a URL is still the one register would return for it. *)
LEMMA RegisterStable ==
    ASSUME TypeOK, Settled, NEW u \in URLs, Register(u)
    PROVE  /\ byCode' \in [Codes -> URLs \cup {None}]
           /\ byCode'[Code(u)] = u
           /\ \A c \in Codes : byCode'[c] # None => c \in CodesOf(byCode'[c])
           /\ \A c \in Codes : byCode[c] # None => byCode'[c] = byCode[c]
           /\ Settled'
<1> USE ShortURLsAssumption DEF Register
<1>1. Code(u) \in Codes /\ Code(u) \in CodesOf(u) /\ byCode[Code(u)] \in {None, u}
  BY CodeProperties
<1>2. byCode \in [Codes -> URLs \cup {None}] /\ \A c \in Codes : byCode[c] # None => c \in CodesOf(byCode[c])
  BY DEF TypeOK
<1>3. byCode' \in [Codes -> URLs \cup {None}] /\ byCode'[Code(u)] = u
  BY <1>1, <1>2
<1>4. \A c \in Codes : byCode[c] # None => byCode'[c] = byCode[c]
  BY <1>1, <1>2
<1>5. \A c \in Codes : byCode'[c] # None => c \in CodesOf(byCode'[c])
  BY <1>1, <1>2
<1>6. ASSUME NEW c \in Codes, NEW v \in URLs, byCode'[c] = v
      PROVE  c = Code(v)'
  <2>1. c = Code(v)
    BY <1>1, <1>2, <1>3, <1>6 DEF Settled
  <2>2. PICK n : n \in Free(v) /\ (\A m \in Free(v) : n <= m) /\ c = Suffix(Hash[v], n)
    BY <2>1, CodeProperties
  <2>3. Free(v)' \subseteq Free(v)
    <3> SUFFICES ASSUME NEW m \in Shortest .. Digits,
                        byCode'[Suffix(Hash[v], m)] \in {None, v}
                 PROVE  byCode[Suffix(Hash[v], m)] \in {None, v}
      BY DEF Free
    <3>1. Suffix(Hash[v], m) \in Codes
      BY DEF Codes, CodesOf
    <3>2. QED
      BY <1>1, <1>2, <3>1
  <2>4. n \in Free(v)'
    BY <1>6, <2>2 DEF Free
  <2>5. n \in Nat /\ Free(v)' \in SUBSET Nat
    BY <2>2 DEF Free
  <2>6. Least(Free(v)') = n
    <3>1. Least(Free(v)') \in Free(v)' /\ Least(Free(v)') <= n
      BY <2>4, <2>5, LeastProperties
    <3>2. n <= Least(Free(v)') /\ Least(Free(v)') \in Nat
      BY <2>2, <2>3, <2>5, <3>1
    <3>3. QED
      BY <2>5, <3>1, <3>2
  <2>7. Code(v)' = Suffix(Hash[v], Least(Free(v)'))
    BY DEF Code, Least, Free
  <2>8. QED
    BY <2>2, <2>6, <2>7
<1>7. Settled'
  BY <1>3, <1>6, Zenon DEF Settled
<1>8. QED
  BY <1>3, <1>4, <1>5, <1>7

(* The process has just started and stands for nothing. *)
LEMMA InitInv == Init => IInv
<1> SUFFICES ASSUME Init PROVE IInv
  OBVIOUS
<1> USE ShortURLsAssumption DEF Init
<1>1. TypeOK
  <2>1. 1 \in 1 .. MaxStarts
    OBVIOUS
  <2>2. byCode \in [Codes -> URLs \cup {None}] /\ \A c \in Codes : byCode[c] = None
    OBVIOUS
  <2>3. \A r \in Requests : request[r].pc = "idle"
    BY DEF Idle
  <2>4. QED
    BY <2>1, <2>2, <2>3 DEF TypeOK
<1>2. Settled /\ HandedInv /\ CodesStayValid
  BY DEF Settled, HandedInv, CodesStayValid
<1>3. RequestInv
  BY DEF RequestInv, Consistent, Idle
<1>4. QED
  BY <1>1, <1>2, <1>3 DEF IInv

(* What codes hand out and requests have been told outlives a registration. *)
LEMMA RegisterKeeps ==
    ASSUME IInv, NEW u \in URLs, Register(u)
    PROVE  /\ \A r \in Requests : request[r].pc = "redirected" =>
                  /\ request[r].code \in Codes /\ request[r].to \in URLs
                  /\ request[r].to = byCode'[request[r].code]
           /\ \A h \in handed : h.by = starts => byCode'[h.code] = h.url
<1> USE ShortURLsAssumption DEF IInv
<1>1. \A c \in Codes : byCode[c] # None => byCode'[c] = byCode[c]
  BY RegisterStable
<1>2. ASSUME NEW r \in Requests, request[r].pc = "redirected"
      PROVE  /\ request[r].code \in Codes /\ request[r].to \in URLs
             /\ request[r].to = byCode'[request[r].code]
  <2>1. /\ request[r].code \in Codes /\ request[r].to \in URLs
        /\ request[r].to = byCode[request[r].code]
    BY <1>2 DEF RequestInv, Consistent
  <2>2. byCode'[request[r].code] = byCode[request[r].code]
    BY <1>1, <2>1
  <2>3. QED
    BY <2>1, <2>2
<1>3. ASSUME NEW h \in handed, h.by = starts PROVE byCode'[h.code] = h.url
  <2>1. h.code \in Codes /\ h.url \in URLs /\ byCode[h.code] = h.url
    BY <1>3 DEF TypeOK, CodesStayValid
  <2>2. QED
    BY <1>1, <2>1
<1>4. QED
  BY <1>2, <1>3

(* copyPath: the code that is handed out is the one that stands for the URL. *)
LEMMA CopyInv == ASSUME NEW u \in URLs PROVE IInv /\ Copy(u) => IInv'
<1> SUFFICES ASSUME IInv, Copy(u) PROVE IInv'
  OBVIOUS
<1> USE ShortURLsAssumption DEF IInv, Copy
<1>1. TypeOK /\ Settled /\ Register(u)
  OBVIOUS
<1>2. /\ byCode' \in [Codes -> URLs \cup {None}]
      /\ byCode'[Code(u)] = u
      /\ \A c \in Codes : byCode'[c] # None => c \in CodesOf(byCode'[c])
      /\ Settled'
  BY <1>1, RegisterStable
<1>3. Code(u) \in Codes /\ Code(u) \in CodesOf(u)
  BY CodeProperties
<1>4. TypeOK'
  <2>1. [code |-> Code(u), url |-> u, by |-> starts] \in [code : Codes, url : URLs, by : 1 .. starts]
    BY <1>3, HandedType
  <2>2. handed' \subseteq [code : Codes, url : URLs, by : 1 .. starts]
    BY <2>1 DEF TypeOK
  <2>3. QED
    BY <1>2, <2>2 DEF TypeOK
<1>5. RequestInv'
  BY <1>1, RegisterKeeps DEF RequestInv, Consistent
<1>6. HandedInv'
  BY <1>3 DEF HandedInv
<1>7. CodesStayValid'
  BY <1>1, <1>2, RegisterKeeps DEF CodesStayValid
<1>8. QED
  BY <1>2, <1>4, <1>5, <1>6, <1>7

(* Refreshes register whatever upstream lists. *)
LEMMA RegisterListedInv == ASSUME NEW r \in Requests PROVE IInv /\ RegisterListed(r) => IInv'
<1> SUFFICES ASSUME IInv, RegisterListed(r) PROVE IInv'
  OBVIOUS
<1> USE ShortURLsAssumption DEF IInv, RegisterListed
<1>1. request[r] \in Registering
  BY DEF RequestInv, Consistent
<1>2. PICK u \in request[r].todo :
        Register(u) /\ request' = [request EXCEPT ![r].todo = @ \ {u}]
  OBVIOUS
<1>3. u \in URLs /\ TypeOK /\ Settled
  BY <1>1 DEF Registering
<1>4. /\ byCode' \in [Codes -> URLs \cup {None}]
      /\ \A c \in Codes : byCode'[c] # None => c \in CodesOf(byCode'[c])
      /\ Settled'
  BY <1>2, <1>3, RegisterStable
<1>5. [request[r] EXCEPT !.todo = @ \ {u}] \in Registering
  BY <1>1 DEF Registering
<1>6. /\ request' = [p \in Requests |-> request'[p]]
      /\ request'[r] \in Registering
      /\ \A p \in Requests \ {r} : request'[p] = request[p]
  BY <1>2, <1>5 DEF RequestInv
<1>7. request'[r].pc = "registering" /\ request'[r].code \in Codes
  BY <1>6 DEF Registering
<1>8. RequestInv'
  <2>1. ASSUME NEW p \in Requests \ {r} PROVE Consistent(request[p])'
    BY <1>2, <1>3, <1>6, RegisterKeeps DEF RequestInv, Consistent
  <2>2. Consistent(request[r])'
    BY <1>6, <1>7 DEF Consistent
  <2>3. QED
    BY <1>6, <2>1, <2>2 DEF RequestInv
<1>9. TypeOK'
  BY <1>4, <1>8 DEF TypeOK, RequestInv, Consistent
<1>10. HandedInv'
  BY DEF HandedInv
<1>11. CodesStayValid'
  BY <1>2, <1>3, RegisterKeeps DEF CodesStayValid
<1>12. QED
  BY <1>4, <1>8, <1>9, <1>10, <1>11

(* The steps of a request that registers nothing. *)
LEMMA RequestStepInv ==
    ASSUME NEW r \in Requests
    PROVE  IInv /\ (\/ \E c \in Codes : Lookup(r, c)
                    \/ \E listed \in SUBSET URLs : Refresh(r, listed)
                    \/ LookupAgain(r)) => IInv'
<1> SUFFICES ASSUME IInv, UNCHANGED <<byCode, starts, handed>>,
                    \/ \E c \in Codes : Lookup(r, c)
                    \/ \E listed \in SUBSET URLs : Refresh(r, listed)
                    \/ LookupAgain(r)
             PROVE  IInv'
  BY DEF Lookup, Refresh, LookupAgain
<1> USE ShortURLsAssumption DEF IInv
<1>1. ASSUME NEW c \in Codes, NEW miss, Consistent(miss), Looked(r, c, miss)
      PROVE  \E next : Consistent(next) /\ request' = [request EXCEPT ![r] = next]
  <2>1. CASE byCode[c] # None
    <3> DEFINE next == [pc |-> "redirected", code |-> c, to |-> byCode[c]]
    <3>1. Consistent(next)
      BY <2>1 DEF TypeOK, Consistent
    <3>2. request' = [request EXCEPT ![r] = next]
      BY <1>1, <2>1 DEF Looked
    <3>3. QED
      BY <3>1, <3>2
  <2>2. CASE byCode[c] = None
    BY <1>1, <2>2 DEF Looked
  <2>3. QED
    BY <2>1, <2>2
<1>2. \E next : Consistent(next) /\ request' = [request EXCEPT ![r] = next]
  <2>1. CASE \E c \in Codes : Lookup(r, c)
    <3>1. PICK c \in Codes : Lookup(r, c)
      BY <2>1
    <3>2. Consistent([pc |-> "refresh", code |-> c])
      BY DEF Consistent
    <3>3. QED
      BY <1>1, <3>1, <3>2 DEF Lookup
  <2>2. CASE \E listed \in SUBSET URLs : Refresh(r, listed)
    <3>1. PICK listed \in SUBSET URLs : Refresh(r, listed)
      BY <2>2
    <3> DEFINE next == [pc |-> "registering", code |-> request[r].code, todo |-> listed]
    <3>2. request[r].code \in Codes
      BY <3>1 DEF Refresh, RequestInv, Consistent
    <3>3. Consistent(next)
      BY <3>2 DEF Consistent, Registering
    <3>4. request' = [request EXCEPT ![r] = next]
      BY <3>1 DEF Refresh
    <3>5. QED
      BY <3>3, <3>4
  <2>3. CASE LookupAgain(r)
    <3>1. request[r].code \in Codes
      BY <2>3 DEF LookupAgain, RequestInv, Consistent
    <3>2. Consistent([pc |-> "not found", code |-> request[r].code])
      BY <3>1 DEF Consistent
    <3>3. QED
      BY <1>1, <2>3, <3>1, <3>2 DEF LookupAgain
  <2>4. QED
    BY <2>1, <2>2, <2>3
<1>3. PICK next : Consistent(next) /\ request' = [request EXCEPT ![r] = next]
  BY <1>2
<1>4. RequestInv'
  BY <1>3 DEF RequestInv, Consistent
<1>5. TypeOK'
  BY <1>4 DEF TypeOK, RequestInv, Consistent
<1>6. Settled'
  BY DEF Settled, Code
<1>7. HandedInv' /\ CodesStayValid'
  BY DEF HandedInv, CodesStayValid
<1>8. QED
  BY <1>4, <1>5, <1>6, <1>7

(* A restart: no code is the running process's any more. *)
LEMMA RestartInv == IInv /\ Restart => IInv'
<1> SUFFICES ASSUME IInv, Restart PROVE IInv'
  OBVIOUS
<1> USE ShortURLsAssumption DEF IInv, Restart
<1>1. TypeOK'
  <2>1. starts' \in 1 .. MaxStarts /\ 1 .. starts \subseteq 1 .. starts'
    BY HandedType
  <2>2. byCode' \in [Codes -> URLs \cup {None}] /\ \A c \in Codes : byCode'[c] = None
    OBVIOUS
  <2>3. \A r \in Requests : request'[r].pc = "idle"
    BY DEF Idle
  <2>4. handed' \subseteq [code : Codes, url : URLs, by : 1 .. starts']
    BY <2>1 DEF TypeOK
  <2>5. QED
    BY <2>1, <2>2, <2>3, <2>4 DEF TypeOK
<1>2. Settled' /\ HandedInv'
  BY DEF Settled, HandedInv
<1>3. RequestInv'
  BY DEF RequestInv, Consistent, Idle
<1>4. CodesStayValid'
  <2>1. \A h \in handed : h.by \in 1 .. starts /\ starts \in Nat
    BY HandedType
  <2>2. QED
    BY <2>1 DEF CodesStayValid
<1>5. QED
  BY <1>1, <1>2, <1>3, <1>4

(* Every step keeps the inductive invariant. *)
LEMMA StepInv == IInv /\ [Next]_vars => IInv'
<1> SUFFICES ASSUME IInv, [Next]_vars PROVE IInv'
  OBVIOUS
<1>1. CASE \E u \in URLs : Copy(u)
  BY <1>1, CopyInv
<1>2. ASSUME NEW r \in Requests, RegisterListed(r) PROVE IInv'
  BY <1>2, RegisterListedInv
<1>3. ASSUME NEW r \in Requests,
             \/ \E c \in Codes : Lookup(r, c)
             \/ \E listed \in SUBSET URLs : Refresh(r, listed)
             \/ LookupAgain(r)
      PROVE  IInv'
  BY <1>3, RequestStepInv
<1>4. CASE Restart
  BY <1>4, RestartInv
<1>5. CASE UNCHANGED vars
  BY <1>5 DEF IInv, TypeOK, Settled, Code, RequestInv, Consistent, HandedInv,
              CodesStayValid, vars
<1>6. QED
  BY <1>1, <1>2, <1>3, <1>4, <1>5 DEF Next

(* The inductive invariant holds in every state, across restarts too. *)
THEOREM Invariance == Spec => []IInv
BY InitInv, StepInv, PTL DEF Spec

(* Every state is of its type: a code stands for a URL whose hash ends in it. *)
THEOREM Typed == Spec => []TypeOK
<1>1. IInv => TypeOK
  BY DEF IInv
<1>2. QED
  BY Invariance, <1>1, PTL

(* register (shorturl.go): a URL never gets a second code, in whatever order
   and however often URLs are registered. *)
THEOREM CodesAreUnique == Spec => []OneCodePerURL
<1>1. IInv => OneCodePerURL
  BY DEF IInv, Settled, OneCodePerURL
<1>2. QED
  BY Invariance, <1>1, PTL

(* copyPath (shorturl.go): a code that was handed out goes on standing for its
   URL for as long as the process runs. *)
THEOREM CodesAreStable == Spec => []CodesStayValid
<1>1. IInv => CodesStayValid
  BY DEF IInv
<1>2. QED
  BY Invariance, <1>1, PTL

(* handleShortURL (shorturl.go): a viewer is sent elsewhere than the code was
   handed out for only across a restart, and only where two hashes agree. *)
THEOREM RemapsAreExplained == Spec => []RemapExplained
<1>1. ASSUME IInv PROVE RemapExplained
  <2> SUFFICES ASSUME NEW r \in Requests, NEW h \in handed,
                      request[r].pc = "redirected", request[r].code = h.code,
                      request[r].to # h.url
               PROVE  h.by < starts /\ h.code \in CodesOf(h.url) \cap CodesOf(request[r].to)
    BY DEF RemapExplained
  <2>1. request[r].to = byCode[h.code] /\ request[r].to \in URLs
    BY <1>1 DEF IInv, RequestInv, Consistent
  <2>2. h.code \in Codes /\ h.by \in 1 .. starts /\ starts \in Nat /\ h.code \in CodesOf(h.url)
    BY <1>1, HandedType DEF IInv, HandedInv
  <2>3. h.by # starts
    BY <1>1, <2>1 DEF IInv, CodesStayValid
  <2>4. h.code \in CodesOf(request[r].to)
    BY <1>1, <2>1, <2>2, ShortURLsAssumption DEF IInv, TypeOK
  <2>5. QED
    BY <2>2, <2>3, <2>4
<1>2. QED
  BY Invariance, <1>1, PTL
=============================================================================
