----------------------------- MODULE ShortURLs -----------------------------
(***************************************************************************)
(* The short URLs of shorturl.go.  The index page hands out /r/{code}      *)
(* URLs, where code is the end of the SHA-256 of the URL it stands for,    *)
(* made longer while a shorter one is taken.  The registry is lost when    *)
(* the process restarts; a request for a code it does not know registers   *)
(* the URLs upstream lists, in any order, and looks once more.             *)
(*                                                                         *)
(* A hash is a sequence of digits.  Hashes differ (SHA-256), so the last   *)
(* length register tries always succeeds.                                  *)
(***************************************************************************)
EXTENDS Integers, Sequences, FiniteSets

CONSTANTS URLs,
          Hash,      \* the digits of the SHA-256 of each URL
          Digits,    \* the digits of all of them
          Shortest,  \* the length register tries first
          Requests,  \* requests of /r/{code}
          MaxStarts  \* bound: how often the process starts

None == "none"

ASSUME ShortURLsAssumption ==
    /\ None \notin URLs
    /\ Digits \in Nat /\ Shortest \in 1 .. Digits
    /\ Hash \in [URLs -> [1 .. Digits -> Nat]]
    /\ \A u, v \in URLs : Hash[u] = Hash[v] => u = v
    /\ MaxStarts \in Nat \ {0}

VARIABLES byCode,  \* shortURLRegistry.byCode
          starts,  \* how often the process has started
          request, \* the requests in progress
          handed   \* the codes handed out: for which URL, by which process

vars == <<byCode, starts, request, handed>>

Suffix(h, n) == SubSeq(h, Digits - n + 1, Digits)
CodesOf(u) == {Suffix(Hash[u], n) : n \in Shortest .. Digits}
Codes == UNION {CodesOf(u) : u \in URLs}

Idle == [pc |-> "idle"]

Init ==
    /\ byCode = [c \in Codes |-> None]
    /\ starts = 1
    /\ request = [r \in Requests |-> Idle]
    /\ handed = {}

-----------------------------------------------------------------------------
(* Faulty variants: a code is the beginning of a hash; the shortest code is
   given to whoever asks; a code that is the URL's own already counts as taken. *)
CodeFirst(u) == SubSeq(Hash[u], 1, Shortest)
CodeShortest(u) == Suffix(Hash[u], Shortest)
CodeUntaken(u) ==
    LET free == {n \in Shortest .. Digits : byCode[Suffix(Hash[u], n)] = None}
    IN  Suffix(Hash[u], IF free = {} THEN Digits ELSE CHOOSE n \in free : \A m \in free : n <= m)

(* The code register returns: the shortest that no other URL has. *)
Code(u) ==
    LET free == {n \in Shortest .. Digits : byCode[Suffix(Hash[u], n)] \in {None, u}}
    IN  Suffix(Hash[u], CHOOSE n \in free : \A m \in free : n <= m)

(* Faulty variant: the code is returned but not kept. *)
RegisterNothing(u) == UNCHANGED byCode

(* register, under the lock. *)
Register(u) == byCode' = [byCode EXCEPT ![Code(u)] = u]

(* copyPath: the index page hands out the code of a URL. *)
Copy(u) ==
    /\ Register(u)
    /\ handed' = handed \cup {[code |-> Code(u), url |-> u, by |-> starts]}
    /\ UNCHANGED <<starts, request>>

(* Where a request goes that has looked its code up. *)
Looked(r, c, miss) ==
    request' = [request EXCEPT ![r] =
                   IF byCode[c] # None THEN [pc |-> "redirected", code |-> c, to |-> byCode[c]]
                                       ELSE miss]

(* handleShortURL looks its code up. *)
Lookup(r, c) ==
    /\ request[r].pc = "idle"
    /\ Looked(r, c, [pc |-> "refresh", code |-> c])
    /\ UNCHANGED <<byCode, starts, handed>>

(* refreshShortURLs: listed are the URLs of the streams upstream lists whose
   qualities can be fetched; none when upstream cannot be asked. *)
Refresh(r, listed) ==
    /\ request[r].pc = "refresh"
    /\ request' = [request EXCEPT ![r] =
                      [pc |-> "registering", code |-> request[r].code, todo |-> listed]]
    /\ UNCHANGED <<byCode, starts, handed>>

(* One goroutine per stream: the URLs are registered in any order. *)
RegisterListed(r) ==
    /\ request[r].pc = "registering"
    /\ \E u \in request[r].todo :
        /\ Register(u)
        /\ request' = [request EXCEPT ![r].todo = @ \ {u}]
    /\ UNCHANGED <<starts, handed>>

LookupAgain(r) ==
    /\ request[r].pc = "registering"
    /\ request[r].todo = {}
    /\ Looked(r, request[r].code, [pc |-> "not found", code |-> request[r].code])
    /\ UNCHANGED <<byCode, starts, handed>>

(* The process restarts: the registry and the requests in progress are lost. *)
Restart ==
    /\ starts < MaxStarts
    /\ starts' = starts + 1
    /\ byCode' = [c \in Codes |-> None]
    /\ request' = [r \in Requests |-> Idle]
    /\ UNCHANGED handed

Next ==
    \/ \E u \in URLs : Copy(u)
    \/ \E r \in Requests :
        \/ \E c \in Codes : Lookup(r, c)
        \/ \E listed \in SUBSET URLs : Refresh(r, listed)
        \/ RegisterListed(r)
        \/ LookupAgain(r)
    \/ Restart

Spec == Init /\ [][Next]_vars

-----------------------------------------------------------------------------
(* The type invariant: a code stands for a URL whose hash ends in it. *)
TypeOK ==
    /\ starts \in 1 .. MaxStarts
    /\ byCode \in [Codes -> URLs \cup {None}]
    /\ \A c \in Codes : byCode[c] # None => c \in CodesOf(byCode[c])
    /\ handed \subseteq [code : Codes, url : URLs, by : 1 .. starts]
    /\ \A r \in Requests : request[r].pc \in {"idle", "refresh", "registering",
                                              "redirected", "not found"}

(* However often and in whatever order pages and refreshes register it, a URL
   has one code: the one another URL took first is skipped every time. *)
OneCodePerURL ==
    \A c, d \in Codes : byCode[c] # None /\ byCode[c] = byCode[d] => c = d

(* A code handed out by the running process stands for the URL it was handed
   out for, whatever has been registered since. *)
CodesStayValid ==
    \A h \in handed : h.by = starts => byCode[h.code] = h.url

(* A refresh reproduces the mapping (shorturl.go:55-57), but for this: a viewer
   is sent to another URL than the code was handed out for only across a
   restart, and only when both hashes end in that code. *)
RemapExplained ==
    \A r \in Requests, h \in handed :
        request[r].pc = "redirected" /\ request[r].code = h.code /\ request[r].to # h.url =>
            h.by < starts /\ h.code \in CodesOf(h.url) \cap CodesOf(request[r].to)
=============================================================================
