------------------------- MODULE StreamCacheProofs -------------------------
(***************************************************************************)
(* Proofs about StreamCache, for any streams, any resolutions, any number  *)
(* of requests and any TTL that is not shorter than the cooldown.          *)
(***************************************************************************)
EXTENDS StreamCache, TLAPS

Pcs == Done \cup {"lookup master", "lookup variant", "check master", "stream", "cooldown",
                  "fetch streams", "set snapshot", "stream again", "fetch master",
                  "set master", "evict", "lookup again"}

Request == [pc : Pcs, op : {"player", "master", "variant"}, id : Ids,
            res : Resolutions \cup {NoResolution}, now : 0 .. clock, raced : BOOLEAN,
            got : [version : 0 .. version, ids : SUBSET Ids], lists : SUBSET Resolutions]

(* A variant is asked for by its resolution, and only a variant looks one up. *)
Proper(r) ==
    /\ r.op = "variant" => r.res \in Resolutions
    /\ r.pc \in {"lookup variant", "check master", "404 master"} => r.op = "variant"
    /\ r.pc = "lookup master" => r.op = "master"
    /\ r.pc \in {"fetch master", "set master", "lookup again"} => r.op # "player"

AppliedInv == applied \in [version : 0 .. version, ids : SUBSET Ids]

(* What upstream lacks it lacks now, what it offers it offers now. *)
UpstreamInv ==
    /\ lastLacked \in [Ids -> [Resolutions -> {Never} \cup 0 .. clock]]
    /\ lastOffered \in [Ids -> [Resolutions -> {Absent} \cup 0 .. clock]]
    /\ \A i \in Ids, s \in Resolutions :
        /\ ~(i \in live /\ s \in offer[i]) => lastLacked[i][s] = clock
        /\ s \in offer[i] => lastOffered[i][s] = clock

(* Upstream has lacked a resolution, or all of a stream, at t or later. *)
LackedSince(i, s, t) == lastLacked[i][s] >= t
GoneSince(i, t) == \A s \in Resolutions : LackedSince(i, s, t)

(* Records say what upstream offered when they were fetched or later. *)
AgeInv ==
    \A i \in Ids :
        /\ master[i].at # Absent =>
             \A s \in Resolutions \ master[i].lists : LackedSince(i, s, master[i].at)
        /\ \A s \in Resolutions : variant[i][s] # Absent => lastOffered[i][s] >= variant[i][s]

(* NoTornSet, as a request sees it that started at t. *)
WholeAt(t) ==
    \A i \in Ids : master[i].at # Absent /\ ~Expired(master[i].at, t) =>
        \A s \in Resolutions :
            variant[i][s] = IF s \in master[i].lists THEN master[i].at ELSE Absent

(* Until a stream is evicted, the last snapshot explains which streams are
   cached and which are not, to a request that started at t. *)
SnapshotAt(t) ==
    lastSnapshot # Never =>
        \A i \in Ids :
            \/ stream[i] = lastSnapshot
            \/ stream[i] = Absent /\ (Expired(lastSnapshot, t) \/ GoneSince(i, lastSnapshot))

(* What a request has got from upstream, and what it answers, is not older
   than it says, whatever has happened since. *)
Answers(r) ==
    /\ r.pc = "set snapshot" => \A i \in Ids \ r.got.ids : GoneSince(i, r.now)
    /\ r.pc = "set master" =>
         /\ \A s \in r.lists : lastOffered[r.id][s] >= r.now
         /\ \A s \in Resolutions \ r.lists : LackedSince(r.id, s, r.now)
    /\ r.pc = "found" /\ r.op = "variant" => lastOffered[r.id][r.res] >= r.now - TTL
    /\ r.pc \in {"404", "404 master", "404 cooldown"} /\ r.op = "variant" =>
         LackedSince(r.id, r.res, r.now - TTL) \/ r.raced

Underway(r) == r.pc \notin Done \cup {"idle"}

(* What a request under way can rely on as long as no other has changed the
   cache: the cache as it was when it started, and what it saw itself. *)
Sees(r) ==
    /\ WholeAt(r.now) /\ SnapshotAt(r.now)
    /\ r.pc = "check master" => variant[r.id][r.res] = Absent
    /\ r.pc = "cooldown" => stream[r.id] = Absent
    /\ r.pc = "stream again" => lastSnapshot = r.now
    /\ r.pc = "lookup again" /\ r.op = "variant" =>
         LackedSince(r.id, r.res, r.now - TTL) \/ variant[r.id][r.res] = r.now

Consistent(r) ==
    /\ r \in Request /\ Proper(r) /\ Answers(r)
    /\ Underway(r) /\ r.raced = FALSE => Sees(r)

ReqInv ==
    /\ req = [q \in Requests |-> req[q]]
    /\ \A q \in Requests : req[q].pc = "idle" \/ Consistent(req[q])

IInv ==
    /\ TypeOK /\ AppliedInv /\ UpstreamInv
    /\ AgeInv /\ NoTornSet /\ SnapshotAt(clock)
    /\ ReqInv

-----------------------------------------------------------------------------
(* Times, as the provers need them. *)
LEMMA Times ==
    ASSUME TypeOK
    PROVE  /\ clock \in Nat /\ TTL \in Nat /\ Cooldown \in Nat /\ Cooldown <= TTL
           /\ Absent = -1 /\ Never = -1 - Cooldown /\ Never \in Int
           /\ \A i \in Ids : stream[i] \in {Absent} \cup 0 .. clock
           /\ \A i \in Ids : master[i] \in [at : {Absent} \cup 0 .. clock, lists : SUBSET Resolutions]
           /\ \A i \in Ids, s \in Resolutions : variant[i][s] \in {Absent} \cup 0 .. clock
           /\ lastSnapshot \in {Never} \cup 0 .. clock
           /\ \A i \in Ids : master[i].at \in Int
<1>1. clock \in Nat /\ Absent = -1 /\ Never \in Int /\ Never = -1 - Cooldown
  BY StreamCacheAssumption DEF TypeOK, Absent, Never
<1>2. \A i \in Ids : master[i].at \in {Absent} \cup 0 .. clock
  BY DEF TypeOK
<1>3. \A i \in Ids : master[i].at \in Int
  BY <1>1, <1>2
<1>4. QED
  BY <1>1, <1>3, StreamCacheAssumption DEF TypeOK

(* What expired for an earlier request has expired for a later one. *)
LEMMA StillExpired ==
    ASSUME TTL \in Nat, NEW at \in Int, NEW t \in Int, NEW u \in Int, t <= u, Expired(at, t)
    PROVE  Expired(at, u)
BY DEF Expired

(* Upstream and its history move on: what was once lacked or offered was. *)
Onwards ==
    /\ UpstreamInv' /\ version' >= version /\ version' \in Nat
    /\ clock' >= clock /\ clock' \in Nat
    /\ \A i \in Ids, s \in Resolutions : /\ lastLacked'[i][s] >= lastLacked[i][s]
                                         /\ lastOffered'[i][s] >= lastOffered[i][s]

(* While upstream stands still that is so. *)
LEMMA StandsStill ==
    ASSUME TypeOK, UpstreamInv, UNCHANGED upstreamVars
    PROVE  Onwards
<1>1. clock \in Nat /\ version \in Nat /\ Never \in Int /\ Absent \in Int
  BY Times, StreamCacheAssumption DEF TypeOK, Absent
<1>2. UpstreamInv'
  BY DEF UpstreamInv, upstreamVars
<1>3. \A i \in Ids, s \in Resolutions : lastLacked[i][s] \in Int /\ lastOffered[i][s] \in Int
  BY <1>1 DEF UpstreamInv
<1>4. QED
  BY <1>1, <1>2, <1>3 DEF Onwards, upstreamVars

(* A request to which nothing happens, or that learns that it was overtaken,
   keeps what it relies on. *)
LEMMA StaysConsistent ==
    ASSUME TypeOK, UpstreamInv, Onwards, NEW r, Consistent(r), NEW s,
           s = r \/ s = [r EXCEPT !.raced = TRUE],
           UNCHANGED cacheVars \/ ~Underway(r) \/ s.raced = TRUE
    PROVE  Consistent(s)'
<1>1. r \in Request /\ clock \in Nat /\ version \in Nat
  BY Times DEF Consistent, TypeOK
<1>2. /\ \A f \in {"pc", "op", "id", "res", "now", "got", "lists"} : s[f] = r[f]
      /\ s.raced = r.raced \/ s.raced = TRUE
      /\ s \in Request
  BY <1>1 DEF Request
<1>3. s \in Request'
  <2>1. 0 .. clock \subseteq 0 .. clock' /\ 0 .. version \subseteq 0 .. version'
    BY <1>1 DEF Onwards
  <2>2. QED
    BY <1>2, <2>1 DEF Request
<1>4. Proper(s)'
  BY <1>1, <1>2 DEF Consistent, Proper
<1>5. /\ r.now \in Nat /\ r.id \in Ids /\ r.lists \subseteq Resolutions
      /\ r.now <= clock /\ TTL \in Nat
      /\ r.op = "variant" => r.res \in Resolutions
  <2>1. r.now \in Nat /\ r.id \in Ids /\ r.lists \subseteq Resolutions /\ r.now <= clock
    BY <1>1 DEF Request
  <2>2. QED
    BY <2>1, Times DEF Consistent, Proper
<1>6. /\ \A i \in Ids, w \in Resolutions :
           /\ lastLacked[i][w] \in Int /\ lastLacked'[i][w] \in Int
           /\ lastOffered[i][w] \in Int /\ lastOffered'[i][w] \in Int
  BY <1>1, Times DEF Onwards, UpstreamInv
<1>7. ASSUME NEW i \in Ids, NEW w \in Resolutions, NEW t \in Int
      PROVE  /\ LackedSince(i, w, t) => LackedSince(i, w, t)'
             /\ lastOffered[i][w] >= t => lastOffered'[i][w] >= t
  BY <1>6 DEF Onwards, LackedSince
<1>8. Answers(s)'
  <2>1. ASSUME r.pc = "set snapshot", NEW i \in Ids \ r.got.ids PROVE GoneSince(i, r.now)'
    <3>1. i \in Ids /\ GoneSince(i, r.now)
      BY <2>1 DEF Consistent, Answers
    <3>2. \A w \in Resolutions : LackedSince(i, w, r.now)'
      BY <1>5, <1>7, <3>1 DEF GoneSince
    <3>3. QED
      BY <3>2 DEF GoneSince
  <2>2. ASSUME r.pc = "set master"
        PROVE  /\ \A w \in r.lists : lastOffered'[r.id][w] >= r.now
               /\ \A w \in Resolutions \ r.lists : LackedSince(r.id, w, r.now)'
    <3>1. /\ \A w \in r.lists : lastOffered[r.id][w] >= r.now
          /\ \A w \in Resolutions \ r.lists : LackedSince(r.id, w, r.now)
      BY <2>2 DEF Consistent, Answers
    <3>2. QED
      BY <1>5, <1>7, <3>1
  <2>3. ASSUME r.op = "variant", NEW t \in Int
        PROVE  /\ lastOffered[r.id][r.res] >= t => lastOffered'[r.id][r.res] >= t
               /\ LackedSince(r.id, r.res, t) => LackedSince(r.id, r.res, t)'
    BY <1>5, <1>7, <2>3
  <2>4. r.now - TTL \in Int
    BY <1>5
  <2>5. QED
    BY <1>2, <1>5, <2>1, <2>2, <2>3, <2>4 DEF Consistent, Answers
<1>9. ASSUME Underway(s), s.raced = FALSE PROVE Sees(s)'
  <2>1. Sees(r) /\ UNCHANGED cacheVars
    BY <1>1, <1>2, <1>9 DEF Consistent, Underway, Request
  <2>2. WholeAt(r.now)'
    BY <2>1 DEF WholeAt, Sees, cacheVars, Expired
  <2>3. SnapshotAt(r.now)'
    <3>1. lastSnapshot \in Int
      BY Times
    <3>2. \A i \in Ids : GoneSince(i, lastSnapshot) => GoneSince(i, lastSnapshot)'
      BY <1>7, <2>1, <3>1 DEF GoneSince, cacheVars, LackedSince
    <3>3. QED
      BY <2>1, <3>2 DEF SnapshotAt, Sees, cacheVars, Expired
  <2>4. QED
    <3>1. r.now - TTL \in Int
      BY <1>5
    <3>2. r.op = "variant" /\ LackedSince(r.id, r.res, r.now - TTL) => LackedSince(r.id, r.res, r.now - TTL)'
      BY <1>5, <1>7, <3>1
    <3>3. QED
      BY <1>2, <2>1, <2>2, <2>3, <3>2 DEF Sees, cacheVars
<1>10. QED
  BY <1>3, <1>4, <1>8, <1>9 DEF Consistent, Underway

(* The cache as a whole, without the requests. *)
CacheType ==
    /\ stream \in [Ids -> {Absent} \cup 0 .. clock]
    /\ master \in [Ids -> [at : {Absent} \cup 0 .. clock, lists : SUBSET Resolutions]]
    /\ variant \in [Ids -> [Resolutions -> {Absent} \cup 0 .. clock]]
    /\ lastSnapshot \in {Never} \cup 0 .. clock
    /\ AppliedInv

CacheInv == CacheType /\ AgeInv /\ NoTornSet /\ SnapshotAt(clock)

(* What is true of the record of a request is true of the request. *)
LEMMA OfRecord ==
    ASSUME NEW q, NEW r, r = req'[q], Consistent(r)'
    PROVE  Consistent(req[q])'
BY DEF Consistent, Request, Proper, Answers, Underway, Sees, WholeAt, SnapshotAt,
       GoneSince, LackedSince, Expired

(* Nothing happens to a request but that it may learn that it was overtaken. *)
Kept(q) ==
    \/ req'[q] = req[q] /\ (UNCHANGED cacheVars \/ ~Underway(req[q]))
    \/ req[q].pc # "idle" /\ req'[q] = [req[q] EXCEPT !.raced = TRUE]

(* The requests, when all but some are left alone. *)
LEMMA RequestsKept ==
    ASSUME TypeOK, UpstreamInv, ReqInv, Onwards, req' = [q \in Requests |-> req'[q]],
           \A q \in Requests : Kept(q) \/ Consistent(req[q])'
    PROVE  ReqInv'
<1>1. ASSUME NEW q \in Requests, Kept(q) PROVE req'[q].pc = "idle" \/ Consistent(req[q])'
  <2>1. PICK r : r = req[q]
    OBVIOUS
  <2>2. PICK s : s = req'[q]
    OBVIOUS
  <2>3. CASE r.pc = "idle"
    BY <1>1, <2>1, <2>3 DEF Kept
  <2>4. CASE r.pc # "idle"
    <3>1. Consistent(r)
      BY <2>1, <2>4 DEF ReqInv
    <3>2. \/ s = r /\ (UNCHANGED cacheVars \/ ~Underway(r))
          \/ s = [r EXCEPT !.raced = TRUE]
      BY <1>1, <2>1, <2>2 DEF Kept
    <3>3. s = [r EXCEPT !.raced = TRUE] => s.raced = TRUE
      BY <3>1 DEF Consistent, Request
    <3>4. Consistent(s)'
      BY <3>1, <3>2, <3>3, StaysConsistent
    <3>5. QED
      BY <2>2, <3>4, OfRecord
  <2>5. QED
    BY <2>3, <2>4
<1>2. QED
  BY <1>1 DEF ReqInv

(* A step of requests: upstream stands still. *)
LEMMA StepInv ==
    ASSUME IInv, UNCHANGED upstreamVars, CacheInv', ReqInv'
    PROVE  IInv'
<1>1. Onwards
  BY StandsStill DEF IInv
<1>2. TypeOK'
  <2>1. clock \in 0 .. MaxClock /\ live \subseteq Ids /\ offer \in [Ids -> SUBSET Resolutions]
        /\ version \in 0 .. MaxChanges
    BY DEF IInv, TypeOK
  <2>2. applied'.version \in 0 .. version' /\ applied'.ids \subseteq Ids
    BY DEF CacheInv, CacheType, AppliedInv
  <2>3. QED
    BY <2>1, <2>2 DEF CacheInv, CacheType, TypeOK, upstreamVars
<1>3. QED
  BY <1>1, <1>2 DEF IInv, CacheInv, CacheType, Onwards

(* A step of one request. *)
LEMMA StepOf ==
    ASSUME IInv, NEW q \in Requests, UNCHANGED upstreamVars, CacheInv',
           req' = [p \in Requests |-> req'[p]], \A p \in Requests \ {q} : Kept(p),
           Consistent(req[q])'
    PROVE  IInv'
<1>1. ReqInv'
  BY StandsStill, RequestsKept DEF IInv
<1>2. QED
  BY <1>1, StepInv

(* The cache is as it was. *)
LEMMA CacheKept == ASSUME IInv, UNCHANGED <<cacheVars, upstreamVars>> PROVE CacheInv'
<1>1. CacheInv
  BY DEF IInv, CacheInv, CacheType, TypeOK
<1>2. QED
  BY <1>1 DEF CacheInv, CacheType, AppliedInv, AgeInv, NoTornSet, SnapshotAt,
              LackedSince, GoneSince, cacheVars, upstreamVars, Expired

(* The cache is made of functions. *)
Shaped ==
    /\ stream = [i \in Ids |-> stream[i]]
    /\ master = [i \in Ids |-> master[i]]
    /\ variant = [i \in Ids |-> [s \in Resolutions |-> variant[i][s]]]

(* Nothing but records that have expired at t is deleted. *)
Deletes(t) ==
    /\ Shaped'
    /\ \A i \in Ids :
        /\ stream'[i] = stream[i] \/ (stream'[i] = Absent /\ Expired(stream[i], t))
        /\ master'[i] = master[i] \/ (master'[i] = NoMaster /\ Expired(master[i].at, t))
        /\ \A s \in Resolutions : \/ variant'[i][s] = variant[i][s]
                                  \/ variant'[i][s] = Absent /\ Expired(variant[i][s], t)
    /\ UNCHANGED <<lastSnapshot, applied, overtaken, orphaned>>

(* Deleting what has expired tears nothing, at that time or later. *)
LEMMA DeletesWhole ==
    ASSUME TypeOK, NEW t \in Nat, NEW u \in Nat, t <= u, Deletes(t), WholeAt(u)
    PROVE  WholeAt(u)'
<1> SUFFICES ASSUME NEW i \in Ids, master'[i].at # Absent, ~Expired(master'[i].at, u),
                    NEW s \in Resolutions
             PROVE  variant'[i][s] = IF s \in master'[i].lists THEN master'[i].at ELSE Absent
  BY DEF WholeAt, Expired
<1>1. master'[i] = master[i]
  BY DEF Deletes, NoMaster
<1>2. variant[i][s] = IF s \in master[i].lists THEN master[i].at ELSE Absent
  BY <1>1 DEF WholeAt
<1>3. variant[i][s] \in Int /\ TTL \in Nat
  BY Times
<1>4. CASE s \in master[i].lists
  <2>1. ~Expired(variant[i][s], t)
    BY <1>1, <1>2, <1>3, <1>4, StillExpired
  <2>2. QED
    BY <1>1, <1>2, <1>4, <2>1 DEF Deletes
<1>5. CASE s \notin master[i].lists
  BY <1>1, <1>2, <1>5 DEF Deletes
<1>6. QED
  BY <1>4, <1>5

(* It leaves, of what the newest snapshot offers, what is not past its TTL then. *)
LEMMA DeletesSnapshot ==
    ASSUME TypeOK, NEW t \in Nat, NEW u \in Nat, t <= u, Deletes(t), SnapshotAt(u),
           UNCHANGED upstreamVars
    PROVE  SnapshotAt(u)'
<1> SUFFICES ASSUME lastSnapshot # Never, NEW i \in Ids
             PROVE  \/ stream'[i] = lastSnapshot
                    \/ stream'[i] = Absent /\ (Expired(lastSnapshot, u) \/ GoneSince(i, lastSnapshot))
  BY DEF SnapshotAt, Expired, GoneSince, LackedSince, upstreamVars, Deletes
<1>1. stream[i] \in Int /\ TTL \in Nat
  BY Times
<1>2. CASE stream[i] = lastSnapshot
  BY <1>1, <1>2, StillExpired DEF Deletes
<1>3. CASE stream[i] # lastSnapshot
  BY <1>3 DEF SnapshotAt, Deletes
<1>4. QED
  BY <1>2, <1>3

(* Both hold at the very time of the deletion. *)
LEMMA DeletesAt ==
    ASSUME TypeOK, NEW t \in Nat, Deletes(t), WholeAt(t), SnapshotAt(t), UNCHANGED upstreamVars
    PROVE  WholeAt(t)' /\ SnapshotAt(t)'
<1>1. t <= t
  OBVIOUS
<1>2. QED
  BY <1>1, DeletesWhole, DeletesSnapshot

(* So the cache is after it what the invariant says a cache is. *)
LEMMA DeletesCache ==
    ASSUME IInv, NEW t \in Nat, t <= clock, Deletes(t), UNCHANGED upstreamVars
    PROVE  CacheInv'
<1>1. PICK u \in Nat : u = clock
  BY Times DEF IInv
<1>2. WholeAt(u)
  BY <1>1 DEF IInv, NoTornSet, WholeAt
<1>3. SnapshotAt(u)
  BY <1>1 DEF IInv
<1>4. WholeAt(u)' /\ SnapshotAt(u)'
  BY <1>1, <1>2, <1>3, DeletesWhole, DeletesSnapshot DEF IInv
<1>5. NoTornSet' /\ SnapshotAt(clock)'
  BY <1>1, <1>4 DEF NoTornSet, WholeAt, SnapshotAt, upstreamVars, Expired, GoneSince, LackedSince
<1>6. /\ \A i \in Ids : stream'[i] \in {Absent} \cup 0 .. clock
      /\ \A i \in Ids : master'[i] = master[i] \/ master'[i] = NoMaster
      /\ \A i \in Ids, s \in Resolutions : variant'[i][s] = variant[i][s] \/ variant'[i][s] = Absent
  BY Times DEF IInv, Deletes
<1>7. CacheType'
  <2>1. stream' \in [Ids -> {Absent} \cup 0 .. clock]
    BY <1>6 DEF Deletes, Shaped
  <2>2. \A i \in Ids : master'[i] \in [at : {Absent} \cup 0 .. clock, lists : SUBSET Resolutions]
    BY <1>6, Times DEF IInv, NoMaster
  <2>3. master' \in [Ids -> [at : {Absent} \cup 0 .. clock, lists : SUBSET Resolutions]]
    BY <2>2 DEF Deletes, Shaped
  <2>4. \A i \in Ids, s \in Resolutions : variant'[i][s] \in {Absent} \cup 0 .. clock
    BY <1>6, Times DEF IInv
  <2>5. variant' \in [Ids -> [Resolutions -> {Absent} \cup 0 .. clock]]
    BY <2>4 DEF Deletes, Shaped
  <2>6. QED
    BY <2>1, <2>3, <2>5, Times DEF CacheType, AppliedInv, IInv, Deletes, upstreamVars
<1>8. AgeInv'
  BY <1>6 DEF AgeInv, IInv, upstreamVars, LackedSince, NoMaster
<1>9. QED
  BY <1>5, <1>7, <1>8 DEF CacheInv

-----------------------------------------------------------------------------
(* What a lookup does: the record is there and the request goes on at hit, or
   it is not, any more, and the request goes on at miss. *)
Looked(q, hit, miss, gone) ==
    /\ req' = [p \in Requests |-> req'[p]] /\ \A p \in Requests \ {q} : Kept(p)
    /\ Deletes(req[q].now)
    /\ \/ UNCHANGED cacheVars /\ ~gone /\ req'[q] = [req[q] EXCEPT !.pc = hit]
       \/ gone /\ req'[q] = [req[q] EXCEPT !.pc = miss]

(* Every request but one is left alone, or learns that it was overtaken. *)
LEMMA OthersKept ==
    ASSUME ReqInv, NEW q \in Requests, NEW next,
           \/ req' = [req EXCEPT ![q] = next] /\ UNCHANGED cacheVars
           \/ req' = Raced(q, next)
    PROVE  /\ req' = [p \in Requests |-> req'[p]] /\ req'[q] = next
           /\ \A p \in Requests \ {q} : Kept(p)
BY DEF ReqInv, Raced, Kept, Underway

(* The cache as the functions it consists of. *)
LEMMA Shapes ==
    ASSUME TypeOK
    PROVE  Shaped /\ (UNCHANGED <<stream, master, variant>> => Shaped')
<1>1. \A i \in Ids : variant[i] = [s \in Resolutions |-> variant[i][s]]
  BY DEF TypeOK
<1>2. variant = [i \in Ids |-> variant[i]]
  BY DEF TypeOK
<1>3. variant = [i \in Ids |-> [s \in Resolutions |-> variant[i][s]]]
  BY <1>1, <1>2
<1>4. QED
  BY <1>3 DEF TypeOK, Shaped

(* Going on at another point changes nothing else. *)
LEMMA GoesOn ==
    ASSUME ReqInv, TypeOK, NEW q \in Requests, NEW pc, Goto(q, pc)
    PROVE  /\ req' = [p \in Requests |-> req'[p]] /\ \A p \in Requests \ {q} : Kept(p)
           /\ req'[q] = [req[q] EXCEPT !.pc = pc] /\ UNCHANGED cacheVars
           /\ \A t : Deletes(t)
<1>1. req' = [req EXCEPT ![q] = [req[q] EXCEPT !.pc = pc]] /\ UNCHANGED cacheVars
  BY DEF Goto
<1>2. PICK next : next = [req[q] EXCEPT !.pc = pc]
  OBVIOUS
<1>3. \A t : Deletes(t)
  BY <1>1, Shapes DEF Deletes, cacheVars
<1>4. QED
  BY <1>1, <1>2, <1>3, OthersKept

(* What a lookup finds and leaves of a stream. *)
LEMMA StreamLooked ==
    ASSUME IInv, NEW q \in Requests, Consistent(req[q]), NEW hit, NEW miss, GetStream(q, hit, miss)
    PROVE  /\ Looked(q, hit, miss, stream[req[q].id] = Absent \/ Expired(stream[req[q].id], req[q].now))
           /\ \/ stream'[req[q].id] = Absent
              \/ ~(stream[req[q].id] = Absent \/ Expired(stream[req[q].id], req[q].now))
<1> DEFINE i == req[q].id
<1>1. ReqInv /\ TypeOK /\ i \in Ids
  BY DEF IInv, Consistent, Request
<1>2. CASE Goto(q, hit) /\ ~(stream[i] = Absent \/ Expired(stream[i], req[q].now))
  BY <1>1, <1>2, GoesOn DEF Looked
<1>3. CASE Goto(q, miss) /\ stream[i] = Absent
  BY <1>1, <1>3, GoesOn DEF Looked, cacheVars
<1>4. CASE /\ stream[i] # Absent /\ Expired(stream[i], req[q].now)
           /\ stream' = [stream EXCEPT ![i] = Absent] /\ GotoRaced(q, miss)
           /\ UNCHANGED <<master, variant, lastSnapshot, applied, overtaken, orphaned>>
  <2>1. PICK next : next = [req[q] EXCEPT !.pc = miss]
    OBVIOUS
  <2>2. req' = [p \in Requests |-> req'[p]] /\ req'[q] = next /\ \A p \in Requests \ {q} : Kept(p)
    BY <1>1, <1>4, <2>1, OthersKept DEF GotoRaced
  <2>3. Shaped'
    BY <1>1, <1>4, Shapes DEF Shaped
  <2>4. Deletes(req[q].now)
    BY <1>1, <1>4, <2>3 DEF Deletes
  <2>5. stream'[i] = Absent
    BY <1>1, <1>4 DEF TypeOK
  <2>6. QED
    BY <1>4, <2>1, <2>2, <2>4, <2>5 DEF Looked
<1>5. QED
  BY <1>2, <1>3, <1>4 DEF GetStream

(* What a lookup finds of a master; it leaves the streams and variants. *)
LEMMA MasterLooked ==
    ASSUME IInv, NEW q \in Requests, Consistent(req[q]), NEW hit, NEW miss, GetMaster(q, hit, miss)
    PROVE  /\ Looked(q, hit, miss, \/ master[req[q].id].at = Absent
                                   \/ Expired(master[req[q].id].at, req[q].now))
           /\ UNCHANGED <<stream, variant>>
<1> DEFINE i == req[q].id
           at == master[i].at
<1>1. ReqInv /\ TypeOK /\ i \in Ids
  BY DEF IInv, Consistent, Request
<1>2. CASE Goto(q, hit) /\ ~(at = Absent \/ Expired(at, req[q].now))
  BY <1>1, <1>2, GoesOn DEF Looked, cacheVars
<1>3. CASE Goto(q, miss) /\ at = Absent
  BY <1>1, <1>3, GoesOn DEF Looked, cacheVars
<1>4. CASE /\ at # Absent /\ Expired(at, req[q].now)
           /\ master' = [master EXCEPT ![i] = NoMaster] /\ GotoRaced(q, miss)
           /\ UNCHANGED <<stream, variant, lastSnapshot, applied, overtaken, orphaned>>
  <2>1. PICK next : next = [req[q] EXCEPT !.pc = miss]
    OBVIOUS
  <2>2. req' = [p \in Requests |-> req'[p]] /\ req'[q] = next /\ \A p \in Requests \ {q} : Kept(p)
    BY <1>1, <1>4, <2>1, OthersKept DEF GotoRaced
  <2>3. Shaped'
    BY <1>1, <1>4, Shapes DEF Shaped
  <2>4. Deletes(req[q].now)
    BY <1>1, <1>4, <2>3 DEF Deletes
  <2>5. QED
    BY <1>4, <2>1, <2>2, <2>4 DEF Looked
<1>5. QED
  BY <1>2, <1>3, <1>4 DEF GetMaster

(* What a lookup finds and leaves of a variant. *)
LEMMA VariantLooked ==
    ASSUME IInv, NEW q \in Requests, Consistent(req[q]), req[q].res \in Resolutions,
           NEW hit, NEW miss, GetVariant(q, hit, miss)
    PROVE  /\ Looked(q, hit, miss, \/ variant[req[q].id][req[q].res] = Absent
                                   \/ Expired(variant[req[q].id][req[q].res], req[q].now))
           /\ UNCHANGED <<stream, master>>
           /\ \/ variant'[req[q].id][req[q].res] = Absent
              \/ ~(\/ variant[req[q].id][req[q].res] = Absent
                   \/ Expired(variant[req[q].id][req[q].res], req[q].now))
<1> DEFINE i == req[q].id
           s == req[q].res
           at == variant[i][s]
<1>1. ReqInv /\ TypeOK /\ i \in Ids
  BY DEF IInv, Consistent, Request
<1>2. CASE Goto(q, hit) /\ ~(at = Absent \/ Expired(at, req[q].now))
  BY <1>1, <1>2, GoesOn DEF Looked, cacheVars
<1>3. CASE Goto(q, miss) /\ at = Absent
  BY <1>1, <1>3, GoesOn DEF Looked, cacheVars
<1>4. CASE /\ at # Absent /\ Expired(at, req[q].now)
           /\ variant' = [variant EXCEPT ![i][s] = Absent] /\ GotoRaced(q, miss)
           /\ UNCHANGED <<stream, master, lastSnapshot, applied, overtaken, orphaned>>
  <2>1. PICK next : next = [req[q] EXCEPT !.pc = miss]
    OBVIOUS
  <2>2. req' = [p \in Requests |-> req'[p]] /\ req'[q] = next /\ \A p \in Requests \ {q} : Kept(p)
    BY <1>1, <1>4, <2>1, OthersKept DEF GotoRaced
  <2>3. Deletes(req[q].now) /\ variant'[i][s] = Absent
    <3> HIDE DEF i, s
    <3>1. s \in Resolutions
      BY DEF s
    <3>2. /\ variant[i] \in [Resolutions -> {Absent} \cup 0 .. clock]
          /\ variant' = [variant EXCEPT ![i] = [variant[i] EXCEPT ![s] = Absent]]
      BY <1>1, <1>4 DEF TypeOK, i, s
    <3>3. /\ variant'[i] = [variant[i] EXCEPT ![s] = Absent]
          /\ \A j \in Ids \ {i} : variant'[j] = variant[j]
          /\ variant' = [j \in Ids |-> variant'[j]]
      BY <1>1, <3>2, Shapes DEF Shaped
    <3>4. /\ variant'[i][s] = Absent
          /\ \A w \in Resolutions \ {s} : variant'[i][w] = variant[i][w]
          /\ variant'[i] = [w \in Resolutions |-> variant'[i][w]]
      BY <3>1, <3>2, <3>3
    <3>5. \A j \in Ids : variant'[j] = [w \in Resolutions |-> variant'[j][w]]
      BY <1>1, <3>3, <3>4, Shapes DEF Shaped
    <3>6. variant' = [j \in Ids |-> [w \in Resolutions |-> variant'[j][w]]]
      BY <3>3, <3>5
    <3>7. \A j \in Ids, w \in Resolutions :
            \/ variant'[j][w] = variant[j][w]
            \/ variant'[j][w] = Absent /\ Expired(variant[j][w], req[q].now)
      BY <1>4, <3>3, <3>4 DEF i, s
    <3>8. Shaped'
      BY <1>1, <1>4, <3>6, Shapes DEF Shaped
    <3>9. QED
      BY <1>4, <3>4, <3>7, <3>8 DEF Deletes
  <2>4. QED
    BY <1>4, <2>1, <2>2, <2>3 DEF Looked
<1>5. QED
  BY <1>2, <1>3, <1>4 DEF GetVariant

(* What the records of requests and of the history consist of. *)
LEMMA RequestType ==
    ASSUME TypeOK, NEW r \in Request
    PROVE  /\ r.now \in Nat /\ r.now <= clock /\ r.id \in Ids /\ r.lists \subseteq Resolutions
           /\ r.got \in [version : 0 .. version, ids : SUBSET Ids]
BY Times DEF Request

(* The times at which something was last lacked or offered are numbers. *)
LEMMA HistoryType ==
    ASSUME TypeOK, UpstreamInv, NEW i \in Ids, NEW s \in Resolutions
    PROVE  lastLacked[i][s] \in Int /\ lastOffered[i][s] \in Int
BY Times DEF UpstreamInv

(* A request under way goes on at another point, and no other has changed the
   cache before. *)
LEMMA NextConsistent ==
    ASSUME IInv, UNCHANGED upstreamVars, NEW r, Consistent(r), Underway(r), Deletes(r.now),
           NEW pc \in Pcs \ {"set snapshot", "set master", "stream again"},
           NEW s, s = [r EXCEPT !.pc = pc], Proper(s),
           pc = "found" /\ r.op = "variant" => lastOffered[r.id][r.res] >= r.now - TTL,
           pc \in {"404", "404 master", "404 cooldown"} /\ r.op = "variant" =>
                LackedSince(r.id, r.res, r.now - TTL) \/ r.raced,
           pc = "check master" /\ r.raced = FALSE => variant'[r.id][r.res] = Absent,
           pc = "cooldown" /\ r.raced = FALSE => stream'[r.id] = Absent,
           pc = "lookup again" /\ r.op = "variant" /\ r.raced = FALSE =>
                LackedSince(r.id, r.res, r.now - TTL)
    PROVE  Consistent(s)'
<1>1. r \in Request /\ TypeOK
  BY DEF Consistent, IInv
<1>2. /\ \A f \in {"op", "id", "res", "now", "got", "lists", "raced"} : s[f] = r[f]
      /\ s.pc = pc /\ s \in Request
  BY <1>1 DEF Request
<1>3. s \in Request' /\ Proper(s)'
  BY <1>2 DEF Request, upstreamVars, Proper
<1>4. Answers(s)'
  BY <1>2 DEF Answers, LackedSince, upstreamVars
<1>5. ASSUME Underway(s), s.raced = FALSE PROVE Sees(s)'
  <2>1. Sees(r)
    BY <1>2, <1>5 DEF Consistent
  <2>2. WholeAt(r.now)' /\ SnapshotAt(r.now)'
    <3>1. r.now \in Nat
      BY <1>1, RequestType
    <3>2. PICK t \in Nat : t = r.now
      BY <3>1
    <3>3. WholeAt(t) /\ SnapshotAt(t) /\ Deletes(t)
      BY <2>1, <3>2 DEF Sees
    <3>4. WholeAt(t)' /\ SnapshotAt(t)'
      BY <1>1, <3>3, DeletesAt
    <3>5. QED
      BY <3>2, <3>4
  <2>3. WholeAt(s.now)' /\ SnapshotAt(s.now)'
    BY <1>2, <2>2
  <2>4. QED
    BY <1>2, <1>5, <2>3 DEF Sees, LackedSince, upstreamVars
<1>6. QED
  BY <1>3, <1>4, <1>5 DEF Consistent, Underway

(* A lookup and what follows from it. *)
LEMMA LookedInv ==
    ASSUME IInv, UNCHANGED upstreamVars, NEW q \in Requests, NEW r, r = req[q], Consistent(r),
           NEW hit, NEW miss, NEW gone, Looked(q, hit, miss, gone), NEW s, s = req'[q],
           Consistent(s)'
    PROVE  IInv'
<1>1. r.now \in Nat /\ r.now <= clock
  BY Times DEF IInv, Consistent, Request
<1>2. CacheInv'
  BY <1>1, DeletesCache DEF Looked
<1>3. Consistent(req[q])'
  BY OfRecord
<1>4. QED
  BY <1>2, <1>3, StepOf DEF Looked

(* A request that is not idle is consistent, and what that says of its type. *)
LEMMA Running ==
    ASSUME IInv, NEW q \in Requests, req[q].pc # "idle", NEW r, r = req[q]
    PROVE  /\ Consistent(r) /\ r \in Request /\ r.id \in Ids /\ r.now \in Nat /\ r.now <= clock
           /\ r.op \in {"player", "master", "variant"}
           /\ r.op = "variant" => r.res \in Resolutions
           /\ TTL \in Nat /\ Cooldown \in Nat /\ Cooldown <= TTL
<1>1. Consistent(r) /\ r \in Request /\ TypeOK
  BY DEF IInv, ReqInv, Consistent
<1>2. r.id \in Ids /\ r.now \in Nat /\ r.now <= clock /\ r.op \in {"player", "master", "variant"}
  BY <1>1, Times DEF Request
<1>3. QED
  BY <1>1, <1>2, Times DEF Consistent, Proper

(* A variant record that a request finds was offered within its TTL. *)
LEMMA FoundOffered ==
    ASSUME IInv, NEW r \in Request, r.res \in Resolutions,
           ~(variant[r.id][r.res] = Absent \/ Expired(variant[r.id][r.res], r.now))
    PROVE  lastOffered[r.id][r.res] >= r.now - TTL
<1>1. r.id \in Ids /\ r.now \in Nat /\ TTL \in Nat /\ variant[r.id][r.res] \in Int
  BY Times DEF IInv, Request
<1>2. lastOffered[r.id][r.res] >= variant[r.id][r.res] /\ lastOffered[r.id][r.res] \in Int
  BY <1>1, Times DEF IInv, AgeInv, UpstreamInv
<1>3. QED
  BY <1>1, <1>2 DEF Expired

(* A lookup of the master keeps the invariant, and is answered as it was at that time. *)
LEMMA LookupMasterInv == ASSUME IInv, NEW q \in Requests, LookupMaster(q) PROVE IInv'
<1>1. PICK r : r = req[q]
  OBVIOUS
<1>2. PICK s : s = req'[q]
  OBVIOUS
<1>3. r.pc = "lookup master" /\ UNCHANGED upstreamVars /\ GetMaster(q, "found", "stream")
  BY <1>1 DEF LookupMaster
<1>4. Consistent(r) /\ r \in Request /\ r.op = "master"
  BY <1>1, <1>3, Running DEF Consistent, Proper
<1>5. PICK gone : Looked(q, "found", "stream", gone)
  BY <1>1, <1>3, <1>4, MasterLooked
<1>6. PICK pc \in {"found", "stream"} : s = [r EXCEPT !.pc = pc]
  BY <1>1, <1>2, <1>5 DEF Looked
<1>7. Proper(s) /\ Underway(r)
  BY <1>3, <1>4, <1>6 DEF Proper, Request, Underway, Done
<1>8. Consistent(s)'
  BY <1>1, <1>3, <1>4, <1>5, <1>6, <1>7, NextConsistent DEF Looked, Pcs, Done
<1>9. QED
  BY <1>1, <1>2, <1>3, <1>4, <1>5, <1>8, LookedInv

(* So does a lookup of the variant. *)
LEMMA LookupVariantInv == ASSUME IInv, NEW q \in Requests, LookupVariant(q) PROVE IInv'
<1>1. PICK r : r = req[q]
  OBVIOUS
<1>2. PICK s : s = req'[q]
  OBVIOUS
<1>3. r.pc = "lookup variant" /\ UNCHANGED upstreamVars /\ GetVariant(q, "found", "check master")
  BY <1>1 DEF LookupVariant
<1>4. Consistent(r) /\ r \in Request /\ r.op = "variant" /\ r.res \in Resolutions
  BY <1>1, <1>3, Running DEF Consistent, Proper
<1>5. PICK gone : gone = (variant[r.id][r.res] = Absent \/ Expired(variant[r.id][r.res], r.now))
  OBVIOUS
<1>6. Looked(q, "found", "check master", gone) /\ (variant'[r.id][r.res] = Absent \/ ~gone)
  BY <1>1, <1>3, <1>4, <1>5, VariantLooked
<1>7. PICK pc \in {"found", "check master"} :
        s = [r EXCEPT !.pc = pc] /\ (IF pc = "found" THEN ~gone ELSE gone)
  BY <1>1, <1>2, <1>6 DEF Looked
<1>8. Proper(s) /\ Underway(r)
  BY <1>3, <1>4, <1>7 DEF Proper, Request, Underway, Done
<1>9. pc = "found" => lastOffered[r.id][r.res] >= r.now - TTL
  BY <1>4, <1>5, <1>7, FoundOffered
<1>10. Deletes(r.now) /\ (pc = "check master" => variant'[r.id][r.res] = Absent)
  BY <1>1, <1>6, <1>7 DEF Looked
<1>11. Consistent(s)'
  BY <1>3, <1>4, <1>7, <1>8, <1>9, <1>10, NextConsistent DEF Pcs, Done
<1>12. QED
  BY <1>1, <1>2, <1>3, <1>4, <1>6, <1>11, LookedInv

(* variant, when the master is there but not the resolution: upstream did not
   list it when the master was fetched. *)
LEMMA CheckMasterInv == ASSUME IInv, NEW q \in Requests, CheckMaster(q) PROVE IInv'
<1>1. PICK r : r = req[q]
  OBVIOUS
<1>2. PICK s : s = req'[q]
  OBVIOUS
<1>3. r.pc = "check master" /\ UNCHANGED upstreamVars /\ GetMaster(q, "404 master", "stream")
  BY <1>1 DEF CheckMaster
<1>4. /\ Consistent(r) /\ r \in Request /\ r.op = "variant" /\ r.res \in Resolutions
      /\ r.id \in Ids /\ r.now \in Nat /\ TTL \in Nat
  BY <1>1, <1>3, Running DEF Consistent, Proper
<1>5. PICK gone : gone = (master[r.id].at = Absent \/ Expired(master[r.id].at, r.now))
  OBVIOUS
<1>6. Looked(q, "404 master", "stream", gone)
  BY <1>1, <1>3, <1>4, <1>5, MasterLooked
<1>7. PICK pc : /\ pc \in {"404 master", "stream"}
                /\ s = [r EXCEPT !.pc = pc] /\ (IF pc = "404 master" THEN ~gone ELSE gone)
  BY <1>1, <1>2, <1>6 DEF Looked
<1>8. Proper(s) /\ Underway(r)
  BY <1>3, <1>4, <1>7 DEF Proper, Request, Underway, Done
<1>9. ASSUME pc = "404 master", ~r.raced PROVE LackedSince(r.id, r.res, r.now - TTL)
  <2>1. master[r.id].at # Absent /\ ~Expired(master[r.id].at, r.now)
    BY <1>5, <1>7, <1>9
  <2>2. WholeAt(r.now) /\ variant[r.id][r.res] = Absent
    BY <1>3, <1>4, <1>8, <1>9 DEF Consistent, Sees, Request
  <2>3. r.res \notin master[r.id].lists
    BY <1>4, <2>1, <2>2 DEF WholeAt
  <2>4. lastLacked[r.id][r.res] >= master[r.id].at
    BY <1>4, <2>1, <2>3 DEF IInv, AgeInv, LackedSince
  <2>5. master[r.id].at \in Int /\ lastLacked[r.id][r.res] \in Int
    <3>1. TypeOK /\ UpstreamInv
      BY DEF IInv
    <3>2. QED
      BY <1>4, <3>1, Times, HistoryType
  <2>6. TTL \in Nat /\ r.now \in Nat
    BY <1>4
  <2>7. QED
    BY <2>1, <2>4, <2>5, <2>6 DEF LackedSince, Expired
<1>10. Deletes(r.now) /\ (r.raced \/ ~r.raced)
  BY <1>1, <1>6 DEF Looked
<1>11. Consistent(s)'
  BY <1>3, <1>4, <1>7, <1>8, <1>9, <1>10, NextConsistent DEF Pcs, Done
<1>12. QED
  BY <1>1, <1>2, <1>3, <1>4, <1>6, <1>11, LookedInv

(* So does a lookup of the stream. *)
LEMMA LookupStreamInv == ASSUME IInv, NEW q \in Requests, LookupStream(q) PROVE IInv'
<1>1. PICK r : r = req[q]
  OBVIOUS
<1>2. PICK s : s = req'[q]
  OBVIOUS
<1>3. PICK known : known = IF r.op = "player" THEN "found" ELSE "fetch master"
  OBVIOUS
<1>4. r.pc = "stream" /\ UNCHANGED upstreamVars /\ GetStream(q, known, "cooldown")
  BY <1>1, <1>3 DEF LookupStream, Known
<1>5. Consistent(r) /\ r \in Request /\ Proper(r)
  BY <1>1, <1>4, Running DEF Consistent
<1>6. PICK gone : gone = (stream[r.id] = Absent \/ Expired(stream[r.id], r.now))
  OBVIOUS
<1>7. Looked(q, known, "cooldown", gone) /\ (stream'[r.id] = Absent \/ ~gone)
  BY <1>1, <1>4, <1>5, <1>6, StreamLooked
<1>8. PICK pc \in {known, "cooldown"} :
        s = [r EXCEPT !.pc = pc] /\ (pc = "cooldown" => gone)
  BY <1>1, <1>2, <1>3, <1>7 DEF Looked
<1>9. Proper(s) /\ Underway(r)
  BY <1>3, <1>4, <1>5, <1>8 DEF Proper, Request, Underway, Done
<1>10. Deletes(r.now) /\ (pc = "cooldown" => stream'[r.id] = Absent)
  BY <1>1, <1>7, <1>8 DEF Looked
<1>11. /\ pc \in Pcs \ {"set snapshot", "set master", "stream again", "check master", "lookup again"}
       /\ pc \notin {"404", "404 master", "404 cooldown"}
       /\ ~(pc = "found" /\ r.op = "variant")
  BY <1>3, <1>8 DEF Pcs, Done
<1>12. Consistent(s)'
  BY <1>4, <1>5, <1>8, <1>9, <1>10, <1>11, NextConsistent
<1>13. QED
  BY <1>1, <1>2, <1>4, <1>5, <1>7, <1>12, LookedInv

(* stream, within the cooldown: the last snapshot did not list the stream. *)
LEMMA CheckCooldownInv == ASSUME IInv, NEW q \in Requests, CheckCooldown(q) PROVE IInv'
<1>1. PICK r : r = req[q]
  OBVIOUS
<1>2. PICK s : s = req'[q]
  OBVIOUS
<1>3. PICK pc : pc = IF r.now - lastSnapshot < Cooldown
                       THEN (IF r.op = "player" THEN "404 cooldown" ELSE "lookup again")
                       ELSE "fetch streams"
  OBVIOUS
<1>4. r.pc = "cooldown" /\ UNCHANGED upstreamVars /\ Goto(q, pc)
  BY <1>1, <1>3 DEF CheckCooldown
<1>5. /\ Consistent(r) /\ r \in Request /\ Proper(r) /\ r.id \in Ids /\ r.now \in Nat
      /\ TTL \in Nat /\ Cooldown \in Nat /\ Cooldown <= TTL
      /\ r.op = "variant" => r.res \in Resolutions
  BY <1>1, <1>4, Running DEF Consistent
<1>6. /\ s = [r EXCEPT !.pc = pc] /\ Deletes(r.now)
      /\ req' = [p \in Requests |-> req'[p]] /\ \A p \in Requests \ {q} : Kept(p)
  BY <1>1, <1>2, <1>4, GoesOn DEF IInv
<1>7. Proper(s) /\ Underway(r)
  BY <1>3, <1>4, <1>5, <1>6 DEF Proper, Request, Underway, Done
<1>8. ASSUME pc = "lookup again", r.op = "variant", r.raced = FALSE
      PROVE  LackedSince(r.id, r.res, r.now - TTL)
  <2>1. r.now - lastSnapshot < Cooldown
    BY <1>3, <1>8
  <2>2. lastSnapshot \in Nat /\ lastSnapshot # Never /\ Never \in Int /\ Absent = -1
    BY <1>5, <2>1, Times DEF IInv
  <2>3. SnapshotAt(r.now) /\ stream[r.id] = Absent
    BY <1>4, <1>5, <1>7, <1>8 DEF Consistent, Sees
  <2>4. ~Expired(lastSnapshot, r.now)
    BY <1>5, <2>1, <2>2 DEF Expired
  <2>5. r.res \in Resolutions /\ lastSnapshot # Absent
    <3>1. r.res \in Resolutions
      BY <1>5, <1>8
    <3>2. lastSnapshot # Absent
      BY <2>2 DEF Absent
    <3>3. QED
      BY <3>1, <3>2
  <2>6. lastLacked[r.id][r.res] >= lastSnapshot
    BY <1>5, <2>2, <2>3, <2>4, <2>5 DEF SnapshotAt, GoneSince, LackedSince
  <2>7. lastLacked[r.id][r.res] \in Int
    BY <1>5, <2>5, HistoryType DEF IInv
  <2>8. QED
    BY <1>5, <2>1, <2>2, <2>6, <2>7 DEF LackedSince
<1>9. /\ pc \in Pcs \ {"set snapshot", "set master", "stream again", "check master", "cooldown"}
      /\ pc # "found" /\ ~(pc \in {"404", "404 master", "404 cooldown"} /\ r.op = "variant")
  BY <1>3 DEF Pcs, Done
<1>10. Consistent(s)'
  BY <1>4, <1>5, <1>6, <1>7, <1>8, <1>9, NextConsistent
<1>11. Consistent(req[q])'
  BY <1>2, <1>10, OfRecord
<1>12. CacheInv'
  BY <1>4, CacheKept DEF Goto
<1>13. QED
  BY <1>4, <1>6, <1>11, <1>12, StepOf

(* fetchStreams: what upstream lists at this moment is not older than the
   request. *)
LEMMA FetchStreamsInv == ASSUME IInv, NEW q \in Requests, FetchStreams(q) PROVE IInv'
<1>1. PICK r : r = req[q]
  OBVIOUS
<1>2. PICK got : got = [version |-> version, ids |-> live]
  OBVIOUS
<1>3. PICK s : /\ \/ s = [r EXCEPT !.pc = "set snapshot", !.got = got]
                  \/ s = [r EXCEPT !.pc = "502"]
               /\ req' = [req EXCEPT ![q] = s]
  <2>1. CASE req' = [req EXCEPT ![q].pc = "set snapshot", ![q].got = got]
    BY <1>1, <1>2, <2>1 DEF IInv, ReqInv
  <2>2. CASE req' = [req EXCEPT ![q].pc = "502"]
    BY <1>1, <2>2 DEF IInv, ReqInv
  <2>3. QED
    BY <1>1, <1>2, <2>1, <2>2 DEF FetchStreams
<1>4. r.pc = "fetch streams" /\ UNCHANGED cacheVars /\ UNCHANGED upstreamVars
  BY <1>1 DEF FetchStreams
<1>5. Consistent(r) /\ r \in Request /\ TypeOK /\ r.now \in Nat /\ r.now <= clock
  BY <1>1, <1>4, Running DEF IInv
<1>6. got \in [version : 0 .. version, ids : SUBSET Ids] /\ got.ids = live
  BY <1>2, StreamCacheAssumption DEF IInv, TypeOK
<1>7. /\ \A f \in {"op", "id", "res", "now", "lists", "raced"} : s[f] = r[f]
      /\ s.pc \in {"set snapshot", "502"} /\ s \in Request
      /\ s.pc = "set snapshot" => s.got = got
  BY <1>3, <1>5, <1>6 DEF Request, Pcs, Done
<1>8. s \in Request' /\ Proper(s)'
  <2>1. Proper(s)
    BY <1>4, <1>5, <1>7 DEF Proper, Consistent
  <2>2. QED
    BY <1>4, <1>7, <2>1 DEF Request, upstreamVars, Proper
<1>9. ASSUME s.pc = "set snapshot", NEW i \in Ids \ s.got.ids, NEW w \in Resolutions
      PROVE  LackedSince(i, w, s.now)'
  <2>1. lastLacked[i][w] = clock
    BY <1>6, <1>7, <1>9 DEF IInv, UpstreamInv
  <2>2. lastLacked'[i][w] = clock
    BY <1>4, <2>1 DEF upstreamVars
  <2>3. QED
    BY <1>5, <1>7, <2>2 DEF LackedSince
<1>10. Answers(s)'
  BY <1>7, <1>9 DEF Answers, GoneSince
<1>11. ASSUME Underway(s), s.raced = FALSE PROVE Sees(s)'
  <2>1. WholeAt(r.now) /\ SnapshotAt(r.now)
    BY <1>4, <1>5, <1>7, <1>11 DEF Consistent, Underway, Done, Sees
  <2>2. WholeAt(s.now)' /\ SnapshotAt(s.now)'
    BY <1>4, <1>7, <2>1 DEF WholeAt, SnapshotAt, Expired, GoneSince, LackedSince, cacheVars, upstreamVars
  <2>3. QED
    BY <1>7, <2>2 DEF Sees
<1>12. Consistent(s)'
  BY <1>8, <1>10, <1>11 DEF Consistent, Underway
<1>13. /\ req' = [p \in Requests |-> req'[p]] /\ req'[q] = s
       /\ \A p \in Requests \ {q} : Kept(p)
  BY <1>3, <1>4, OthersKept DEF IInv
<1>14. Consistent(req[q])' /\ CacheInv'
  BY <1>4, <1>12, <1>13, OfRecord, CacheKept
<1>15. QED
  BY <1>4, <1>13, <1>14, StepOf

(* resolveMaster: the resolutions listed at this moment are offered since the
   request began, and the others were lacked since. *)
LEMMA FetchMasterInv == ASSUME IInv, NEW q \in Requests, FetchMaster(q) PROVE IInv'
<1>1. PICK r : r = req[q]
  OBVIOUS
<1>2. PICK lists : lists = offer[r.id]
  OBVIOUS
<1>3. PICK s : /\ \/ s = [r EXCEPT !.pc = "set master", !.lists = lists]
                  \/ s = [r EXCEPT !.pc = "evict"]
               /\ req' = [req EXCEPT ![q] = s]
  <2>1. CASE req' = [req EXCEPT ![q].pc = "set master", ![q].lists = lists]
    BY <1>1, <1>2, <2>1 DEF IInv, ReqInv
  <2>2. CASE req' = [req EXCEPT ![q].pc = "evict"]
    BY <1>1, <2>2 DEF IInv, ReqInv
  <2>3. QED
    BY <1>1, <1>2, <2>1, <2>2 DEF FetchMaster
<1>4. r.pc = "fetch master" /\ UNCHANGED cacheVars /\ UNCHANGED upstreamVars
  BY <1>1 DEF FetchMaster
<1>5. /\ Consistent(r) /\ r \in Request /\ TypeOK /\ r.id \in Ids /\ r.now \in Nat /\ r.now <= clock
  BY <1>1, <1>4, Running DEF IInv
<1>6. lists \subseteq Resolutions
  BY <1>2, <1>5 DEF TypeOK
<1>7. /\ \A f \in {"op", "id", "res", "now", "got", "raced"} : s[f] = r[f]
      /\ s.pc \in {"set master", "evict"} /\ s \in Request
      /\ s.pc = "set master" => s.lists = lists
  BY <1>3, <1>5, <1>6 DEF Request, Pcs, Done
<1>8. s \in Request' /\ Proper(s)'
  <2>1. Proper(s)
    BY <1>4, <1>5, <1>7 DEF Proper, Consistent
  <2>2. QED
    BY <1>4, <1>7, <2>1 DEF Request, upstreamVars, Proper
<1>9. ASSUME s.pc = "set master", NEW w \in Resolutions
      PROVE  IF w \in s.lists THEN lastOffered'[s.id][w] >= s.now ELSE LackedSince(s.id, w, s.now)'
  <2>1. IF w \in lists THEN lastOffered[r.id][w] = clock ELSE lastLacked[r.id][w] = clock
    BY <1>2, <1>5, <1>9 DEF IInv, UpstreamInv
  <2>2. IF w \in lists THEN lastOffered'[r.id][w] = clock ELSE lastLacked'[r.id][w] = clock
    BY <1>4, <2>1 DEF upstreamVars
  <2>3. QED
    BY <1>5, <1>7, <1>9, <2>2 DEF LackedSince
<1>10. Answers(s)'
  BY <1>6, <1>7, <1>9 DEF Answers
<1>11. ASSUME Underway(s), s.raced = FALSE PROVE Sees(s)'
  <2>1. WholeAt(r.now) /\ SnapshotAt(r.now)
    BY <1>4, <1>5, <1>7, <1>11 DEF Consistent, Underway, Done, Sees
  <2>2. WholeAt(s.now)' /\ SnapshotAt(s.now)'
    BY <1>4, <1>7, <2>1 DEF WholeAt, SnapshotAt, Expired, GoneSince, LackedSince, cacheVars, upstreamVars
  <2>3. QED
    BY <1>7, <2>2 DEF Sees
<1>12. Consistent(s)'
  BY <1>8, <1>10, <1>11 DEF Consistent, Underway
<1>13. /\ req' = [p \in Requests |-> req'[p]] /\ req'[q] = s
       /\ \A p \in Requests \ {q} : Kept(p)
  BY <1>3, <1>4, OthersKept DEF IInv
<1>14. Consistent(req[q])' /\ CacheInv'
  BY <1>4, <1>12, <1>13, OfRecord, CacheKept
<1>15. QED
  BY <1>4, <1>13, <1>14, StepOf

(* setSnapshot: what is not listed was gone when it was not, and is forgotten. *)
LEMMA SetSnapshotInv == ASSUME IInv, NEW q \in Requests, SetSnapshot(q) PROVE IInv'
<1>1. PICK r : r = req[q]
  OBVIOUS
<1>2. PICK ids : ids = r.got.ids
  OBVIOUS
<1>3. PICK s : s = [r EXCEPT !.pc = "stream again", !.got = NoSnapshot]
  OBVIOUS
<1>4. /\ r.pc = "set snapshot" /\ UNCHANGED upstreamVars
      /\ stream' = [i \in Ids |-> IF i \in ids THEN r.now ELSE Absent]
      /\ master' = [i \in Ids |-> IF i \in ids THEN master[i] ELSE NoMaster]
      /\ variant' = [i \in Ids |-> IF i \in ids THEN variant[i]
                                     ELSE [w \in Resolutions |-> Absent]]
      /\ lastSnapshot' = r.now /\ applied' = r.got
      /\ req' = Raced(q, s)
  BY <1>1, <1>2, <1>3 DEF SetSnapshot
<1>5. Consistent(r) /\ r \in Request /\ TypeOK /\ r.now \in Nat /\ r.now <= clock /\ TTL \in Nat
  BY <1>1, <1>4, Running DEF IInv
<1>6. r.got \in [version : 0 .. version, ids : SUBSET Ids] /\ ids \subseteq Ids
  BY <1>2, <1>5, RequestType
<1>7. \A i \in Ids \ ids : GoneSince(i, r.now)'
  BY <1>2, <1>4, <1>5 DEF Consistent, Answers, GoneSince, LackedSince, upstreamVars
<1>8. SnapshotAt(clock)' /\ SnapshotAt(r.now)'
  BY <1>4, <1>7 DEF SnapshotAt
<1>9. \A i \in Ids : \/ master'[i] = master[i] /\ variant'[i] = variant[i]
                     \/ master'[i].at = Absent /\ \A w \in Resolutions : variant'[i][w] = Absent
  BY <1>4 DEF NoMaster
<1>10. ASSUME NEW t, WholeAt(t) PROVE WholeAt(t)'
  BY <1>9, <1>10 DEF WholeAt, Expired
<1>11. CacheInv'
  <2>1. CacheType'
    <3> r.now \in 0 .. clock
      BY <1>5, Times
    <3>1. stream' \in [Ids -> {Absent} \cup 0 .. clock]
      BY <1>4
    <3>2. master' \in [Ids -> [at : {Absent} \cup 0 .. clock, lists : SUBSET Resolutions]]
      BY <1>4, <1>5, Times DEF NoMaster
    <3>3. \A i \in Ids : variant'[i] \in [Resolutions -> {Absent} \cup 0 .. clock]
      BY <1>4, <1>5 DEF TypeOK
    <3>4. variant' = [i \in Ids |-> variant'[i]]
      BY <1>4
    <3>5. variant' \in [Ids -> [Resolutions -> {Absent} \cup 0 .. clock]]
      BY <3>3, <3>4
    <3>6. lastSnapshot' \in {Never} \cup 0 .. clock
      BY <1>4
    <3>7. QED
      BY <1>4, <1>6, <3>1, <3>2, <3>5, <3>6 DEF CacheType, AppliedInv, upstreamVars
  <2>2. AgeInv'
    BY <1>4, <1>9 DEF IInv, AgeInv, LackedSince, upstreamVars
  <2>3. NoTornSet'
    BY <1>4, <1>9 DEF IInv, NoTornSet, Expired, upstreamVars
  <2>4. QED
    BY <1>8, <2>1, <2>2, <2>3 DEF CacheInv
<1>12. /\ \A f \in {"op", "id", "res", "now", "raced"} : s[f] = r[f]
       /\ s.pc = "stream again" /\ s \in Request
  <2>1. NoSnapshot \in [version : 0 .. version, ids : SUBSET Ids]
    BY <1>5, StreamCacheAssumption DEF TypeOK, NoSnapshot
  <2>2. QED
    BY <1>3, <1>5, <2>1 DEF Request, Pcs
<1>13. s \in Request' /\ Proper(s)'
  BY <1>4, <1>5, <1>12 DEF Request, upstreamVars, Proper, Consistent
<1>14. ASSUME s.raced = FALSE PROVE Sees(s)'
  <2>1. WholeAt(r.now)
    BY <1>4, <1>5, <1>12, <1>14 DEF Consistent, Underway, Done, Sees
  <2>2. WholeAt(s.now)' /\ SnapshotAt(s.now)'
    BY <1>8, <1>10, <1>12, <2>1
  <2>3. QED
    BY <1>4, <1>12, <2>2 DEF Sees
<1>15. Consistent(s)'
  BY <1>12, <1>13, <1>14 DEF Consistent, Answers
<1>16. /\ req' = [p \in Requests |-> req'[p]] /\ req'[q] = s
       /\ \A p \in Requests \ {q} : Kept(p)
  BY <1>4, OthersKept DEF IInv
<1>17. Consistent(req[q])'
  BY <1>15, <1>16, OfRecord
<1>18. QED
  BY <1>4, <1>11, <1>16, <1>17, StepOf

(* stream, once more: an unlisted stream was gone when the request asked. *)
LEMMA LookupStreamAgainInv == ASSUME IInv, NEW q \in Requests, LookupStreamAgain(q) PROVE IInv'
<1>1. PICK r : r = req[q]
  OBVIOUS
<1>2. PICK s : s = req'[q]
  OBVIOUS
<1>3. PICK known : known = IF r.op = "player" THEN "found" ELSE "fetch master"
  OBVIOUS
<1>4. PICK unknown : unknown = IF r.op = "player" THEN "404" ELSE "lookup again"
  OBVIOUS
<1>5. r.pc = "stream again" /\ UNCHANGED upstreamVars /\ GetStream(q, known, unknown)
  BY <1>1, <1>3, <1>4 DEF LookupStreamAgain, Known, Unknown
<1>6. /\ Consistent(r) /\ r \in Request /\ Proper(r) /\ r.id \in Ids /\ r.now \in Nat
      /\ TTL \in Nat
      /\ r.op = "variant" => r.res \in Resolutions
  BY <1>1, <1>5, Running DEF Consistent
<1>7. PICK gone : gone = (stream[r.id] = Absent \/ Expired(stream[r.id], r.now))
  OBVIOUS
<1>8. Looked(q, known, unknown, gone)
  BY <1>1, <1>5, <1>6, <1>7, StreamLooked
<1>9. PICK pc : /\ pc = known \/ (pc = unknown /\ gone)
                /\ s = [r EXCEPT !.pc = pc]
  BY <1>1, <1>2, <1>8 DEF Looked
<1>10. Proper(s) /\ Underway(r)
  BY <1>3, <1>4, <1>5, <1>6, <1>9 DEF Proper, Request, Underway, Done
<1>11. ASSUME pc = "lookup again", r.op = "variant", r.raced = FALSE
       PROVE  LackedSince(r.id, r.res, r.now - TTL)
  <2>1. gone /\ r.res \in Resolutions
    <3>1. pc # known
      BY <1>3, <1>11
    <3>2. gone
      BY <1>9, <3>1
    <3>3. r.res \in Resolutions
      BY <1>6, <1>11
    <3>4. QED
      BY <3>2, <3>3
  <2>2. SnapshotAt(r.now) /\ lastSnapshot = r.now
    BY <1>5, <1>6, <1>10, <1>11 DEF Consistent, Sees
  <2>3. ~Expired(r.now, r.now)
    <3>1. \A t \in Nat : ~Expired(t, t)
      BY StreamCacheAssumption DEF Expired
    <3>2. QED
      BY <1>6, <3>1
  <2>4. lastSnapshot # Never
    BY <1>6, <2>2, StreamCacheAssumption DEF Never
  <2>5. lastLacked[r.id][r.res] >= r.now
    <3>1. stream[r.id] = Absent \/ Expired(stream[r.id], r.now)
      BY <1>7, <2>1
    <3>2. stream[r.id] # lastSnapshot
      <4>1. r.now # Absent
        BY <1>6 DEF Absent
      <4>2. QED
        BY <2>2, <2>3, <3>1, <4>1
    <3>3. QED
      BY <1>6, <2>1, <2>2, <2>3, <2>4, <3>2 DEF SnapshotAt, GoneSince, LackedSince
  <2>6. lastLacked[r.id][r.res] \in Int
    BY <1>6, <2>1, HistoryType DEF IInv
  <2>7. QED
    BY <1>6, <2>5, <2>6 DEF LackedSince
<1>12. /\ pc \in Pcs \ {"set snapshot", "set master", "stream again", "check master", "cooldown"}
       /\ ~(pc = "found" /\ r.op = "variant")
       /\ ~(pc \in {"404", "404 master", "404 cooldown"} /\ r.op = "variant")
  BY <1>3, <1>4, <1>9 DEF Pcs, Done
<1>13. Deletes(r.now)
  BY <1>1, <1>8 DEF Looked
<1>14. Consistent(s)'
  BY <1>5, <1>6, <1>9, <1>10, <1>11, <1>12, <1>13, NextConsistent
<1>15. QED
  BY <1>1, <1>2, <1>5, <1>6, <1>8, <1>14, LookedInv

(* setMaster: the set as upstream listed it, stamped with the time the request
   began, replaces what was there. *)
LEMMA SetMasterInv == ASSUME IInv, NEW q \in Requests, SetMaster(q) PROVE IInv'
<1>1. PICK r : r = req[q]
  OBVIOUS
<1>2. PICK i : i = r.id
  OBVIOUS
<1>3. PICK s : s = [r EXCEPT !.pc = "lookup again", !.lists = {}]
  OBVIOUS
<1>4. /\ r.pc = "set master" /\ UNCHANGED upstreamVars
      /\ UNCHANGED <<stream, lastSnapshot, applied>>
      /\ master' = [master EXCEPT ![i] = [at |-> r.now, lists |-> r.lists]]
      /\ variant' = [variant EXCEPT ![i] = [w \in Resolutions |->
                        IF w \in r.lists THEN r.now ELSE Absent]]
      /\ req' = Raced(q, s)
  BY <1>1, <1>2, <1>3 DEF SetMaster, StoreMaster
<1>5. /\ Consistent(r) /\ r \in Request /\ TypeOK /\ r.now \in Nat /\ r.now <= clock
      /\ TTL \in Nat /\ i \in Ids /\ r.lists \subseteq Resolutions
      /\ r.op = "variant" => r.res \in Resolutions
  BY <1>1, <1>2, <1>4, Running, RequestType DEF IInv
<1>6. /\ master'[i] = [at |-> r.now, lists |-> r.lists]
      /\ \A w \in Resolutions : variant'[i][w] = IF w \in r.lists THEN r.now ELSE Absent
      /\ \A j \in Ids \ {i} : master'[j] = master[j] /\ variant'[j] = variant[j]
  BY <1>4, <1>5 DEF TypeOK
<1>7. /\ \A w \in r.lists : lastOffered'[i][w] >= r.now
      /\ \A w \in Resolutions \ r.lists : LackedSince(i, w, r.now)'
  BY <1>2, <1>4, <1>5 DEF Consistent, Answers, LackedSince, upstreamVars
<1>8. ASSUME NEW t, WholeAt(t) PROVE WholeAt(t)'
  <2>1. ASSUME NEW j \in Ids, master'[j].at # Absent, ~Expired(master'[j].at, t),
               NEW w \in Resolutions
        PROVE  variant'[j][w] = IF w \in master'[j].lists THEN master'[j].at ELSE Absent
    <3>1. CASE j = i
      BY <1>6, <3>1
    <3>2. CASE j # i
      BY <1>6, <1>8, <2>1, <3>2 DEF WholeAt
    <3>3. QED
      BY <3>1, <3>2
  <2>2. QED
    BY <2>1 DEF WholeAt, Expired
<1>9. CacheInv'
  <2>1. CacheType'
    <3> r.now \in 0 .. clock
      BY <1>5, Times
    <3>1. master' \in [Ids -> [at : {Absent} \cup 0 .. clock, lists : SUBSET Resolutions]]
      BY <1>4, <1>5 DEF TypeOK
    <3>2. variant' \in [Ids -> [Resolutions -> {Absent} \cup 0 .. clock]]
      BY <1>4, <1>5 DEF TypeOK
    <3>3. AppliedInv'
      BY <1>4 DEF IInv, AppliedInv, upstreamVars
    <3>4. QED
      BY <1>4, <1>5, <3>1, <3>2, <3>3 DEF CacheType, TypeOK, upstreamVars
  <2>2. AgeInv'
    <3>1. ASSUME NEW j \in Ids
          PROVE  /\ master'[j].at # Absent =>
                      \A w \in Resolutions \ master'[j].lists : lastLacked'[j][w] >= master'[j].at
                 /\ \A w \in Resolutions :
                      variant'[j][w] # Absent => lastOffered'[j][w] >= variant'[j][w]
      <4>1. CASE j = i
        BY <1>6, <1>7, <4>1 DEF LackedSince
      <4>2. CASE j # i
        BY <1>4, <1>6, <4>2 DEF IInv, AgeInv, LackedSince, upstreamVars
      <4>3. QED
        BY <4>1, <4>2
    <3>2. QED
      BY <3>1 DEF AgeInv, LackedSince
  <2>3. NoTornSet'
    <3>1. WholeAt(clock)
      BY DEF IInv, NoTornSet, WholeAt
    <3>2. PICK t : t = clock
      OBVIOUS
    <3>3. WholeAt(t)'
      BY <1>8, <3>1, <3>2
    <3>4. QED
      BY <1>4, <3>2, <3>3 DEF NoTornSet, WholeAt, Expired, upstreamVars
  <2>4. SnapshotAt(clock)'
    BY <1>4 DEF IInv, SnapshotAt, GoneSince, LackedSince, Expired, upstreamVars
  <2>5. QED
    BY <2>1, <2>2, <2>3, <2>4 DEF CacheInv
<1>10. /\ \A f \in {"op", "id", "res", "now", "raced", "got"} : s[f] = r[f]
       /\ s.pc = "lookup again" /\ s \in Request
  BY <1>3, <1>5 DEF Request, Pcs
<1>11. r.op # "player"
  BY <1>4, <1>5 DEF Consistent, Proper
<1>12. s \in Request' /\ Proper(s)'
  BY <1>4, <1>5, <1>10, <1>11 DEF Request, upstreamVars, Proper, Consistent
<1>13. ASSUME s.raced = FALSE PROVE Sees(s)'
  <2>1. WholeAt(r.now) /\ SnapshotAt(r.now)
    BY <1>4, <1>5, <1>10, <1>13 DEF Consistent, Underway, Done, Sees
  <2>2. WholeAt(s.now)'
    BY <1>8, <1>10, <2>1
  <2>3. SnapshotAt(s.now)'
    BY <1>4, <1>10, <2>1 DEF SnapshotAt, GoneSince, LackedSince, Expired, upstreamVars
  <2>4. ASSUME r.op = "variant"
        PROVE  LackedSince(i, r.res, r.now - TTL)' \/ variant'[i][r.res] = r.now
    <3>1. CASE r.res \in r.lists
      BY <1>5, <1>6, <2>4, <3>1
    <3>2. CASE r.res \notin r.lists
      <4>1. lastLacked'[i][r.res] >= r.now /\ lastLacked'[i][r.res] = lastLacked[i][r.res]
        BY <1>4, <1>5, <1>7, <2>4, <3>2 DEF LackedSince, upstreamVars
      <4>2. lastLacked[i][r.res] \in Int
        BY <1>5, <2>4, HistoryType DEF IInv
      <4>3. QED
        BY <1>5, <4>1, <4>2 DEF LackedSince
    <3>3. QED
      BY <3>1, <3>2
  <2>5. QED
    BY <1>2, <1>10, <2>2, <2>3, <2>4 DEF Sees
<1>14. Consistent(s)'
  BY <1>10, <1>12, <1>13 DEF Consistent, Answers
<1>15. /\ req' = [p \in Requests |-> req'[p]] /\ req'[q] = s
       /\ \A p \in Requests \ {q} : Kept(p)
  BY <1>4, OthersKept DEF IInv
<1>16. Consistent(req[q])'
  BY <1>14, <1>15, OfRecord
<1>17. QED
  BY <1>4, <1>9, <1>15, <1>16, StepOf

(* The lookup after an update: what it finds is of that update or of a later one. *)
LEMMA LookupAgainInv == ASSUME IInv, NEW q \in Requests, LookupAgain(q) PROVE IInv'
<1>1. PICK r : r = req[q]
  OBVIOUS
<1>2. PICK s : s = req'[q]
  OBVIOUS
<1>3. r.pc = "lookup again" /\ UNCHANGED upstreamVars
  BY <1>1 DEF LookupAgain
<1>4. /\ Consistent(r) /\ r \in Request /\ Proper(r) /\ r.id \in Ids /\ r.now \in Nat
      /\ TTL \in Nat /\ r.op \in {"master", "variant"}
      /\ r.op = "variant" => r.res \in Resolutions
  BY <1>1, <1>3, Running DEF Consistent, Proper
<1>5. Underway(r)
  BY <1>3 DEF Underway, Done
<1>6. CASE r.op = "master"
  <2>1. GetMaster(q, "found", "404")
    BY <1>1, <1>6 DEF LookupAgain
  <2>2. PICK gone : Looked(q, "found", "404", gone)
    BY <1>1, <1>4, <2>1, MasterLooked
  <2>3. PICK pc : pc \in {"found", "404"} /\ s = [r EXCEPT !.pc = pc]
    BY <1>1, <1>2, <2>2 DEF Looked
  <2>4. /\ Proper(s) /\ Deletes(r.now) /\ r.op # "variant"
        /\ pc \in Pcs \ {"set snapshot", "set master", "stream again", "check master", "cooldown",
                         "lookup again"}
    BY <1>1, <1>4, <1>6, <2>2, <2>3 DEF Proper, Request, Looked, Pcs, Done
  <2>5. Consistent(s)'
    BY <1>3, <1>4, <1>5, <2>3, <2>4, NextConsistent
  <2>6. QED
    BY <1>1, <1>2, <1>3, <1>4, <2>2, <2>5, LookedInv
<1>7. CASE r.op = "variant"
  <2>1. GetVariant(q, "found", "404")
    BY <1>1, <1>7 DEF LookupAgain
  <2>2. PICK gone : gone = (variant[r.id][r.res] = Absent \/ Expired(variant[r.id][r.res], r.now))
    OBVIOUS
  <2>3. Looked(q, "found", "404", gone)
    BY <1>1, <1>4, <1>7, <2>1, <2>2, VariantLooked
  <2>4. PICK pc : pc \in {"found", "404"} /\ s = [r EXCEPT !.pc = pc]
                  /\ (IF pc = "found" THEN ~gone ELSE gone)
    BY <1>1, <1>2, <2>3 DEF Looked
  <2>5. /\ Proper(s) /\ Deletes(r.now)
        /\ pc \in Pcs \ {"set snapshot", "set master", "stream again", "check master", "cooldown",
                         "lookup again"}
    BY <1>1, <1>4, <1>7, <2>3, <2>4 DEF Proper, Request, Looked, Pcs, Done
  <2>6. pc = "found" => lastOffered[r.id][r.res] >= r.now - TTL
    BY <1>4, <1>7, <2>2, <2>4, FoundOffered
  <2>7. pc # "found" => LackedSince(r.id, r.res, r.now - TTL) \/ r.raced
    <3>1. SUFFICES ASSUME gone, r.raced = FALSE PROVE LackedSince(r.id, r.res, r.now - TTL)
      BY <1>4, <2>4 DEF Request
    <3>2. variant[r.id][r.res] # r.now
      <4>1. ~Expired(r.now, r.now) /\ r.now # Absent
        <5>1. \A t \in Nat : ~Expired(t, t) /\ t # Absent
          BY StreamCacheAssumption DEF Expired, Absent
        <5>2. QED
          BY <1>4, <5>1
      <4>2. variant[r.id][r.res] = Absent \/ Expired(variant[r.id][r.res], r.now)
        BY <2>2, <3>1
      <4>3. QED
        BY <4>1, <4>2
    <3>3. QED
      BY <1>3, <1>4, <1>5, <1>7, <3>1, <3>2 DEF Consistent, Sees
  <2>8. Consistent(s)'
    BY <1>3, <1>4, <1>5, <2>4, <2>5, <2>6, <2>7, NextConsistent
  <2>9. QED
    BY <1>1, <1>2, <1>3, <1>4, <2>3, <2>8, LookedInv
<1>8. QED
  BY <1>4, <1>6, <1>7

(* evict, wherever it is called from, forgets the stream and the snapshot. *)
LEMMA EvictForInv ==
    ASSUME IInv, NEW q \in Requests, req[q].pc # "idle", NEW answer \in {"502", "evicted"},
           EvictFor(q, answer)
    PROVE  IInv'
<1>1. PICK r : r = req[q]
  OBVIOUS
<1>2. PICK i : i = r.id
  OBVIOUS
<1>3. PICK s : s = [r EXCEPT !.pc = answer]
  OBVIOUS
<1>4. /\ UNCHANGED upstreamVars /\ UNCHANGED applied
      /\ stream' = [stream EXCEPT ![i] = Absent]
      /\ master' = [master EXCEPT ![i] = NoMaster]
      /\ variant' = [variant EXCEPT ![i] = [w \in Resolutions |-> Absent]]
      /\ lastSnapshot' = Never
      /\ req' = Raced(q, s)
  BY <1>1, <1>2, <1>3 DEF EvictFor, GotoRaced
<1>5. Consistent(r) /\ r \in Request /\ TypeOK /\ i \in Ids
  BY <1>1, <1>2, Running DEF IInv
<1>6. /\ master'[i] = NoMaster /\ \A w \in Resolutions : variant'[i][w] = Absent
      /\ \A j \in Ids \ {i} : master'[j] = master[j] /\ variant'[j] = variant[j]
  BY <1>4, <1>5 DEF TypeOK
<1>7. CacheInv'
  <2>1. CacheType'
    <3>1. stream' \in [Ids -> {Absent} \cup 0 .. clock]
      BY <1>4, <1>5 DEF TypeOK
    <3>2. master' \in [Ids -> [at : {Absent} \cup 0 .. clock, lists : SUBSET Resolutions]]
      BY <1>4, <1>5 DEF TypeOK, NoMaster
    <3>3. variant' \in [Ids -> [Resolutions -> {Absent} \cup 0 .. clock]]
      BY <1>4, <1>5 DEF TypeOK
    <3>4. AppliedInv'
      BY <1>4 DEF IInv, AppliedInv, upstreamVars
    <3>5. QED
      BY <1>4, <3>1, <3>2, <3>3, <3>4 DEF CacheType, upstreamVars
  <2>2. AgeInv'
    BY <1>4, <1>5, <1>6 DEF IInv, AgeInv, LackedSince, NoMaster, upstreamVars
  <2>3. NoTornSet'
    BY <1>4, <1>5, <1>6 DEF IInv, NoTornSet, Expired, NoMaster, upstreamVars
  <2>4. SnapshotAt(clock)'
    BY <1>4 DEF SnapshotAt
  <2>5. QED
    BY <2>1, <2>2, <2>3, <2>4 DEF CacheInv
<1>8. /\ \A f \in {"op", "id", "res", "now", "raced", "got", "lists"} : s[f] = r[f]
      /\ s.pc = answer /\ s \in Request
  BY <1>3, <1>5 DEF Request, Pcs, Done
<1>9. s \in Request' /\ Proper(s)'
  BY <1>4, <1>5, <1>8 DEF Request, upstreamVars, Proper, Consistent
<1>10. Consistent(s)'
  BY <1>8, <1>9 DEF Consistent, Answers, Underway, Done
<1>11. /\ req' = [p \in Requests |-> req'[p]] /\ req'[q] = s
       /\ \A p \in Requests \ {q} : Kept(p)
  BY <1>4, OthersKept DEF IInv
<1>12. Consistent(req[q])'
  BY <1>10, <1>11, OfRecord
<1>13. QED
  BY <1>4, <1>7, <1>11, <1>12, StepOf

(* A request starts with the time and the cache of the moment. *)
LEMMA StartInv == ASSUME IInv, NEW q \in Requests, Start(q) PROVE IInv'
<1>1. PICK op \in {"player", "master", "variant"}, i \in Ids, w \in Resolutions \cup {NoResolution} :
        /\ op = "variant" <=> w # NoResolution
        /\ req' = [req EXCEPT ![q] =
                    [pc |-> CASE op = "player" -> "stream"
                              [] op = "master" -> "lookup master"
                              [] op = "variant" -> "lookup variant",
                     op |-> op, id |-> i, res |-> w, now |-> clock, raced |-> FALSE,
                     got |-> NoSnapshot, lists |-> {}]]
  BY DEF Start
<1>2. PICK s : s = [pc |-> CASE op = "player" -> "stream"
                              [] op = "master" -> "lookup master"
                              [] op = "variant" -> "lookup variant",
                    op |-> op, id |-> i, res |-> w, now |-> clock, raced |-> FALSE,
                    got |-> NoSnapshot, lists |-> {}]
  OBVIOUS
<1>3. UNCHANGED cacheVars /\ UNCHANGED upstreamVars /\ req' = [req EXCEPT ![q] = s]
  BY <1>1, <1>2 DEF Start
<1>4. s.pc \in {"stream", "lookup master", "lookup variant"}
  BY <1>2
<1>5. s \in Request
  <2>1. NoSnapshot \in [version : 0 .. version, ids : SUBSET Ids] /\ clock \in 0 .. clock
    BY Times, StreamCacheAssumption DEF IInv, TypeOK, NoSnapshot
  <2>2. s.pc \in Pcs
    BY <1>4 DEF Pcs
  <2>3. QED
    BY <1>2, <2>1, <2>2 DEF Request
<1>6. Proper(s) /\ s.now = clock
  BY <1>1, <1>2 DEF Proper
<1>7. s \in Request' /\ Proper(s)' /\ Answers(s)'
  BY <1>3, <1>4, <1>5, <1>6 DEF Request, upstreamVars, Proper, Answers
<1>8. Sees(s)'
  <2>1. WholeAt(clock) /\ SnapshotAt(clock)
    BY DEF IInv, NoTornSet, WholeAt
  <2>2. WholeAt(s.now)' /\ SnapshotAt(s.now)'
    BY <1>3, <1>6, <2>1 DEF WholeAt, SnapshotAt, Expired, GoneSince, LackedSince, cacheVars, upstreamVars
  <2>3. QED
    BY <1>4, <2>2 DEF Sees
<1>9. Consistent(s)'
  BY <1>7, <1>8 DEF Consistent
<1>10. /\ req' = [p \in Requests |-> req'[p]] /\ req'[q] = s
       /\ \A p \in Requests \ {q} : Kept(p)
  BY <1>3, OthersKept DEF IInv
<1>11. Consistent(req[q])' /\ CacheInv'
  BY <1>3, <1>9, <1>10, OfRecord, CacheKept
<1>12. QED
  BY <1>3, <1>10, <1>11, StepOf

(* views deletes what has expired by now. *)
LEMMA ViewsInv == ASSUME IInv, Views PROVE IInv'
<1>1. TypeOK /\ clock \in Nat /\ clock <= clock /\ UNCHANGED upstreamVars
  BY Times DEF IInv, Views
<1>2. Deletes(clock)
  <2>1. Shaped'
    <3>1. stream' = [i \in Ids |-> stream'[i]]
      BY DEF Views
    <3>2. master' = [i \in Ids |-> master'[i]]
      BY DEF Views
    <3>3. variant' = [i \in Ids |-> [s \in Resolutions |-> variant'[i][s]]]
      BY DEF Views
    <3>4. QED
      BY <3>1, <3>2, <3>3 DEF Shaped
  <2>2. ASSUME NEW i \in Ids
        PROVE  /\ stream'[i] = stream[i] \/ (stream'[i] = Absent /\ Expired(stream[i], clock))
               /\ master'[i] = master[i] \/ (master'[i] = NoMaster /\ Expired(master[i].at, clock))
               /\ \A s \in Resolutions : \/ variant'[i][s] = variant[i][s]
                                         \/ variant'[i][s] = Absent /\ Expired(variant[i][s], clock)
    BY DEF Views
  <2>3. UNCHANGED <<lastSnapshot, applied, overtaken, orphaned>>
    BY DEF Views
  <2>4. QED
    BY <2>1, <2>2, <2>3 DEF Deletes
<1>3. CacheInv'
  BY <1>1, <1>2, DeletesCache
<1>4. req' = [q \in Requests |-> req'[q]] /\ \A q \in Requests : Kept(q)
  BY DEF Views, Kept, Underway
<1>5. ReqInv'
  BY <1>1, <1>4, StandsStill, RequestsKept DEF IInv
<1>6. QED
  BY <1>1, <1>3, <1>5, StepInv

(* Upstream moves on: what is cached, and what requests know, stays true. *)
LEMMA MovesOn ==
    ASSUME IInv, Onwards, UNCHANGED cacheVars, UNCHANGED req, TypeOK'
    PROVE  IInv'
<1>1. TypeOK /\ clock \in Nat /\ clock' \in Nat /\ clock <= clock' /\ TTL \in Nat
  BY Times DEF IInv, Onwards
<1>2. AppliedInv'
  BY DEF IInv, AppliedInv, TypeOK, Onwards, cacheVars
<1>3. ReqInv'
  <2>1. req' = [q \in Requests |-> req'[q]] /\ \A q \in Requests : Kept(q)
    BY DEF IInv, ReqInv, Kept
  <2>2. QED
    BY <2>1, RequestsKept DEF IInv
<1>4. ASSUME NEW i \in Ids, NEW s \in Resolutions, NEW t \in Int
      PROVE  /\ lastLacked[i][s] >= t => lastLacked'[i][s] >= t
             /\ lastOffered[i][s] >= t => lastOffered'[i][s] >= t
  <2>1. /\ lastLacked[i][s] \in Int /\ lastOffered[i][s] \in Int
        /\ lastLacked'[i][s] \in Int /\ lastOffered'[i][s] \in Int
    BY HistoryType, Times DEF IInv, Onwards, UpstreamInv
  <2>2. QED
    BY <2>1 DEF Onwards
<1>5. AgeInv'
  <2>1. ASSUME NEW i \in Ids, master[i].at # Absent, NEW s \in Resolutions \ master[i].lists
        PROVE  lastLacked'[i][s] >= master[i].at
    <3>1. lastLacked[i][s] >= master[i].at /\ master[i].at \in Int
      BY <1>1, <2>1, Times DEF IInv, AgeInv, LackedSince
    <3>2. QED
      BY <1>4, <3>1
  <2>2. ASSUME NEW i \in Ids, NEW s \in Resolutions, variant[i][s] # Absent
        PROVE  lastOffered'[i][s] >= variant[i][s]
    <3>1. lastOffered[i][s] >= variant[i][s] /\ variant[i][s] \in Int
      BY <1>1, <2>2, Times DEF IInv, AgeInv
    <3>2. QED
      BY <1>4, <3>1
  <2>3. QED
    BY <2>1, <2>2 DEF AgeInv, LackedSince, cacheVars
<1>6. NoTornSet'
  <2>1. \A i \in Ids : Expired(master[i].at, clock) => Expired(master[i].at, clock')
    BY <1>1, Times, StillExpired
  <2>2. QED
    BY <2>1 DEF IInv, NoTornSet, cacheVars, Expired
<1>7. SnapshotAt(clock)'
  <2>1. lastSnapshot \in Int
    BY <1>1, Times
  <2>2. Expired(lastSnapshot, clock) => Expired(lastSnapshot, clock')
    BY <1>1, <2>1, StillExpired
  <2>3. \A i \in Ids : GoneSince(i, lastSnapshot) =>
            \A s \in Resolutions : lastLacked'[i][s] >= lastSnapshot
    BY <1>4, <2>1 DEF GoneSince, LackedSince
  <2>4. \A i \in Ids : \/ lastSnapshot = Never \/ stream[i] = lastSnapshot
                       \/ stream[i] = Absent /\ (Expired(lastSnapshot, clock') \/
                            \A s \in Resolutions : lastLacked'[i][s] >= lastSnapshot)
    BY <2>2, <2>3 DEF IInv, SnapshotAt
  <2>5. QED
    BY <2>4 DEF SnapshotAt, cacheVars, GoneSince, LackedSince, Expired
<1>8. QED
  BY <1>2, <1>3, <1>5, <1>6, <1>7 DEF IInv, Onwards

(* A change upstream changes nothing that is cached. *)
LEMMA ChangeInv == ASSUME IInv, Change PROVE IInv'
<1>1. TypeOK /\ clock \in Nat /\ Never \in Int /\ Absent = -1 /\ version \in 0 .. MaxChanges
  BY Times DEF IInv, TypeOK
<1>2. live' \subseteq Ids /\ offer' \in [Ids -> SUBSET Resolutions]
  BY <1>1 DEF Change, TypeOK
<1>3. UNCHANGED clock /\ UNCHANGED cacheVars /\ UNCHANGED req /\ version' = version + 1
  BY DEF Change
<1>4. /\ lastLacked' = [i \in Ids |-> [s \in Resolutions |->
            IF i \in live' /\ s \in offer'[i] THEN lastLacked[i][s] ELSE clock]]
      /\ lastOffered' = [i \in Ids |-> [s \in Resolutions |->
            IF s \in offer'[i] THEN clock ELSE lastOffered[i][s]]]
  BY DEF Change
<1>5. \A i \in Ids, s \in Resolutions : /\ lastLacked[i][s] \in {Never} \cup 0 .. clock
                                        /\ lastOffered[i][s] \in {Absent} \cup 0 .. clock
  BY DEF IInv, UpstreamInv
<1>6. clock \in 0 .. clock
  BY <1>1
<1>7. UpstreamInv'
  <2>1. lastLacked' \in [Ids -> [Resolutions -> {Never} \cup 0 .. clock']]
    BY <1>3, <1>4, <1>5, <1>6
  <2>2. lastOffered' \in [Ids -> [Resolutions -> {Absent} \cup 0 .. clock']]
    BY <1>3, <1>4, <1>5, <1>6
  <2>3. QED
    BY <1>3, <1>4, <2>1, <2>2 DEF UpstreamInv
<1>8. \A i \in Ids, s \in Resolutions : /\ lastLacked'[i][s] >= lastLacked[i][s]
                                        /\ lastOffered'[i][s] >= lastOffered[i][s]
  <2> SUFFICES ASSUME NEW i \in Ids, NEW s \in Resolutions
               PROVE  lastLacked'[i][s] >= lastLacked[i][s] /\ lastOffered'[i][s] >= lastOffered[i][s]
    OBVIOUS
  <2>1. /\ lastLacked'[i][s] \in {lastLacked[i][s], clock}
        /\ lastOffered'[i][s] \in {lastOffered[i][s], clock}
    BY <1>4
  <2>2. lastLacked[i][s] <= clock /\ lastOffered[i][s] <= clock
    BY <1>1, <1>5, StreamCacheAssumption DEF Never, Absent
  <2>3. lastLacked[i][s] \in Int /\ lastOffered[i][s] \in Int
    BY <1>1, HistoryType DEF IInv
  <2>4. QED
    BY <1>1, <2>1, <2>2, <2>3
<1>9. Onwards
  BY <1>1, <1>3, <1>7, <1>8, StreamCacheAssumption DEF Onwards
<1>10. TypeOK'
  <2>1. version' \in 0 .. MaxChanges
    BY <1>1, <1>3, StreamCacheAssumption DEF Change
  <2>2. applied.version \in 0 .. version'
    BY <1>1, <1>3 DEF TypeOK
  <2>3. QED
    BY <1>1, <1>2, <1>3, <2>1, <2>2 DEF TypeOK, cacheVars
<1>11. QED
  BY <1>3, <1>9, <1>10, MovesOn

(* Time passes: what is cached grows older with it. *)
LEMMA TickInv == ASSUME IInv, Tick PROVE IInv'
<1>1. TypeOK /\ clock \in Nat /\ Never \in Int /\ Absent = -1 /\ version \in 0 .. MaxChanges
  BY Times DEF IInv, TypeOK
<1>2. /\ UNCHANGED <<live, offer, version>> /\ UNCHANGED cacheVars /\ UNCHANGED req
      /\ clock' = clock + 1
      /\ lastOffered' = [i \in Ids |-> [s \in Resolutions |->
            IF s \in offer[i] THEN clock' ELSE lastOffered[i][s]]]
      /\ lastLacked' = [i \in Ids |-> [s \in Resolutions |->
            IF i \in live /\ s \in offer[i] THEN lastLacked[i][s] ELSE clock']]
  BY DEF Tick
<1>3. 0 .. clock \subseteq 0 .. clock' /\ clock' \in 0 .. clock' /\ clock' \in Nat
  BY <1>1, <1>2
<1>4. \A i \in Ids, s \in Resolutions : /\ lastLacked[i][s] \in {Never} \cup 0 .. clock'
                                        /\ lastOffered[i][s] \in {Absent} \cup 0 .. clock'
  BY <1>3 DEF IInv, UpstreamInv
<1>5. UpstreamInv'
  <2>1. lastLacked' \in [Ids -> [Resolutions -> {Never} \cup 0 .. clock']]
    BY <1>2, <1>3, <1>4
  <2>2. lastOffered' \in [Ids -> [Resolutions -> {Absent} \cup 0 .. clock']]
    BY <1>2, <1>3, <1>4
  <2>3. QED
    BY <1>2, <2>1, <2>2 DEF UpstreamInv
<1>6. \A i \in Ids, s \in Resolutions : /\ lastLacked'[i][s] >= lastLacked[i][s]
                                        /\ lastOffered'[i][s] >= lastOffered[i][s]
  <2> SUFFICES ASSUME NEW i \in Ids, NEW s \in Resolutions
               PROVE  lastLacked'[i][s] >= lastLacked[i][s] /\ lastOffered'[i][s] >= lastOffered[i][s]
    OBVIOUS
  <2>1. /\ lastLacked'[i][s] \in {lastLacked[i][s], clock'}
        /\ lastOffered'[i][s] \in {lastOffered[i][s], clock'}
    BY <1>2
  <2>2. lastLacked[i][s] <= clock' /\ lastOffered[i][s] <= clock'
    BY <1>1, <1>3, <1>4, StreamCacheAssumption DEF Never, Absent
  <2>3. lastLacked[i][s] \in Int /\ lastOffered[i][s] \in Int
    BY <1>1, HistoryType DEF IInv
  <2>4. QED
    BY <1>3, <2>1, <2>2, <2>3
<1>7. Onwards
  BY <1>1, <1>2, <1>3, <1>5, <1>6, StreamCacheAssumption DEF Onwards
<1>8. TypeOK'
  <2>1. clock' \in 0 .. MaxClock
    BY <1>1, <1>2, StreamCacheAssumption DEF Tick
  <2>2. stream \in [Ids -> {Absent} \cup 0 .. clock'] /\ lastSnapshot \in {Never} \cup 0 .. clock'
    BY <1>1, <1>3 DEF TypeOK
  <2>3. master \in [Ids -> [at : {Absent} \cup 0 .. clock', lists : SUBSET Resolutions]]
    BY <1>1, <1>3 DEF TypeOK
  <2>4. variant \in [Ids -> [Resolutions -> {Absent} \cup 0 .. clock']]
    <3>1. {Absent} \cup 0 .. clock \subseteq {Absent} \cup 0 .. clock'
      BY <1>3
    <3>2. variant \in [Ids -> [Resolutions -> {Absent} \cup 0 .. clock]]
      BY <1>1 DEF TypeOK
    <3>3. QED
      BY <3>1, <3>2
  <2>5. QED
    BY <1>1, <1>2, <2>1, <2>2, <2>3, <2>4 DEF TypeOK, cacheVars
<1>9. QED
  BY <1>2, <1>7, <1>8, MovesOn

(* Nothing is cached, and nobody has asked. *)
LEMMA InitInv == Init => IInv
<1> SUFFICES ASSUME Init PROVE IInv
  OBVIOUS
<1>1. clock = 0 /\ version = 0 /\ 0 .. clock = {0} /\ lastSnapshot = Never
  BY DEF Init
<1>2. TypeOK
  <2>1. clock \in 0 .. MaxClock /\ version \in 0 .. MaxChanges /\ version \in 0 .. version
    BY <1>1, StreamCacheAssumption
  <2>2. QED
    BY <2>1 DEF Init, TypeOK, NoMaster, NoSnapshot
<1>3. AppliedInv
  BY <1>1 DEF Init, AppliedInv, NoSnapshot
<1>4. UpstreamInv
  <2>1. lastLacked \in [Ids -> [Resolutions -> {Never} \cup 0 .. clock]]
    BY <1>1 DEF Init
  <2>2. lastOffered \in [Ids -> [Resolutions -> {Absent} \cup 0 .. clock]]
    BY <1>1 DEF Init
  <2>3. QED
    BY <2>1, <2>2 DEF Init, UpstreamInv
<1>5. AgeInv /\ NoTornSet
  BY DEF Init, AgeInv, NoTornSet, NoMaster
<1>6. SnapshotAt(clock)
  BY <1>1 DEF SnapshotAt
<1>7. ReqInv
  BY DEF Init, ReqInv
<1>8. QED
  BY <1>2, <1>3, <1>4, <1>5, <1>6, <1>7 DEF IInv

(* Every step of the system keeps the invariant. *)
LEMMA NextInv == IInv /\ [Next]_vars => IInv'
<1>1. ASSUME IInv, NEW q \in Requests, Step(q) PROVE IInv'
  <2>1. CASE EvictUnresolved(q)
    BY <1>1, <2>1, EvictForInv DEF EvictUnresolved
  <2>2. CASE EvictEnded(q)
    BY <1>1, <2>2, EvictForInv DEF EvictEnded
  <2>3. QED
    BY <1>1, <2>1, <2>2, StartInv, LookupMasterInv, LookupVariantInv, CheckMasterInv,
       LookupStreamInv, CheckCooldownInv, FetchStreamsInv, SetSnapshotInv,
       LookupStreamAgainInv, FetchMasterInv, SetMasterInv, LookupAgainInv DEF Step
<1>2. ASSUME IInv, UNCHANGED vars PROVE IInv'
  <2>1. UNCHANGED cacheVars /\ UNCHANGED upstreamVars /\ UNCHANGED req
    BY <1>2 DEF vars
  <2>2. Onwards /\ TypeOK'
    BY <1>2, <2>1, StandsStill DEF IInv, TypeOK, cacheVars, upstreamVars
  <2>3. QED
    BY <1>2, <2>1, <2>2, MovesOn
<1>3. QED
  BY <1>1, <1>2, ViewsInv, ChangeInv, TickInv DEF Next

-----------------------------------------------------------------------------
(* Why what is cached of a stream that is not listed was stored by a request
   that was overtaken: whoever resolves a master has found its stream listed, and
   what is listed then is listed still, or a snapshot has come in between. *)
Resolving(r) == r.pc \in {"fetch master", "set master"}

OrphanInv ==
    /\ \A i \in Ids : stream[i] # Absent => i \in applied.ids
    /\ \A q \in Requests : Resolving(req[q]) => req[q].id \in applied.ids \/ q \in overtaken
    /\ OrphansExplained

(* A request to which nothing happens does not begin to resolve a master. *)
LEMMA KeptResolving ==
    ASSUME IInv, NEW q \in Requests, Kept(q), Resolving(req'[q])
    PROVE  Resolving(req[q]) /\ req'[q].id = req[q].id
<1>1. CASE req'[q] = req[q]
  BY <1>1 DEF Resolving
<1>2. CASE req[q].pc # "idle" /\ req'[q] = [req[q] EXCEPT !.raced = TRUE]
  <2>1. req[q] \in Request
    BY <1>2 DEF IInv, ReqInv, Consistent
  <2>2. req'[q].pc = req[q].pc /\ req'[q].id = req[q].id
    BY <1>2, <2>1 DEF Request
  <2>3. QED
    BY <2>2 DEF Resolving
<1>3. QED
  BY <1>1, <1>2 DEF Kept

(* A step that at most deletes what has expired leaves that so, if it lets only
   a request go on to a master that was about it or has its stream. *)
LEMMA OrphansKept ==
    ASSUME IInv, OrphanInv, NEW t, Deletes(t), NEW q \in Requests,
           \A p \in Requests \ {q} : Kept(p),
           Resolving(req'[q]) => /\ req'[q].id = req[q].id /\ req[q].id \in Ids
                                 /\ Resolving(req[q]) \/ stream[req[q].id] # Absent
    PROVE  OrphanInv'
<1>1. \A i \in Ids : stream'[i] # Absent => i \in applied'.ids
  BY DEF Deletes, OrphanInv
<1>2. ASSUME NEW p \in Requests, Resolving(req'[p])
      PROVE  req'[p].id \in applied'.ids \/ p \in overtaken'
  <2>1. CASE p = q
    BY <1>2, <2>1 DEF OrphanInv, Deletes
  <2>2. CASE p # q
    <3>1. Resolving(req[p]) /\ req'[p].id = req[p].id
      BY <1>2, <2>2, KeptResolving
    <3>2. QED
      BY <3>1 DEF OrphanInv, Deletes
  <2>3. QED
    BY <2>1, <2>2
<1>3. OrphansExplained'
  <2>1. ASSUME NEW i \in Ids, master'[i].at # Absent \/ \E w \in Resolutions : variant'[i][w] # Absent
        PROVE  master[i].at # Absent \/ \E w \in Resolutions : variant[i][w] # Absent
    BY <2>1 DEF Deletes, NoMaster
  <2>2. QED
    BY <2>1 DEF OrphansExplained, OrphanInv, Deletes
<1>4. (\A p \in Requests : Resolving(req[p]) => req[p].id \in applied.ids \/ p \in overtaken)'
  BY <1>2 DEF Resolving
<1>5. QED
  BY <1>1, <1>3, <1>4 DEF OrphanInv

(* Where a lookup leads, to a master or elsewhere. *)
LEMMA OrphansLooked ==
    ASSUME IInv, OrphanInv, NEW q \in Requests, Consistent(req[q]), ~Resolving(req[q]),
           NEW hit, NEW miss, NEW gone, Looked(q, hit, miss, gone),
           miss \notin {"fetch master", "set master"},
           hit \in {"fetch master", "set master"} => gone \/ stream[req[q].id] # Absent
    PROVE  OrphanInv'
<1>1. req[q] \in Request /\ req[q].id \in Ids
  BY DEF Consistent, Request
<1>2. \/ ~gone /\ req'[q] = [req[q] EXCEPT !.pc = hit]
      \/ gone /\ req'[q] = [req[q] EXCEPT !.pc = miss]
  BY DEF Looked
<1>3. req'[q].id = req[q].id
  BY <1>1, <1>2 DEF Request
<1>4. \/ ~gone /\ req'[q].pc = hit
      \/ gone /\ req'[q].pc = miss
  BY <1>1, <1>2 DEF Request
<1>5. Resolving(req'[q]) => stream[req[q].id] # Absent
  BY <1>4 DEF Resolving
<1>6. Deletes(req[q].now) /\ \A p \in Requests \ {q} : Kept(p)
  BY DEF Looked
<1>7. QED
  BY <1>1, <1>3, <1>5, <1>6, OrphansKept

(* Neither does a request that goes on without having changed the cache. *)
LEMMA OrphansStay ==
    ASSUME IInv, OrphanInv, NEW q \in Requests, NEW next, req' = [req EXCEPT ![q] = next],
           UNCHANGED cacheVars,
           Resolving(next) => next.id = req[q].id /\ req[q].id \in Ids /\ Resolving(req[q])
    PROVE  OrphanInv'
<1>1. req'[q] = next /\ \A p \in Requests \ {q} : Kept(p)
  BY OthersKept DEF IInv
<1>2. Deletes(0)
  BY Shapes DEF Deletes, cacheVars, IInv
<1>3. QED
  BY <1>1, <1>2, OrphansKept

(* stream, before and after a snapshot: a master is resolved of a stream that is there. *)
LEMMA LookupStreamOrphans ==
    ASSUME IInv, OrphanInv, NEW q \in Requests, LookupStream(q) \/ LookupStreamAgain(q)
    PROVE  OrphanInv'
<1>1. req[q].pc \in {"stream", "stream again"}
  BY DEF LookupStream, LookupStreamAgain
<1>2. Consistent(req[q]) /\ ~Resolving(req[q])
  BY <1>1, Running DEF Resolving
<1>3. PICK hit : hit = Known(q)
  OBVIOUS
<1>4. PICK miss : miss \in {"cooldown", Unknown(q)} /\ GetStream(q, hit, miss)
  BY <1>3 DEF LookupStream, LookupStreamAgain
<1>5. miss \notin {"fetch master", "set master"}
  BY <1>4 DEF Unknown
<1>6. PICK gone : gone = (stream[req[q].id] = Absent \/ Expired(stream[req[q].id], req[q].now))
  OBVIOUS
<1>7. Looked(q, hit, miss, gone)
  BY <1>2, <1>4, <1>6, StreamLooked
<1>8. gone \/ stream[req[q].id] # Absent
  BY <1>6
<1>9. QED
  BY <1>2, <1>5, <1>7, <1>8, OrphansLooked

(* The lookups of masters and variants lead to no resolution. *)
LEMMA LookupOrphans ==
    ASSUME IInv, OrphanInv, NEW q \in Requests,
           LookupMaster(q) \/ LookupVariant(q) \/ CheckMaster(q) \/ LookupAgain(q)
    PROVE  OrphanInv'
<1>1. req[q].pc \in {"lookup master", "lookup variant", "check master", "lookup again"}
  BY DEF LookupMaster, LookupVariant, CheckMaster, LookupAgain
<1>2. Consistent(req[q]) /\ ~Resolving(req[q])
  BY <1>1, Running DEF Resolving
<1>3. PICK hit \in {"found", "404 master"}, miss \in {"stream", "check master", "404"} :
        \/ GetMaster(q, hit, miss)
        \/ GetVariant(q, hit, miss) /\ req[q].res \in Resolutions
  <2>1. CASE LookupMaster(q)
    BY <2>1 DEF LookupMaster
  <2>2. CASE LookupVariant(q)
    <3>1. req[q].res \in Resolutions
      BY <1>2, <2>2 DEF LookupVariant, Consistent, Proper
    <3>2. QED
      BY <2>2, <3>1 DEF LookupVariant
  <2>3. CASE CheckMaster(q)
    BY <2>3 DEF CheckMaster
  <2>4. CASE LookupAgain(q) /\ req[q].op = "master"
    BY <2>4 DEF LookupAgain
  <2>5. CASE LookupAgain(q) /\ req[q].op # "master"
    <3>1. req[q].op # "player" /\ req[q].op \in {"player", "master", "variant"}
      BY <1>2, <2>5 DEF LookupAgain, Consistent, Proper, Request
    <3>2. req[q].res \in Resolutions
      BY <1>2, <2>5, <3>1 DEF Consistent, Proper
    <3>3. GetVariant(q, "found", "404")
      BY <2>5 DEF LookupAgain
    <3>4. QED
      BY <3>2, <3>3
  <2>6. QED
    BY <2>1, <2>2, <2>3, <2>4, <2>5
<1>4. PICK gone : Looked(q, hit, miss, gone)
  BY <1>2, <1>3, MasterLooked, VariantLooked
<1>5. hit \notin {"fetch master", "set master"} /\ miss \notin {"fetch master", "set master"}
  BY <1>3
<1>6. QED
  BY <1>2, <1>4, <1>5, OrphansLooked

(* A request that starts, goes on to a fetch, or has fetched, stores nothing. *)
LEMMA GoOnOrphans ==
    ASSUME IInv, OrphanInv, NEW q \in Requests,
           Start(q) \/ CheckCooldown(q) \/ FetchStreams(q) \/ FetchMaster(q)
    PROVE  OrphanInv'
<1>1. CASE Start(q)
  <2>1. PICK next : /\ req' = [req EXCEPT ![q] = next] /\ UNCHANGED cacheVars
                    /\ next.pc \in {"stream", "lookup master", "lookup variant"}
    <3>1. PICK op \in {"player", "master", "variant"}, i \in Ids, w \in Resolutions \cup {NoResolution} :
            /\ req' = [req EXCEPT ![q] =
                        [pc |-> CASE op = "player" -> "stream"
                                  [] op = "master" -> "lookup master"
                                  [] op = "variant" -> "lookup variant",
                         op |-> op, id |-> i, res |-> w, now |-> clock, raced |-> FALSE,
                         got |-> NoSnapshot, lists |-> {}]]
      BY <1>1 DEF Start
    <3>2. PICK pc : /\ pc = CASE op = "player" -> "stream"
                             [] op = "master" -> "lookup master"
                             [] op = "variant" -> "lookup variant"
      OBVIOUS
    <3>3. pc \in {"stream", "lookup master", "lookup variant"}
      BY <3>2
    <3>4. PICK next : next = [pc |-> pc, op |-> op, id |-> i, res |-> w, now |-> clock,
                              raced |-> FALSE, got |-> NoSnapshot, lists |-> {}]
      OBVIOUS
    <3>5. next.pc = pc /\ req' = [req EXCEPT ![q] = next]
      BY <3>1, <3>2, <3>4
    <3>6. UNCHANGED cacheVars
      BY <1>1 DEF Start
    <3>7. QED
      BY <3>3, <3>5, <3>6
  <2>2. ~Resolving(next)
    BY <2>1 DEF Resolving
  <2>3. QED
    BY <2>1, <2>2, OrphansStay
<1>2. CASE CheckCooldown(q) \/ FetchStreams(q) \/ FetchMaster(q)
  <2>1. PICK r : r = req[q]
    OBVIOUS
  <2>2. r \in Request /\ r.id \in Ids /\ r.pc \in {"cooldown", "fetch streams", "fetch master"}
    <3>1. r.pc \in {"cooldown", "fetch streams", "fetch master"}
      BY <1>2, <2>1 DEF CheckCooldown, FetchStreams, FetchMaster
    <3>2. QED
      BY <2>1, <3>1, Running
  <2>3. PICK next : /\ req' = [req EXCEPT ![q] = next] /\ UNCHANGED cacheVars
                    /\ next.id = r.id /\ (Resolving(next) => r.pc = "fetch master")
    <3>1. CASE CheckCooldown(q)
      <4>1. PICK pc \in {"404 cooldown", "lookup again", "fetch streams"} : Goto(q, pc)
        BY <3>1 DEF CheckCooldown
      <4>2. PICK next : next = [r EXCEPT !.pc = pc]
        OBVIOUS
      <4>3. next.id = r.id /\ next.pc = pc
        BY <2>2, <4>2 DEF Request
      <4>4. req' = [req EXCEPT ![q] = next] /\ UNCHANGED cacheVars
        BY <2>1, <4>1, <4>2 DEF Goto
      <4>5. ~Resolving(next)
        BY <4>1, <4>3 DEF Resolving
      <4>6. QED
        BY <4>3, <4>4, <4>5
    <3>2. CASE FetchStreams(q)
      <4>1. PICK next : /\ next \in {[r EXCEPT !.pc = "set snapshot",
                                               !.got = [version |-> version, ids |-> live]],
                                     [r EXCEPT !.pc = "502"]}
                        /\ req' = [req EXCEPT ![q] = next]
        BY <2>1, <3>2 DEF FetchStreams
      <4>2. next.id = r.id /\ next.pc \in {"set snapshot", "502"}
        BY <2>2, <4>1 DEF Request
      <4>3. ~Resolving(next)
        BY <4>2 DEF Resolving
      <4>4. QED
        BY <3>2, <4>1, <4>2, <4>3 DEF FetchStreams
    <3>3. CASE FetchMaster(q)
      <4>1. PICK next : /\ next \in {[r EXCEPT !.pc = "set master", !.lists = offer[r.id]],
                                     [r EXCEPT !.pc = "evict"]}
                        /\ req' = [req EXCEPT ![q] = next]
        BY <2>1, <3>3 DEF FetchMaster
      <4>2. next.id = r.id
        BY <2>2, <4>1 DEF Request
      <4>3. QED
        BY <2>1, <3>3, <4>1, <4>2 DEF FetchMaster
    <3>4. QED
      BY <1>2, <3>1, <3>2, <3>3
  <2>4. QED
    BY <2>1, <2>2, <2>3, OrphansStay DEF Resolving
<1>3. QED
  BY <1>1, <1>2

(* setSnapshot: nothing is left of a stream that is not listed, and who is
   resolving the master of such a stream is overtaken. *)
LEMMA SetSnapshotOrphans ==
    ASSUME IInv, OrphanInv, NEW q \in Requests, SetSnapshot(q) PROVE OrphanInv'
<1>1. PICK r : r = req[q]
  OBVIOUS
<1>2. PICK ids : ids = r.got.ids
  OBVIOUS
<1>3. PICK next : next = [r EXCEPT !.pc = "stream again", !.got = NoSnapshot]
  OBVIOUS
<1>4. /\ r.pc = "set snapshot" /\ UNCHANGED upstreamVars
      /\ stream' = [i \in Ids |-> IF i \in ids THEN r.now ELSE Absent]
      /\ master' = [i \in Ids |-> IF i \in ids THEN master[i] ELSE NoMaster]
      /\ variant' = [i \in Ids |-> IF i \in ids THEN variant[i]
                                     ELSE [w \in Resolutions |-> Absent]]
      /\ applied' = r.got /\ Overtake(ids)
      /\ req' = Raced(q, next)
  BY <1>1, <1>2, <1>3 DEF SetSnapshot
<1>5. applied'.ids = ids
  BY <1>2, <1>4
<1>6. \A i \in Ids : stream'[i] # Absent => i \in applied'.ids
  BY <1>4, <1>5
<1>7. OrphansExplained'
  <2>1. \A i \in Ids \ ids : master'[i].at = Absent /\ \A w \in Resolutions : variant'[i][w] = Absent
    BY <1>4 DEF NoMaster
  <2>2. QED
    BY <1>5, <2>1 DEF OrphansExplained
<1>8. req'[q] = next /\ \A p \in Requests \ {q} : Kept(p)
  BY <1>4, OthersKept DEF IInv
<1>9. next.pc = "stream again"
  <2>1. r \in Request
    BY <1>1, <1>4, Running
  <2>2. QED
    BY <1>3, <2>1 DEF Request
<1>10. ASSUME NEW p \in Requests, Resolving(req'[p]) PROVE req'[p].id \in ids \/ p \in overtaken'
  <2>1. p # q
    BY <1>8, <1>9, <1>10 DEF Resolving
  <2>2. Resolving(req[p]) /\ req'[p].id = req[p].id
    BY <1>8, <1>10, <2>1, KeptResolving
  <2>3. QED
    BY <1>4, <2>2 DEF Overtake, Resolving
<1>11. (\A p \in Requests : Resolving(req[p]) => req[p].id \in applied.ids \/ p \in overtaken)'
  BY <1>5, <1>10 DEF Resolving
<1>12. QED
  BY <1>6, <1>7, <1>11 DEF OrphanInv

(* setMaster: who stores the master of a stream that is not listed was overtaken. *)
LEMMA SetMasterOrphans ==
    ASSUME IInv, OrphanInv, NEW q \in Requests, SetMaster(q) PROVE OrphanInv'
<1>1. PICK r : r = req[q]
  OBVIOUS
<1>2. PICK i : i = r.id
  OBVIOUS
<1>3. PICK next : next = [r EXCEPT !.pc = "lookup again", !.lists = {}]
  OBVIOUS
<1>4. PICK m, v :
        /\ r.pc = "set master" /\ UNCHANGED <<stream, lastSnapshot, applied, upstreamVars>>
        /\ master' = [master EXCEPT ![i] = m] /\ variant' = [variant EXCEPT ![i] = v]
        /\ orphaned' = IF q \in overtaken /\ i \notin applied.ids THEN orphaned \cup {i} ELSE orphaned
        /\ overtaken' = overtaken \ {q}
        /\ req' = Raced(q, next)
  BY <1>1, <1>2, <1>3 DEF SetMaster, StoreMaster
<1>5. i \in applied.ids \/ q \in overtaken
  BY <1>1, <1>2, <1>4 DEF OrphanInv, Resolving
<1>6. orphaned \subseteq orphaned' /\ (i \in applied.ids \/ i \in orphaned')
  BY <1>4, <1>5
<1>7. \A j \in Ids \ {i} : master'[j] = master[j] /\ variant'[j] = variant[j]
  BY <1>4 DEF IInv, TypeOK
<1>8. OrphansExplained'
  BY <1>4, <1>6, <1>7 DEF OrphansExplained, OrphanInv
<1>9. req'[q] = next /\ \A p \in Requests \ {q} : Kept(p)
  BY <1>4, OthersKept DEF IInv
<1>10. next.pc = "lookup again"
  <2>1. r \in Request
    BY <1>1, <1>4, Running
  <2>2. QED
    BY <1>3, <2>1 DEF Request
<1>11. ASSUME NEW p \in Requests, Resolving(req'[p])
       PROVE  req'[p].id \in applied'.ids \/ p \in overtaken'
  <2>1. p # q
    BY <1>9, <1>10, <1>11 DEF Resolving
  <2>2. Resolving(req[p]) /\ req'[p].id = req[p].id
    BY <1>9, <1>11, <2>1, KeptResolving
  <2>3. QED
    BY <1>4, <2>1, <2>2 DEF OrphanInv
<1>12. (\A p \in Requests : Resolving(req[p]) => req[p].id \in applied.ids \/ p \in overtaken)'
  BY <1>11 DEF Resolving
<1>13. (\A j \in Ids : stream[j] # Absent => j \in applied.ids)'
  BY <1>4 DEF OrphanInv
<1>14. QED
  BY <1>8, <1>12, <1>13 DEF OrphanInv

(* evict: nothing is left of the stream. *)
LEMMA EvictForOrphans ==
    ASSUME IInv, OrphanInv, NEW q \in Requests, NEW answer \in {"502", "evicted"},
           EvictFor(q, answer), req[q].pc \in {"evict", "found"}
    PROVE  OrphanInv'
<1>1. PICK r : r = req[q]
  OBVIOUS
<1>2. PICK i : i = r.id
  OBVIOUS
<1>3. PICK next : next = [r EXCEPT !.pc = answer]
  OBVIOUS
<1>4. /\ UNCHANGED <<applied, upstreamVars>>
      /\ stream' = [stream EXCEPT ![i] = Absent]
      /\ master' = [master EXCEPT ![i] = NoMaster]
      /\ variant' = [variant EXCEPT ![i] = [w \in Resolutions |-> Absent]]
      /\ orphaned' = orphaned \ {i} /\ overtaken' = overtaken \ {q}
      /\ req' = Raced(q, next)
  BY <1>1, <1>2, <1>3 DEF EvictFor, GotoRaced
<1>5. r \in Request /\ i \in Ids
  BY <1>1, <1>2, Running
<1>6. /\ stream'[i] = Absent /\ master'[i].at = Absent
      /\ \A w \in Resolutions : variant'[i][w] = Absent
      /\ \A j \in Ids \ {i} : /\ stream'[j] = stream[j] /\ master'[j] = master[j]
                              /\ variant'[j] = variant[j]
  BY <1>4, <1>5 DEF IInv, TypeOK, NoMaster
<1>7. OrphansExplained'
  BY <1>4, <1>6 DEF OrphansExplained, OrphanInv
<1>8. req'[q] = next /\ \A p \in Requests \ {q} : Kept(p)
  BY <1>4, OthersKept DEF IInv
<1>9. next.pc = answer
  BY <1>3, <1>5 DEF Request
<1>10. ASSUME NEW p \in Requests, Resolving(req'[p])
       PROVE  req'[p].id \in applied'.ids \/ p \in overtaken'
  <2>1. p # q
    BY <1>8, <1>9, <1>10 DEF Resolving
  <2>2. Resolving(req[p]) /\ req'[p].id = req[p].id
    BY <1>8, <1>10, <2>1, KeptResolving
  <2>3. QED
    BY <1>4, <2>1, <2>2 DEF OrphanInv
<1>11. (\A p \in Requests : Resolving(req[p]) => req[p].id \in applied.ids \/ p \in overtaken)'
  BY <1>10 DEF Resolving
<1>12. (\A j \in Ids : stream[j] # Absent => j \in applied.ids)'
  BY <1>4, <1>6 DEF OrphanInv
<1>13. QED
  BY <1>7, <1>11, <1>12 DEF OrphanInv

(* The sweep of views, which no request takes part in. *)
LEMMA ViewsOrphans == ASSUME IInv, OrphanInv, Views PROVE OrphanInv'
<1>1. \A q \in Requests : Kept(q)
  BY DEF Views, Kept, Underway
<1>2. /\ UNCHANGED <<applied, overtaken, orphaned>>
      /\ \A i \in Ids : /\ stream'[i] \in {stream[i], Absent}
                        /\ master'[i] \in {master[i], NoMaster}
                        /\ \A w \in Resolutions : variant'[i][w] \in {variant[i][w], Absent}
  BY DEF Views
<1>3. (\A i \in Ids : stream[i] # Absent => i \in applied.ids)'
  BY <1>2 DEF OrphanInv
<1>4. \A q \in Requests : Resolving(req'[q]) => req'[q].id \in applied'.ids \/ q \in overtaken'
  BY <1>1, <1>2, KeptResolving DEF OrphanInv
<1>5. (\A q \in Requests : Resolving(req[q]) => req[q].id \in applied.ids \/ q \in overtaken)'
  BY <1>4 DEF Resolving
<1>6. OrphansExplained'
  <2>1. ASSUME NEW i \in Ids, master'[i].at # Absent \/ \E w \in Resolutions : variant'[i][w] # Absent
        PROVE  master[i].at # Absent \/ \E w \in Resolutions : variant[i][w] # Absent
    BY <1>2, <2>1 DEF NoMaster
  <2>2. QED
    BY <1>2, <2>1 DEF OrphansExplained, OrphanInv
<1>7. QED
  BY <1>3, <1>5, <1>6 DEF OrphanInv

(* So it is after every step. *)
LEMMA OrphanNext == IInv /\ OrphanInv /\ [Next]_vars => OrphanInv'
<1>1. ASSUME IInv, OrphanInv, NEW q \in Requests, Step(q) PROVE OrphanInv'
  <2>1. CASE EvictUnresolved(q) \/ EvictEnded(q)
    BY <1>1, <2>1, EvictForOrphans DEF EvictUnresolved, EvictEnded
  <2>2. QED
    BY <1>1, <2>1, LookupStreamOrphans, LookupOrphans, GoOnOrphans, SetSnapshotOrphans,
       SetMasterOrphans DEF Step
<1>2. ASSUME OrphanInv, UNCHANGED cacheVars, UNCHANGED req PROVE OrphanInv'
  BY <1>2 DEF OrphanInv, OrphansExplained, Resolving, cacheVars
<1>3. QED
  BY <1>1, <1>2, ViewsOrphans DEF Next, Change, Tick, vars

-----------------------------------------------------------------------------
(* The inductive invariant. *)
THEOREM Invariance == Spec => []IInv
BY InitInv, NextInv, PTL DEF Spec

(* Every record is stamped with a time that has been, and lists resolutions. *)
THEOREM Typed == Spec => []TypeOK
<1>1. IInv => TypeOK
  BY DEF IInv
<1>2. QED
  BY Invariance, <1>1, PTL

(* setMaster, get and evict (cache.go): the cache never holds a torn set. *)
THEOREM SetsAreWhole == Spec => []NoTornSet
<1>1. IInv => NoTornSet
  BY DEF IInv
<1>2. QED
  BY Invariance, <1>1, PTL

(* setSnapshot, stream and resolveMaster (cache.go): records of a stream the last
   snapshot does not list were stored by a request that had found the stream
   listed, and before whose store a snapshot without it came. *)
THEOREM OrphansAreOvertaken == Spec => []OrphansExplained
<1>1. ASSUME Init PROVE OrphanInv
  <2>1. \A i \in Ids : /\ stream[i] = Absent /\ master[i].at = Absent
                       /\ \A w \in Resolutions : variant[i][w] = Absent
    BY <1>1 DEF Init, NoMaster
  <2>2. \A q \in Requests : req[q].pc = "idle"
    BY <1>1 DEF Init
  <2>3. QED
    BY <2>1, <2>2 DEF OrphanInv, OrphansExplained, Resolving
<1>2. OrphanInv => OrphansExplained
  BY DEF OrphanInv
<1>3. QED
  BY Invariance, OrphanNext, <1>1, <1>2, PTL DEF Spec

(* variant (nos.go and cache.go): upstream lacked what is reported missing,
   within the TTL before the request, unless another request interfered. *)
THEOREM MissingIsExplained == Spec => []MissingExplained
<1>1. IInv => MissingExplained
  BY DEF IInv, ReqInv, Consistent, Answers, LackedSince, MissingExplained
<1>2. QED
  BY Invariance, <1>1, PTL

(* variant: upstream offered what is found within the TTL before the request. *)
THEOREM FoundIsFresh == Spec => []FoundWithinTTL
<1>1. IInv => FoundWithinTTL
  BY DEF IInv, ReqInv, Consistent, Answers, FoundWithinTTL
<1>2. QED
  BY Invariance, <1>1, PTL
=============================================================================
