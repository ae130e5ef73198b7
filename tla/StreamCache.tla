---------------------------- MODULE StreamCache ----------------------------
(***************************************************************************)
(* The cache of stream metadata (cache.go:45-247) under concurrent         *)
(* requests.  A request looks its record up, and on a miss asks upstream   *)
(* and stores what it got; the lock is held for each lookup and each store *)
(* but not between them, nor while upstream is asked, so other requests,   *)
(* changes upstream and time come in between.  "now" is taken once, when   *)
(* the request starts, and used for all its lookups and stores.            *)
(*                                                                         *)
(* Upstream is streams.json, which lists the live streams, and one master  *)
(* playlist per stream, which lists resolutions.  A record is reduced to   *)
(* the moment it was fetched, on which its expiry depends, and a master to *)
(* the resolutions it lists besides.                                       *)
(***************************************************************************)
EXTENDS Integers, FiniteSets

CONSTANTS Ids,        \* stream ids
          Resolutions,
          Requests,   \* the requests of a behaviour
          TTL,        \* cacheTTL
          Cooldown,   \* snapshotCooldown
          MaxClock,   \* bound: the ticks of a behaviour
          MaxChanges  \* bound: the changes upstream makes

NoResolution == "none"

ASSUME StreamCacheAssumption ==
    /\ TTL \in Nat /\ Cooldown \in Nat /\ Cooldown <= TTL
    /\ MaxClock \in Nat /\ MaxChanges \in Nat
    /\ NoResolution \notin Resolutions

VARIABLES clock,
          live, offer,      \* upstream: the streams it lists, their resolutions
          version,          \* how often upstream has changed
          stream,           \* nos/{id}: when fetched
          master,           \* nos/{id}/master: when fetched, and what it lists
          variant,          \* nos/{id}/{res}: when fetched
          lastSnapshot,
          applied,          \* the version and streams of the last snapshot stored
          req,              \* the requests
          lastLacked, lastOffered, \* history: of what upstream offered
          overtaken, \* history: requests that found their stream listed, before a
                     \* snapshot without it was stored
          orphaned   \* history: what those have stored afterwards

cacheVars == <<stream, master, variant, lastSnapshot, applied, overtaken, orphaned>>
upstreamVars == <<clock, live, offer, version, lastLacked, lastOffered>>
vars == <<cacheVars, upstreamVars, req>>

Absent == -1
Never == -1 - Cooldown \* the zero time.Time of lastSnapshot
NoMaster == [at |-> Absent, lists |-> {}]
NoSnapshot == [version |-> 0, ids |-> {}]
Done == {"found", "404 master", "404 cooldown", "404", "502", "evicted"}

Init ==
    /\ clock = 0
    /\ live \in SUBSET Ids
    /\ offer \in [Ids -> SUBSET Resolutions]
    /\ version = 0
    /\ stream = [i \in Ids |-> Absent]
    /\ master = [i \in Ids |-> NoMaster]
    /\ variant = [i \in Ids |-> [r \in Resolutions |-> Absent]]
    /\ lastSnapshot = Never
    /\ applied = NoSnapshot
    /\ req = [q \in Requests |-> [pc |-> "idle"]]
    /\ lastLacked = [i \in Ids |-> [r \in Resolutions |->
                        IF i \in live /\ r \in offer[i] THEN Never ELSE 0]]
    /\ lastOffered = [i \in Ids |-> [r \in Resolutions |->
                         IF r \in offer[i] THEN 0 ELSE Absent]]
    /\ overtaken = {} /\ orphaned = {}

-----------------------------------------------------------------------------
(* Faulty variant: a record is served one tick longer than its TTL. *)
ExpiredLate(at, now) == now > at + TTL + 1

(* now.After(e.Expires) *)
Expired(at, now) == now > at + TTL

(* Every other request that is under way learns that the cache has changed. *)
Raced(q, next) ==
    [p \in Requests |-> IF p = q THEN next
                        ELSE IF req[p].pc \in Done \cup {"idle"} THEN req[p]
                        ELSE [req[p] EXCEPT !.raced = TRUE]]

(* The request goes on at pc; nothing it did changed the cache. *)
Goto(q, pc) == req' = [req EXCEPT ![q].pc = pc] /\ UNCHANGED cacheVars

(* The request changed the cache and goes on at pc. *)
GotoRaced(q, pc) == req' = Raced(q, [req[q] EXCEPT !.pc = pc])

(* get: an expired record is deleted and misses. *)
GetStream(q, hit, miss) ==
    LET i == req[q].id
        at == stream[i]
    IN  IF at = Absent THEN Goto(q, miss)
        ELSE IF Expired(at, req[q].now)
          THEN /\ stream' = [stream EXCEPT ![i] = Absent]
               /\ GotoRaced(q, miss)
               /\ UNCHANGED <<master, variant, lastSnapshot, applied, overtaken, orphaned>>
          ELSE Goto(q, hit)

GetMaster(q, hit, miss) ==
    LET i == req[q].id
        at == master[i].at
    IN  IF at = Absent THEN Goto(q, miss)
        ELSE IF Expired(at, req[q].now)
          THEN /\ master' = [master EXCEPT ![i] = NoMaster]
               /\ GotoRaced(q, miss)
               /\ UNCHANGED <<stream, variant, lastSnapshot, applied, overtaken, orphaned>>
          ELSE Goto(q, hit)

GetVariant(q, hit, miss) ==
    LET i == req[q].id
        r == req[q].res
        at == variant[i][r]
    IN  IF at = Absent THEN Goto(q, miss)
        ELSE IF Expired(at, req[q].now)
          THEN /\ variant' = [variant EXCEPT ![i][r] = Absent]
               /\ GotoRaced(q, miss)
               /\ UNCHANGED <<stream, master, lastSnapshot, applied, overtaken, orphaned>>
          ELSE Goto(q, hit)

-----------------------------------------------------------------------------
(* A request of the player page, of the master playlist or of a variant. *)
Start(q) ==
    /\ req[q].pc = "idle"
    /\ \E op \in {"player", "master", "variant"}, i \in Ids, r \in Resolutions \cup {NoResolution} :
        /\ op = "variant" <=> r # NoResolution
        /\ req' = [req EXCEPT ![q] =
                    [pc |-> CASE op = "player" -> "stream"
                              [] op = "master" -> "lookup master"
                              [] op = "variant" -> "lookup variant",
                     op |-> op, id |-> i, res |-> r, now |-> clock, raced |-> FALSE,
                     got |-> NoSnapshot, lists |-> {}]]
    /\ UNCHANGED <<cacheVars, upstreamVars>>

(* master and variant: their own record first. *)
LookupMaster(q) ==
    /\ req[q].pc = "lookup master"
    /\ GetMaster(q, "found", "stream")
    /\ UNCHANGED upstreamVars

LookupVariant(q) ==
    /\ req[q].pc = "lookup variant"
    /\ GetVariant(q, "found", "check master")
    /\ UNCHANGED upstreamVars

(* variant: a live master means that there is no such resolution. *)
CheckMaster(q) ==
    /\ req[q].pc = "check master"
    /\ GetMaster(q, "404 master", "stream")
    /\ UNCHANGED upstreamVars

(* Faulty variant: a master is resolved although its stream is not listed. *)
UnknownResolved(q) == IF req[q].op = "player" THEN "404" ELSE "fetch master"

(* Where stream() leaves a request that has, or has not, a stream record. *)
Known(q) == IF req[q].op = "player" THEN "found" ELSE "fetch master"
Unknown(q) == IF req[q].op = "player" THEN "404" ELSE "lookup again"

LookupStream(q) ==
    /\ req[q].pc = "stream"
    /\ GetStream(q, Known(q), "cooldown")
    /\ UNCHANGED upstreamVars

(* stream: streams.json was read a moment ago and did not list the id. *)
CheckCooldown(q) ==
    /\ req[q].pc = "cooldown"
    /\ Goto(q, IF req[q].now - lastSnapshot < Cooldown
                 THEN (IF req[q].op = "player" THEN "404 cooldown" ELSE "lookup again")
                 ELSE "fetch streams")
    /\ UNCHANGED upstreamVars

(* fetchStreams returns what upstream lists at some moment, or fails. *)
FetchStreams(q) ==
    /\ req[q].pc = "fetch streams"
    /\ \/ req' = [req EXCEPT ![q].pc = "set snapshot",
                             ![q].got = [version |-> version, ids |-> live]]
       \/ req' = [req EXCEPT ![q].pc = "502"]
    /\ UNCHANGED <<cacheVars, upstreamVars>>

(* A snapshot is stored that lists ids: what was stored of a stream outside them
   goes, and a request that has found that stream listed is overtaken. *)
Overtake(ids) ==
    /\ orphaned' = {}
    /\ overtaken' = overtaken \cup
           {q \in Requests : req[q].pc \in {"fetch master", "set master"} /\ req[q].id \notin ids}

(* Faulty variant: only the stream records of others go. *)
SetSnapshotKeepingChildren(q) ==
    /\ req[q].pc = "set snapshot"
    /\ stream' = [i \in Ids |-> IF i \in req[q].got.ids THEN req[q].now ELSE Absent]
    /\ Overtake(req[q].got.ids)
    /\ lastSnapshot' = req[q].now
    /\ applied' = req[q].got
    /\ req' = Raced(q, [req[q] EXCEPT !.pc = "stream again", !.got = NoSnapshot])
    /\ UNCHANGED <<master, variant, upstreamVars>>

(* setSnapshot: the streams listed are stored, everything of others goes. *)
SetSnapshot(q) ==
    /\ req[q].pc = "set snapshot"
    /\ LET ids == req[q].got.ids IN
        /\ stream' = [i \in Ids |-> IF i \in ids THEN req[q].now ELSE Absent]
        /\ master' = [i \in Ids |-> IF i \in ids THEN master[i] ELSE NoMaster]
        /\ variant' = [i \in Ids |-> IF i \in ids THEN variant[i]
                                     ELSE [r \in Resolutions |-> Absent]]
        /\ Overtake(ids)
    /\ lastSnapshot' = req[q].now
    /\ applied' = req[q].got
    /\ req' = Raced(q, [req[q] EXCEPT !.pc = "stream again", !.got = NoSnapshot])
    /\ UNCHANGED upstreamVars

LookupStreamAgain(q) ==
    /\ req[q].pc = "stream again"
    /\ GetStream(q, Known(q), Unknown(q))
    /\ UNCHANGED upstreamVars

(* resolveMaster: fetchPlaylist returns the master of the moment, or fails. *)
FetchMaster(q) ==
    /\ req[q].pc = "fetch master"
    /\ \/ req' = [req EXCEPT ![q].pc = "set master", ![q].lists = offer[req[q].id]]
       \/ req' = [req EXCEPT ![q].pc = "evict"]
    /\ UNCHANGED <<cacheVars, upstreamVars>>

(* The records of a stream fetched at "at". *)
StoreMaster(q, at) ==
    /\ req[q].pc = "set master"
    /\ LET i == req[q].id IN
        /\ master' = [master EXCEPT ![i] = [at |-> at, lists |-> req[q].lists]]
        /\ variant' = [variant EXCEPT ![i] = [r \in Resolutions |->
                          IF r \in req[q].lists THEN at ELSE Absent]]
        /\ orphaned' = IF q \in overtaken /\ i \notin applied.ids THEN orphaned \cup {i} ELSE orphaned
        /\ overtaken' = overtaken \ {q}
    /\ req' = Raced(q, [req[q] EXCEPT !.pc = "lookup again", !.lists = {}])
    /\ UNCHANGED <<stream, lastSnapshot, applied, upstreamVars>>

(* Faulty variant: the records are stamped with the time they are stored. *)
SetMasterLate(q) == StoreMaster(q, clock)

(* Faulty variant: Fetched and Expires are swapped. *)
SetMasterSwapped(q) == StoreMaster(q, req[q].now + TTL)

(* Faulty variant: resolutions that have disappeared are kept. *)
SetMasterKeeping(q) ==
    /\ req[q].pc = "set master"
    /\ LET i == req[q].id IN
        /\ master' = [master EXCEPT ![i] = [at |-> req[q].now, lists |-> req[q].lists]]
        /\ variant' = [variant EXCEPT ![i] = [r \in Resolutions |->
                          IF r \in req[q].lists THEN req[q].now ELSE @[r]]]
        /\ orphaned' = IF q \in overtaken /\ i \notin applied.ids THEN orphaned \cup {i} ELSE orphaned
        /\ overtaken' = overtaken \ {q}
    /\ req' = Raced(q, [req[q] EXCEPT !.pc = "lookup again", !.lists = {}])
    /\ UNCHANGED <<stream, lastSnapshot, applied, upstreamVars>>

(* setMaster: the master and the variants it lists, and no others. *)
SetMaster(q) == StoreMaster(q, req[q].now)

(* master and variant look their record up once more. *)
LookupAgain(q) ==
    /\ req[q].pc = "lookup again"
    /\ IF req[q].op = "master" THEN GetMaster(q, "found", "404") ELSE GetVariant(q, "found", "404")
    /\ UNCHANGED upstreamVars

(* Faulty variant: the cooldown goes on. *)
EvictKeepingCooldown(q, answer) ==
    LET i == req[q].id IN
    /\ stream' = [stream EXCEPT ![i] = Absent]
    /\ master' = [master EXCEPT ![i] = NoMaster]
    /\ variant' = [variant EXCEPT ![i] = [r \in Resolutions |-> Absent]]
    /\ orphaned' = orphaned \ {i} /\ overtaken' = overtaken \ {q}
    /\ GotoRaced(q, answer)
    /\ UNCHANGED <<lastSnapshot, applied, upstreamVars>>

(* evict: everything of the stream goes, and the next miss asks upstream. *)
EvictFor(q, answer) ==
    LET i == req[q].id IN
    /\ stream' = [stream EXCEPT ![i] = Absent]
    /\ master' = [master EXCEPT ![i] = NoMaster]
    /\ variant' = [variant EXCEPT ![i] = [r \in Resolutions |-> Absent]]
    /\ lastSnapshot' = Never
    /\ orphaned' = orphaned \ {i} /\ overtaken' = overtaken \ {q}
    /\ GotoRaced(q, answer)
    /\ UNCHANGED <<applied, upstreamVars>>

(* The master could not be fetched. *)
EvictUnresolved(q) == req[q].pc = "evict" /\ EvictFor(q, "502")

(* handleStream: the media playlist of a variant that was found cannot be
   fetched, at any later time. *)
EvictEnded(q) == req[q].pc = "found" /\ req[q].op = "variant" /\ EvictFor(q, "evicted")

(* views deletes what has expired. *)
Views ==
    /\ stream' = [i \in Ids |-> IF Expired(stream[i], clock) THEN Absent ELSE stream[i]]
    /\ master' = [i \in Ids |-> IF Expired(master[i].at, clock) THEN NoMaster ELSE master[i]]
    /\ variant' = [i \in Ids |-> [r \in Resolutions |->
                     IF Expired(variant[i][r], clock) THEN Absent ELSE variant[i][r]]]
    /\ <<stream', master', variant'>> # <<stream, master, variant>>
    /\ req' = [q \in Requests |-> IF req[q].pc \in Done \cup {"idle"} THEN req[q]
                                  ELSE [req[q] EXCEPT !.raced = TRUE]]
    /\ UNCHANGED <<lastSnapshot, applied, overtaken, orphaned, upstreamVars>>

-----------------------------------------------------------------------------
(* Upstream starts or ends a stream, or changes what a master lists. *)
Change ==
    /\ version < MaxChanges
    /\ version' = version + 1
    /\ \/ \E i \in Ids : /\ live' = IF i \in live THEN live \ {i} ELSE live \cup {i}
                         /\ UNCHANGED offer
       \/ \E i \in Ids, s \in SUBSET Resolutions : /\ s # offer[i]
                                                   /\ offer' = [offer EXCEPT ![i] = s]
                                                   /\ UNCHANGED live
    /\ lastLacked' = [i \in Ids |-> [r \in Resolutions |->
                         IF i \in live' /\ r \in offer'[i] THEN lastLacked[i][r] ELSE clock]]
    /\ lastOffered' = [i \in Ids |-> [r \in Resolutions |->
                         IF r \in offer'[i] THEN clock ELSE lastOffered[i][r]]]
    /\ UNCHANGED <<clock, cacheVars, req>>

Tick ==
    /\ clock < MaxClock
    /\ clock' = clock + 1
    /\ lastOffered' = [i \in Ids |-> [r \in Resolutions |->
                         IF r \in offer[i] THEN clock' ELSE lastOffered[i][r]]]
    /\ lastLacked' = [i \in Ids |-> [r \in Resolutions |->
                         IF i \in live /\ r \in offer[i] THEN lastLacked[i][r] ELSE clock']]
    /\ UNCHANGED <<live, offer, version, cacheVars, req>>

Step(q) ==
    \/ Start(q) \/ LookupMaster(q) \/ LookupVariant(q) \/ CheckMaster(q)
    \/ LookupStream(q) \/ CheckCooldown(q) \/ FetchStreams(q) \/ SetSnapshot(q)
    \/ LookupStreamAgain(q) \/ FetchMaster(q) \/ SetMaster(q) \/ LookupAgain(q)
    \/ EvictUnresolved(q) \/ EvictEnded(q)

Next == (\E q \in Requests : Step(q)) \/ Views \/ Change \/ Tick

Spec == Init /\ [][Next]_vars

-----------------------------------------------------------------------------
(* The type invariant. *)
TypeOK ==
    /\ clock \in 0 .. MaxClock
    /\ live \subseteq Ids
    /\ offer \in [Ids -> SUBSET Resolutions]
    /\ version \in 0 .. MaxChanges
    /\ stream \in [Ids -> {Absent} \cup 0 .. clock]
    /\ master \in [Ids -> [at : {Absent} \cup 0 .. clock, lists : SUBSET Resolutions]]
    /\ variant \in [Ids -> [Resolutions -> {Absent} \cup 0 .. clock]]
    /\ lastSnapshot \in {Never} \cup 0 .. clock
    /\ applied.version \in 0 .. version /\ applied.ids \subseteq Ids

(* The cache never holds a torn set (cache.go:51-53): while a master is live,
   the variants cached beside it are those it lists, fetched with it, whatever
   lookups with an older or a younger "now" have deleted. *)
NoTornSet ==
    \A i \in Ids : master[i].at # Absent /\ ~Expired(master[i].at, clock) =>
        \A r \in Resolutions :
            variant[i][r] = IF r \in master[i].lists THEN master[i].at ELSE Absent

(* What is cached of a stream that the last snapshot does not list was stored by
   a request that had found the stream listed before a snapshot without it came:
   nothing survives the snapshot that drops its stream, and no master is resolved
   of a stream that is known to be gone (cache.go:114-116, 181). *)
OrphansExplained ==
    \A i \in Ids :
        (master[i].at # Absent \/ \E r \in Resolutions : variant[i][r] # Absent) =>
            i \in applied.ids \/ i \in orphaned

(* A resolution is reported missing only if upstream has lacked it within the
   TTL before the request, or if some other request changed the cache meanwhile:
   what upstream starts to offer is not hidden for longer than that. *)
MissingExplained ==
    \A q \in Requests :
        req[q].pc \in {"404", "404 master", "404 cooldown"} /\ req[q].op = "variant" =>
            lastLacked[req[q].id][req[q].res] >= req[q].now - TTL \/ req[q].raced

(* A resolution that is found was listed upstream within the TTL before the
   request: neither the time a request takes nor the order in which responses
   are stored makes a record outlive it. *)
FoundWithinTTL ==
    \A q \in Requests :
        req[q].pc = "found" /\ req[q].op = "variant" =>
            lastOffered[req[q].id][req[q].res] >= req[q].now - TTL

(* What cache.go:210-211 says: a live master record means that the resolution
   a request did not find does not exist. *)
MasterMeansCurrent ==
    \A q \in Requests :
        req[q].pc = "404 master" => lastLacked[req[q].id][req[q].res] # Never

(* What cache.go:54-55 says: of two fetches the last write wins with equally
   fresh data, so that no store replaces a snapshot by an older one. *)
EquallyFresh == [][applied'.version >= applied.version]_vars
=============================================================================
