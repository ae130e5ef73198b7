------------------------------ MODULE MuxCache ------------------------------
(***************************************************************************)
(* The index of the memory tier (mux.go:241-369): one entry per key, found *)
(* by get and peek, replaced when it has expired, evicted by age or size.  *)
(*                                                                         *)
(* get and peek hold muxCache.mu from beginning to end, so a get that hits *)
(* and a peek are one action each.  A get that misses walks the entries to *)
(* evict, and asks each of them, under the entry's own lock, whether it    *)
(* has expired and how large it is: while it walks, fetches keep growing   *)
(* and finishing and time passes, so the walk is one action per entry.     *)
(* What goes on inside an entry is MuxEntry; here an entry is its age, its *)
(* size and how its fetch stands.                                          *)
(***************************************************************************)
EXTENDS Integers, Sequences, Functions

CONSTANTS Keys,       \* cache keys
          TTL,        \* the time to live of the entries of each key
          FetchLimit, \* muxFetchLimit, in ticks
          MaxBytes,   \* muxCache.maxBytes
          MaxSize,    \* bound: the longest body
          MaxFetches, \* bound: the fetches of a behaviour
          MaxClock    \* bound: the ticks of a behaviour

ASSUME MuxCacheAssumption ==
    /\ TTL \in [Keys -> Nat]
    /\ {FetchLimit, MaxBytes, MaxSize, MaxFetches, MaxClock} \subseteq Nat

VARIABLES clock,
          disabled, \* VOETBAL_MEMORY_CACHE_DISABLED
          fetches,  \* every entry created so far; an entry is its place here
          index,    \* muxCache.entries
          walk,     \* the eviction walk in progress under muxCache.mu
          grown,    \* bytes received since the last walk began
          outgrown  \* the entries evicted for size

vars == <<clock, disabled, fetches, index, walk, grown, outgrown>>

Absent == 0
Entries == DOMAIN fetches
Indexed == {index[k] : k \in Keys} \ {Absent}
Flying(e) == fetches[e].state = "flying"

(* No walk: muxCache.mu is free. *)
NoWalk == [phase |-> "none"]
Unlocked == walk = NoWalk

Init ==
    /\ clock = 0
    /\ disabled \in BOOLEAN
    /\ fetches = <<>>
    /\ index = [k \in Keys |-> Absent]
    /\ walk = NoWalk
    /\ grown = 0
    /\ outgrown = {}

(* Faulty variant: an entry that is not done counts as expired. *)
ExpiredUnlessDone(e, now) == fetches[e].state # "ok" \/ now - fetches[e].created > TTL[fetches[e].key]

(* expired: past its TTL, or finished with an error. *)
Expired(e, now) ==
    \/ fetches[e].state = "failed"
    \/ now - fetches[e].created > TTL[fetches[e].key]

(* c.entries[key], if it is there and live. *)
Live(k) == index[k] # Absent /\ ~Expired(index[k], clock)

(* Faulty variant: the moment an entry expires is taken for its creation. *)
NewEntryExpiring(k) == [key |-> k, created |-> clock + TTL[k], size |-> 0, state |-> "flying"]

(* newMuxEntry *)
NewEntry(k) == [key |-> k, created |-> clock, size |-> 0, state |-> "flying"]

(* peek, and a get that finds a live entry: it is shared, and nothing changes
   but the statistics, which are left out. *)
Hit(k) ==
    /\ Unlocked
    /\ ~disabled
    /\ Live(k)
    /\ UNCHANGED vars

(* get on a disabled cache: an entry that only its caller knows. *)
GetDisabled(k) ==
    /\ Unlocked
    /\ disabled
    /\ Len(fetches) < MaxFetches
    /\ fetches' = Append(fetches, NewEntry(k))
    /\ UNCHANGED <<clock, disabled, index, walk, grown, outgrown>>

(* get misses: a new entry takes the key, and the walk begins.  The fetch is
   started when the walk is over. *)
GetMiss(k) ==
    /\ Unlocked
    /\ ~disabled
    /\ ~Live(k)
    /\ Len(fetches) < MaxFetches
    /\ fetches' = Append(fetches, [NewEntry(k) EXCEPT !.state = "created"])
    /\ index' = [index EXCEPT ![k] = Len(fetches) + 1]
    /\ walk' = [phase |-> "scan", keep |-> k, now |-> clock, total |-> 0,
                todo |-> {key \in Keys : index[key] # Absent} \cup {k}]
    /\ grown' = 0
    /\ UNCHANGED <<clock, disabled, outgrown>>

(* The first loop of evict: an expired entry is deleted, any other counted. *)
Scan ==
    /\ walk.phase = "scan"
    /\ \E k \in walk.todo :
        IF k # walk.keep /\ Expired(index[k], walk.now)
          THEN /\ index' = [index EXCEPT ![k] = Absent]
               /\ walk' = [walk EXCEPT !.todo = @ \ {k}]
          ELSE /\ walk' = [walk EXCEPT !.todo = @ \ {k}, !.total = @ + fetches[index[k]].size]
               /\ UNCHANGED index
    /\ UNCHANGED <<clock, disabled, fetches, grown, outgrown>>

ScanDone ==
    /\ walk.phase = "scan"
    /\ walk.todo = {}
    /\ walk' = [walk EXCEPT !.phase = "shrink"]
    /\ UNCHANGED <<clock, disabled, fetches, index, grown, outgrown>>

(* Faulty variant: the new entry may be evicted like any other. *)
AllCandidates == {k \in Keys : index[k] # Absent}

(* The entries the second loop may evict, oldest first. *)
Candidates == {k \in Keys \ {walk.keep} : index[k] # Absent}
Created(k) == fetches[index[k]].created
Oldest == {k \in Candidates : \A j \in Candidates : Created(k) <= Created(j)}

(* One round of the second loop: the entry of k is evicted, and the total is
   lower by "freed". *)
EvictFor(k, freed) ==
    /\ index' = [index EXCEPT ![k] = Absent]
    /\ walk' = [walk EXCEPT !.total = @ - freed]
    /\ outgrown' = outgrown \cup {index[k]}
    /\ UNCHANGED <<clock, disabled, fetches, grown>>

MustShrink == walk.phase = "shrink" /\ walk.total > MaxBytes

(* Faulty variant: one round is taken to be enough. *)
EvictOnce == MustShrink /\ \E k \in Oldest : EvictFor(k, walk.total)

(* The second loop of evict: the oldest goes, at the size it has by now. *)
EvictOldest == MustShrink /\ \E k \in Oldest : EvictFor(k, fetches[index[k]].size)

(* get starts the fetch and returns. *)
StartFetch ==
    /\ walk.phase = "shrink"
    /\ walk.total <= MaxBytes \/ Candidates = {}
    /\ fetches' = [fetches EXCEPT ![index[walk.keep]].state = "flying"]
    /\ walk' = NoWalk
    /\ UNCHANGED <<clock, disabled, index, grown, outgrown>>

(* views deletes what has expired, at a time taken before the lock was; an
   entry that fails while views is under way may have been looked at before. *)
Views ==
    /\ Unlocked
    /\ \E now \in 0 .. clock :
       \E S \in SUBSET {k \in Keys : index[k] # Absent /\ Expired(index[k], now)} :
        /\ \A k \in Keys : index[k] # Absent /\ now - Created(k) > TTL[k] => k \in S
        /\ index' = [k \in Keys |-> IF k \in S THEN Absent ELSE index[k]]
    /\ UNCHANGED <<clock, disabled, fetches, walk, grown, outgrown>>

-----------------------------------------------------------------------------
(* The fetches, and time.                                                  *)

(* A fetch receives a byte; how large an entry becomes that nobody can find
   any more is left out. *)
Grow(e) ==
    /\ Flying(e)
    /\ e \in Indexed
    /\ fetches[e].size < MaxSize
    /\ fetches' = [fetches EXCEPT ![e].size = @ + 1]
    /\ grown' = grown + 1
    /\ UNCHANGED <<clock, disabled, index, walk, outgrown>>

(* A fetch ends. *)
End(e) ==
    /\ Flying(e)
    /\ \E s \in {"ok", "failed"} : fetches' = [fetches EXCEPT ![e].state = s]
    /\ UNCHANGED <<clock, disabled, index, walk, grown, outgrown>>

(* Time passes, but no fetch outlives muxFetchLimit. *)
Tick ==
    /\ clock < MaxClock
    /\ \A e \in Entries : Flying(e) => clock - fetches[e].created < FetchLimit
    /\ clock' = clock + 1
    /\ UNCHANGED <<disabled, fetches, index, walk, grown, outgrown>>

Walk == Scan \/ ScanDone \/ EvictOldest \/ StartFetch

Next ==
    \/ \E k \in Keys : Hit(k) \/ GetDisabled(k) \/ GetMiss(k)
    \/ Walk
    \/ Views
    \/ \E e \in Entries : Grow(e) \/ End(e)
    \/ Tick

Spec == Init /\ [][Next]_vars

-----------------------------------------------------------------------------
(* The type invariant. *)
TypeOK ==
    /\ clock \in 0 .. MaxClock
    /\ disabled \in BOOLEAN
    /\ fetches \in Seq([key : Keys, created : 0 .. MaxClock, size : 0 .. MaxSize,
                        state : {"created", "flying", "ok", "failed"}])
    /\ index \in [Keys -> {Absent} \cup Entries]
    /\ \A k \in Keys : index[k] # Absent => fetches[index[k]].key = k
    /\ grown \in Nat
    /\ outgrown \subseteq Entries
    /\ walk.phase \in {"none", "scan", "shrink"}

(* Concurrent requests for a key share one fetch in flight (mux.go:18-19), but
   for this: two fetches of one key run side by side only when the first could not be
   shared any more: it had outlived its TTL when the second was asked for, or
   had been evicted for size while it was still running. *)
DuplicatesExplained ==
    ~disabled =>
        \A d, e \in Entries :
            d < e /\ Flying(d) /\ Flying(e) /\ fetches[d].key = fetches[e].key =>
                \/ fetches[e].created - fetches[d].created > TTL[fetches[e].key]
                \/ d \in outgrown

(* Between two misses the cache holds more than maxBytes only by what was
   received since the last walk began: although each entry is measured at
   another moment, and once more when it is evicted, the walk gives up enough. *)
Overshoot ==
    Unlocked =>
        SumFunctionOnSet([e \in Entries |-> fetches[e].size], Indexed) <= MaxBytes + grown

(* The entry a miss returns is the one the next request of its key finds, and
   its fetch is started: the walk never takes it, and no entry is left in the
   index that nobody will ever fill. *)
NewEntryIsShared ==
    /\ walk.phase # "none" =>
           index[walk.keep] # Absent /\ fetches[index[walk.keep]].state = "created"
    /\ \A k \in Keys : index[k] # Absent /\ fetches[index[k]].state = "created" =>
           walk.phase # "none" /\ walk.keep = k
=============================================================================
