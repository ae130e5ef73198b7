----------------------------- MODULE DiskCache -----------------------------
(***************************************************************************)
(* The disk tier of the segment cache (diskcache.go) with its concurrent   *)
(* puts, and a process that may crash between any two steps and restart.   *)
(*                                                                         *)
(* put writes a temporary file, renames it to its final name and only then *)
(* takes the lock to index it; open, prune and views hold the lock for all *)
(* they do, removals of files included, so each is one action.  A rename   *)
(* does not take the lock: it may come between two removals, which leaves  *)
(* the same files as if it had come before or after both.                  *)
(*                                                                         *)
(* Bodies of one key are taken to be of one size, and not told apart: that *)
(* upstream may use a name again is in Serving.  The tier is enabled       *)
(* (enabled() holds), keys stay under the root, removals succeed, and the  *)
(* hit and miss statistics are left out.                                   *)
(***************************************************************************)
EXTENDS Integers, Functions, FiniteSets

CONSTANTS Keys,     \* cache keys
          Size,     \* the size of each segment
          Putters,  \* the fetch goroutines that persist a body
          TTL,      \* diskCache.ttl
          MaxBytes, \* diskCache.maxBytes
          MaxClock  \* bound: the ticks of a behaviour

ASSUME DiskCacheAssumption ==
    /\ Size \in [Keys -> Nat]
    /\ TTL \in Nat /\ MaxBytes \in Nat \ {0} /\ MaxClock \in Nat

VARIABLES clock,
          up,       \* the process is running
          index,    \* diskCache.files: when each segment was fetched
          disk,     \* the files under their final names
          litter,   \* temporary files of puts that no longer run
          putter,   \* the puts in progress
          replaced  \* keys put while they were cached or being put already

vars == <<clock, up, index, disk, litter, putter, replaced>>

Absent == -1
NoFile == [whole |-> FALSE, mtime |-> Absent]
Idle == [pc |-> "idle"]

Indexed(idx) == {k \in Keys : idx[k] # Absent}
OnDisk == {k \in Keys : disk[k] # NoFile}
Bytes(S) == SumFunctionOnSet(Size, S)

(* The puts of k that have renamed their file and not indexed it yet. *)
Indexing(k) == {p \in Putters : putter[p].pc = "renamed" /\ putter[p].key = k}

Init ==
    /\ clock = 0
    /\ up = TRUE
    /\ index = [k \in Keys |-> Absent]
    /\ disk = [k \in Keys |-> NoFile]
    /\ litter = FALSE
    /\ putter = [p \in Putters |-> Idle]
    /\ replaced = {}

-----------------------------------------------------------------------------
(* pruneLocked.                                                            *)

Expired(idx, now) == {k \in Indexed(idx) : now - idx[k] > TTL}

(* Faulty variants: only the TTL counts; the newest go first. *)
VictimsByTTL(idx, now) == {Expired(idx, now)}
VictimsNewest(idx, now) ==
    LET fresh == Indexed(idx) \ Expired(idx, now)
        NewestFirst(S) == \A k \in S, j \in fresh \ S : idx[k] >= idx[j]
        Enough(S) == Bytes(fresh \ S) <= MaxBytes
        NoMore(S) == \A k \in S : ~Enough(S \ {k})
    IN  {Expired(idx, now) \cup S :
            S \in {S \in SUBSET fresh : NewestFirst(S) /\ Enough(S) /\ NoMore(S)}}

(* The sets of keys pruneLocked may remove: what has expired and then, oldest
   first, as much as it takes to get down to the limit and no more.  Files of
   one age come in any order. *)
Victims(idx, now) ==
    LET fresh == Indexed(idx) \ Expired(idx, now)
        OldestFirst(S) == \A k \in S, j \in fresh \ S : idx[k] <= idx[j]
        Enough(S) == Bytes(fresh \ S) <= MaxBytes
        NoMore(S) == S = {} \/ \E k \in S : OldestFirst(S \ {k}) /\ ~Enough(S \ {k})
    IN  {Expired(idx, now) \cup S :
            S \in {S \in SUBSET fresh : OldestFirst(S) /\ Enough(S) /\ NoMore(S)}}

(* Faulty variant: the files go and their entries stay. *)
WithoutForgetting(S, idx, files) ==
    /\ index' = idx
    /\ disk' = [k \in Keys |-> IF k \in S THEN NoFile ELSE files[k]]

(* The index and the files that are left once S is removed. *)
Without(S, idx, files) ==
    /\ index' = [k \in Keys |-> IF k \in S THEN Absent ELSE idx[k]]
    /\ disk' = [k \in Keys |-> IF k \in S THEN NoFile ELSE files[k]]

PruneLocked(idx, files, now) == \E S \in Victims(idx, now) : Without(S, idx, files)

-----------------------------------------------------------------------------
(* put: the body is complete when it is called, its time is taken then.    *)

(* Faulty variant: the body is written under the final name. *)
PutBeginInPlace(p, k) ==
    /\ up
    /\ putter[p] = Idle
    /\ putter' = [putter EXCEPT ![p] = [pc |-> "writing", key |-> k, now |-> clock]]
    /\ disk' = [disk EXCEPT ![k] = [whole |-> FALSE, mtime |-> clock]]
    /\ UNCHANGED <<clock, up, index, litter, replaced>>

(* Faulty variant: the expiry is kept in place of the time of the fetch. *)
PutBeginExpiring(p, k) ==
    /\ up
    /\ putter[p] = Idle
    /\ putter' = [putter EXCEPT ![p] = [pc |-> "writing", key |-> k, now |-> clock + TTL]]
    /\ UNCHANGED <<clock, up, index, disk, litter, replaced>>

(* A put may begin for a key that is cached or being put already: its fetch
   began when the key was not, or its entry has left the memory tier. *)
PutBegin(p, k) ==
    /\ up
    /\ putter[p] = Idle
    /\ putter' = [putter EXCEPT ![p] = [pc |-> "writing", key |-> k, now |-> clock]]
    /\ UNCHANGED <<clock, up, index, disk, litter, replaced>>

(* The temporary file is complete; its mtime is the time of the last write. *)
PutWrite(p) ==
    /\ putter[p].pc = "writing"
    /\ putter' = [putter EXCEPT ![p] = [pc |-> "written", key |-> putter[p].key,
                                        now |-> putter[p].now, mtime |-> clock]]
    /\ UNCHANGED <<clock, up, index, disk, litter, replaced>>

(* Creating, writing or renaming the temporary file fails: it is removed. *)
PutFails(p) ==
    /\ putter[p].pc \in {"writing", "written"}
    /\ putter' = [putter EXCEPT ![p] = Idle]
    /\ UNCHANGED <<clock, up, index, disk, litter, replaced>>

(* os.Rename, without the lock. *)
PutRename(p) ==
    /\ putter[p].pc = "written"
    /\ LET k == putter[p].key IN
        /\ disk' = [disk EXCEPT ![k] = [whole |-> TRUE, mtime |-> putter[p].mtime]]
        /\ replaced' = IF k \in OnDisk \/ Indexing(k) # {} THEN replaced \cup {k} ELSE replaced
    /\ putter' = [putter EXCEPT ![p] = [pc |-> "renamed", key |-> putter[p].key,
                                        now |-> putter[p].now]]
    /\ UNCHANGED <<clock, up, index, litter>>

(* The file is indexed and the cache pruned, under the lock. *)
PutIndex(p) ==
    /\ putter[p].pc = "renamed"
    /\ PruneLocked([index EXCEPT ![putter[p].key] = putter[p].now], disk, putter[p].now)
    /\ putter' = [putter EXCEPT ![p] = Idle]
    /\ UNCHANGED <<clock, up, litter, replaced>>

-----------------------------------------------------------------------------
(* Faulty variant: open drops an expired entry and leaves its file. *)
OpenLeavingFile(k, now) ==
    /\ up
    /\ k \in Expired(index, now)
    /\ index' = [index EXCEPT ![k] = Absent]
    /\ UNCHANGED <<clock, up, disk, litter, putter, replaced>>

(* open: an expired entry and its file are removed; any other outcome changes
   nothing.  The time of a request was taken before it came for the lock. *)
Open(k, now) ==
    /\ up
    /\ k \in Expired(index, now)
    /\ Without({k}, index, disk)
    /\ UNCHANGED <<clock, up, litter, putter, replaced>>

(* prune, from the ticker of main or from views, at a time taken before the
   lock was. *)
Prune(now) ==
    /\ up
    /\ PruneLocked(index, disk, now)
    /\ UNCHANGED <<clock, up, litter, putter, replaced>>

(* The index as some prune may find it: of put, just after indexing, or not. *)
Prunable ==
    {index} \cup {[index EXCEPT ![putter[p].key] = putter[p].now] :
                     p \in {p \in Putters : putter[p].pc = "renamed"}}

(* The process dies: memory is lost, and what the puts were writing stays.  It
   may have been removing files, and has removed only some of them. *)
Crash ==
    /\ up
    /\ up' = FALSE
    /\ index' = [k \in Keys |-> Absent]
    /\ \E idx \in Prunable : \E removed \in SUBSET UNION Victims(idx, clock) :
        disk' = [k \in Keys |-> IF k \in removed THEN NoFile ELSE disk[k]]
    /\ litter' = (litter \/ \E p \in Putters : putter[p].pc \in {"writing", "written"})
    /\ putter' = [p \in Putters |-> Idle]
    /\ UNCHANGED <<clock, replaced>>

(* newDiskCache: temporary files go, the others are indexed at their mtime,
   and what expired meanwhile is pruned, before anything is served. *)
Restart ==
    /\ ~up
    /\ up' = TRUE
    /\ litter' = FALSE
    /\ PruneLocked([k \in Keys |-> disk[k].mtime], disk, clock)
    /\ replaced' = {}
    /\ UNCHANGED <<clock, putter>>

Tick ==
    /\ clock < MaxClock
    /\ clock' = clock + 1
    /\ UNCHANGED <<up, index, disk, litter, putter, replaced>>

Next ==
    \/ \E p \in Putters, k \in Keys : PutBegin(p, k)
    \/ \E p \in Putters : PutWrite(p) \/ PutFails(p) \/ PutRename(p) \/ PutIndex(p)
    \/ \E k \in Keys, now \in 0 .. clock : Open(k, now)
    \/ \E now \in 0 .. clock : Prune(now)
    \/ Crash
    \/ Restart
    \/ Tick

Spec == Init /\ [][Next]_vars

-----------------------------------------------------------------------------
(* The type invariant. *)
TypeOK ==
    /\ clock \in 0 .. MaxClock
    /\ up \in BOOLEAN /\ litter \in BOOLEAN
    /\ index \in [Keys -> {Absent} \cup 0 .. clock]
    /\ disk \in [Keys -> {NoFile} \cup [whole : BOOLEAN, mtime : 0 .. clock]]
    /\ replaced \subseteq Keys
    /\ \A p \in Putters : \/ putter[p] = Idle
                          \/ /\ putter[p].pc \in {"writing", "written", "renamed"}
                             /\ putter[p].key \in Keys
                             /\ putter[p].now \in 0 .. clock

(* Nothing but a complete body is ever under a final name, whatever fails or
   crashes on the way: what open hands out can be served as it is. *)
WholeFilesOnly == \A k \in OnDisk : disk[k].whole

(* A running process knows every file it has, across crashes too: one that is
   not indexed is about to be, and what a crash left half written is gone, so
   that no file escapes the TTL and the size limit. *)
NoOrphans ==
    up => /\ ~litter
          /\ \A k \in OnDisk : index[k] # Absent \/ Indexing(k) # {}

(* The indexed segments fit the limit at every moment, not only after the
   next prune; a segment larger than the limit is not kept at all. *)
IndexWithinLimit == Bytes(Indexed(index)) <= MaxBytes

(* The limit takes no more than it must: of what has not expired and is not
   being put again the oldest goes first, and the youngest that goes, cached
   before or just put, did not fit beside what is left. *)
NothingRemovedInVain ==
    [][up /\ up' =>
        \A k \in Keys :
            /\ index[k] # Absent /\ index'[k] = Absent
            /\ clock - index[k] <= TTL /\ Indexing(k) = {}
            => /\ \A j \in Indexed(index') : index[k] <= index'[j]
               /\ \E j \in Keys \ Indexed(index') :
                    /\ index[j] >= index[k] \/ \E p \in Indexing(j) : putter[p].now >= index[k]
                    /\ Bytes(Indexed(index') \cup {j}) > MaxBytes]_vars

(* An indexed segment has its file, unless the key was put again while it was
   cached or being put: only then may a prune fall between the rename and the
   indexing of the same key. *)
GhostsExplained == \A k \in Indexed(index) : k \in OnDisk \/ k \in replaced

(* What diskcache.go:116 says: open returns the file path for a fresh hit. *)
HitHasFile == \A k \in Indexed(index) : clock - index[k] <= TTL => k \in OnDisk
=============================================================================
