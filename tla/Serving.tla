------------------------------ MODULE Serving ------------------------------
(***************************************************************************)
(* How the tiers work together for one variant of one stream: the          *)
(* handlers of its media playlist and of a segment it lists                *)
(* (stream.go:100-255), over the cached variant record, the memory tier    *)
(* and the disk tier, against an upstream that fails and that moves the    *)
(* stream from one directory to the next.                                  *)
(*                                                                         *)
(* The tiers have modules of their own; here each is as coarse as its own  *)
(* module allows.  A fetch ends in one step (MuxEntry has its bytes), an   *)
(* entry leaves the index at any time (MuxCache: its TTL, the size limit), *)
(* a put is one step and files go at any time (DiskCache), and what is     *)
(* read of streams.json is stored in the same step (StreamCache).  A       *)
(* lookup takes the steps it takes there, since what comes in between them *)
(* may make it fail; upstream's master always lists the variant.           *)
(*                                                                         *)
(* A playlist names its segments by file names that stay the same when the *)
(* stream moves, so that a segment is told by the directory it is in.  A   *)
(* player sends one request after the other; its process is the handler of *)
(* each.  Whether that is for the playlist, the segment or a range of it   *)
(* matters, and is chosen, once the variant is looked up.                  *)
(***************************************************************************)
EXTENDS Integers, FiniteSets

CONSTANTS Players,
          Viewers,    \* the players that ask for segments too
          Setups,     \* the tiers that are on, and whether upstream answers
                      \* playlists from another directory
          LastDir     \* bound: the directories the stream is in, one by one

ASSUME ServingAssumption ==
    /\ Viewers \subseteq Players
    /\ Setups \subseteq [on : SUBSET {"memory", "disk"}, redirected : BOOLEAN]
    /\ LastDir \in Nat \ {0}

Dirs == 1 .. LastDir
Edge == 0
NoDir == -1

VARIABLES setup,   \* the configuration
          home,    \* upstream: the directory of the stream
          trouble, \* upstream: it may still move the stream, and fail
          record,  \* streamCaches: the directory of the variant's URL
          stream,  \* streamCaches: "listed" while the stream has a record; if not,
                   \* "missing" while lastSnapshot is within snapshotCooldown
          index,   \* streamMux: the entries of the playlist and the segment
          fetch,   \* the fetches under way, by the player that started each
          disk,    \* diskCaches: the directory the segment's file is from
          req,     \* the request of each player
          shown,   \* the directory of the segments a viewer's last playlist lists
          resolved \* history: the directories records have been stored of

metadata == <<record, stream>>
tiers == <<metadata, index, fetch, disk>>
outside == <<setup, home, trouble>>
vars == <<tiers, outside, req, shown, resolved>>

Keys == {"playlist", "segment"}
NoFetch == [key |-> "none", dir |-> NoDir]
Entry(is, dir) == [is |-> is, dir |-> IF is = "200" THEN dir ELSE NoDir, by |-> {}]
Fetching(p) == [is |-> "fetching", dir |-> NoDir, by |-> {p}]
NoEntry == Entry("none", NoDir)
Request(pc, key, dir, got, touches) ==
    [pc |-> pc, key |-> key, dir |-> dir, got |-> got, touches |-> touches]
Idle == Request("idle", "none", NoDir, NoEntry, 0)

Init ==
    /\ setup \in Setups
    /\ home = 1
    /\ trouble = TRUE
    /\ record = NoDir /\ stream = "unknown"
    /\ index = [k \in Keys |-> NoEntry]
    /\ fetch = [p \in Players |-> NoFetch]
    /\ disk = NoDir
    /\ req = [p \in Players |-> Idle]
    /\ shown = [p \in Players |-> NoDir]
    /\ resolved = {}

-----------------------------------------------------------------------------
At(p, pc) == req[p].pc = pc

(* The handler goes on at pc. *)
Goto(p, pc) == req' = [req EXCEPT ![p].pc = pc]

(* The handler is done with what it answers. *)
Answered(r, answer) == Request("done", r.key, NoDir, answer, r.touches)
Answer(p, is, dir) == req' = [req EXCEPT ![p] = Answered(@, Entry(is, dir))]

(* What upstream may answer for a directory: it has nothing in one that the
   stream is not in, and in trouble anything may come back. *)
Upstream(dir) ==
    IF trouble THEN {"200", "404", "error"} ELSE {IF dir = home THEN "200" ELSE "404"}

(* Whether streams.json lists the stream. *)
Listings == IF trouble THEN {"listed", "missing"} ELSE {"listed"}

(* Where a playlist that is asked for in dir comes from, which is what its
   URIs are relative to (muxEntry.finalURL). *)
Final(dir) == IF setup.redirected THEN Edge ELSE dir

-----------------------------------------------------------------------------
(* lookupVariant: the request keeps the record it gets. *)
Found(p) == req' = [req EXCEPT ![p] = Request("serve", "none", record, NoEntry, 0)]

Start(p) ==
    /\ At(p, "idle")
    /\ IF record # NoDir THEN Found(p) ELSE Goto(p, "missed")
    /\ UNCHANGED <<tiers, outside, shown, resolved>>

(* variant: a live master means that the variant is not there, also if another
   request has stored both since. *)
CheckMaster(p) ==
    /\ At(p, "missed")
    /\ CASE record # NoDir -> Answer(p, "unresolved", NoDir)
         [] record = NoDir -> Goto(p, IF stream = "listed" THEN "master" ELSE "cooldown")
    /\ UNCHANGED <<tiers, outside, shown, resolved>>

(* setSnapshot: of a stream that is not listed everything goes. *)
SetSnapshot(listing) ==
    /\ stream' = listing
    /\ record' = IF listing = "listed" THEN record ELSE NoDir

(* stream: streams.json is read, unless it was a moment ago, also by another
   request since the stream was looked up. *)
FetchStreams(p) ==
    /\ At(p, "cooldown")
    /\ \/ stream # "unknown" /\ Goto(p, "lookupAgain") /\ UNCHANGED metadata
       \/ stream # "missing" /\ \E listing \in Listings :
             /\ SetSnapshot(listing)
             /\ Goto(p, IF listing = "listed" THEN "master" ELSE "lookupAgain")
       \/ stream # "missing" /\ trouble /\ Answer(p, "unresolved", NoDir) /\ UNCHANGED metadata
    /\ UNCHANGED <<index, fetch, disk, outside, shown, resolved>>

(* evict: the stream and all that is cached of it, and the next miss asks upstream. *)
Evict == record' = NoDir /\ stream' = "unknown"

(* resolveMaster: the master of the moment, or in trouble none, so that the
   stream is evicted. *)
FetchMaster(p) ==
    /\ At(p, "master")
    /\ \/ req' = [req EXCEPT ![p].pc = "store", ![p].dir = home] /\ UNCHANGED metadata
       \/ trouble /\ Answer(p, "unresolved", NoDir) /\ Evict
    /\ UNCHANGED <<index, fetch, disk, outside, shown, resolved>>

Store(p) ==
    /\ At(p, "store")
    /\ record' = req[p].dir
    /\ resolved' = resolved \cup {req[p].dir}
    /\ req' = [req EXCEPT ![p].pc = "lookupAgain", ![p].dir = NoDir]
    /\ UNCHANGED <<stream, index, fetch, disk, outside, shown>>

(* Faulty variant: the second lookup is taken to succeed. *)
LookupAgainBlind(p) ==
    /\ At(p, "lookupAgain")
    /\ Found(p)
    /\ UNCHANGED <<tiers, outside, shown, resolved>>

LookupAgain(p) ==
    /\ At(p, "lookupAgain")
    /\ IF record # NoDir THEN Found(p) ELSE Answer(p, "unresolved", NoDir)
    /\ UNCHANGED <<tiers, outside, shown, resolved>>

-----------------------------------------------------------------------------
(* The memory tier. *)

(* An entry is live while its fetch runs and after it, unless it failed: then it
   is as good as none, which is what the index has in its place. *)
Live(k) == "memory" \in setup.on /\ index[k] # NoEntry

(* A playlist is waited for to the end (waitDone) and looked at, anything else
   is sent on as it is (serveMuxEntry). *)
Given(r, entry) ==
    CASE entry.is = "fetching" -> Request("wait", r.key, NoDir, entry, r.touches)
      [] entry.is # "fetching" /\ r.key = "playlist" ->
            Request("playlist", r.key, NoDir, entry, r.touches)
      [] entry.is # "fetching" /\ r.key = "segment" -> Answered(r, entry)

(* get: the live entry, or a new one and its fetch from dir.  While the tier
   is off nothing is indexed. *)
Get(p, r, dir) ==
    IF Live(r.key)
      THEN /\ req' = [req EXCEPT ![p] = Given(r, index[r.key])]
           /\ UNCHANGED <<index, fetch>>
      ELSE /\ fetch' = [fetch EXCEPT ![p] = [key |-> r.key, dir |-> dir]]
           /\ index' = IF "memory" \in setup.on THEN [index EXCEPT ![r.key] = Fetching(p)] ELSE index
           /\ req' = [req EXCEPT ![p] = Given(r, Fetching(p))]

(* A fetch ends: whoever waits for it is given what came, and a segment that
   came whole is written through to disk. *)
FetchEnds(p) ==
    /\ fetch[p] # NoFetch
    /\ \E is \in Upstream(fetch[p].dir) :
        LET entry == Entry(is, fetch[p].dir) IN
        /\ index' = [k \in Keys |-> IF index[k] # Fetching(p) THEN index[k]
                                   ELSE IF is = "error" THEN NoEntry ELSE entry]
        /\ req' = [q \in Players |->
                     IF req[q].got = Fetching(p) THEN Given(req[q], entry) ELSE req[q]]
        /\ disk' = IF is = "200" /\ fetch[p].key = "segment" /\ "disk" \in setup.on
                     THEN fetch[p].dir ELSE disk
    /\ fetch' = [fetch EXCEPT ![p] = NoFetch]
    /\ UNCHANGED <<metadata, outside, shown, resolved>>

(* Faulty variant: segments are kept for good. *)
ExpirePlaylist(k) ==
    /\ k = "playlist"
    /\ index[k] # NoEntry
    /\ index' = [index EXCEPT ![k] = NoEntry]
    /\ UNCHANGED <<metadata, fetch, disk, outside, req, shown, resolved>>

(* An entry passes its TTL, or goes for the size limit; its fetch goes on. *)
Expire(k) ==
    /\ index[k] # NoEntry
    /\ index' = [index EXCEPT ![k] = NoEntry]
    /\ UNCHANGED <<metadata, fetch, disk, outside, req, shown, resolved>>

-----------------------------------------------------------------------------
(* handleStream: the playlist of the variant. *)
ForPlaylist(p) == [req[p] EXCEPT !.key = "playlist", !.dir = NoDir]

(* Faulty variant: the playlist is resolved anew and the record stays. *)
GetPlaylistAfresh(p) ==
    /\ At(p, "serve")
    /\ Get(p, ForPlaylist(p), home)
    /\ UNCHANGED <<metadata, disk, outside, shown, resolved>>

GetPlaylist(p) ==
    /\ At(p, "serve")
    /\ Get(p, ForPlaylist(p), req[p].dir)
    /\ UNCHANGED <<metadata, disk, outside, shown, resolved>>

(* The playlist is rewritten and sent. *)
ServePlaylist(p) ==
    /\ At(p, "playlist") /\ req[p].got.is = "200"
    /\ shown' = IF p \in Viewers THEN [shown EXCEPT ![p] = Final(req[p].got.dir)] ELSE shown
    /\ Answer(p, "200", NoDir)
    /\ UNCHANGED <<tiers, outside, resolved>>

(* Faulty variant: the record stays. *)
FailPlaylistKeepingRecord(p) ==
    /\ At(p, "playlist") /\ req[p].got.is # "200"
    /\ Answer(p, "502", NoDir)
    /\ UNCHANGED <<tiers, outside, shown, resolved>>

(* The playlist failed or was not there: the stream is evicted. *)
FailPlaylist(p) ==
    /\ At(p, "playlist") /\ req[p].got.is # "200"
    /\ Evict
    /\ Answer(p, "502", NoDir)
    /\ UNCHANGED <<index, fetch, disk, outside, shown, resolved>>

-----------------------------------------------------------------------------
(* handleSegment: a player asks for the segments it was shown. *)
ForSegment(p, touches) == [req[p] EXCEPT !.key = "segment", !.touches = @ + touches]

(* The segment's file is on disk. *)
OpenFile(p, touches) ==
    req' = [req EXCEPT ![p] = Request("file", "segment", NoDir, NoEntry, req[p].touches + touches)]

(* Faulty variant: a range is counted before it is handed on. *)
SeekCountingFirst(p) ==
    /\ p \in Viewers /\ At(p, "serve") /\ shown[p] # NoDir
    /\ IF disk # NoDir THEN OpenFile(p, 1)
       ELSE req' = [req EXCEPT ![p] = [ForSegment(p, 1) EXCEPT !.pc = "proxy"]]
    /\ UNCHANGED <<tiers, outside, shown, resolved>>

(* A range comes from the file, and the viewer is counted, or from upstream. *)
Seek(p) ==
    /\ p \in Viewers /\ At(p, "serve") /\ shown[p] # NoDir
    /\ IF disk # NoDir THEN OpenFile(p, 1)
       ELSE req' = [req EXCEPT ![p] = [ForSegment(p, 0) EXCEPT !.pc = "proxy"]]
    /\ UNCHANGED <<tiers, outside, shown, resolved>>

(* proxyUpstream: the viewer is counted, nothing is shared or kept. *)
Proxy(p) ==
    /\ At(p, "proxy")
    /\ \E is \in Upstream(req[p].dir) :
        req' = [req EXCEPT ![p] = Answered(ForSegment(p, 1), Entry(is, req[p].dir))]
    /\ UNCHANGED <<tiers, outside, shown, resolved>>

(* The whole segment: the viewer is counted, and memory comes first. *)
Peek(p) ==
    /\ p \in Viewers /\ At(p, "serve") /\ shown[p] # NoDir
    /\ req' = [req EXCEPT ![p] = IF Live("segment") THEN Given(ForSegment(p, 1), index["segment"])
                                 ELSE [ForSegment(p, 1) EXCEPT !.pc = "open"]]
    /\ UNCHANGED <<tiers, outside, shown, resolved>>

Open(p) ==
    /\ At(p, "open")
    /\ IF disk # NoDir THEN OpenFile(p, 0) ELSE Goto(p, "get")
    /\ UNCHANGED <<tiers, outside, shown, resolved>>

(* serveSegmentFile: the file may have gone since, or be another. *)
SendFile(p) ==
    /\ At(p, "file")
    /\ IF disk # NoDir THEN Answer(p, "200", disk) ELSE Answer(p, "noFile", NoDir)
    /\ UNCHANGED <<tiers, outside, shown, resolved>>

(* Whatever is not on disk is fetched, from the directory of the record. *)
GetSegment(p) ==
    /\ At(p, "get")
    /\ Get(p, req[p], req[p].dir)
    /\ UNCHANGED <<metadata, disk, outside, shown, resolved>>

(* The response ends. *)
Finish(p) ==
    /\ At(p, "done")
    /\ req' = [req EXCEPT ![p] = Idle]
    /\ UNCHANGED <<tiers, outside, shown, resolved>>

-----------------------------------------------------------------------------
(* The file passes its TTL, or goes for the size limit. *)
Prune ==
    /\ disk # NoDir
    /\ disk' = NoDir
    /\ UNCHANGED <<metadata, index, fetch, outside, req, shown, resolved>>

(* The master and its variant pass their TTL. *)
Forget ==
    /\ record # NoDir
    /\ record' = NoDir
    /\ UNCHANGED <<stream, index, fetch, disk, outside, req, shown, resolved>>

(* They do for another request just before this one, whose "now" is older, looks
   the variant up: it misses, and finds the master live. *)
ForgetBefore(p) ==
    /\ At(p, "idle") /\ record # NoDir
    /\ record' = NoDir
    /\ Answer(p, "unresolved", NoDir)
    /\ UNCHANGED <<stream, index, fetch, disk, outside, shown, resolved>>

(* The stream's record does. *)
ForgetStream ==
    /\ stream = "listed"
    /\ stream' = "unknown"
    /\ UNCHANGED <<record, index, fetch, disk, outside, req, shown, resolved>>

(* The last snapshot passes the cooldown. *)
CoolDown ==
    /\ stream = "missing"
    /\ stream' = "unknown"
    /\ UNCHANGED <<record, index, fetch, disk, outside, req, shown, resolved>>

(* A request for another stream stores a snapshot. *)
SnapshotElsewhere ==
    /\ \E listing \in Listings : SetSnapshot(listing)
    /\ UNCHANGED <<index, fetch, disk, outside, req, shown, resolved>>

(* The process is killed and started again: the disk tier is what is left. *)
Restart ==
    /\ trouble
    /\ Evict
    /\ index' = [k \in Keys |-> NoEntry]
    /\ fetch' = [p \in Players |-> NoFetch]
    /\ req' = [p \in Players |-> Idle]
    /\ UNCHANGED <<disk, outside, shown, resolved>>

(* Upstream moves the stream, and some day does not move it any more. *)
Move ==
    /\ trouble
    /\ home < LastDir
    /\ home' = home + 1
    /\ UNCHANGED <<tiers, setup, trouble, req, shown, resolved>>

Settle ==
    /\ trouble
    /\ trouble' = FALSE
    /\ UNCHANGED <<tiers, setup, home, req, shown, resolved>>

Step(p) ==
    \/ CheckMaster(p) \/ FetchStreams(p) \/ FetchMaster(p) \/ Store(p) \/ LookupAgain(p)
    \/ GetPlaylist(p) \/ ServePlaylist(p) \/ FailPlaylist(p)
    \/ Seek(p) \/ Proxy(p) \/ Peek(p) \/ Open(p) \/ SendFile(p) \/ GetSegment(p)
    \/ Finish(p)

Next ==
    \/ \E p \in Players : Start(p) \/ ForgetBefore(p) \/ Step(p) \/ FetchEnds(p)
    \/ \E k \in Keys : Expire(k)
    \/ Prune \/ Forget \/ ForgetStream \/ CoolDown \/ SnapshotElsewhere
    \/ Restart \/ Move \/ Settle

(* A handler that can go on does, a fetch ends (muxFetchLimit), and TTLs and the
   cooldown pass.  No record has to expire, nobody has to ask for anything, and
   upstream need never settle. *)
Fairness ==
    /\ \A p \in Players : WF_vars(Step(p)) /\ WF_vars(FetchEnds(p))
    /\ \A k \in Keys : WF_vars(Expire(k))
    /\ WF_vars(Prune) /\ WF_vars(CoolDown)

Spec == Init /\ [][Next]_vars /\ Fairness

-----------------------------------------------------------------------------
Answers == [is : {"none", "200", "404", "error"}, dir : Dirs \cup {NoDir}, by : {{}}]
           \cup {Fetching(p) : p \in Players}

(* The type invariant: what is in the index or waited for as being fetched is
   being fetched. *)
TypeOK ==
    /\ setup \in Setups
    /\ home \in Dirs
    /\ trouble \in BOOLEAN
    /\ record \in Dirs \cup {NoDir}
    /\ stream \in {"listed", "missing", "unknown"}
    /\ index \in [Keys -> Answers]
    /\ fetch \in [Players -> {NoFetch} \cup [key : Keys, dir : Dirs]]
    /\ \A p \in Players :
        /\ \A k \in Keys : index[k] = Fetching(p) => fetch[p].key = k
        /\ \A q \in Players : req[q].got = Fetching(p) => fetch[p].key = req[q].key
        /\ req[p].touches \in Nat
    /\ disk \in Dirs \cup {NoDir}
    /\ shown \in [Players -> Dirs \cup {Edge, NoDir}]
    /\ resolved \subseteq Dirs

Served(p) == At(p, "done") /\ req[p].key = "segment" /\ req[p].got.is = "200"

(* A player is served a segment of another directory than that of its playlist
   only if playlists are redirected, or the stream has been resolved to more
   than one directory; and never one of a directory it has not been resolved
   to. *)
SegmentsExplained ==
    \A p \in Players : Served(p) =>
        /\ req[p].got.dir \in resolved
        /\ req[p].got.dir # shown[p] => setup.redirected \/ Cardinality(resolved) > 1

(* A viewer is counted once for a segment, whichever tier it comes from, and
   not for a playlist nor for a variant that is not found. *)
CountedOnce ==
    \A p \in Players : At(p, "done") => req[p].touches = IF req[p].key = "segment" THEN 1 ELSE 0

(* Every player goes on polling its playlist. *)
Polling == \A p \in Players : []<>(At(p, "done") /\ req[p].key = "playlist")

(* No request for k fails; "none" is for those that have not found the variant. *)
Works(k) ==
    \A p \in Players : At(p, "done") /\ req[p].key = k => req[p].got.is \in {"200", "noFile"}

(* A record expires. *)
Expires == Forget \/ ForgetStream \/ \E p \in Players : ForgetBefore(p)

(* Once upstream has settled, playlists come to be served, and segments too if
   playlists are polled: no failure that was shared, cached or late keeps coming
   back (stream.go:143: "re-resolve next time").  The variant comes to be found,
   unless records expire again and again: each time, a lookup that another one
   overtakes may end in a 404 (cache.go:160, 212). *)
Recovers ==
    <>[]~trouble =>
        /\ <>[]Works("playlist")
        /\ Polling => <>[]Works("segment")
        /\ []<><<Expires>>_vars \/ <>[]Works("none")

(* And then players get the segments that their playlists list. *)
Reconciles ==
    <>[]~trouble /\ ~setup.redirected /\ Polling =>
        <>[](\A p \in Players : Served(p) => req[p].got.dir = shown[p])
=============================================================================
