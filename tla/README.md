# Voetbal in TLA+

TLA+ models of the caching reverse proxy in `src/`, the TLC configurations that
check them on small instances, and machine-checked proofs of their safety properties.

Voetbal is one Go process. It shows an index page of live streams, and serves
their HLS playlists and segments to viewers, fetching each of them from an
upstream ("NOS") once and sharing the answer. Nearly everything that is hard
about it lies in what several requests, and the goroutines that fetch for
them, do to the same caches at the same time.

All paths below are relative to `src/`.

## 1. Inventory

| Component | Code | State | Operations |
|---|---|---|---|
| **muxEntry**: one upstream response, shared | `mux.go:56-226`, `stream.go:116-152`, `228-243` | mutex, condition variable, `buf`, `ready`, `done`, `err`, header fields; one detached fetch goroutine | `fetch`, `finish`, `waitHeader`, `waitDone`, `serve`, `lengthIfDone` |
| **muxCache**: index of the memory tier | `mux.go:241-369` | `entries` by key, limits, statistics | `get`, `peek`, `evict`, `stats`, `views` |
| **diskCache**: disk tier for segments | `diskcache.go` | `files` (index), files and temporary files on disk | `put`, `open`, `pruneLocked`, `prune`, rebuild at start |
| **streamCache**: stream metadata | `cache.go` | `stream`, `master`, `variant` records, `lastSnapshot` | lookups, `setSnapshot`, `setMaster`, `evict`, `views` |
| **shortURLRegistry** | `shorturl.go` | `byCode` | `register`, `lookup`, `refreshShortURLs` |
| **Access locks** | `network.go`, `region.go`, `main.go:244-280` | locks put up at start, geo database in the data directory | fetch ASN prefixes, `ensureGeoDB`, `downloadGeoDB`, `lockMiddleware` |
| **HTTP handlers** | `stream.go`, `proxy.go` | none of their own | `handleStream`, `handleSegment`, `proxyUpstream` |
| **watcherTracker**, `clientIP` | `watchers.go` | first and last seen and requests per address | `touch`, `active`, expiry |
| **Playlists** | `stream.go`, `proxy.go`, `nos.go`, `playlist.go` | none (pure) | rewriting and parsing of master and media playlists |
| **Upstream client** | `nos.go` | none | HTTP fetches, parsing |
| Index page, M3U, configuration, logging | `main.go`, `playlist.go`, `logging.go` | none that changes | rendering, parsing |
| Vendored libraries | `vendor/` | | |

### How they interact

A playlist request resolves its stream and variant in the **streamCache**,
which asks the upstream client on a miss. The URL it gets is the key of the
**muxCache**: `get` finds a live **muxEntry** or creates one and starts its
fetch goroutine, and the request waits for the whole playlist, rewrites it and
sends it. A playlist that fails makes the handler evict the stream from the
streamCache. A segment request looks in the memory tier (`peek`), then on disk
(`open`), then calls `get` and copies the growing buffer to its client
while the goroutine fills it. A segment fetch that succeeds hands its body to
`put` of the **diskCache**. The index page registers URLs in the
**shortURLRegistry**, and an unknown code makes it register what upstream
lists. The **locks** stand in front of every handler. The components share no
lock: each has one mutex, and muxCache takes an entry's mutex under its own.

### What is hard

* Requests join a fetch late, read slowly, stall, or leave, while the fetch
  appends, ends or fails: lost wake-ups, lost or repeated bytes, a truncated
  answer that looks complete, a header that promises what is not delivered.
* State read under one lock and used after it: an eviction walk over
  entries that grow; two lookups with the lock released in between; a file
  renamed into place before it is indexed; a time stamp taken long before
  the store it is used in.
* Results applied out of order: two snapshots of `streams.json`, two fetches
  of one playlist.
* State of one tier that is stale in another: a playlist, the variant record, an
  entry in memory and a file on disk may each be from another time, and upstream
  may have moved the stream meanwhile. An answer that failed is shared and cached.
* One text read by several loops: a master is rewritten, parsed and listed by
  code that tells its lines apart differently; a URI is written into a path by
  one handler and read out of it by another.
* Crashes: between the temporary file, the rename and the index; during the
  download of the geo database; a registry that is rebuilt in another order.
* Limits: memory and disk sizes at their bound, a limit smaller than one entry.
* Liveness: an upstream or a client that stalls; `muxFetchLimit` is all that
  ends a fetch.

`PROJECT.json` lists these hazards one by one, at the line where each bites,
with the properties that would catch it.

### What makes each component correct

* **muxEntry**: every client gets a prefix of the body, in order; a response
  that ends normally is the whole of it unless the fetch failed; nobody sleeps
  through the event awaited; the disk tier gets complete bodies only; every
  fetch ends and every client that keeps reading is answered.
* **muxCache**: one fetch per key, but for stated exceptions; a new entry
  survives the walk that made room for it; the size limit holds up to what
  arrived meanwhile.
* **diskCache**: only complete files are served, every file is indexed or
  being put, the limit holds, nothing is removed without need, no crash leaves
  partial or forgotten files.
* **streamCache**: a master is never without its variants; a 404, and a record
  of a stream that is gone, have known causes; nothing is used beyond its TTL.
* **shortURLRegistry**: one code per URL, a code handed out stays valid.
* **Locks**: all or nothing of what is configured; a database on disk is whole, and
  no refresh costs it.
* **Handlers, over all tiers**: a player gets the segments its playlist lists,
  but for stated causes; no failure that was shared or cached keeps coming back
  once upstream works; a viewer is counted once.
* **Playlists**: what a rewritten playlist offers leads to what upstream
  listed, and every place that lists qualities lists the same ones.

## 2. Modules

| Module | Models | Runs |
|---|---|---|
| `SharedBody` | abstract: what the memory tier promises about one response | (property of `mux_entry`) |
| `MuxEntry` | muxEntry, its goroutine, the requests that follow it | `mux_entry` |
| `MuxCache` | the index of the memory tier and its eviction walk | `mux_cache` |
| `DiskCache` | the disk tier with concurrent puts, crashes, restarts | `disk_cache`, `disk_cache_ghost` |
| `StreamCache` | stream metadata under concurrent requests | `stream_cache`, `stream_cache_missing`, `stream_cache_order` |
| `ShortURLs` | the short URL registry across restarts | `short_urls` |
| `AccessLocks` | the start of the server and its locks | `access_locks` |
| `Serving` | composition: the handlers over stream metadata, memory tier and disk tier, against an upstream that moves and fails | `serving` |
| `Playlists` | rewriting and parsing of playlists, and reading paths back | `playlists`, `playlists_proxied` |
| `<module>Proofs` | the theorems about each of the modules above but `SharedBody` (which is part of those about `MuxEntry`), and the lemmas they rest on | |

`MC*.tla` give the constants of each module that are not written in its `.cfg`.
Definitions commented "Faulty variant" are plausible mistakes in the
definition that follows them: put in its place, each makes the property named
beside it in `PROJECT.json` fail. They take no part in any specification.

### MuxEntry and SharedBody

A critical section of `entry.mu` is one action. What happens outside it (a
`Read` from upstream, a `Write` to a client, `persist`) is an action of its own.

| Code | Model |
|---|---|
| `fetch`: `client.Do`, header published (`mux.go:84-102`) | `RequestFails`, `PublishHeader` |
| `resp.Body.Read` with its n and error | `Read` |
| append under the lock, then the error is looked at | `AppendChunk` |
| `finish`, then `persist` without the lock | `Finish`, `Persist` |
| `context.WithTimeout(muxFetchLimit)` | `Expire`, `deadline` |
| `cond.Wait` / `Broadcast` | `Sleep`, `waiting` / `Broadcast` |
| `waitHeader`, `serveMuxEntry` | `WaitHeader`, `SendHeader` |
| `serve`: take a chunk under the lock, write it without | `Take`, `Write`, `WriteFails` |
| `waitDone` and the playlist answer in `handleStream` | `WaitDone`, `WritePlaylist` |

`contentType` and `finalURL` are set in the step that sets `status`, which
stands for them. The rewriting of a playlist is left out: a rewritten playlist
is delivered as the buffer it was made from, in one write.
`SharedBody` is the abstract specification: a log that grows along
the body, is sealed once as complete or failed, and is read by any number of
readers. `ImplementsSharedBody` maps the entry to it (`log <- buf`,
`got <- delivered`, `verdict` from `done` and `err`, and `phase` from `cpc`).

### MuxCache

`get` that hits, and `peek`, hold `muxCache.mu` throughout: one action each.
A `get` that misses asks entry after entry whether it has expired and how
large it is. Each of those takes the entry's own lock, so entries grow and
end meanwhile: `Walk` is one step per entry, in any order (Go's map order). An entry
is reduced to its key, age, size and how its fetch stands. `Views` stands
for `views`, with a `now` that may be old.

### DiskCache

`put` is four steps (begin, write, rename, index), of which only the last
holds the lock; `open`, `prune` and `views` are one action each. `Indexing(k)` are the puts of a
key between the rename and the lock. `Crash` may
come before any step, and in the middle of a prune; `Restart` rebuilds the index from the
files, deletes temporary ones and prunes.

### StreamCache

A request is a small process: look up, decide, ask upstream, store. Each lookup
and each store is one critical section; requests, upstream changes and ticks
come in between. `now` is taken once, when the request starts. A record is
reduced to the time it was fetched, a master also to what it lists. Two history
variables follow a race of three steps: a request finds its stream listed
(`"fetch master"`), another's snapshot drops the stream (`Overtake` puts the first
into `overtaken`), and the first stores its master (`StoreMaster` puts the stream into
`orphaned`, and only then). `OrphansExplained` says that this is the one way for records of a
dropped stream to be there.

### ShortURLs

A hash is a sequence of digits, a code an end of it, and `register` picks the
shortest not taken by another URL. A refresh registers what upstream lists one
by one, in any order. `Restart` empties the registry. What was handed out stays in
`handed`.

### AccessLocks

`main` from parsing the configuration to serving, one stage after another,
under every configuration (region lock or not, literal addresses or not, any
set of ASNs). Each fetch may fail; the process may be killed at any point.
A database has two ages: that of its file (`mtime`, the time of the copy), which decides
whether it is refreshed, and the month it was published for (`of`). `calendar` is the
month, which may change with any tick; `now` and `month` are those of `ensureGeoDB`, and
`Wanted` is the month a download asks for. `AddDate(0, -1, 0)` on the 31st of March is in
March, so the second download may ask for the same month as the first.

### Serving

The handlers of one variant's playlist and of a segment that it lists, over all
tiers. The tiers have modules of their own, and each is here as coarse as
its own module allows:

| Tier | Here | Because |
|---|---|---|
| stream metadata (`StreamCache`) | `record`: the directory of the variant's URL, and with it the live master; `stream`: listed, missing within the cooldown, or unknown; a lookup takes the steps it takes there, but a snapshot is read and stored in one | a slow older snapshot is one that comes later (`SnapshotElsewhere`); master and variant are stored together and expire together but for a request with an older `now` (`NoTornSet`, `ForgetBefore`) |
| memory tier (`MuxEntry`, `MuxCache`) | `index`: an entry is being fetched, or has its answer; `FetchEnds`, `Expire` | bytes arrive in order (`InOrder`); the walk may take an entry at any moment |
| disk tier (`DiskCache`) | `disk`: the directory the file is from; `FetchEnds` writes it, `Prune` removes it | `put` is seen as a whole once it is indexed (`WholeFilesOnly`) |
| upstream | `home`: the directory the stream is in; `Move`, `trouble`, `Settle` | |

A segment is told by the directory it came from, since the keys of both tiers
name stream, resolution and file only (`stream.go:168`). A player (`req[p]`)
goes through the handler step by step: `Start`, `CheckMaster`, `FetchStreams`, `FetchMaster`,
`Store`, `LookupAgain` are `lookupVariant`, each of which may end it with a 404 or 502
(`"unresolved"`): also because another request has stored the record or the stream since
(`CheckMaster`, `FetchStreams`); `GetPlaylist`, `ServePlaylist`,
`FailPlaylist` the rest of `handleStream`; `Seek` and `Proxy` a request with
`Range`, `Peek`, `Open`, `SendFile`, `GetSegment` one without. Between `Open`
and `SendFile` the file may go or be replaced. `shown` is the base of the
playlist the player saw last (`muxEntry.finalURL`, `Final`), which a redirect
may make another than the variant's URL. `Restart` keeps the disk tier alone.
Which host a target may have, and how a path is read, is in `Playlists`.

### Playlists

A line of a master is one of the kinds the loops distinguish, with resolution,
bandwidth and indentation where they look at them. `RewriteMaster` folds
`RewriteLine` over the lines as `rewriteMasterPlaylist` does; `ParseVariants` is
`parseVariants`, `Stored` what `setMaster` makes of it, `Channels` what
`streamQualities` lists on the home page, in the M3U playlist and behind short
URLs. A URL is its host, the names of its path, and its query; `RewriteUri`
is `rewriteMediaPlaylist`, `RewriteNestedUri` `rewritePlaylist`, `Requested` what
`handleSegment` and `proxyUpstream` make of the path again. A name is plain, or has an
escape, or a colon, which is what does not survive that.

## 3. Runs

| Run | Shows | Distinct states |
|---|---|---|
| `mux_entry` | delivery, headers, persistence, wake-ups, termination, refinement | 59,558 |
| `mux_cache` | when a fetch is not shared; what the walk guarantees | 696,922 |
| `disk_cache` | files, index and limit agree across crashes | 77,596 |
| `disk_cache_ghost` | *violated*: "a hit has a file" | |
| `stream_cache` | records stay together; causes of every 404 and leftover | 2.01 million |
| `stream_cache_missing` | *violated*: "a live master means the set is current" | |
| `stream_cache_order` | *violated*: "last write wins with equally fresh data" | |
| `short_urls` | codes are unique, stay valid; causes of a changed meaning | 54,314 |
| `access_locks` | no partial lock answers; the database is whole and kept | 165,764 |
| `serving` | where a segment may come from; who is counted; recovery | 558,600 |
| `playlists` | offers, lists and links of playlists lead where upstream's did | 1.12 million |
| `playlists_proxied` | *violated*: "everything it references is proxied" | |

Every property is stated in words above its definition. In short:

* `mux_entry`: `NoLostWakeup`, `InOrder`, `EndedIsWhole`, `HonestHeader`,
  `PersistedIsComplete`, `SealedForGood`; liveness `FetchEnds` and
  `SteadyClientsFinish`; refinement `ImplementsSharedBody`.
* `mux_cache`: `DuplicatesExplained` (two fetches of a key run at once only
  if the older passed its TTL or was evicted for size), `NewEntryIsShared`,
  `Overshoot` (the excess over the limit is at most what arrived since the
  last walk began).
* `disk_cache`: `WholeFilesOnly`, `NoOrphans`, `IndexWithinLimit`,
  `GhostsExplained`, `NothingRemovedInVain`.
* `stream_cache`: `NoTornSet`, `OrphansExplained` (records of a dropped stream take a
  request that was overtaken by the snapshot), `MissingExplained`, `FoundWithinTTL`.
* `short_urls`: `OneCodePerURL`, `CodesStayValid`, `RemapExplained`.
* `access_locks`: `AnswersFollowConfiguration`, `DatabaseKept` (a database is never lost
  or torn; one of an older month takes its place only if it is of the month before, and
  this month's could not be downloaded).
* `serving`: `SegmentsExplained` (a segment of another directory than the
  playlist's takes a redirect, or a stream resolved to two directories),
  `CountedOnce`; liveness `Recovers` (once upstream has settled, playlists that were found
  come to be served, segments too where playlists are polled, and variants come to be
  found unless records expire again and again) and `Reconciles` (segments come to
  match playlists again).
* `playlists`: `OffersExplained` (each offered path leads to the variant it is
  offered for, unless the resolution is shared or the tag is indented), `OneLineup`
  (home page and M3U list what the master offers), `RoundTrip` (a rewritten URI
  leads to what it stood for, but for fragile names).

### Where the code and its comments disagree

Each of the four violated runs checks one sentence of a comment and finds a
behaviour of the code against it. A passing run bounds the damage.

1. **A disk hit may have no file** (`diskcache.go:106` against `:116`). A file
   renamed into place but not yet indexed may be pruned under its older index
   entry. `GhostsExplained`: it takes a key that is put again.
2. **A resolution that exists is answered with 404** (`cache.go:212` against
   `:210-211`). Two lookups, with a store by another request in between.
   `MissingExplained`: it takes such a change. It may come back with every expiry of the
   records, upstream settled or not: `Recovers` promises that lookups succeed in the end
   only if there are no more expiries (12 hours apart in the code).
3. **An older snapshot is stored over a newer** (`cache.go:169` against
   `:54-55`).
4. **A rendition is not proxied** (`stream.go:55` against `README.md:81`). The URI
   of an `#EXT-X-MEDIA` tag passes through the rewritten master: an absolute one
   sends the player to upstream, a relative one leads nowhere.

What comments say too broadly elsewhere is stated by a passing run with its
exceptions:

* "Concurrent requests for the same key share one in-flight upstream fetch"
  (`mux.go:18-19`): unless the entry expires (a playlist after 2 s, while its fetch may
  take 60 s) or goes for size meanwhile (`DuplicatesExplained`).
* "This reproduces the same mapping" (`shorturl.go:55-57`): unless two hashes
  end in the code and their URLs come in another order (`RemapExplained`).
* "Resolved against the NOS API on every request" (`README.md:83`): once per 12 hours,
  or after an eviction (`MissingExplained`). A segment that fails evicts nothing
  (`stream.go:207`), so that a stream that moved is found again only when its
  playlist is asked for: `Recovers` says so, and fails without it.

And one that no comment speaks of: when this month's geo database cannot be downloaded,
the month before is downloaded in its place, over whatever is there (`region.go:79-80`). A
database that is due for a refresh may so be replaced by an older one, if it is of this
month; `DatabaseKept` says that it takes a failure, and is never more than one month.

### Bounds, and why they are enough

* **MuxEntry**: three distinct bytes, so that a loss, a repetition and a swap
  show; reads of 0 to 2 bytes with or without an end or error, so that the body
  arrives in one or more pieces and the last alone, with, or before its EOF; two requests, one
  steady, one that may stall or leave; statuses 200 and 404; both kinds of
  entry, with and without `persist`. Requests touch only their own variables
  and the condition variable, so two show every interference.
* **MuxCache**: a playlist and two segments, three fetches, one tick. A tick is
  the fetch limit; the playlist's TTL is below it (0), the segments' above (1).
  A body is up to 2 units, the limit is 1, so one entry may fill or exceed it, and a walk may take the
  oldest, several, or all but the new one.
* **DiskCache**: segments of sizes 1 and 2 with a limit of 2, so that each fits
  and both do not; two putters; TTL 1 and 3 ticks, so that a file expires,
  is put again and expires once more.
* **StreamCache**: one stream, two resolutions (a set may be torn), two requests
  of any kind, each of which runs once, TTL and cooldown 1, 2 ticks,
  one change of what upstream offers. Streams share only the snapshot.
* **ShortURLs**: three URLs whose hashes end in the same digit, two in the same
  two, so that every length is taken in some order; one request in progress
  beside the index page; one restart.
* **AccessLocks**: an address of each kind, an ASN that announces addresses and
  one that announces none, three starts, so that the second refresh may find what the
  first left; 3 ticks with a maximal age of 1, each of which may begin a month.
* **Serving**: two players, so that one fails, stores or evicts between the steps
  of the other; only one asks for segments, since the other disturbs it through
  the record and the playlist alone. A second directory shows every mismatch of
  record, playlist, entry and file; TTLs pass at any time instead of after ticks. Both
  tiers, the disk tier alone (with redirected playlists), and none; the memory tier
  alone is the first with files that go as soon as they come, which `Prune` allows.
  Nothing else bounds it: requests go on for ever. Upstream's master always lists the
  variant: that it may not is in `StreamCache`.
* **Playlists**: masters of up to five lines hold two variants with their URIs
  and a line in between or around; URIs of up to two names in directories of none
  to two, three hosts, two of them allowed (one to redirect to, one for another
  CDN). Any master or URI is written, well formed or not; properties that
  need a well-formed master say so.

Deadlock is checked except where the model stops because a bound is reached
(`StreamCache`: every request done and no tick left; `AccessLocks`: no start left;
`Playlists`: the last line is written).

### Fairness

* **MuxEntry**. The deadline passes (`WF(Expire)`: a timer). Past it, a pending
  request or read returns with an error (`WF(Aborted)`: `net/http` cancels on
  the context). The goroutine's own steps take place (`AppendChunk`, `Finish`,
  `Persist`: the Go scheduler, and locks nobody holds for ever). Requests of
  `Steady` clients go on. Nothing else is assumed: upstream need never answer,
  a byte need never arrive, a client that is not steady may block its own
  `Write` for ever.
* **Serving**. Handler steps take place (`WF(Step(p))`: goroutines and locks
  nobody holds for ever); a fetch ends (`WF(FetchEnds(p))`, which `FetchEnds` of
  `MuxEntry` establishes from `muxFetchLimit`); entries and files pass their TTL (`WF(Expire(k))`,
  `WF(Prune)`: `get` and the ticker of `main`), and the cooldown passes (`WF(CoolDown)`:
  time). Nobody has to ask for anything
  (`Start` is not fair), no record has to expire, and upstream need never settle:
  `Recovers` and `Reconciles` are about behaviours in which it does.
* The other specifications state safety only and assume no fairness.

## 4. Proofs

Every module of section 2 that models code has a `...Proofs` module, which proves every
safety property its passing run checks: the type invariant, the other
invariants and the action properties. They hold for every value of the constants
that satisfies the module's one assumption:

| Module | Assumed of the constants | Why the code justifies it |
|---|---|---|
| `MuxEntry` | a body of numbers; a positive read size; statuses without 0 | the chunk has 64 KiB (`mux.go:106`); 0 is `status` before a header |
| `MuxCache` | TTLs and limits are numbers | they are durations and sizes |
| `DiskCache` | sizes, TTL are numbers; the limit is positive | `parseSize` refuses a negative size, and 0 disables the tier (`main.go:224-229`); an overflow is left out (section 5) |
| `StreamCache` | TTL, cooldown are numbers, the cooldown is no longer | `cacheTTL` is 12 hours, `snapshotCooldown` 30 seconds (`cache.go:18-21`) |
| `ShortURLs` | hashes of one length, which differ; codes of some length up to that | SHA-256 in digits; 64 of them |
| `AccessLocks` | address sets are subsets of the addresses; numbers | |
| `Serving` | some directory; viewers are players | |
| `Playlists` | bandwidths are numbers; "no resolution", "no host" are none; allowed hosts are hosts | |

The bounds of the model-checked instances (`MaxClock`, `MaxFetches`,
`MaxStarts`, `MaxChanges`, `MaxLines`) are arbitrary numbers here. Sets of keys,
requests, players and URLs may be infinite.

| Theorem | Statement |
|---|---|
| `MuxEntryProofs`: `Invariance`, `TypeCorrect` | `Spec => []IInv`, `Spec => []TypeOK` |
| `WakeupsAreNotLost`, `DeliveryInOrder` | `Spec => []NoLostWakeup`, `Spec => []InOrder` |
| `EndedResponsesAreWhole`, `HeadersAreHonest` | `Spec => []EndedIsWhole`, `Spec => []HonestHeader` |
| `OnlyCompleteBodiesPersist` | `Spec => []PersistedIsComplete` |
| `FinishedEntriesAreSealed` | `Spec => SealedForGood` |
| `Refinement` | `Spec => ImplementsSharedBody` |
| `MuxCacheProofs`: `Invariance`, `Typed` | `Spec => []IInv`, `Spec => []TypeOK` |
| `DuplicatesAreExplained`, `NewEntriesAreShared` | `Spec => []DuplicatesExplained`, `Spec => []NewEntryIsShared` |
| `OvershootIsReceived` | `Spec => []Overshoot` |
| `DiskCacheProofs`: `Invariance`, `Typed` | `Spec => []IInv`, `Spec => []TypeOK` |
| `FilesAreWhole`, `FilesAreKnown` | `Spec => []WholeFilesOnly`, `Spec => []NoOrphans` |
| `LimitIsKept`, `GhostsAreExplained` | `Spec => []IndexWithinLimit`, `Spec => []GhostsExplained` |
| `NothingIsRemovedInVain` | `Spec => NothingRemovedInVain` |
| `StreamCacheProofs`: `Invariance`, `Typed` | `Spec => []IInv`, `Spec => []TypeOK` |
| `SetsAreWhole`, `OrphansAreOvertaken` | `Spec => []NoTornSet`, `Spec => []OrphansExplained` |
| `MissingIsExplained`, `FoundIsFresh` | `Spec => []MissingExplained`, `Spec => []FoundWithinTTL` |
| `ShortURLsProofs`: `Invariance`, `Typed` | `Spec => []IInv`, `Spec => []TypeOK` |
| `CodesAreUnique`, `CodesAreStable` | `Spec => []OneCodePerURL`, `Spec => []CodesStayValid` |
| `RemapsAreExplained` | `Spec => []RemapExplained` |
| `AccessLocksProofs`: `Invariance`, `Typed` | `Spec => []IInv`, `Spec => []TypeOK` |
| `AnswersAreComplete` | `Spec => []AnswersFollowConfiguration` |
| `RefreshesAreSafe` | `Spec => DatabaseKept` |
| `ServingProofs`: `Invariance`, `Typed` | `Spec => []IInv`, `Spec => []TypeOK` |
| `ViewersCountedOnce`, `SegmentsAreExplained` | `Spec => []CountedOnce`, `Spec => []SegmentsExplained` |
| `PlaylistsProofs`: `Invariance` | `Spec => []IInv` |
| `OffersAreExplained`, `LineupIsOne` | `Spec => []OffersExplained`, `Spec => []OneLineup` |
| `UrisSurvive` | `Spec => []RoundTrip` |

Each module has one lemma per action, with a step for each part of the
invariant that the action can disturb; a lemma joins them, `Invariance` lifts it,
and the other theorems follow. Few of the properties are inductive. What each inductive
invariant `IInv` adds, and why:

* **MuxEntry**. That a finished buffer is the whole body needs to know that an
  EOF was read at the end of it, and that the chunk read with it was appended;
  that a `Content-Length` is right needs the fetch to be over. `FetchInv` says it
  of the goroutine and its entry: the buffer and the chunk in hand are what has been
  read (`buf \o chunk = SubSeq(Body, 1, pos)`), `done` goes with the goroutine's
  place, `err` is what the last read left, nothing is persisted without success.
  `RequestInv(c)` says it of each request: what was sent and is in hand is a
  prefix of the buffer, and a request that saw `done` holds the rest of it. `WholeBody`
  derives that a finished buffer without error is the body. The refinement has a lemma
  for the goroutine's steps (`FetchRefines`) and one for the requests'
  (`RequestRefines`): each is a step of `SharedBody` or leaves its variables alone.
* **MuxCache**. `LostInv` and `PairInv` say of an entry that is no longer
  indexed, or has a younger one beside it, why that is so, from the moment it is lost, since
  both fetches may start later. `WalkInv` and `FreshInv` keep the new entry apart from the
  victims. `SizeInv` relates the walk's total, counted entry by entry while they
  grow, to the sum of what they hold: the sum is at most the total and what was received since the
  walk began. It needs facts on sums over finite sets.
* **DiskCache**. `ReplacedInv`: unless a key was put again, at most one put of it
  is past its rename, with its file there and no entry yet. `NoOrphans` counts such puts;
  `PutterInv` says what each has in hand, `DownInv` what a crash leaves. `VictimsProperties`
  says what any choice of victims that `pruneLocked` may make has in common.
* **StreamCache**. A request's answer depends on what it saw several steps ago.
  `Answers` says of each request that what it got from upstream is no older than it
  says, `Sees` that what it saw in the cache is still there unless it was `raced`. `AgeInv`
  and `SnapshotAt(clock)` say the same of each record: upstream lacked what a
  master or snapshot does not list, and offered what is stored, at its time or
  later. `NoTornSet` is about the present; `WholeAt(t)` is what a request that
  started at `t` sees of it. `OrphansExplained` has a second invariant on top, `OrphanInv`: a
  stream with a record is in the last snapshot (`applied`), and whoever is resolving a master
  has its stream there too or is in `overtaken`.
* **ShortURLs**. `Settled`: a code that is taken is what `register` would give its
  URL now, the shortest end of its hash that no other URL has. It holds because
  URLs are never removed, and gives uniqueness and stability at once.
* **AccessLocks**. `LocksInv` says how far the locks are at each stage of a start; what
  is resolved and what is still to do make up the configuration. `FilesInv` does it for
  the temporary file, and for its month: it is that of the refresh or, once the first
  download has failed, possibly the one before.
* **Serving**. `KeptInv`: whatever a record, a tier or a playlist holds is of a directory
  the stream was resolved to. `FetchInv`: whoever waits, and whatever is indexed as
  being fetched, has its fetch, of the same key. `ReqInv` ties a request's place to
  what it holds, a lookup's steps included. The tiers hand directories to each other in every order; no part is
  inductive without the others.
* **Playlists**. Nothing but types has to be kept from step to step; what is hard is the
  fold. `RewriteSteps` takes it apart line by line, and `RewriteInv` says
  what has been written after `n` lines: every tag with a resolution and no
  other (`Chosen`), and after each the path that replaced its URI with no other
  path between, or, until that URI has been read, its resolution in hand (`Followed`).
  `LineInv` has a case for every kind of line.

What recursive functions compute is proved by inductions over sets: a set of numbers has a
least element (`LeastNatural`), a nonempty collection of finite sets a smallest one
(`SmallestSubset`). The sums behind the size limits (`SumFunctionOnSet`) and the
fold behind `RewriteMaster` are functions that the community modules choose;
`SumExists`, `BytesExists` and `FoldExists` show that there is one, and the lemmas after them
that a sum is that of any element and the rest, and monotone.

The proofs changed the models where these said less, or more, than was meant:
`NothingRemovedInVain` was false with three keys (a file may go because of a
victim that was put meanwhile), and now says so; the cooldown of
`StreamCache` must not exceed the TTL, or a 404 would rest on a snapshot that has expired.

### What only TLC checks

* Liveness (`FetchEnds`, `SteadyClientsFinish`, `Recovers`, `Reconciles`):
  fairness and `ENABLED` are beyond the prover.
* The counterexamples of the four violated runs.

No module uses a `RECURSIVE` operator.

## 5. Not modelled

* **watcherTracker's map**: one record per address, touched under a lock. When
  a viewer is counted is in `Serving`; what a time taken before the lock does
  to `LastSeen` shows on one page and for an instant. `clientIP` is pure.
* **Upstream client**, rendering of the index page and the M3U playlist, logging:
  I/O and text. What upstream answers is a choice in the models that ask it.
* **Configuration**: parsed once; the models are parameterised by its outcome.
  `parseSize` multiplies without a check (`main.go:147`).
* One key for two records: `variantKey(id, "master")` is `masterKey(id)`
  (`cache.go:75-76`), so that a request for a resolution named `master` finds the master's
  record. `StreamCache` has a table for each kind of record, and a resolution of that name
  is not one of its `Resolutions`.
* In `DiskCache`, bodies of one key have one size, and are not told apart; that upstream
  may reuse a name for another segment is in `Serving`.
* In `Serving`: players that leave in the middle of a response (`MuxEntry` has
  them), and a target whose host is refused. In `Playlists`: how a URI attribute
  is found in a tag, and the text of escapes.
* Statistics (hits and misses), log lines, wording of errors.
* `os.Remove` always succeeds in `DiskCache`; a failed one loses a file from
  the index until the next start.
* A process that runs for months never looks at the age of its geo database
  again (`region.go:74`, against "refreshed weekly" of `README.md:49`): there
  is no timer, and nothing to check.

## 6. Plan

Models: `Watchers` (`touch` and `active` with times taken before the lock) is what
could still be added.

Proofs: every safety property that a passing run checks has its theorem. What is left
is a proof that the coarse tiers of `Serving` are what `MuxCache`, `DiskCache` and
`StreamCache` promise, which section 2 argues in words.
