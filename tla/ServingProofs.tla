--------------------------- MODULE ServingProofs ---------------------------
(***************************************************************************)
(* Proofs about Serving, for any players, any configurations and any       *)
(* number of directories that the stream moves through.                    *)
(***************************************************************************)
EXTENDS Serving, FiniteSetTheorems, TLAPS

Fetchings == {Fetching(p) : p \in Players}
Missing == [is : {"none", "404", "error"}, dir : {NoDir}, by : {{}}]
Refusals == [is : {"unresolved", "502", "noFile"}, dir : {NoDir}, by : {{}}]
Bodies == [is : {"200"}, dir : resolved, by : {{}}]
Rewritten == Entry("200", NoDir) \* a playlist, as a player gets it

(* Where a request may be that has come to ask for the playlist, for the
   segment, or for neither yet. *)
Where(key) ==
    CASE key = "none" -> {"idle", "missed", "cooldown", "master", "store", "lookupAgain",
                          "serve", "done"}
      [] key = "playlist" -> {"wait", "playlist", "done"}
      [] key = "segment" -> {"wait", "proxy", "open", "get", "file", "done"}

Pcs == {"idle", "missed", "cooldown", "master", "store", "lookupAgain", "serve", "wait",
        "playlist", "proxy", "open", "get", "file", "done"}

(* A request r of a player that was shown a playlist of directory sh. *)
Consistent(r, sh) ==
    /\ r \in [pc : Pcs, key : Keys \cup {"none"}, dir : Dirs \cup {NoDir},
              got : Fetchings \cup Missing \cup Refusals \cup Bodies \cup {Rewritten},
              touches : {0, 1}]
    /\ r.pc \in Where(r.key)
    /\ r.pc = "wait" <=> r.got \in Fetchings
    /\ r.got = Rewritten => r.key = "playlist" /\ r.pc = "done"
    /\ r.pc \in {"serve", "open", "get", "proxy"} => r.dir \in resolved
    /\ r.pc = "store" => r.dir \in Dirs
    /\ r.key = "segment" => sh # NoDir
    /\ r.touches = IF r.key = "segment" /\ r.pc # "proxy" THEN 1 ELSE 0

OutsideInv == setup \in Setups /\ home \in Dirs /\ trouble \in BOOLEAN

(* What is kept anywhere is of a directory the stream was resolved to. *)
KeptInv ==
    /\ resolved \subseteq Dirs
    /\ record \in resolved \cup {NoDir} /\ stream \in {"listed", "missing", "unknown"}
    /\ disk \in resolved \cup {NoDir}
    /\ index \in [Keys -> Fetchings \cup Missing \cup Bodies]
    /\ shown \in [Players -> resolved \cup {Edge, NoDir}]
    /\ \A p \in Players : shown[p] = Edge => setup.redirected

ReqInv ==
    /\ req = [p \in Players |-> req[p]]
    /\ \A p \in Players : Consistent(req[p], shown[p])

(* A fetch is waited for by the player that started it, and what is waited for
   or indexed as being fetched is being fetched. *)
FetchInv ==
    /\ fetch = [p \in Players |-> fetch[p]]
    /\ \A p \in Players :
        /\ \/ fetch[p] = NoFetch
           \/ fetch[p] \in [key : Keys, dir : resolved] /\ req[p].got = Fetching(p)
        /\ \A k \in Keys : index[k] = Fetching(p) => fetch[p].key = k
        /\ \A q \in Players : req[q].got = Fetching(p) => fetch[p].key = req[q].key

IInv == OutsideInv /\ KeptInv /\ ReqInv /\ FetchInv

-----------------------------------------------------------------------------
(* A fetch is told by its player, and is no answer. *)
LEMMA FetchingFacts ==
    /\ \A p, q \in Players : Fetching(p) = Fetching(q) => p = q
    /\ \A p \in Players : /\ Fetching(p) \in Fetchings /\ Fetching(p).is = "fetching"
                          /\ Fetching(p) \notin Missing \cup Refusals \cup Bodies \cup {Rewritten}
    /\ \A e \in Missing \cup Refusals \cup Bodies \cup {Rewritten} : e.is # "fetching" /\ e \notin Fetchings
<1>1. ASSUME NEW p \in Players, NEW q \in Players, Fetching(p) = Fetching(q) PROVE p = q
  <2>1. {p} = {q}
    BY <1>1 DEF Fetching
  <2>2. QED
    BY <2>1
<1>2. \A p \in Players : Fetching(p).is = "fetching" /\ Fetching(p) \in Fetchings
  BY DEF Fetching, Fetchings
<1>3. \A e \in Missing \cup Refusals \cup Bodies \cup {Rewritten} : e.is # "fetching"
  BY DEF Missing, Refusals, Bodies, Rewritten, Entry
<1>4. \A e \in Fetchings : e.is = "fetching"
  BY <1>2 DEF Fetchings
<1>5. QED
  BY <1>1, <1>2, <1>3, <1>4

(* The answers of upstream and of the handlers are what they are taken for. *)
LEMMA Entries ==
    ASSUME KeptInv, NEW dir \in resolved
    PROVE  /\ Entry("200", dir) \in Bodies /\ Entry("200", NoDir) = Rewritten
           /\ \A is \in {"none", "404", "error"} : \A d : Entry(is, d) \in Missing
           /\ \A is \in {"unresolved", "502", "noFile"} : \A d : Entry(is, d) \in Refusals
           /\ NoEntry \in Missing
BY DEF Entry, Bodies, Rewritten, Missing, Refusals, NoEntry

(* Directories are neither none nor the edge. *)
LEMMA DirsFacts == NoDir \notin Dirs /\ Edge \notin Dirs /\ NoDir # Edge /\ 1 \in Dirs
BY ServingAssumption DEF NoDir, Edge, Dirs

(* What the stream is resolved to later leaves a request as it is. *)
LEMMA StaysConsistent ==
    ASSUME NEW r, NEW sh, Consistent(r, sh), resolved \subseteq resolved'
    PROVE  Consistent(r, sh)'
<1>1. Bodies \subseteq Bodies' /\ Fetchings' = Fetchings /\ Rewritten' = Rewritten
  BY DEF Bodies, Fetchings, Rewritten
<1>2. QED
  BY <1>1 DEF Consistent, Missing, Refusals, Rewritten, Fetchings

(* What is true of the record of a request is true of the request. *)
LEMMA OfRecord ==
    ASSUME NEW p, NEW r, NEW sh, r = req'[p], sh = shown'[p], Consistent(r, sh)'
    PROVE  Consistent(req[p], shown[p])'
BY DEF Consistent, Bodies

(* What a request is, by where it is. *)
LEMMA RequestType ==
    ASSUME IInv, NEW p \in Players, NEW r, r = req[p]
    PROVE  /\ Consistent(r, shown[p])
           /\ r \in [pc : Pcs, key : Keys \cup {"none"}, dir : Dirs \cup {NoDir},
                     got : Fetchings \cup Missing \cup Refusals \cup Bodies \cup {Rewritten},
                     touches : {0, 1}]
BY DEF IInv, ReqInv, Consistent, Pcs, Where

(* The step of a player that does not wait for a fetch, and starts none. *)
LEMMA StepOf ==
    ASSUME IInv, NEW p \in Players, NEW next, NEW sh, req[p].pc # "wait",
           req' = [req EXCEPT ![p] = next], shown' = [shown EXCEPT ![p] = sh],
           resolved \subseteq resolved', KeptInv', Consistent(next, sh)',
           UNCHANGED <<outside, index, fetch>>,
           \A q \in Players : next.got = Fetching(q) => fetch[q].key = next.key
    PROVE  IInv'
<1>1. req'[p] = next /\ req' = [q \in Players |-> req'[q]] /\ \A q \in Players \ {p} : req'[q] = req[q]
  BY DEF IInv, ReqInv
<1>2. shown'[p] = sh /\ \A q \in Players \ {p} : shown'[q] = shown[q]
  BY DEF IInv, KeptInv
<1>3. ASSUME NEW q \in Players PROVE Consistent(req[q], shown[q])'
  <2>1. CASE q = p
    BY <1>1, <1>2, <2>1, OfRecord
  <2>2. CASE q # p
    <3>1. PICK r, s : r = req[q] /\ s = shown[q]
      OBVIOUS
    <3>2. Consistent(r, s)'
      BY <3>1, StaysConsistent DEF IInv, ReqInv
    <3>3. QED
      BY <1>1, <1>2, <2>2, <3>1, <3>2, OfRecord
  <2>3. QED
    BY <2>1, <2>2
<1>4. OutsideInv'
  BY DEF IInv, OutsideInv, outside
<1>5. FetchInv'
  <2>1. fetch[p] = NoFetch
    <3>1. req[p].got \notin Fetchings
      BY DEF IInv, ReqInv, Consistent
    <3>2. QED
      BY <3>1, FetchingFacts DEF IInv, FetchInv
  <2>2. ASSUME NEW q \in Players
        PROVE  /\ \/ fetch'[q] = NoFetch
                  \/ fetch'[q] \in [key : Keys, dir : resolved'] /\ req'[q].got = Fetching(q)
               /\ \A k \in Keys : index'[k] = Fetching(q) => fetch'[q].key = k
               /\ \A o \in Players : req'[o].got = Fetching(q) => fetch'[q].key = req'[o].key
    <3>1. fetch' = fetch /\ index' = index
      OBVIOUS
    <3>2. \A o \in Players : req'[o].got = Fetching(q) => fetch[q].key = req'[o].key
      BY <1>1 DEF IInv, FetchInv
    <3>3. fetch[q] = NoFetch \/ (fetch[q] \in [key : Keys, dir : resolved'] /\ req'[q].got = Fetching(q))
      BY <1>1, <2>1 DEF IInv, FetchInv
    <3>4. QED
      BY <3>1, <3>2, <3>3 DEF IInv, FetchInv
  <2>3. fetch' = [q \in Players |-> fetch'[q]]
    BY DEF IInv, FetchInv
  <2>4. QED
    BY <2>2, <2>3 DEF FetchInv, NoFetch, Fetching
<1>6. QED
  BY <1>1, <1>3, <1>4, <1>5 DEF IInv, ReqInv

(* The same, when nothing but the request changes. *)
LEMMA StepAlone ==
    ASSUME IInv, NEW p \in Players, NEW next, req[p].pc # "wait",
           req' = [req EXCEPT ![p] = next], Consistent(next, shown[p]),
           UNCHANGED <<tiers, outside, shown, resolved>>,
           \A q \in Players : next.got = Fetching(q) => fetch[q].key = next.key
    PROVE  IInv'
<1>1. PICK sh : sh = shown[p]
  OBVIOUS
<1>2. Consistent(next, sh)'
  BY <1>1, StaysConsistent
<1>3. shown' = [shown EXCEPT ![p] = sh] /\ KeptInv'
  BY <1>1 DEF IInv, KeptInv, tiers, metadata, outside, Bodies
<1>4. QED
  BY <1>2, <1>3, StepOf DEF tiers

(* The same, for a request that does not come to wait, and when records go or
   the stream is listed anew. *)
LEMMA StepMetadata ==
    ASSUME IInv, NEW p \in Players, NEW r, r = req[p], NEW next, r.pc # "wait",
           req' = [req EXCEPT ![p] = next], Consistent(next, shown[p]), next.got \notin Fetchings,
           record' \in {record, NoDir}, stream' \in {"listed", "missing", "unknown"},
           UNCHANGED <<index, fetch, disk, outside, shown, resolved>>
    PROVE  IInv'
<1>1. PICK sh : sh = shown[p]
  OBVIOUS
<1>2. Consistent(next, sh)'
  BY <1>1, StaysConsistent
<1>3. shown' = [shown EXCEPT ![p] = sh] /\ KeptInv'
  BY <1>1 DEF IInv, KeptInv, outside, Bodies
<1>4. \A q \in Players : next.got = Fetching(q) => fetch[q].key = next.key
  BY FetchingFacts
<1>5. req[p].pc # "wait" /\ resolved \subseteq resolved'
  OBVIOUS
<1>6. QED
  BY <1>2, <1>3, <1>4, <1>5, StepOf

(* The same, when the records stay as they are too. *)
LEMMA StepPlain ==
    ASSUME IInv, NEW p \in Players, NEW r, r = req[p], NEW next, r.pc # "wait",
           req' = [req EXCEPT ![p] = next], Consistent(next, shown[p]), next.got \notin Fetchings,
           UNCHANGED <<tiers, outside, shown, resolved>>
    PROVE  IInv'
<1>1. UNCHANGED <<record, stream, index, fetch, disk>>
  BY DEF tiers, metadata
<1>2. record' \in {record, NoDir} /\ stream' \in {"listed", "missing", "unknown"}
  BY <1>1 DEF IInv, KeptInv
<1>3. QED
  BY <1>1, <1>2, StepMetadata

(* An answer is the end of a request that has not come to wait. *)
LEMMA AnswerConsistent ==
    ASSUME NEW r, NEW sh, Consistent(r, sh), r.key # "segment" \/ r.pc # "proxy",
           NEW answer \in Missing \cup Refusals \cup Bodies \cup {Rewritten},
           answer = Rewritten => r.key = "playlist"
    PROVE  Consistent(Answered(r, answer), sh) /\ Answered(r, answer).got \notin Fetchings
<1>1. answer \notin Fetchings
  BY FetchingFacts
<1>2. Answered(r, answer) = [pc |-> "done", key |-> r.key, dir |-> NoDir, got |-> answer,
                             touches |-> r.touches]
  BY DEF Answered, Request
<1>3. /\ r.key \in Keys \cup {"none"} /\ r.touches \in {0, 1} /\ r.key = "segment" => sh # NoDir
      /\ r.touches = IF r.key = "segment" THEN 1 ELSE 0
  BY DEF Consistent
<1>4. QED
  BY <1>1, <1>2, <1>3 DEF Consistent, Where, Keys, Pcs

-----------------------------------------------------------------------------
(* A request keeps the record it finds. *)
LEMMA FoundInv ==
    ASSUME IInv, NEW p \in Players, req[p].pc # "wait", record # NoDir, Found(p),
           UNCHANGED <<tiers, outside, shown, resolved>>
    PROVE  IInv'
<1>1. PICK r : r = req[p]
  OBVIOUS
<1>2. PICK next : next = Request("serve", "none", record, NoEntry, 0)
  OBVIOUS
<1>3. record \in resolved /\ record \in Dirs
  BY DEF IInv, KeptInv
<1>4. NoEntry \in Missing /\ NoEntry \notin Fetchings /\ NoEntry # Rewritten
  BY FetchingFacts DEF Missing, NoEntry, Entry, Rewritten
<1>5. Consistent(next, shown[p]) /\ next.got \notin Fetchings
  BY <1>2, <1>3, <1>4 DEF Request, Consistent, Where, Pcs, Keys
<1>6. req' = [req EXCEPT ![p] = next]
  BY <1>2 DEF Found
<1>7. QED
  BY <1>1, <1>5, <1>6, StepPlain

(* A request that looks the variant up goes on. *)
LEMMA LookupGoes ==
    ASSUME IInv, NEW p \in Players, NEW pc \in {"missed", "cooldown", "master", "lookupAgain"},
           req[p].pc \in {"idle", "missed", "cooldown"}, Goto(p, pc),
           record' \in {record, NoDir}, stream' \in {"listed", "missing", "unknown"},
           UNCHANGED <<index, fetch, disk, outside, shown, resolved>>
    PROVE  IInv'
<1>1. PICK r : r = req[p]
  OBVIOUS
<1>2. Consistent(r, shown[p]) /\ r.pc \in {"idle", "missed", "cooldown"}
  BY <1>1, RequestType
<1>3. r.key = "none"
  BY <1>2 DEF Consistent, Where, Keys
<1>4. PICK next : next = [r EXCEPT !.pc = pc]
  OBVIOUS
<1>5. Consistent(next, shown[p]) /\ next.got \notin Fetchings
  BY <1>2, <1>3, <1>4 DEF Consistent, Where, Pcs, Keys
<1>6. req' = [req EXCEPT ![p] = next] /\ r.pc # "wait"
  BY <1>1, <1>2, <1>4 DEF Goto
<1>7. QED
  BY <1>1, <1>5, <1>6, StepMetadata

(* A lookup or a playlist that fails is the end of its request. *)
LEMMA GivesUp ==
    ASSUME IInv, NEW p \in Players, NEW is \in {"unresolved", "502"}, Answer(p, is, NoDir),
           req[p].pc # "wait", req[p].key \in {"none", "playlist"},
           record' \in {record, NoDir}, stream' \in {"listed", "missing", "unknown"},
           UNCHANGED <<index, fetch, disk, outside, shown, resolved>>
    PROVE  IInv'
<1>1. PICK r : r = req[p]
  OBVIOUS
<1>2. Consistent(r, shown[p]) /\ r.pc # "wait" /\ r.key # "segment"
  BY <1>1, RequestType
<1>3. PICK answer : answer = Entry(is, NoDir)
  OBVIOUS
<1>4. PICK next : next = Answered(r, answer)
  OBVIOUS
<1>5. answer \in Refusals /\ answer # Rewritten
  BY <1>3 DEF Refusals, Entry, Rewritten
<1>6. Consistent(next, shown[p]) /\ next.got \notin Fetchings
  BY <1>2, <1>4, <1>5, AnswerConsistent
<1>7. req' = [req EXCEPT ![p] = next]
  BY <1>1, <1>3, <1>4 DEF Answer
<1>8. QED
  BY <1>1, <1>2, <1>6, <1>7, StepMetadata

(* While a variant is looked up nothing is asked for yet. *)
LEMMA LookingUp ==
    ASSUME IInv, NEW p \in Players,
           req[p].pc \in {"idle", "missed", "cooldown", "master", "store", "lookupAgain"}
    PROVE  req[p].key = "none" /\ req[p].pc # "wait"
<1>1. PICK r : r = req[p]
  OBVIOUS
<1>2. /\ Consistent(r, shown[p])
      /\ r.pc \in {"idle", "missed", "cooldown", "master", "store", "lookupAgain"}
  BY <1>1, RequestType
<1>3. r.key = "none" /\ r.pc # "wait"
  BY <1>2 DEF Consistent, Where, Keys
<1>4. QED
  BY <1>1, <1>3

(* What a step leaves alone when it leaves the metadata alone. *)
LEMMA MetadataKept ==
    ASSUME IInv, UNCHANGED metadata
    PROVE  record' \in {record, NoDir} /\ stream' \in {"listed", "missing", "unknown"}
BY DEF IInv, KeptInv, metadata

(* The lookup of the variant, where it has a record and where it has none. *)
LEMMA StartInv == ASSUME IInv, NEW p \in Players, Start(p) PROVE IInv'
<1>1. req[p].pc = "idle" /\ UNCHANGED <<tiers, outside, shown, resolved>>
  BY DEF Start, At
<1>2. CASE Goto(p, "missed")
  <2>1. UNCHANGED <<metadata, index, fetch, disk>>
    BY <1>1 DEF tiers
  <2>2. QED
    BY <1>1, <1>2, <2>1, LookupGoes, MetadataKept
<1>3. CASE record # NoDir /\ Found(p)
  BY <1>1, <1>3, FoundInv
<1>4. QED
  BY <1>2, <1>3 DEF Start

(* The lookup of the master and of the stream. *)
LEMMA CheckMasterInv == ASSUME IInv, NEW p \in Players, CheckMaster(p) PROVE IInv'
<1>1. req[p].pc = "missed" /\ UNCHANGED <<tiers, outside, shown, resolved>>
  BY DEF CheckMaster, At
<1>2. UNCHANGED <<metadata, index, fetch, disk>>
  BY <1>1 DEF tiers
<1>3. \/ Answer(p, "unresolved", NoDir)
      \/ \E pc \in {"cooldown", "master"} : Goto(p, pc)
  BY DEF CheckMaster
<1>4. QED
  BY <1>1, <1>2, <1>3, LookupGoes, GivesUp, LookingUp, MetadataKept

(* A snapshot is stored, or there is none, or none is asked for. *)
LEMMA FetchStreamsInv == ASSUME IInv, NEW p \in Players, FetchStreams(p) PROVE IInv'
<1>1. req[p].pc = "cooldown" /\ UNCHANGED <<index, fetch, disk, outside, shown, resolved>>
  BY DEF FetchStreams, At
<1>2. CASE Goto(p, "lookupAgain") /\ UNCHANGED metadata
  BY <1>1, <1>2, LookupGoes, MetadataKept
<1>3. ASSUME NEW listing \in Listings, SetSnapshot(listing),
             Goto(p, IF listing = "listed" THEN "master" ELSE "lookupAgain")
      PROVE  IInv'
  <2>1. record' \in {record, NoDir} /\ stream' \in {"listed", "missing", "unknown"}
    BY <1>3 DEF SetSnapshot, Listings
  <2>2. PICK pc \in {"master", "lookupAgain"} : Goto(p, pc)
    BY <1>3
  <2>3. QED
    BY <1>1, <2>1, <2>2, LookupGoes
<1>4. CASE Answer(p, "unresolved", NoDir) /\ UNCHANGED metadata
  BY <1>1, <1>4, GivesUp, LookingUp, MetadataKept
<1>5. QED
  BY <1>2, <1>3, <1>4 DEF FetchStreams

(* The master tells the directory the stream is in, or the stream is evicted. *)
LEMMA FetchMasterInv == ASSUME IInv, NEW p \in Players, FetchMaster(p) PROVE IInv'
<1>1. PICK r : r = req[p]
  OBVIOUS
<1>2. /\ Consistent(r, shown[p]) /\ r.pc = "master" /\ KeptInv
      /\ UNCHANGED <<index, fetch, disk, outside, shown, resolved>>
  BY <1>1, RequestType DEF FetchMaster, At, IInv
<1>3. r.key = "none" /\ r.got \notin Fetchings
  BY <1>2 DEF Consistent, Where, Keys
<1>4. CASE req' = [req EXCEPT ![p].pc = "store", ![p].dir = home] /\ UNCHANGED metadata
  <2>1. PICK next : next = [r EXCEPT !.pc = "store", !.dir = home]
    OBVIOUS
  <2>2. Consistent(next, shown[p]) /\ next.got \notin Fetchings
    <3>1. home \in Dirs
      BY DEF IInv, OutsideInv
    <3>2. QED
      BY <1>2, <1>3, <2>1, <3>1 DEF Consistent, Where, Pcs, Keys
  <2>3. req' = [req EXCEPT ![p] = next]
    BY <1>1, <1>4, <2>1 DEF IInv, ReqInv
  <2>4. QED
    BY <1>1, <1>2, <1>4, <2>2, <2>3, StepPlain DEF tiers
<1>5. CASE Answer(p, "unresolved", NoDir) /\ Evict
  <2>1. record' \in {record, NoDir} /\ stream' \in {"listed", "missing", "unknown"}
    BY <1>5 DEF Evict
  <2>2. QED
    BY <1>1, <1>2, <1>3, <1>5, <2>1, GivesUp
<1>6. QED
  BY <1>4, <1>5 DEF FetchMaster

(* A record that is stored is one the stream has been resolved to. *)
LEMMA StoreInv == ASSUME IInv, NEW p \in Players, Store(p) PROVE IInv'
<1>1. PICK r : r = req[p]
  OBVIOUS
<1>2. /\ Consistent(r, shown[p]) /\ r.pc = "store" /\ KeptInv
      /\ record' = r.dir /\ resolved' = resolved \cup {r.dir}
      /\ UNCHANGED <<stream, index, fetch, disk, outside, shown>>
  BY <1>1, RequestType DEF Store, At, IInv
<1>3. r.key = "none" /\ r.got \notin Fetchings /\ r.dir \in Dirs
  BY <1>2 DEF Consistent, Where, Keys
<1>4. PICK next : next = [r EXCEPT !.pc = "lookupAgain", !.dir = NoDir]
  OBVIOUS
<1>5. Consistent(next, shown[p]) /\ next.got \notin Fetchings
  BY <1>2, <1>3, <1>4 DEF Consistent, Where, Pcs, Keys
<1>6. req' = [req EXCEPT ![p] = next]
  BY <1>1, <1>4 DEF Store, IInv, ReqInv
<1>7. PICK sh : sh = shown[p]
  OBVIOUS
<1>8. resolved \subseteq resolved' /\ shown' = [shown EXCEPT ![p] = sh]
  BY <1>2, <1>7 DEF KeptInv
<1>9. Consistent(next, sh)'
  BY <1>5, <1>7, <1>8, StaysConsistent
<1>10. KeptInv'
  <2>1. Bodies \subseteq Bodies' /\ Fetchings' = Fetchings
    BY <1>8 DEF Bodies, Fetchings
  <2>2. index' \in [Keys -> Fetchings \cup Missing \cup Bodies']
    BY <1>2, <2>1 DEF KeptInv
  <2>3. shown' \in [Players -> resolved' \cup {Edge, NoDir}]
    BY <1>2, <1>8 DEF KeptInv
  <2>4. QED
    BY <1>2, <1>3, <2>1, <2>2, <2>3 DEF KeptInv, outside, Missing
<1>11. \A q \in Players : next.got = Fetching(q) => fetch[q].key = next.key
  BY <1>5, FetchingFacts
<1>12. QED
  BY <1>1, <1>2, <1>6, <1>8, <1>9, <1>10, <1>11, StepOf

(* The second lookup finds a record, whoever stored it, or gives up. *)
LEMMA LookupAgainInv == ASSUME IInv, NEW p \in Players, LookupAgain(p) PROVE IInv'
<1>1. req[p].pc = "lookupAgain" /\ UNCHANGED <<tiers, outside, shown, resolved>>
  BY DEF LookupAgain, At
<1>2. UNCHANGED <<metadata, index, fetch, disk>>
  BY <1>1 DEF tiers
<1>3. CASE Answer(p, "unresolved", NoDir)
  BY <1>1, <1>2, <1>3, GivesUp, LookingUp, MetadataKept
<1>4. CASE record # NoDir /\ Found(p)
  BY <1>1, <1>4, FoundInv
<1>5. QED
  BY <1>3, <1>4 DEF LookupAgain

(* The master and its variant expire, and a lookup that comes just then fails. *)
LEMMA ForgetBeforeInv == ASSUME IInv, NEW p \in Players, ForgetBefore(p) PROVE IInv'
<1>1. /\ req[p].pc = "idle" /\ Answer(p, "unresolved", NoDir)
      /\ record' = NoDir /\ stream' = stream
      /\ UNCHANGED <<index, fetch, disk, outside, shown, resolved>>
  BY DEF ForgetBefore, At
<1>2. stream' \in {"listed", "missing", "unknown"}
  BY <1>1 DEF IInv, KeptInv
<1>3. QED
  BY <1>1, <1>2, GivesUp, LookingUp

-----------------------------------------------------------------------------
(* What a request is given is consistent with what it came to ask for. *)
LEMMA GivenConsistent ==
    ASSUME KeptInv, NEW r, NEW sh, r.key \in Keys, r.key = "segment" => sh # NoDir,
           r.touches = IF r.key = "segment" THEN 1 ELSE 0,
           NEW entry \in Fetchings \cup Missing \cup Bodies
    PROVE  /\ Consistent(Given(r, entry), sh)
           /\ Given(r, entry).got = entry /\ Given(r, entry).key = r.key
<1>1. entry # Rewritten
  BY DirsFacts, FetchingFacts DEF Rewritten, Entry, Missing, Bodies, KeptInv
<1>2. (entry.is = "fetching") <=> entry \in Fetchings
  <2>1. entry \in Fetchings => entry.is = "fetching"
    BY FetchingFacts DEF Fetchings
  <2>2. QED
    BY <2>1, FetchingFacts
<1>3. r.touches \in {0, 1}
  OBVIOUS
<1>4. CASE entry \in Fetchings
  <2>1. Given(r, entry) = Request("wait", r.key, NoDir, entry, r.touches)
    BY <1>2, <1>4 DEF Given
  <2>2. QED
    BY <1>1, <1>3, <1>4, <2>1 DEF Request, Consistent, Where, Pcs, Keys
<1>5. CASE entry \notin Fetchings /\ r.key = "playlist"
  <2>1. Given(r, entry) = Request("playlist", r.key, NoDir, entry, r.touches)
    BY <1>2, <1>5 DEF Given
  <2>2. QED
    BY <1>1, <1>3, <1>5, <2>1 DEF Request, Consistent, Where, Pcs, Keys
<1>6. CASE entry \notin Fetchings /\ r.key = "segment"
  <2>1. Given(r, entry) = Request("done", r.key, NoDir, entry, r.touches)
    BY <1>2, <1>6 DEF Given, Answered
  <2>2. QED
    BY <1>1, <1>3, <1>6, <2>1 DEF Request, Consistent, Where, Pcs, Keys
<1>7. QED
  BY <1>4, <1>5, <1>6 DEF Keys

(* A player that does not wait has no fetch under way, and nobody waits for
   one that is not. *)
LEMMA NotFetching ==
    ASSUME IInv, NEW p \in Players, req[p].pc # "wait"
    PROVE  /\ fetch[p] = NoFetch
           /\ \A k \in Keys : index[k] # Fetching(p)
           /\ \A q \in Players : req[q].got # Fetching(p)
<1>1. req[p].got \notin Fetchings
  BY DEF IInv, ReqInv, Consistent
<1>2. fetch[p] = NoFetch
  BY <1>1, FetchingFacts DEF IInv, FetchInv
<1>3. fetch[p].key = "none"
  BY <1>2 DEF NoFetch
<1>4. \A k \in Keys : index[k] # Fetching(p)
  BY <1>3 DEF IInv, FetchInv, Keys
<1>5. ASSUME NEW q \in Players, req[q].got = Fetching(p) PROVE FALSE
  <2>1. PICK r : r = req[q]
    OBVIOUS
  <2>2. r.key = "none"
    BY <1>3, <1>5, <2>1 DEF IInv, FetchInv
  <2>3. r.got \in Fetchings /\ Consistent(r, shown[q])
    BY <1>5, <2>1, FetchingFacts, RequestType
  <2>4. QED
    BY <2>2, <2>3 DEF Consistent, Where
<1>6. QED
  BY <1>2, <1>4, <1>5

(* Whoever asks the memory tier is given the live entry, or starts a fetch
   from a directory the stream was resolved to. *)
LEMMA GetInv ==
    ASSUME IInv, NEW p \in Players, req[p].pc # "wait", NEW r, NEW dir \in resolved,
           r.key \in Keys, r.key = "segment" => shown[p] # NoDir,
           r.touches = IF r.key = "segment" THEN 1 ELSE 0,
           Get(p, r, dir), UNCHANGED <<metadata, disk, outside, shown, resolved>>
    PROVE  IInv'
<1>1. KeptInv
  BY DEF IInv
<1>2. CASE /\ req' = [req EXCEPT ![p] = Given(r, index[r.key])]
           /\ UNCHANGED <<index, fetch>>
  <2>1. PICK next, entry : next = Given(r, entry) /\ entry = index[r.key]
    OBVIOUS
  <2>2. entry \in Fetchings \cup Missing \cup Bodies
    BY <1>1, <2>1 DEF KeptInv
  <2>3. Consistent(next, shown[p]) /\ next.got = entry /\ next.key = r.key
    BY <1>1, <2>1, <2>2, GivenConsistent
  <2>4. \A q \in Players : next.got = Fetching(q) => fetch[q].key = next.key
    BY <2>1, <2>3 DEF IInv, FetchInv
  <2>5. req' = [req EXCEPT ![p] = next]
    BY <1>2, <2>1
  <2>6. UNCHANGED <<tiers, outside, shown, resolved>>
    BY <1>2 DEF tiers
  <2>7. QED
    BY <2>3, <2>4, <2>5, <2>6, StepAlone
<1>3. CASE /\ fetch' = [fetch EXCEPT ![p] = [key |-> r.key, dir |-> dir]]
           /\ index' = IF "memory" \in setup.on THEN [index EXCEPT ![r.key] = Fetching(p)] ELSE index
           /\ req' = [req EXCEPT ![p] = Given(r, Fetching(p))]
  <2>1. PICK next, entry : next = Given(r, entry) /\ entry = Fetching(p)
    OBVIOUS
  <2>2. entry \in Fetchings
    BY <2>1, FetchingFacts
  <2>3. Consistent(next, shown[p]) /\ next.got = entry /\ next.key = r.key
    BY <1>1, <2>1, <2>2, GivenConsistent
  <2>4. req' = [req EXCEPT ![p] = next]
    BY <1>3, <2>1
  <2>5. /\ req'[p] = next /\ req' = [q \in Players |-> req'[q]]
        /\ \A q \in Players \ {p} : req'[q] = req[q]
    BY <2>4 DEF IInv, ReqInv
  <2>6. \A k \in Keys : index'[k] = index[k] \/ (k = r.key /\ index'[k] = entry)
    BY <1>1, <1>3, <2>1 DEF KeptInv
  <2>7. KeptInv'
    <3>1. index' \in [Keys -> Fetchings \cup Missing \cup Bodies]
      BY <1>1, <1>3, <2>1, <2>2 DEF KeptInv
    <3>2. Bodies' = Bodies
      BY DEF Bodies
    <3>3. QED
      BY <1>1, <3>1, <3>2 DEF KeptInv, metadata, outside
  <2>8. ReqInv'
    <3>1. ASSUME NEW q \in Players PROVE Consistent(req[q], shown[q])'
      <4>1. PICK o, sh : o = req'[q] /\ sh = shown[q]
        OBVIOUS
      <4>2. Consistent(o, sh)
        <5>1. CASE q = p
          BY <2>3, <2>5, <4>1, <5>1
        <5>2. CASE q # p
          BY <2>5, <4>1, <5>2 DEF IInv, ReqInv
        <5>3. QED
          BY <5>1, <5>2
      <4>3. Consistent(o, sh)'
        BY <4>2, StaysConsistent
      <4>4. QED
        BY <4>1, <4>3, OfRecord
    <3>2. QED
      BY <2>5, <3>1 DEF ReqInv
  <2>9. FetchInv'
    <3>1. /\ \A k \in Keys : index[k] # Fetching(p)
          /\ \A q \in Players : req[q].got # Fetching(p)
      BY NotFetching
    <3>2. fetch'[p] = [key |-> r.key, dir |-> dir] /\ \A q \in Players \ {p} : fetch'[q] = fetch[q]
      BY <1>3 DEF IInv, FetchInv
    <3>3. ASSUME NEW q \in Players
          PROVE  /\ \/ fetch'[q] = NoFetch
                    \/ fetch'[q] \in [key : Keys, dir : resolved'] /\ req'[q].got = Fetching(q)
                 /\ \A k \in Keys : index'[k] = Fetching(q) => fetch'[q].key = k
                 /\ \A o \in Players : req'[o].got = Fetching(q) => fetch'[q].key = req'[o].key
      <4>1. CASE q = p
        <5>1. fetch'[q] \in [key : Keys, dir : resolved'] /\ fetch'[q].key = r.key
          BY <3>2, <4>1
        <5>2. req'[q].got = Fetching(q)
          BY <2>1, <2>3, <2>5, <4>1
        <5>3. \A k \in Keys : index'[k] = Fetching(q) => k = r.key
          BY <2>6, <3>1, <4>1
        <5>4. \A o \in Players : req'[o].got = Fetching(q) => req'[o].key = r.key
          BY <2>3, <2>5, <3>1, <4>1
        <5>5. QED
          BY <5>1, <5>2, <5>3, <5>4
      <4>2. CASE q # p
        <5>1. fetch'[q] = fetch[q] /\ req'[q] = req[q] /\ entry # Fetching(q)
          BY <2>1, <2>5, <3>2, <4>2, FetchingFacts
        <5>2. \A k \in Keys : index'[k] = Fetching(q) => index[k] = Fetching(q)
          BY <2>6, <5>1
        <5>3. \A o \in Players : req'[o].got = Fetching(q) => req'[o] = req[o]
          BY <2>3, <2>5, <5>1
        <5>4. QED
          BY <5>1, <5>2, <5>3 DEF IInv, FetchInv
      <4>3. QED
        BY <4>1, <4>2
    <3>4. fetch' = [q \in Players |-> fetch'[q]]
      BY <1>3 DEF IInv, FetchInv
    <3>5. QED
      BY <3>3, <3>4 DEF FetchInv, NoFetch, Fetching
  <2>10. QED
    BY <2>7, <2>8, <2>9 DEF IInv, OutsideInv, outside
<1>4. QED
  BY <1>2, <1>3 DEF Get

(* The playlist of the variant and the segment are asked of memory. *)
LEMMA GetPlaylistInv == ASSUME IInv, NEW p \in Players, GetPlaylist(p) PROVE IInv'
<1>1. PICK r : r = req[p]
  OBVIOUS
<1>2. Consistent(r, shown[p]) /\ r.pc = "serve" /\ Get(p, ForPlaylist(p), r.dir)
  BY <1>1, RequestType DEF GetPlaylist, At
<1>3. PICK asked : asked = ForPlaylist(p)
  OBVIOUS
<1>4. r.key = "none" /\ r.touches = 0 /\ r.dir \in resolved
  BY <1>2 DEF Consistent, Where, Keys
<1>5. asked = [r EXCEPT !.key = "playlist", !.dir = NoDir]
  BY <1>1, <1>3 DEF ForPlaylist
<1>6. asked.key = "playlist" /\ asked.touches = 0
  BY <1>2, <1>4, <1>5 DEF Consistent
<1>7. Get(p, asked, r.dir)
  BY <1>2, <1>3
<1>8. asked.key \in Keys /\ asked.key # "segment"
  BY <1>6 DEF Keys
<1>9. req[p].pc # "wait" /\ UNCHANGED <<metadata, disk, outside, shown, resolved>>
  BY <1>1, <1>2 DEF GetPlaylist
<1>10. QED
  BY <1>4, <1>6, <1>7, <1>8, <1>9, GetInv

(* The segment is asked of memory once it is not on disk. *)
LEMMA GetSegmentInv == ASSUME IInv, NEW p \in Players, GetSegment(p) PROVE IInv'
<1>1. PICK r : r = req[p]
  OBVIOUS
<1>2. Consistent(r, shown[p]) /\ r.pc = "get" /\ Get(p, r, r.dir)
  BY <1>1, RequestType DEF GetSegment, At
<1>3. r.key = "segment" /\ r.touches = 1 /\ r.dir \in resolved /\ shown[p] # NoDir
  BY <1>2 DEF Consistent, Where, Keys
<1>4. req[p].pc # "wait" /\ UNCHANGED <<metadata, disk, outside, shown, resolved>>
  BY <1>1, <1>2 DEF GetSegment
<1>5. r.key \in Keys
  BY <1>3 DEF Keys
<1>6. QED
  BY <1>2, <1>3, <1>4, <1>5, GetInv

(* The end of a fetch is an answer to everybody who waits for it, and to nobody
   else. *)
LEMMA FetchEndsInv == ASSUME IInv, NEW p \in Players, FetchEnds(p) PROVE IInv'
<1>1. PICK is \in {"200", "404", "error"} :
        LET entry == Entry(is, fetch[p].dir) IN
        /\ index' = [k \in Keys |-> IF index[k] # Fetching(p) THEN index[k]
                                   ELSE IF is = "error" THEN NoEntry ELSE entry]
        /\ req' = [q \in Players |->
                     IF req[q].got = Fetching(p) THEN Given(req[q], entry) ELSE req[q]]
        /\ disk' = IF is = "200" /\ fetch[p].key = "segment" /\ "disk" \in setup.on
                     THEN fetch[p].dir ELSE disk
  BY DEF FetchEnds, Upstream
<1>2. PICK dir, entry, kept :
        /\ dir = fetch[p].dir /\ entry = Entry(is, dir)
        /\ kept = IF is = "error" THEN NoEntry ELSE entry
  OBVIOUS
<1>3. KeptInv /\ fetch[p] # NoFetch /\ UNCHANGED <<metadata, outside, shown, resolved>>
  BY DEF FetchEnds, IInv
<1>4. dir \in resolved
  BY <1>2, <1>3 DEF IInv, FetchInv
<1>5. entry \in Missing \cup Bodies /\ kept \in Missing \cup Bodies
  BY <1>3, <1>4, <1>2, Entries
<1>6. entry \notin Fetchings /\ kept \notin Fetchings
  BY <1>5, FetchingFacts
<1>7. /\ index' = [k \in Keys |-> IF index[k] # Fetching(p) THEN index[k] ELSE kept]
      /\ req' = [q \in Players |->
                   IF req[q].got = Fetching(p) THEN Given(req[q], entry) ELSE req[q]]
      /\ disk' \in {dir, disk}
  BY <1>1, <1>2
<1>8. KeptInv'
  <2>1. index' \in [Keys -> Fetchings \cup Missing \cup Bodies]
    BY <1>3, <1>5, <1>7 DEF KeptInv
  <2>2. Bodies' = Bodies
    BY <1>3 DEF Bodies
  <2>3. QED
    BY <1>3, <1>4, <1>7, <2>1, <2>2 DEF KeptInv, metadata, outside
<1>9. ASSUME NEW q \in Players, req[q].got = Fetching(p)
      PROVE  /\ Consistent(req'[q], shown[q])
             /\ req'[q].got = entry /\ req'[q].key = req[q].key
  <2>1. PICK r : r = req[q]
    OBVIOUS
  <2>2. Consistent(r, shown[q]) /\ r.got \in Fetchings
    BY <1>9, <2>1, RequestType, FetchingFacts
  <2>3. r.key \in Keys /\ r.touches = IF r.key = "segment" THEN 1 ELSE 0
    BY <2>2 DEF Consistent, Where, Keys
  <2>4. r.key = "segment" => shown[q] # NoDir
    BY <2>2 DEF Consistent
  <2>5. /\ Consistent(Given(r, entry), shown[q])
        /\ Given(r, entry).got = entry /\ Given(r, entry).key = r.key
    BY <1>3, <1>5, <2>3, <2>4, GivenConsistent
  <2>6. QED
    BY <1>7, <1>9, <2>1, <2>5
<1>10. \A q \in Players : req[q].got # Fetching(p) => req'[q] = req[q]
  BY <1>7
<1>11. ReqInv'
  <2>1. ASSUME NEW q \in Players PROVE Consistent(req[q], shown[q])'
    <3>1. PICK o, sh : o = req'[q] /\ sh = shown[q]
      OBVIOUS
    <3>2. Consistent(o, sh)
      BY <1>9, <1>10, <3>1 DEF IInv, ReqInv
    <3>3. Consistent(o, sh)' /\ sh = shown'[q]
      BY <1>3, <3>1, <3>2, StaysConsistent
    <3>4. QED
      BY <3>1, <3>3, OfRecord
  <2>2. req' = [q \in Players |-> req'[q]]
    BY <1>7
  <2>3. QED
    BY <2>1, <2>2 DEF ReqInv
<1>12. FetchInv'
  <2>1. \A q \in Players : entry # Fetching(q) /\ kept # Fetching(q)
    BY <1>6, FetchingFacts
  <2>2. /\ fetch' = [q \in Players |-> fetch'[q]] /\ fetch'[p] = NoFetch
        /\ \A q \in Players \ {p} : fetch'[q] = fetch[q]
    BY DEF FetchEnds, IInv, FetchInv
  <2>3. ASSUME NEW q \in Players
        PROVE  /\ \/ fetch'[q] = NoFetch
                  \/ fetch'[q] \in [key : Keys, dir : resolved'] /\ req'[q].got = Fetching(q)
               /\ \A k \in Keys : index'[k] = Fetching(q) => fetch'[q].key = k
               /\ \A o \in Players : req'[o].got = Fetching(q) => fetch'[q].key = req'[o].key
    <3>1. \A k \in Keys : index'[k] = Fetching(q) => index[k] = Fetching(q) /\ index[k] # Fetching(p)
      BY <1>7, <2>1
    <3>2. \A o \in Players :
            req'[o].got = Fetching(q) => req'[o] = req[o] /\ req[o].got # Fetching(p)
      BY <1>9, <1>10, <2>1
    <3>3. CASE q = p
      <4>1. /\ \A k \in Keys : index'[k] # Fetching(q)
            /\ \A o \in Players : req'[o].got # Fetching(q)
        BY <3>1, <3>2, <3>3
      <4>2. QED
        BY <2>2, <3>3, <4>1
    <3>4. CASE q # p
      <4>1. fetch'[q] = fetch[q] /\ Fetching(q) # Fetching(p)
        BY <2>2, <3>4, FetchingFacts
      <4>2. req[q].got = Fetching(q) => req'[q].got = Fetching(q)
        BY <1>10, <4>1
      <4>3. fetch'[q] = NoFetch \/ (fetch'[q] \in [key : Keys, dir : resolved'] /\ req'[q].got = Fetching(q))
        BY <1>3, <4>1, <4>2 DEF IInv, FetchInv
      <4>4. QED
        BY <3>1, <3>2, <4>1, <4>3 DEF IInv, FetchInv
    <3>5. QED
      BY <3>3, <3>4
  <2>4. QED
    BY <2>2, <2>3 DEF FetchInv, NoFetch, Fetching
<1>13. QED
  BY <1>3, <1>8, <1>11, <1>12 DEF IInv, OutsideInv, outside

-----------------------------------------------------------------------------
(* A playlist that is served is of a directory the stream was resolved to,
   unless playlists are redirected. *)
LEMMA ServePlaylistInv == ASSUME IInv, NEW p \in Players, ServePlaylist(p) PROVE IInv'
<1>1. PICK r : r = req[p]
  OBVIOUS
<1>2. /\ Consistent(r, shown[p]) /\ r.pc = "playlist" /\ r.got.is = "200" /\ KeptInv
      /\ UNCHANGED <<tiers, outside, resolved>>
  BY <1>1, RequestType DEF ServePlaylist, At, IInv
<1>3. r.key = "playlist"
  BY <1>2 DEF Consistent, Where, Keys
<1>4. r.got \in Bodies /\ r.got.dir \in resolved
  <2>1. r.got \notin Fetchings /\ r.got # Rewritten
    BY <1>2 DEF Consistent
  <2>2. r.got \in Missing \cup Refusals \cup Bodies
    BY <1>2, <2>1 DEF Consistent
  <2>3. QED
    BY <1>2, <2>2 DEF Missing, Refusals, Bodies
<1>5. PICK next : next = Answered(r, Rewritten)
  OBVIOUS
<1>6. Consistent(next, shown[p]) /\ next.got \notin Fetchings /\ next.key = "playlist"
  BY <1>2, <1>3, <1>5, AnswerConsistent DEF Answered, Request
<1>7. PICK sh : sh = IF p \in Viewers THEN Final(r.got.dir) ELSE shown[p]
  OBVIOUS
<1>8. shown' = [shown EXCEPT ![p] = sh] /\ sh \in resolved \cup {Edge, NoDir}
  BY <1>1, <1>2, <1>4, <1>7 DEF ServePlaylist, Final, KeptInv
<1>9. sh = Edge => setup.redirected
  BY <1>2, <1>4, <1>7, DirsFacts DEF Final, KeptInv
<1>10. Consistent(next, sh)
  BY <1>6 DEF Consistent
<1>11. Consistent(next, sh)'
  BY <1>2, <1>10, StaysConsistent
<1>12. KeptInv'
  <2>1. shown' \in [Players -> resolved \cup {Edge, NoDir}]
    BY <1>2, <1>8 DEF KeptInv
  <2>2. \A q \in Players : shown'[q] = Edge => setup.redirected
    BY <1>2, <1>8, <1>9 DEF KeptInv
  <2>3. Bodies' = Bodies
    BY <1>2 DEF Bodies
  <2>4. QED
    BY <1>2, <2>1, <2>2, <2>3 DEF KeptInv, tiers, metadata, outside
<1>13. \A q \in Players : next.got = Fetching(q) => fetch[q].key = next.key
  BY <1>6, FetchingFacts
<1>14. req' = [req EXCEPT ![p] = next]
  BY <1>1, <1>5 DEF ServePlaylist, Answer, Rewritten
<1>15. QED
  BY <1>1, <1>2, <1>8, <1>11, <1>12, <1>13, <1>14, StepOf DEF tiers

(* A playlist that is not there evicts the stream, which nothing else that is
   kept depends on. *)
LEMMA FailPlaylistInv == ASSUME IInv, NEW p \in Players, FailPlaylist(p) PROVE IInv'
<1>1. PICK r : r = req[p]
  OBVIOUS
<1>2. /\ Consistent(r, shown[p]) /\ r.pc = "playlist" /\ Answer(p, "502", NoDir)
      /\ record' = NoDir /\ stream' = "unknown"
      /\ UNCHANGED <<index, fetch, disk, outside, shown, resolved>>
  BY <1>1, RequestType DEF FailPlaylist, Evict, At
<1>3. r.key = "playlist"
  BY <1>2 DEF Consistent, Where, Keys
<1>4. QED
  BY <1>1, <1>2, <1>3, GivesUp

-----------------------------------------------------------------------------
(* A request for the file of a segment, or for a segment that is looked for
   further, once the viewer is counted for it. *)
LEMMA CountedConsistent ==
    ASSUME IInv, NEW sh, sh # NoDir, NEW pc \in {"proxy", "open", "file"},
           NEW next, next.pc = pc, next.key = "segment",
           next \in [pc : Pcs, key : Keys \cup {"none"}, dir : Dirs \cup {NoDir},
                     got : Missing \cup Refusals \cup Bodies, touches : {0, 1}],
           next.touches = IF pc = "proxy" THEN 0 ELSE 1,
           pc = "file" \/ next.dir \in resolved
    PROVE  Consistent(next, sh) /\ next.got \notin Fetchings
<1>1. next.got \notin Fetchings /\ next.got # Rewritten
  <2>1. NoDir \notin resolved
    BY DirsFacts DEF IInv, KeptInv
  <2>2. QED
    BY <2>1, FetchingFacts DEF Rewritten, Entry, Missing, Refusals, Bodies
<1>2. QED
  BY <1>1 DEF Consistent, Where, Pcs, Keys

(* What a player that has just looked the variant up is. *)
LEMMA ServeFacts ==
    ASSUME IInv, NEW p \in Players, NEW r, r = req[p], r.pc = "serve"
    PROVE  /\ Consistent(r, shown[p]) /\ r.key = "none" /\ r.touches = 0
           /\ r.dir \in resolved /\ r.dir \in Dirs
           /\ r.got \in Missing \cup Refusals \cup Bodies
<1>1. Consistent(r, shown[p])
  BY RequestType
<1>2. QED
  BY <1>1 DEF Consistent, Where, Keys, IInv, KeptInv

(* A request for the segment is the same otherwise. *)
LEMMA ForSegmentIs ==
    ASSUME IInv, NEW p \in Players, NEW r, r = req[p], NEW n
    PROVE  ForSegment(p, n) = [pc |-> r.pc, key |-> "segment", dir |-> r.dir, got |-> r.got,
                               touches |-> r.touches + n]
<1>1. ForSegment(p, n) = [r EXCEPT !.key = "segment", !.touches = r.touches + n]
  BY DEF ForSegment
<1>2. r = [pc |-> r.pc, key |-> r.key, dir |-> r.dir, got |-> r.got, touches |-> r.touches]
  BY RequestType
<1>3. QED
  BY <1>1, <1>2

(* A range: the file, or upstream. *)
LEMMA SeekInv == ASSUME IInv, NEW p \in Players, Seek(p) PROVE IInv'
<1>1. PICK r : r = req[p]
  OBVIOUS
<1>2. /\ r.pc = "serve" /\ shown[p] # NoDir /\ UNCHANGED <<tiers, outside, shown, resolved>>
  BY <1>1 DEF Seek, At
<1>3. /\ Consistent(r, shown[p]) /\ r.key = "none" /\ r.touches = 0
      /\ r.dir \in resolved /\ r.dir \in Dirs
      /\ r.got \in Missing \cup Refusals \cup Bodies
  BY <1>1, <1>2, ServeFacts
<1>4. CASE OpenFile(p, 1)
  <2>1. PICK next : next = Request("file", "segment", NoDir, NoEntry, 1)
    OBVIOUS
  <2>2. next = [pc |-> "file", key |-> "segment", dir |-> NoDir, got |-> NoEntry, touches |-> 1]
    BY <2>1 DEF Request
  <2>3. NoEntry \in Missing
    BY DEF Missing, NoEntry, Entry
  <2>4. Consistent(next, shown[p]) /\ next.got \notin Fetchings
    BY <1>2, <2>2, <2>3, CountedConsistent DEF Pcs, Keys
  <2>5. req' = [req EXCEPT ![p] = next]
    <3>1. r.touches + 1 = 1
      BY <1>3
    <3>2. QED
      BY <1>1, <1>4, <2>1, <3>1 DEF OpenFile
  <2>6. QED
    BY <1>1, <1>2, <2>4, <2>5, StepPlain
<1>5. CASE req' = [req EXCEPT ![p] = [ForSegment(p, 0) EXCEPT !.pc = "proxy"]]
  <2>1. PICK next : next = [ForSegment(p, 0) EXCEPT !.pc = "proxy"]
    OBVIOUS
  <2>2. r.touches + 0 = 0
    BY <1>3
  <2>3. next = [pc |-> "proxy", key |-> "segment", dir |-> r.dir, got |-> r.got, touches |-> 0]
    BY <1>1, <2>1, <2>2, ForSegmentIs
  <2>4. Consistent(next, shown[p]) /\ next.got \notin Fetchings
    BY <1>2, <1>3, <2>3, CountedConsistent DEF Pcs, Keys
  <2>5. req' = [req EXCEPT ![p] = next]
    BY <1>5, <2>1
  <2>6. QED
    BY <1>1, <1>2, <2>4, <2>5, StepPlain
<1>6. QED
  BY <1>4, <1>5 DEF Seek

(* The range that upstream answers, for which the viewer is counted now. *)
LEMMA ProxyInv == ASSUME IInv, NEW p \in Players, Proxy(p) PROVE IInv'
<1>1. PICK r : r = req[p]
  OBVIOUS
<1>2. Consistent(r, shown[p]) /\ r.pc = "proxy" /\ UNCHANGED <<tiers, outside, shown, resolved>>
  BY <1>1, RequestType DEF Proxy, At
<1>3. r.key = "segment" /\ r.touches = 0 /\ r.dir \in resolved /\ shown[p] # NoDir
  BY <1>2 DEF Consistent, Where, Keys
<1>4. PICK is \in {"200", "404", "error"} :
        req' = [req EXCEPT ![p] = Answered(ForSegment(p, 1), Entry(is, r.dir))]
  BY <1>1 DEF Proxy, Upstream
<1>5. PICK answer : answer = Entry(is, r.dir)
  OBVIOUS
<1>6. PICK next : next = Answered(ForSegment(p, 1), answer)
  OBVIOUS
<1>7. answer \in Missing \cup Bodies
  BY <1>3, <1>5, Entries DEF IInv
<1>8. answer \notin Fetchings /\ answer # Rewritten
  <2>1. NoDir \notin resolved
    BY DirsFacts DEF IInv, KeptInv
  <2>2. QED
    BY <1>7, <2>1, FetchingFacts DEF Rewritten, Entry, Missing, Bodies
<1>9. next = [pc |-> "done", key |-> "segment", dir |-> NoDir, got |-> answer, touches |-> 1]
  <2>1. r.touches + 1 = 1
    BY <1>3
  <2>2. ForSegment(p, 1).key = "segment" /\ ForSegment(p, 1).touches = 1
    BY <1>1, <2>1, ForSegmentIs
  <2>3. QED
    BY <1>6, <2>2 DEF Answered, Request
<1>10. Consistent(next, shown[p]) /\ next.got \notin Fetchings
  BY <1>3, <1>7, <1>8, <1>9 DEF Consistent, Where, Pcs, Keys
<1>11. req' = [req EXCEPT ![p] = next]
  BY <1>4, <1>5, <1>6
<1>12. QED
  BY <1>1, <1>2, <1>10, <1>11, StepPlain

(* The whole segment, from memory if it is there. *)
LEMMA PeekInv == ASSUME IInv, NEW p \in Players, Peek(p) PROVE IInv'
<1>1. PICK r : r = req[p]
  OBVIOUS
<1>2. r.pc = "serve" /\ shown[p] # NoDir /\ UNCHANGED <<tiers, outside, shown, resolved>>
  BY <1>1 DEF Peek, At
<1>3. /\ Consistent(r, shown[p]) /\ r.key = "none" /\ r.touches = 0
      /\ r.dir \in resolved /\ r.dir \in Dirs
      /\ r.got \in Missing \cup Refusals \cup Bodies
  BY <1>1, <1>2, ServeFacts
<1>4. PICK asked : asked = ForSegment(p, 1)
  OBVIOUS
<1>5. r.touches + 1 = 1
  BY <1>3
<1>6. asked = [pc |-> r.pc, key |-> "segment", dir |-> r.dir, got |-> r.got, touches |-> 1]
  BY <1>1, <1>4, <1>5, ForSegmentIs
<1>7. CASE req' = [req EXCEPT ![p] = Given(asked, index["segment"])]
  <2>1. PICK entry : entry = index["segment"]
    OBVIOUS
  <2>2. PICK next : next = Given(asked, entry)
    OBVIOUS
  <2>3. entry \in Fetchings \cup Missing \cup Bodies
    BY <2>1 DEF IInv, KeptInv, Keys
  <2>4. asked.key = "segment" /\ asked.key \in Keys /\ asked.touches = 1
    BY <1>6 DEF Keys
  <2>5. Consistent(next, shown[p]) /\ next.got = entry /\ next.key = "segment"
    BY <1>2, <2>2, <2>3, <2>4, GivenConsistent DEF IInv
  <2>6. \A q \in Players : next.got = Fetching(q) => fetch[q].key = next.key
    <3>1. "segment" \in Keys
      BY DEF Keys
    <3>2. QED
      BY <2>1, <2>5, <3>1 DEF IInv, FetchInv
  <2>7. req' = [req EXCEPT ![p] = next]
    BY <1>7, <2>1, <2>2
  <2>8. QED
    BY <1>1, <1>2, <2>5, <2>6, <2>7, StepAlone
<1>8. CASE req' = [req EXCEPT ![p] = [asked EXCEPT !.pc = "open"]]
  <2>1. PICK next : next = [asked EXCEPT !.pc = "open"]
    OBVIOUS
  <2>2. next = [pc |-> "open", key |-> "segment", dir |-> r.dir, got |-> r.got, touches |-> 1]
    BY <1>6, <2>1
  <2>3. Consistent(next, shown[p]) /\ next.got \notin Fetchings
    BY <1>2, <1>3, <2>2, CountedConsistent DEF Pcs, Keys
  <2>4. req' = [req EXCEPT ![p] = next]
    BY <1>8, <2>1
  <2>5. QED
    BY <1>1, <1>2, <2>3, <2>4, StepPlain
<1>9. QED
  BY <1>4, <1>7, <1>8 DEF Peek

(* What is not in memory is looked for on disk. *)
LEMMA OpenInv == ASSUME IInv, NEW p \in Players, Open(p) PROVE IInv'
<1>1. PICK r : r = req[p]
  OBVIOUS
<1>2. Consistent(r, shown[p]) /\ r.pc = "open" /\ UNCHANGED <<tiers, outside, shown, resolved>>
  BY <1>1, RequestType DEF Open, At
<1>3. r.key = "segment" /\ r.touches = 1 /\ r.dir \in resolved /\ shown[p] # NoDir
  BY <1>2 DEF Consistent, Where, Keys
<1>4. CASE OpenFile(p, 0)
  <2>1. PICK next : next = Request("file", "segment", NoDir, NoEntry, 1)
    OBVIOUS
  <2>2. next = [pc |-> "file", key |-> "segment", dir |-> NoDir, got |-> NoEntry, touches |-> 1]
    BY <2>1 DEF Request
  <2>3. NoEntry \in Missing
    BY DEF Missing, NoEntry, Entry
  <2>4. Consistent(next, shown[p]) /\ next.got \notin Fetchings
    BY <1>3, <2>2, <2>3, CountedConsistent DEF Pcs, Keys
  <2>5. req' = [req EXCEPT ![p] = next]
    <3>1. r.touches + 0 = 1
      BY <1>3
    <3>2. QED
      BY <1>1, <1>4, <2>1, <3>1 DEF OpenFile
  <2>6. QED
    BY <1>1, <1>2, <2>4, <2>5, StepPlain
<1>5. CASE Goto(p, "get")
  <2>1. PICK next : next = [r EXCEPT !.pc = "get"]
    OBVIOUS
  <2>2. Consistent(next, shown[p]) /\ next.got \notin Fetchings
    BY <1>2, <1>3, <2>1 DEF Consistent, Where, Pcs, Keys
  <2>3. req' = [req EXCEPT ![p] = next]
    BY <1>1, <1>5, <2>1 DEF Goto
  <2>4. QED
    BY <1>1, <1>2, <2>2, <2>3, StepPlain
<1>6. QED
  BY <1>4, <1>5 DEF Open

(* Whatever is on disk is a segment of a directory the stream was resolved
   to. *)
LEMMA SendFileInv == ASSUME IInv, NEW p \in Players, SendFile(p) PROVE IInv'
<1>1. PICK r : r = req[p]
  OBVIOUS
<1>2. Consistent(r, shown[p]) /\ r.pc = "file" /\ UNCHANGED <<tiers, outside, shown, resolved>>
  BY <1>1, RequestType DEF SendFile, At
<1>3. PICK answer : /\ req' = [req EXCEPT ![p] = Answered(r, answer)]
                    /\ answer \in Refusals \cup Bodies
  <2>1. CASE disk # NoDir /\ Answer(p, "200", disk)
    <3>1. disk \in resolved
      BY <2>1 DEF IInv, KeptInv
    <3>2. Entry("200", disk) \in Bodies
      BY <3>1, Entries DEF IInv
    <3>3. req' = [req EXCEPT ![p] = Answered(r, Entry("200", disk))]
      BY <1>1, <2>1 DEF Answer
    <3>4. QED
      BY <3>2, <3>3
  <2>2. CASE Answer(p, "noFile", NoDir)
    <3>1. Entry("noFile", NoDir) \in Refusals
      BY DEF Entry, Refusals
    <3>2. req' = [req EXCEPT ![p] = Answered(r, Entry("noFile", NoDir))]
      BY <1>1, <2>2 DEF Answer
    <3>3. QED
      BY <3>1, <3>2
  <2>3. QED
    BY <2>1, <2>2 DEF SendFile
<1>4. answer # Rewritten
  <2>1. NoDir \notin resolved
    BY DirsFacts DEF IInv, KeptInv
  <2>2. QED
    BY <1>3, <2>1 DEF Rewritten, Entry, Refusals, Bodies
<1>5. PICK next : next = Answered(r, answer)
  OBVIOUS
<1>6. Consistent(next, shown[p]) /\ next.got \notin Fetchings
  BY <1>2, <1>3, <1>4, <1>5, AnswerConsistent
<1>7. req' = [req EXCEPT ![p] = next]
  BY <1>3, <1>5
<1>8. QED
  BY <1>1, <1>2, <1>6, <1>7, StepPlain

(* A player that asks for nothing. *)
LEMMA IdleConsistent == \A sh : Consistent(Idle, sh) /\ Idle.got \notin Fetchings
<1>1. NoEntry \in Missing /\ NoEntry # Rewritten /\ NoEntry \notin Fetchings
  BY FetchingFacts DEF Missing, NoEntry, Entry, Rewritten
<1>2. QED
  BY <1>1 DEF Idle, Request, Consistent, Where, Pcs, Keys

(* A response that has ended leaves nothing behind. *)
LEMMA FinishInv == ASSUME IInv, NEW p \in Players, Finish(p) PROVE IInv'
<1>1. PICK r : r = req[p]
  OBVIOUS
<1>2. /\ r.pc = "done" /\ req' = [req EXCEPT ![p] = Idle]
      /\ UNCHANGED <<tiers, outside, shown, resolved>>
  BY <1>1 DEF Finish, At
<1>3. QED
  BY <1>1, <1>2, IdleConsistent, StepPlain

-----------------------------------------------------------------------------
(* A step of none of the players that leaves their requests as they are. *)
LEMMA StepOutside ==
    ASSUME IInv, UNCHANGED <<fetch, req, shown, resolved>>, OutsideInv', KeptInv',
           \A k \in Keys : index'[k] \in Fetchings => index'[k] = index[k]
    PROVE  IInv'
<1>1. ReqInv'
  <2>1. ASSUME NEW q \in Players PROVE Consistent(req[q], shown[q])'
    <3>1. PICK r, sh : r = req[q] /\ sh = shown[q]
      OBVIOUS
    <3>2. Consistent(r, sh)'
      BY <3>1, StaysConsistent DEF IInv, ReqInv
    <3>3. QED
      BY <3>1, <3>2, OfRecord
  <2>2. QED
    BY <2>1 DEF IInv, ReqInv
<1>2. FetchInv'
  BY FetchingFacts DEF IInv, FetchInv, NoFetch, Fetching
<1>3. QED
  BY <1>1, <1>2 DEF IInv

(* Entries go at any time. *)
LEMMA ExpireInv == ASSUME IInv, NEW k \in Keys, Expire(k) PROVE IInv'
<1>1. NoEntry \in Missing /\ NoEntry \notin Fetchings
  BY FetchingFacts DEF Missing, NoEntry, Entry
<1>2. KeptInv /\ index' = [index EXCEPT ![k] = NoEntry]
      /\ UNCHANGED <<metadata, fetch, disk, outside, req, shown, resolved>>
  BY DEF Expire, IInv
<1>3. index' \in [Keys -> Fetchings \cup Missing \cup Bodies]
  BY <1>1, <1>2 DEF KeptInv
<1>4. Bodies' = Bodies
  BY <1>2 DEF Bodies
<1>5. KeptInv'
  BY <1>2, <1>3, <1>4 DEF KeptInv, metadata, outside
<1>6. \A c \in Keys : index'[c] \in Fetchings => index'[c] = index[c]
  BY <1>1, <1>2 DEF KeptInv
<1>7. QED
  BY <1>2, <1>5, <1>6, StepOutside DEF IInv, OutsideInv, outside

(* The file and the records go at any time, and snapshots come. *)
LEMMA PruneInv ==
    ASSUME IInv, Prune \/ Forget \/ ForgetStream \/ CoolDown \/ SnapshotElsewhere PROVE IInv'
<1>1. /\ UNCHANGED <<index, fetch, outside, req, shown, resolved>>
      /\ record' \in {record, NoDir} /\ disk' \in {disk, NoDir}
      /\ stream' \in {stream, "listed", "missing", "unknown"}
  BY DEF Prune, Forget, ForgetStream, CoolDown, SnapshotElsewhere, SetSnapshot, Listings, metadata
<1>2. KeptInv'
  BY <1>1 DEF IInv, KeptInv, outside, Bodies
<1>3. OutsideInv'
  BY <1>1 DEF IInv, OutsideInv, outside
<1>4. QED
  BY <1>1, <1>2, <1>3, StepOutside

(* Upstream changes nothing that is kept. *)
LEMMA MoveInv == ASSUME IInv, Move \/ Settle PROVE IInv'
<1>1. /\ UNCHANGED <<tiers, setup, req, shown, resolved>>
      /\ home' \in {home} \cup IF home < LastDir THEN {home + 1} ELSE {}
      /\ trouble' \in {trouble, FALSE}
  BY DEF Move, Settle
<1>2. OutsideInv'
  <2>1. home' \in Dirs
    BY <1>1, ServingAssumption DEF IInv, OutsideInv, Dirs
  <2>2. QED
    BY <1>1, <2>1 DEF IInv, OutsideInv
<1>3. KeptInv'
  BY <1>1 DEF IInv, KeptInv, tiers, metadata, Bodies
<1>4. QED
  BY <1>1, <1>2, <1>3, StepOutside DEF tiers

(* A restart leaves nobody waiting, and of the tiers the disk. *)
LEMMA RestartInv == ASSUME IInv, Restart PROVE IInv'
<1>1. /\ KeptInv /\ record' = NoDir /\ stream' = "unknown" /\ index' = [k \in Keys |-> NoEntry]
      /\ fetch' = [p \in Players |-> NoFetch] /\ req' = [p \in Players |-> Idle]
      /\ UNCHANGED <<disk, outside, shown, resolved>>
  BY DEF Restart, Evict, IInv
<1>2. NoEntry \in Missing /\ NoEntry \notin Fetchings
  BY FetchingFacts DEF Missing, NoEntry, Entry
<1>3. KeptInv'
  <2>1. index' \in [Keys -> Fetchings \cup Missing \cup Bodies]
    BY <1>1, <1>2
  <2>2. Bodies' = Bodies
    BY <1>1 DEF Bodies
  <2>3. QED
    BY <1>1, <2>1, <2>2 DEF KeptInv, outside
<1>4. ReqInv'
  <2>1. ASSUME NEW q \in Players PROVE Consistent(req[q], shown[q])'
    <3>1. PICK r, sh : r = req'[q] /\ sh = shown[q]
      OBVIOUS
    <3>2. Consistent(r, sh)
      BY <1>1, <3>1, IdleConsistent
    <3>3. Consistent(r, sh)'
      BY <1>1, <3>2, StaysConsistent
    <3>4. QED
      BY <1>1, <3>1, <3>3, OfRecord
  <2>2. QED
    BY <1>1, <2>1 DEF ReqInv
<1>5. FetchInv'
  <2>1. \A q \in Players : req'[q].got \notin Fetchings
    BY <1>1, IdleConsistent
  <2>2. \A k \in Keys : index'[k] \notin Fetchings
    BY <1>1, <1>2
  <2>3. fetch' = [q \in Players |-> fetch'[q]] /\ \A q \in Players : fetch'[q] = NoFetch
    BY <1>1
  <2>4. QED
    BY <2>1, <2>2, <2>3, FetchingFacts DEF FetchInv, NoFetch, Fetching
<1>6. QED
  BY <1>1, <1>3, <1>4, <1>5 DEF IInv, OutsideInv, outside

(* Before anybody has asked for anything, nothing is kept. *)
LEMMA InitInv == Init => IInv
<1>1. SUFFICES ASSUME Init PROVE IInv
  OBVIOUS
<1>2. OutsideInv
  BY <1>1, DirsFacts DEF Init, OutsideInv
<1>3. NoEntry \in Missing /\ NoEntry \notin Fetchings
  BY FetchingFacts DEF Missing, NoEntry, Entry
<1>4. KeptInv
  BY <1>1, <1>3, DirsFacts DEF Init, KeptInv
<1>5. ReqInv
  BY <1>1, IdleConsistent DEF Init, ReqInv
<1>6. FetchInv
  <2>1. \A q \in Players : req[q].got \notin Fetchings
    BY <1>1, IdleConsistent DEF Init
  <2>2. \A k \in Keys : index[k] \notin Fetchings
    BY <1>1, <1>3 DEF Init
  <2>3. fetch = [q \in Players |-> fetch[q]] /\ \A q \in Players : fetch[q] = NoFetch
    BY <1>1 DEF Init
  <2>4. QED
    BY <2>1, <2>2, <2>3, FetchingFacts DEF FetchInv
<1>7. QED
  BY <1>2, <1>4, <1>5, <1>6 DEF IInv

(* What the invariant says stays true when nothing changes. *)
LEMMA StutterInv == ASSUME IInv, UNCHANGED vars PROVE IInv'
<1>1. UNCHANGED <<tiers, outside, req, shown, resolved>>
  BY DEF vars
<1>2. KeptInv'
  BY <1>1 DEF IInv, KeptInv, tiers, metadata, outside, Bodies
<1>3. OutsideInv'
  BY <1>1 DEF IInv, OutsideInv, outside
<1>4. QED
  BY <1>1, <1>2, <1>3, StepOutside DEF tiers

(* Every step of the system keeps the invariant. *)
LEMMA NextInv == ASSUME IInv, [Next]_vars PROVE IInv'
<1>1. ASSUME NEW p \in Players, Start(p) \/ ForgetBefore(p) \/ Step(p) \/ FetchEnds(p) PROVE IInv'
  BY <1>1, StartInv, ForgetBeforeInv, FetchEndsInv, CheckMasterInv, FetchStreamsInv,
     FetchMasterInv, StoreInv, LookupAgainInv, GetPlaylistInv, ServePlaylistInv,
     FailPlaylistInv, SeekInv, ProxyInv, PeekInv, OpenInv, SendFileInv, GetSegmentInv,
     FinishInv DEF Step
<1>2. QED
  BY <1>1, ExpireInv, PruneInv, RestartInv, MoveInv, StutterInv DEF Next

-----------------------------------------------------------------------------
(* The inductive invariant: whatever is kept, in a record, in memory, on disk
   or by a request on its way, is of a directory the stream was resolved to,
   and every wait has its fetch. *)
THEOREM Invariance == Spec => []IInv
<1>1. Init => IInv
  BY InitInv
<1>2. IInv /\ [Next]_vars => IInv'
  BY NextInv
<1>3. QED
  BY <1>1, <1>2, PTL DEF Spec

(* Every variable has its type, and what is waited for or indexed as being
   fetched is being fetched (mux.go: get, fetch). *)
THEOREM Typed == Spec => []TypeOK
<1>1. IInv => TypeOK
  <2>1. SUFFICES ASSUME IInv PROVE TypeOK
    OBVIOUS
  <2>2. Fetchings \cup Missing \cup Bodies \subseteq Answers
    BY <2>1 DEF Fetchings, Missing, Bodies, Answers, IInv, KeptInv
  <2>3. index \in [Keys -> Answers]
    BY <2>1, <2>2 DEF IInv, KeptInv
  <2>4. fetch \in [Players -> {NoFetch} \cup [key : Keys, dir : Dirs]]
    BY <2>1 DEF IInv, KeptInv, FetchInv
  <2>5. shown \in [Players -> Dirs \cup {Edge, NoDir}]
    BY <2>1 DEF IInv, KeptInv
  <2>6. \A p \in Players : req[p].touches \in Nat
    BY <2>1 DEF IInv, ReqInv, Consistent
  <2>7. QED
    BY <2>1, <2>3, <2>4, <2>5, <2>6 DEF TypeOK, IInv, OutsideInv, KeptInv, FetchInv
<1>2. QED
  BY <1>1, Invariance, PTL

(* A viewer is counted exactly once for a segment, wherever it comes from
   (stream.go: handleSegment, proxyUpstream). *)
THEOREM ViewersCountedOnce == Spec => []CountedOnce
<1>1. IInv => CountedOnce
  BY DEF IInv, ReqInv, Consistent, CountedOnce, At
<1>2. QED
  BY <1>1, Invariance, PTL

(* A segment that is served is of a directory the stream was resolved to, and
   is of the one the playlist listed unless playlists are redirected or the
   stream has been resolved to another one as well. *)
THEOREM SegmentsAreExplained == Spec => []SegmentsExplained
<1>1. IInv => SegmentsExplained
  <2>1. SUFFICES ASSUME IInv, NEW p \in Players, Served(p)
        PROVE  /\ req[p].got.dir \in resolved
               /\ req[p].got.dir # shown[p] => setup.redirected \/ Cardinality(resolved) > 1
    BY DEF SegmentsExplained
  <2>2. PICK r : r = req[p]
    OBVIOUS
  <2>3. Consistent(r, shown[p]) /\ r.pc = "done" /\ r.key = "segment" /\ r.got.is = "200"
    BY <2>1, <2>2, RequestType DEF Served, At
  <2>4. r.got.dir \in resolved /\ shown[p] # NoDir
    <3>1. r.got \notin Fetchings /\ r.got # Rewritten
      BY <2>3 DEF Consistent
    <3>2. r.got \in Missing \cup Refusals \cup Bodies
      BY <2>3, <3>1 DEF Consistent
    <3>3. QED
      BY <2>3, <3>2 DEF Missing, Refusals, Bodies, Consistent
  <2>5. ASSUME r.got.dir # shown[p], ~setup.redirected PROVE Cardinality(resolved) > 1
    <3>1. shown[p] \in resolved
      BY <2>1, <2>4, <2>5 DEF IInv, KeptInv
    <3>2. IsFiniteSet(resolved)
      <4>1. resolved \subseteq 1 .. LastDir /\ IsFiniteSet(1 .. LastDir)
        BY <2>1, ServingAssumption, FS_Interval DEF IInv, KeptInv, Dirs
      <4>2. QED
        BY <4>1, FS_Subset
    <3>3. Cardinality(resolved) \in Nat
      BY <3>2, FS_CardinalityType
    <3>4. Cardinality(resolved) # 0
      BY <3>1, <3>2, FS_EmptySet
    <3>5. Cardinality(resolved) # 1
      BY <2>4, <2>5, <3>1, <3>2, FS_Singleton
    <3>6. QED
      BY <3>3, <3>4, <3>5
  <2>6. QED
    BY <2>2, <2>4, <2>5
<1>2. QED
  BY <1>1, Invariance, PTL
=============================================================================
