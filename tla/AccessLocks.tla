---------------------------- MODULE AccessLocks ----------------------------
(***************************************************************************)
(* The access locks (network.go, region.go) and how main puts them up at   *)
(* every start (main.go:244-280), over the geo database that is kept in    *)
(* the data directory across starts.                                       *)
(*                                                                         *)
(* Each stage of the start is an action, and so is each step of a download *)
(* of the database; the process may be killed before any of them.  Time    *)
(* passes in ticks, with any of which the next calendar month may begin:   *)
(* the age of a database is that of its file, but what it knows is that of *)
(* the month it was published for.  The configuration parses, and so do    *)
(* the announced prefixes; a database that cannot be asked for an address  *)
(* does not know its country.                                              *)
(***************************************************************************)
EXTENDS Integers, FiniteSets

CONSTANTS Addrs,     \* client addresses
          Private,   \* the loopback, private, link-local and unspecified ones
          Literals,  \* those in the literal entries of VOETBAL_NETWORK_LOCK
          ASNs,      \* its ASN entries
          Announced, \* the addresses each of them announces
          Allowed,   \* the addresses in the countries of VOETBAL_REGION_LOCK
          MaxAge,    \* geoDBMaxAge
          MaxClock,  \* bound: the ticks of a behaviour
          MaxStarts  \* bound: how often the process is started

ASSUME AccessLocksAssumption ==
    /\ Private \subseteq Addrs /\ Literals \subseteq Addrs /\ Allowed \subseteq Addrs
    /\ Announced \in [ASNs -> SUBSET Addrs]
    /\ {MaxAge, MaxClock, MaxStarts} \subseteq Nat

VARIABLES clock,
          calendar,  \* the calendar month
          starts,
          region,    \* VOETBAL_REGION_LOCK names a country
          literal,   \* VOETBAL_NETWORK_LOCK has literal entries
          asns,      \* and these ASN entries
          pc,        \* the stage the process is in, "down" when there is none
          todo,      \* the ASN entries still to be resolved
          prefixes,  \* the addresses in the prefixes collected so far
          locks,     \* the locks put up so far
          now,       \* ensureGeoDB: the month the refresh began in
          month,     \* which month's database is being downloaded
          disk,      \* the database in the data directory
          temp,      \* its temporary file
          answer     \* the last answer, and to whom

config == <<region, literal, asns>>
time == <<clock, calendar>>
memory == <<todo, prefixes, locks, now, month, answer>>
vars == <<time, starts, config, pc, memory, disk, temp>>

NoMonth == -2
NoFile == [whole |-> FALSE, mtime |-> -1, of |-> NoMonth]
NoAnswer == [to |-> "nobody", is |-> "none"]

Init ==
    /\ clock = 0
    /\ calendar = 0
    /\ starts = 0
    /\ region \in BOOLEAN
    /\ literal \in BOOLEAN
    /\ asns \in SUBSET ASNs
    /\ pc = "down"
    /\ todo = {} /\ prefixes = {} /\ locks = {}
    /\ now = NoMonth /\ month = "none"
    /\ answer = NoAnswer
    /\ disk = NoFile
    /\ temp = NoFile

-----------------------------------------------------------------------------
(* The process ends, killed or by log.Fatalf; its files stay. *)
Exit ==
    /\ pc' = "down"
    /\ todo' = {} /\ prefixes' = {} /\ locks' = {}
    /\ now' = NoMonth /\ month' = "none"
    /\ answer' = NoAnswer
    /\ UNCHANGED <<time, starts, config, disk>>

Down == Exit /\ UNCHANGED temp

Kill == pc # "down" /\ Down

(* main parses the configuration. *)
Start ==
    /\ pc = "down"
    /\ starts < MaxStarts
    /\ starts' = starts + 1
    /\ pc' = "network"
    /\ todo' = asns
    /\ prefixes' = IF literal THEN Literals ELSE {}
    /\ UNCHANGED <<time, config, locks, now, month, answer, disk, temp>>

(* fetchASNPrefixes, for one entry after the other. *)
ResolveASN ==
    /\ pc = "network"
    /\ \E a \in todo : todo' = todo \ {a} /\ prefixes' = prefixes \cup Announced[a]
    /\ UNCHANGED <<time, starts, config, pc, locks, now, month, answer, disk, temp>>

(* Faulty variant: an entry that cannot be resolved is left out. *)
SkipASN ==
    /\ pc = "network"
    /\ \E a \in todo : todo' = todo \ {a}
    /\ UNCHANGED <<time, starts, config, pc, prefixes, locks, now, month, answer, disk, temp>>

(* fetchASNPrefixes fails. *)
ResolveFails == pc = "network" /\ todo # {} /\ Down

(* The network lock is put up if it has any entry, even one that announces
   nothing; then it is the region lock's turn, if there is one. *)
PutNetworkLock ==
    /\ pc = "network"
    /\ todo = {}
    /\ locks' = IF literal \/ asns # {} THEN {"network"} ELSE {}
    /\ pc' = IF region THEN "region" ELSE "serving"
    /\ UNCHANGED <<time, starts, config, todo, prefixes, now, month, answer, disk, temp>>

(* Faulty variant: a database that is too old is removed first. *)
CheckGeoDBRemoving ==
    /\ pc = "region"
    /\ IF disk # NoFile /\ clock - disk.mtime < MaxAge
         THEN pc' = "open" /\ UNCHANGED <<now, month, disk>>
         ELSE pc' = "download" /\ now' = calendar /\ month' = "this" /\ disk' = NoFile
    /\ UNCHANGED <<time, starts, config, todo, prefixes, locks, answer, temp>>

(* ensureGeoDB: a database that is young enough is taken as it is. *)
CheckGeoDB ==
    /\ pc = "region"
    /\ IF disk # NoFile /\ clock - disk.mtime < MaxAge
         THEN pc' = "open" /\ UNCHANGED <<now, month>>
         ELSE pc' = "download" /\ now' = calendar /\ month' = "this"
    /\ UNCHANGED <<time, starts, config, todo, prefixes, locks, answer, disk, temp>>

(* Faulty variant: the month before is tried first. *)
WantedPreviousFirst == IF month = "previous" THEN {now} ELSE {now - 1, now}

(* The month that is asked for: this one, or the one before, which on a day that
   month does not have is this one once more (Time.AddDate). *)
Wanted == IF month = "this" THEN {now} ELSE {now - 1, now}

(* downloadGeoDB: upstream answers and the temporary file is created. *)
CreateTemp ==
    /\ pc = "download"
    /\ pc' = "copy"
    /\ \E of \in Wanted : temp' = [whole |-> FALSE, mtime |-> clock, of |-> of]
    /\ UNCHANGED <<time, starts, config, memory, disk>>

(* Faulty variant: the time stamp is that of the expiry. *)
CopyGeoDBExpiring ==
    /\ pc = "copy"
    /\ pc' = "rename"
    /\ temp' = [temp EXCEPT !.whole = TRUE, !.mtime = clock + MaxAge]
    /\ UNCHANGED <<time, starts, config, memory, disk>>

(* The whole database has been copied, its checksum included. *)
CopyGeoDB ==
    /\ pc = "copy"
    /\ pc' = "rename"
    /\ temp' = [temp EXCEPT !.whole = TRUE, !.mtime = clock]
    /\ UNCHANGED <<time, starts, config, memory, disk>>

RenameGeoDB ==
    /\ pc = "rename"
    /\ pc' = "open"
    /\ disk' = temp
    /\ temp' = NoFile
    /\ UNCHANGED <<time, starts, config, memory>>

(* What ensureGeoDB does when a download fails: it tries the month before,
   then keeps what it has, or gives up. *)
AfterFailure ==
    IF month = "this" THEN pc' = "download" /\ month' = "previous"
    ELSE pc' = "open" /\ disk # NoFile /\ UNCHANGED month

(* A download fails; a temporary file is removed, unless it cannot be renamed. *)
DownloadFails ==
    /\ pc \in {"download", "copy", "rename"}
    /\ temp' = IF pc = "copy" THEN NoFile ELSE temp
    /\ AfterFailure
    /\ UNCHANGED <<time, starts, config, todo, prefixes, locks, now, answer, disk>>

(* Both downloads fail and there is no database: log.Fatalf. *)
NoGeoDB ==
    /\ pc \in {"download", "copy", "rename"}
    /\ month = "previous"
    /\ disk = NoFile
    /\ temp' = IF pc = "copy" THEN NoFile ELSE temp
    /\ Exit

(* geoip2.Open *)
OpenGeoDB ==
    /\ pc = "open"
    /\ disk.whole
    /\ locks' = locks \cup {"region"}
    /\ pc' = "serving"
    /\ UNCHANGED <<time, starts, config, todo, prefixes, now, month, answer, disk, temp>>

OpenFails == pc = "open" /\ Down

-----------------------------------------------------------------------------
(* networkLock.allow and regionLock.allow. *)
NetworkAllows(a) == a \in Private \cup prefixes
RegionAllows(a) == a \in Private \cup Allowed

(* lockMiddleware: one lock that allows the request is enough.  Without any
   lock setupRequiredHandler answers. *)
Answer(a) ==
    CASE locks = {} -> "setup required"
      [] locks # {} -> IF \/ "network" \in locks /\ NetworkAllows(a)
                          \/ "region" \in locks /\ RegionAllows(a)
                         THEN "served" ELSE "forbidden"

Request(a) ==
    /\ pc = "serving"
    /\ answer' = [to |-> a, is |-> Answer(a)]
    /\ UNCHANGED <<time, starts, config, pc, todo, prefixes, locks, now, month, disk, temp>>

Tick ==
    /\ clock < MaxClock
    /\ clock' = clock + 1
    /\ calendar' \in {calendar, calendar + 1}
    /\ UNCHANGED <<starts, config, pc, memory, disk, temp>>

Next ==
    \/ Kill \/ Start
    \/ ResolveASN \/ ResolveFails \/ PutNetworkLock
    \/ CheckGeoDB \/ CreateTemp \/ CopyGeoDB \/ RenameGeoDB \/ DownloadFails \/ NoGeoDB
    \/ OpenGeoDB \/ OpenFails
    \/ \E a \in Addrs : Request(a)
    \/ Tick

Spec == Init /\ [][Next]_vars

-----------------------------------------------------------------------------
(* The type invariant. *)
TypeOK ==
    /\ clock \in 0 .. MaxClock /\ starts \in 0 .. MaxStarts
    /\ region \in BOOLEAN /\ literal \in BOOLEAN /\ asns \subseteq ASNs
    /\ pc \in {"down", "network", "region", "download", "copy", "rename", "open", "serving"}
    /\ todo \subseteq asns /\ prefixes \subseteq Addrs /\ locks \subseteq {"network", "region"}
    /\ calendar \in 0 .. clock
    /\ now \in 0 .. calendar \cup {NoMonth} /\ month \in {"none", "this", "previous"}
    /\ {disk, temp} \subseteq [whole : BOOLEAN, mtime : 0 .. clock, of : -1 .. calendar] \cup {NoFile}
    /\ answer = NoAnswer \/ answer.to \in Addrs

(* No request is answered behind a partial lock: whatever was killed or could
   not be fetched, an answer is the one the whole configuration asks for, and
   no configuration, however little it announces, opens the server. *)
AnswersFollowConfiguration ==
    answer # NoAnswer =>
        LET networks == (IF literal THEN Literals ELSE {}) \cup UNION {Announced[a] : a \in asns}
            byNetwork == (literal \/ asns # {}) /\ answer.to \in Private \cup networks
            byRegion == region /\ answer.to \in Private \cup Allowed
        IN  answer.is = IF ~literal /\ asns = {} /\ ~region THEN "setup required"
                        ELSE IF byNetwork \/ byRegion THEN "served" ELSE "forbidden"

(* A refresh never costs the database that is there, at whatever step of a
   download it fails or the process is killed: the database stays, or one that
   was downloaded later takes its place.  That one may be of an older month, but
   only of the month before, and only after this month's could not be downloaded
   (region.go:78-80).  What is there is complete, the first one too. *)
DatabaseKept ==
    [][/\ disk # NoFile =>
            /\ disk' # NoFile /\ disk'.mtime >= disk.mtime
            /\ disk'.of < disk.of => month = "previous" /\ disk'.of = disk.of - 1
       /\ disk' # NoFile => disk'.whole]_vars
=============================================================================
