------------------------- MODULE AccessLocksProofs -------------------------
(***************************************************************************)
(* Proofs about AccessLocks, for any addresses, any configuration and any  *)
(* number of starts: what the stages of a start have put together when the *)
(* process is in one of them, and what that means for the answers and for  *)
(* the database.                                                           *)
(***************************************************************************)
EXTENDS AccessLocks, TLAPS

(* The addresses the entries of VOETBAL_NETWORK_LOCK stand for. *)
Networks == (IF literal THEN Literals ELSE {}) \cup UNION {Announced[a] : a \in asns}

(* The network lock, if the configuration asks for one. *)
NetworkLock == IF literal \/ asns # {} THEN {"network"} ELSE {}

GeoDBStages == {"region", "download", "copy", "rename", "open"}

(* How far the locks have got in each stage. *)
LocksInv ==
    /\ pc \in {"down", "network"} => locks = {}
    /\ pc = "network" => prefixes \cup UNION {Announced[a] : a \in todo} = Networks
    /\ pc \in GeoDBStages => region /\ prefixes = Networks /\ locks = NetworkLock
    /\ pc = "serving" =>
           /\ prefixes = Networks
           /\ locks = NetworkLock \cup (IF region THEN {"region"} ELSE {})
    /\ answer # NoAnswer => pc = "serving"

(* How far the database has got: no month is tried but that of the refresh and,
   later, the one before; a temporary file that is about to be renamed is
   complete, and was written no earlier than the one it replaces. *)
FilesInv ==
    /\ disk # NoFile => disk.whole
    /\ pc \in {"download", "copy", "rename"} =>
           /\ now # NoMonth /\ month \in {"this", "previous"}
           /\ disk.of <= now
    /\ pc \in {"copy", "rename"} => temp # NoFile /\ temp.of \in Wanted
    /\ pc = "rename" => temp.whole /\ disk.mtime <= temp.mtime

IInv == TypeOK /\ LocksInv /\ FilesInv /\ AnswersFollowConfiguration

(* What the files are: complete or not, of no time and of no month to come. *)
LEMMA FileFacts ==
    ASSUME TypeOK
    PROVE  /\ clock \in Nat /\ calendar \in Nat
           /\ \A f \in {disk, temp} :
                /\ f.mtime \in Int /\ f.mtime <= clock /\ f.of \in Int /\ f.of <= calendar
                /\ f # NoFile => f \in [whole : BOOLEAN, mtime : 0 .. clock, of : -1 .. calendar]
           /\ NoFile.mtime = -1 /\ NoFile.of = NoMonth /\ NoMonth = -2
<1>1. clock \in Nat /\ calendar \in Nat
  BY AccessLocksAssumption DEF TypeOK
<1>2. NoFile.mtime = -1 /\ NoFile.of = NoMonth /\ NoMonth = -2
  BY DEF NoFile, NoMonth
<1>3. QED
  BY <1>1, <1>2 DEF TypeOK

(* No process has been started yet. *)
LEMMA InitInv == Init => IInv
<1> SUFFICES ASSUME Init PROVE IInv
  OBVIOUS
<1> USE AccessLocksAssumption DEF Init
<1>1. TypeOK
  BY DEF TypeOK, NoAnswer, NoFile
<1>2. LocksInv /\ FilesInv /\ AnswersFollowConfiguration
  BY DEF LocksInv, FilesInv, AnswersFollowConfiguration, GeoDBStages
<1>3. QED
  BY <1>1, <1>2 DEF IInv

(* The end of the process, at whatever stage: its memory goes, and only the
   temporary file may go with it. *)
LEMMA ExitInv == IInv /\ Exit /\ temp' \in {temp, NoFile} => IInv'
<1> SUFFICES ASSUME IInv, Exit, temp' \in {temp, NoFile} PROVE IInv'
  OBVIOUS
<1> USE AccessLocksAssumption DEF IInv, Exit, time, config
<1>1. TypeOK'
  BY DEF TypeOK
<1>2. LocksInv' /\ FilesInv' /\ AnswersFollowConfiguration'
  BY DEF LocksInv, FilesInv, AnswersFollowConfiguration, GeoDBStages
<1>3. QED
  BY <1>1, <1>2

(* A start: nothing is resolved, and no lock is up. *)
LEMMA StartInv == IInv /\ Start => IInv'
<1> SUFFICES ASSUME IInv, Start PROVE IInv'
  OBVIOUS
<1> USE AccessLocksAssumption DEF IInv, Start, time, config
<1>1. TypeOK'
  BY DEF TypeOK
<1>2. answer = NoAnswer
  BY DEF LocksInv
<1>3. prefixes' \cup UNION {Announced[a] : a \in todo'} = Networks'
  BY DEF Networks
<1>4. LocksInv'
  BY <1>2, <1>3 DEF LocksInv, GeoDBStages
<1>5. FilesInv' /\ AnswersFollowConfiguration'
  BY <1>2 DEF FilesInv, AnswersFollowConfiguration
<1>6. QED
  BY <1>1, <1>4, <1>5

(* An entry is resolved: what it announces moves from one side to the other. *)
LEMMA ResolveASNInv == IInv /\ ResolveASN => IInv'
<1> SUFFICES ASSUME IInv, ResolveASN PROVE IInv'
  OBVIOUS
<1> USE AccessLocksAssumption DEF IInv, ResolveASN, time, config
<1>1. PICK a \in todo : todo' = todo \ {a} /\ prefixes' = prefixes \cup Announced[a]
  OBVIOUS
<1>2. a \in ASNs /\ Announced[a] \subseteq Addrs
  BY DEF TypeOK
<1>3. TypeOK'
  BY <1>1, <1>2 DEF TypeOK
<1>4. answer = NoAnswer
  BY DEF LocksInv
<1>5. prefixes' \cup UNION {Announced[b] : b \in todo'} = Networks'
  <2>1. UNION {Announced[b] : b \in todo} = Announced[a] \cup UNION {Announced[b] : b \in todo \ {a}}
    OBVIOUS
  <2>2. prefixes \cup UNION {Announced[b] : b \in todo} = Networks /\ Networks' = Networks
    BY DEF LocksInv, Networks
  <2>3. QED
    BY <1>1, <2>1, <2>2
<1>6. LocksInv'
  BY <1>4, <1>5 DEF LocksInv, GeoDBStages
<1>7. FilesInv' /\ AnswersFollowConfiguration'
  BY <1>4 DEF FilesInv, AnswersFollowConfiguration
<1>8. QED
  BY <1>3, <1>6, <1>7

(* The network lock is put up over everything its entries stand for. *)
LEMMA PutNetworkLockInv == IInv /\ PutNetworkLock => IInv'
<1> SUFFICES ASSUME IInv, PutNetworkLock PROVE IInv'
  OBVIOUS
<1> USE AccessLocksAssumption DEF IInv, PutNetworkLock, time, config
<1>1. TypeOK'
  BY DEF TypeOK
<1>2. answer = NoAnswer
  BY DEF LocksInv
<1>3. prefixes' = Networks' /\ locks' = NetworkLock'
  <2>1. prefixes \cup UNION {Announced[a] : a \in todo} = Networks /\ Networks' = Networks
    BY DEF LocksInv, Networks
  <2>2. UNION {Announced[a] : a \in todo} = {}
    OBVIOUS
  <2>3. QED
    BY <2>1, <2>2 DEF NetworkLock
<1>4. LocksInv'
  BY <1>2, <1>3 DEF LocksInv, GeoDBStages
<1>5. FilesInv' /\ AnswersFollowConfiguration'
  BY <1>2 DEF FilesInv, AnswersFollowConfiguration
<1>6. QED
  BY <1>1, <1>4, <1>5

(* The stages of the geo database leave the network lock alone. *)
LEMMA GeoDBLocks ==
    /\ LocksInv /\ pc \in GeoDBStages
    /\ pc' \in GeoDBStages
    /\ UNCHANGED <<config, prefixes, locks, answer>>
    => LocksInv'
BY DEF LocksInv, GeoDBStages, Networks, NetworkLock, config

(* So do its answers, of which there are none yet. *)
LEMMA GeoDBAnswers ==
    LocksInv /\ pc \in GeoDBStages /\ answer' = answer => AnswersFollowConfiguration'
BY DEF LocksInv, GeoDBStages, AnswersFollowConfiguration

(* What each stage of the database does to the files. *)
LEMMA GeoDBInv ==
    IInv /\ (CheckGeoDB \/ CreateTemp \/ CopyGeoDB \/ RenameGeoDB \/ DownloadFails) => IInv'
<1> SUFFICES ASSUME IInv, CheckGeoDB \/ CreateTemp \/ CopyGeoDB \/ RenameGeoDB \/ DownloadFails
             PROVE  IInv'
  OBVIOUS
<1> USE AccessLocksAssumption DEF IInv, time, config, memory
<1>1. /\ pc \in GeoDBStages /\ pc' \in GeoDBStages
      /\ UNCHANGED <<config, prefixes, locks, answer>>
  BY DEF CheckGeoDB, CreateTemp, CopyGeoDB, RenameGeoDB, DownloadFails, AfterFailure, GeoDBStages
<1>2. LocksInv' /\ AnswersFollowConfiguration'
  BY <1>1, GeoDBLocks, GeoDBAnswers
<1>3. TypeOK' /\ FilesInv'
  <2>1. CASE CheckGeoDB
    <3>1. TypeOK'
      BY <2>1 DEF CheckGeoDB, TypeOK
    <3>2. disk.of <= calendar /\ calendar # NoMonth
      BY FileFacts
    <3>3. FilesInv'
      BY <2>1, <3>2 DEF CheckGeoDB, FilesInv
    <3>4. QED
      BY <3>1, <3>3
  <2>2. CASE CreateTemp
    <3>1. PICK of \in Wanted : temp' = [whole |-> FALSE, mtime |-> clock, of |-> of]
      BY <2>2 DEF CreateTemp
    <3>2. now \in 0 .. calendar /\ of \in -1 .. calendar
      BY <2>2, <3>1, FileFacts DEF CreateTemp, FilesInv, TypeOK, Wanted
    <3>3. temp' \in [whole : BOOLEAN, mtime : 0 .. clock, of : -1 .. calendar] /\ temp'.of = of
      BY <3>1, <3>2, FileFacts
    <3>4. TypeOK'
      BY <2>2, <3>3 DEF CreateTemp, TypeOK
    <3>5. temp' # NoFile
      BY <3>1, <3>2, FileFacts
    <3>6. Wanted' = Wanted
      BY <2>2 DEF CreateTemp, Wanted
    <3>7. FilesInv'
      BY <2>2, <3>1, <3>3, <3>5, <3>6 DEF CreateTemp, FilesInv
    <3>8. QED
      BY <3>4, <3>7
  <2>3. CASE CopyGeoDB
    <3>1. PICK f : f = temp
      OBVIOUS
    <3>2. f # NoFile /\ f \in [whole : BOOLEAN, mtime : 0 .. clock, of : -1 .. calendar]
      BY <2>3, <3>1, FileFacts DEF CopyGeoDB, FilesInv
    <3>3. temp' = [whole |-> TRUE, mtime |-> clock, of |-> f.of]
      BY <2>3, <3>1, <3>2 DEF CopyGeoDB
    <3>4. temp' \in [whole : BOOLEAN, mtime : 0 .. clock, of : -1 .. calendar] /\ temp'.of = f.of
      BY <3>2, <3>3, FileFacts
    <3>5. TypeOK'
      BY <2>3, <3>4 DEF CopyGeoDB, TypeOK
    <3>6. Wanted' = Wanted /\ temp' # NoFile
      <4>1. Wanted' = Wanted
        BY <2>3 DEF CopyGeoDB, Wanted
      <4>2. temp'.mtime = clock /\ clock # NoFile.mtime
        BY <3>3, FileFacts
      <4>3. QED
        BY <4>1, <4>2
    <3>7. disk.mtime <= temp'.mtime /\ temp'.whole
      BY <3>3, FileFacts
    <3>8. FilesInv'
      BY <2>3, <3>1, <3>4, <3>6, <3>7 DEF CopyGeoDB, FilesInv
    <3>9. QED
      BY <3>5, <3>8
  <2>4. CASE RenameGeoDB
    BY <2>4 DEF RenameGeoDB, TypeOK, FilesInv
  <2>5. CASE DownloadFails
    BY <2>5 DEF DownloadFails, AfterFailure, TypeOK, FilesInv
  <2>6. QED
    BY <2>1, <2>2, <2>3, <2>4, <2>5
<1>4. QED
  BY <1>2, <1>3

(* The region lock joins the network lock. *)
LEMMA OpenGeoDBInv == IInv /\ OpenGeoDB => IInv'
<1> SUFFICES ASSUME IInv, OpenGeoDB PROVE IInv'
  OBVIOUS
<1> USE DEF IInv, OpenGeoDB, time, config
<1>1. TypeOK'
  BY DEF TypeOK
<1>2. LocksInv'
  BY DEF LocksInv, GeoDBStages, Networks, NetworkLock
<1>3. FilesInv'
  BY DEF FilesInv
<1>4. AnswersFollowConfiguration'
  BY DEF LocksInv, GeoDBStages, AnswersFollowConfiguration
<1>5. QED
  BY <1>1, <1>2, <1>3, <1>4

(* A request is answered by all the locks there should be. *)
LEMMA RequestInv == ASSUME NEW a \in Addrs PROVE IInv /\ Request(a) => IInv'
<1> SUFFICES ASSUME IInv, Request(a) PROVE IInv'
  OBVIOUS
<1> USE AccessLocksAssumption DEF IInv, Request, time, config
<1>1. TypeOK'
  BY DEF TypeOK
<1>2. LocksInv' /\ FilesInv'
  BY DEF LocksInv, FilesInv, GeoDBStages, Networks, NetworkLock
<1>3. AnswersFollowConfiguration'
  <2>1. prefixes = Networks /\ locks = NetworkLock \cup (IF region THEN {"region"} ELSE {})
    BY DEF LocksInv
  <2>2. "network" \in locks <=> literal \/ asns # {}
    BY <2>1 DEF NetworkLock
  <2>3. "region" \in locks <=> region
    BY <2>1 DEF NetworkLock
  <2>4. locks = {} <=> ~literal /\ asns = {} /\ ~region
    BY <2>1 DEF NetworkLock
  <2>5. Answer(a) = IF ~literal /\ asns = {} /\ ~region THEN "setup required"
                    ELSE IF \/ (literal \/ asns # {}) /\ a \in Private \cup Networks
                            \/ region /\ a \in Private \cup Allowed
                           THEN "served" ELSE "forbidden"
    BY <2>1, <2>2, <2>3, <2>4 DEF Answer, NetworkAllows, RegionAllows
  <2>6. QED
    BY <2>5 DEF AnswersFollowConfiguration, Networks
<1>4. QED
  BY <1>1, <1>2, <1>3

(* Time passes. *)
LEMMA TickInv == IInv /\ Tick => IInv'
<1> SUFFICES ASSUME IInv, Tick PROVE IInv'
  OBVIOUS
<1> USE AccessLocksAssumption DEF IInv, Tick, time, config, memory
<1>1. TypeOK'
  BY DEF TypeOK
<1>2. LocksInv' /\ FilesInv'
  <2>1. LocksInv'
    BY DEF LocksInv, Networks, NetworkLock
  <2>2. Wanted' = Wanted
    BY DEF Wanted
  <2>3. FilesInv'
    BY <2>2 DEF FilesInv
  <2>4. QED
    BY <2>1, <2>3
<1>3. AnswersFollowConfiguration'
  BY DEF AnswersFollowConfiguration
<1>4. QED
  BY <1>1, <1>2, <1>3

(* Every step keeps the inductive invariant. *)
LEMMA StepInv == IInv /\ [Next]_vars => IInv'
<1> SUFFICES ASSUME IInv, [Next]_vars PROVE IInv'
  OBVIOUS
<1>1. CASE Kill \/ ResolveFails \/ NoGeoDB \/ OpenFails
  BY <1>1, ExitInv DEF Kill, ResolveFails, NoGeoDB, OpenFails, Down
<1>2. CASE Start \/ ResolveASN \/ PutNetworkLock
  BY <1>2, StartInv, ResolveASNInv, PutNetworkLockInv
<1>3. CASE CheckGeoDB \/ CreateTemp \/ CopyGeoDB \/ RenameGeoDB \/ DownloadFails
  BY <1>3, GeoDBInv
<1>4. CASE OpenGeoDB \/ Tick
  BY <1>4, OpenGeoDBInv, TickInv
<1>5. CASE \E a \in Addrs : Request(a)
  BY <1>5, RequestInv
<1>6. CASE UNCHANGED vars
  <2>1. TypeOK' /\ FilesInv'
    BY <1>6 DEF IInv, TypeOK, FilesInv, Wanted, vars, time, config, memory
  <2>2. LocksInv' /\ AnswersFollowConfiguration'
    BY <1>6 DEF IInv, LocksInv, AnswersFollowConfiguration, Networks, NetworkLock,
                vars, time, config, memory
  <2>3. QED
    BY <2>1, <2>2 DEF IInv
<1>7. QED
  BY <1>1, <1>2, <1>3, <1>4, <1>5, <1>6 DEF Next

(* The inductive invariant holds in every state, whatever is killed or fails. *)
THEOREM Invariance == Spec => []IInv
BY InitInv, StepInv, PTL DEF Spec

(* Every state is of its type: what a start has resolved belongs to its
   configuration, and no file is from the future. *)
THEOREM Typed == Spec => []TypeOK
<1>1. IInv => TypeOK
  BY DEF IInv
<1>2. QED
  BY Invariance, <1>1, PTL

(* lockMiddleware (network.go): no request is ever answered behind a part of
   the locks, whatever was killed, and however often, on the way to them. *)
THEOREM AnswersAreComplete == Spec => []AnswersFollowConfiguration
<1>1. IInv => AnswersFollowConfiguration
  BY DEF IInv
<1>2. QED
  BY Invariance, <1>1, PTL

(* ensureGeoDB (region.go): no refresh of the database ever costs the one that
   is there, nor puts an incomplete one in its place, nor one of an older month
   but that of the month before, where this month's cannot be downloaded. *)
THEOREM RefreshesAreSafe == Spec => DatabaseKept
<1>1. ASSUME IInv, [Next]_vars
      PROVE  [/\ disk # NoFile =>
                   /\ disk' # NoFile /\ disk'.mtime >= disk.mtime
                   /\ disk'.of < disk.of => month = "previous" /\ disk'.of = disk.of - 1
              /\ disk' # NoFile => disk'.whole]_vars
  <2>1. disk' = disk \/ RenameGeoDB
    BY <1>1 DEF Next, vars, time, config, memory, Kill, Down, Exit, Start, ResolveASN, ResolveFails,
                PutNetworkLock, CheckGeoDB, CreateTemp, CopyGeoDB, DownloadFails, NoGeoDB,
                OpenGeoDB, OpenFails, Request, Tick
  <2>2. CASE disk' = disk
    <3>1. disk.mtime \in Int /\ disk.of \in Int
      BY <1>1, FileFacts DEF IInv
    <3>2. QED
      BY <1>1, <2>2, <3>1 DEF IInv, FilesInv
  <2>3. CASE RenameGeoDB
    <3>1. /\ pc = "rename" /\ disk' = temp /\ temp # NoFile /\ temp.whole
          /\ disk.mtime <= temp.mtime /\ temp.of \in Wanted /\ disk.of <= now
          /\ now # NoMonth /\ month \in {"this", "previous"}
      BY <1>1, <2>3 DEF IInv, FilesInv, RenameGeoDB
    <3>2. now \in Int /\ {disk.mtime, temp.mtime, disk.of, temp.of} \subseteq Int
      BY <1>1, <3>1, FileFacts DEF IInv, TypeOK
    <3>3. ASSUME disk'.of < disk.of PROVE month = "previous" /\ disk'.of = disk.of - 1
      BY <3>1, <3>2, <3>3 DEF Wanted
    <3>4. QED
      BY <3>1, <3>2, <3>3
  <2>4. QED
    BY <2>1, <2>2, <2>3
<1>2. QED
  BY Invariance, <1>1, PTL DEF Spec, DatabaseKept
=============================================================================
