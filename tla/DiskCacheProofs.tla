-------------------------- MODULE DiskCacheProofs --------------------------
(***************************************************************************)
(* Proofs about DiskCache, for any segments of any sizes, any number of    *)
(* puts at a time, any limits and any number of crashes.  The index and    *)
(* the files are finite in every state; there may be infinitely many keys. *)
(***************************************************************************)
EXTENDS DiskCache, FiniteSetTheorems, WellFoundedInduction, TLAPS

(* A set of natural numbers that is not empty has a least element. *)
LEMMA LeastNatural ==
    ASSUME NEW S \in SUBSET Nat, S # {}
    PROVE  \E n \in S : \A m \in S : n <= m
<1>1. PICK n \in S : \A m \in S : ~(<<m, n>> \in OpToRel(<, Nat))
  BY WFMin, NatLessThanWellFounded
<1>2. \A m \in S : <<m, n>> \in OpToRel(<, Nat) <=> m < n
  BY DEF OpToRel
<1>3. \A m \in S : ~(m < n)
  BY <1>1, <1>2
<1>4. QED
  BY <1>3

(* Induction: what holds 0 and every successor of what it holds holds every
   natural number. *)
LEMMA NaturalsBySuccessor ==
    ASSUME NEW S, 0 \in S, \A n \in Nat : n \in S => n + 1 \in S
    PROVE  \A n \in Nat : n \in S
<1> SUFFICES ASSUME Nat \ S # {} PROVE FALSE
  OBVIOUS
<1>1. PICK n \in Nat \ S : \A m \in Nat \ S : n <= m
  BY LeastNatural
<1>2. n - 1 \in Nat /\ n - 1 \notin Nat \ S
  BY <1>1
<1>3. QED
  BY <1>1, <1>2

(* Induction on finite sets: if any subset of S is bad, then one is that is not
   bad any more when it loses an element, whichever. *)
LEMMA SmallestSubset ==
    ASSUME NEW S, IsFiniteSet(S), NEW Bad, Bad \subseteq SUBSET S, Bad # {}
    PROVE  \E s \in Bad : IsFiniteSet(s) /\ \A x \in s : s \ {x} \notin Bad
<1> DEFINE P == SUBSET S
           Sizes == {n \in Nat : \E s \in Bad : Cardinality(s) = n}
<1>1. ASSUME NEW s \in P
      PROVE  /\ IsFiniteSet(s)
             /\ Cardinality(s) \in Nat
             /\ \A x \in s : s \ {x} \in P /\ Cardinality(s \ {x}) = Cardinality(s) - 1
  BY FS_Subset, FS_CardinalityType, FS_RemoveElement
<1>2. Bad \subseteq P
  OBVIOUS
<1> HIDE DEF P
<1>3. Sizes # {}
  BY <1>1, <1>2
<1>4. PICK n \in Sizes : \A m \in Sizes : n <= m
  BY <1>3, LeastNatural
<1>5. PICK s \in Bad : Cardinality(s) = n
  BY <1>4
<1>6. ASSUME NEW x \in s, s \ {x} \in Bad PROVE FALSE
  BY <1>1, <1>2, <1>4, <1>5, <1>6
<1>7. QED
  BY <1>1, <1>2, <1>5, <1>6

(* One step of the recursion behind Bytes: g sums the rest. *)
BytesStep(g, s) == IF s = {} THEN 0 ELSE LET x == CHOOSE x \in s : TRUE IN Size[x] + g[s \ {x}]

(* The recursion has a solution: one for the sets of at most n + 1 elements is
   made from one for those of at most n. *)
LEMMA BytesExists ==
    ASSUME NEW S, IsFiniteSet(S)
    PROVE  \E g : g = [s \in SUBSET S |-> BytesStep(g, s)]
<1> DEFINE P == SUBSET S
           Upto(n) == {s \in P : Cardinality(s) <= n}
           Summed(g, n) == g = [s \in Upto(n) |-> BytesStep(g, s)]
           N == {n \in Nat : \E g : Summed(g, n)}
<1>1. ASSUME NEW s \in P
      PROVE  /\ Cardinality(s) \in Nat
             /\ Cardinality(s) <= Cardinality(S)
             /\ Cardinality(s) = 0 => s = {}
             /\ \A x \in s : s \ {x} \in P /\ Cardinality(s \ {x}) = Cardinality(s) - 1
  BY FS_Subset, FS_CardinalityType, FS_RemoveElement, FS_EmptySet
<1> HIDE DEF P
<1>2. 0 \in N
  <2> DEFINE g == [s \in Upto(0) |-> 0]
  <2>1. ASSUME NEW s \in Upto(0) PROVE s = {}
    BY <1>1
  <2>2. g = [s \in Upto(0) |-> BytesStep(g, s)]
    BY <2>1, Zenon DEF BytesStep
  <2>3. QED
    BY <2>2
<1>3. ASSUME NEW n \in Nat, n \in N PROVE n + 1 \in N
  <2>1. PICK g : Summed(g, n)
    BY <1>3
  <2> DEFINE h == [s \in Upto(n + 1) |-> BytesStep(g, s)]
  <2>2. ASSUME NEW s \in Upto(n + 1) PROVE BytesStep(h, s) = BytesStep(g, s)
    <3>1. CASE s = {}
      BY <3>1 DEF BytesStep
    <3>2. CASE s # {}
      <4> DEFINE x == CHOOSE x \in s : TRUE
      <4>1. x \in s
        BY <3>2
      <4> HIDE DEF x
      <4>2. s \ {x} \in Upto(n) /\ s \ {x} \in Upto(n + 1)
        BY <1>1, <4>1
      <4>3. g[s \ {x}] = BytesStep(g, s \ {x})
        BY <2>1, <4>2
      <4>4. h[s \ {x}] = BytesStep(g, s \ {x})
        BY <4>2
      <4>5. h[s \ {x}] = g[s \ {x}]
        BY <4>3, <4>4
      <4>6. QED
        BY <3>2, <4>5 DEF BytesStep, x
    <3>3. QED
      BY <3>1, <3>2
  <2>3. Summed(h, n + 1)
    BY <2>2, Zenon
  <2>4. \E k : Summed(k, n + 1)
    <3> HIDE DEF Summed
    <3>1. QED
      BY <2>3, Zenon
  <2>5. QED
    BY <2>4
<1>4. Cardinality(S) \in N
  <2> HIDE DEF N
  <2>1. QED
    BY <1>2, <1>3, NaturalsBySuccessor, FS_CardinalityType
<1>5. Upto(Cardinality(S)) = P
  BY <1>1
<1>6. QED
  <2>1. PICK g : Summed(g, Cardinality(S))
    BY <1>4
  <2>2. g = [s \in P |-> BytesStep(g, s)]
    BY <2>1, <1>5
  <2>3. QED
    BY <2>2 DEF P

(* The solution that Bytes takes. *)
BytesFcn(S) == CHOOSE g : g = [s \in SUBSET S |-> BytesStep(g, s)]

(* Bytes in terms of it. *)
LEMMA BytesUnfold ==
    ASSUME NEW S
    PROVE  Bytes(S) = BytesFcn(S)[S]
BY DEF Bytes, SumFunctionOnSet, FoldFunctionOnSet, MapThenFoldSet, BytesStep, BytesFcn

(* It satisfies the recursion. *)
LEMMA BytesFcnStep ==
    ASSUME NEW S, IsFiniteSet(S)
    PROVE  \A s \in SUBSET S : BytesFcn(S)[s] = BytesStep(BytesFcn(S), s)
<1> DEFINE D(g) == g = [s \in SUBSET S |-> BytesStep(g, s)]
<1>1. \E g : D(g)
  BY BytesExists
<1>2. D(BytesFcn(S))
  <2> SUFFICES D(CHOOSE g : D(g))
    BY DEF BytesFcn
  <2> HIDE DEF D
  <2>1. QED
    BY <1>1
<1>3. QED
  BY <1>2

(* The sum of a set does not depend on which set the recursion began with. *)
LEMMA BytesAgree ==
    ASSUME NEW S, IsFiniteSet(S), NEW T, T \subseteq S
    PROVE  \A s \in SUBSET T : BytesFcn(S)[s] = BytesFcn(T)[s]
<1> DEFINE g1 == BytesFcn(S)
           g2 == BytesFcn(T)
           Bad == {s \in SUBSET T : g1[s] # g2[s]}
<1>1. IsFiniteSet(T)
  BY FS_Subset
<1>2. \A s \in SUBSET T : g1[s] = BytesStep(g1, s) /\ g2[s] = BytesStep(g2, s)
  BY <1>1, BytesFcnStep
<1> SUFFICES ASSUME Bad # {} PROVE FALSE
  OBVIOUS
<1> HIDE DEF g1, g2
<1>3. PICK s \in Bad : \A x \in s : s \ {x} \notin Bad
  BY <1>1, SmallestSubset
<1>4. s # {}
  BY <1>2 DEF BytesStep
<1> DEFINE x == CHOOSE x \in s : TRUE
<1>5. x \in s
  BY <1>4
<1>6. BytesStep(g1, s) = Size[x] + g1[s \ {x}] /\ BytesStep(g2, s) = Size[x] + g2[s \ {x}]
  BY <1>4 DEF BytesStep
<1> HIDE DEF x
<1>7. g1[s \ {x}] = g2[s \ {x}]
  BY <1>3, <1>5
<1>8. QED
  BY <1>2, <1>6, <1>7

(* No files have no bytes. *)
LEMMA BytesEmpty == Bytes({}) = 0
<1>1. BytesFcn({})[{}] = BytesStep(BytesFcn({}), {})
  BY BytesFcnStep, FS_EmptySet
<1>2. QED
  BY <1>1, BytesUnfold DEF BytesStep

(* They are those of some file and the rest, *)
LEMMA BytesChoose ==
    ASSUME NEW S, IsFiniteSet(S), S # {}
    PROVE  \E x \in S : Bytes(S) = Size[x] + Bytes(S \ {x})
<1> DEFINE x == CHOOSE x \in S : TRUE
<1>1. x \in S
  OBVIOUS
<1>2. BytesFcn(S)[S] = Size[x] + BytesFcn(S)[S \ {x}]
  BY BytesFcnStep DEF BytesStep
<1> HIDE DEF x
<1>3. BytesFcn(S)[S \ {x}] = BytesFcn(S \ {x})[S \ {x}]
  BY BytesAgree
<1>4. QED
  BY <1>1, <1>2, <1>3, BytesUnfold

(* The bytes of some files are a number. *)
LEMMA BytesNatural ==
    ASSUME NEW S, IsFiniteSet(S), S \subseteq Keys
    PROVE  Bytes(S) \in Nat
<1> DEFINE Bad == {s \in SUBSET S : Bytes(s) \notin Nat}
<1> SUFFICES ASSUME Bad # {} PROVE FALSE
  OBVIOUS
<1>1. PICK s \in Bad : IsFiniteSet(s) /\ \A x \in s : s \ {x} \notin Bad
  BY SmallestSubset
<1>2. s # {}
  BY BytesEmpty
<1>3. PICK x \in s : Bytes(s) = Size[x] + Bytes(s \ {x})
  BY <1>1, <1>2, BytesChoose
<1>4. Size[x] \in Nat /\ Bytes(s \ {x}) \in Nat
  BY <1>1, DiskCacheAssumption
<1>5. QED
  BY <1>3, <1>4

(* and so of any file and the rest, *)
LEMMA BytesRemove ==
    ASSUME NEW S, IsFiniteSet(S), S \subseteq Keys, NEW y \in S
    PROVE  Bytes(S) = Size[y] + Bytes(S \ {y})
<1> DEFINE Total(s) == Bytes(s)
           Bad == {s \in SUBSET S : \E x \in s : Total(s) # Size[x] + Total(s \ {x})}
<1> SUFFICES ASSUME Bad # {} PROVE FALSE
  OBVIOUS
<1>1. PICK s \in Bad : IsFiniteSet(s) /\ \A x \in s : s \ {x} \notin Bad
  BY SmallestSubset
<1>2. PICK a \in s : Total(s) # Size[a] + Total(s \ {a})
  OBVIOUS
<1>3. PICK b \in s : Total(s) = Size[b] + Total(s \ {b})
  BY <1>1, BytesChoose
<1>4. a # b
  BY <1>2, <1>3
<1>5. Total(s \ {b}) = Size[a] + Total((s \ {b}) \ {a})
  BY <1>1, <1>4
<1>6. Total(s \ {a}) = Size[b] + Total((s \ {a}) \ {b})
  BY <1>1, <1>4
<1>7. (s \ {a}) \ {b} = (s \ {b}) \ {a}
  OBVIOUS
<1>8. Total((s \ {b}) \ {a}) \in Nat
  BY <1>1, FS_RemoveElement, BytesNatural
<1>9. Size[a] \in Nat /\ Size[b] \in Nat
  BY DiskCacheAssumption
<1> HIDE DEF Total
<1>10. QED
  BY <1>2, <1>3, <1>5, <1>6, <1>7, <1>8, <1>9

(* and fewer files have no more. *)
LEMMA BytesMonotone ==
    ASSUME NEW S, IsFiniteSet(S), S \subseteq Keys, NEW T, T \subseteq S
    PROVE  Bytes(T) <= Bytes(S)
<1> DEFINE Total(s) == Bytes(s)
           Bad == {s \in SUBSET S : T \subseteq s /\ ~(Total(T) <= Total(s))}
<1> SUFFICES ASSUME Bad # {} PROVE FALSE
  OBVIOUS
<1>1. PICK s \in Bad : IsFiniteSet(s) /\ \A x \in s : s \ {x} \notin Bad
  <2>1. Bad \subseteq SUBSET S /\ Bad # {}
    OBVIOUS
  <2> HIDE DEF Bad
  <2>2. QED
    BY <2>1, SmallestSubset
<1>2. Total(T) \in Nat
  BY FS_Subset, BytesNatural
<1>3. PICK y \in s : y \notin T
  <2>1. s # T
    <3>1. Total(T) <= Total(T)
      BY <1>2
    <3>2. QED
      BY <3>1, Zenon
  <2>2. QED
    BY <2>1
<1>4. Total(s) = Size[y] + Total(s \ {y})
  BY <1>1, BytesRemove
<1>5. Total(T) <= Total(s \ {y})
  BY <1>1, <1>3
<1>6. Size[y] \in Nat /\ Total(s \ {y}) \in Nat
  BY <1>1, FS_RemoveElement, BytesNatural, DiskCacheAssumption
<1>7. ~(Total(T) <= Total(s))
  OBVIOUS
<1> HIDE DEF Total
<1>8. QED
  BY <1>2, <1>4, <1>5, <1>6, <1>7

-----------------------------------------------------------------------------

(* A put in a state it may be in: what it has written is not from the future. *)
Consistent(q) ==
    \/ q = Idle
    \/ q \in [pc : {"writing", "renamed"}, key : Keys, now : 0 .. clock]
    \/ q \in [pc : {"written"}, key : Keys, now : 0 .. clock, mtime : 0 .. clock]

PutterInv ==
    /\ putter = [p \in Putters |-> putter[p]]
    /\ \A p \in Putters : Consistent(putter[p])

DownInv == ~up => Indexed(index) = {} /\ \A p \in Putters : putter[p] = Idle

FiniteInv == IsFiniteSet(Indexed(index)) /\ IsFiniteSet(OnDisk)

(* Where the file of a key may be missing, or be put twice, the key has been
   put while it was cached or being put already. *)
ReplacedInv ==
    \A k \in Keys \ replaced :
        /\ \A p, q \in Indexing(k) : p = q
        /\ Indexing(k) # {} => k \in OnDisk /\ k \notin Indexed(index)

IInv ==
    /\ TypeOK /\ PutterInv /\ DownInv /\ FiniteInv
    /\ WholeFilesOnly /\ NoOrphans /\ ReplacedInv /\ GhostsExplained
    /\ IndexWithinLimit

-----------------------------------------------------------------------------
(* What pruneLocked may remove: entries of the index, all that have expired
   among them, and enough; what it takes beside them is older than what stays,
   and its youngest did not fit. *)
LEMMA VictimsProperties ==
    ASSUME NEW idx, NEW now, NEW S \in Victims(idx, now)
    PROVE  /\ S \subseteq Indexed(idx)
           /\ Bytes(Indexed(idx) \ S) <= MaxBytes
           /\ \A k \in S \ Expired(idx, now) :
                /\ \A j \in Indexed(idx) \ S : idx[k] <= idx[j]
                /\ \E j \in S : /\ j = k \/ idx[k] <= idx[j]
                                /\ ~(Bytes((Indexed(idx) \ S) \cup {j}) <= MaxBytes)
<1> DEFINE fresh == Indexed(idx) \ Expired(idx, now)
           OldestFirst(T) == \A k \in T, j \in fresh \ T : idx[k] <= idx[j]
           Enough(T) == Bytes(fresh \ T) <= MaxBytes
           NoMore(T) == T = {} \/ \E k \in T : OldestFirst(T \ {k}) /\ ~Enough(T \ {k})
<1>1. PICK T \in SUBSET fresh :
        S = Expired(idx, now) \cup T /\ OldestFirst(T) /\ Enough(T) /\ NoMore(T)
  BY DEF Victims
<1>2. Expired(idx, now) \subseteq Indexed(idx)
  BY DEF Expired
<1>3. Indexed(idx) \ S = fresh \ T /\ S \ Expired(idx, now) = T
  BY <1>1, <1>2
<1>4. ASSUME NEW k \in T
      PROVE  \E j \in T : /\ j = k \/ idx[k] <= idx[j]
                          /\ ~(Bytes((fresh \ T) \cup {j}) <= MaxBytes)
  <2>1. PICK j \in T : OldestFirst(T \ {j}) /\ ~Enough(T \ {j})
    BY <1>1, <1>4
  <2>2. fresh \ (T \ {j}) = (fresh \ T) \cup {j}
    BY <1>1
  <2>3. j = k \/ idx[k] <= idx[j]
    BY <1>1, <2>1
  <2>4. QED
    BY <2>1, <2>2, <2>3
<1>5. QED
  BY <1>1, <1>2, <1>3, <1>4

(* What is indexed and on disk once S is removed. *)
LEMMA WithoutProperties ==
    ASSUME NEW S, NEW idx, NEW files, Without(S, idx, files)
    PROVE  /\ Indexed(index)' = Indexed(idx) \ S
           /\ \A k \in Keys \ S : index'[k] = idx[k] /\ disk'[k] = files[k]
           /\ \A k \in Keys \cap S : index'[k] = Absent /\ disk'[k] = NoFile
           /\ (OnDisk)' = {k \in Keys : files[k] # NoFile} \ S
BY DEF Without, Indexed, OnDisk

(* Every entry of the index is that of a key, with the time it was fetched. *)
LEMMA IndexType ==
    ASSUME TypeOK
    PROVE  /\ clock \in Nat /\ clock <= MaxClock
           /\ index \in [Keys -> {Absent} \cup 0 .. clock]
           /\ \A k \in Indexed(index) : index[k] \in 0 .. clock
           /\ disk \in [Keys -> {NoFile} \cup [whole : BOOLEAN, mtime : 0 .. clock]]
BY DiskCacheAssumption DEF TypeOK, Indexed

(* Nothing is cached yet. *)
LEMMA InitInv == Init => IInv
<1> SUFFICES ASSUME Init PROVE IInv
  OBVIOUS
<1> USE DiskCacheAssumption DEF Init
<1>1. Indexed(index) = {} /\ OnDisk = {} /\ \A k \in Keys : Indexing(k) = {}
  BY DEF Indexed, OnDisk, Indexing, Idle
<1>2. TypeOK
  <2>1. clock \in 0 .. MaxClock
    OBVIOUS
  <2>2. index \in [Keys -> {Absent} \cup 0 .. clock]
    OBVIOUS
  <2>3. disk \in [Keys -> {NoFile} \cup [whole : BOOLEAN, mtime : 0 .. clock]]
    OBVIOUS
  <2>4. QED
    BY <2>1, <2>2, <2>3 DEF TypeOK
<1>3. PutterInv /\ DownInv
  BY DEF PutterInv, Consistent, DownInv
<1>4. FiniteInv
  BY <1>1, FS_EmptySet DEF FiniteInv
<1>5. IndexWithinLimit
  BY <1>1, BytesEmpty DEF IndexWithinLimit
<1>6. WholeFilesOnly /\ NoOrphans /\ ReplacedInv /\ GhostsExplained
  BY <1>1 DEF WholeFilesOnly, NoOrphans, ReplacedInv, GhostsExplained
<1>7. QED
  BY <1>2, <1>3, <1>4, <1>5, <1>6 DEF IInv

-----------------------------------------------------------------------------
(* The type invariant says less of a put than PutterInv does. *)
LEMMA PutterType ==
    ASSUME PutterInv, NEW p \in Putters
    PROVE  \/ putter[p] = Idle
           \/ /\ putter[p].pc \in {"writing", "written", "renamed"}
              /\ putter[p].key \in Keys
              /\ putter[p].now \in 0 .. clock
BY DEF PutterInv, Consistent

(* A put in one state is not in another. *)
LEMMA PutterIn ==
    ASSUME PutterInv, NEW p \in Putters
    PROVE  /\ putter[p].pc = "written" =>
                putter[p] \in [pc : {"written"}, key : Keys, now : 0 .. clock, mtime : 0 .. clock]
           /\ putter[p].pc \in {"writing", "renamed"} =>
                putter[p] \in [pc : {"writing", "renamed"}, key : Keys, now : 0 .. clock]
           /\ putter[p].pc # "idle" => putter[p] # Idle
BY DEF PutterInv, Consistent, Idle

(* As long as a put has not renamed its file it concerns nobody else. *)
LEMMA WritingInv ==
    ASSUME IInv, NEW p \in Putters, NEW next, Consistent(next), next.pc # "renamed", up,
           putter[p].pc # "renamed", putter' = [putter EXCEPT ![p] = next],
           UNCHANGED <<clock, up, index, disk, litter, replaced>>
    PROVE  IInv'
<1> USE DEF IInv
<1>1. PutterInv'
  BY DEF PutterInv, Consistent
<1>2. \A k \in Keys : Indexing(k)' = Indexing(k)
  BY DEF Indexing, PutterInv
<1>3. Indexed(index)' = Indexed(index) /\ (OnDisk)' = OnDisk
  BY DEF Indexed, OnDisk
<1>4. TypeOK'
  BY <1>1, PutterType DEF TypeOK, PutterInv, Consistent
<1>5. DownInv' /\ FiniteInv' /\ WholeFilesOnly' /\ IndexWithinLimit'
  BY <1>3 DEF DownInv, FiniteInv, WholeFilesOnly, IndexWithinLimit
<1>6. NoOrphans' /\ ReplacedInv' /\ GhostsExplained'
  BY <1>2, <1>3 DEF NoOrphans, ReplacedInv, GhostsExplained, OnDisk
<1>7. QED
  BY <1>1, <1>4, <1>5, <1>6

(* A put runs only while the process does. *)
LEMMA PuttersUp == ASSUME DownInv, NEW p \in Putters, putter[p].pc # "idle" PROVE up
BY DEF DownInv, Idle

(* put up to the rename, and where it fails before it. *)
LEMMA PutStepInv ==
    ASSUME NEW p \in Putters
    PROVE  IInv /\ ((\E k \in Keys : PutBegin(p, k)) \/ PutWrite(p) \/ PutFails(p)) => IInv'
<1> SUFFICES ASSUME IInv, (\E k \in Keys : PutBegin(p, k)) \/ PutWrite(p) \/ PutFails(p)
             PROVE  IInv'
  OBVIOUS
<1>1. PutterInv /\ DownInv /\ clock \in Nat
  BY IndexType DEF IInv
<1>2. ASSUME NEW k \in Keys, PutBegin(p, k) PROVE IInv'
  <2> DEFINE next == [pc |-> "writing", key |-> k, now |-> clock]
  <2>1. Consistent(next) /\ next.pc # "renamed"
    BY <1>1 DEF Consistent
  <2>2. putter[p].pc # "renamed"
    BY <1>2 DEF PutBegin, Idle
  <2>3. QED
    BY <1>2, <2>1, <2>2, WritingInv DEF PutBegin
<1>3. CASE PutWrite(p)
  <2> DEFINE next == [pc |-> "written", key |-> putter[p].key, now |-> putter[p].now, mtime |-> clock]
  <2>1. putter[p] \in [pc : {"writing", "renamed"}, key : Keys, now : 0 .. clock]
    BY <1>1, <1>3, PutterIn DEF PutWrite
  <2>2. Consistent(next) /\ next.pc # "renamed"
    BY <1>1, <2>1 DEF Consistent
  <2>3. up /\ putter[p].pc # "renamed"
    BY <1>1, <1>3, PuttersUp DEF PutWrite
  <2>4. QED
    BY <1>3, <2>2, <2>3, WritingInv DEF PutWrite
<1>4. CASE PutFails(p)
  <2>1. Consistent(Idle) /\ Idle.pc # "renamed"
    BY DEF Consistent, Idle
  <2>2. up /\ putter[p].pc # "renamed"
    BY <1>1, <1>4, PuttersUp DEF PutFails
  <2>3. QED
    BY <1>4, <2>1, <2>2, WritingInv DEF PutFails
<1>5. QED
  BY <1>2, <1>3, <1>4

(* The rename: the file is there, and the key is replaced if it was there, or
   about to be. *)
LEMMA PutRenameInv == ASSUME NEW p \in Putters PROVE IInv /\ PutRename(p) => IInv'
<1> SUFFICES ASSUME IInv, PutRename(p) PROVE IInv'
  OBVIOUS
<1> USE DEF IInv
<1>1. putter[p] \in [pc : {"written"}, key : Keys, now : 0 .. clock, mtime : 0 .. clock]
  BY PutterIn DEF PutRename
<1>2. PICK k \in Keys, next \in [pc : {"renamed"}, key : Keys, now : 0 .. clock] :
        /\ next = [pc |-> "renamed", key |-> k, now |-> putter[p].now] /\ up
        /\ disk' = [disk EXCEPT ![k] = [whole |-> TRUE, mtime |-> putter[p].mtime]]
        /\ replaced' = IF k \in OnDisk \/ Indexing(k) # {} THEN replaced \cup {k} ELSE replaced
        /\ putter' = [putter EXCEPT ![p] = next]
        /\ UNCHANGED <<clock, up, index, litter>>
  <2>1. putter[p].key \in Keys /\ putter[p].now \in 0 .. clock /\ up
    BY <1>1, PuttersUp DEF PutRename
  <2>2. QED
    BY <2>1 DEF PutRename
<1>3. putter[p].mtime \in 0 .. clock /\ putter[p].pc = "written"
  BY <1>1
<1>4. Consistent(next)
  BY <1>1, <1>2 DEF Consistent
<1>5. PutterInv'
  BY <1>2, <1>4 DEF PutterInv, Consistent
<1>6. Indexing(k)' = Indexing(k) \cup {p} /\ \A j \in Keys \ {k} : Indexing(j)' = Indexing(j)
  BY <1>2, <1>3 DEF Indexing, PutterInv
<1>7. Indexed(index)' = Indexed(index) /\ (OnDisk)' = OnDisk \cup {k}
  BY <1>2 DEF Indexed, OnDisk, TypeOK, NoFile
<1>8. TypeOK'
  <2>1. disk' \in [Keys -> {NoFile} \cup [whole : BOOLEAN, mtime : 0 .. clock]]
    BY <1>2, <1>3 DEF TypeOK
  <2>2. replaced' \subseteq Keys
    BY <1>2 DEF TypeOK
  <2>3. QED
    BY <1>2, <1>5, <2>1, <2>2, PutterType DEF TypeOK, PutterInv, Consistent
<1>9. DownInv' /\ IndexWithinLimit'
  BY <1>2, <1>7 DEF DownInv, IndexWithinLimit
<1>10. FiniteInv'
  BY <1>7, FS_AddElement DEF FiniteInv
<1>11. WholeFilesOnly'
  BY <1>2, <1>7 DEF WholeFilesOnly, OnDisk, TypeOK
<1>12. NoOrphans'
  <2>1. ASSUME NEW j \in OnDisk \cup {k} PROVE index'[j] # Absent \/ Indexing(j)' # {}
    <3>1. CASE j = k
      BY <1>6, <3>1
    <3>2. CASE j # k
      <4>1. j \in OnDisk /\ j \in Keys
        BY <3>2 DEF OnDisk
      <4>2. QED
        BY <1>2, <1>6, <3>2, <4>1 DEF NoOrphans
    <3>3. QED
      BY <3>1, <3>2
  <2>2. QED
    BY <1>2, <1>7, <2>1 DEF NoOrphans
<1>13. ReplacedInv'
  <2> SUFFICES ASSUME NEW j \in Keys, j \notin replaced'
               PROVE  /\ \A a, b \in Indexing(j)' : a = b
                      /\ Indexing(j)' # {} => j \in (OnDisk)' /\ j \notin Indexed(index)'
    BY DEF ReplacedInv
  <2>1. CASE j = k
    <3>1. k \notin OnDisk /\ Indexing(k) = {} /\ k \notin replaced
      BY <1>2, <2>1
    <3>2. k \notin Indexed(index)
      BY <3>1 DEF GhostsExplained
    <3>3. QED
      BY <1>6, <1>7, <2>1, <3>1, <3>2
  <2>2. CASE j # k
    <3>1. j \notin replaced /\ Indexing(j)' = Indexing(j)
      BY <1>2, <1>6, <2>2
    <3>2. QED
      BY <1>7, <3>1 DEF ReplacedInv
  <2>3. QED
    BY <2>1, <2>2
<1>14. GhostsExplained'
  BY <1>2, <1>7 DEF GhostsExplained
<1>15. QED
  BY <1>5, <1>8, <1>9, <1>10, <1>11, <1>12, <1>13, <1>14

-----------------------------------------------------------------------------
(* A removal under the lock, from an index that is the present one or that
   with one file more: what is left is consistent if it was. *)
LEMMA RemovalInv ==
    ASSUME IInv, up, NEW idx \in [Keys -> {Absent} \cup 0 .. clock],
           NEW S, S \subseteq Indexed(idx), Without(S, idx, disk),
           UNCHANGED <<clock, up, litter, replaced>>, PutterInv',
           IsFiniteSet(Indexed(idx)),
           \A k \in OnDisk : k \in Indexed(idx) \/ Indexing(k)' # {},
           \A k \in Indexed(idx) : k \in OnDisk \/ k \in replaced,
           \A k \in Keys \ replaced :
              /\ \A p, q \in Indexing(k)' : p = q
              /\ Indexing(k)' # {} => k \in OnDisk /\ k \notin Indexed(idx),
           Bytes(Indexed(idx) \ S) <= MaxBytes
    PROVE  IInv'
<1> USE DEF IInv
<1>1. /\ Indexed(index)' = Indexed(idx) \ S
      /\ (OnDisk)' = OnDisk \ S
      /\ \A k \in Keys \ S : index'[k] = idx[k] /\ disk'[k] = disk[k]
  BY WithoutProperties DEF OnDisk
<1>2. TypeOK'
  <2>1. index' \in [Keys -> {Absent} \cup 0 .. clock]
    BY DEF Without
  <2>2. disk' \in [Keys -> {NoFile} \cup [whole : BOOLEAN, mtime : 0 .. clock]]
    BY DEF Without, TypeOK
  <2>3. QED
    BY <2>1, <2>2, PutterType DEF TypeOK, PutterInv, Consistent
<1>3. DownInv'
  BY DEF DownInv
<1>4. FiniteInv'
  BY <1>1, FS_Subset DEF FiniteInv
<1>5. WholeFilesOnly' /\ IndexWithinLimit'
  BY <1>1 DEF WholeFilesOnly, IndexWithinLimit, OnDisk
<1>6. NoOrphans' /\ GhostsExplained' /\ ReplacedInv'
  BY <1>1 DEF NoOrphans, GhostsExplained, ReplacedInv, Indexed
<1>7. QED
  BY <1>2, <1>3, <1>4, <1>5, <1>6

(* The index that put prunes: that before it with the new file. *)
LEMMA PutIndexed ==
    ASSUME IInv, NEW p \in Putters, PutIndex(p)
    PROVE  \E k \in Keys, now \in 0 .. clock :
              LET idx == [index EXCEPT ![k] = now] IN
              /\ up /\ p \in Indexing(k) /\ putter[p].now = now
              /\ idx \in [Keys -> {Absent} \cup 0 .. clock]
              /\ Indexed(idx) = Indexed(index) \cup {k}
              /\ \E S \in Victims(idx, now) : Without(S, idx, disk)
              /\ putter' = [putter EXCEPT ![p] = Idle]
              /\ UNCHANGED <<clock, up, litter, replaced>>
<1> DEFINE k == putter[p].key
           now == putter[p].now
           idx == [index EXCEPT ![k] = now]
<1>1. putter[p] \in [pc : {"writing", "renamed"}, key : Keys, now : 0 .. clock]
  BY PutterIn DEF PutIndex, IInv
<1>2. k \in Keys /\ now \in 0 .. clock /\ up /\ p \in Indexing(k)
  BY <1>1, PuttersUp DEF PutIndex, Indexing, IInv
<1>3. \E S \in Victims(idx, now) : Without(S, idx, disk)
  BY DEF PutIndex, PruneLocked
<1>4. clock \in Nat /\ index \in [Keys -> {Absent} \cup 0 .. clock]
  BY IndexType DEF IInv
<1>5. /\ putter' = [putter EXCEPT ![p] = Idle]
      /\ UNCHANGED <<clock, up, litter, replaced>>
  BY DEF PutIndex
<1> HIDE DEF k, now
<1>6. idx \in [Keys -> {Absent} \cup 0 .. clock] /\ Indexed(idx) = Indexed(index) \cup {k}
  BY <1>2, <1>4 DEF Indexed, Absent
<1>7. QED
  BY <1>2, <1>3, <1>5, <1>6 DEF now

(* The file is indexed, and what does not fit any more is removed. *)
LEMMA PutIndexInv == ASSUME NEW p \in Putters PROVE IInv /\ PutIndex(p) => IInv'
<1> SUFFICES ASSUME IInv, PutIndex(p) PROVE IInv'
  OBVIOUS
<1>1. PICK k \in Keys, now \in 0 .. clock :
        LET idx == [index EXCEPT ![k] = now] IN
        /\ up /\ p \in Indexing(k) /\ putter[p].now = now
        /\ idx \in [Keys -> {Absent} \cup 0 .. clock]
        /\ Indexed(idx) = Indexed(index) \cup {k}
        /\ \E S \in Victims(idx, now) : Without(S, idx, disk)
        /\ putter' = [putter EXCEPT ![p] = Idle]
        /\ UNCHANGED <<clock, up, litter, replaced>>
  BY PutIndexed
<1> DEFINE idx == [index EXCEPT ![k] = now]
<1>2. PICK S \in Victims(idx, now) : Without(S, idx, disk)
  BY <1>1
<1>3. S \subseteq Indexed(idx) /\ Bytes(Indexed(idx) \ S) <= MaxBytes
  BY VictimsProperties
<1>4. PutterInv'
  BY <1>1 DEF PutterInv, Consistent, IInv
<1>5. \A j \in Keys : Indexing(j)' = Indexing(j) \ {p}
  BY <1>1 DEF Indexing, PutterInv, Idle, IInv
<1>6. \A j \in Keys \ {k} : p \notin Indexing(j)
  BY <1>1 DEF Indexing
<1> HIDE DEF idx
<1>7. Indexed(idx) = Indexed(index) \cup {k} /\ idx \in [Keys -> {Absent} \cup 0 .. clock]
  BY <1>1 DEF idx
<1>8. IsFiniteSet(Indexed(idx))
  BY <1>7, FS_AddElement DEF FiniteInv, IInv
<1>9. ASSUME NEW j \in OnDisk PROVE j \in Indexed(idx) \/ Indexing(j)' # {}
  <2>1. j \in Keys /\ (j \in Indexed(index) \/ Indexing(j) # {})
    BY <1>1 DEF OnDisk, NoOrphans, Indexed, IInv
  <2>2. QED
    BY <1>5, <1>6, <1>7, <2>1
<1>10. ASSUME NEW j \in Indexed(idx) PROVE j \in OnDisk \/ j \in replaced
  <2>1. CASE j \in Indexed(index)
    BY <2>1 DEF GhostsExplained, IInv
  <2>2. CASE j = k
    BY <1>1, <2>2 DEF ReplacedInv, IInv
  <2>3. QED
    BY <1>7, <2>1, <2>2
<1>11. ASSUME NEW j \in Keys \ replaced
       PROVE  /\ \A a, b \in Indexing(j)' : a = b
              /\ Indexing(j)' # {} => j \in OnDisk /\ j \notin Indexed(idx)
  <2>1. /\ \A a, b \in Indexing(j) : a = b
        /\ Indexing(j) # {} => j \in OnDisk /\ j \notin Indexed(index)
    BY DEF ReplacedInv, IInv
  <2>2. QED
    BY <1>1, <1>5, <1>7, <2>1
<1>12. QED
  BY <1>1, <1>2, <1>3, <1>4, <1>7, <1>8, <1>9, <1>10, <1>11, RemovalInv

(* prune and open remove from the present index: what that needs. *)
LEMMA PresentIndex ==
    ASSUME IInv, up, UNCHANGED putter
    PROVE  /\ index \in [Keys -> {Absent} \cup 0 .. clock]
           /\ IsFiniteSet(Indexed(index))
           /\ \A k \in Keys : Indexing(k)' = Indexing(k)
           /\ \A k \in OnDisk : k \in Indexed(index) \/ Indexing(k) # {}
           /\ \A k \in Indexed(index) : k \in OnDisk \/ k \in replaced
           /\ \A k \in Keys \ replaced :
                 /\ \A p, q \in Indexing(k) : p = q
                 /\ Indexing(k) # {} => k \in OnDisk /\ k \notin Indexed(index)
BY DEF IInv, TypeOK, FiniteInv, Indexing, OnDisk, NoOrphans, Indexed, GhostsExplained, ReplacedInv

(* What open finds expired goes, and leaves no more than there was. *)
LEMMA OpenInv ==
    ASSUME NEW k \in Keys, NEW now \in 0 .. clock PROVE IInv /\ Open(k, now) => IInv'
<1> SUFFICES ASSUME IInv, Open(k, now) PROVE IInv'
  OBVIOUS
<1>1. /\ up /\ Without({k}, index, disk) /\ UNCHANGED <<clock, up, litter, putter, replaced>>
      /\ {k} \subseteq Indexed(index)
  BY DEF Open, Expired
<1>2. PutterInv'
  BY <1>1 DEF PutterInv, Consistent, IInv
<1>3. Bytes(Indexed(index) \ {k}) <= MaxBytes
  <2>1. IsFiniteSet(Indexed(index)) /\ IsFiniteSet(Indexed(index) \ {k})
    BY FS_RemoveElement DEF IInv, FiniteInv
  <2>2. Indexed(index) \subseteq Keys
    BY DEF Indexed
  <2>3. Bytes(Indexed(index) \ {k}) <= Bytes(Indexed(index))
    BY <2>1, <2>2, BytesMonotone
  <2>4. Bytes(Indexed(index) \ {k}) \in Nat /\ Bytes(Indexed(index)) \in Nat
    BY <2>1, <2>2, BytesNatural
  <2>5. QED
    BY <2>3, <2>4, DiskCacheAssumption DEF IInv, IndexWithinLimit
<1>4. OnDisk \subseteq Keys
  BY DEF OnDisk
<1>5. QED
  BY <1>1, <1>2, <1>3, <1>4, PresentIndex, RemovalInv

(* A prune. *)
LEMMA PruneInv == ASSUME NEW now \in 0 .. clock PROVE IInv /\ Prune(now) => IInv'
<1> SUFFICES ASSUME IInv, Prune(now) PROVE IInv'
  OBVIOUS
<1>1. up /\ UNCHANGED <<clock, up, litter, putter, replaced>>
  BY DEF Prune
<1>2. PICK S \in Victims(index, now) : Without(S, index, disk)
  BY DEF Prune, PruneLocked
<1>3. S \subseteq Indexed(index) /\ Bytes(Indexed(index) \ S) <= MaxBytes
  BY VictimsProperties
<1>4. PutterInv'
  BY <1>1 DEF PutterInv, Consistent, IInv
<1>5. OnDisk \subseteq Keys
  BY DEF OnDisk
<1>6. QED
  BY <1>1, <1>2, <1>3, <1>4, <1>5, PresentIndex, RemovalInv

-----------------------------------------------------------------------------
(* A crash: nothing is indexed, and every file is one there was. *)
LEMMA CrashInv == IInv /\ Crash => IInv'
<1> SUFFICES ASSUME IInv, Crash PROVE IInv'
  OBVIOUS
<1> USE DEF IInv
<1>1. PICK removed : disk' = [k \in Keys |-> IF k \in removed THEN NoFile ELSE disk[k]]
  BY DEF Crash
<1>2. /\ up' = FALSE /\ index' = [k \in Keys |-> Absent] /\ putter' = [p \in Putters |-> Idle]
      /\ litter' \in BOOLEAN /\ UNCHANGED <<clock, replaced>>
  BY DEF Crash, TypeOK
<1>3. Indexed(index)' = {} /\ (OnDisk)' \subseteq OnDisk
  BY <1>1, <1>2 DEF Indexed, OnDisk
<1>4. \A k \in Keys : Indexing(k)' = {}
  BY <1>2 DEF Indexing, Idle
<1>5. TypeOK'
  <2>1. index' \in [Keys -> {Absent} \cup 0 .. clock']
    BY <1>2
  <2>2. disk' \in [Keys -> {NoFile} \cup [whole : BOOLEAN, mtime : 0 .. clock']]
    BY <1>1, <1>2 DEF TypeOK
  <2>3. QED
    BY <1>2, <2>1, <2>2 DEF TypeOK
<1>6. PutterInv' /\ DownInv'
  BY <1>2, <1>3 DEF PutterInv, Consistent, DownInv
<1>7. FiniteInv'
  BY <1>3, FS_Subset, FS_EmptySet DEF FiniteInv
<1>8. WholeFilesOnly'
  BY <1>1, <1>3 DEF WholeFilesOnly, OnDisk
<1>9. NoOrphans' /\ ReplacedInv' /\ GhostsExplained'
  BY <1>2, <1>3, <1>4 DEF NoOrphans, ReplacedInv, GhostsExplained
<1>10. IndexWithinLimit'
  BY <1>3, BytesEmpty, DiskCacheAssumption DEF IndexWithinLimit
<1>11. QED
  BY <1>5, <1>6, <1>7, <1>8, <1>9, <1>10

(* newDiskCache: every file is indexed, or removed. *)
LEMMA RestartInv == IInv /\ Restart => IInv'
<1> SUFFICES ASSUME IInv, Restart PROVE IInv'
  OBVIOUS
<1> USE DEF IInv
<1> DEFINE idx == [k \in Keys |-> disk[k].mtime]
<1>1. PICK S \in Victims(idx, clock) : Without(S, idx, disk)
  BY DEF Restart, PruneLocked
<1>2. S \subseteq Indexed(idx) /\ Bytes(Indexed(idx) \ S) <= MaxBytes
  BY VictimsProperties
<1>3. ~up /\ up' /\ litter' = FALSE /\ replaced' = {} /\ UNCHANGED <<clock, putter>>
  BY DEF Restart
<1>4. \A k \in Keys : Indexing(k)' = {}
  BY <1>3 DEF DownInv, Indexing, Idle
<1>5. idx \in [Keys -> {Absent} \cup 0 .. clock] /\ Indexed(idx) = OnDisk
  <2>1. ASSUME NEW k \in Keys
        PROVE  /\ disk[k].mtime \in {Absent} \cup 0 .. clock
               /\ disk[k].mtime # Absent <=> disk[k] # NoFile
    BY IndexType DEF NoFile, Absent
  <2>2. QED
    BY <2>1 DEF Indexed, OnDisk
<1> HIDE DEF idx
<1>6. /\ Indexed(index)' = Indexed(idx) \ S
      /\ (OnDisk)' = OnDisk \ S
      /\ \A k \in Keys \ S : index'[k] = idx[k] /\ disk'[k] = disk[k]
  BY <1>1, WithoutProperties DEF OnDisk
<1>7. TypeOK'
  <2>1. index' \in [Keys -> {Absent} \cup 0 .. clock]
    BY <1>1, <1>5 DEF Without
  <2>2. disk' \in [Keys -> {NoFile} \cup [whole : BOOLEAN, mtime : 0 .. clock]]
    BY <1>1 DEF Without, TypeOK
  <2>3. QED
    BY <1>3, <2>1, <2>2 DEF TypeOK
<1>8. PutterInv' /\ DownInv'
  BY <1>3 DEF PutterInv, Consistent, DownInv
<1>9. FiniteInv'
  BY <1>5, <1>6, FS_Subset DEF FiniteInv
<1>10. WholeFilesOnly'
  BY <1>6 DEF WholeFilesOnly, OnDisk
<1>11. NoOrphans' /\ ReplacedInv' /\ GhostsExplained'
  BY <1>3, <1>4, <1>5, <1>6 DEF NoOrphans, ReplacedInv, GhostsExplained, Indexed
<1>12. IndexWithinLimit'
  BY <1>2, <1>6 DEF IndexWithinLimit
<1>13. QED
  BY <1>7, <1>8, <1>9, <1>10, <1>11, <1>12

(* Time passes. *)
LEMMA TickInv == IInv /\ Tick => IInv'
<1> SUFFICES ASSUME IInv, Tick PROVE IInv'
  OBVIOUS
<1> USE DEF IInv, Tick
<1>1. clock \in Nat /\ clock' \in 0 .. MaxClock /\ 0 .. clock \subseteq 0 .. clock'
  BY IndexType, DiskCacheAssumption DEF TypeOK
<1>2. PutterInv'
  BY <1>1 DEF PutterInv, Consistent
<1>3. TypeOK'
  <2>1. index' \in [Keys -> {Absent} \cup 0 .. clock']
    BY <1>1 DEF TypeOK
  <2>2. disk' \in [Keys -> {NoFile} \cup [whole : BOOLEAN, mtime : 0 .. clock']]
    BY <1>1 DEF TypeOK
  <2>3. QED
    BY <1>1, <1>2, <2>1, <2>2, PutterType DEF TypeOK, PutterInv, Consistent
<1>4. DownInv' /\ FiniteInv' /\ WholeFilesOnly' /\ IndexWithinLimit'
  BY DEF DownInv, FiniteInv, WholeFilesOnly, IndexWithinLimit, Indexed, OnDisk
<1>5. NoOrphans' /\ ReplacedInv' /\ GhostsExplained'
  BY DEF NoOrphans, ReplacedInv, GhostsExplained, Indexed, OnDisk, Indexing
<1>6. QED
  BY <1>2, <1>3, <1>4, <1>5

(* Every step keeps the inductive invariant. *)
LEMMA StepInv == IInv /\ [Next]_vars => IInv'
<1> SUFFICES ASSUME IInv, [Next]_vars PROVE IInv'
  OBVIOUS
<1>1. CASE \E p \in Putters, k \in Keys : PutBegin(p, k)
  BY <1>1, PutStepInv
<1>2. CASE \E p \in Putters : PutWrite(p) \/ PutFails(p) \/ PutRename(p) \/ PutIndex(p)
  BY <1>2, PutStepInv, PutRenameInv, PutIndexInv
<1>3. CASE \E k \in Keys, now \in 0 .. clock : Open(k, now)
  BY <1>3, OpenInv
<1>4. CASE \E now \in 0 .. clock : Prune(now)
  BY <1>4, PruneInv
<1>5. CASE Crash \/ Restart \/ Tick
  BY <1>5, CrashInv, RestartInv, TickInv
<1>6. CASE UNCHANGED vars
  <2>1. TypeOK' /\ PutterInv' /\ DownInv' /\ FiniteInv' /\ WholeFilesOnly' /\ IndexWithinLimit'
    BY <1>6 DEF vars, IInv, TypeOK, PutterInv, Consistent, DownInv, FiniteInv, WholeFilesOnly,
                IndexWithinLimit, Indexed, OnDisk
  <2>2. NoOrphans' /\ ReplacedInv' /\ GhostsExplained'
    BY <1>6 DEF vars, IInv, NoOrphans, ReplacedInv, GhostsExplained, Indexed, OnDisk, Indexing
  <2>3. QED
    BY <2>1, <2>2 DEF IInv
<1>7. QED
  BY <1>1, <1>2, <1>3, <1>4, <1>5, <1>6 DEF Next

-----------------------------------------------------------------------------
(* The inductive invariant holds in every state, whatever fails or crashes. *)
THEOREM Invariance == Spec => []IInv
BY InitInv, StepInv, PTL DEF Spec

(* Every state is of its type: no entry and no file is from the future. *)
THEOREM Typed == Spec => []TypeOK
<1>1. IInv => TypeOK
  BY DEF IInv
<1>2. QED
  BY Invariance, <1>1, PTL

(* put (diskcache.go): nothing but a complete body is ever under a final name. *)
THEOREM FilesAreWhole == Spec => []WholeFilesOnly
<1>1. IInv => WholeFilesOnly
  BY DEF IInv
<1>2. QED
  BY Invariance, <1>1, PTL

(* newDiskCache, put and pruneLocked (diskcache.go): no file escapes the index,
   and with it the TTL and the limit, across crashes too. *)
THEOREM FilesAreKnown == Spec => []NoOrphans
<1>1. IInv => NoOrphans
  BY DEF IInv
<1>2. QED
  BY Invariance, <1>1, PTL

(* pruneLocked (diskcache.go): what is indexed fits the limit at every moment. *)
THEOREM LimitIsKept == Spec => []IndexWithinLimit
<1>1. IInv => IndexWithinLimit
  BY DEF IInv
<1>2. QED
  BY Invariance, <1>1, PTL

(* put and open (diskcache.go): an entry without a file is that of a key that
   was put while it was cached or being put. *)
THEOREM GhostsAreExplained == Spec => []GhostsExplained
<1>1. IInv => GhostsExplained
  BY DEF IInv
<1>2. QED
  BY Invariance, <1>1, PTL

(* What a removal under the limit takes, from an index that agrees with the
   present one or is that with a segment more. *)
LEMMA RemovedForLimit ==
    ASSUME IInv, NEW idx \in [Keys -> {Absent} \cup 0 .. clock], NEW now \in 0 .. clock,
           IsFiniteSet(Indexed(idx)), NEW S \in Victims(idx, now), Without(S, idx, disk),
           \A j \in Indexed(idx) : idx[j] = index[j] \/ \E p \in Indexing(j) : putter[p].now = idx[j],
           NEW k \in Keys, index[k] # Absent, index'[k] = Absent, clock - index[k] <= TTL,
           idx[k] = index[k]
    PROVE  /\ \A j \in Indexed(index)' : index[k] <= index'[j]
           /\ \E j \in Keys \ Indexed(index)' :
                 /\ index[j] >= index[k] \/ \E p \in Indexing(j) : putter[p].now >= index[k]
                 /\ Bytes(Indexed(index)' \cup {j}) > MaxBytes
<1>1. /\ Indexed(index)' = Indexed(idx) \ S
      /\ \A j \in Keys \ S : index'[j] = idx[j]
  BY WithoutProperties
<1>2. k \in S
  BY <1>1
<1>3. k \notin Expired(idx, now)
  <2>1. clock \in Nat /\ index[k] \in 0 .. clock
    BY IndexType DEF IInv, Indexed
  <2>2. ~(now - index[k] > TTL)
    BY <2>1, DiskCacheAssumption
  <2>3. QED
    BY <2>2 DEF Expired
<1>4. S \subseteq Indexed(idx) /\ Indexed(idx) \subseteq Keys
  BY VictimsProperties DEF Indexed
<1>5. \A j \in Indexed(idx) \ S : idx[k] <= idx[j]
  BY <1>2, <1>3, VictimsProperties
<1>6. PICK j \in S : /\ j = k \/ idx[k] <= idx[j]
                     /\ ~(Bytes((Indexed(idx) \ S) \cup {j}) <= MaxBytes)
  BY <1>2, <1>3, VictimsProperties
<1>7. Bytes((Indexed(idx) \ S) \cup {j}) > MaxBytes
  <2> DEFINE left == (Indexed(idx) \ S) \cup {j}
  <2>1. left \subseteq Indexed(idx) /\ Indexed(idx) \subseteq Keys
    BY <1>4 DEF Indexed
  <2>2. IsFiniteSet(left)
    BY <2>1, FS_Subset
  <2>3. Bytes(left) \in Nat
    BY <2>1, <2>2, BytesNatural
  <2> HIDE DEF left
  <2>4. QED
    BY <1>6, <2>3, DiskCacheAssumption DEF left
<1>8. index[j] >= index[k] \/ \E p \in Indexing(j) : putter[p].now >= index[k]
  <2>1. j \in Indexed(idx) /\ idx[k] <= idx[j]
    BY <1>4, <1>6
  <2>2. idx[j] = index[j] \/ \E p \in Indexing(j) : putter[p].now = idx[j]
    BY <2>1
  <2>3. clock \in Nat /\ idx[k] \in Int /\ idx[j] \in Int
    BY <1>4, IndexType DEF IInv, Absent
  <2>4. QED
    BY <2>1, <2>2, <2>3
<1>9. QED
  BY <1>1, <1>4, <1>5, <1>6, <1>7, <1>8

(* pruneLocked (diskcache.go): the limit takes the oldest first, and no more
   than what did not fit. *)
THEOREM NothingIsRemovedInVain == Spec => NothingRemovedInVain
<1> DEFINE Removed(k) == /\ index[k] # Absent /\ index'[k] = Absent
                         /\ clock - index[k] <= TTL /\ Indexing(k) = {}
           Justified(k) == /\ \A j \in Indexed(index)' : index[k] <= index'[j]
                           /\ \E j \in Keys \ Indexed(index)' :
                                /\ \/ index[j] >= index[k]
                                   \/ \E p \in Indexing(j) : putter[p].now >= index[k]
                                /\ Bytes(Indexed(index)' \cup {j}) > MaxBytes
<1>1. ASSUME IInv, Next, up, up', NEW k \in Keys, Removed(k)
      PROVE  Justified(k)
  <2>1. index' # index
    BY <1>1
  <2>2. CASE \E p \in Putters : PutIndex(p)
    <3>1. PICK p \in Putters : PutIndex(p)
      BY <2>2
    <3>2. PICK key \in Keys, now \in 0 .. clock :
            LET idx == [index EXCEPT ![key] = now] IN
            /\ p \in Indexing(key) /\ putter[p].now = now
            /\ idx \in [Keys -> {Absent} \cup 0 .. clock]
            /\ Indexed(idx) = Indexed(index) \cup {key}
            /\ \E S \in Victims(idx, now) : Without(S, idx, disk)
      BY <1>1, <3>1, PutIndexed
    <3> DEFINE idx == [index EXCEPT ![key] = now]
    <3>3. PICK S \in Victims(idx, now) : Without(S, idx, disk)
      BY <3>2
    <3>4. index \in [Keys -> {Absent} \cup 0 .. clock]
      BY <1>1, IndexType DEF IInv
    <3>5. key # k /\ idx[k] = index[k]
      BY <1>1, <3>2, <3>4
    <3>6. \A j \in Indexed(idx) : idx[j] = index[j] \/ \E q \in Indexing(j) : putter[q].now = idx[j]
      BY <3>2, <3>4 DEF Indexed
    <3>7. idx \in [Keys -> {Absent} \cup 0 .. clock] /\ Indexed(idx) = Indexed(index) \cup {key}
      BY <3>2
    <3> HIDE DEF idx
    <3>8. IsFiniteSet(Indexed(index) \cup {key})
      BY <1>1, FS_AddElement DEF IInv, FiniteInv
    <3>9. QED
      BY <1>1, <3>3, <3>5, <3>6, <3>7, <3>8, RemovedForLimit
  <2>3. CASE \E now \in 0 .. clock : Prune(now)
    <3>1. PICK now \in 0 .. clock : PruneLocked(index, disk, now)
      BY <2>3 DEF Prune
    <3>2. PICK S \in Victims(index, now) : Without(S, index, disk)
      BY <3>1 DEF PruneLocked
    <3>3. index \in [Keys -> {Absent} \cup 0 .. clock] /\ IsFiniteSet(Indexed(index))
      BY <1>1, IndexType DEF IInv, FiniteInv
    <3>4. QED
      BY <1>1, <3>2, <3>3, RemovedForLimit
  <2>4. ASSUME NEW key \in Keys, NEW now \in 0 .. clock, Open(key, now) PROVE FALSE
    <3>1. key = k /\ now - index[k] > TTL
      BY <1>1, <2>4, WithoutProperties DEF Open, Expired
    <3>2. clock \in Nat /\ index[k] \in 0 .. clock
      BY <1>1, IndexType DEF IInv, Indexed
    <3>3. QED
      BY <1>1, <3>1, <3>2, DiskCacheAssumption
  <2>5. QED
    BY <1>1, <2>1, <2>2, <2>3, <2>4
       DEF Next, PutBegin, PutWrite, PutFails, PutRename, Crash, Restart, Tick
<1>2. ASSUME IInv, [Next]_vars
      PROVE  [up /\ up' =>
        \A k \in Keys :
            /\ index[k] # Absent /\ index'[k] = Absent
            /\ clock - index[k] <= TTL /\ Indexing(k) = {}
            => /\ \A j \in Indexed(index') : index[k] <= index'[j]
               /\ \E j \in Keys \ Indexed(index') :
                    /\ index[j] >= index[k] \/ \E p \in Indexing(j) : putter[p].now >= index[k]
                    /\ Bytes(Indexed(index') \cup {j}) > MaxBytes]_vars
  <2>1. Indexed(index') = Indexed(index)'
    BY DEF Indexed
  <2>2. QED
    BY <1>1, <1>2, <2>1 DEF vars
<1>3. QED
  BY Invariance, <1>2, PTL DEF Spec, NothingRemovedInVain
=============================================================================
