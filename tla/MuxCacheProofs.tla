--------------------------- MODULE MuxCacheProofs ---------------------------
(***************************************************************************)
(* Proofs about MuxCache, for any keys and TTLs, any limit and any number  *)
(* of fetches, of whatever size.                                           *)
(***************************************************************************)
EXTENDS MuxCache, FiniteSets, SequenceTheorems, FiniteSetTheorems, WellFoundedInduction,
        TLAPS

(* A set of natural numbers that is not empty has a least element. *)
LEMMA LeastNatural ==
    ASSUME NEW S \in SUBSET Nat, S # {}
    PROVE  \E n \in S : \A m \in S : n <= m
<1>1. PICK n \in S : \A m \in S : ~(<<m, n>> \in OpToRel(<, Nat))
  BY WFMin, NatLessThanWellFounded
<1>2. \A m \in S : <<m, n>> \in OpToRel(<, Nat) <=> m < n
  BY DEF OpToRel
<1>3. \A m \in S : ~(m < n)
  BY <1>1, <1>2
<1>4. QED
  BY <1>3

(* Induction: what holds 0 and every successor of what it holds holds every
   natural number. *)
LEMMA NaturalsBySuccessor ==
    ASSUME NEW S, 0 \in S, \A n \in Nat : n \in S => n + 1 \in S
    PROVE  \A n \in Nat : n \in S
<1> SUFFICES ASSUME Nat \ S # {} PROVE FALSE
  OBVIOUS
<1>1. PICK n \in Nat \ S : \A m \in Nat \ S : n <= m
  BY LeastNatural
<1>2. n - 1 \in Nat /\ n - 1 \notin Nat \ S
  BY <1>1
<1>3. QED
  BY <1>1, <1>2

(* Induction on finite sets: if any subset of S is bad, then one is that is not
   bad any more when it loses an element, whichever. *)
LEMMA SmallestSubset ==
    ASSUME NEW S, IsFiniteSet(S), NEW Bad, Bad \subseteq SUBSET S, Bad # {}
    PROVE  \E s \in Bad : IsFiniteSet(s) /\ \A x \in s : s \ {x} \notin Bad
<1> DEFINE P == SUBSET S
           Sizes == {n \in Nat : \E s \in Bad : Cardinality(s) = n}
<1>1. ASSUME NEW s \in P
      PROVE  /\ IsFiniteSet(s)
             /\ Cardinality(s) \in Nat
             /\ \A x \in s : s \ {x} \in P /\ Cardinality(s \ {x}) = Cardinality(s) - 1
  BY FS_Subset, FS_CardinalityType, FS_RemoveElement
<1>2. Bad \subseteq P
  OBVIOUS
<1> HIDE DEF P
<1>3. Sizes # {}
  BY <1>1, <1>2
<1>4. PICK n \in Sizes : \A m \in Sizes : n <= m
  BY <1>3, LeastNatural
<1>5. PICK s \in Bad : Cardinality(s) = n
  BY <1>4
<1>6. ASSUME NEW x \in s, s \ {x} \in Bad PROVE FALSE
  BY <1>1, <1>2, <1>4, <1>5, <1>6
<1>7. QED
  BY <1>1, <1>2, <1>5, <1>6

(* One step of the recursion behind SumFunctionOnSet: g sums the rest. *)
SumStep(f, g, s) == IF s = {} THEN 0 ELSE LET x == CHOOSE x \in s : TRUE IN f[x] + g[s \ {x}]

(* The recursion has a solution: one for the sets of at most n + 1 elements is
   made from one for those of at most n. *)
LEMMA SumExists ==
    ASSUME NEW f, NEW S, IsFiniteSet(S)
    PROVE  \E g : g = [s \in SUBSET S |-> SumStep(f, g, s)]
<1> DEFINE P == SUBSET S
           Upto(n) == {s \in P : Cardinality(s) <= n}
           Summed(g, n) == g = [s \in Upto(n) |-> SumStep(f, g, s)]
           N == {n \in Nat : \E g : Summed(g, n)}
<1>1. ASSUME NEW s \in P
      PROVE  /\ Cardinality(s) \in Nat
             /\ Cardinality(s) <= Cardinality(S)
             /\ Cardinality(s) = 0 => s = {}
             /\ \A x \in s : s \ {x} \in P /\ Cardinality(s \ {x}) = Cardinality(s) - 1
  BY FS_Subset, FS_CardinalityType, FS_RemoveElement, FS_EmptySet
<1> HIDE DEF P
<1>2. 0 \in N
  <2> DEFINE g == [s \in Upto(0) |-> 0]
  <2>1. ASSUME NEW s \in Upto(0) PROVE s = {}
    BY <1>1
  <2>2. g = [s \in Upto(0) |-> SumStep(f, g, s)]
    BY <2>1, Zenon DEF SumStep
  <2>3. QED
    BY <2>2
<1>3. ASSUME NEW n \in Nat, n \in N PROVE n + 1 \in N
  <2>1. PICK g : Summed(g, n)
    BY <1>3
  <2> DEFINE h == [s \in Upto(n + 1) |-> SumStep(f, g, s)]
  <2>2. ASSUME NEW s \in Upto(n + 1) PROVE SumStep(f, h, s) = SumStep(f, g, s)
    <3>1. CASE s = {}
      BY <3>1 DEF SumStep
    <3>2. CASE s # {}
      <4> DEFINE x == CHOOSE x \in s : TRUE
      <4>1. x \in s
        BY <3>2
      <4> HIDE DEF x
      <4>2. s \ {x} \in Upto(n) /\ s \ {x} \in Upto(n + 1)
        BY <1>1, <4>1
      <4>3. g[s \ {x}] = SumStep(f, g, s \ {x})
        BY <2>1, <4>2
      <4>4. h[s \ {x}] = SumStep(f, g, s \ {x})
        BY <4>2
      <4>5. h[s \ {x}] = g[s \ {x}]
        BY <4>3, <4>4
      <4>6. QED
        BY <3>2, <4>5 DEF SumStep, x
    <3>3. QED
      BY <3>1, <3>2
  <2>3. Summed(h, n + 1)
    BY <2>2, Zenon
  <2>4. \E k : Summed(k, n + 1)
    <3> HIDE DEF Summed
    <3>1. QED
      BY <2>3, Zenon
  <2>5. QED
    BY <2>4
<1>4. Cardinality(S) \in N
  <2> HIDE DEF N
  <2>1. QED
    BY <1>2, <1>3, NaturalsBySuccessor, FS_CardinalityType
<1>5. Upto(Cardinality(S)) = P
  BY <1>1
<1>6. QED
  <2>1. PICK g : Summed(g, Cardinality(S))
    BY <1>4
  <2>2. g = [s \in P |-> SumStep(f, g, s)]
    BY <2>1, <1>5
  <2>3. QED
    BY <2>2 DEF P

(* The solution that SumFunctionOnSet takes. *)
SumFcn(f, S) == CHOOSE g : g = [s \in SUBSET S |-> SumStep(f, g, s)]

(* SumFunctionOnSet in terms of it. *)
LEMMA SumUnfold ==
    ASSUME NEW f, NEW S
    PROVE  SumFunctionOnSet(f, S) = SumFcn(f, S)[S]
BY DEF SumFunctionOnSet, FoldFunctionOnSet, MapThenFoldSet, SumStep, SumFcn

(* It satisfies the recursion. *)
LEMMA SumFcnStep ==
    ASSUME NEW f, NEW S, IsFiniteSet(S)
    PROVE  \A s \in SUBSET S : SumFcn(f, S)[s] = SumStep(f, SumFcn(f, S), s)
<1> DEFINE D(g) == g = [s \in SUBSET S |-> SumStep(f, g, s)]
<1>1. \E g : D(g)
  BY SumExists
<1>2. D(SumFcn(f, S))
  <2> SUFFICES D(CHOOSE g : D(g))
    BY DEF SumFcn
  <2> HIDE DEF D
  <2>1. QED
    BY <1>1
<1>3. QED
  BY <1>2

(* The sum of a set does not depend on which set the recursion began with, nor
   on the values outside it. *)
LEMMA SumAgree ==
    ASSUME NEW f, NEW S, IsFiniteSet(S), NEW h, NEW T, T \subseteq S,
           \A x \in T : f[x] = h[x]
    PROVE  \A s \in SUBSET T : SumFcn(f, S)[s] = SumFcn(h, T)[s]
<1> DEFINE g1 == SumFcn(f, S)
           g2 == SumFcn(h, T)
           Bad == {s \in SUBSET T : g1[s] # g2[s]}
<1>1. IsFiniteSet(T)
  BY FS_Subset
<1>2. \A s \in SUBSET T : g1[s] = SumStep(f, g1, s) /\ g2[s] = SumStep(h, g2, s)
  BY <1>1, SumFcnStep
<1> SUFFICES ASSUME Bad # {} PROVE FALSE
  OBVIOUS
<1> HIDE DEF g1, g2
<1>3. PICK s \in Bad : \A x \in s : s \ {x} \notin Bad
  BY <1>1, SmallestSubset
<1>4. s # {}
  BY <1>2 DEF SumStep
<1> DEFINE x == CHOOSE x \in s : TRUE
<1>5. x \in s
  BY <1>4
<1>6. SumStep(f, g1, s) = f[x] + g1[s \ {x}] /\ SumStep(h, g2, s) = h[x] + g2[s \ {x}]
  BY <1>4 DEF SumStep
<1> HIDE DEF x
<1>7. g1[s \ {x}] = g2[s \ {x}] /\ f[x] = h[x]
  BY <1>3, <1>5
<1>8. QED
  BY <1>2, <1>6, <1>7

(* The sum over no elements. *)
LEMMA SumEmpty == ASSUME NEW f PROVE SumFunctionOnSet(f, {}) = 0
<1>1. SumFcn(f, {})[{}] = SumStep(f, SumFcn(f, {}), {})
  BY SumFcnStep, FS_EmptySet
<1>2. QED
  BY <1>1, SumUnfold DEF SumStep

(* Functions with the same values have the same sum. *)
LEMMA SumCongruence ==
    ASSUME NEW S, IsFiniteSet(S), NEW f, NEW h, \A x \in S : f[x] = h[x]
    PROVE  SumFunctionOnSet(f, S) = SumFunctionOnSet(h, S)
BY SumAgree, SumUnfold

(* The sum is that of some element and the rest. *)
LEMMA SumChoose ==
    ASSUME NEW S, IsFiniteSet(S), S # {}, NEW f
    PROVE  \E x \in S : SumFunctionOnSet(f, S) = f[x] + SumFunctionOnSet(f, S \ {x})
<1> DEFINE x == CHOOSE x \in S : TRUE
<1>1. x \in S
  OBVIOUS
<1>2. SumFcn(f, S)[S] = f[x] + SumFcn(f, S)[S \ {x}]
  BY SumFcnStep DEF SumStep
<1> HIDE DEF x
<1>3. SumFcn(f, S)[S \ {x}] = SumFcn(f, S \ {x})[S \ {x}]
  BY SumAgree
<1>4. QED
  BY <1>1, <1>2, <1>3, SumUnfold

(* A sum of natural numbers is one. *)
LEMMA SumNatural ==
    ASSUME NEW S, IsFiniteSet(S), NEW f, \A x \in S : f[x] \in Nat
    PROVE  SumFunctionOnSet(f, S) \in Nat
<1> DEFINE Bad == {s \in SUBSET S : SumFunctionOnSet(f, s) \notin Nat}
<1> SUFFICES ASSUME Bad # {} PROVE FALSE
  OBVIOUS
<1>1. PICK s \in Bad : IsFiniteSet(s) /\ \A x \in s : s \ {x} \notin Bad
  BY SmallestSubset
<1>2. s # {}
  BY SumEmpty
<1>3. PICK x \in s : SumFunctionOnSet(f, s) = f[x] + SumFunctionOnSet(f, s \ {x})
  BY <1>1, <1>2, SumChoose
<1>4. f[x] \in Nat /\ SumFunctionOnSet(f, s \ {x}) \in Nat
  BY <1>1
<1>5. QED
  BY <1>3, <1>4

(* The sum is that of any element and the rest. *)
LEMMA SumRemove ==
    ASSUME NEW S, IsFiniteSet(S), NEW f, \A x \in S : f[x] \in Nat, NEW y \in S
    PROVE  SumFunctionOnSet(f, S) = f[y] + SumFunctionOnSet(f, S \ {y})
<1> DEFINE Total(s) == SumFunctionOnSet(f, s)
           Bad == {s \in SUBSET S : \E x \in s : Total(s) # f[x] + Total(s \ {x})}
<1> SUFFICES ASSUME Bad # {} PROVE FALSE
  OBVIOUS
<1>1. PICK s \in Bad : IsFiniteSet(s) /\ \A x \in s : s \ {x} \notin Bad
  BY SmallestSubset
<1>2. PICK a \in s : Total(s) # f[a] + Total(s \ {a})
  OBVIOUS
<1>3. PICK b \in s : Total(s) = f[b] + Total(s \ {b})
  BY <1>1, SumChoose
<1>4. a # b
  BY <1>2, <1>3
<1>5. Total(s \ {b}) = f[a] + Total((s \ {b}) \ {a})
  BY <1>1, <1>4
<1>6. Total(s \ {a}) = f[b] + Total((s \ {a}) \ {b})
  BY <1>1, <1>4
<1>7. (s \ {a}) \ {b} = (s \ {b}) \ {a}
  OBVIOUS
<1>8. Total((s \ {b}) \ {a}) \in Nat
  BY <1>1, FS_RemoveElement, SumNatural
<1>9. f[a] \in Nat /\ f[b] \in Nat
  OBVIOUS
<1> HIDE DEF Total
<1>10. QED
  BY <1>2, <1>3, <1>5, <1>6, <1>7, <1>8, <1>9

(* The sum over a subset is no larger. *)
LEMMA SumMonotone ==
    ASSUME NEW S, IsFiniteSet(S), NEW f, \A x \in S : f[x] \in Nat, NEW T, T \subseteq S
    PROVE  SumFunctionOnSet(f, T) <= SumFunctionOnSet(f, S)
<1> DEFINE Total(s) == SumFunctionOnSet(f, s)
           Bad == {s \in SUBSET S : T \subseteq s /\ ~(Total(T) <= Total(s))}
<1> SUFFICES ASSUME Bad # {} PROVE FALSE
  OBVIOUS
<1>1. PICK s \in Bad : IsFiniteSet(s) /\ \A x \in s : s \ {x} \notin Bad
  <2>1. Bad \subseteq SUBSET S /\ Bad # {}
    OBVIOUS
  <2> HIDE DEF Bad
  <2>2. QED
    BY <2>1, SmallestSubset
<1>2. Total(T) \in Nat
  BY FS_Subset, SumNatural
<1>3. PICK y \in s : y \notin T
  <2>1. s # T
    <3>1. Total(T) <= Total(T)
      BY <1>2
    <3>2. QED
      BY <3>1, Zenon
  <2>2. QED
    BY <2>1
<1>4. Total(s) = f[y] + Total(s \ {y})
  BY <1>1, SumRemove
<1>5. Total(T) <= Total(s \ {y})
  BY <1>1, <1>3
<1>6. f[y] \in Nat /\ Total(s \ {y}) \in Nat
  BY <1>1, FS_RemoveElement, SumNatural
<1>7. ~(Total(T) <= Total(s))
  OBVIOUS
<1> HIDE DEF Total
<1>8. QED
  BY <1>2, <1>4, <1>5, <1>6, <1>7

-----------------------------------------------------------------------------

Fetch == [key : Keys, created : 0 .. MaxClock, size : 0 .. MaxSize,
          state : {"created", "flying", "ok", "failed"}]
Walks == [phase : {"scan", "shrink"}, keep : Keys, now : 0 .. MaxClock, total : Int,
          todo : SUBSET Keys]

(* A walk keeps the newest entry, and has the entries it must still look at. *)
WalkInv ==
    \/ walk = NoWalk
    \/ /\ walk \in Walks /\ walk.now <= clock
       /\ index[walk.keep] = Len(fetches) /\ Len(fetches) \in Entries
       /\ fetches[Len(fetches)].state = "created"
       /\ \A k \in walk.todo : index[k] # Absent
       /\ walk.phase = "shrink" => walk.todo = {}

(* An entry whose fetch has not been started is that of the walk, and empty. *)
FreshInv ==
    \A e \in Entries : fetches[e].state = "created" =>
        fetches[e].size = 0 /\ e = Len(fetches) /\ walk # NoWalk

(* A fetch that is under way and no longer indexed is past its TTL, or was
   evicted for size. *)
Old(d, t) == t - fetches[d].created > TTL[fetches[d].key]
LostInv ==
    disabled = FALSE => \A d \in Entries : Flying(d) =>
        index[fetches[d].key] = d \/ d \in outgrown \/ Old(d, clock)

(* So was one before another of its key was created. *)
PairInv ==
    disabled = FALSE => \A d, e \in Entries :
        d < e /\ Flying(d) /\ fetches[e].state \in {"flying", "created"}
            /\ fetches[d].key = fetches[e].key
        => d \in outgrown \/ Old(d, fetches[e].created)

(* What the walk has counted so far is of the size it takes it for, but for what
   was received since it began. *)
Sizes == [e \in Entries |-> fetches[e].size]
Todo == IF walk.phase = "scan" THEN walk.todo ELSE {}
Counted == {index[k] : k \in Keys \ Todo} \ {Absent}
Limit == IF walk = NoWalk THEN MaxBytes ELSE walk.total
SizeInv == SumFunctionOnSet(Sizes, Counted) <= Limit + grown

IInv == TypeOK /\ WalkInv /\ FreshInv /\ LostInv /\ PairInv /\ SizeInv

-----------------------------------------------------------------------------
(* What the entries are. *)
LEMMA EntryFacts ==
    ASSUME TypeOK
    PROVE  /\ Len(fetches) \in Nat /\ Entries = 1 .. Len(fetches) /\ IsFiniteSet(Entries)
           /\ \A e \in Entries : /\ e \in Nat /\ fetches[e] \in Fetch
                                 /\ fetches[e].created \in Int /\ fetches[e].size \in Nat
                                 /\ fetches[e].key \in Keys /\ TTL[fetches[e].key] \in Int
           /\ clock \in Int /\ grown \in Int /\ MaxBytes \in Nat
<1>1. fetches \in Seq(Fetch)
  BY DEF TypeOK, Fetch
<1>2. Len(fetches) \in Nat /\ Entries = 1 .. Len(fetches)
  BY <1>1, LenProperties DEF Entries
<1>3. \A e \in Entries : fetches[e] \in Fetch
  BY <1>1, <1>2, ElementOfSeq
<1>4. IsFiniteSet(1 .. Len(fetches))
  BY <1>2, FS_Interval
<1>5. 0 .. MaxClock \subseteq Int /\ 0 .. MaxSize \subseteq Nat /\ MaxBytes \in Nat
  BY MuxCacheAssumption
<1>6. \A k \in Keys : TTL[k] \in Int
  BY MuxCacheAssumption
<1>7. \A e \in Entries : /\ fetches[e].created \in Int /\ fetches[e].size \in Nat
                         /\ fetches[e].key \in Keys
  BY <1>3, <1>5 DEF Fetch
<1>8. QED
  BY <1>2, <1>3, <1>4, <1>5, <1>6, <1>7 DEF TypeOK

(* A new entry comes last and leaves the others as they are. *)
LEMMA Appended ==
    ASSUME TypeOK, NEW x \in Fetch, fetches' = Append(fetches, x)
    PROVE  /\ fetches' \in Seq(Fetch) /\ Len(fetches') = Len(fetches) + 1
           /\ Entries' = Entries \cup {Len(fetches) + 1} /\ Len(fetches) + 1 \notin Entries
           /\ Absent \notin Entries'
           /\ \A e \in Entries : fetches'[e] = fetches[e] /\ e < Len(fetches) + 1
           /\ fetches'[Len(fetches) + 1] = x
<1>1. fetches \in Seq(Fetch) /\ Len(fetches) \in Nat /\ Entries = 1 .. Len(fetches)
  BY EntryFacts DEF TypeOK, Fetch
<1>2. /\ fetches' \in Seq(Fetch) /\ Len(fetches') = Len(fetches) + 1
      /\ \A e \in 1 .. Len(fetches) : fetches'[e] = fetches[e]
      /\ fetches'[Len(fetches) + 1] = x
  BY <1>1, AppendProperties
<1>3. Entries' = 1 .. Len(fetches) + 1
  BY <1>2, LenProperties DEF Entries
<1>4. QED
  BY <1>1, <1>2, <1>3 DEF Absent

(* An entry that changes leaves the others as they are. *)
LEMMA Updated ==
    ASSUME TypeOK, NEW d \in Entries, NEW x \in Fetch, fetches' = [fetches EXCEPT ![d] = x]
    PROVE  /\ fetches' \in Seq(Fetch) /\ Len(fetches') = Len(fetches) /\ Entries' = Entries
           /\ fetches'[d] = x /\ \A e \in Entries : e # d => fetches'[e] = fetches[e]
<1>1. fetches \in Seq(Fetch) /\ Entries = 1 .. Len(fetches)
  BY EntryFacts DEF TypeOK, Fetch
<1>2. /\ fetches' \in Seq(Fetch) /\ Len(fetches') = Len(fetches)
      /\ \A e \in 1 .. Len(fetches) : fetches'[e] = IF e = d THEN x ELSE fetches[e]
  BY <1>1, ExceptSeq
<1>3. Entries' = 1 .. Len(fetches)
  BY <1>2, LenProperties DEF Entries
<1>4. QED
  BY <1>1, <1>2, <1>3

(* What is counted is some of the entries, each the one of its key. *)
LEMMA CountedFacts ==
    ASSUME TypeOK
    PROVE  /\ Counted \subseteq Entries /\ Indexed \subseteq Entries /\ IsFiniteSet(Counted)
           /\ \A e \in Entries : Sizes[e] \in Nat
           /\ \A j, k \in Keys : index[j] = index[k] /\ index[j] # Absent => j = k
<1>1. Counted \subseteq Entries /\ Indexed \subseteq Entries
  BY DEF TypeOK, Counted, Indexed
<1>2. IsFiniteSet(Counted)
  BY <1>1, EntryFacts, FS_Subset
<1>3. \A e \in Entries : Sizes[e] \in Nat
  BY EntryFacts DEF Sizes
<1>4. QED
  BY <1>1, <1>2, <1>3 DEF TypeOK

-----------------------------------------------------------------------------
(* Entries that are as large as before add up to the same. *)
LEMMA SameSum ==
    ASSUME TypeOK, Entries \subseteq Entries',
           \A e \in Entries : fetches'[e].size = fetches[e].size, NEW S, S \subseteq Entries
    PROVE  SumFunctionOnSet(Sizes', S) = SumFunctionOnSet(Sizes, S)
<1>1. PICK f, h : f = Sizes /\ h = Sizes'
  OBVIOUS
<1>2. \A e \in S : f[e] = h[e]
  BY <1>1 DEF Sizes
<1>3. IsFiniteSet(S)
  BY EntryFacts, FS_Subset
<1>4. SumFunctionOnSet(f, S) = SumFunctionOnSet(h, S)
  BY <1>2, <1>3, SumCongruence
<1>5. QED
  BY <1>1, <1>4

(* The sum of what is counted is that of one entry and of the others. *)
LEMMA SumOf ==
    ASSUME TypeOK, NEW S, S \subseteq Entries, NEW d \in S
    PROVE  /\ SumFunctionOnSet(Sizes, S) = fetches[d].size + SumFunctionOnSet(Sizes, S \ {d})
           /\ SumFunctionOnSet(Sizes, S) \in Nat /\ SumFunctionOnSet(Sizes, S \ {d}) \in Nat
<1>1. PICK f : f = Sizes
  OBVIOUS
<1>2. \A e \in S : f[e] \in Nat
  BY <1>1, CountedFacts
<1>3. IsFiniteSet(S) /\ IsFiniteSet(S \ {d})
  BY EntryFacts, FS_Subset
<1>4. SumFunctionOnSet(f, S) = f[d] + SumFunctionOnSet(f, S \ {d})
  BY <1>2, <1>3, SumRemove
<1>5. SumFunctionOnSet(f, S) \in Nat /\ SumFunctionOnSet(f, S \ {d}) \in Nat
  BY <1>2, <1>3, SumNatural
<1>6. f[d] = fetches[d].size
  BY <1>1 DEF Sizes
<1>7. QED
  BY <1>1, <1>4, <1>5, <1>6

(* Fewer entries add up to less. *)
LEMMA SumLess ==
    ASSUME TypeOK, NEW S, S \subseteq Entries, NEW T, T \subseteq S
    PROVE  /\ SumFunctionOnSet(Sizes, T) <= SumFunctionOnSet(Sizes, S)
           /\ SumFunctionOnSet(Sizes, S) \in Nat /\ SumFunctionOnSet(Sizes, T) \in Nat
<1>1. PICK f : f = Sizes
  OBVIOUS
<1>2. \A e \in S : f[e] \in Nat
  BY <1>1, CountedFacts
<1>3. IsFiniteSet(S) /\ IsFiniteSet(T)
  BY EntryFacts, FS_Subset
<1>4. SumFunctionOnSet(f, T) <= SumFunctionOnSet(f, S)
  BY <1>2, <1>3, SumMonotone
<1>5. SumFunctionOnSet(f, S) \in Nat /\ SumFunctionOnSet(f, T) \in Nat
  BY <1>2, <1>3, SumNatural
<1>6. QED
  BY <1>1, <1>4, <1>5

-----------------------------------------------------------------------------
(* A fetch under way that goes on or ends disturbs nothing but the sizes. *)
LEMMA FetchGoes ==
    ASSUME IInv, NEW d \in Entries, Flying(d), NEW x \in Fetch,
           x.key = fetches[d].key, x.created = fetches[d].created,
           x.state \in {"flying", "ok", "failed"}, fetches' = [fetches EXCEPT ![d] = x],
           UNCHANGED <<clock, disabled, index, walk, outgrown>>, grown' \in Nat
    PROVE  TypeOK' /\ WalkInv' /\ FreshInv' /\ LostInv' /\ PairInv'
<1>1. /\ fetches' \in Seq(Fetch) /\ Len(fetches') = Len(fetches) /\ Entries' = Entries
      /\ fetches'[d] = x /\ \A e \in Entries : e # d => fetches'[e] = fetches[e]
  BY Updated DEF IInv
<1>2. /\ \A e \in Entries : /\ fetches'[e].key = fetches[e].key
                            /\ fetches'[e].created = fetches[e].created
                            /\ fetches'[e].state = "flying" => fetches[e].state = "flying"
                            /\ fetches'[e].state = "created" => fetches'[e] = fetches[e]
                            /\ fetches[e].state = "created" => fetches'[e] = fetches[e]
  BY <1>1 DEF Flying
<1>3. TypeOK'
  <2>1. \A k \in Keys : index[k] # Absent => fetches'[index[k]].key = k
    BY <1>2 DEF IInv, TypeOK
  <2>2. QED
    BY <1>1, <2>1 DEF IInv, TypeOK, Fetch
<1>4. WalkInv'
  <2>1. CASE walk = NoWalk
    BY <2>1 DEF WalkInv, NoWalk
  <2>2. CASE walk # NoWalk
    <3>1. fetches'[Len(fetches)].state = "created"
      BY <1>2, <2>2 DEF IInv, WalkInv
    <3>2. QED
      BY <1>1, <2>2, <3>1 DEF IInv, WalkInv
  <2>3. QED
    BY <2>1, <2>2
<1>5. FreshInv'
  BY <1>1, <1>2 DEF IInv, FreshInv, NoWalk
<1>6. LostInv'
  BY <1>1, <1>2 DEF IInv, LostInv, Flying, Old
<1>7. PairInv'
  BY <1>1, <1>2 DEF IInv, PairInv, Flying, Old
<1>8. QED
  BY <1>3, <1>4, <1>5, <1>6, <1>7

(* A byte more is a byte received. *)
LEMMA GrowInv == ASSUME IInv, NEW d \in Entries, Grow(d) PROVE IInv'
<1>1. PICK x : x = [fetches[d] EXCEPT !.size = fetches[d].size + 1]
  OBVIOUS
<1>2. fetches[d] \in Fetch /\ fetches[d].size \in Nat /\ fetches[d].size < MaxSize /\ Flying(d)
  BY EntryFacts DEF IInv, Grow
<1>3. MaxSize \in Nat
  BY MuxCacheAssumption
<1>4. fetches[d].size + 1 \in 0 .. MaxSize
  BY <1>2, <1>3
<1>5. /\ x \in Fetch /\ x.key = fetches[d].key /\ x.created = fetches[d].created
      /\ x.state = "flying" /\ x.size = fetches[d].size + 1
  BY <1>1, <1>2, <1>4 DEF Fetch, Flying
<1>6. fetches' = [fetches EXCEPT ![d] = x]
  BY <1>1 DEF Grow
<1>7. grown' = grown + 1 /\ grown' \in Nat /\ UNCHANGED <<clock, disabled, index, walk, outgrown>>
  BY DEF Grow, IInv, TypeOK
<1>8. TypeOK' /\ WalkInv' /\ FreshInv' /\ LostInv' /\ PairInv'
  BY <1>2, <1>5, <1>6, <1>7, FetchGoes
<1>9. Entries' = Entries /\ fetches'[d] = x /\ \A e \in Entries : e # d => fetches'[e] = fetches[e]
  BY <1>5, <1>6, Updated DEF IInv
<1>10. SizeInv'
  <2>1. PICK C : C = Counted
    OBVIOUS
  <2>2. Counted' = C /\ Limit' = Limit /\ C \subseteq Entries
    BY <1>7, <2>1, CountedFacts DEF Counted, Todo, Limit, NoWalk, IInv
  <2>3. SumFunctionOnSet(Sizes', C) <= SumFunctionOnSet(Sizes, C) + 1
        /\ SumFunctionOnSet(Sizes, C) \in Nat /\ SumFunctionOnSet(Sizes', C) \in Nat
    <3>1. CASE d \notin C
      <4>1. PICK f, h : f = Sizes /\ h = Sizes'
        OBVIOUS
      <4>2. \A e \in C : f[e] = h[e]
        BY <1>9, <2>2, <3>1, <4>1 DEF Sizes
      <4>3. IsFiniteSet(C)
        BY <2>2, EntryFacts, FS_Subset DEF IInv
      <4>4. SumFunctionOnSet(f, C) = SumFunctionOnSet(h, C)
        BY <4>2, <4>3, SumCongruence
      <4>5. SumFunctionOnSet(Sizes, C) \in Nat
        BY <2>2, SumLess DEF IInv
      <4>6. QED
        BY <4>1, <4>4, <4>5
    <3>2. CASE d \in C
      <4>1. PICK f, h : f = Sizes /\ h = Sizes'
        OBVIOUS
      <4>2. IsFiniteSet(C) /\ IsFiniteSet(C \ {d})
        BY <2>2, EntryFacts, FS_Subset DEF IInv
      <4>3. f[d] \in Nat /\ h[d] = f[d] + 1 /\ \A e \in C \ {d} : h[e] = f[e] /\ f[e] \in Nat
        BY <1>2, <1>5, <1>9, <2>2, <4>1, CountedFacts DEF Sizes, IInv
      <4>4. /\ SumFunctionOnSet(f, C) = f[d] + SumFunctionOnSet(f, C \ {d})
            /\ SumFunctionOnSet(h, C) = h[d] + SumFunctionOnSet(h, C \ {d})
        <5>1. \A e \in C : f[e] \in Nat /\ h[e] \in Nat
          BY <4>3
        <5>2. QED
          BY <3>2, <4>2, <5>1, SumRemove
      <4>5. SumFunctionOnSet(h, C \ {d}) = SumFunctionOnSet(f, C \ {d})
        BY <4>2, <4>3, SumCongruence
      <4>6. SumFunctionOnSet(f, C \ {d}) \in Nat
        BY <4>2, <4>3, SumNatural
      <4>7. QED
        BY <4>1, <4>3, <4>4, <4>5, <4>6
    <3>3. QED
      BY <3>1, <3>2
  <2>4. Limit \in Int /\ grown \in Int
    BY EntryFacts DEF IInv, Limit, WalkInv, Walks
  <2>5. SumFunctionOnSet(Sizes, C) <= Limit + grown
    BY <2>1 DEF IInv, SizeInv
  <2>6. SumFunctionOnSet(Sizes', C) <= Limit + (grown + 1)
    BY <2>3, <2>4, <2>5
  <2>7. QED
    BY <1>7, <2>2, <2>6 DEF SizeInv
<1>11. QED
  BY <1>8, <1>10 DEF IInv

(* The end of a fetch changes no size. *)
LEMMA EndInv == ASSUME IInv, NEW d \in Entries, End(d) PROVE IInv'
<1>1. PICK s \in {"ok", "failed"} : fetches' = [fetches EXCEPT ![d].state = s]
  BY DEF End
<1>2. PICK x : x = [fetches[d] EXCEPT !.state = s]
  OBVIOUS
<1>3. fetches[d] \in Fetch /\ Flying(d)
  BY EntryFacts DEF IInv, End
<1>4. /\ x \in Fetch /\ x.key = fetches[d].key /\ x.created = fetches[d].created
      /\ x.state \in {"flying", "ok", "failed"} /\ x.size = fetches[d].size
  BY <1>2, <1>3 DEF Fetch
<1>5. fetches' = [fetches EXCEPT ![d] = x]
  BY <1>1, <1>2
<1>6. grown' = grown /\ grown' \in Nat /\ UNCHANGED <<clock, disabled, index, walk, outgrown>>
  BY DEF End, IInv, TypeOK
<1>7. TypeOK' /\ WalkInv' /\ FreshInv' /\ LostInv' /\ PairInv'
  BY <1>3, <1>4, <1>5, <1>6, FetchGoes
<1>8. Entries' = Entries /\ \A e \in Entries : fetches'[e].size = fetches[e].size
  BY <1>4, <1>5, Updated DEF IInv
<1>9. SizeInv'
  <2>1. PICK C : C = Counted
    OBVIOUS
  <2>2. Counted' = C /\ Limit' = Limit /\ C \subseteq Entries
    BY <1>6, <2>1, CountedFacts DEF Counted, Todo, Limit, NoWalk, IInv
  <2>3. SumFunctionOnSet(Sizes', C) = SumFunctionOnSet(Sizes, C)
    BY <1>8, <2>2, SameSum DEF IInv
  <2>4. QED
    BY <1>6, <2>1, <2>2, <2>3 DEF SizeInv, IInv
<1>10. QED
  BY <1>7, <1>9 DEF IInv

(* Time only makes what is old older. *)
LEMMA TickInv == ASSUME IInv, Tick PROVE IInv'
<1>1. clock' = clock + 1 /\ clock \in Nat /\ clock < MaxClock
      /\ UNCHANGED <<disabled, fetches, index, walk, grown, outgrown>>
  BY MuxCacheAssumption DEF Tick, IInv, TypeOK
<1>2. MaxClock \in Nat
  BY MuxCacheAssumption
<1>3. clock' \in 0 .. MaxClock
  BY <1>1, <1>2
<1>4. TypeOK'
  BY <1>1, <1>3 DEF IInv, TypeOK, Entries
<1>5. WalkInv'
  <2>1. walk \in Walks /\ walk.now <= clock => walk.now <= clock'
    BY <1>1, <1>2 DEF Walks
  <2>2. QED
    BY <1>1, <2>1 DEF IInv, WalkInv, Entries, NoWalk
<1>6. FreshInv'
  BY <1>1 DEF IInv, FreshInv, Entries, NoWalk
<1>7. LostInv'
  <2>1. \A d \in Entries : Old(d, clock) => Old(d, clock')
    BY <1>1, EntryFacts DEF IInv, Old
  <2>2. QED
    BY <1>1, <2>1 DEF IInv, LostInv, Entries, Flying, Old
<1>8. PairInv'
  BY <1>1 DEF IInv, PairInv, Entries, Flying, Old
<1>9. SizeInv'
  BY <1>1 DEF IInv, SizeInv, Sizes, Counted, Todo, Limit, Entries, NoWalk
<1>10. QED
  BY <1>4, <1>5, <1>6, <1>7, <1>8, <1>9 DEF IInv

-----------------------------------------------------------------------------
(* A fetch under way that had expired at some time is past its TTL. *)
LEMMA ExpiredIsOld ==
    ASSUME TypeOK, NEW e \in Entries, NEW now \in Int, now <= clock, Expired(e, now)
    PROVE  Flying(e) => Old(e, clock)
BY EntryFacts DEF Expired, Flying, Old

(* The index may lose what is old or evicted for size. *)
LEMMA IndexLoses ==
    ASSUME IInv, index' \in [Keys -> {Absent} \cup Entries],
           \A k \in Keys : \/ index'[k] = index[k]
                           \/ /\ index'[k] = Absent /\ index[k] # Absent
                              /\ index[k] \in outgrown' \/ (Flying(index[k]) => Old(index[k], clock)),
           UNCHANGED <<clock, disabled, fetches, grown>>,
           outgrown \subseteq outgrown', outgrown' \subseteq Entries,
           walk' = NoWalk <=> walk = NoWalk, walk'.phase \in {"none", "scan", "shrink"}
    PROVE  TypeOK' /\ FreshInv' /\ LostInv' /\ PairInv'
<1>1. Entries' = Entries
  BY DEF Entries
<1>2. TypeOK'
  BY <1>1 DEF IInv, TypeOK
<1>3. FreshInv'
  BY <1>1 DEF IInv, FreshInv, NoWalk
<1>4. LostInv'
  <2>1. ASSUME NEW d \in Entries, Flying(d), disabled = FALSE
        PROVE  index'[fetches[d].key] = d \/ d \in outgrown' \/ Old(d, clock)
    <3>1. fetches[d].key \in Keys
      BY EntryFacts DEF IInv
    <3>2. index[fetches[d].key] = d \/ d \in outgrown \/ Old(d, clock)
      BY <2>1 DEF IInv, LostInv
    <3>3. QED
      BY <2>1, <3>1, <3>2
  <2>2. QED
    BY <1>1, <2>1 DEF LostInv, Flying, Old
<1>5. PairInv'
  BY <1>1 DEF IInv, PairInv, Flying, Old
<1>6. QED
  BY <1>2, <1>3, <1>4, <1>5

(* What a walk is. *)
LEMMA WalkFacts ==
    ASSUME IInv, walk.phase # "none"
    PROVE  /\ walk \in Walks /\ walk # NoWalk /\ walk.now \in Int /\ walk.now <= clock
           /\ walk.keep \in Keys /\ walk.total \in Int /\ walk.todo \subseteq Keys
           /\ index[walk.keep] = Len(fetches) /\ Len(fetches) \in Entries
           /\ fetches[Len(fetches)].state = "created"
           /\ \A k \in walk.todo : index[k] # Absent
           /\ walk.phase = "shrink" => walk.todo = {}
<1>1. walk # NoWalk
  BY DEF NoWalk
<1>2. MaxClock \in Nat
  BY MuxCacheAssumption
<1>3. QED
  BY <1>1, <1>2 DEF IInv, WalkInv, Walks

(* The walk goes on: an entry goes that has expired, or is counted. *)
LEMMA ScanInv == ASSUME IInv, Scan PROVE IInv'
<1>1. walk.phase = "scan"
  BY DEF Scan
<1>2. /\ walk \in Walks /\ walk # NoWalk /\ walk.now \in Int /\ walk.now <= clock
      /\ walk.keep \in Keys /\ walk.total \in Int /\ walk.todo \subseteq Keys
      /\ index[walk.keep] = Len(fetches) /\ Len(fetches) \in Entries
      /\ fetches[Len(fetches)].state = "created"
      /\ \A k \in walk.todo : index[k] # Absent
  BY <1>1, WalkFacts
<1>3. PICK k \in walk.todo :
        IF k # walk.keep /\ Expired(index[k], walk.now)
          THEN /\ index' = [index EXCEPT ![k] = Absent]
               /\ walk' = [walk EXCEPT !.todo = walk.todo \ {k}]
          ELSE /\ walk' = [walk EXCEPT !.todo = walk.todo \ {k},
                                       !.total = walk.total + fetches[index[k]].size]
               /\ UNCHANGED index
  BY DEF Scan
<1>4. UNCHANGED <<clock, disabled, fetches, grown, outgrown>>
  BY DEF Scan
<1>5. TypeOK /\ Entries' = Entries /\ k \in Keys /\ index[k] \in Entries
  BY <1>2, <1>4 DEF IInv, TypeOK, Entries
<1>6. CASE k # walk.keep /\ Expired(index[k], walk.now)
  <2>1. index' = [index EXCEPT ![k] = Absent] /\ walk' = [walk EXCEPT !.todo = walk.todo \ {k}]
    BY <1>3, <1>6
  <2>2. /\ walk' \in Walks /\ walk'.now = walk.now /\ walk'.keep = walk.keep
        /\ walk'.phase = "scan" /\ walk'.todo = walk.todo \ {k} /\ walk'.total = walk.total
    BY <1>1, <1>2, <2>1 DEF Walks
  <2>3. walk' # NoWalk
    BY <2>2 DEF NoWalk
  <2>4. Flying(index[k]) => Old(index[k], clock)
    BY <1>2, <1>5, <1>6, ExpiredIsOld
  <2>5. /\ index' \in [Keys -> {Absent} \cup Entries] /\ index'[k] = Absent
        /\ \A j \in Keys \ {k} : index'[j] = index[j]
    BY <1>5, <2>1 DEF TypeOK
  <2>6. TypeOK' /\ FreshInv' /\ LostInv' /\ PairInv'
    BY <1>2, <1>4, <1>5, <2>2, <2>3, <2>4, <2>5, IndexLoses DEF TypeOK
  <2>7. WalkInv'
    <3>1. index'[walk'.keep] = Len(fetches)
      BY <1>2, <1>6, <2>2, <2>5
    <3>2. \A j \in walk'.todo : index'[j] # Absent
      BY <1>2, <2>2, <2>5
    <3>3. QED
      BY <1>2, <1>4, <1>5, <2>2, <3>1, <3>2 DEF WalkInv
  <2>8. SizeInv'
    <3>1. PICK C : C = Counted
      OBVIOUS
    <3>2. Counted' = C
      BY <1>1, <1>2, <1>5, <2>2, <2>5, <3>1 DEF Counted, Todo
    <3>3. Limit' = Limit /\ Sizes' = Sizes
      BY <1>2, <1>4, <1>5, <2>2, <2>3 DEF Limit, Sizes, NoWalk
    <3>4. QED
      BY <1>4, <3>1, <3>2, <3>3 DEF IInv, SizeInv
  <2>9. QED
    BY <2>6, <2>7, <2>8 DEF IInv
<1>7. CASE ~(k # walk.keep /\ Expired(index[k], walk.now))
  <2>1. PICK n : n = fetches[index[k]].size
    OBVIOUS
  <2>2. n \in Nat
    BY <1>5, <2>1, EntryFacts
  <2>3. /\ walk' = [walk EXCEPT !.todo = walk.todo \ {k}, !.total = walk.total + n]
        /\ index' = index
    BY <1>3, <1>7, <2>1
  <2>4. /\ walk' \in Walks /\ walk'.now = walk.now /\ walk'.keep = walk.keep
        /\ walk'.phase = "scan" /\ walk'.todo = walk.todo \ {k} /\ walk'.total = walk.total + n
    <3>1. PICK total : total = walk.total + n
      OBVIOUS
    <3>2. total \in Int
      BY <1>2, <2>2, <3>1
    <3>3. walk' = [walk EXCEPT !.todo = walk.todo \ {k}, !.total = total]
      BY <2>3, <3>1
    <3>4. QED
      BY <1>1, <1>2, <3>1, <3>2, <3>3 DEF Walks
  <2>5. walk' # NoWalk
    BY <2>4 DEF NoWalk
  <2>6. TypeOK' /\ FreshInv' /\ LostInv' /\ PairInv'
    BY <1>2, <1>4, <1>5, <2>3, <2>4, <2>5, IndexLoses DEF TypeOK
  <2>7. WalkInv'
    BY <1>2, <1>4, <1>5, <2>3, <2>4 DEF WalkInv
  <2>8. SizeInv'
    <3>1. PICK C, D, f : C = Counted /\ D = Counted' /\ f = Sizes
      OBVIOUS
    <3>2. D = C \cup {index[k]} /\ index[k] \notin C /\ C \subseteq Entries
      <4>1. \A j \in Keys : index[j] = index[k] => j = k
        BY <1>2, <1>5, CountedFacts
      <4>2. QED
        BY <1>1, <1>2, <1>5, <2>3, <2>4, <3>1, <4>1, CountedFacts DEF Counted, Todo
    <3>3. /\ SumFunctionOnSet(Sizes, D) = fetches[index[k]].size + SumFunctionOnSet(Sizes, D \ {index[k]})
          /\ SumFunctionOnSet(Sizes, D \ {index[k]}) \in Nat
      BY <1>5, <3>2, SumOf
    <3>4. D \ {index[k]} = C
      BY <3>2
    <3>5. SumFunctionOnSet(Sizes, D) = n + SumFunctionOnSet(Sizes, C) /\ SumFunctionOnSet(Sizes, C) \in Nat
      BY <2>1, <3>3, <3>4
    <3>6. SumFunctionOnSet(Sizes, C) <= walk.total + grown
      BY <1>2, <3>1 DEF IInv, SizeInv, Limit
    <3>7. SumFunctionOnSet(Sizes, D) <= (walk.total + n) + grown
      BY <1>2, <2>2, <3>5, <3>6, EntryFacts DEF IInv
    <3>8. Sizes' = Sizes
      BY <1>4, <1>5 DEF Sizes
    <3>9. Limit' = walk.total + n
      BY <2>4, <2>5 DEF Limit, NoWalk
    <3>10. QED
      BY <1>4, <3>1, <3>7, <3>8, <3>9 DEF SizeInv
  <2>9. QED
    BY <2>6, <2>7, <2>8 DEF IInv
<1>8. QED
  BY <1>6, <1>7

(* All has been looked at, and all that is indexed has been counted. *)
LEMMA ScanDoneInv == ASSUME IInv, ScanDone PROVE IInv'
<1>1. /\ walk.phase = "scan" /\ walk.todo = {} /\ walk' = [walk EXCEPT !.phase = "shrink"]
      /\ UNCHANGED <<clock, disabled, fetches, index, grown, outgrown>>
  BY DEF ScanDone
<1>2. /\ walk \in Walks /\ walk # NoWalk /\ walk.now <= clock
      /\ index[walk.keep] = Len(fetches) /\ Len(fetches) \in Entries
      /\ fetches[Len(fetches)].state = "created"
  BY <1>1, WalkFacts
<1>3. /\ walk' \in Walks /\ walk'.now = walk.now /\ walk'.keep = walk.keep
      /\ walk'.phase = "shrink" /\ walk'.todo = {} /\ walk'.total = walk.total
  BY <1>1, <1>2 DEF Walks
<1>4. walk' # NoWalk /\ Entries' = Entries
  BY <1>1, <1>3 DEF NoWalk, Entries
<1>5. TypeOK' /\ FreshInv' /\ LostInv' /\ PairInv'
  BY <1>1, <1>2, <1>3, <1>4, IndexLoses DEF TypeOK, IInv
<1>6. WalkInv'
  BY <1>1, <1>2, <1>3, <1>4 DEF WalkInv
<1>7. SizeInv'
  <2>1. PICK C : C = Counted
    OBVIOUS
  <2>2. Counted' = C
    BY <1>1, <1>3, <2>1 DEF Counted, Todo
  <2>3. Limit' = Limit /\ Sizes' = Sizes
    BY <1>1, <1>2, <1>3, <1>4 DEF Limit, Sizes, NoWalk
  <2>4. QED
    BY <1>1, <2>1, <2>2, <2>3 DEF IInv, SizeInv
<1>8. QED
  BY <1>5, <1>6, <1>7 DEF IInv

(* An entry evicted for size takes as much from what is indexed as from the
   total. *)
LEMMA EvictOldestInv == ASSUME IInv, EvictOldest PROVE IInv'
<1>1. walk.phase = "shrink"
  BY DEF EvictOldest, MustShrink
<1>2. /\ walk \in Walks /\ walk # NoWalk /\ walk.now <= clock
      /\ walk.keep \in Keys /\ walk.total \in Int /\ walk.todo = {}
      /\ index[walk.keep] = Len(fetches) /\ Len(fetches) \in Entries
      /\ fetches[Len(fetches)].state = "created"
  BY <1>1, WalkFacts
<1>3. PICK k \in Oldest : EvictFor(k, fetches[index[k]].size)
  BY DEF EvictOldest
<1>4. PICK n : n = fetches[index[k]].size
  OBVIOUS
<1>5. k \in Keys /\ k # walk.keep /\ index[k] # Absent
  BY <1>3 DEF Oldest, Candidates
<1>6. /\ index' = [index EXCEPT ![k] = Absent] /\ walk' = [walk EXCEPT !.total = walk.total - n]
      /\ outgrown' = outgrown \cup {index[k]}
      /\ UNCHANGED <<clock, disabled, fetches, grown>>
  BY <1>3, <1>4 DEF EvictFor
<1>7. TypeOK /\ Entries' = Entries /\ index[k] \in Entries
  BY <1>5, <1>6 DEF IInv, TypeOK, Entries
<1>8. n \in Nat
  BY <1>4, <1>7, EntryFacts
<1>9. /\ walk' \in Walks /\ walk'.now = walk.now /\ walk'.keep = walk.keep
      /\ walk'.phase = "shrink" /\ walk'.todo = {} /\ walk'.total = walk.total - n
  BY <1>1, <1>2, <1>6, <1>8 DEF Walks
<1>10. walk' # NoWalk
  BY <1>9 DEF NoWalk
<1>11. /\ index' \in [Keys -> {Absent} \cup Entries] /\ index'[k] = Absent
       /\ \A j \in Keys \ {k} : index'[j] = index[j]
  BY <1>5, <1>6, <1>7 DEF TypeOK
<1>12. outgrown' \subseteq Entries /\ outgrown \subseteq outgrown' /\ index[k] \in outgrown'
  BY <1>6, <1>7 DEF TypeOK
<1>13. TypeOK' /\ FreshInv' /\ LostInv' /\ PairInv'
  BY <1>2, <1>5, <1>6, <1>9, <1>10, <1>11, <1>12, IndexLoses
<1>14. WalkInv'
  BY <1>2, <1>5, <1>6, <1>7, <1>9, <1>11 DEF WalkInv
<1>15. SizeInv'
  <2>1. PICK C, D : C = Counted /\ D = Counted'
    OBVIOUS
  <2>2. D = C \ {index[k]} /\ index[k] \in C /\ C \subseteq Entries
    <3>1. \A j \in Keys : index[j] = index[k] => j = k
      BY <1>5, <1>7, CountedFacts
    <3>2. C = {index[j] : j \in Keys} \ {Absent} /\ D = {index'[j] : j \in Keys} \ {Absent}
      BY <1>1, <1>9, <2>1 DEF Counted, Todo
    <3>3. QED
      BY <1>5, <1>7, <1>11, <2>1, <3>1, <3>2, CountedFacts
  <2>3. /\ SumFunctionOnSet(Sizes, C) = fetches[index[k]].size + SumFunctionOnSet(Sizes, C \ {index[k]})
        /\ SumFunctionOnSet(Sizes, C \ {index[k]}) \in Nat
    BY <1>7, <2>2, SumOf
  <2>4. SumFunctionOnSet(Sizes, C) = n + SumFunctionOnSet(Sizes, D) /\ SumFunctionOnSet(Sizes, D) \in Nat
    BY <1>4, <2>2, <2>3
  <2>5. SumFunctionOnSet(Sizes, C) <= walk.total + grown
    BY <1>2, <2>1 DEF IInv, SizeInv, Limit
  <2>6. SumFunctionOnSet(Sizes, D) <= (walk.total - n) + grown
    BY <1>2, <1>8, <2>4, <2>5, EntryFacts DEF IInv
  <2>7. Sizes' = Sizes
    BY <1>6, <1>7 DEF Sizes
  <2>8. Limit' = walk.total - n
    BY <1>9, <1>10 DEF Limit, NoWalk
  <2>9. QED
    BY <1>6, <2>1, <2>6, <2>7, <2>8 DEF SizeInv
<1>16. QED
  BY <1>13, <1>14, <1>15 DEF IInv

(* views deletes only what has expired. *)
LEMMA ViewsInv == ASSUME IInv, Views PROVE IInv'
<1>1. walk = NoWalk /\ UNCHANGED <<clock, disabled, fetches, walk, grown, outgrown>>
  BY DEF Views, Unlocked
<1>2. PICK now \in 0 .. clock :
        \E S \in SUBSET {k \in Keys : index[k] # Absent /\ Expired(index[k], now)} :
            index' = [k \in Keys |-> IF k \in S THEN Absent ELSE index[k]]
  BY DEF Views
<1>3. PICK S \in SUBSET {k \in Keys : index[k] # Absent /\ Expired(index[k], now)} :
         index' = [k \in Keys |-> IF k \in S THEN Absent ELSE index[k]]
  BY <1>2
<1>4. TypeOK /\ Entries' = Entries
  BY <1>1 DEF IInv, Entries
<1>5. now \in Int /\ now <= clock
  BY <1>4, EntryFacts
<1>6. ASSUME NEW k \in Keys
      PROVE  \/ index'[k] = index[k]
             \/ /\ index'[k] = Absent /\ index[k] # Absent
                /\ Flying(index[k]) => Old(index[k], clock)
  <2>1. CASE k \notin S
    BY <1>3, <2>1
  <2>2. CASE k \in S
    <3>1. index[k] \in Entries /\ Expired(index[k], now)
      BY <1>3, <1>4, <2>2 DEF TypeOK
    <3>2. Flying(index[k]) => Old(index[k], clock)
      BY <1>4, <1>5, <3>1, ExpiredIsOld
    <3>3. QED
      BY <1>3, <2>2, <3>2
  <2>3. QED
    BY <2>1, <2>2
<1>7. index' \in [Keys -> {Absent} \cup Entries]
  BY <1>3, <1>4 DEF TypeOK
<1>8. walk'.phase = "none"
  BY <1>1 DEF NoWalk
<1>9. TypeOK' /\ FreshInv' /\ LostInv' /\ PairInv'
  BY <1>1, <1>4, <1>6, <1>7, <1>8, IndexLoses DEF TypeOK
<1>10. WalkInv'
  BY <1>1 DEF WalkInv, NoWalk
<1>11. SizeInv'
  <2>1. PICK C, D : C = Counted /\ D = Counted'
    OBVIOUS
  <2>2. D \subseteq C /\ C \subseteq Entries
    <3>1. C = {index[j] : j \in Keys} \ {Absent} /\ D = {index'[j] : j \in Keys} \ {Absent}
      BY <1>1, <2>1 DEF Counted, Todo, NoWalk
    <3>2. QED
      BY <1>4, <1>6, <2>1, <3>1, CountedFacts
  <2>3. /\ SumFunctionOnSet(Sizes, D) <= SumFunctionOnSet(Sizes, C)
        /\ SumFunctionOnSet(Sizes, C) \in Nat /\ SumFunctionOnSet(Sizes, D) \in Nat
    BY <1>4, <2>2, SumLess
  <2>4. SumFunctionOnSet(Sizes, C) <= MaxBytes + grown
    BY <1>1, <2>1 DEF IInv, SizeInv, Limit
  <2>5. SumFunctionOnSet(Sizes, D) <= MaxBytes + grown
    BY <1>4, <2>3, <2>4, EntryFacts
  <2>6. Sizes' = Sizes /\ Limit' = MaxBytes
    BY <1>1, <1>4 DEF Sizes, Limit, NoWalk
  <2>7. QED
    BY <1>1, <2>1, <2>5, <2>6 DEF SizeInv
<1>12. QED
  BY <1>9, <1>10, <1>11 DEF IInv

(* The walk is over: either the total is low enough, or nothing is left but
   the new entry, which is empty. *)
LEMMA StartFetchInv == ASSUME IInv, StartFetch PROVE IInv'
<1>1. walk.phase = "shrink" /\ UNCHANGED <<clock, disabled, index, grown, outgrown>> /\ walk' = NoWalk
  BY DEF StartFetch
<1>2. PICK d : d = Len(fetches)
  OBVIOUS
<1>3. /\ walk # NoWalk /\ walk.keep \in Keys /\ walk.total \in Int /\ walk.todo = {}
      /\ index[walk.keep] = d /\ d \in Entries /\ fetches[d].state = "created"
  BY <1>1, <1>2, WalkFacts
<1>4. PICK x : x = [fetches[d] EXCEPT !.state = "flying"]
  OBVIOUS
<1>5. TypeOK /\ fetches[d] \in Fetch /\ fetches[d].key = walk.keep /\ fetches[d].size = 0
  BY <1>3, EntryFacts DEF IInv, TypeOK, FreshInv, Absent
<1>6. /\ x \in Fetch /\ x.key = fetches[d].key /\ x.created = fetches[d].created
      /\ x.state = "flying" /\ x.size = fetches[d].size
  BY <1>4, <1>5 DEF Fetch
<1>7. fetches' = [fetches EXCEPT ![d] = x]
  BY <1>3, <1>4 DEF StartFetch
<1>8. /\ fetches' \in Seq(Fetch) /\ Len(fetches') = Len(fetches) /\ Entries' = Entries
      /\ fetches'[d] = x /\ \A e \in Entries : e # d => fetches'[e] = fetches[e]
  BY <1>3, <1>5, <1>6, <1>7, Updated
<1>9. \A e \in Entries : /\ fetches'[e].key = fetches[e].key
                         /\ fetches'[e].created = fetches[e].created
                         /\ fetches'[e].size = fetches[e].size
  BY <1>6, <1>8
<1>10. TypeOK'
  <2>1. \A k \in Keys : index[k] # Absent => fetches'[index[k]].key = k
    BY <1>5, <1>9 DEF TypeOK
  <2>2. walk'.phase = "none"
    BY <1>1 DEF NoWalk
  <2>3. QED
    BY <1>1, <1>5, <1>8, <2>1, <2>2 DEF TypeOK, Fetch
<1>11. WalkInv'
  BY <1>1 DEF WalkInv, NoWalk
<1>12. FreshInv'
  BY <1>2, <1>6, <1>8 DEF IInv, FreshInv
<1>13. LostInv'
  <2>1. index[fetches[d].key] = d
    BY <1>3, <1>5
  <2>2. ASSUME NEW e \in Entries, e # d, Flying(e)', disabled = FALSE
        PROVE  index[fetches[e].key] = e \/ e \in outgrown \/ Old(e, clock)
    BY <1>8, <2>2 DEF IInv, LostInv, Flying
  <2>3. QED
    BY <1>1, <1>8, <1>9, <2>1, <2>2 DEF LostInv, Flying, Old
<1>14. PairInv'
  <2>1. ASSUME NEW e \in Entries, NEW f \in Entries, disabled = FALSE, e < f, Flying(e)',
               fetches'[f].state \in {"flying", "created"}, fetches[e].key = fetches[f].key
        PROVE  e \in outgrown \/ Old(e, fetches[f].created)
    <3>1. e # d
      BY <1>2, <1>5, <2>1, EntryFacts
    <3>2. Flying(e)
      BY <1>8, <2>1, <3>1 DEF Flying
    <3>3. fetches[f].state \in {"flying", "created"}
      BY <1>3, <1>8, <2>1
    <3>4. QED
      BY <2>1, <3>2, <3>3 DEF IInv, PairInv
  <2>2. QED
    BY <1>1, <1>8, <1>9, <2>1 DEF PairInv, Old
<1>15. SizeInv'
  <2>1. PICK C : C = Counted
    OBVIOUS
  <2>2. Counted' = C /\ C = Indexed /\ C \subseteq Entries /\ d \in C
    <3>1. d # Absent
      BY <1>3, EntryFacts DEF IInv, Absent
    <3>2. C = {index[k] : k \in Keys} \ {Absent}
      BY <1>1, <2>1 DEF Counted, Todo
    <3>3. Counted' = {index[k] : k \in Keys} \ {Absent}
      BY <1>1 DEF Counted, Todo, NoWalk
    <3>4. QED
      BY <1>3, <1>5, <2>1, <3>1, <3>2, <3>3, CountedFacts DEF Indexed
  <2>3. SumFunctionOnSet(Sizes', C) = SumFunctionOnSet(Sizes, C)
    BY <1>5, <1>8, <1>9, <2>2, SameSum
  <2>4. SumFunctionOnSet(Sizes, C) <= walk.total + grown /\ SumFunctionOnSet(Sizes, C) \in Nat
    BY <1>3, <1>5, <2>1, <2>2, SumLess DEF IInv, SizeInv, Limit
  <2>5. SumFunctionOnSet(Sizes, C) <= MaxBytes + grown
    <3>1. CASE walk.total <= MaxBytes
      BY <1>3, <1>5, <2>4, <3>1, EntryFacts
    <3>2. CASE Candidates = {}
      <4>1. \A k \in Keys : index[k] # Absent => k = walk.keep
        BY <3>2 DEF Candidates
      <4>2. C \ {d} = {}
        BY <1>3, <2>2, <4>1 DEF Indexed
      <4>3. /\ SumFunctionOnSet(Sizes, C) = fetches[d].size + SumFunctionOnSet(Sizes, C \ {d})
        BY <1>5, <2>2, SumOf
      <4>4. SumFunctionOnSet(Sizes, {}) = 0
        BY SumEmpty
      <4>5. SumFunctionOnSet(Sizes, C) = 0
        BY <1>5, <4>2, <4>3, <4>4
      <4>6. MaxBytes \in Nat /\ grown \in Nat
        BY <1>5, EntryFacts DEF TypeOK
      <4>7. QED
        BY <4>5, <4>6
    <3>3. QED
      BY <3>1, <3>2 DEF StartFetch
  <2>6. Limit' = MaxBytes
    BY <1>1 DEF Limit, NoWalk
  <2>7. QED
    BY <1>1, <2>2, <2>3, <2>5, <2>6 DEF SizeInv
<1>16. QED
  BY <1>10, <1>11, <1>12, <1>13, <1>14, <1>15 DEF IInv

(* A miss replaces an entry only if it has expired. *)
LEMMA GetMissInv == ASSUME IInv, NEW k \in Keys, GetMiss(k) PROVE IInv'
<1>1. /\ walk = NoWalk /\ ~disabled /\ ~Live(k)
      /\ grown' = 0 /\ UNCHANGED <<clock, disabled, outgrown>>
  BY DEF GetMiss, Unlocked
<1>2. PICK m, x : m = Len(fetches) + 1 /\ x = [NewEntry(k) EXCEPT !.state = "created"]
  OBVIOUS
<1>3. /\ fetches' = Append(fetches, x) /\ index' = [index EXCEPT ![k] = m]
      /\ walk' = [phase |-> "scan", keep |-> k, now |-> clock, total |-> 0,
                  todo |-> {key \in Keys : index[key] # Absent} \cup {k}]
  BY <1>2 DEF GetMiss
<1>4. x = [key |-> k, created |-> clock, size |-> 0, state |-> "created"]
  BY <1>2 DEF NewEntry
<1>5. TypeOK /\ x \in Fetch
  <2>1. MaxSize \in Nat
    BY MuxCacheAssumption
  <2>2. 0 \in 0 .. MaxSize
    BY <2>1
  <2>3. QED
    BY <1>4, <2>2 DEF IInv, TypeOK, Fetch
<1>6. /\ fetches' \in Seq(Fetch) /\ Len(fetches') = m /\ Entries' = Entries \cup {m}
      /\ m \notin Entries /\ Absent \notin Entries'
      /\ \A e \in Entries : fetches'[e] = fetches[e] /\ e < m
      /\ fetches'[m] = x
  BY <1>2, <1>3, <1>5, Appended
<1>7. index'[k] = m /\ \A j \in Keys \ {k} : index'[j] = index[j]
  BY <1>3, <1>5 DEF TypeOK
<1>8. /\ walk' \in Walks /\ walk'.phase = "scan" /\ walk'.now = clock /\ walk'.keep = k
      /\ walk'.total = 0 /\ walk'.todo = {key \in Keys : index[key] # Absent} \cup {k}
  BY <1>3, <1>5 DEF Walks, TypeOK
<1>9. walk' # NoWalk
  BY <1>8 DEF NoWalk
<1>10. TypeOK'
  <2>1. index' \in [Keys -> {Absent} \cup Entries']
    BY <1>3, <1>5, <1>6 DEF TypeOK
  <2>2. ASSUME NEW j \in Keys, index'[j] # Absent PROVE fetches'[index'[j]].key = j
    <3>1. CASE j = k
      BY <1>4, <1>6, <1>7, <3>1
    <3>2. CASE j # k
      BY <1>5, <1>6, <1>7, <2>2, <3>2 DEF TypeOK
    <3>3. QED
      BY <3>1, <3>2
  <2>3. QED
    BY <1>1, <1>5, <1>6, <1>8, <2>1, <2>2 DEF TypeOK, Fetch
<1>11. WalkInv'
  <2>1. walk'.now <= clock' /\ clock' = clock
    BY <1>1, <1>5, <1>8, EntryFacts
  <2>2. \A j \in walk'.todo : index'[j] # Absent
    BY <1>6, <1>7, <1>8
  <2>3. fetches'[m].state = "created"
    BY <1>4, <1>6
  <2>4. QED
    BY <1>6, <1>7, <1>8, <2>1, <2>2, <2>3 DEF WalkInv
<1>12. FreshInv'
  <2>1. \A e \in Entries : fetches[e].state # "created"
    BY <1>1 DEF IInv, FreshInv
  <2>2. QED
    BY <1>4, <1>6, <1>9, <2>1 DEF FreshInv, NoWalk
<1>13. disabled = FALSE /\ ~Live(k)
  BY <1>1, <1>5 DEF TypeOK
<1>14. ASSUME NEW d \in Entries, Flying(d)
       PROVE  index'[fetches[d].key] = d \/ d \in outgrown \/ Old(d, clock)
  <2>1. index[fetches[d].key] = d \/ d \in outgrown \/ Old(d, clock)
    BY <1>13, <1>14 DEF IInv, LostInv
  <2>2. CASE fetches[d].key = k /\ index[k] = d
    <3>1. Expired(d, clock)
      BY <1>5, <1>6, <1>13, <2>2 DEF Live
    <3>2. clock \in Int /\ clock <= clock
      BY <1>5, EntryFacts
    <3>3. QED
      BY <1>5, <1>14, <3>1, <3>2, ExpiredIsOld
  <2>3. CASE ~(fetches[d].key = k /\ index[k] = d)
    <3>1. fetches[d].key \in Keys
      BY <1>5, EntryFacts
    <3>2. QED
      BY <1>7, <2>1, <2>3, <3>1
  <2>4. QED
    BY <2>2, <2>3
<1>15. LostInv'
  BY <1>1, <1>4, <1>6, <1>14 DEF LostInv, Flying, Old
<1>16. PairInv'
  <2>1. ASSUME NEW d \in Entries', NEW e \in Entries', d < e, Flying(d)',
               fetches'[e].state \in {"flying", "created"}, fetches'[d].key = fetches'[e].key
        PROVE  d \in outgrown \/ Old(d, fetches[e].created)'
    <3>1. d \in Entries /\ Flying(d)
      BY <1>4, <1>6, <2>1 DEF Flying
    <3>2. fetches'[d] = fetches[d]
      BY <1>6, <3>1
    <3>3. CASE e \in Entries
      BY <1>6, <1>13, <2>1, <3>1, <3>2, <3>3 DEF IInv, PairInv, Old
    <3>4. CASE e = m
      <4>1. fetches[d].key = k /\ index'[k] # d /\ fetches'[e].created = clock
        BY <1>4, <1>6, <1>7, <2>1, <3>1, <3>2, <3>4
      <4>2. d \in outgrown \/ Old(d, clock)
        BY <1>14, <3>1, <4>1
      <4>3. QED
        BY <3>2, <4>1, <4>2 DEF Old
    <3>5. QED
      BY <1>6, <3>3, <3>4
  <2>2. QED
    BY <1>1, <2>1 DEF PairInv
<1>17. SizeInv'
  <2>1. Counted' = {}
    BY <1>7, <1>8 DEF Counted, Todo
  <2>2. SumFunctionOnSet(Sizes', {}) = 0
    BY SumEmpty
  <2>3. Limit' = 0
    BY <1>8, <1>9 DEF Limit, NoWalk
  <2>4. QED
    BY <1>1, <2>1, <2>2, <2>3 DEF SizeInv
<1>18. QED
  BY <1>10, <1>11, <1>12, <1>15, <1>16, <1>17 DEF IInv

(* An entry that only its caller knows changes nothing for the others. *)
LEMMA GetDisabledInv == ASSUME IInv, NEW k \in Keys, GetDisabled(k) PROVE IInv'
<1>1. /\ walk = NoWalk /\ disabled
      /\ UNCHANGED <<clock, disabled, index, walk, grown, outgrown>>
  BY DEF GetDisabled, Unlocked
<1>2. PICK m, x : m = Len(fetches) + 1 /\ x = NewEntry(k)
  OBVIOUS
<1>3. /\ fetches' = Append(fetches, x)
      /\ x = [key |-> k, created |-> clock, size |-> 0, state |-> "flying"]
  BY <1>2 DEF GetDisabled, NewEntry
<1>4. TypeOK /\ x \in Fetch
  <2>1. MaxSize \in Nat
    BY MuxCacheAssumption
  <2>2. 0 \in 0 .. MaxSize
    BY <2>1
  <2>3. QED
    BY <1>3, <2>2 DEF IInv, TypeOK, Fetch
<1>5. /\ fetches' \in Seq(Fetch) /\ Len(fetches') = m /\ Entries' = Entries \cup {m}
      /\ m \notin Entries /\ Absent \notin Entries'
      /\ \A e \in Entries : fetches'[e] = fetches[e] /\ e < m
      /\ fetches'[m] = x
  BY <1>2, <1>3, <1>4, Appended
<1>6. TypeOK'
  <2>1. index \in [Keys -> {Absent} \cup Entries']
    BY <1>4, <1>5 DEF TypeOK
  <2>2. \A j \in Keys : index[j] # Absent => fetches'[index[j]].key = j
    BY <1>4, <1>5 DEF TypeOK
  <2>3. QED
    BY <1>1, <1>4, <1>5, <2>1, <2>2 DEF TypeOK, Fetch
<1>7. WalkInv'
  BY <1>1 DEF WalkInv, NoWalk
<1>8. FreshInv'
  <2>1. \A e \in Entries : fetches[e].state # "created"
    BY <1>1 DEF IInv, FreshInv
  <2>2. x.state # "created"
    BY <1>3
  <2>3. \A e \in Entries' : fetches'[e].state # "created"
    BY <1>5, <2>1, <2>2
  <2>4. QED
    BY <2>3 DEF FreshInv
<1>9. LostInv' /\ PairInv'
  BY <1>1 DEF LostInv, PairInv
<1>10. SizeInv'
  <2>1. PICK C : C = Counted
    OBVIOUS
  <2>2. Counted' = C /\ Limit' = Limit /\ C \subseteq Entries
    BY <1>1, <1>4, <2>1, CountedFacts DEF Counted, Todo, Limit, NoWalk
  <2>3. SumFunctionOnSet(Sizes', C) = SumFunctionOnSet(Sizes, C)
    BY <1>4, <1>5, <2>2, SameSum
  <2>4. QED
    BY <1>1, <2>1, <2>2, <2>3 DEF IInv, SizeInv
<1>11. QED
  BY <1>6, <1>7, <1>8, <1>9, <1>10 DEF IInv

(* An empty cache, that nobody walks. *)
LEMMA InitInv == Init => IInv
<1>1. SUFFICES ASSUME Init PROVE IInv
  OBVIOUS
<1>2. MaxClock \in Nat /\ MaxBytes \in Nat
  BY MuxCacheAssumption
<1>3. fetches = <<>> /\ walk = NoWalk /\ Entries = {} /\ Counted = {} /\ grown = 0
  BY <1>1 DEF Init, Entries, Counted, Todo, NoWalk
<1>4. TypeOK
  BY <1>1, <1>2, <1>3 DEF Init, TypeOK, NoWalk
<1>5. SizeInv
  <2>1. SumFunctionOnSet(Sizes, {}) = 0
    BY SumEmpty
  <2>2. QED
    BY <1>2, <1>3, <2>1 DEF SizeInv, Limit
<1>6. QED
  BY <1>3, <1>4, <1>5 DEF IInv, WalkInv, FreshInv, LostInv, PairInv

(* What the invariant says stays true when nothing changes. *)
LEMMA StutterInv == ASSUME IInv, UNCHANGED vars PROVE IInv'
<1>1. UNCHANGED <<clock, disabled, fetches, index, walk, grown, outgrown>>
  BY DEF vars
<1>2. TypeOK' /\ WalkInv' /\ FreshInv'
  BY <1>1 DEF IInv, TypeOK, WalkInv, FreshInv, Entries, NoWalk
<1>3. LostInv' /\ PairInv'
  BY <1>1 DEF IInv, LostInv, PairInv, Entries, Flying, Old
<1>4. SizeInv'
  BY <1>1 DEF IInv, SizeInv, Sizes, Counted, Todo, Limit, Entries, NoWalk
<1>5. QED
  BY <1>2, <1>3, <1>4 DEF IInv

(* Every step of the cache keeps the invariant. *)
LEMMA NextInv == ASSUME IInv, [Next]_vars PROVE IInv'
<1>1. ASSUME NEW k \in Keys, Hit(k) PROVE IInv'
  BY <1>1, StutterInv DEF Hit
<1>2. QED
  BY <1>1, GetDisabledInv, GetMissInv, ScanInv, ScanDoneInv, EvictOldestInv, StartFetchInv,
     ViewsInv, GrowInv, EndInv, TickInv, StutterInv DEF Next, Walk

-----------------------------------------------------------------------------
(* The inductive invariant: what a walk has counted, what has been lost from
   the index and why, and whose fetch has not been started yet. *)
THEOREM Invariance == Spec => []IInv
<1>1. Init => IInv
  BY InitInv
<1>2. IInv /\ [Next]_vars => IInv'
  BY NextInv
<1>3. QED
  BY <1>1, <1>2, PTL DEF Spec

(* Every variable has its type, and every entry is indexed under its own key. *)
THEOREM Typed == Spec => []TypeOK
<1>1. IInv => TypeOK
  BY DEF IInv
<1>2. QED
  BY <1>1, Invariance, PTL

(* Requests for a key share one fetch in flight, except where the first is past
   its TTL or was evicted for size while it ran (mux.go:18-19). *)
THEOREM DuplicatesAreExplained == Spec => []DuplicatesExplained
<1>1. IInv => DuplicatesExplained
  <2>1. SUFFICES ASSUME IInv, ~disabled, NEW d \in Entries, NEW e \in Entries,
                        d < e, Flying(d), Flying(e), fetches[d].key = fetches[e].key
                 PROVE  \/ fetches[e].created - fetches[d].created > TTL[fetches[e].key]
                        \/ d \in outgrown
    BY DEF DuplicatesExplained
  <2>2. disabled = FALSE
    BY <2>1 DEF IInv, TypeOK
  <2>3. fetches[e].state \in {"flying", "created"}
    BY <2>1 DEF Flying
  <2>4. d \in outgrown \/ Old(d, fetches[e].created)
    BY <2>1, <2>2, <2>3 DEF IInv, PairInv
  <2>5. QED
    BY <2>1, <2>4 DEF Old
<1>2. QED
  BY <1>1, Invariance, PTL

(* Between two misses the cache is over its limit by no more than what was
   received since the last walk began (mux.go: evict), although the walk
   measures each entry at another moment. *)
THEOREM OvershootIsReceived == Spec => []Overshoot
<1>1. IInv => Overshoot
  <2>1. SUFFICES ASSUME IInv, walk = NoWalk
                 PROVE  SumFunctionOnSet(Sizes, Indexed) <= MaxBytes + grown
    BY DEF Overshoot, Unlocked, Sizes
  <2>2. Counted = Indexed
    BY <2>1 DEF Counted, Todo, Indexed, NoWalk
  <2>3. QED
    BY <2>1, <2>2 DEF IInv, SizeInv, Limit
<1>2. QED
  BY <1>1, Invariance, PTL

(* The entry that a miss returns is in the index when its fetch is started, and
   no other entry waits for its fetch (mux.go: get, evict). *)
THEOREM NewEntriesAreShared == Spec => []NewEntryIsShared
<1>1. IInv => NewEntryIsShared
  <2>1. SUFFICES ASSUME IInv PROVE NewEntryIsShared
    OBVIOUS
  <2>2. TypeOK /\ Absent \notin Entries
    BY <2>1, EntryFacts DEF IInv, Absent
  <2>3. walk.phase # "none" =>
            index[walk.keep] # Absent /\ fetches[index[walk.keep]].state = "created"
    BY <2>1, <2>2, WalkFacts
  <2>4. ASSUME NEW k \in Keys, index[k] # Absent, fetches[index[k]].state = "created"
        PROVE  walk.phase # "none" /\ walk.keep = k
    <3>1. index[k] \in Entries
      BY <2>2, <2>4 DEF TypeOK
    <3>2. index[k] = Len(fetches) /\ walk # NoWalk
      BY <2>1, <2>4, <3>1 DEF IInv, FreshInv
    <3>3. walk \in Walks
      BY <2>1, <3>2 DEF IInv, WalkInv
    <3>4. walk.phase # "none" /\ walk.keep \in Keys
      BY <3>3 DEF Walks
    <3>5. index[walk.keep] = Len(fetches)
      BY <2>1, <3>4, WalkFacts
    <3>6. QED
      BY <2>2, <2>4, <3>2, <3>4, <3>5, CountedFacts
  <2>5. QED
    BY <2>3, <2>4 DEF NewEntryIsShared
<1>2. QED
  BY <1>1, Invariance, PTL
=============================================================================
