--------------------------- MODULE PlaylistsProofs ---------------------------
(***************************************************************************)
(* Proofs about Playlists, for any resolutions, bandwidths and hosts and   *)
(* for masters of any length.  RewriteMaster is a fold, a recursive        *)
(* function over sets of lines: first it is shown to go from line to line, *)
(* then what holds of the lines written so far.                            *)
(***************************************************************************)
EXTENDS Playlists, SequenceTheorems, WellFoundedInduction, TLAPS

(* A master is any sequence of lines; a URI is listed in a playlist that has a
   directory. *)
Directories == {<<>>, <<"live">>, <<"live", "plain">>}
ListedUris ==
    [base : {Url(host, Append(dir, "index"), "token") : host \in Hosts, dir \in Directories},
     ref : References]
IInv == master \in Seq(Lines) /\ listed \in {Nothing} \cup ListedUris

-----------------------------------------------------------------------------
(* A set of natural numbers that is not empty has a least element. *)
LEMMA LeastNatural ==
    ASSUME NEW S \in SUBSET Nat, S # {}
    PROVE  \E n \in S : \A m \in S : n <= m
<1>1. PICK n \in S : \A m \in S : ~(<<m, n>> \in OpToRel(<, Nat))
  BY WFMin, NatLessThanWellFounded
<1>2. \A m \in S : <<m, n>> \in OpToRel(<, Nat) <=> m < n
  BY DEF OpToRel
<1>3. \A m \in S : ~(m < n)
  BY <1>1, <1>2
<1>4. QED
  BY <1>3

(* Induction: what holds 0 and every successor of what it holds holds every
   natural number. *)
LEMMA NaturalsBySuccessor ==
    ASSUME NEW S, 0 \in S, \A n \in Nat : n \in S => n + 1 \in S
    PROVE  \A n \in Nat : n \in S
<1> SUFFICES ASSUME Nat \ S # {} PROVE FALSE
  OBVIOUS
<1>1. PICK n \in Nat \ S : \A m \in Nat \ S : n <= m
  BY LeastNatural
<1>2. n - 1 \in Nat /\ n - 1 \notin Nat \ S
  BY <1>1
<1>3. QED
  BY <1>1, <1>2

(* One step of the fold behind RewriteMaster, over the lines in s: g is the
   result for fewer of them. *)
NoLines == [out |-> <<>>, res |-> NoResolution]
FoldStep(lines, g, s) ==
    IF s = {} THEN NoLines
    ELSE LET n == Max(s) IN RewriteLine(lines, g[s \ {n}], [i \in DOMAIN lines |-> i][n])

(* A bounded set of positive numbers has a greatest element. *)
LEMMA Greatest ==
    ASSUME NEW n \in Nat, NEW S \in SUBSET (1 .. n), S # {}
    PROVE  Max(S) \in S /\ \A x \in S : x <= Max(S)
<1> DEFINE Bounds == {b \in Nat : \A x \in S : x <= b}
<1>1. n \in Bounds
  OBVIOUS
<1>2. PICK b \in Bounds : \A c \in Bounds : b <= c
  BY <1>1, LeastNatural
<1>3. b \in S
  <2>1. SUFFICES ASSUME b \notin S PROVE FALSE
    OBVIOUS
  <2>2. \A x \in S : x <= b - 1
    BY <1>2, <2>1
  <2>3. b - 1 \in Nat
    <3>1. PICK x \in S : TRUE
      OBVIOUS
    <3>2. x \in Nat /\ 1 <= x /\ x <= b /\ b \in Nat
      BY <1>2, <3>1
    <3>3. QED
      BY <3>2
  <2>4. QED
    BY <1>2, <2>2, <2>3
<1>4. \E x \in S : \A y \in S : x >= y
  BY <1>2, <1>3
<1>5. Max(S) \in S /\ \A y \in S : Max(S) >= y
  BY <1>4 DEF Max
<1>6. QED
  BY <1>5

(* The fold is defined: its result for lines up to n + 1 is made from the one
   for lines up to n. *)
LEMMA FoldExists ==
    ASSUME NEW lines
    PROVE  \A n \in Nat : \E g : g = [s \in SUBSET (1 .. n) |-> FoldStep(lines, g, s)]
<1> DEFINE P(n) == SUBSET (1 .. n)
           Folded(g, n) == g = [s \in P(n) |-> FoldStep(lines, g, s)]
           N == {n \in Nat : \E g : Folded(g, n)}
<1>1. 0 \in N
  <2> DEFINE g == [s \in P(0) |-> NoLines]
  <2>1. \A s \in P(0) : s = {}
    OBVIOUS
  <2>2. g = [s \in P(0) |-> FoldStep(lines, g, s)]
    BY <2>1, Zenon DEF FoldStep
  <2>3. QED
    BY <2>2
<1>2. ASSUME NEW n \in Nat, n \in N PROVE n + 1 \in N
  <2>1. PICK g : Folded(g, n)
    BY <1>2
  <2> DEFINE h == [s \in P(n + 1) |-> FoldStep(lines, g, s)]
  <2>2. ASSUME NEW s \in P(n + 1) PROVE FoldStep(lines, h, s) = FoldStep(lines, g, s)
    <3>1. CASE s = {}
      BY <3>1 DEF FoldStep
    <3>2. CASE s # {}
      <4>1. PICK m : m = Max(s)
        OBVIOUS
      <4>2. m \in s /\ \A x \in s : x <= m
        <5>1. n + 1 \in Nat /\ s \in SUBSET (1 .. (n + 1))
          OBVIOUS
        <5>2. QED
          BY <3>2, <4>1, <5>1, Greatest
      <4>3. s \ {m} \in P(n) /\ s \ {m} \in P(n + 1)
        BY <4>2
      <4>4. g[s \ {m}] = FoldStep(lines, g, s \ {m})
        BY <2>1, <4>3
      <4>5. h[s \ {m}] = g[s \ {m}]
        BY <4>3, <4>4
      <4>6. QED
        BY <3>2, <4>1, <4>5 DEF FoldStep
    <3>3. QED
      BY <3>1, <3>2
  <2>3. Folded(h, n + 1)
    BY <2>2, Zenon
  <2>4. \E k : Folded(k, n + 1)
    <3> HIDE DEF Folded
    <3>1. QED
      BY <2>3, Zenon
  <2>5. QED
    BY <2>4
<1>3. \A n \in Nat : n \in N
  <2> HIDE DEF N
  <2>1. QED
    BY <1>1, <1>2, NaturalsBySuccessor
<1>4. QED
  BY <1>3

(* The function that RewriteMaster takes, and what it is for the first lines. *)
FoldFcn(lines) == CHOOSE g : g = [s \in SUBSET DOMAIN lines |-> FoldStep(lines, g, s)]
Rewritten(lines, n) == FoldFcn(lines)[1 .. n]

(* RewriteMaster goes through the lines one by one (stream.go:
   rewriteMasterPlaylist). *)
LEMMA RewriteUnfold == ASSUME NEW lines PROVE RewriteMaster(lines) = FoldFcn(lines)[DOMAIN lines].out
BY DEF RewriteMaster, FoldLeftDomain, FoldLeft, MapThenFoldSet, FoldStep, FoldFcn, NoLines

(* It is RewriteLine of the line, and of what it was before. *)
LEMMA RewriteSteps ==
    ASSUME NEW S, NEW lines \in Seq(S)
    PROVE  /\ RewriteMaster(lines) = Rewritten(lines, Len(lines)).out
           /\ Rewritten(lines, 0) = NoLines
           /\ \A n \in 1 .. Len(lines) :
                Rewritten(lines, n) = RewriteLine(lines, Rewritten(lines, n - 1), n)
<1> DEFINE D(g) == g = [s \in SUBSET DOMAIN lines |-> FoldStep(lines, g, s)]
<1>1. DOMAIN lines = 1 .. Len(lines) /\ Len(lines) \in Nat
  BY LenProperties
<1>2. \E g : D(g)
  <2>1. \E g : g = [s \in SUBSET (1 .. Len(lines)) |-> FoldStep(lines, g, s)]
    BY <1>1, FoldExists
  <2>2. QED
    BY <1>1, <2>1
<1>3. D(FoldFcn(lines))
  <2> SUFFICES D(CHOOSE g : D(g))
    BY DEF FoldFcn
  <2> HIDE DEF D
  <2>1. QED
    BY <1>2
<1>4. PICK g : g = FoldFcn(lines)
  OBVIOUS
<1>5. \A s \in SUBSET (1 .. Len(lines)) : g[s] = FoldStep(lines, g, s)
  BY <1>1, <1>3, <1>4
<1>6. g[{}] = NoLines
  BY <1>5 DEF FoldStep
<1>7. ASSUME NEW n \in 1 .. Len(lines) PROVE g[1 .. n] = RewriteLine(lines, g[1 .. (n - 1)], n)
  <2>1. 1 .. n \in SUBSET (1 .. Len(lines)) /\ 1 .. n # {} /\ n \in Nat
    <3>1. n \in Nat /\ 1 <= n /\ n <= Len(lines)
      BY <1>1
    <3>2. n \in 1 .. n /\ \A x \in 1 .. n : x \in 1 .. Len(lines)
      BY <1>1, <3>1
    <3>3. QED
      BY <3>1, <3>2
  <2>2. Max(1 .. n) = n
    <3>1. PICK m : m = Max(1 .. n)
      OBVIOUS
    <3>2. m \in 1 .. n /\ \A x \in 1 .. n : x <= m
      BY <2>1, <3>1, Greatest
    <3>3. QED
      BY <2>1, <3>1, <3>2
  <2>3. (1 .. n) \ {n} = 1 .. (n - 1)
    BY <2>1
  <2>4. [i \in DOMAIN lines |-> i][n] = n
    BY <1>1
  <2>5. QED
    BY <1>5, <2>1, <2>2, <2>3, <2>4 DEF FoldStep
<1>8. 1 .. 0 = {}
  OBVIOUS
<1>9. QED
  BY <1>1, <1>4, <1>6, <1>7, <1>8, RewriteUnfold DEF Rewritten


-----------------------------------------------------------------------------
(* The first URI after a line (nos.go: parseVariants). *)
LEMMA NextUriFacts ==
    ASSUME NEW S, NEW lines \in Seq(S), NEW i \in 1 .. Len(lines), NextUri(lines, i) # 0
    PROVE  LET u == NextUri(lines, i) IN
           /\ u \in 1 .. Len(lines) /\ i < u /\ IsUri(lines[u])
           /\ \A j \in 1 .. Len(lines) : i < j /\ IsUri(lines[j]) => u <= j
<1>1. PICK n \in Nat : n = Len(lines)
  BY LenProperties
<1>2. i \in 1 .. n /\ i + 1 \in Nat
  BY <1>1
<1> DEFINE F == {j \in i + 1 .. n : IsUri(lines[j])}
<1>3. NextUri(lines, i) = IF F = {} THEN 0 ELSE Min(F)
  BY <1>1, <1>2 DEF NextUri, SelectInSubSeq
<1>4. F # {} /\ F \in SUBSET Nat
  BY <1>2, <1>3
<1>5. PICK m \in F : \A j \in F : m <= j
  BY <1>4, LeastNatural
<1>6. Min(F) \in F /\ \A j \in F : Min(F) <= j
  BY <1>5 DEF Min
<1>7. PICK u : u = NextUri(lines, i)
  OBVIOUS
<1>8. u \in F /\ \A j \in F : u <= j
  BY <1>3, <1>4, <1>6, <1>7
<1>9. /\ u \in 1 .. n /\ i < u /\ IsUri(lines[u])
      /\ \A j \in 1 .. n : i < j /\ IsUri(lines[j]) => u <= j
  BY <1>2, <1>8
<1>10. QED
  BY <1>1, <1>7, <1>9

(* What rewriteMasterPlaylist has written after the first n lines: tags with a
   resolution, all of them, and after each the path of its resolution in place
   of the URI that follows it, once that URI has been read; until then the
   resolution is remembered. *)
Items(n) == [line : 1 .. n, path : Resolutions \cup {NoResolution}]
Typed(acc, n) == acc \in [out : Seq(Items(n)), res : Resolutions \cup {NoResolution}]
Chosen(lines, acc, n) ==
    /\ \A k \in 1 .. Len(acc.out) :
         lines[acc.out[k].line].tag = "inf" => lines[acc.out[k].line].res # NoResolution
    /\ \A i \in 1 .. n : lines[i].tag = "inf" /\ lines[i].res # NoResolution =>
         \E k \in 1 .. Len(acc.out) : acc.out[k].line = i
NoUri(lines, out, from, to) == \A l \in from .. to : ~IsUri(lines[out[l].line])
Followed(lines, acc, n, k) ==
    LET i == acc.out[k].line
        u == NextUri(lines, i)
    IN  lines[i].tag = "inf" =>
          \/ n < u /\ acc.res = lines[i].res /\ NoUri(lines, acc.out, k + 1, Len(acc.out))
          \/ u <= n /\ \E l \in k + 1 .. Len(acc.out) :
               acc.out[l] = [line |-> u, path |-> lines[i].res] /\ NoUri(lines, acc.out, k + 1, l - 1)
RewriteInv(lines, acc, n) ==
    /\ Typed(acc, n) /\ Chosen(lines, acc, n)
    /\ WellFormed(lines) => \A k \in 1 .. Len(acc.out) : Followed(lines, acc, n, k)

(* Every line is followed by its URI at another place. *)
LEMMA UriOfTag ==
    ASSUME NEW lines \in Seq(Lines), WellFormed(lines), NEW i \in 1 .. Len(lines), lines[i].tag = "inf"
    PROVE  LET u == NextUri(lines, i) IN
           /\ u \in 1 .. Len(lines) /\ i < u /\ lines[u].tag = "uri"
           /\ \A j \in 1 .. Len(lines) : i < j /\ lines[j].tag = "uri" => u <= j
           /\ \A j \in 1 .. Len(lines) : i < j /\ lines[j].tag = "inf" => u <= j
<1>1. PICK u : u = NextUri(lines, i)
  OBVIOUS
<1>2. PICK n \in Nat : n = Len(lines) /\ DOMAIN lines = 1 .. n
  BY LenProperties
<1>3. i \in Infs(lines)
  BY <1>2 DEF Infs
<1>4. u # 0 /\ \A j \in Infs(lines) : ~(i < j /\ j < u)
  BY <1>1, <1>3 DEF WellFormed
<1>5. /\ u \in 1 .. n /\ i < u /\ IsUri(lines[u])
      /\ \A j \in 1 .. n : i < j /\ IsUri(lines[j]) => u <= j
  BY <1>1, <1>2, <1>4, NextUriFacts
<1>6. \A j \in 1 .. n : i < j /\ lines[j].tag = "inf" => u <= j
  BY <1>2, <1>4, <1>5 DEF Infs
<1>7. QED
  BY <1>1, <1>2, <1>5, <1>6 DEF IsUri

(* Nothing is written about a line that does not go with what is before it. *)
LEMMA Extension ==
    ASSUME NEW lines \in Seq(Lines), NEW n \in Nat, n + 1 <= Len(lines), WellFormed(lines),
           NEW acc, RewriteInv(lines, acc, n), NEW b,
           NEW L \in Nat, NEW M \in Nat, L = Len(acc.out), M = Len(b.out), L <= M,
           \A k \in 1 .. L : b.out[k] = acc.out[k],
           NEW k \in 1 .. L, lines[acc.out[k].line].tag = "inf",
           LET u == NextUri(lines, acc.out[k].line) IN
           n < u => \/ /\ n + 1 < u /\ b.res = acc.res
                       /\ \A l \in L + 1 .. M : lines[b.out[l].line].tag # "uri"
                    \/ /\ u = n + 1 /\ M = L + 1
                       /\ b.out[M] = [line |-> u, path |-> lines[acc.out[k].line].res]
    PROVE  Followed(lines, b, n + 1, k)
<1>1. PICK i, u : i = acc.out[k].line /\ u = NextUri(lines, i)
  OBVIOUS
<1>2. b.out[k].line = i /\ lines[i].tag = "inf"
  BY <1>1
<1>3. n \in Int /\ L \in Int /\ M \in Int /\ k \in Int /\ 1 <= k /\ k <= L
  OBVIOUS
<1>4. u \in Int
  <2>1. acc.out \in Seq(Items(n))
    BY DEF RewriteInv, Typed
  <2>2. i \in 1 .. n
    <3>1. acc.out[k] \in Items(n)
      BY <2>1, ElementOfSeq
    <3>2. QED
      BY <1>1, <3>1 DEF Items
  <2>3. Len(lines) \in Nat
    BY LenProperties
  <2>4. i \in 1 .. Len(lines)
    BY <2>2, <2>3
  <2>5. QED
    BY <1>1, <1>2, <2>3, <2>4, UriOfTag
<1>5. \/ n < u /\ acc.res = lines[i].res /\ NoUri(lines, acc.out, k + 1, L)
      \/ u <= n /\ \E l \in k + 1 .. L :
           acc.out[l] = [line |-> u, path |-> lines[i].res] /\ NoUri(lines, acc.out, k + 1, l - 1)
  BY <1>1, <1>2 DEF RewriteInv, Followed
<1> DEFINE Goal == \/ n + 1 < u /\ b.res = lines[i].res /\ NoUri(lines, b.out, k + 1, M)
                   \/ u <= n + 1 /\ \E l \in k + 1 .. M :
                        b.out[l] = [line |-> u, path |-> lines[i].res] /\ NoUri(lines, b.out, k + 1, l - 1)
<1>6. ASSUME n + 1 < u PROVE Goal
  <2>1. /\ b.res = acc.res /\ \A l \in L + 1 .. M : lines[b.out[l].line].tag # "uri"
        /\ acc.res = lines[i].res /\ NoUri(lines, acc.out, k + 1, L)
    BY <1>1, <1>3, <1>4, <1>5, <1>6
  <2>2. NoUri(lines, b.out, k + 1, M)
    <3>1. \A l \in k + 1 .. M : l \in L + 1 .. M \/ (l \in k + 1 .. L /\ l \in 1 .. L)
      BY <1>3
    <3>2. QED
      BY <2>1, <3>1 DEF NoUri, IsUri
  <2>3. QED
    BY <1>6, <2>1, <2>2
<1>7. ASSUME u = n + 1 PROVE Goal
  <2>1. /\ M = L + 1 /\ b.out[M] = [line |-> u, path |-> lines[i].res]
        /\ NoUri(lines, acc.out, k + 1, L)
    BY <1>1, <1>3, <1>4, <1>5, <1>7
  <2>2. M \in k + 1 .. M /\ M - 1 = L
    BY <1>3, <2>1
  <2>3. NoUri(lines, b.out, k + 1, M - 1)
    BY <1>3, <2>1, <2>2 DEF NoUri
  <2>4. QED
    BY <1>3, <1>7, <2>1, <2>2, <2>3
<1>8. ASSUME u <= n PROVE Goal
  <2>1. PICK l \in k + 1 .. L :
           acc.out[l] = [line |-> u, path |-> lines[i].res] /\ NoUri(lines, acc.out, k + 1, l - 1)
    BY <1>3, <1>4, <1>5, <1>8
  <2>2. l \in 1 .. L /\ l \in k + 1 .. M
    BY <1>3
  <2>3. b.out[l] = [line |-> u, path |-> lines[i].res]
    BY <2>1, <2>2
  <2>4. NoUri(lines, b.out, k + 1, l - 1)
    <3>1. \A j \in k + 1 .. l - 1 : j \in 1 .. L
      BY <1>3, <2>2
    <3>2. QED
      BY <2>1, <3>1 DEF NoUri
  <2>5. QED
    BY <1>3, <1>4, <1>8, <2>2, <2>3, <2>4
<1>9. Goal
  BY <1>3, <1>4, <1>6, <1>7, <1>8
<1>10. QED
  BY <1>1, <1>2, <1>9 DEF Followed

(* What is chosen stays so when at most one more item is written, the next line
   if that is a tag with a resolution. *)
LEMMA ChosenKept ==
    ASSUME NEW lines, NEW n \in Nat, NEW acc, Chosen(lines, acc, n), NEW b,
           NEW L \in Nat, NEW M \in Nat, L = Len(acc.out), M = Len(b.out), L <= M,
           \A k \in 1 .. L : b.out[k] = acc.out[k],
           \A k \in L + 1 .. M : b.out[k].line = n + 1,
           lines[n + 1].tag = "inf" => (M = L + 1 <=> lines[n + 1].res # NoResolution),
           M <= L + 1
    PROVE  Chosen(lines, b, n + 1)
<1>1. ASSUME NEW k \in 1 .. M, lines[b.out[k].line].tag = "inf"
      PROVE  lines[b.out[k].line].res # NoResolution
  <2>1. CASE k \in 1 .. L
    BY <1>1, <2>1 DEF Chosen
  <2>2. CASE k \notin 1 .. L
    <3>1. k \in L + 1 .. M /\ M = L + 1
      BY <2>2
    <3>2. QED
      BY <1>1, <3>1
  <2>3. QED
    BY <2>1, <2>2
<1>2. ASSUME NEW i \in 1 .. (n + 1), lines[i].tag = "inf", lines[i].res # NoResolution
      PROVE  \E k \in 1 .. M : b.out[k].line = i
  <2>1. CASE i \in 1 .. n
    <3>1. PICK k \in 1 .. L : acc.out[k].line = i
      BY <1>2, <2>1 DEF Chosen
    <3>2. k \in 1 .. M
      OBVIOUS
    <3>3. QED
      BY <3>1, <3>2
  <2>2. CASE i \notin 1 .. n
    <3>1. i = n + 1
      BY <2>2
    <3>2. M = L + 1 /\ M \in L + 1 .. M /\ M \in 1 .. M
      BY <1>2, <3>1
    <3>3. QED
      BY <3>1, <3>2
  <2>3. QED
    BY <2>1, <2>2
<1>3. QED
  BY <1>1, <1>2 DEF Chosen

(* An item is appended, or none is. *)
LEMMA Written ==
    ASSUME NEW n \in Nat, NEW out \in Seq(Items(n)), NEW item \in Items(n + 1)
    PROVE  /\ Len(out) \in Nat /\ out \in Seq(Items(n + 1))
           /\ Append(out, item) \in Seq(Items(n + 1)) /\ Len(Append(out, item)) = Len(out) + 1
           /\ \A k \in 1 .. Len(out) : Append(out, item)[k] = out[k] /\ out[k] \in Items(n)
           /\ Append(out, item)[Len(out) + 1] = item
<1>1. Items(n) \subseteq Items(n + 1)
  BY DEF Items
<1>2. out \in Seq(Items(n + 1))
  <2> HIDE DEF Items
  <2>1. QED
    BY <1>1
<1>3. QED
  BY <1>2, AppendProperties, LenProperties, ElementOfSeq

(* Rewriting a line keeps the invariant (stream.go: the loop of
   rewriteMasterPlaylist). *)
LEMMA LineInv ==
    ASSUME NEW lines \in Seq(Lines), NEW n \in Nat, n + 1 <= Len(lines),
           NEW acc, RewriteInv(lines, acc, n)
    PROVE  RewriteInv(lines, RewriteLine(lines, acc, n + 1), n + 1)
<1> DEFINE line == lines[n + 1]
           kept == [line |-> n + 1, path |-> NoResolution]
<1>1. PICK o \in Seq(Items(n)), r \in Resolutions \cup {NoResolution} : acc = [out |-> o, res |-> r]
  BY DEF RewriteInv, Typed
<1>2. PICK b : b = RewriteLine(lines, acc, n + 1)
  OBVIOUS
<1>3. PICK N \in Nat : N = Len(lines) /\ n + 1 \in 1 .. N /\ lines[n + 1] \in Lines
  BY LenProperties, ElementOfSeq
<1>4. PICK L \in Nat : L = Len(o)
  BY LenProperties
<1>5. /\ acc.out = o /\ acc.res = r /\ L = Len(acc.out)
      /\ n \in Int /\ L \in Int /\ N \in Int /\ L + 1 \in Nat
  BY <1>1, <1>4
<1>6. kept \in Items(n + 1) /\ Chosen(lines, acc, n)
  BY DEF Items, RewriteInv
<1>7. /\ line.tag \in {"inf", "iframe", "rendition", "uri", "other"}
      /\ line.tag = "inf" => line.res \in Resolutions \cup {NoResolution}
  BY <1>3 DEF Lines
<1>8. ASSUME WellFormed(lines), NEW k \in 1 .. L, lines[o[k].line].tag = "inf"
      PROVE  LET u == NextUri(lines, o[k].line) IN
             /\ u \in Int /\ lines[u].tag = "uri"
             /\ n < u => /\ r = lines[o[k].line].res /\ r # NoResolution
                         /\ line.tag # "inf"
                         /\ line.tag = "uri" => u = n + 1
                         /\ line.tag # "uri" => n + 1 < u
  <2>1. PICK i, u : i = o[k].line /\ u = NextUri(lines, i)
    OBVIOUS
  <2>2. o[k] \in Items(n)
    BY <1>1, <1>4, Written, <1>6
  <2>3. i \in 1 .. n /\ i \in 1 .. N /\ i < n + 1
    BY <1>3, <2>1, <2>2 DEF Items
  <2>4. /\ u \in 1 .. N /\ i < u /\ lines[u].tag = "uri"
        /\ \A j \in 1 .. N : i < j /\ lines[j].tag = "uri" => u <= j
        /\ \A j \in 1 .. N : i < j /\ lines[j].tag = "inf" => u <= j
    BY <1>3, <1>8, <2>1, <2>3, UriOfTag
  <2>5. ASSUME n < u PROVE r = lines[i].res /\ r # NoResolution
    <3>1. r = lines[i].res
      <4>1. Followed(lines, acc, n, k)
        BY <1>5, <1>8 DEF RewriteInv
      <4>2. (n < u /\ acc.res = lines[i].res) \/ u <= n
        BY <1>5, <1>8, <2>1, <4>1 DEF Followed
      <4>3. QED
        BY <1>5, <2>4, <2>5, <4>2
    <3>2. lines[i].res # NoResolution
      BY <1>5, <1>8, <2>1 DEF RewriteInv, Chosen
    <3>3. QED
      BY <3>1, <3>2
  <2>6. line.tag = "inf" \/ line.tag = "uri" => u <= n + 1
    BY <1>3, <2>3, <2>4
  <2>7. line.tag # "uri" => u # n + 1
    BY <2>4
  <2>8. u \in Int
    BY <2>4
  <2> HIDE DEF line
  <2>9. n < u => /\ line.tag # "inf"
                 /\ line.tag = "uri" => u = n + 1
                 /\ line.tag # "uri" => n + 1 < u
    BY <1>5, <2>6, <2>7, <2>8
  <2>10. QED
    BY <2>1, <2>4, <2>5, <2>8, <2>9
<1>9. ASSUME b = acc, line.tag = "iframe" \/ (line.tag = "uri" /\ r = NoResolution)
      PROVE  RewriteInv(lines, b, n + 1)
  <2>1. Typed(b, n + 1)
    BY <1>1, <1>6, <1>9, Written DEF Typed
  <2>2. Chosen(lines, b, n + 1)
    <3>1. line.tag # "inf" /\ L = Len(b.out) /\ L <= L /\ L <= L + 1
      BY <1>5, <1>9
    <3>2. \A k \in L + 1 .. L : b.out[k].line = n + 1
      BY <1>5
    <3>3. \A k \in 1 .. L : b.out[k] = acc.out[k]
      BY <1>9
    <3>4. QED
      BY <1>5, <1>6, <3>1, <3>2, <3>3, ChosenKept
  <2>3. ASSUME WellFormed(lines), NEW k \in 1 .. L PROVE Followed(lines, b, n + 1, k)
    <3>1. CASE lines[o[k].line].tag = "inf"
      <4>1. LET u == NextUri(lines, o[k].line) IN n < u => n + 1 < u
        BY <1>8, <1>9, <2>3, <3>1
      <4>2. L = Len(b.out) /\ L <= L /\ b.res = acc.res /\ b.out = o
        BY <1>5, <1>9
      <4>3. \A l \in L + 1 .. L : lines[b.out[l].line].tag # "uri"
        BY <1>5
      <4>4. QED
        BY <1>3, <1>5, <2>3, <3>1, <4>1, <4>2, <4>3, Extension
    <3>2. CASE lines[o[k].line].tag # "inf"
      BY <1>5, <1>9, <3>2 DEF Followed
    <3>3. QED
      BY <3>1, <3>2
  <2>4. QED
    BY <1>5, <1>9, <2>1, <2>2, <2>3 DEF RewriteInv
<1>10. ASSUME line.tag \in {"rendition", "other"}, b = [out |-> Append(o, kept), res |-> r]
       PROVE  RewriteInv(lines, b, n + 1)
  <2>1. /\ Append(o, kept) \in Seq(Items(n + 1)) /\ Len(b.out) = L + 1
        /\ \A k \in 1 .. L : b.out[k] = o[k]
        /\ b.out[L + 1] = kept /\ b.res = r
    BY <1>4, <1>6, <1>10, Written
  <2>2. \A k \in L + 1 .. L + 1 : b.out[k].line = n + 1
    BY <1>5, <2>1
  <2>3. Typed(b, n + 1)
    BY <1>10, <2>1 DEF Typed
  <2>4. Chosen(lines, b, n + 1)
    <3>1. line.tag # "inf" /\ L <= L + 1 /\ L + 1 <= L + 1
      BY <1>5, <1>10
    <3>2. QED
      BY <1>5, <1>6, <2>1, <2>2, <3>1, ChosenKept
  <2>5. ASSUME WellFormed(lines), NEW k \in 1 .. L + 1 PROVE Followed(lines, b, n + 1, k)
    <3>1. CASE k \in 1 .. L /\ lines[o[k].line].tag = "inf"
      <4>1. \A l \in L + 1 .. L + 1 : lines[b.out[l].line].tag # "uri"
        <5>1. line.tag # "uri"
          BY <1>10
        <5>2. QED
          BY <2>2, <5>1
      <4>2. LET u == NextUri(lines, o[k].line) IN n < u => n + 1 < u
        BY <1>8, <1>10, <2>5, <3>1
      <4>3. QED
        <5>1. L <= L + 1 /\ b.res = acc.res /\ \A j \in 1 .. L : b.out[j] = acc.out[j]
          BY <1>5, <2>1
        <5>2. QED
          BY <1>3, <1>5, <2>1, <2>5, <3>1, <4>1, <4>2, <5>1, Extension
    <3>2. CASE k \in 1 .. L /\ lines[o[k].line].tag # "inf"
      BY <2>1, <3>2 DEF Followed
    <3>3. CASE k = L + 1
      BY <1>10, <2>1, <3>3 DEF Followed
    <3>4. QED
      BY <1>5, <3>1, <3>2, <3>3
  <2>6. QED
    BY <2>1, <2>3, <2>4, <2>5 DEF RewriteInv
<1>11. ASSUME line.tag = "uri", r # NoResolution,
              b = [out |-> Append(o, [line |-> n + 1, path |-> r]), res |-> NoResolution]
       PROVE  RewriteInv(lines, b, n + 1)
  <2> DEFINE path == [line |-> n + 1, path |-> r]
  <2>1. /\ Append(o, path) \in Seq(Items(n + 1)) /\ Len(b.out) = L + 1
        /\ \A k \in 1 .. L : b.out[k] = o[k]
        /\ b.out[L + 1] = path
    <3>1. path \in Items(n + 1)
      BY DEF Items
    <3>2. QED
      BY <1>4, <1>11, <3>1, Written
  <2>2. \A k \in L + 1 .. L + 1 : b.out[k].line = n + 1
    BY <1>5, <2>1
  <2>3. Typed(b, n + 1)
    BY <1>11, <2>1 DEF Typed
  <2>4. Chosen(lines, b, n + 1)
    <3>1. line.tag # "inf" /\ L <= L + 1 /\ L + 1 <= L + 1
      BY <1>5, <1>11
    <3>2. QED
      BY <1>5, <1>6, <2>1, <2>2, <3>1, ChosenKept
  <2>5. ASSUME WellFormed(lines), NEW k \in 1 .. L + 1 PROVE Followed(lines, b, n + 1, k)
    <3>1. CASE k \in 1 .. L /\ lines[o[k].line].tag = "inf"
      <4>1. LET u == NextUri(lines, o[k].line) IN n < u => u = n + 1 /\ r = lines[o[k].line].res
        BY <1>8, <1>11, <2>5, <3>1
      <4>2. L <= L + 1 /\ \A j \in 1 .. L : b.out[j] = acc.out[j]
        BY <1>5, <2>1
      <4>3. LET u == NextUri(lines, acc.out[k].line) IN
            n < u => u = n + 1 /\ b.out[L + 1] = [line |-> u, path |-> lines[acc.out[k].line].res]
        BY <1>5, <2>1, <4>1
      <4>4. QED
        BY <1>3, <1>5, <2>1, <2>5, <3>1, <4>2, <4>3, Extension
    <3>2. CASE k \in 1 .. L /\ lines[o[k].line].tag # "inf"
      BY <2>1, <3>2 DEF Followed
    <3>3. CASE k = L + 1
      BY <1>11, <2>1, <3>3 DEF Followed
    <3>4. QED
      BY <1>5, <3>1, <3>2, <3>3
  <2>6. QED
    BY <2>1, <2>3, <2>4, <2>5 DEF RewriteInv
<1>12. ASSUME line.tag = "inf",
              b = [out |-> IF line.res = NoResolution THEN o ELSE Append(o, kept), res |-> line.res]
       PROVE  RewriteInv(lines, b, n + 1)
  <2>1. PICK M \in L .. L + 1 :
          /\ M = L + 1 <=> line.res # NoResolution
          /\ b.out \in Seq(Items(n + 1)) /\ Len(b.out) = M
          /\ \A k \in 1 .. L : b.out[k] = o[k]
          /\ \A k \in L + 1 .. M : b.out[k] = kept
          /\ b.res = line.res
    <3>1. CASE line.res = NoResolution
      BY <1>4, <1>5, <1>6, <1>12, <3>1, Written
    <3>2. CASE line.res # NoResolution
      <4>1. /\ Append(o, kept) \in Seq(Items(n + 1)) /\ Len(b.out) = L + 1
            /\ \A k \in 1 .. L : b.out[k] = o[k]
            /\ b.out[L + 1] = kept
        BY <1>4, <1>6, <1>12, <3>2, Written
      <4>2. QED
        BY <1>5, <1>12, <3>2, <4>1
    <3>3. QED
      BY <3>1, <3>2
  <2>2. Typed(b, n + 1)
    BY <1>7, <1>12, <2>1 DEF Typed
  <2>3. Chosen(lines, b, n + 1)
    <3>1. /\ M \in Nat /\ L <= M /\ M <= L + 1 /\ \A k \in 1 .. L : b.out[k] = acc.out[k]
          /\ \A k \in L + 1 .. M : b.out[k].line = n + 1
      BY <1>5, <2>1
    <3>2. QED
      BY <1>5, <1>6, <2>1, <3>1, ChosenKept
  <2>4. ASSUME WellFormed(lines), NEW k \in 1 .. M PROVE Followed(lines, b, n + 1, k)
    <3>1. CASE k \in 1 .. L /\ lines[o[k].line].tag = "inf"
      <4>1. LET u == NextUri(lines, o[k].line) IN ~(n < u)
        BY <1>8, <1>12, <2>4, <3>1
      <4>2. M \in Nat /\ L <= M /\ \A j \in 1 .. L : b.out[j] = acc.out[j]
        BY <1>5, <2>1
      <4>3. QED
        BY <1>3, <1>5, <2>1, <2>4, <3>1, <4>1, <4>2, Extension
    <3>2. CASE k \in 1 .. L /\ lines[o[k].line].tag # "inf"
      BY <2>1, <3>2 DEF Followed
    <3>3. CASE k = L + 1
      <4>1. M = L + 1 /\ b.out[k] = kept
        BY <1>5, <2>1, <3>3
      <4>2. PICK u : u = NextUri(lines, n + 1)
        OBVIOUS
      <4>3. u \in 1 .. N /\ n + 1 < u
        BY <1>3, <1>12, <2>4, <4>2, UriOfTag
      <4>4. NoUri(lines, b.out, k + 1, M)
        BY <1>5, <3>3, <4>1 DEF NoUri
      <4>5. QED
        BY <1>12, <2>1, <4>1, <4>2, <4>3, <4>4 DEF Followed
    <3>4. QED
      BY <1>5, <3>1, <3>2, <3>3
  <2>5. QED
    BY <2>1, <2>2, <2>3, <2>4 DEF RewriteInv
<1>13. QED
  <2>1. CASE line.tag = "iframe" \/ (line.tag = "uri" /\ r = NoResolution)
    <3>1. b = acc
      BY <1>2, <1>5, <2>1 DEF RewriteLine
    <3>2. QED
      BY <1>2, <1>9, <2>1, <3>1
  <2>2. CASE line.tag \in {"rendition", "other"}
    <3>1. b = [out |-> Append(o, kept), res |-> r]
      BY <1>1, <1>2, <2>2 DEF RewriteLine
    <3>2. QED
      BY <1>2, <1>10, <2>2, <3>1
  <2>3. CASE line.tag = "uri" /\ r # NoResolution
    <3>1. b = [out |-> Append(o, [line |-> n + 1, path |-> r]), res |-> NoResolution]
      BY <1>1, <1>2, <2>3 DEF RewriteLine
    <3>2. QED
      BY <1>2, <1>11, <2>3, <3>1
  <2>4. CASE line.tag = "inf"
    <3>1. b = [out |-> IF line.res = NoResolution THEN o ELSE Append(o, kept), res |-> line.res]
      BY <1>1, <1>2, <2>4 DEF RewriteLine
    <3>2. QED
      BY <1>2, <1>12, <2>4, <3>1
  <2>5. QED
    BY <1>7, <2>1, <2>2, <2>3, <2>4

(* So it holds after any number of lines. *)
LEMMA RewriteAll ==
    ASSUME NEW lines \in Seq(Lines)
    PROVE  /\ \A n \in 0 .. Len(lines) : RewriteInv(lines, Rewritten(lines, n), n)
           /\ RewriteMaster(lines) = Rewritten(lines, Len(lines)).out
<1> DEFINE S == {n \in Nat : n <= Len(lines) => RewriteInv(lines, Rewritten(lines, n), n)}
<1>1. Len(lines) \in Nat
  BY LenProperties
<1>2. 0 \in S
  <2>1. Rewritten(lines, 0) = NoLines
    BY RewriteSteps
  <2>2. RewriteInv(lines, NoLines, 0)
    <3>1. NoLines.out \in Seq(Items(0)) /\ Len(NoLines.out) = 0
      BY DEF NoLines
    <3>2. QED
      BY <3>1 DEF RewriteInv, Typed, Chosen, NoLines
  <2>3. QED
    BY <2>1, <2>2
<1>3. ASSUME NEW n \in Nat, n \in S PROVE n + 1 \in S
  <2>1. SUFFICES ASSUME n + 1 <= Len(lines)
                 PROVE  RewriteInv(lines, Rewritten(lines, n + 1), n + 1)
    OBVIOUS
  <2>2. RewriteInv(lines, Rewritten(lines, n), n)
    BY <1>1, <1>3, <2>1
  <2>3. n + 1 \in 1 .. Len(lines) /\ (n + 1) - 1 = n
    BY <1>1, <2>1
  <2>4. Rewritten(lines, n + 1) = RewriteLine(lines, Rewritten(lines, n), n + 1)
    BY <2>3, RewriteSteps
  <2>5. QED
    BY <2>1, <2>2, <2>4, LineInv
<1>4. \A n \in Nat : n \in S
  <2> HIDE DEF S
  <2>1. QED
    BY <1>2, <1>3, NaturalsBySuccessor
<1>5. \A n \in 0 .. Len(lines) : RewriteInv(lines, Rewritten(lines, n), n)
  BY <1>1, <1>4
<1>6. QED
  BY <1>5, RewriteSteps

(* What that says of the whole of the rewritten master. *)
LEMMA Whole ==
    ASSUME NEW lines \in Seq(Lines)
    PROVE  LET out == RewriteMaster(lines) IN
           /\ out \in Seq(Items(Len(lines))) /\ Len(lines) \in Nat /\ Len(out) \in Nat
           /\ \A k \in 1 .. Len(out) : out[k].line \in 1 .. Len(lines)
           /\ Chosen(lines, [out |-> out, res |-> NoResolution], Len(lines))
           /\ WellFormed(lines) => \A k \in 1 .. Len(out) :
                LET i == out[k].line
                    u == NextUri(lines, i)
                IN  lines[i].tag = "inf" => \E l \in k + 1 .. Len(out) :
                      out[l] = [line |-> u, path |-> lines[i].res] /\ NoUri(lines, out, k + 1, l - 1)
<1>1. PICK acc : acc = Rewritten(lines, Len(lines))
  OBVIOUS
<1>2. PICK N \in Nat : N = Len(lines)
  BY LenProperties
<1>3. RewriteInv(lines, acc, N) /\ RewriteMaster(lines) = acc.out
  BY <1>1, <1>2, RewriteAll
<1>4. PICK out : out = RewriteMaster(lines)
  OBVIOUS
<1>5. out \in Seq(Items(N)) /\ Len(out) \in Nat
  BY <1>3, <1>4, LenProperties DEF RewriteInv, Typed
<1>6. \A k \in 1 .. Len(out) : out[k].line \in 1 .. N
  <2>1. \A k \in 1 .. Len(out) : out[k] \in Items(N)
    BY <1>5, ElementOfSeq
  <2>2. QED
    BY <2>1 DEF Items
<1>7. Chosen(lines, [out |-> out, res |-> NoResolution], N)
  BY <1>3, <1>4 DEF RewriteInv, Chosen
<1>8. ASSUME WellFormed(lines), NEW k \in 1 .. Len(out), lines[out[k].line].tag = "inf"
      PROVE  LET i == out[k].line
                 u == NextUri(lines, i)
             IN  \E l \in k + 1 .. Len(out) :
                   out[l] = [line |-> u, path |-> lines[i].res] /\ NoUri(lines, out, k + 1, l - 1)
  <2>1. PICK i, u : i = out[k].line /\ u = NextUri(lines, i)
    OBVIOUS
  <2>2. u \in 1 .. N
    BY <1>2, <1>6, <1>8, <2>1, UriOfTag
  <2>3. Followed(lines, acc, N, k)
    BY <1>3, <1>4, <1>8 DEF RewriteInv
  <2>4. ~(N < u)
    BY <2>2
  <2>5. QED
    BY <1>3, <1>4, <1>8, <2>1, <2>3, <2>4 DEF Followed
<1>9. QED
  BY <1>2, <1>4, <1>5, <1>6, <1>7, <1>8

(* Where a tag has a resolution of its own, its URI is what is stored for it. *)
LEMMA StoredAlone ==
    ASSUME NEW lines \in Seq(Lines), NEW i \in Infs(lines), NextUri(lines, i) # 0,
           ~lines[i].indented, \A j \in Infs(lines) \ {i} : lines[j].res # lines[i].res
    PROVE  Stored(lines, lines[i].res) = {NextUri(lines, i)}
<1>1. {j \in ParseVariants(lines) : lines[j].res = lines[i].res} = {i}
  BY DEF ParseVariants
<1>2. lines[i].bandwidth <= lines[i].bandwidth
  <2>1. lines[i].bandwidth \in Nat
    <3>1. lines[i] \in Lines /\ lines[i].tag = "inf"
      BY ElementOfSeq, LenProperties DEF Infs
    <3>2. QED
      BY <3>1, PlaylistsAssumption DEF Lines
  <2>2. QED
    BY <2>1
<1>3. PICK variants : variants = {j \in ParseVariants(lines) : lines[j].res = lines[i].res}
  OBVIOUS
<1>4. {j \in variants : \A m \in variants : lines[m].bandwidth <= lines[j].bandwidth} = {i}
  BY <1>1, <1>2, <1>3
<1>5. QED
  BY <1>3, <1>4 DEF Stored

(* A tag of the rewritten master is followed by the path of its own variant. *)
LEMMA OffersInv == ASSUME master \in Seq(Lines) PROVE OffersExplained
<1> DEFINE out == RewriteMaster(master)
           IsPath(item) == IsUri(master[item.line])
           After(k) == SelectInSubSeq(out, k + 1, Len(out), IsPath)
<1> SUFFICES ASSUME WellFormed(master), NEW k \in DOMAIN out, out[k].line \in Infs(master)
             PROVE  LET i == out[k].line IN
                    /\ After(k) # 0
                    /\ out[After(k)].path = master[i].res
                    /\ \/ Stored(master, master[i].res) = {out[After(k)].line}
                       \/ master[i].indented
                       \/ \E j \in Infs(master) \ {i} : master[j].res = master[i].res
  BY DEF OffersExplained
<1>1. PICK o, M, N : o = RewriteMaster(master) /\ M = Len(o) /\ N = Len(master)
  OBVIOUS
<1>2. PICK i, u : i = o[k].line /\ u = NextUri(master, i)
  OBVIOUS
<1>3. M \in Nat /\ N \in Nat /\ k \in 1 .. M /\ i \in 1 .. N
  BY <1>1, <1>2, Whole, LenProperties
<1>4. master[i].tag = "inf" /\ i \in Infs(master)
  BY <1>1, <1>2 DEF Infs
<1>5. u \in 1 .. N /\ master[u].tag = "uri"
  BY <1>1, <1>2, <1>3, <1>4, UriOfTag
<1>6. PICK l \in k + 1 .. M :
        o[l] = [line |-> u, path |-> master[i].res] /\ NoUri(master, o, k + 1, l - 1)
  BY <1>1, <1>2, <1>3, <1>4, Whole
<1> DEFINE F == {j \in k + 1 .. M : IsUri(master[o[j].line])}
<1>7. l \in F /\ \A j \in F : l <= j
  <2>1. l \in F
    BY <1>5, <1>6 DEF IsUri
  <2>2. ASSUME NEW j \in F, ~(l <= j) PROVE FALSE
    <3>1. j \in k + 1 .. l - 1
      BY <1>3, <2>2
    <3>2. QED
      BY <1>6, <3>1 DEF NoUri
  <2>3. QED
    BY <2>1, <2>2
<1>8. Min(F) = l
  <2>1. F \subseteq Int
    OBVIOUS
  <2>2. PICK m : m = Min(F)
    OBVIOUS
  <2> HIDE DEF F
  <2>3. m \in F /\ \A j \in F : m <= j
    BY <1>7, <2>2 DEF Min
  <2>4. QED
    BY <1>7, <2>1, <2>2, <2>3
<1>9. After(k) = l
  BY <1>1, <1>7, <1>8 DEF SelectInSubSeq
<1>10. l # 0 /\ o[l].path = master[i].res /\ o[l].line = u
  BY <1>3, <1>6
<1>11. \/ Stored(master, master[i].res) = {u}
       \/ master[i].indented
       \/ \E j \in Infs(master) \ {i} : master[j].res = master[i].res
  <2>1. u # 0
    BY <1>5
  <2>2. QED
    BY <1>2, <1>4, <2>1, StoredAlone
<1> HIDE DEF After
<1>12. QED
  BY <1>1, <1>2, <1>9, <1>10, <1>11

(* The rewritten master holds the tags that have a resolution, and their
   variants are the ones handed out, but for indented tags. *)
LEMMA LineupInv == ASSUME master \in Seq(Lines) PROVE OneLineup
<1>1. PICK o, M, N : o = RewriteMaster(master) /\ M = Len(o) /\ N = Len(master)
  OBVIOUS
<1>2. /\ M \in Nat /\ N \in Nat /\ DOMAIN o = 1 .. M /\ DOMAIN master = 1 .. N
      /\ \A k \in 1 .. M : o[k].line \in 1 .. N
      /\ \A k \in 1 .. M : master[o[k].line].tag = "inf" => master[o[k].line].res # NoResolution
      /\ \A i \in 1 .. N : master[i].tag = "inf" /\ master[i].res # NoResolution =>
           \E k \in 1 .. M : o[k].line = i
  BY <1>1, Whole, LenProperties DEF Chosen
<1> DEFINE K == {k \in 1 .. M : o[k].line \in {i \in Infs(master) : ~master[i].indented}}
<1>3. SUFFICES ASSUME WellFormed(master)
               PROVE  Channels(master) = {master[o[k].line].res : k \in K}
  BY <1>1, <1>2 DEF OneLineup
<1>4. ASSUME NEW res \in Channels(master) PROVE \E k \in K : res = master[o[k].line].res
  <2>1. PICK i \in ParseVariants(master) : res = master[i].res /\ res # NoResolution
    BY DEF Channels
  <2>2. i \in Infs(master) /\ ~master[i].indented /\ i \in 1 .. N /\ master[i].tag = "inf"
    BY <1>2, <2>1 DEF ParseVariants, Infs
  <2>3. PICK k \in 1 .. M : o[k].line = i
    BY <1>2, <2>1, <2>2
  <2>4. QED
    BY <2>1, <2>2, <2>3
<1>5. ASSUME NEW k \in K PROVE master[o[k].line].res \in Channels(master)
  <2>1. PICK i : i = o[k].line
    OBVIOUS
  <2>2. i \in Infs(master) /\ ~master[i].indented /\ master[i].tag = "inf"
    BY <2>1 DEF Infs
  <2>3. NextUri(master, i) # 0
    BY <1>3, <2>2 DEF WellFormed
  <2>4. master[i].res # NoResolution
    BY <1>2, <2>1, <2>2
  <2>5. QED
    BY <2>1, <2>2, <2>3, <2>4 DEF Channels, ParseVariants
<1>6. QED
  BY <1>4, <1>5

-----------------------------------------------------------------------------
(* A prefix and what lies beyond it make up the sequence: what serve takes
   from its offset on completes what it has sent. *)
LEMMA PrefixRest ==
    ASSUME NEW S, NEW s \in Seq(S), NEW t \in Seq(S), IsPrefix(s, t)
    PROVE  /\ SubSeq(t, Len(s) + 1, Len(t)) \in Seq(S)
           /\ s \o SubSeq(t, Len(s) + 1, Len(t)) = t
<1>1. s = SubSeq(t, 1, Len(s)) /\ Len(s) <= Len(t)
  BY SubSeqFull DEF IsPrefix
<1>2. t = SubSeq(t, 1, Len(t))
  BY SubSeqFull
<1>3. SubSeq(t, 1, Len(s)) \o SubSeq(t, Len(s) + 1, Len(t)) = SubSeq(t, 1, Len(t))
  <2>1. /\ Len(s) \in Nat /\ Len(t) \in Nat
        /\ 1 \in 1 .. Len(t) + 1
        /\ Len(s) \in 1 - 1 .. Len(t)
        /\ Len(t) \in Len(s) .. Len(t)
    BY <1>1, LenProperties
  <2>2. QED
    BY <2>1, ConcatAdjacentSubSeq
<1>4. \A i \in Len(s) + 1 .. Len(t) : t[i] \in S
  BY LenProperties, ElementOfSeq
<1>5. SubSeq(t, Len(s) + 1, Len(t)) \in Seq(S)
  BY <1>4, LenProperties, SubSeqProperties
<1>6. QED
  BY <1>1, <1>2, <1>3, <1>5

(* The names that occur in paths. *)
Words == Names \cup {"index"}

(* A playlist's URL less its last name is its directory. *)
LEMMA DirectoryOf ==
    ASSUME NEW base, NEW dir \in Seq(Words), base.path = Append(dir, "index")
    PROVE  Directory(base) = dir
<1>1. /\ Append(dir, "index") \in Seq(Words) /\ Len(Append(dir, "index")) = Len(dir) + 1
      /\ \A k \in 1 .. Len(dir) : Append(dir, "index")[k] = dir[k]
      /\ Len(dir) \in Nat
  <2>1. "index" \in Words
    BY DEF Words
  <2>2. QED
    BY <2>1, AppendProperties, LenProperties
<1>2. PICK p : p = Append(dir, "index")
  OBVIOUS
<1>3. PICK n \in Nat : n = Len(dir)
  BY <1>1
<1>4. \A k \in 1 .. n : p[k] \in Words
  BY <1>1, <1>2, <1>3, ElementOfSeq
<1>5. /\ SubSeq(p, 1, n) \in Seq(Words) /\ Len(SubSeq(p, 1, n)) = n
      /\ \A k \in 1 .. n : SubSeq(p, 1, n)[k] = dir[k]
  BY <1>1, <1>2, <1>3, <1>4, SubSeqProperties
<1>6. SubSeq(p, 1, n) = dir
  BY <1>3, <1>5, SeqEqual
<1>7. QED
  BY <1>1, <1>2, <1>3, <1>6 DEF Directory, Front

(* Whatever is written into a media playlist leads back to what it stood for,
   but for a file whose name is read as something else. *)
LEMMA RoundTripInv == ASSUME listed \in {Nothing} \cup ListedUris PROVE RoundTrip
<1> SUFFICES ASSUME listed # Nothing
             PROVE  LET base == listed.base
                        path == RewriteUri(base, listed.ref)
                        meant == Fetch(Resolve(base, listed.ref))
                    IN  /\ Requested(base, RewriteNestedUri(base, listed.ref)) = meant
                        /\ \/ Requested(base, path) = meant
                           \/ path.to = "segment" /\ (Head(path.file) = "colon" \/ Contains(path.file, "escaped"))
  BY DEF RoundTrip
<1>1. PICK host \in Hosts, dir \in Directories, ref \in References :
        listed = [base |-> Url(host, Append(dir, "index"), "token"), ref |-> ref]
  BY DEF ListedUris
<1>2. PICK base, url : base = listed.base /\ url = Resolve(base, ref)
  OBVIOUS
<1>3. dir \in Seq(Words)
  <2>1. "live" \in Words /\ "plain" \in Words
    BY DEF Words, Names
  <2>2. <<>> \in Seq(Words) /\ <<"live">> \in Seq(Words) /\ <<"live", "plain">> \in Seq(Words)
    BY <2>1
  <2>3. dir = <<>> \/ dir = <<"live">> \/ dir = <<"live", "plain">>
    BY DEF Directories
  <2>4. QED
    BY <2>2, <2>3
<1>4. base.host = host /\ base.path = Append(dir, "index") /\ listed.ref = ref
  BY <1>1, <1>2 DEF Url
<1>5. Directory(base) = dir
  BY <1>3, <1>4, DirectoryOf
<1>6. /\ url = Url(url.host, url.path, url.query)
      /\ url.path \in Seq(Words)
  <2>1. ref.path \in Seq(Words)
    <3>1. ref.path \in Paths
      BY DEF References
    <3>2. \A n \in Names : n \in Words /\ "live" \in Words /\ "plain" \in Words
      BY DEF Names, Words
    <3>3. \A n \in Names : <<n>> \in Seq(Words) /\ <<"live", n>> \in Seq(Words) /\ <<"plain", n>> \in Seq(Words)
      BY <3>2
    <3>4. QED
      BY <3>1, <3>3 DEF Paths
  <2>2. CASE ref.host # NoHost
    BY <1>2, <2>1, <2>2 DEF Resolve, Url
  <2>3. CASE ref.host = NoHost
    <3>1. PICK kept \in 0 .. Len(dir) : url = Url(base.host, SubSeq(dir, 1, kept) \o ref.path, ref.query)
      <4>1. ref.from \in Nat /\ Len(dir) \in Nat
        BY <1>3, LenProperties DEF References
      <4>2. QED
        BY <1>2, <1>5, <2>3, <4>1 DEF Resolve
    <3>2. SubSeq(dir, 1, kept) \in Seq(Words)
      BY <1>3, LenProperties, ElementOfSeq, SubSeqProperties
    <3>3. SubSeq(dir, 1, kept) \o ref.path \in Seq(Words)
      BY <2>1, <3>2, ConcatProperties
    <3>4. QED
      BY <3>1, <3>3 DEF Url
  <2>4. QED
    BY <2>2, <2>3
<1>7. Requested(base, RewriteNestedUri(base, ref)) = Fetch(url)
  BY <1>2 DEF Requested, RewriteNestedUri
<1>8. CASE url.host = base.host /\ IsStrictPrefix(dir, url.path)
  <2>1. PICK file : file = SubSeq(url.path, Len(dir) + 1, Len(url.path))
    OBVIOUS
  <2>2. RewriteUri(base, ref) = [to |-> "segment", file |-> file, query |-> url.query]
    BY <1>2, <1>5, <1>8, <2>1 DEF RewriteUri
  <2>3. dir \o file = url.path
    BY <1>3, <1>6, <1>8, <2>1, PrefixRest DEF IsStrictPrefix
  <2>4. CASE Head(file) = "colon" \/ Contains(file, "escaped")
    BY <1>2, <1>4, <1>7, <2>2, <2>4
  <2>5. CASE Head(file) # "colon" /\ ~Contains(file, "escaped")
    <3>1. Requested(base, RewriteUri(base, ref)) = Fetch(Url(base.host, dir \o file, url.query))
      BY <1>5, <2>2, <2>5 DEF Requested
    <3>2. Requested(base, RewriteUri(base, ref)) = Fetch(url)
      BY <1>6, <1>8, <2>3, <3>1
    <3>3. QED
      BY <1>2, <1>4, <1>7, <3>2
  <2>6. QED
    BY <2>4, <2>5
<1>9. CASE ~(url.host = base.host /\ IsStrictPrefix(dir, url.path))
  <2>1. RewriteUri(base, ref) = [to |-> "proxy", url |-> url]
    BY <1>2, <1>5, <1>9 DEF RewriteUri
  <2>2. Requested(base, RewriteUri(base, ref)) = Fetch(url)
    BY <2>1 DEF Requested
  <2>3. QED
    BY <1>2, <1>4, <1>7, <2>2
<1>10. QED
  BY <1>8, <1>9

-----------------------------------------------------------------------------
(* Upstream's masters are sequences of lines, and what it lists is a reference. *)
LEMMA StepInv == IInv /\ [Next]_vars => IInv'
<1> SUFFICES ASSUME IInv, [Next]_vars PROVE IInv'
  OBVIOUS
<1>1. CASE WriteLine
  <2>1. PICK line \in Lines : master' = Append(master, line) /\ listed' = listed
    BY <1>1 DEF WriteLine
  <2>2. Append(master, line) \in Seq(Lines)
    BY AppendProperties DEF IInv
  <2>3. QED
    BY <2>1, <2>2 DEF IInv, Nothing, ListedUris
<1>2. CASE ListUri
  <2>1. PICK host \in Hosts, dir \in Directories, ref \in References :
          listed' = [base |-> Url(host, Append(dir, "index"), "token"), ref |-> ref]
    BY <1>2 DEF ListUri, Directories
  <2>2. listed' \in ListedUris
    BY <2>1 DEF ListedUris
  <2>3. QED
    <3>1. master' = master
      BY <1>2 DEF ListUri
    <3>2. ListedUris' = ListedUris
      BY DEF ListedUris
    <3> HIDE DEF ListedUris
    <3>3. QED
      BY <2>2, <3>1, <3>2 DEF IInv
<1>3. CASE UNCHANGED vars
  BY <1>3 DEF vars, IInv, Nothing, ListedUris
<1>4. QED
  BY <1>1, <1>2, <1>3 DEF Next

(* The invariant. *)
THEOREM Invariance == Spec => []IInv
<1>1. Init => IInv
  BY DEF Init, IInv
<1>2. QED
  BY <1>1, StepInv, PTL DEF Spec

(* rewriteMasterPlaylist, parseVariants and setMaster (stream.go, nos.go,
   cache.go): a player is led from each tag to the variant upstream lists
   there, unless it shares its resolution or is indented; for masters of any
   length. *)
THEOREM OffersAreExplained == Spec => []OffersExplained
<1>1. IInv => OffersExplained
  BY OffersInv DEF IInv
<1>2. QED
  BY <1>1, Invariance, PTL

(* streamQualities and playlistEntries (playlist.go) hand out the resolutions
   that the rewritten master offers, but for indented tags. *)
THEOREM LineupIsOne == Spec => []OneLineup
<1>1. IInv => OneLineup
  BY LineupInv DEF IInv
<1>2. QED
  BY <1>1, Invariance, PTL

(* rewriteMediaPlaylist, handleSegment and proxyUpstream (stream.go, proxy.go):
   a rewritten URI leads where the original did, but for fragile names. *)
THEOREM UrisSurvive == Spec => []RoundTrip
<1>1. IInv => RoundTrip
  BY RoundTripInv DEF IInv
<1>2. QED
  BY <1>1, Invariance, PTL
=============================================================================
