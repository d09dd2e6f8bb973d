----------------------------- MODULE AgooLogFiles -----------------------------
(***************************************************************************)
(* What the log files hold, from the oldest entry on: the files one after  *)
(* the other, Kept, and how it changes when a file is renamed or removed.  *)
(*                                                                         *)
(* FlattenSeq is defined by recursion.  What it gives is proved by         *)
(* induction, for a set of natural numbers: that there is a smallest one   *)
(* is all that is needed.                                                  *)
(***************************************************************************)
EXTENDS AgooLog, SequenceTheorems, FiniteSetTheorems, WellFoundedInduction, TLAPS

-----------------------------------------------------------------------------
(* Sequences one after the other *)

\* Induction on the natural numbers, for a set
LEMMA SetInduction ==
  ASSUME NEW T, 0 \in T, \A n \in T \cap Nat : n + 1 \in T
  PROVE  Nat \subseteq T
<1> SUFFICES ASSUME Nat \ T # {} PROVE FALSE
  OBVIOUS
<1>1. PICK n \in Nat \ T : \A m \in Nat \ T : ~ (<<m, n>> \in OpToRel(<, Nat))
  BY WFMin, NatLessThanWellFounded, Zenon
<1>2. n \in Nat /\ n \notin T /\ n # 0
  BY Zenon
<1>3. n - 1 \in Nat /\ n - 1 < n /\ (n - 1) + 1 = n
  BY <1>2
<1>4. n - 1 \notin T
  BY <1>2, <1>3, Zenon
<1>5. <<n - 1, n>> \in OpToRel(<, Nat)
  BY <1>2, <1>3, Zenon DEF OpToRel
<1> QED  BY <1>1, <1>3, <1>4, <1>5, Zenon

LEMMA FunctionIsSeq ==
  ASSUME NEW S, NEW n \in Nat, NEW f \in [1 .. n -> S]
  PROVE  f \in Seq(S) /\ Len(f) = n
OBVIOUS

\* f[i] is the first i sequences of s one after the other.
Joins(f, s, n) == f[0] = <<>> /\ \A i \in 1 .. n : f[i] = f[i - 1] \o s[i]

LEMMA JoinsExist ==
  ASSUME NEW E, NEW N \in Nat, NEW s \in [1 .. N -> Seq(E)]
  PROVE  \E f \in [0 .. N -> Seq(E)] : Joins(f, s, N)
<1> DEFINE T == {n \in Nat : n <= N => \E f \in [0 .. n -> Seq(E)] : Joins(f, s, n)}
<1>1. 0 \in T
  <2> DEFINE f == [i \in 0 .. 0 |-> <<>>]
  <2>1. f \in [0 .. 0 -> Seq(E)]
    OBVIOUS
  <2>2. Joins(f, s, 0)
    BY DEF Joins
  <2> QED  BY <2>1, <2>2
<1>2. ASSUME NEW n \in T \cap Nat PROVE n + 1 \in T
  <2> SUFFICES ASSUME n + 1 <= N
               PROVE  \E f \in [0 .. n + 1 -> Seq(E)] : Joins(f, s, n + 1)
    OBVIOUS
  <2>1. PICK f \in [0 .. n -> Seq(E)] : Joins(f, s, n)
    OBVIOUS
  <2> DEFINE g == [i \in 0 .. n + 1 |-> IF i = n + 1 THEN f[n] \o s[n + 1] ELSE f[i]]
  <2>2. n \in 0 .. n /\ n + 1 \in 1 .. N
    OBVIOUS
  <2>3. f[n] \o s[n + 1] \in Seq(E)
    BY <2>2
  <2>4. \A i \in 0 .. n + 1 : i # n + 1 => i \in 0 .. n
    OBVIOUS
  <2>5. g \in [0 .. n + 1 -> Seq(E)]
    BY <2>3, <2>4
  <2>6. g[0] = <<>>
    BY <2>1 DEF Joins
  <2>7. ASSUME NEW i \in 1 .. n + 1 PROVE g[i] = g[i - 1] \o s[i]
    <3>1. i \in 0 .. n + 1 /\ i - 1 \in 0 .. n + 1 /\ i - 1 # n + 1
      OBVIOUS
    <3>2. g[i - 1] = f[i - 1]
      BY <3>1
    <3>3. CASE i = n + 1
      <4>1. g[i] = f[n] \o s[n + 1] /\ i - 1 = n
        BY <3>1, <3>3
      <4> QED  BY <4>1, <3>2, <3>3, Zenon
    <3>4. CASE i # n + 1
      <4>1. g[i] = f[i] /\ i \in 1 .. n
        BY <3>1, <3>4
      <4>2. f[i] = f[i - 1] \o s[i]
        BY <4>1, <2>1 DEF Joins
      <4> QED  BY <4>1, <4>2, <3>2, Zenon
    <3> QED  BY <3>3, <3>4
  <2>8. Joins(g, s, n + 1)
    BY <2>6, <2>7, Zenon DEF Joins
  <2> QED  BY <2>5, <2>8, Zenon
<1> HIDE DEF T
<1>3. N \in T
  BY <1>1, <1>2, SetInduction
<1> QED  BY <1>3 DEF T

LEMMA FlattenIs ==
  ASSUME NEW E, NEW s \in Seq(Seq(E)), Len(s) > 0
  PROVE  \E f \in [0 .. Len(s) -> Seq(E)] : Joins(f, s, Len(s)) /\ FlattenSeq(s) = f[Len(s)]
<1> DEFINE N == Len(s)
           Rec(h) == h = [i \in 1 .. N |-> IF i = 1 THEN s[i] ELSE h[i - 1] \o s[i]]
<1>1. N \in Nat /\ s \in [1 .. N -> Seq(E)]
  BY LenProperties
<1>2. PICK f \in [0 .. N -> Seq(E)] : Joins(f, s, N)
  BY <1>1, JoinsExist
<1> DEFINE h0 == [i \in 1 .. N |-> f[i]]
<1>3. Rec(h0)
  <2>1. ASSUME NEW i \in 1 .. N PROVE f[i] = IF i = 1 THEN s[i] ELSE h0[i - 1] \o s[i]
    <3>1. f[i] = f[i - 1] \o s[i]
      BY <1>2 DEF Joins
    <3>2. CASE i = 1
      <4>1. s[i] \in Seq(E)
        BY <1>1
      <4>2. f[i - 1] = <<>>
        BY <3>2, <1>2 DEF Joins
      <4> QED  BY <3>1, <3>2, <4>1, <4>2, ConcatEmptySeq
    <3>3. CASE i # 1
      <4>1. i - 1 \in 1 .. N
        BY <3>3, <1>1
      <4> QED  BY <4>1, <3>1, <3>3, Zenon
    <3> QED  BY <3>2, <3>3
  <2> QED  BY <2>1, Zenon
<1> DEFINE h1 == CHOOSE h : Rec(h)
<1>4. Rec(h1)
  BY <1>3, Zenon
<1>5. FlattenSeq(s) = h1[N]
  BY DEF FlattenSeq
<1> HIDE DEF h1
<1>6. \A i \in 1 .. N : h1[i] = f[i]
  <2> DEFINE T == {n \in Nat : n \in 1 .. N => h1[n] = f[n]}
  <2>1. 0 \in T
    BY <1>1
  <2>2. ASSUME NEW n \in T \cap Nat PROVE n + 1 \in T
    <3> SUFFICES ASSUME n + 1 \in 1 .. N PROVE h1[n + 1] = f[n + 1]
      OBVIOUS
    <3>1. h1[n + 1] = IF n + 1 = 1 THEN s[n + 1] ELSE h1[(n + 1) - 1] \o s[n + 1]
      BY <1>4, Zenon
    <3>2. (n + 1) - 1 = n
      OBVIOUS
    <3>3. f[n + 1] = f[n] \o s[n + 1]
      BY <1>2, <3>2 DEF Joins
    <3>4. CASE n = 0
      <4>1. f[n] = <<>> /\ s[n + 1] \in Seq(E)
        BY <1>1, <1>2, <3>4 DEF Joins
      <4> QED  BY <3>1, <3>3, <3>4, <4>1, ConcatEmptySeq
    <3>5. CASE n # 0
      <4>1. n \in 1 .. N /\ n + 1 # 1
        BY <1>1, <3>5
      <4>2. h1[n] = f[n]
        BY <4>1
      <4> QED  BY <3>1, <3>2, <3>3, <4>1, <4>2
    <3> QED  BY <3>4, <3>5
  <2> HIDE DEF T
  <2>3. Nat \subseteq T
    BY <2>1, <2>2, SetInduction
  <2> QED  BY <1>1, <2>3 DEF T
<1>7. N \in 1 .. N
  BY <1>1
<1> QED  BY <1>2, <1>5, <1>6, <1>7
-----------------------------------------------------------------------------
(* The archives *)

Files == 1 .. MaxFiles + 1
Archived(A) == A \in [Files -> Seq(Entry)]
Piled(A) == FlattenSeq(Reverse(A))

\* g[n] is what the archives older than the n-th hold.
Piles(g, A) ==
  /\ g \in [0 .. MaxFiles + 1 -> Seq(Entry)]
  /\ g[MaxFiles + 1] = <<>> /\ \A n \in Files : g[n - 1] = g[n] \o A[n]

\* Up to the archives after the k-th, g has d before what h has.
More(d, g, h, k) == g[k] = d \o h[k]

LEMMA FilesFacts ==
  /\ MaxFiles \in Nat /\ MaxFiles > 0 /\ MaxFiles \in 0 .. MaxFiles
  /\ MaxSize \in Nat /\ MaxSize > 0
BY FilesAssumption

LEMMA Assoc == \A d, x, y \in Seq(Entry) : (d \o x) \o y = d \o (x \o y)
BY ConcatAssociative, SMTT(30)

LEMMA NoneAdded == \A x \in Seq(Entry) : x \o <<>> = x /\ <<>> \o x = x
BY ConcatEmptySeq

LEMMA PilesExist ==
  ASSUME NEW A, Archived(A)
  PROVE  \E g : Piles(g, A) /\ Piled(A) = g[0]
<1> DEFINE N == MaxFiles + 1
           s == Reverse(A)
<1>1. N \in Nat /\ N > 0 /\ Files = 1 .. N
  BY FilesFacts DEF Files
<1>2. A \in [1 .. N -> Seq(Entry)] /\ Len(A) = N
  BY <1>1 DEF Archived
<1>3. /\ s \in [1 .. N -> Seq(Entry)] /\ s \in Seq(Seq(Entry)) /\ Len(s) = N
      /\ \A n \in 1 .. N : s[(N - n) + 1] = A[n]
  <2>1. s = [i \in 1 .. N |-> A[(N - i) + 1]]
    BY <1>2 DEF Reverse
  <2>2. \A i \in 1 .. N : (N - i) + 1 \in 1 .. N /\ (N - ((N - i) + 1)) + 1 = i
    BY <1>1
  <2>3. s \in [1 .. N -> Seq(Entry)]
    BY <1>2, <2>1, <2>2
  <2>4. s \in Seq(Seq(Entry)) /\ Len(s) = N
    BY <1>1, <2>3, FunctionIsSeq, Zenon
  <2>5. ASSUME NEW n \in 1 .. N PROVE s[(N - n) + 1] = A[n]
    <3>1. (N - n) + 1 \in 1 .. N /\ (N - ((N - n) + 1)) + 1 = n
      BY <2>2
    <3> QED  BY <2>1, <3>1
  <2> QED  BY <2>3, <2>4, <2>5
<1> HIDE DEF s
<1>4. PICK f \in [0 .. N -> Seq(Entry)] : Joins(f, s, N) /\ FlattenSeq(s) = f[N]
  BY <1>1, <1>3, FlattenIs
<1> DEFINE g == [n \in 0 .. N |-> f[N - n]]
<1>5. g \in [0 .. N -> Seq(Entry)]
  BY <1>1
<1>6. g[0] = f[N] /\ g[N] = <<>>
  BY <1>1, <1>4 DEF Joins
<1>7. ASSUME NEW n \in 1 .. N PROVE g[n - 1] = g[n] \o A[n]
  <2>1. /\ n - 1 \in 0 .. N /\ n \in 0 .. N /\ (N - n) + 1 \in 1 .. N
        /\ N - (n - 1) = (N - n) + 1 /\ ((N - n) + 1) - 1 = N - n
    BY <1>1
  <2>2. g[n - 1] = f[(N - n) + 1] /\ g[n] = f[N - n]
    BY <2>1
  <2>3. f[(N - n) + 1] = f[N - n] \o s[(N - n) + 1]
    BY <2>1, <1>4 DEF Joins
  <2> QED  BY <2>2, <2>3, <1>3
<1> HIDE DEF g
<1>8. Piles(g, A)
  BY <1>1, <1>5, <1>6, <1>7 DEF Piles
<1> QED  BY <1>4, <1>6, <1>8 DEF s, Piled

\* What is above a file, and below it, in two states of the archives
LEMMA SameAbove ==
  ASSUME NEW A, NEW B, NEW g, NEW h, Piles(g, A), Piles(h, B), NEW k \in 0 .. MaxFiles + 1,
         \A n \in Files : n > k => A[n] = B[n]
  PROVE  g[k] = h[k]
<1> DEFINE N == MaxFiles + 1
           T == {m \in Nat : m <= N - k => g[N - m] = h[N - m]}
<1>1. N \in Nat /\ k \in Nat /\ k <= N /\ Files = 1 .. N /\ N - 0 = N
  BY FilesFacts DEF Files
<1>2. 0 \in T
  BY <1>1 DEF Piles
<1>3. ASSUME NEW m \in T \cap Nat PROVE m + 1 \in T
  <2> SUFFICES ASSUME m + 1 <= N - k PROVE g[N - (m + 1)] = h[N - (m + 1)]
    OBVIOUS
  <2>1. N - m \in Files /\ N - m > k /\ (N - m) - 1 = N - (m + 1) /\ m <= N - k
    BY <1>1
  <2>2. g[N - m] = h[N - m] /\ A[N - m] = B[N - m]
    BY <2>1
  <2> QED  BY <2>1, <2>2, Zenon DEF Piles
<1> HIDE DEF T
<1>4. N - k \in T /\ N - (N - k) = k
  BY <1>1, <1>2, <1>3, SetInduction
<1> QED  BY <1>1, <1>4 DEF T

LEMMA SameBelow ==
  ASSUME NEW A, NEW B, Archived(A), NEW g, NEW h, Piles(g, A), Piles(h, B),
         NEW k \in 0 .. MaxFiles + 1, \A n \in Files : n <= k => A[n] = B[n],
         NEW d \in Seq(Entry), More(d, g, h, k)
  PROVE  More(d, g, h, 0)
<1> DEFINE N == MaxFiles + 1
           T == {m \in Nat : m <= k => g[k - m] = d \o h[k - m]}
<1>1. N \in Nat /\ k \in Nat /\ k <= N /\ Files = 1 .. N /\ k - 0 = k
  BY FilesFacts DEF Files
<1>2. 0 \in T
  BY <1>1 DEF More
<1>3. ASSUME NEW m \in T \cap Nat PROVE m + 1 \in T
  <2> SUFFICES ASSUME m + 1 <= k PROVE g[k - (m + 1)] = d \o h[k - (m + 1)]
    OBVIOUS
  <2>1. /\ k - m \in Files /\ k - m <= k /\ (k - m) - 1 = k - (m + 1) /\ m <= k
        /\ k - m \in 0 .. N
    BY <1>1
  <2>2. g[k - m] = d \o h[k - m] /\ A[k - m] = B[k - m]
    BY <2>1
  <2>3. PICK x, y \in Seq(Entry) : x = h[k - m] /\ y = A[k - m]
    BY <2>1 DEF Piles, Archived
  <2>4. g[k - (m + 1)] = (d \o x) \o y
    BY <2>1, <2>2, <2>3, Zenon DEF Piles
  <2>5. h[k - (m + 1)] = x \o y
    BY <2>1, <2>2, <2>3, Zenon DEF Piles
  <2>6. (d \o x) \o y = d \o (x \o y)
    BY Assoc, ZenonT(30)
  <2> QED  BY <2>4, <2>5, <2>6, Zenon
<1> HIDE DEF T
<1>4. k \in T /\ k - k = 0
  BY <1>1, <1>2, <1>3, SetInduction
<1> QED  BY <1>1, <1>4 DEF T, More

LEMMA PiledTyped == ASSUME NEW A, Archived(A) PROVE Piled(A) \in Seq(Entry)
<1>1. 0 \in 0 .. MaxFiles + 1
  BY FilesFacts
<1> QED  BY <1>1, PilesExist DEF Piles

\* Archive n becomes archive n + 1, which was missing, or was the oldest.
LEMMA PileRenamed ==
  ASSUME NEW A, Archived(A), NEW B, Archived(B), NEW n \in 1 .. MaxFiles,
         A[n + 1] = <<>> \/ n = MaxFiles, B[n] = <<>>, B[n + 1] = A[n],
         \A i \in Files : i # n /\ i # n + 1 => A[i] = B[i]
  PROVE  Piled(A) = A[n + 1] \o Piled(B)
<1>1. /\ n \in Files /\ n + 1 \in Files /\ (n + 1) - 1 = n
      /\ n - 1 \in 0 .. MaxFiles + 1 /\ n + 1 \in 0 .. MaxFiles + 1
  BY FilesFacts DEF Files
<1>2. PICK g : Piles(g, A) /\ Piled(A) = g[0]
  BY PilesExist
<1>3. PICK h : Piles(h, B) /\ Piled(B) = h[0]
  BY PilesExist
<1>4. g[n + 1] = h[n + 1]
  <2>1. \A i \in Files : i > n + 1 => A[i] = B[i]
    BY DEF Files
  <2> QED  BY <1>1, <1>2, <1>3, <2>1, SameAbove
<1>5. PICK a, b, c \in Seq(Entry) : a = A[n] /\ b = A[n + 1] /\ c = g[n + 1]
  BY <1>1, <1>2 DEF Archived, Piles
<1>6. g[n] = c \o b /\ g[n - 1] = (c \o b) \o a
  BY <1>1, <1>2, <1>5, Zenon DEF Piles
<1>7. h[n] = c \o a /\ h[n - 1] = (c \o a) \o <<>>
  BY <1>1, <1>3, <1>4, <1>5, Zenon DEF Piles
<1>8. c \o a \in Seq(Entry) /\ <<>> \in Seq(Entry)
  OBVIOUS
<1>9. h[n - 1] = c \o a
  BY <1>7, <1>8, NoneAdded, Zenon
<1>10. g[n - 1] = b \o h[n - 1]
  <2>1. CASE b = <<>>
    BY <1>6, <1>8, <1>9, <2>1, NoneAdded, Zenon
  <2>2. CASE n = MaxFiles
    <3>1. c = <<>>
      BY <2>2, <1>2, <1>5 DEF Piles
    <3> QED  BY <3>1, <1>6, <1>9, NoneAdded, Zenon
  <2> QED  BY <2>1, <2>2, <1>5
<1>11. \A i \in Files : i <= n - 1 => A[i] = B[i]
  BY DEF Files
<1>12. More(b, g, h, n - 1)
  BY <1>10, Zenon DEF More
<1>13. More(b, g, h, 0)
  BY <1>1, <1>2, <1>3, <1>11, <1>12, SameBelow
<1> QED  BY <1>2, <1>3, <1>5, <1>13, Zenon DEF More

\* The log file becomes the first archive.
LEMMA PileFirst ==
  ASSUME NEW A, Archived(A), NEW B, Archived(B), A[1] = <<>>, NEW p \in Seq(Entry), B[1] = p,
         \A i \in Files : i # 1 => A[i] = B[i]
  PROVE  Piled(B) = Piled(A) \o p
<1>1. 1 \in Files /\ 1 \in 0 .. MaxFiles + 1 /\ 1 - 1 = 0
  BY FilesFacts DEF Files
<1>2. PICK g : Piles(g, A) /\ Piled(A) = g[0]
  BY PilesExist
<1>3. PICK h : Piles(h, B) /\ Piled(B) = h[0]
  BY PilesExist
<1>4. g[1] = h[1]
  <2>1. \A i \in Files : i > 1 => A[i] = B[i]
    BY DEF Files
  <2> QED  BY <1>1, <1>2, <1>3, <2>1, SameAbove
<1>5. PICK c \in Seq(Entry) : c = g[1]
  BY <1>1, <1>2 DEF Piles
<1>6. g[0] = c \o <<>> /\ h[0] = c \o p
  BY <1>1, <1>2, <1>3, <1>4, <1>5, Zenon DEF Piles
<1> QED  BY <1>2, <1>3, <1>6, NoneAdded, Zenon

\* The archive above max_files goes.
LEMMA PileCut ==
  ASSUME NEW A, Archived(A), NEW B, Archived(B), B[MaxFiles + 1] = <<>>,
         \A i \in Files : i <= MaxFiles => A[i] = B[i]
  PROVE  Piled(A) = A[MaxFiles + 1] \o Piled(B)
<1>1. MaxFiles + 1 \in Files /\ MaxFiles \in 0 .. MaxFiles + 1 /\ (MaxFiles + 1) - 1 = MaxFiles
  BY FilesFacts DEF Files
<1>2. PICK g : Piles(g, A) /\ Piled(A) = g[0]
  BY PilesExist
<1>3. PICK h : Piles(h, B) /\ Piled(B) = h[0]
  BY PilesExist
<1>4. PICK b \in Seq(Entry) : b = A[MaxFiles + 1]
  BY <1>1 DEF Archived
<1>5. g[MaxFiles] = <<>> \o b /\ h[MaxFiles] = <<>> \o <<>>
  BY <1>1, <1>2, <1>3, <1>4, Zenon DEF Piles
<1>6. <<>> \in Seq(Entry)
  OBVIOUS
<1>7. g[MaxFiles] = b \o h[MaxFiles]
  BY <1>5, <1>6, NoneAdded, Zenon
<1>8. More(b, g, h, MaxFiles)
  BY <1>7, Zenon DEF More
<1>9. More(b, g, h, 0)
  BY <1>1, <1>2, <1>3, <1>8, SameBelow
<1> QED  BY <1>2, <1>3, <1>4, <1>9, Zenon DEF More

\* Archives that are missing, and those that are there and full
Missing(A) == {n \in Files : A[n] = <<>>}
AllFull(A) == \A n \in Files : A[n] = <<>> \/ Len(A[n]) >= MaxSize

LEMMA MissingFinite ==
  ASSUME NEW S \in SUBSET Files
  PROVE  IsFiniteSet(S) /\ Cardinality(S) \in Nat
<1>1. IsFiniteSet(Files)
  BY FS_Interval, FilesFacts DEF Files
<1> QED  BY <1>1, FS_Subset, FS_CardinalityType

\* Full files hold at least as much as fewer ones.
LEMMA MoreFiles ==
  ASSUME NEW a \in Int, NEW b \in Int, a <= b
  PROVE  a * MaxSize \in Int /\ b * MaxSize \in Int /\ a * MaxSize <= b * MaxSize
<1>1. PICK d \in Nat : d = b - a
  OBVIOUS
<1>2. b = a + d /\ MaxSize \in Nat
  BY <1>1, FilesFacts
<1>3. (a + d) * MaxSize = a * MaxSize + d * MaxSize
  BY <1>2
<1>4. d * MaxSize \in Nat /\ a * MaxSize \in Int
  BY <1>2
<1> QED  BY <1>2, <1>3, <1>4

\* Each archive that is there holds MaxSize entries.
LEMMA PileHolds ==
  ASSUME NEW A, Archived(A), AllFull(A)
  PROVE  Len(Piled(A)) >= ((MaxFiles + 1) - Cardinality(Missing(A))) * MaxSize
<1>1. PICK h : Piles(h, A) /\ Piled(A) = h[0]
  BY PilesExist
<1> DEFINE N == MaxFiles + 1
           Above(m) == {n \in Missing(A) : n > N - m}
           T == {m \in Nat : m <= N => Len(h[N - m]) >= (m - Cardinality(Above(m))) * MaxSize}
<1>2. N \in Nat /\ Files = 1 .. N /\ N - 0 = N /\ N - N = 0
  BY FilesFacts DEF Files
<1>3. \A m \in Nat : IsFiniteSet(Above(m)) /\ Cardinality(Above(m)) \in Nat
  BY MissingFinite DEF Missing
<1>4. 0 \in T
  <2>1. Above(0) = {}
    BY <1>2 DEF Missing
  <2>2. Cardinality(Above(0)) = 0
    BY <2>1, FS_EmptySet
  <2>3. Len(h[N]) = 0
    BY <1>1 DEF Piles
  <2>4. (0 - 0) * MaxSize = 0
    BY FilesFacts
  <2> QED  BY <1>2, <2>2, <2>3, <2>4
<1>5. ASSUME NEW m \in T \cap Nat PROVE m + 1 \in T
  <2> SUFFICES ASSUME m + 1 <= N
               PROVE  Len(h[N - (m + 1)]) >= ((m + 1) - Cardinality(Above(m + 1))) * MaxSize
    OBVIOUS
  <2>1. N - m \in Files /\ (N - m) - 1 = N - (m + 1) /\ m <= N /\ N - m \in 0 .. N
    BY <1>2
  <2>2. PICK c \in Nat, d \in Nat : c = Cardinality(Above(m)) /\ d = Cardinality(Above(m + 1))
    <3>1. m \in Nat /\ m + 1 \in Nat
      OBVIOUS
    <3>2. Cardinality(Above(m)) \in Nat /\ Cardinality(Above(m + 1)) \in Nat
      BY <1>3, <3>1, Zenon
    <3> QED  BY <3>2, Zenon
  <2>3. \A n \in Files : n > N - (m + 1) <=> n > N - m \/ n = N - m
    BY <1>2, <2>1
  <2>4. ~(N - m > N - m)
    BY <1>2
  <2>5. PICK x \in Seq(Entry), y \in Seq(Entry) : x = h[N - m] /\ y = A[N - m]
    BY <1>1, <2>1 DEF Piles, Archived
  <2>6. h[N - (m + 1)] = x \o y
    BY <1>1, <2>1, <2>5, Zenon DEF Piles
  <2>7. Len(x \o y) = Len(x) + Len(y) /\ Len(x) \in Nat /\ Len(y) \in Nat
    OBVIOUS
  <2>8. Len(x) >= (m - c) * MaxSize
    BY <2>1, <2>2, <2>5
  <2>9. MaxSize \in Nat /\ (m - c) * MaxSize \in Int
    BY FilesFacts
  <2>10. CASE y = <<>>
    <3>1. N - m \in Missing(A) /\ Missing(A) \subseteq Files
      BY <2>1, <2>5, <2>10, Zenon DEF Missing
    <3>2. Above(m + 1) = Above(m) \cup {N - m} /\ N - m \notin Above(m)
      BY <2>3, <2>4, <3>1, Zenon
    <3>3. d = c + 1
      BY <1>3, <2>2, <3>2, FS_AddElement
    <3>4. (m + 1) - d = m - c
      BY <3>3
    <3> QED  BY <2>2, <2>6, <2>7, <2>8, <2>9, <3>4
  <2>11. CASE y # <<>>
    <3>1. Above(m + 1) = Above(m)
      <4>1. N - m \notin Missing(A) /\ Missing(A) \subseteq Files
        BY <2>1, <2>5, <2>11, Zenon DEF Missing
      <4> QED  BY <2>3, <4>1, Zenon
    <3>2. Len(y) >= MaxSize
      BY <2>1, <2>5, <2>11 DEF AllFull
    <3>3. ((m - c) + 1) * MaxSize = (m - c) * MaxSize + MaxSize
      BY <2>9
    <3>4. (m + 1) - d = (m - c) + 1
      <4>1. d = c
        BY <2>2, <3>1, Zenon
      <4> QED  BY <4>1
    <3>5. Len(x \o y) >= ((m - c) + 1) * MaxSize
      BY <2>7, <2>8, <2>9, <3>2, <3>3
    <3> QED  BY <2>2, <2>6, <3>4, <3>5
  <2> QED  BY <2>10, <2>11
<1> HIDE DEF T
<1>6. N \in T /\ N <= N
  BY <1>2, <1>4, <1>5, SetInduction
<1>7. Above(N) = Missing(A)
  BY <1>2 DEF Missing
<1> QED  BY <1>1, <1>2, <1>6, <1>7 DEF T
=============================================================================
