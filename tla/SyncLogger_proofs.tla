--------------------------- MODULE SyncLogger_proofs ---------------------------
(****************************************************************************)
(* Theorems about SyncLogger for every set of paths, all their lengths and  *)
(* every bound: the log that synclogger.cpp writes byte by byte implements  *)
(* the log with free cuts.                                                  *)
(*                                                                          *)
(* The cut depends on sums of lengths.  What has to be known of them is     *)
(* that the offset of a piece is that of the one before it plus its length  *)
(* (OffsetSteps); the first bytes of a file are then some of its first      *)
(* pieces, the last of them perhaps shorter (FirstBytesIsCut).              *)
(****************************************************************************)
EXTENDS SyncLogger, SyncLogFile_proofs

\* What the file consists of: beginnings of texts, none of them empty.
Text == Seq([entry : Entry, n : Nat \ {0}])

Bounded(f) == \A i \in DOMAIN f : f[i].n <= EntryBytes(f[i].entry)

(****************************************************************************)
(* Sums over sets of positions.                                             *)
(****************************************************************************)
\* g is the number of bytes in each set of the first k pieces.
Adds(g, f, k) ==
  /\ g \in [SUBSET (1 .. k) -> Nat]
  /\ g[{}] = 0
  /\ \A s \in SUBSET (1 .. k) : \A x \in s : g[s] = f[x].n + g[s \ {x}]

\* Such a g for the first k pieces gives one for the first k + 1.
LEMMA SumsGrow ==
  ASSUME NEW k \in Nat, NEW f,
         \A i \in 1 .. k + 1 : f[i].n \in Nat, NEW g, Adds(g, f, k)
  PROVE  \E h : Adds(h, f, k + 1)
<1> DEFINE m == k + 1
           Own(s) == IF m \in s THEN f[m].n ELSE 0
           h == [s \in SUBSET (1 .. m) |-> g[s \ {m}] + Own(s)]
<1>0. m \in Nat /\ \A s \in SUBSET (1 .. m) : s \ {m} \in SUBSET (1 .. k)
  OBVIOUS
<1>1. h \in [SUBSET (1 .. m) -> Nat]
  <2>1. \A s \in SUBSET (1 .. m) : g[s \ {m}] \in Nat /\ Own(s) \in Nat
    BY <1>0 DEF Adds
  <2>2. \A s \in SUBSET (1 .. m) : g[s \ {m}] + Own(s) \in Nat
    BY <2>1
  <2> HIDE DEF Own, m
  <2> QED BY <2>2, Zenon
<1>2. h[{}] = 0
  <2>1. {} \in SUBSET (1 .. m) /\ {} \ {m} = {}
    OBVIOUS
  <2> HIDE DEF m
  <2> QED BY <2>1 DEF Adds
<1>3. ASSUME NEW s \in SUBSET (1 .. m), NEW x \in s
      PROVE  h[s] = f[x].n + h[s \ {x}]
  <2>0. /\ h[s] = g[s \ {m}] + Own(s)
        /\ h[s \ {x}] = g[(s \ {x}) \ {m}] + Own(s \ {x})
        /\ g[s \ {m}] \in Nat
        /\ g[(s \ {x}) \ {m}] \in Nat
    <3>1. s \ {x} \in SUBSET (1 .. m)
      OBVIOUS
    <3> HIDE DEF m, Own
    <3> QED BY <3>1, <1>0 DEF Adds
  <2>1. CASE x = m
    <3>1. (s \ {x}) \ {m} = s \ {m}
      BY <2>1
    <3>2. Own(s) = f[m].n /\ Own(s \ {x}) = 0 /\ f[m].n \in Nat
      BY <2>1
    <3>3. h[s] = g[s \ {m}] + f[x].n
      BY <3>2, <2>0, <2>1, Zenon
    <3>4. h[s \ {x}] = g[s \ {m}] + 0
      BY <3>1, <3>2, <2>0, Zenon
    <3>5. g[s \ {m}] \in Nat /\ f[x].n \in Nat
      BY <3>2, <2>0, <2>1, Zenon
    <3> HIDE DEF m, Own, h
    <3> QED BY <3>3, <3>4, <3>5
  <2>2. CASE x # m
    <3>1. x \in s \ {m} /\ (s \ {m}) \ {x} = (s \ {x}) \ {m}
      BY <2>2
    <3>2. Own(s) = Own(s \ {x}) /\ Own(s) \in Nat
      BY <2>2
    <3>3. g[s \ {m}] = f[x].n + g[(s \ {m}) \ {x}]
      <4> HIDE DEF m
      <4> QED BY <3>1, <1>0 DEF Adds
    <3>4. f[x].n \in Nat
      OBVIOUS
    <3>5. h[s] = g[s \ {m}] + Own(s)
      BY <2>0, Zenon
    <3>6. h[s \ {x}] = g[(s \ {x}) \ {m}] + Own(s \ {x})
      BY <2>0, Zenon
    <3>7. g[(s \ {x}) \ {m}] \in Nat
      BY <2>0, Zenon
    <3>8. g[s \ {m}] = f[x].n + g[(s \ {x}) \ {m}]
      BY <3>1, <3>3, Zenon
    <3> HIDE DEF m, Own, h
    <3> QED BY <3>2, <3>4, <3>5, <3>6, <3>7, <3>8
  <2> QED BY <2>1, <2>2
<1> HIDE DEF h
<1>4. Adds(h, f, m)
  BY <1>1, <1>2, <1>3 DEF Adds
<1> QED BY <1>4

\* So there is one for every file.
LEMMA SumsExist ==
  ASSUME NEW n \in Nat, NEW f, \A i \in 1 .. n : f[i].n \in Nat
  PROVE  \E g : Adds(g, f, n)
<1> DEFINE T == {m \in 1 .. n + 1 : \E g : Adds(g, f, m - 1)}
<1>1. 1 \in T
  <2> DEFINE g == [s \in SUBSET (1 .. 0) |-> 0]
  <2>1. \A s \in SUBSET (1 .. 0) : s = {}
    OBVIOUS
  <2>2. Adds(g, f, 0)
    BY <2>1 DEF Adds
  <2> QED BY <2>2
<1>2. T \subseteq 1 .. n + 1 /\ T # {} /\ n + 1 \in Nat
  <2>1. T \subseteq 1 .. n + 1
    OBVIOUS
  <2> HIDE DEF T
  <2> QED BY <1>1, <2>1
<1> DEFINE m == LastOf(T)
<1>3. m \in T /\ \A k \in T : k <= m
  <2> HIDE DEF T
  <2> QED BY <1>2, LastOfProperties
<1>4. CASE m = n + 1
  BY <1>3, <1>4
<1>5. CASE m # n + 1
  <2> HIDE DEF m
  <2>1. m \in 1 .. n /\ m - 1 \in Nat /\ (m - 1) + 1 = m /\ (m + 1) - 1 = m
    BY <1>3, <1>5
  <2>2. PICK g : Adds(g, f, m - 1)
    BY <1>3
  <2>3. \A i \in 1 .. (m - 1) + 1 : f[i].n \in Nat
    BY <2>1
  <2>4. \E h : Adds(h, f, (m - 1) + 1)
    BY <2>1, <2>2, <2>3, SumsGrow
  <2>5. m + 1 \in T
    BY <2>1, <2>4
  <2> QED BY <2>1, <2>5, <1>3
<1> QED BY <1>4, <1>5

\* The sum that Offset takes is g's: it recurses over sets of positions.
LEMMA OffsetIsSum ==
  ASSUME NEW n \in Nat, NEW f, \A i \in 1 .. n : f[i].n \in Nat,
         NEW g, Adds(g, f, n), NEW i \in 1 .. n + 1
  PROVE  Offset(f, i) = g[1 .. i - 1]
<1> DEFINE S == 1 .. i - 1
           Any(s) == CHOOSE x \in s : TRUE
           Sums(h) == h = [s \in SUBSET S |-> IF s = {} THEN 0
                                              ELSE f[Any(s)].n + h[s \ {Any(s)}]]
           h == CHOOSE h : Sums(h)
<1>1. Offset(f, i) = h[S]
  BY DEF Offset, MapThenSumSet, MapThenFoldSet
<1>2. S \subseteq 1 .. n /\ IsFiniteSet(S)
  BY FS_Interval
<1>3. \A s \in SUBSET S : s # {} => Any(s) \in s
  OBVIOUS
<1> HIDE DEF S, Any
<1>4. Sums([s \in SUBSET S |-> g[s]])
  <2> DEFINE gS == [s \in SUBSET S |-> g[s]]
  <2>1. ASSUME NEW s \in SUBSET S
        PROVE  gS[s] = IF s = {} THEN 0 ELSE f[Any(s)].n + gS[s \ {Any(s)}]
    <3>1. CASE s = {}
      BY <3>1 DEF Adds
    <3>2. CASE s # {}
      <4>1. Any(s) \in s /\ s \in SUBSET (1 .. n)
        BY <1>2, <1>3, <3>2
      <4>2. g[s] = f[Any(s)].n + g[s \ {Any(s)}]
        BY <4>1 DEF Adds
      <4> QED BY <4>2, <3>2
    <3> QED BY <3>1, <3>2
  <2> QED BY <2>1
<1>5. Sums(h)
  <2> HIDE DEF Sums
  <2> QED BY <1>4
<1>6. \A s \in SUBSET S : h[s] = IF s = {} THEN 0
                                 ELSE f[Any(s)].n + h[s \ {Any(s)}]
  <2> HIDE DEF h
  <2> QED BY <1>5
<1> HIDE DEF h
<1> DEFINE R == StrictSubsetOrdering(S)
           Bad == {s \in SUBSET S : h[s] # g[s]}
<1>7. IsWellFoundedOn(R, SUBSET S)
  BY <1>2, FS_StrictSubsetOrderingWellFounded, FS_FiniteSubsetsOfFinite
<1>8. Bad = {}
  <2> SUFFICES ASSUME Bad # {} PROVE FALSE
    OBVIOUS
  <2>1. PICK s \in Bad : \A r \in Bad : ~(<<r, s>> \in R)
    <3>1. Bad \subseteq SUBSET S
      OBVIOUS
    <3> HIDE DEF Bad, R
    <3> QED BY <1>7, <3>1, WFMin, Zenon
  <2>2. s # {}
    BY <1>6 DEF Adds
  <2> DEFINE x == Any(s)
  <2>3. x \in s /\ s \in SUBSET (1 .. n)
    BY <1>2, <1>3, <2>2
  <2> HIDE DEF x
  <2>4. s \ {x} \in SUBSET S /\ s \ {x} # s /\ s \ {x} \subseteq s
    BY <2>3
  <2>5. <<s \ {x}, s>> \in R
    BY <2>4, Zenon DEF StrictSubsetOrdering
  <2>6. h[s \ {x}] = g[s \ {x}]
    BY <2>1, <2>4, <2>5
  <2>7. h[s] = f[x].n + h[s \ {x}]
    BY <1>6, <2>2 DEF x
  <2>8. g[s] = f[x].n + g[s \ {x}]
    BY <2>3 DEF Adds
  <2> QED BY <2>6, <2>7, <2>8
<1>9. S \in SUBSET S
  OBVIOUS
<1>10. h[S] = g[S]
  BY <1>8, <1>9, Zenon
<1> QED BY <1>1, <1>10 DEF S

\* What Text says of a file, unfolded.
LEMMA TextPieces ==
  ASSUME NEW f \in Text
  PROVE  /\ Len(f) \in Nat
         /\ DOMAIN f = 1 .. Len(f)
         /\ \A i \in 1 .. Len(f) : /\ f[i].entry \in Entry
                                   /\ f[i].n \in Nat \ {0}
<1> DEFINE P == [entry : Entry, n : Nat \ {0}]
<1>1. f \in Seq(P)
  BY DEF Text
<1> HIDE DEF P
<1>2. /\ Len(f) \in Nat
      /\ DOMAIN f = 1 .. Len(f)
      /\ \A i \in 1 .. Len(f) : f[i] \in P
  BY <1>1
<1> QED BY <1>2 DEF P

\* The first piece begins at 0, every other one where the one before it ends.
LEMMA OffsetSteps ==
  ASSUME NEW f \in Text
  PROVE  /\ Offset(f, 1) = 0
         /\ \A i \in 1 .. Len(f) + 1 : Offset(f, i) \in Nat
         /\ \A i \in 1 .. Len(f) : Offset(f, i + 1) = Offset(f, i) + f[i].n
<1> DEFINE n == Len(f)
<1>1. n \in Nat /\ \A i \in 1 .. n : f[i].n \in Nat
  BY TextPieces
<1> HIDE DEF n
<1>2. PICK g : Adds(g, f, n)
  BY <1>1, SumsExist
<1>3. \A i \in 1 .. n + 1 : Offset(f, i) = g[1 .. i - 1]
  BY <1>1, <1>2, OffsetIsSum
<1>4. Offset(f, 1) = 0
  <2>1. 1 .. 1 - 1 = {} /\ 1 \in 1 .. n + 1
    BY <1>1
  <2>2. g[{}] = 0
    BY <1>2 DEF Adds
  <2> QED BY <1>3, <2>1, <2>2
<1>5. ASSUME NEW i \in 1 .. n + 1
      PROVE  Offset(f, i) \in Nat
  <2>1. 1 .. i - 1 \in SUBSET (1 .. n)
    BY <1>1
  <2>2. g[1 .. i - 1] \in Nat
    BY <2>1, <1>2 DEF Adds
  <2> QED BY <2>2, <1>3
<1>6. ASSUME NEW i \in 1 .. n
      PROVE  Offset(f, i + 1) = Offset(f, i) + f[i].n
  <2>1. /\ i + 1 \in 1 .. n + 1
        /\ i \in 1 .. n + 1
        /\ 1 .. (i + 1) - 1 \in SUBSET (1 .. n)
        /\ i \in 1 .. (i + 1) - 1
        /\ (1 .. (i + 1) - 1) \ {i} = 1 .. i - 1
    BY <1>1
  <2>2. g[1 .. (i + 1) - 1] = f[i].n + g[1 .. i - 1]
    <3> DEFINE s == 1 .. (i + 1) - 1
    <3>1. s \in SUBSET (1 .. n) /\ i \in s /\ s \ {i} = 1 .. i - 1
      BY <2>1
    <3> HIDE DEF s
    <3>2. g[s] = f[i].n + g[s \ {i}]
      BY <3>1, <1>2 DEF Adds
    <3> QED BY <3>1, <3>2 DEF s
  <2>3. Offset(f, i + 1) = f[i].n + Offset(f, i)
    BY <1>3, <2>1, <2>2
  <2>4. Offset(f, i) \in Nat /\ f[i].n \in Nat
    BY <1>1, <1>5, <2>1
  <2> QED BY <2>3, <2>4
<1> QED BY <1>4, <1>5, <1>6 DEF n

\* Every piece ends before a later one begins.
LEMMA OffsetGrows ==
  ASSUME NEW f \in Text, NEW i \in 1 .. Len(f), NEW j \in i + 1 .. Len(f) + 1
  PROVE  Offset(f, i) + f[i].n <= Offset(f, j)
<1> DEFINE n == Len(f)
           Ends(k) == Offset(f, i) + f[i].n <= Offset(f, k)
           T == {m \in 1 .. n + 1 : \A k \in i + 1 .. m : Ends(k)}
           m == LastOf(T)
<1>1. n \in Nat /\ i \in 1 .. n /\ \A k \in 1 .. n : f[k].n \in Nat \ {0}
  BY TextPieces
<1>2. /\ \A k \in 1 .. n + 1 : Offset(f, k) \in Nat
      /\ \A k \in 1 .. n : Offset(f, k + 1) = Offset(f, k) + f[k].n
  BY OffsetSteps
<1> HIDE DEF n, Ends
<1>3. i + 1 \in T
  <2>1. Ends(i + 1)
    <3>1. Offset(f, i + 1) = Offset(f, i) + f[i].n /\ i \in 1 .. n + 1
      BY <1>1, <1>2
    <3> QED BY <1>1, <1>2, <3>1 DEF Ends
  <2> QED BY <1>1, <2>1
<1>4. m \in T /\ \A k \in T : k <= m
  <2>1. T \subseteq 1 .. n + 1 /\ n + 1 \in Nat
    BY <1>1
  <2> HIDE DEF T
  <2> QED BY <1>3, <2>1, LastOfProperties
<1> HIDE DEF m
<1>5. CASE m = n + 1
  BY <1>4, <1>5 DEF Ends, n
<1>6. CASE m # n + 1
  <2>1. m \in 1 .. n /\ m \in i + 1 .. m
    BY <1>1, <1>3, <1>4, <1>6
  <2>2. Ends(m) /\ Offset(f, m + 1) = Offset(f, m) + f[m].n
    BY <1>2, <1>4, <2>1
  <2>3. Ends(m + 1)
    <3>0. i \in 1 .. n + 1 /\ m \in 1 .. n + 1
      BY <1>1, <2>1
    <3>1. /\ Offset(f, i) \in Nat /\ Offset(f, m) \in Nat
          /\ f[i].n \in Nat /\ f[m].n \in Nat
      BY <1>1, <1>2, <2>1, <3>0
    <3>2. Offset(f, i) + f[i].n <= Offset(f, m)
      BY <2>2 DEF Ends
    <3>3. Offset(f, i) + f[i].n <= Offset(f, m + 1)
      BY <2>2, <3>1, <3>2
    <3> QED BY <3>3 DEF Ends
  <2>4. m + 1 \in T
    BY <1>1, <1>4, <2>1, <2>3
  <2> QED BY <1>4, <2>1, <2>4
<1> QED BY <1>5, <1>6

\* The smallest of some positions.
LEMMA MinProperties ==
  ASSUME NEW n \in Nat, NEW S, S \subseteq 1 .. n, S # {}
  PROVE  Min(S) \in S /\ \A k \in S : Min(S) <= k
<1> DEFINE T == {n + 1 - k : k \in S}
           m == LastOf(T)
<1>0. S \subseteq Nat
  OBVIOUS
<1>1. T \subseteq 1 .. n /\ T # {}
  <2>1. ASSUME NEW k \in S PROVE n + 1 - k \in 1 .. n
    OBVIOUS
  <2> QED BY <2>1
<1>2. m \in T /\ \A k \in T : k <= m
  <2> HIDE DEF T
  <2> QED BY <1>1, LastOfProperties
<1> HIDE DEF m
<1>3. PICK j \in S : m = n + 1 - j
  BY <1>2
<1>4. \A k \in S : j <= k
  <2> SUFFICES ASSUME NEW k \in S PROVE j <= k
    OBVIOUS
  <2>1. n + 1 - k <= n + 1 - j
    BY <1>2, <1>3
  <2> QED BY <1>0, <2>1
<1> QED BY <1>4 DEF Min

LEMMA PiecesAreRecords ==
  ASSUME NEW f \in Text
  PROVE  \A i \in 1 .. Len(f) : f[i] = [entry |-> f[i].entry, n |-> f[i].n]
<1> DEFINE P == [entry : Entry, n : Nat \ {0}]
<1>1. \A x \in P : x = [entry |-> x.entry, n |-> x.n]
  OBVIOUS
<1>2. f \in Seq(P)
  BY DEF Text
<1> HIDE DEF P
<1>3. \A i \in 1 .. Len(f) : f[i] \in P
  BY <1>2
<1> QED BY <1>1, <1>3

LEMMA MinOfTwo ==
  ASSUME NEW a \in Int, NEW b \in Int
  PROVE  Min({a, b}) = IF a <= b THEN a ELSE b
<1> DEFINE m == IF a <= b THEN a ELSE b
<1>1. m \in {a, b} /\ \A y \in {a, b} : m <= y
  OBVIOUS
<1>2. \A x \in {a, b} : (\A y \in {a, b} : x <= y) => x = m
  OBVIOUS
<1> HIDE DEF m
<1>3. Min({a, b}) = m
  BY <1>1, <1>2 DEF Min
<1> QED BY <1>3 DEF m

(****************************************************************************)
(* The first bytes of a file.                                               *)
(****************************************************************************)
Shortened(piece, r) == [piece EXCEPT !.n = r]

\* The first bytes of a file, but not all of them, are its first pieces and
\* perhaps a part of the next one.
LEMMA FirstBytesPieces ==
  ASSUME NEW f \in Text, NEW k \in Nat, k < FileBytes(f)
  PROVE  \/ k = 0 /\ FirstBytes(f, k) = <<>>
         \/ \E c \in 1 .. Len(f) : \E r \in 1 .. f[c].n :
              /\ FirstBytes(f, k) = SubSeq(f, 1, c - 1) \o <<Shortened(f[c], r)>>
              /\ r = f[c].n => c < Len(f)
              /\ Offset(f, c) < k /\ r <= k
<1> DEFINE n == Len(f)
           kept == {i \in DOMAIN f : Offset(f, i) < k}
           Left(i) == Min({f[i].n, k - Offset(f, i)})
<1>1. /\ n \in Nat
      /\ DOMAIN f = 1 .. n
      /\ \A i \in 1 .. n : f[i].entry \in Entry /\ f[i].n \in Nat \ {0}
      /\ \A i \in 1 .. n : f[i] = [entry |-> f[i].entry, n |-> f[i].n]
  BY TextPieces, PiecesAreRecords
<1>2. /\ Offset(f, 1) = 0
      /\ \A i \in 1 .. n + 1 : Offset(f, i) \in Nat
      /\ \A i \in 1 .. n : Offset(f, i + 1) = Offset(f, i) + f[i].n
  BY OffsetSteps
<1>3. FirstBytes(f, k) = [i \in 1 .. Cardinality(kept) |-> Shortened(f[i], Left(i))]
  BY DEF FirstBytes, Shortened
<1>4. CASE k = 0
  <2>1. kept = {}
    BY <1>1, <1>2, <1>4
  <2>2. Cardinality(kept) = 0
    BY <2>1, FS_EmptySet
  <2>3. FirstBytes(f, k) = <<>>
    <3> HIDE DEF kept
    <3> QED BY <1>3, <2>2
  <2> QED BY <1>4, <2>3
<1>5. CASE k # 0
  <2> DEFINE c == LastOf(kept)
             r == Left(c)
  <2>1. n \in 1 .. n /\ 1 \in kept
    <3>1. n # 0
      BY <1>2, <1>5 DEF FileBytes
    <3> QED BY <1>1, <1>2, <1>5, <3>1
  <2>2. c \in kept /\ \A i \in kept : i <= c
    <3>1. kept \subseteq 1 .. n
      BY <1>1
    <3> HIDE DEF kept
    <3> QED BY <1>1, <2>1, <3>1, LastOfProperties
  <2> HIDE DEF c
  <2>3. c \in 1 .. n /\ Offset(f, c) < k
    BY <1>1, <2>2
  <2>4. \A i \in 1 .. c - 1 : f[i].n <= k - Offset(f, i)
    <3> SUFFICES ASSUME NEW i \in 1 .. c - 1 PROVE f[i].n <= k - Offset(f, i)
      OBVIOUS
    <3>1. Offset(f, i) + f[i].n <= Offset(f, c)
      BY <1>1, <2>3, OffsetGrows
    <3>2. /\ Offset(f, i) \in Nat /\ Offset(f, c) \in Nat /\ f[i].n \in Nat
      BY <1>1, <1>2, <2>3
    <3> QED BY <2>3, <3>1, <3>2
  <2>5. kept = 1 .. c
    <3>1. \A i \in 1 .. c - 1 : Offset(f, i) < k
      <4> SUFFICES ASSUME NEW i \in 1 .. c - 1 PROVE Offset(f, i) < k
        OBVIOUS
      <4>1. Offset(f, i) \in Nat /\ f[i].n \in Nat \ {0}
        BY <1>1, <1>2, <2>3
      <4> QED BY <2>4, <4>1
    <3> QED BY <1>1, <2>2, <2>3, <3>1
  <2>6. Cardinality(kept) = c
    <3>1. c \in Nat /\ 1 \in Nat /\ 1 <= c
      BY <2>3
    <3>2. Cardinality(1 .. c) = c
      BY <3>1, FS_Interval
    <3> QED BY <2>5, <3>2
  <2> HIDE DEF kept
  <2>7. \A i \in 1 .. c - 1 : Shortened(f[i], Left(i)) = f[i]
    <3> SUFFICES ASSUME NEW i \in 1 .. c - 1 PROVE Shortened(f[i], Left(i)) = f[i]
      OBVIOUS
    <3>1. Offset(f, i) \in Nat /\ f[i].n \in Nat /\ i \in 1 .. n
      BY <1>1, <1>2, <2>3
    <3>2. Left(i) = f[i].n
      BY <2>4, <3>1, MinOfTwo
    <3> HIDE DEF Left
    <3> QED BY <1>1, <3>1, <3>2 DEF Shortened
  <2>8. /\ r \in 1 .. f[c].n
        /\ r <= k
        /\ r = f[c].n => f[c].n <= k - Offset(f, c)
    <3>1. Offset(f, c) \in Nat /\ f[c].n \in Nat \ {0} /\ Offset(f, c) < k
      BY <1>1, <1>2, <2>3
    <3>2. r = IF f[c].n <= k - Offset(f, c) THEN f[c].n ELSE k - Offset(f, c)
      BY <3>1, MinOfTwo
    <3> HIDE DEF r
    <3> QED BY <3>1, <3>2
  <2>9. r = f[c].n => c < n
    <3>1. ASSUME r = f[c].n, c = n
          PROVE  FALSE
      <4>1. f[n].n <= k - Offset(f, n)
        BY <2>8, <3>1
      <4>2. FileBytes(f) = Offset(f, n) + f[n].n
        BY <1>2, <2>1 DEF FileBytes
      <4>3. Offset(f, n) \in Nat /\ f[n].n \in Nat
        BY <1>1, <1>2, <2>1
      <4> HIDE DEF n, r
      <4> QED BY <4>1, <4>2, <4>3
    <3> HIDE DEF r, n
    <3> QED BY <1>1, <2>3, <3>1
  <2>10. FirstBytes(f, k) = SubSeq(f, 1, c - 1) \o <<Shortened(f[c], r)>>
    <3> DEFINE front == SubSeq(f, 1, c - 1)
               x == Shortened(f[c], r)
               P == [entry : Entry, n : Nat \ {0}]
    <3>1. FirstBytes(f, k) = [i \in 1 .. c |-> Shortened(f[i], Left(i))]
      BY <1>3, <2>6
    <3>2. \A i \in 1 .. c : Shortened(f[i], Left(i)) = IF i < c THEN f[i] ELSE x
      <4> SUFFICES ASSUME NEW i \in 1 .. c
                   PROVE  Shortened(f[i], Left(i)) = IF i < c THEN f[i] ELSE x
        OBVIOUS
      <4>1. CASE i = c
        BY <4>1
      <4>2. CASE i # c
        <5>1. i \in 1 .. c - 1 /\ i < c
          BY <2>3, <4>2
        <5> HIDE DEF Left
        <5> QED BY <2>7, <5>1
      <4> QED BY <4>1, <4>2
    <3>3. x \in P
      <4> HIDE DEF r
      <4> QED BY <1>1, <2>3, <2>8 DEF Shortened
    <3>4. f \in Seq(P)
      BY DEF Text
    <3> HIDE DEF x, r, P, Left
    <3>5. front \in Seq(P) /\ Len(front) = c - 1 /\ \A i \in 1 .. c - 1 : front[i] = f[i]
      BY <2>3, <3>4
    <3> HIDE DEF front
    <3>6. /\ front \o <<x>> \in Seq(P)
          /\ Len(front \o <<x>>) = c
          /\ \A i \in 1 .. c : (front \o <<x>>)[i] = IF i < c THEN f[i] ELSE x
      BY <2>3, <3>3, <3>5
    <3>7. front \o <<x>> = [i \in 1 .. c |-> IF i < c THEN f[i] ELSE x]
      BY <2>3, <3>6
    <3>8. FirstBytes(f, k) = [i \in 1 .. c |-> IF i < c THEN f[i] ELSE x]
      BY <3>1, <3>2
    <3> QED BY <3>7, <3>8 DEF front, x
  <2> HIDE DEF r
  <2> QED BY <2>3, <2>8, <2>9, <2>10
<1> QED BY <1>4, <1>5

(****************************************************************************)
(* The file in the terms of SyncLogFile.                                    *)
(****************************************************************************)
\* Even the text for a path of one letter is longer than its title.
LEMMA EntryLengths ==
  ASSUME NEW e \in Entry
  PROVE  EntryBytes(e) \in Nat /\ EntryBytes(e) >= 68
<1>1. PathLen[e.path] \in Nat \ {0}
  BY SyncLoggerAssumption DEF Entry
<1> QED BY <1>1 DEF EntryBytes

StateOf(piece) == IF ~ShowsBrace(piece) THEN "torn"
                  ELSE IF piece.n < EntryBytes(piece.entry) THEN "bare" ELSE "full"

AbstractPiece(piece) == [entry |-> piece.entry, state |-> StateOf(piece)]

\* Abstract works piece by piece.
LEMMA AbstractPieces ==
  ASSUME NEW f \in Text
  PROVE  /\ Abstract(f) \in Seq(Piece)
         /\ Len(Abstract(f)) = Len(f)
         /\ DOMAIN Abstract(f) = 1 .. Len(f)
         /\ \A i \in 1 .. Len(f) : /\ Abstract(f)[i] = AbstractPiece(f[i])
                                   /\ AbstractPiece(f[i]) \in Piece
                                   /\ Whole(Abstract(f)[i]) <=> ShowsBrace(f[i])
<1>1. /\ Len(f) \in Nat
      /\ DOMAIN f = 1 .. Len(f)
      /\ \A i \in 1 .. Len(f) : f[i].entry \in Entry
  BY TextPieces
<1>2. \A i \in 1 .. Len(f) : AbstractPiece(f[i]) \in Piece
  BY <1>1 DEF AbstractPiece, StateOf, Piece
<1>3. Abstract(f) = [i \in 1 .. Len(f) |-> AbstractPiece(f[i])]
  BY <1>1 DEF Abstract, AbstractPiece, StateOf
<1>4. \A i \in 1 .. Len(f) : Whole(AbstractPiece(f[i])) <=> ShowsBrace(f[i])
  BY DEF AbstractPiece, StateOf, Whole
<1>5. Abstract(f) \in Seq(Piece) /\ Len(Abstract(f)) = Len(f)
  BY <1>1, <1>2, <1>3
<1> QED BY <1>2, <1>3, <1>4, <1>5

\* A longer file is the abstraction of its parts, one behind the other.
LEMMA AbstractConcat ==
  ASSUME NEW f \in Text, NEW g \in Text
  PROVE  f \o g \in Text /\ Abstract(f \o g) = Abstract(f) \o Abstract(g)
<1>1. f \o g \in Text
  BY DEF Text
<1>2. /\ Len(f) \in Nat /\ Len(g) \in Nat
      /\ Len(f \o g) = Len(f) + Len(g)
      /\ \A i \in 1 .. Len(f) + Len(g) :
           (f \o g)[i] = IF i <= Len(f) THEN f[i] ELSE g[i - Len(f)]
  <2> DEFINE P == [entry : Entry, n : Nat \ {0}]
  <2>1. f \in Seq(P) /\ g \in Seq(P)
    BY DEF Text
  <2> HIDE DEF P
  <2> QED BY <2>1
<1> DEFINE a == Abstract(f)
           b == Abstract(g)
           c == Abstract(f \o g)
<1>3. /\ a \in Seq(Piece) /\ Len(a) = Len(f)
      /\ \A i \in 1 .. Len(f) : a[i] = AbstractPiece(f[i])
  BY AbstractPieces
<1>4. /\ b \in Seq(Piece) /\ Len(b) = Len(g)
      /\ \A i \in 1 .. Len(g) : b[i] = AbstractPiece(g[i])
  BY AbstractPieces
<1>5. /\ c \in Seq(Piece) /\ Len(c) = Len(f \o g)
      /\ \A i \in 1 .. Len(f \o g) : c[i] = AbstractPiece((f \o g)[i])
  BY <1>1, AbstractPieces
<1> HIDE DEF a, b, c
<1>6. a \o b \in Seq(Piece) /\ Len(a \o b) = Len(f) + Len(g)
  BY <1>3, <1>4
<1>7. \A i \in 1 .. Len(f) + Len(g) : c[i] = (a \o b)[i]
  <2> SUFFICES ASSUME NEW i \in 1 .. Len(f) + Len(g) PROVE c[i] = (a \o b)[i]
    OBVIOUS
  <2>1. (a \o b)[i] = IF i <= Len(f) THEN a[i] ELSE b[i - Len(f)]
    BY <1>2, <1>3, <1>4
  <2>2. CASE i <= Len(f)
    <3>1. i \in 1 .. Len(f)
      BY <1>2, <2>2
    <3> QED BY <1>2, <1>3, <1>5, <2>1, <2>2, <3>1
  <2>3. CASE ~(i <= Len(f))
    <3>1. i - Len(f) \in 1 .. Len(g)
      BY <1>2, <2>3
    <3> QED BY <1>2, <1>4, <1>5, <2>1, <2>3, <3>1
  <2> QED BY <2>2, <2>3
<1>8. c = a \o b
  BY <1>2, <1>5, <1>6, <1>7
<1> QED BY <1>1, <1>8 DEF a, b, c

\* The first pieces.
LEMMA AbstractFront ==
  ASSUME NEW f \in Text, NEW m \in 0 .. Len(f)
  PROVE  SubSeq(f, 1, m) \in Text /\ Abstract(SubSeq(f, 1, m)) = SubSeq(Abstract(f), 1, m)
<1> DEFINE g == SubSeq(f, 1, m)
           a == Abstract(f)
           b == Abstract(g)
<1>1. /\ g \in Text /\ Len(g) = m /\ Len(f) \in Nat
      /\ \A i \in 1 .. m : g[i] = f[i]
  <2> DEFINE P == [entry : Entry, n : Nat \ {0}]
  <2>1. f \in Seq(P)
    BY DEF Text
  <2> HIDE DEF P
  <2>2. g \in Seq(P) /\ Len(g) = m /\ Len(f) \in Nat /\ \A i \in 1 .. m : g[i] = f[i]
    BY <2>1
  <2> QED BY <2>2 DEF P, Text
<1> HIDE DEF g
<1>2. /\ a \in Seq(Piece) /\ Len(a) = Len(f)
      /\ \A i \in 1 .. Len(f) : a[i] = AbstractPiece(f[i])
  BY AbstractPieces
<1>3. /\ b \in Seq(Piece) /\ Len(b) = m
      /\ \A i \in 1 .. m : b[i] = AbstractPiece(g[i])
  BY <1>1, AbstractPieces
<1> HIDE DEF a, b
<1>4. /\ SubSeq(a, 1, m) \in Seq(Piece) /\ Len(SubSeq(a, 1, m)) = m
      /\ \A i \in 1 .. m : SubSeq(a, 1, m)[i] = a[i]
  BY <1>1, <1>2
<1>5. \A i \in 1 .. m : b[i] = SubSeq(a, 1, m)[i]
  BY <1>1, <1>2, <1>3, <1>4
<1>6. b = SubSeq(a, 1, m)
  BY <1>3, <1>4, <1>5
<1> QED BY <1>1, <1>6 DEF a, b, g

\* A file of one piece.
LEMMA OnePiece ==
  ASSUME NEW piece \in [entry : Entry, n : Nat \ {0}]
  PROVE  <<piece>> \in Text /\ Abstract(<<piece>>) = <<AbstractPiece(piece)>>
<1>1. <<piece>> \in Text
  BY DEF Text
<1>2. /\ Abstract(<<piece>>) \in Seq(Piece)
      /\ Len(Abstract(<<piece>>)) = 1
      /\ Abstract(<<piece>>)[1] = AbstractPiece(piece)
      /\ AbstractPiece(piece) \in Piece
  <2>1. Len(<<piece>>) = 1 /\ <<piece>>[1] = piece
    OBVIOUS
  <2> QED BY <1>1, <2>1, AbstractPieces
<1> HIDE DEF Abstract, AbstractPiece
<1> QED BY <1>1, <1>2

\* A shortened piece is a piece; its text is a fragment unless the brace is left.
LEMMA ShortenedPiece ==
  ASSUME NEW f \in Text, Bounded(f), NEW c \in 1 .. Len(f), NEW r \in 1 .. f[c].n
  PROVE  /\ Shortened(f[c], r) \in [entry : Entry, n : Nat \ {0}]
         /\ Shortened(f[c], r).entry = f[c].entry
         /\ Shortened(f[c], r).n = r
         /\ r = f[c].n => Shortened(f[c], r) = f[c]
         /\ r # f[c].n => /\ StateOf(Shortened(f[c], r)) \in CutStates(AbstractPiece(f[c]))
                          /\ StateOf(Shortened(f[c], r)) # "none"
<1>1. /\ f[c].entry \in Entry /\ f[c].n \in Nat \ {0}
      /\ f[c] = [entry |-> f[c].entry, n |-> f[c].n]
      /\ f[c].n <= EntryBytes(f[c].entry)
      /\ EntryBytes(f[c].entry) \in Nat
  BY TextPieces, PiecesAreRecords, EntryLengths DEF Bounded
<1>2. /\ Shortened(f[c], r) = [entry |-> f[c].entry, n |-> r]
      /\ r \in Nat \ {0} /\ r <= f[c].n
  BY <1>1 DEF Shortened
<1>3. ASSUME r # f[c].n
      PROVE  /\ StateOf(Shortened(f[c], r)) \in CutStates(AbstractPiece(f[c]))
             /\ StateOf(Shortened(f[c], r)) # "none"
  <2>1. r < EntryBytes(f[c].entry)
    BY <1>1, <1>2, <1>3
  <2>2. StateOf(Shortened(f[c], r)) =
          IF r >= EntryBytes(f[c].entry) - AfterBrace THEN "bare" ELSE "torn"
    BY <1>2, <2>1 DEF StateOf, ShowsBrace
  <2>3. r >= EntryBytes(f[c].entry) - AfterBrace => Whole(AbstractPiece(f[c]))
    BY <1>1, <1>2 DEF AfterBrace, Whole, AbstractPiece, StateOf, ShowsBrace
  <2> QED BY <2>2, <2>3 DEF CutStates
<1> QED BY <1>1, <1>2, <1>3

\* What FirstBytes leaves is the cut of a log that some lengths allow.
LEMMA FirstBytesIsCut ==
  ASSUME NEW f \in Text, Bounded(f), NEW k \in Nat, k < FileBytes(f)
  PROVE  /\ FirstBytes(f, k) \in Text
         /\ Bounded(FirstBytes(f, k))
         /\ \E m \in 0 .. Len(f) - 1 : \E rest \in CutStates(Abstract(f)[m + 1]) :
              Abstract(FirstBytes(f, k)) = Cut(Abstract(f), m, rest)
<1> DEFINE a == Abstract(f)
           first == FirstBytes(f, k)
           Goal == /\ first \in Text
                   /\ Bounded(first)
                   /\ \E m \in 0 .. Len(f) - 1 : \E rest \in CutStates(a[m + 1]) :
                        Abstract(first) = Cut(a, m, rest)
<1>1. /\ Len(f) \in Nat
      /\ \A i \in 1 .. Len(f) : f[i].n <= EntryBytes(f[i].entry)
  BY TextPieces DEF Bounded
<1>2. /\ a \in Seq(Piece) /\ Len(a) = Len(f)
      /\ \A i \in 1 .. Len(f) : a[i] = AbstractPiece(f[i])
  BY AbstractPieces
<1>3. Len(f) # 0
  <2>1. Offset(f, 1) = 0
    BY OffsetSteps
  <2> QED BY <2>1 DEF FileBytes
<1>4. ASSUME k = 0, first = <<>>
      PROVE  Goal
  <2>1. <<>> \in Text /\ Abstract(<<>>) = <<>> /\ Bounded(<<>>)
    BY DEF Text, Abstract, Bounded
  <2>2. Cut(a, 0, "none") = <<>>
    BY <1>2 DEF Cut
  <2>3. 0 \in 0 .. Len(f) - 1 /\ "none" \in CutStates(a[0 + 1])
    BY <1>1, <1>3 DEF CutStates
  <2> HIDE DEF a, first
  <2> QED BY <1>4, <2>1, <2>2, <2>3
<1>5. ASSUME NEW c \in 1 .. Len(f), NEW r \in 1 .. f[c].n,
             first = SubSeq(f, 1, c - 1) \o <<Shortened(f[c], r)>>,
             r = f[c].n => c < Len(f)
      PROVE  Goal
  <2> DEFINE x == Shortened(f[c], r)
             front == SubSeq(f, 1, c - 1)
  <2>1. /\ x \in [entry : Entry, n : Nat \ {0}]
        /\ x.entry = f[c].entry
        /\ x.n = r
        /\ r = f[c].n => x = f[c]
        /\ r # f[c].n => StateOf(x) \in CutStates(a[c]) /\ StateOf(x) # "none"
    BY <1>2, ShortenedPiece
  <2>2. front \in Text /\ Abstract(front) = SubSeq(a, 1, c - 1)
    <3>1. c - 1 \in 0 .. Len(f)
      BY <1>1
    <3> QED BY <3>1, AbstractFront
  <2>3. <<x>> \in Text /\ Abstract(<<x>>) = <<AbstractPiece(x)>>
    BY <2>1, OnePiece
  <2>4. first \in Text /\ Abstract(first) = SubSeq(a, 1, c - 1) \o <<AbstractPiece(x)>>
    <3> HIDE DEF x, front, first, a
    <3>1. front \o <<x>> \in Text /\ Abstract(front \o <<x>>) = Abstract(front) \o Abstract(<<x>>)
      BY <2>2, <2>3, AbstractConcat
    <3>2. first = front \o <<x>>
      BY <1>5 DEF x, front
    <3> QED BY <3>1, <3>2, <2>2, <2>3
  <2>5. Bounded(first)
    <3>1. /\ DOMAIN first = 1 .. c
          /\ \A i \in 1 .. c : first[i] = IF i < c THEN f[i] ELSE x
      <4> DEFINE P == [entry : Entry, n : Nat \ {0}]
      <4>1. f \in Seq(P) /\ x \in P
        BY <2>1 DEF Text
      <4>2. first = SubSeq(f, 1, c - 1) \o <<x>>
        BY <1>5
      <4>3. c \in 1 .. Len(f)
        BY <1>1
      <4> DEFINE s == SubSeq(f, 1, c - 1)
      <4>4. s \in Seq(P) /\ Len(s) = c - 1 /\ \A i \in 1 .. c - 1 : s[i] = f[i]
        <5> HIDE DEF P
        <5> QED BY <4>1, <4>3
      <4>5. first = s \o <<x>>
        BY <4>2
      <4> HIDE DEF P, x, first, s
      <4>6. Len(first) = c /\ DOMAIN first = 1 .. c
        BY <4>1, <4>3, <4>4, <4>5
      <4>7. ASSUME NEW i \in 1 .. c PROVE first[i] = IF i < c THEN f[i] ELSE x
        BY <4>1, <4>3, <4>4, <4>5
      <4> QED BY <4>6, <4>7
    <3>2. x.n <= EntryBytes(x.entry)
      <4>1. r <= f[c].n /\ f[c].n <= EntryBytes(f[c].entry) /\ f[c].entry \in Entry
        BY <1>1, TextPieces
      <4>2. EntryBytes(f[c].entry) \in Nat /\ f[c].n \in Nat
        BY <4>1, EntryLengths, TextPieces
      <4> HIDE DEF x
      <4> QED BY <2>1, <4>1, <4>2
    <3> HIDE DEF x, first
    <3>3. ASSUME NEW i \in 1 .. c
          PROVE  first[i].n <= EntryBytes(first[i].entry)
      <4>1. CASE i < c
        BY <1>1, <3>1, <4>1
      <4>2. CASE ~(i < c)
        BY <3>1, <3>2, <4>2
      <4> QED BY <4>1, <4>2
    <3> QED BY <3>1, <3>3 DEF Bounded
  <2>6. CASE r = f[c].n
    <3>1. SubSeq(a, 1, c - 1) \o <<a[c]>> = SubSeq(a, 1, c)
      <4> HIDE DEF a
      <4> QED BY <1>1, <1>2
    <3>2. AbstractPiece(x) = a[c]
      BY <2>1, <2>6, <1>2
    <3>3. Cut(a, c, "none") = SubSeq(a, 1, c)
      <4> HIDE DEF a
      <4>1. SubSeq(a, 1, c) \in Seq(Piece)
        BY <1>1, <1>2
      <4>2. SubSeq(a, 1, c) \o <<>> = SubSeq(a, 1, c)
        BY <4>1
      <4> QED BY <4>2 DEF Cut
    <3>4. c \in 0 .. Len(f) - 1 /\ "none" \in CutStates(a[c + 1])
      BY <1>1, <1>5, <2>6 DEF CutStates
    <3> HIDE DEF a, first, x
    <3> QED BY <2>4, <2>5, <3>1, <3>2, <3>3, <3>4
  <2>7. CASE r # f[c].n
    <3> DEFINE m == c - 1
    <3>1. m \in 0 .. Len(f) - 1 /\ m + 1 = c
      BY <1>1
    <3>2. AbstractPiece(x) = [a[c] EXCEPT !.state = StateOf(x)]
      <4>1. a[c] = AbstractPiece(f[c])
        BY <1>2
      <4>2. x.entry = f[c].entry
        BY <2>1
      <4> HIDE DEF a, x
      <4> QED BY <4>1, <4>2 DEF AbstractPiece
    <3>3. Abstract(first) = Cut(a, m, StateOf(x))
      <4>1. StateOf(x) # "none"
        BY <2>1, <2>7
      <4> HIDE DEF a, first, x
      <4> QED BY <2>4, <3>1, <3>2, <4>1 DEF Cut
    <3>4. StateOf(x) \in CutStates(a[m + 1])
      BY <2>1, <2>7, <3>1
    <3> HIDE DEF a, first, x, m
    <3> QED BY <2>4, <2>5, <3>1, <3>3, <3>4
  <2> QED BY <2>6, <2>7
<1>6. \/ k = 0 /\ first = <<>>
      \/ \E c \in 1 .. Len(f) : \E r \in 1 .. f[c].n :
           /\ first = SubSeq(f, 1, c - 1) \o <<Shortened(f[c], r)>>
           /\ r = f[c].n => c < Len(f)
  BY FirstBytesPieces, Zenon
<1> HIDE DEF Goal, first, a
<1>7. Goal
  BY <1>4, <1>5, <1>6, Zenon
<1> QED BY <1>7 DEF Goal, first, a

LEMMA NothingInFront ==
  ASSUME NEW x
  PROVE  <<>> \o <<x>> = <<x>>
<1>1. <<>> \in Seq({x}) /\ <<x>> \in Seq({x})
  OBVIOUS
<1>2. /\ <<>> \o <<x>> \in Seq({x})
      /\ Len(<<>> \o <<x>>) = 1
      /\ (<<>> \o <<x>>)[1] = x
  BY <1>1
<1> QED BY <1>2

\* Two bytes of a file that begins with a whole entry are a fragment of it.
LEMMA FewBytes ==
  ASSUME NEW f \in Text, Bounded(f), Len(f) # 0, ShowsBrace(f[1]), NEW k \in 0 .. 2
  PROVE  Abstract(FirstBytes(f, k)) =
           Cut(Abstract(f), 0, IF k = 0 THEN "none" ELSE "torn")
<1> DEFINE a == Abstract(f)
           first == FirstBytes(f, k)
<1>1. /\ Len(f) \in Nat /\ 1 \in 1 .. Len(f)
      /\ f[1].n \in Nat /\ f[1].n >= 66
      /\ f[1].n <= EntryBytes(f[1].entry)
      /\ EntryBytes(f[1].entry) \in Nat /\ EntryBytes(f[1].entry) >= 68
  <2>1. Len(f) \in Nat /\ 1 \in 1 .. Len(f)
    BY TextPieces
  <2>2. /\ f[1].entry \in Entry /\ f[1].n \in Nat
        /\ f[1].n <= EntryBytes(f[1].entry)
    BY <2>1, TextPieces DEF Bounded
  <2>3. EntryBytes(f[1].entry) \in Nat /\ EntryBytes(f[1].entry) >= 68
    BY <2>2, EntryLengths
  <2> QED BY <2>1, <2>2, <2>3 DEF ShowsBrace, AfterBrace
<1>2. /\ Offset(f, 1) = 0
      /\ \A i \in 1 .. Len(f) + 1 : Offset(f, i) \in Nat
  BY OffsetSteps
<1>3. \A j \in 2 .. Len(f) + 1 : f[1].n <= Offset(f, j)
  <2> SUFFICES ASSUME NEW j \in 2 .. Len(f) + 1 PROVE f[1].n <= Offset(f, j)
    OBVIOUS
  <2>1. Offset(f, 1) + f[1].n <= Offset(f, j)
    BY <1>1, OffsetGrows
  <2> QED BY <1>1, <1>2, <2>1
<1>4. k \in Nat /\ k < FileBytes(f)
  <2>1. FileBytes(f) \in Nat /\ f[1].n <= FileBytes(f)
    BY <1>1, <1>2, <1>3 DEF FileBytes
  <2> QED BY <1>1, <2>1
<1>5. a \in Seq(Piece) /\ Len(a) = Len(f) /\ a[1] = AbstractPiece(f[1])
  BY <1>1, AbstractPieces
<1>6. SubSeq(a, 1, 0) = <<>>
  <2> HIDE DEF a
  <2> QED BY <1>5
<1>7. CASE k = 0
  <2>1. first = <<>>
    <3>1. \A c \in 1 .. Len(f) : ~(Offset(f, c) < k)
      BY <1>1, <1>2, <1>7
    <3> QED BY <1>4, <3>1, FirstBytesPieces
  <2>2. Abstract(first) = <<>>
    BY <2>1 DEF Abstract
  <2>3. Cut(a, 0, "none") = <<>>
    BY <1>6 DEF Cut
  <2> QED BY <1>7, <2>2, <2>3
<1>8. CASE k # 0
  <2>1. PICK c \in 1 .. Len(f) : \E r \in 1 .. f[c].n :
           /\ first = SubSeq(f, 1, c - 1) \o <<Shortened(f[c], r)>>
           /\ Offset(f, c) < k /\ r <= k
    BY <1>4, <1>8, FirstBytesPieces, Zenon
  <2>2. c = 1
    BY <1>1, <1>2, <1>3, <2>1
  <2>3. PICK r \in 1 .. f[1].n :
           first = SubSeq(f, 1, 0) \o <<Shortened(f[1], r)>> /\ r <= k
    BY <2>1, <2>2
  <2> DEFINE x == Shortened(f[1], r)
  <2>4. /\ x \in [entry : Entry, n : Nat \ {0}]
        /\ x.entry = f[1].entry
        /\ x.n = r
    BY <1>1, ShortenedPiece
  <2>5. StateOf(x) = "torn"
    BY <1>1, <2>3, <2>4 DEF StateOf, ShowsBrace, AfterBrace
  <2>6. first = <<x>>
    <3> DEFINE P == [entry : Entry, n : Nat \ {0}]
    <3>1. f \in Seq(P)
      BY DEF Text
    <3> HIDE DEF P, x, first
    <3>2. SubSeq(f, 1, 0) = <<>>
      BY <3>1
    <3>3. first = SubSeq(f, 1, 0) \o <<x>>
      BY <2>3 DEF x
    <3> QED BY <3>2, <3>3, NothingInFront
  <2>7. Abstract(first) = <<AbstractPiece(x)>>
    BY <2>4, <2>6, OnePiece
  <2>8. AbstractPiece(x) = [a[1] EXCEPT !.state = "torn"]
    <3> HIDE DEF x, a
    <3> QED BY <1>5, <2>4, <2>5 DEF AbstractPiece
  <2>9. Cut(a, 0, "torn") = <<[a[1] EXCEPT !.state = "torn"]>>
    <3> HIDE DEF a
    <3>1. a[0 + 1] = a[1]
      OBVIOUS
    <3>2. Cut(a, 0, "torn") = <<>> \o <<[a[1] EXCEPT !.state = "torn"]>>
      BY <1>6, <3>1 DEF Cut
    <3> QED BY <3>2, NothingInFront
  <2> QED BY <1>8, <2>7, <2>8, <2>9
<1> QED BY <1>7, <1>8

(****************************************************************************)
(* RemoveEntry.                                                             *)
(****************************************************************************)
\* Where the brace of a piece is: after its begin, not after its end.
LEMMA BraceInPiece ==
  ASSUME NEW f \in Text, Bounded(f), NEW e \in 1 .. Len(f), ShowsBrace(f[e])
  PROVE  LET brace == Offset(f, e) + EntryBytes(f[e].entry) - AfterBrace
         IN  /\ FileBytes(f) - brace \in Nat
             /\ FileBytes(f) - brace < FileBytes(f)
             /\ e = Len(f) => /\ FileBytes(f) - brace \in 0 .. 2
                              /\ FileBytes(f) - brace = 0 => StateOf(f[e]) = "bare"
<1> DEFINE b == EntryBytes(f[e].entry)
           n == Len(f)
<1>1. /\ n \in Nat /\ e \in 1 .. n
      /\ f[e].n \in Nat /\ f[e].n >= b - 2 /\ f[e].n <= b
      /\ b \in Nat /\ b >= 68
  <2>1. n \in Nat /\ f[e].entry \in Entry /\ f[e].n \in Nat /\ f[e].n <= b
    BY TextPieces DEF Bounded
  <2>2. b \in Nat /\ b >= 68
    BY <2>1, EntryLengths
  <2> QED BY <2>1, <2>2 DEF ShowsBrace, AfterBrace
<1>2. /\ Offset(f, e) \in Nat /\ Offset(f, n + 1) \in Nat
      /\ Offset(f, e + 1) = Offset(f, e) + f[e].n
  BY <1>1, OffsetSteps
<1>3. Offset(f, e) + f[e].n <= Offset(f, n + 1)
  BY <1>1, OffsetGrows
<1>4. FileBytes(f) = Offset(f, n + 1)
  BY DEF FileBytes
<1>5. AfterBrace = 2
  BY DEF AfterBrace
<1>6. ASSUME e = n, f[e].n = b - 2
      PROVE  StateOf(f[e]) = "bare"
  BY <1>1, <1>5, <1>6 DEF StateOf, ShowsBrace
<1>7. e = n => Offset(f, n + 1) = Offset(f, e) + f[e].n
  BY <1>2
<1> HIDE DEF b, n
<1> QED BY <1>1, <1>2, <1>3, <1>4, <1>5, <1>6, <1>7 DEF b, n

\* Lengths stay within bounds when files are put together.
LEMMA BoundedConcat ==
  ASSUME NEW f \in Text, NEW g \in Text, Bounded(f), Bounded(g)
  PROVE  Bounded(f \o g)
<1> DEFINE P == [entry : Entry, n : Nat \ {0}]
<1>1. f \in Seq(P) /\ g \in Seq(P)
  BY DEF Text
<1> HIDE DEF P
<1>2. /\ Len(f) \in Nat /\ Len(g) \in Nat
      /\ DOMAIN f = 1 .. Len(f) /\ DOMAIN g = 1 .. Len(g)
      /\ DOMAIN (f \o g) = 1 .. Len(f) + Len(g)
      /\ \A i \in 1 .. Len(f) + Len(g) :
           (f \o g)[i] = IF i <= Len(f) THEN f[i] ELSE g[i - Len(f)]
  BY <1>1
<1>3. ASSUME NEW i \in 1 .. Len(f) + Len(g)
      PROVE  (f \o g)[i].n <= EntryBytes((f \o g)[i].entry)
  <2>1. CASE i <= Len(f)
    <3>1. i \in DOMAIN f /\ (f \o g)[i] = f[i]
      BY <1>2, <2>1
    <3> QED BY <3>1 DEF Bounded
  <2>2. CASE ~(i <= Len(f))
    <3>1. i - Len(f) \in DOMAIN g /\ (f \o g)[i] = g[i - Len(f)]
      BY <1>2, <2>2
    <3> QED BY <3>1 DEF Bounded
  <2> QED BY <2>1, <2>2
<1> QED BY <1>2, <1>3 DEF Bounded

\* The results that SyncLogFile lists, case by case.
LEMMA RemovedAtCases ==
  ASSUME NEW a \in Seq(Piece), NEW i \in DOMAIN a
  PROVE  LET front == SubSeq(a, 1, i - 1)
             ends  == {j \in i .. Len(a) : Whole(a[j])}
             few   == ends = {Len(a)} /\ Whole(a[1])
         IN  /\ ends = {} => front \in RemovedAt(a, i)
             /\ few => front \o Cut(a, 0, "torn") \in RemovedAt(a, i)
             /\ few /\ a[Len(a)].state = "bare" =>
                  front \o Cut(a, 0, "none") \in RemovedAt(a, i)
             /\ ends # {} /\ ~few =>
                  \A m \in 0 .. Len(a) - 1 : \A rest \in CutStates(a[m + 1]) :
                    front \o Cut(a, m, rest) \in RemovedAt(a, i)
<1> DEFINE front == SubSeq(a, 1, i - 1)
           ends  == {j \in i .. Len(a) : Whole(a[j])}
           few   == ends = {Len(a)} /\ Whole(a[1])
           rests == {"none", "torn", "bare"}
           cuts  == [m : 0 .. Len(a) - 1, rest : rests]
           able  == {d \in cuts : d.rest \in CutStates(a[d.m + 1])}
<1>1. RemovedAt(a, i) =
        CASE ends = {} -> {front}
          [] few -> {front \o Cut(a, 0, rest) :
                       rest \in {"torn"} \cup
                                (IF a[Len(a)].state = "bare" THEN {"none"} ELSE {})}
          [] OTHER -> {front \o Cut(a, c.m, c.rest) : c \in able}
  BY DEF RemovedAt
<1>2. few => ends # {}
  OBVIOUS
<1>3. ASSUME NEW m \in 0 .. Len(a) - 1, NEW rest \in CutStates(a[m + 1])
      PROVE  \E c \in able : c.m = m /\ c.rest = rest
  <2> DEFINE c == [m |-> m, rest |-> rest]
  <2>1. rest \in rests
    BY DEF CutStates
  <2>2. c \in cuts /\ c.m = m /\ c.rest = rest
    BY <2>1
  <2> HIDE DEF c, cuts
  <2>3. c \in able
    BY <2>2
  <2> QED BY <2>2, <2>3
<1> HIDE DEF ends, few, front, able
<1>4. ASSUME ends # {}, ~few, NEW m \in 0 .. Len(a) - 1, NEW rest \in CutStates(a[m + 1])
      PROVE  front \o Cut(a, m, rest) \in RemovedAt(a, i)
  <2>1. RemovedAt(a, i) = {front \o Cut(a, c.m, c.rest) : c \in able}
    BY <1>1, <1>4
  <2>2. PICK c \in able : c.m = m /\ c.rest = rest
    BY <1>3
  <2> QED BY <2>1, <2>2
<1>5. ASSUME ends = {}
      PROVE  front \in RemovedAt(a, i)
  <2>1. RemovedAt(a, i) = {front}
    BY <1>1, <1>2, <1>5
  <2> QED BY <2>1
<1>6. few => RemovedAt(a, i) =
               {front \o Cut(a, 0, rest) :
                  rest \in {"torn"} \cup
                           (IF a[Len(a)].state = "bare" THEN {"none"} ELSE {})}
  BY <1>1, <1>2
<1>7. few => front \o Cut(a, 0, "torn") \in RemovedAt(a, i)
  BY <1>6
<1>8. few /\ a[Len(a)].state = "bare" => front \o Cut(a, 0, "none") \in RemovedAt(a, i)
  BY <1>6
<1> QED BY <1>4, <1>5, <1>7, <1>8 DEF ends, few, front

\* The bytes that RemoveEntry computes are a result that SyncLogFile lists.
LEMMA RemoveEntryResult ==
  ASSUME NEW f \in Text, Bounded(f), NEW number
  PROVE  /\ RemoveEntry(f, number) \in Text
         /\ Bounded(RemoveEntry(f, number))
         /\ Abstract(RemoveEntry(f, number)) \in RemoveResults(Abstract(f), number)
<1> DEFINE n     == Len(f)
           found == {i \in DOMAIN f : f[i].entry.number = number /\ ShowsTitle(f[i])}
           entry == Min(found)
           ends  == {j \in entry .. n : ShowsBrace(f[j])}
           e     == Min(ends)
           brace == Offset(f, e) + EntryBytes(f[e].entry) - AfterBrace
           k     == FileBytes(f) - brace
           front == SubSeq(f, 1, entry - 1)
           a      == Abstract(f)
           aFound == {i \in DOMAIN a : a[i].entry.number = number}
           aFirst == {i \in aFound : \A j \in aFound : j < i => ~Whole(a[j])}
           Goal(g) == /\ g \in Text
                      /\ Bounded(g)
                      /\ Abstract(g) \in RemoveResults(a, number)
<1>1. /\ n \in Nat
      /\ DOMAIN f = 1 .. n
      /\ \A i \in 1 .. n : ShowsBrace(f[i]) => ShowsTitle(f[i])
  <2>1. \A i \in 1 .. n : f[i].entry \in Entry /\ f[i].n \in Nat
    BY TextPieces
  <2>2. \A i \in 1 .. n : EntryBytes(f[i].entry) \in Nat /\ EntryBytes(f[i].entry) >= 68
    BY <2>1, EntryLengths
  <2>3. \A i \in 1 .. n : ShowsBrace(f[i]) => ShowsTitle(f[i])
    BY <2>1, <2>2 DEF ShowsBrace, ShowsTitle, AfterBrace, TitleBytes
  <2> QED BY <2>3, TextPieces
<1>2. /\ a \in Seq(Piece)
      /\ Len(a) = n
      /\ DOMAIN a = 1 .. n
      /\ \A i \in 1 .. n : /\ a[i].entry = f[i].entry
                           /\ a[i].state = StateOf(f[i])
                           /\ Whole(a[i]) <=> ShowsBrace(f[i])
  <2>1. \A i \in 1 .. n : /\ AbstractPiece(f[i]).entry = f[i].entry
                          /\ AbstractPiece(f[i]).state = StateOf(f[i])
    BY DEF AbstractPiece
  <2>2. /\ a \in Seq(Piece) /\ Len(a) = n /\ DOMAIN a = 1 .. n
        /\ \A i \in 1 .. n : /\ a[i] = AbstractPiece(f[i])
                             /\ Whole(a[i]) <=> ShowsBrace(f[i])
    BY AbstractPieces
  <2> HIDE DEF a, n
  <2> QED BY <2>1, <2>2
<1>3. /\ RemoveEntry(f, number) =
           CASE found = {} -> f
             [] found # {} /\ ends = {} -> front
             [] OTHER -> front \o FirstBytes(f, k)
  BY DEF RemoveEntry
<1>4. RemoveResults(a, number) =
        (UNION {RemovedAt(a, i) : i \in aFirst})
          \cup (IF \E i \in aFound : Whole(a[i]) THEN {} ELSE {a})
  BY DEF RemoveResults
<1> HIDE DEF a
<1>5. ASSUME found = {}
      PROVE  Goal(f)
  <2>1. ~\E i \in aFound : Whole(a[i])
    BY <1>1, <1>2, <1>5
  <2> HIDE DEF aFound, aFirst
  <2>2. a \in RemoveResults(a, number)
    BY <1>4, <2>1
  <2> QED BY <2>2 DEF a
<1>6. ASSUME found # {}
      PROVE  /\ entry \in 1 .. n
             /\ RemovedAt(a, entry) \subseteq RemoveResults(a, number)
  <2>1. entry \in found /\ \A i \in found : entry <= i
    <3>1. found \subseteq 1 .. n
      BY <1>1
    <3> HIDE DEF found
    <3> QED BY <1>1, <1>6, <3>1, MinProperties
  <2> HIDE DEF entry
  <2>2. entry \in 1 .. n /\ entry \in aFound
    BY <1>1, <1>2, <2>1
  <2>3. ASSUME NEW j \in aFound, j < entry
        PROVE  ~Whole(a[j])
    <3>1. j \in 1 .. n /\ f[j].entry.number = number
      BY <1>2
    <3>2. j \notin found
      BY <1>1, <2>1, <2>2, <2>3, <3>1
    <3> QED BY <1>1, <1>2, <3>1, <3>2
  <2>4. entry \in aFirst
    BY <2>2, <2>3
  <2> HIDE DEF aFirst, aFound
  <2> QED BY <1>4, <2>2, <2>4
<1> HIDE DEF found, entry, aFound, aFirst
<1>7. ASSUME found # {}
      PROVE  /\ ends = {j \in entry .. Len(a) : Whole(a[j])}
             /\ entry \in DOMAIN a
             /\ front \in Text
             /\ Abstract(front) = SubSeq(a, 1, entry - 1)
             /\ Bounded(front)
  <2>1. entry \in 1 .. n
    BY <1>6, <1>7
  <2>2. \A j \in entry .. n : j \in 1 .. n
    BY <1>1, <2>1
  <2>3. ends = {j \in entry .. Len(a) : Whole(a[j])}
    BY <1>2, <2>2
  <2>4. entry - 1 \in 0 .. n
    BY <1>1, <2>1
  <2>5. front \in Text /\ Abstract(front) = SubSeq(a, 1, entry - 1)
    BY <2>4, AbstractFront DEF a
  <2>6. DOMAIN front = 1 .. entry - 1 /\ \A i \in 1 .. entry - 1 : front[i] = f[i]
    <3> DEFINE P == [entry : Entry, n : Nat \ {0}]
    <3>1. f \in Seq(P)
      BY DEF Text
    <3> HIDE DEF P
    <3> QED BY <2>4, <3>1
  <2>7. Bounded(front)
    <3> HIDE DEF front
    <3> QED BY <1>1, <2>1, <2>6 DEF Bounded
  <2> QED BY <1>2, <2>1, <2>3, <2>5, <2>7
<1>8. ASSUME found # {}, ends = {}
      PROVE  Goal(front)
  <2>1. SubSeq(a, 1, entry - 1) \in RemovedAt(a, entry)
    BY <1>2, <1>7, <1>8, RemovedAtCases
  <2> HIDE DEF front
  <2> QED BY <1>6, <1>7, <1>8, <2>1
<1>9. ASSUME found # {}, ends # {}
      PROVE  Goal(front \o FirstBytes(f, k))
  <2> DEFINE first == FirstBytes(f, k)
             few   == ends = {n} /\ Whole(a[1])
  <2>1. e \in 1 .. n /\ ShowsBrace(f[e]) /\ (ends = {n} => e = n)
    <3>1. ends \subseteq 1 .. n
      BY <1>1, <1>6, <1>9
    <3>2. e \in ends
      <4> HIDE DEF ends
      <4> QED BY <1>1, <1>9, <3>1, MinProperties
    <3> HIDE DEF e
    <3> QED BY <3>1, <3>2
  <2> HIDE DEF e
  <2>2. /\ k \in Nat /\ k < FileBytes(f)
        /\ e = n => k \in 0 .. 2 /\ (k = 0 => StateOf(f[e]) = "bare")
    BY <2>1, BraceInPiece
  <2> HIDE DEF k
  <2>3. first \in Text /\ Bounded(first)
    BY <2>2, FirstBytesIsCut
  <2> HIDE DEF first, front
  <2>4. /\ front \o first \in Text
        /\ Bounded(front \o first)
        /\ Abstract(front \o first) = SubSeq(a, 1, entry - 1) \o Abstract(first)
    BY <1>7, <1>9, <2>3, AbstractConcat, BoundedConcat
  <2>5. CASE few
    <3>1. /\ n # 0 /\ ShowsBrace(f[1])
          /\ k \in 0 .. 2
          /\ k = 0 => a[n].state = "bare"
      <4>1. e = n /\ n \in 1 .. n /\ 1 \in 1 .. n /\ Whole(a[1])
        <5>1. ends = {n} /\ Whole(a[1])
          BY <2>5
        <5>2. e = n /\ e \in 1 .. n
          BY <2>1, <5>1
        <5> HIDE DEF ends, n
        <5> QED BY <1>1, <5>1, <5>2
      <4>2. ShowsBrace(f[1]) /\ a[n].state = StateOf(f[n])
        BY <1>2, <4>1
      <4>3. k \in 0 .. 2 /\ (k = 0 => StateOf(f[n]) = "bare")
        BY <2>2, <4>1
      <4> QED BY <4>1, <4>2, <4>3
    <3>2. Abstract(first) = Cut(a, 0, IF k = 0 THEN "none" ELSE "torn")
      BY <3>1, FewBytes DEF a, first
    <3>3. SubSeq(a, 1, entry - 1) \o Abstract(first) \in RemovedAt(a, entry)
      BY <1>2, <1>7, <1>9, <2>5, <3>1, <3>2, RemovedAtCases
    <3>4. Abstract(front \o first) \in RemoveResults(a, number)
      BY <1>6, <1>9, <2>4, <3>3, Zenon
    <3> QED BY <2>4, <3>4 DEF first
  <2>6. CASE ~few
    <3>1. PICK m \in 0 .. n - 1 : \E rest \in CutStates(a[m + 1]) :
                 Abstract(first) = Cut(a, m, rest)
      BY <2>2, FirstBytesIsCut DEF a, first
    <3>2. PICK rest \in CutStates(a[m + 1]) : Abstract(first) = Cut(a, m, rest)
      BY <3>1
    <3>3. SubSeq(a, 1, entry - 1) \o Cut(a, m, rest) \in RemovedAt(a, entry)
      BY <1>2, <1>7, <1>9, <2>6, RemovedAtCases
    <3>4. Abstract(front \o first) \in RemoveResults(a, number)
      BY <1>6, <1>9, <2>4, <3>2, <3>3, Zenon
    <3> QED BY <2>4, <3>4 DEF first
  <2> QED BY <2>5, <2>6
<1> HIDE DEF ends, front, k, Goal
<1>10. Goal(RemoveEntry(f, number))
  BY <1>3, <1>5, <1>8, <1>9
<1> QED BY <1>10 DEF Goal, a

(****************************************************************************)
(* The specification: what every step leaves.                               *)
(****************************************************************************)
CallsInProgress ==
  [phase : {"remove"}, path : Paths, type : ModType,
   first : ModType \cup {"none"}, mine : Seq(Section)]

CallStates ==
  CallsInProgress \cup {NoCall, Written} \cup [phase : {"store"}, next : Nat]

\* As long as no thread takes a number that another one is about to count up, one
\* thread at most counts, it will store the next number, and only the entry it has
\* just written has the number that is about to go.
NumbersInText ==
  (restarts = 0 /\ shared = FALSE) =>
    /\ \A i \in DOMAIN text :
         \/ text[i].entry.number < newIndex
         \/ text[i].entry.number = newIndex /\ Counting # {}
    /\ \A i, j \in DOMAIN text :
         text[i].entry.number = text[j].entry.number => text[i].entry = text[j].entry
    /\ \A a \in Adders : call[a].phase = "store" => call[a].next = newIndex + 1
    /\ \A a, b \in Counting : a = b

LogInv ==
  /\ text \in Text
  /\ Bounded(text)
  /\ newIndex \in Nat
  /\ restarts \in Nat
  /\ shared \in BOOLEAN
  /\ call \in [Adders -> CallStates]
  /\ todo \in Seq(Section)
  /\ NumbersInText

LEMMA LogInvInit == Init => LogInv
<1> SUFFICES ASSUME Init PROVE LogInv
  OBVIOUS
<1>1. text \in Text /\ Bounded(text) /\ NumbersInText
  BY DEF Init, Text, Bounded, NumbersInText, Counting, NoCall
<1>2. newIndex \in Nat /\ restarts \in Nat /\ todo \in Seq(Section)
  BY DEF Init
<1>4. shared \in BOOLEAN
  BY Zenon DEF Init
<1>3. call \in [Adders -> CallStates]
  BY DEF Init, CallStates
<1> QED BY <1>1, <1>2, <1>3, <1>4 DEF LogInv

\* The phase tells the states of a call apart.
LEMMA PhaseOfCall ==
  ASSUME NEW c \in CallStates
  PROVE  /\ c.phase \in {"idle", "remove", "count", "store"}
         /\ c.phase = "idle" <=> c = NoCall
         /\ c.phase = "remove" <=> c \in CallsInProgress
         /\ c.phase = "count" <=> c = Written
         /\ c.phase = "store" => c.next \in Nat
BY DEF CallStates, CallsInProgress, NoCall, Written

\* The call of one thread changes.
LEMMA OneCallChanges ==
  ASSUME call \in [Adders -> CallStates], NEW a \in Adders, NEW c \in CallStates,
         call' = [call EXCEPT ![a] = c]
  PROVE  /\ call' \in [Adders -> CallStates]
         /\ call'[a] = c
         /\ \A b \in Adders : b # a => call'[b] = call[b]
OBVIOUS

\* ... and neither begins nor ends to count.
LEMMA CountingKept ==
  ASSUME call \in [Adders -> CallStates], NEW a \in Adders, NEW c \in CallStates,
         call' = [call EXCEPT ![a] = c],
         call[a].phase \in {"idle", "remove"}, c.phase \in {"idle", "remove"},
         newIndex' = newIndex, restarts' = restarts, shared' = shared, NumbersInText,
         \A i \in DOMAIN text' : \E k \in DOMAIN text : text'[i].entry = text[k].entry
  PROVE  NumbersInText'
<1>1. /\ call'[a] = c
      /\ \A b \in Adders : b # a => call'[b] = call[b]
  BY OneCallChanges
<1>2. Counting' = Counting
  BY <1>1 DEF Counting
<1>3. \A b \in Adders : call'[b].phase = "store" => call[b].phase = "store" /\ call'[b] = call[b]
  BY <1>1
<1> QED BY <1>2, <1>3 DEF NumbersInText

\* A rewrite makes up no entry.
LEMMA RemoveCopies ==
  ASSUME text \in Text, Bounded(text), NEW number, text' = RemoveEntry(text, number)
  PROVE  /\ text' \in Text /\ Bounded(text)'
         /\ \A i \in DOMAIN text' : \E k \in DOMAIN text : text'[i].entry = text[k].entry
<1>1. /\ text' \in Text
      /\ Bounded(text)'
      /\ Abstract(text') \in RemoveResults(Abstract(text), number)
  BY RemoveEntryResult DEF Bounded
<1>2. Copies(Abstract(text'), Abstract(text))
  <2>1. Abstract(text) \in Seq(Piece)
    BY AbstractPieces
  <2> QED BY <1>1, <2>1, RemoveResultsCopies
<1>3. \A i \in DOMAIN text' : \E k \in DOMAIN text : text'[i].entry = text[k].entry
  <2>1. /\ DOMAIN text = DOMAIN Abstract(text)
        /\ \A k \in DOMAIN text : Abstract(text)[k].entry = text[k].entry
        /\ DOMAIN text' = DOMAIN Abstract(text')
        /\ \A k \in DOMAIN text' : Abstract(text')[k].entry = text'[k].entry
    BY DEF Abstract
  <2> QED BY <1>2, <2>1 DEF Copies
<1> QED BY <1>1, <1>3

\* The list of sections that BeginAdd and ListAll take.
LEMMA SectionsTaken ==
  ASSUME text \in Text, NEW p
  PROVE  Sections(Abstract(text)) \in Seq(Section) /\ SectionsOf(Abstract(text), p) \in Seq(Section)
<1>1. Abstract(text) \in Seq(Piece)
  BY AbstractPieces
<1> QED BY <1>1, SectionsProperties, SectionsOfType

\* AddEntry begins.
LEMMA BeginKeepsLogInv ==
  ASSUME LogInv, NEW a \in Adders, NEW p \in Paths, NEW t \in ModType, BeginAdd(a, p, t)
  PROVE  LogInv'
<1> DEFINE c == Call(p, t, "none", SectionsOf(Abstract(text), p))
<1>1. c \in CallStates /\ c.phase = "remove"
  BY SectionsTaken DEF LogInv, Call, CallStates, CallsInProgress
<1>2. /\ call' = [call EXCEPT ![a] = c] /\ call[a].phase = "idle"
      /\ text' = text /\ newIndex' = newIndex /\ todo' = todo /\ restarts' = restarts
      /\ shared' = shared
  BY DEF BeginAdd, NoCall
<1> HIDE DEF c
<1>3. call' \in [Adders -> CallStates]
  BY <1>1, <1>2, OneCallChanges DEF LogInv
<1>4. NumbersInText'
  BY <1>1, <1>2, CountingKept DEF LogInv
<1> QED BY <1>2, <1>3, <1>4 DEF LogInv, Bounded

\* AddEntry removes an earlier entry of the path.
LEMMA RemoveEarlierKeepsLogInv ==
  ASSUME LogInv, NEW a \in Adders, RemoveEarlier(a)
  PROVE  LogInv'
<1> USE DEF LogInv
<1>1. PICK i \in DOMAIN call[a].mine :
        /\ text' = RemoveEntry(text, call[a].mine[i].number)
        /\ call' = [call EXCEPT ![a] =
                     [call[a] EXCEPT !.mine = Rest(call[a].mine, i),
                                     !.first = IF @ = "none" THEN call[a].mine[i].type ELSE @]]
  BY DEF RemoveEarlier
<1> DEFINE c == [call[a] EXCEPT !.mine = Rest(call[a].mine, i),
                                !.first = IF @ = "none" THEN call[a].mine[i].type ELSE @]
<1>2. call[a] \in CallsInProgress /\ call[a].phase = "remove"
  BY PhaseOfCall DEF RemoveEarlier
<1>3. call[a].mine[i] \in Section /\ Rest(call[a].mine, i) \in Seq(Section)
  BY <1>1, <1>2, RestProperties DEF CallsInProgress
<1>4. c \in CallsInProgress
  BY <1>2, <1>3 DEF CallsInProgress, Section
<1>5. c \in CallStates /\ c.phase = "remove"
  BY <1>4 DEF CallStates, CallsInProgress
<1>6. call' = [call EXCEPT ![a] = c]
  BY <1>1
<1> HIDE DEF c
<1>7. newIndex' = newIndex /\ todo' = todo /\ restarts' = restarts /\ shared' = shared
  BY DEF RemoveEarlier
<1>8. /\ text' \in Text /\ Bounded(text)'
      /\ \A k \in DOMAIN text' : \E m \in DOMAIN text : text'[k].entry = text[m].entry
  BY <1>1, RemoveCopies
<1>9. call' \in [Adders -> CallStates]
  BY <1>5, <1>6, OneCallChanges
<1>10. NumbersInText'
  BY <1>2, <1>5, <1>6, <1>7, <1>8, CountingKept
<1> QED BY <1>7, <1>8, <1>9, <1>10

\* The entry that AddEntry appends.
LEMMA FullPieceType ==
  ASSUME NEW n \in Nat, NEW p \in Paths, NEW t \in ModType
  PROVE  /\ FullPiece(n, p, t).entry = [number |-> n, path |-> p, type |-> t]
         /\ FullPiece(n, p, t).entry \in Entry
         /\ FullPiece(n, p, t).n = EntryBytes(FullPiece(n, p, t).entry)
         /\ FullPiece(n, p, t) \in [entry : Entry, n : Nat \ {0}]
<1> DEFINE e == [number |-> n, path |-> p, type |-> t]
<1>1. FullPiece(n, p, t) = [entry |-> e, n |-> EntryBytes(e)]
  BY DEF FullPiece, NewPiece
<1>2. e \in Entry
  BY DEF Entry
<1>3. EntryBytes(e) \in Nat /\ EntryBytes(e) >= 68
  BY <1>2, EntryLengths
<1> HIDE DEF e
<1> QED BY <1>1, <1>2, <1>3 DEF e

\* A file one piece longer.
LEMMA AppendPiece ==
  ASSUME NEW f \in Text, NEW x \in [entry : Entry, n : Nat \ {0}]
  PROVE  /\ Append(f, x) \in Text
         /\ Len(f) \in Nat
         /\ DOMAIN f = 1 .. Len(f)
         /\ DOMAIN Append(f, x) = 1 .. Len(f) + 1
         /\ Append(f, x)[Len(f) + 1] = x
         /\ \A i \in 1 .. Len(f) : Append(f, x)[i] = f[i]
<1> DEFINE P == [entry : Entry, n : Nat \ {0}]
<1>1. f \in Seq(P) /\ x \in P
  BY DEF Text
<1> HIDE DEF P
<1>2. /\ Append(f, x) \in Seq(P)
      /\ Len(f) \in Nat
      /\ DOMAIN f = 1 .. Len(f)
      /\ DOMAIN Append(f, x) = 1 .. Len(f) + 1
      /\ Append(f, x)[Len(f) + 1] = x
      /\ \A i \in 1 .. Len(f) : Append(f, x)[i] = f[i]
  BY <1>1
<1> QED BY <1>2 DEF Text, P

\* AddEntry writes the entry under the number it reads.
LEMMA AppendKeepsLogInv ==
  ASSUME LogInv, NEW a \in Adders, AppendMerged(a)
  PROVE  LogInv'
<1> DEFINE type == Merge(call[a].first, call[a].type)
           x == FullPiece(newIndex, call[a].path, type)
<1>1. /\ call[a] \in CallsInProgress /\ call[a].phase = "remove" /\ newIndex \in Nat
      /\ text \in Text /\ Bounded(text)
  BY PhaseOfCall DEF LogInv, AppendMerged
<1>2. type \in ModType \cup {"x"} /\ call[a].path \in Paths
  <2>1. /\ call[a].first \in ModType \cup {"none"} /\ call[a].type \in ModType
        /\ call[a].path \in Paths
    BY <1>1 DEF CallsInProgress
  <2> QED BY <2>1, MergeType
<1>3. newIndex' = newIndex /\ todo' = todo /\ restarts' = restarts
  BY DEF AppendMerged
<1>4. NoCall \in CallStates /\ Written \in CallStates /\ NoCall.phase = "idle"
      /\ Written.phase = "count"
  BY DEF CallStates, NoCall, Written
<1>5. CASE type = "x"
  <2>1. text' = text /\ shared' = shared /\ call' = [call EXCEPT ![a] = NoCall]
    BY <1>5 DEF AppendMerged
  <2>2. call' \in [Adders -> CallStates]
    BY <1>4, <2>1, OneCallChanges DEF LogInv
  <2>3. NumbersInText'
    BY <1>1, <1>3, <1>4, <2>1, CountingKept DEF LogInv
  <2> QED BY <1>3, <2>1, <2>2, <2>3 DEF LogInv, Bounded
<1>6. CASE type # "x"
  <2>1. /\ text' = Append(text, x) /\ call' = [call EXCEPT ![a] = Written]
        /\ shared' = (shared \/ Counting # {})
    BY <1>6 DEF AppendMerged
  <2>2. /\ x \in [entry : Entry, n : Nat \ {0}]
        /\ x.entry.number = newIndex
        /\ x.n = EntryBytes(x.entry) /\ EntryBytes(x.entry) \in Nat
    <3>1. type \in ModType
      BY <1>2, <1>6
    <3> HIDE DEF type
    <3>2. /\ x.entry = [number |-> newIndex, path |-> call[a].path, type |-> type]
          /\ x.entry \in Entry
          /\ x.n = EntryBytes(x.entry)
          /\ x \in [entry : Entry, n : Nat \ {0}]
      BY <1>1, <1>2, <3>1, FullPieceType
    <3> HIDE DEF x
    <3>3. x.entry.number = newIndex
      BY <3>2
    <3>4. EntryBytes(x.entry) \in Nat
      BY <3>2, EntryLengths
    <3> QED BY <3>2, <3>3, <3>4
  <2> HIDE DEF x
  <2>3. /\ text' \in Text
        /\ Len(text) \in Nat
        /\ DOMAIN text = 1 .. Len(text)
        /\ DOMAIN text' = 1 .. Len(text) + 1
        /\ text'[Len(text) + 1] = x
        /\ \A i \in 1 .. Len(text) : text'[i] = text[i]
    BY <1>1, <2>1, <2>2, AppendPiece
  <2>4. \A i \in DOMAIN text' : i = Len(text) + 1 \/ i \in DOMAIN text
    BY <2>3
  <2>5. Bounded(text)'
    <3>1. \A i \in DOMAIN text' : text'[i].n <= EntryBytes(text'[i].entry)
      BY <1>1, <2>2, <2>3, <2>4 DEF Bounded
    <3> QED BY <3>1 DEF Bounded
  <2>6. /\ call' \in [Adders -> CallStates] /\ call'[a] = Written
        /\ \A b \in Adders : b # a => call'[b] = call[b]
    BY <1>4, <2>1, OneCallChanges DEF LogInv
  <2>7. NumbersInText'
    <3> SUFFICES ASSUME restarts' = 0, shared' = FALSE PROVE NumbersInText'
      BY DEF NumbersInText
    <3>1. Counting = {} /\ shared = FALSE /\ restarts = 0
      BY <1>3, <2>1 DEF LogInv
    <3>2. Counting' = {a}
      BY <1>4, <2>6, <3>1 DEF Counting
    <3>3. /\ \A i \in DOMAIN text : text[i].entry.number < newIndex
          /\ \A i, j \in DOMAIN text :
               text[i].entry.number = text[j].entry.number
                 => text[i].entry = text[j].entry
      BY <3>1 DEF LogInv, NumbersInText
    <3>4. \A i \in DOMAIN text : text[i].entry.number \in Nat
      BY <1>1, TextPieces DEF Entry
    <3>5. \A i \in DOMAIN text' : \/ text'[i].entry.number < newIndex'
                                  \/ text'[i].entry.number = newIndex' /\ Counting' # {}
      BY <1>3, <2>2, <2>3, <2>4, <3>2, <3>3
    <3>6. \A i \in DOMAIN text : text'[i].entry.number # newIndex
      BY <1>1, <2>3, <3>3, <3>4
    <3>7. \A i, j \in DOMAIN text' :
            text'[i].entry.number = text'[j].entry.number
              => text'[i].entry = text'[j].entry
      BY <2>2, <2>3, <2>4, <3>3, <3>6
    <3>8. \A b \in Adders : call'[b].phase = "store" => call'[b].next = newIndex' + 1
      BY <1>4, <2>6, <3>1 DEF Counting
    <3>9. \A b, c \in Counting' : b = c
      BY <3>2
    <3> QED BY <3>5, <3>7, <3>8, <3>9 DEF NumbersInText
  <2> QED BY <1>1, <1>3, <2>1, <2>3, <2>5, <2>6, <2>7 DEF LogInv
<1> QED BY <1>5, <1>6

\* m_nNewIndex++: the number is loaded.
LEMMA LoadKeepsLogInv ==
  ASSUME LogInv, NEW a \in Adders, LoadIndex(a)
  PROVE  LogInv'
<1>1. /\ call[a].phase = "count" /\ call' = [call EXCEPT ![a] = Counted(newIndex + 1)]
      /\ text' = text /\ newIndex' = newIndex /\ todo' = todo /\ restarts' = restarts
      /\ shared' = shared
  BY DEF LoadIndex
<1>2. /\ Counted(newIndex + 1) \in CallStates /\ Counted(newIndex + 1).phase = "store"
      /\ Counted(newIndex + 1).next = newIndex + 1
  BY DEF LogInv, Counted, CallStates
<1>3. /\ call' \in [Adders -> CallStates] /\ call'[a] = Counted(newIndex + 1)
      /\ \A b \in Adders : b # a => call'[b] = call[b]
  BY <1>1, <1>2, OneCallChanges DEF LogInv
<1>4. Counting' = Counting
  BY <1>1, <1>2, <1>3 DEF Counting
<1>5. \A b \in Adders : call'[b].phase = "store" => b = a \/ (call[b].phase = "store" /\ call'[b] = call[b])
  BY <1>3
<1>6. NumbersInText'
  BY <1>1, <1>2, <1>3, <1>4, <1>5 DEF LogInv, NumbersInText
<1> QED BY <1>1, <1>3, <1>6 DEF LogInv, Bounded

\* ... and the next one stored.
LEMMA StoreKeepsLogInv ==
  ASSUME LogInv, NEW a \in Adders, StoreIndex(a)
  PROVE  LogInv'
<1>1. /\ call[a].phase = "store" /\ call' = [call EXCEPT ![a] = NoCall]
      /\ text' = text /\ newIndex' = call[a].next /\ todo' = todo /\ restarts' = restarts
      /\ shared' = shared
  BY DEF StoreIndex
<1>2. call[a].next \in Nat /\ NoCall \in CallStates /\ NoCall.phase = "idle"
  BY <1>1, PhaseOfCall DEF LogInv, CallStates, NoCall
<1>3. /\ call' \in [Adders -> CallStates] /\ call'[a] = NoCall
      /\ \A b \in Adders : b # a => call'[b] = call[b]
  BY <1>1, <1>2, OneCallChanges DEF LogInv
<1>4. NumbersInText'
  <2> SUFFICES ASSUME restarts' = 0, shared' = FALSE PROVE NumbersInText'
    BY DEF NumbersInText
  <2>1. /\ \A i \in DOMAIN text : \/ text[i].entry.number < newIndex
                                  \/ text[i].entry.number = newIndex
        /\ \A i, j \in DOMAIN text :
             text[i].entry.number = text[j].entry.number => text[i].entry = text[j].entry
        /\ \A b \in Adders : call[b].phase = "store" => call[b].next = newIndex + 1
        /\ \A b, c \in Counting : b = c
    BY <1>1 DEF LogInv, NumbersInText
  <2>2. newIndex' = newIndex + 1 /\ newIndex \in Nat
    BY <1>1, <2>1 DEF LogInv
  <2>3. a \in Counting /\ Counting' = {}
    BY <1>1, <1>2, <1>3, <2>1 DEF Counting
  <2>4. \A i \in DOMAIN text : text[i].entry.number \in Nat
    BY TextPieces DEF LogInv, Entry
  <2>5. \A i \in DOMAIN text' : text'[i].entry.number < newIndex'
    BY <1>1, <2>1, <2>2, <2>4
  <2>6. \A b \in Adders : call'[b].phase # "store"
    BY <2>3 DEF Counting
  <2> QED BY <1>1, <2>1, <2>3, <2>5, <2>6 DEF NumbersInText
<1> QED BY <1>1, <1>2, <1>3, <1>4 DEF LogInv, Bounded

\* The synchronising thread takes a list, and removes an entry of it.
LEMMA ListKeepsLogInv ==
  ASSUME LogInv, ListAll
  PROVE  LogInv'
<1>1. todo' \in Seq(Section)
  BY SectionsTaken DEF LogInv, ListAll
<1>2. /\ text' = text /\ newIndex' = newIndex /\ call' = call /\ restarts' = restarts
      /\ shared' = shared
  BY DEF ListAll
<1> QED BY <1>1, <1>2 DEF LogInv, NumbersInText, Counting

LEMMA RemoveDoneKeepsLogInv ==
  ASSUME LogInv, RemoveDone
  PROVE  LogInv'
<1>1. PICK i \in DOMAIN todo :
        text' = RemoveEntry(text, todo[i].number) /\ todo' = Rest(todo, i)
  BY DEF RemoveDone
<1>2. todo' \in Seq(Section)
  BY <1>1, RestProperties DEF LogInv
<1>3. newIndex' = newIndex /\ call' = call /\ restarts' = restarts /\ shared' = shared
  BY DEF RemoveDone
<1>4. /\ text' \in Text /\ Bounded(text)'
      /\ \A k \in DOMAIN text' : \E m \in DOMAIN text : text'[k].entry = text[m].entry
  BY <1>1, RemoveCopies DEF LogInv
<1>5. NumbersInText'
  BY <1>3, <1>4 DEF LogInv, NumbersInText, Counting
<1> QED BY <1>2, <1>3, <1>4, <1>5 DEF LogInv

\* A new process numbers from 0 again: nothing is known of the numbers any more.
LEMMA RestartKeepsLogInv ==
  ASSUME LogInv, Restart
  PROVE  LogInv'
<1>1. /\ text' = text /\ newIndex' = 0 /\ call' = [a \in Adders |-> NoCall] /\ todo' = <<>>
      /\ restarts' = restarts + 1 /\ shared' = shared
  BY DEF Restart
<1>2. restarts' \in Nat /\ restarts' # 0 /\ newIndex' \in Nat
  BY <1>1 DEF LogInv
<1>3. NumbersInText'
  BY <1>2 DEF NumbersInText
<1>4. text' \in Text /\ Bounded(text)' /\ todo' \in Seq(Section)
  BY <1>1 DEF LogInv, Bounded
<1>5. call' \in [Adders -> CallStates]
  BY <1>1 DEF CallStates
<1> QED BY <1>1, <1>2, <1>3, <1>4, <1>5 DEF LogInv

LEMMA LogInvKept == LogInv /\ [Next]_vars => LogInv'
<1> SUFFICES ASSUME LogInv, [Next]_vars PROVE LogInv'
  OBVIOUS
<1>1. ASSUME NEW a \in Adders, NEW p \in Paths, NEW t \in ModType, BeginAdd(a, p, t)
      PROVE  LogInv'
  BY <1>1, BeginKeepsLogInv
<1>2. ASSUME NEW a \in Adders, RemoveEarlier(a) PROVE LogInv'
  BY <1>2, RemoveEarlierKeepsLogInv
<1>3. ASSUME NEW a \in Adders, AppendMerged(a) PROVE LogInv'
  BY <1>3, AppendKeepsLogInv
<1>4. ASSUME NEW a \in Adders, LoadIndex(a) PROVE LogInv'
  BY <1>4, LoadKeepsLogInv
<1>5. ASSUME NEW a \in Adders, StoreIndex(a) PROVE LogInv'
  BY <1>5, StoreKeepsLogInv
<1>6. CASE ListAll
  BY <1>6, ListKeepsLogInv
<1>7. CASE RemoveDone
  BY <1>7, RemoveDoneKeepsLogInv
<1>8. CASE Restart
  BY <1>8, RestartKeepsLogInv
<1>9. CASE UNCHANGED vars
  BY <1>9 DEF vars, LogInv, Bounded, NumbersInText, Counting
<1> QED BY <1>1, <1>2, <1>3, <1>4, <1>5, <1>6, <1>7, <1>8, <1>9 DEF Next

LEMMA LogInvAlways == Spec => []LogInv
BY LogInvInit, LogInvKept, PTL DEF Spec

\* The file consists of beginnings of texts that AddEntry wrote, none of them
\* empty or longer than what was written, wherever each thread is in AddEntry.
THEOREM LoggerTypeCorrect == Spec => []TypeOK
<1>1. LogInv => TypeOK
  <2> SUFFICES ASSUME LogInv PROVE TypeOK
    OBVIOUS
  <2>1. ASSUME NEW i \in DOMAIN text
        PROVE  text[i].entry \in Entry /\ text[i].n \in 1 .. EntryBytes(text[i].entry)
    <3>1. text[i].entry \in Entry /\ text[i].n \in Nat \ {0}
      BY <2>1, TextPieces DEF LogInv
    <3>2. text[i].n <= EntryBytes(text[i].entry) /\ EntryBytes(text[i].entry) \in Nat
      BY <2>1, <3>1, EntryLengths DEF LogInv, Bounded
    <3> QED BY <3>1, <3>2
  <2>2. \A a \in Adders : call[a].phase \in {"idle", "remove", "count", "store"}
    BY PhaseOfCall DEF LogInv
  <2>3. \A i \in DOMAIN todo : todo[i] \in Section
    BY DEF LogInv
  <2> QED BY <2>1, <2>2, <2>3 DEF TypeOK, LogInv
<1> QED BY <1>1, LogInvAlways, PTL

\* Until a restart, and until two threads share a number, an entry number stands
\* for one logged change in the bytes of the file.
THEOREM NumbersNameOneChange == Spec => []NumberNamesOneChange
<1>1. LogInv => NumberNamesOneChange
  <2> SUFFICES ASSUME LogInv, restarts = 0, shared = FALSE
               PROVE  \A i, j \in DOMAIN Abstract(text) :
                        Abstract(text)[i].entry.number = Abstract(text)[j].entry.number
                          => Abstract(text)[i].entry = Abstract(text)[j].entry
    BY DEF NumberNamesOneChange, Log!NumberNamesOneChange, LogInv
  <2>1. /\ DOMAIN Abstract(text) = DOMAIN text
        /\ \A i \in DOMAIN text : Abstract(text)[i].entry = text[i].entry
    BY DEF Abstract
  <2> QED BY <2>1 DEF LogInv, NumbersInText
<1> QED BY <1>1, LogInvAlways, PTL

(****************************************************************************)
(* The log with free cuts.  Its operators are those of SyncLogFile.         *)
(****************************************************************************)
LEMMA LogOperators ==
  /\ \A a, n : Log!RemoveResults(a, n) = RemoveResults(a, n)
  /\ \A a : Log!Sections(a) = Sections(a)
  /\ \A a, p : Log!SectionsOf(a, p) = SectionsOf(a, p)
  /\ \A a : Log!Parses(a) <=> Parses(a)
  /\ \A s, i : Log!IsNext(s, i) <=> IsNext(s, i)
  /\ \A s, i : Log!Rest(s, i) = Rest(s, i)
  /\ \A s : Log!IsExhausted(s) <=> IsExhausted(s)
  /\ \A s : Log!Listed(s) = Listed(s)
  /\ \A first, new : Log!Merge(first, new) = Merge(first, new)
  /\ \A n, p, t : Log!NewPiece(n, p, t) = NewPiece(n, p, t)
  /\ Log!ModType = ModType
<1>1. \A a, i : Log!RemovedAt(a, i) = RemovedAt(a, i)
  BY DEF Log!RemovedAt, RemovedAt, Log!CutStates, CutStates, Log!Whole, Whole,
         Log!Cut, Cut
<1>2. \A a, n : Log!RemoveResults(a, n) = RemoveResults(a, n)
  BY <1>1 DEF Log!RemoveResults, RemoveResults, Log!Whole, Whole
<1>3. \A a : Log!Sections(a) = Sections(a)
  BY DEF Log!Sections, Sections, Log!SameTitle, SameTitle, Log!LastOf, LastOf,
         Log!Unlisted, Unlisted
<1>4. \A a, p : Log!SectionsOf(a, p) = SectionsOf(a, p)
  BY <1>3 DEF Log!SectionsOf, SectionsOf, Log!Unlisted, Unlisted
<1>5. \A a : Log!Parses(a) <=> Parses(a)
  BY DEF Log!Parses, Parses, Log!Whole, Whole
<1>6. /\ \A s, i : Log!IsNext(s, i) <=> IsNext(s, i)
      /\ \A s, i : Log!Rest(s, i) = Rest(s, i)
      /\ \A s : Log!IsExhausted(s) <=> IsExhausted(s)
      /\ \A s : Log!Listed(s) = Listed(s)
  BY DEF Log!IsNext, IsNext, Log!Rest, Rest, Log!IsExhausted, IsExhausted,
         Log!Listed, Listed, Log!IsListed, IsListed
<1>7. \A first, new : Log!Merge(first, new) = Merge(first, new)
  BY DEF Log!Merge, Merge, Log!MergeTable, MergeTable
<1>8. /\ \A n, p, t : Log!NewPiece(n, p, t) = NewPiece(n, p, t)
      /\ Log!ModType = ModType
  BY DEF Log!NewPiece, NewPiece, Log!ModType, ModType
<1> QED BY <1>2, <1>3, <1>4, <1>5, <1>6, <1>7, <1>8

\* A call of RemoveEntry is one that the abstract log allows.
LEMMA RemoveEntryAllowed ==
  ASSUME LogInv, NEW number
  PROVE  Abstract(RemoveEntry(text, number)) \in Log!RemoveResults(Abstract(text), number)
BY RemoveEntryResult, LogOperators DEF LogInv

\* What AddEntry appends is the abstract log's new piece.
LEMMA AbstractAppend ==
  ASSUME NEW f \in Text, NEW n \in Nat, NEW p \in Paths, NEW t \in ModType
  PROVE  Abstract(Append(f, FullPiece(n, p, t))) = Append(Abstract(f), NewPiece(n, p, t))
<1> DEFINE x == FullPiece(n, p, t)
           y == NewPiece(n, p, t)
           a == Abstract(f)
           b == Abstract(Append(f, x))
<1>1. x \in [entry : Entry, n : Nat \ {0}] /\ AbstractPiece(x) = y
  <2>1. x \in [entry : Entry, n : Nat \ {0}]
    BY FullPieceType
  <2>2. AbstractPiece(x) = y
    <3>1. x.entry = [number |-> n, path |-> p, type |-> t] /\ x.n = EntryBytes(x.entry)
      BY FullPieceType
    <3>2. EntryBytes(x.entry) \in Nat /\ EntryBytes(x.entry) >= 68
      BY FullPieceType, EntryLengths
    <3>3. StateOf(x) = "full"
      <4> HIDE DEF x
      <4> QED BY <3>1, <3>2 DEF StateOf, ShowsBrace, AfterBrace
    <3>4. y = [entry |-> [number |-> n, path |-> p, type |-> t], state |-> "full"]
      BY DEF NewPiece
    <3> HIDE DEF x, y
    <3> QED BY <3>1, <3>3, <3>4 DEF AbstractPiece
  <2> HIDE DEF x, y
  <2> QED BY <2>1, <2>2
<1> HIDE DEF x, y
<1>2. /\ Append(f, x) \in Text /\ Len(f) \in Nat
      /\ DOMAIN Append(f, x) = 1 .. Len(f) + 1
      /\ Append(f, x)[Len(f) + 1] = x
      /\ \A i \in 1 .. Len(f) : Append(f, x)[i] = f[i]
  BY <1>1, AppendPiece
<1>3. Len(Append(f, x)) = Len(f) + 1
  BY <1>2, TextPieces
<1>4. /\ a \in Seq(Piece) /\ Len(a) = Len(f)
      /\ \A i \in 1 .. Len(f) : a[i] = AbstractPiece(f[i])
  BY AbstractPieces
<1>5. /\ b \in Seq(Piece) /\ Len(b) = Len(f) + 1
      /\ \A i \in 1 .. Len(f) + 1 : b[i] = AbstractPiece(Append(f, x)[i])
      /\ y \in Piece
  <2>1. /\ b \in Seq(Piece) /\ Len(b) = Len(f) + 1
        /\ \A i \in 1 .. Len(f) + 1 : b[i] = AbstractPiece(Append(f, x)[i])
    BY <1>2, <1>3, AbstractPieces
  <2> HIDE DEF b
  <2>2. b[Len(f) + 1] = y /\ b[Len(f) + 1] \in Piece
    BY <1>1, <1>2, <2>1
  <2> QED BY <2>1, <2>2
<1> HIDE DEF a, b
<1>6. /\ Append(a, y) \in Seq(Piece) /\ Len(Append(a, y)) = Len(f) + 1
      /\ \A i \in 1 .. Len(f) : Append(a, y)[i] = a[i]
      /\ Append(a, y)[Len(f) + 1] = y
  BY <1>2, <1>4, <1>5
<1>7. ASSUME NEW i \in 1 .. Len(f) + 1 PROVE b[i] = Append(a, y)[i]
  <2>1. CASE i = Len(f) + 1
    BY <1>1, <1>2, <1>5, <1>6, <2>1
  <2>2. CASE i # Len(f) + 1
    <3>1. i \in 1 .. Len(f)
      BY <1>2, <2>2
    <3> QED BY <1>2, <1>4, <1>5, <1>6, <3>1
  <2> QED BY <2>1, <2>2
<1>8. b = Append(a, y)
  BY <1>2, <1>5, <1>6, <1>7
<1> QED BY <1>8 DEF a, b, x, y

\* The states of a call have the same names in both modules.
LEMMA LogStates ==
  /\ Log!NoCall = NoCall /\ Log!Written = Written
  /\ \A n : Log!Counted(n) = Counted(n)
  /\ \A p, t, first, mine : Log!Call(p, t, first, mine) = Call(p, t, first, mine)
  /\ Log!Counting = Counting
BY DEF NoCall, Log!NoCall, Written, Log!Written, Counted, Log!Counted, Call, Log!Call,
       Counting, Log!Counting

\* Every step is one of the abstract log.
LEMMA LogStep == LogInv /\ [Next]_vars => [Log!Next]_(Log!vars)
<1> SUFFICES ASSUME LogInv, [Next]_vars PROVE [Log!Next]_(Log!vars)
  OBVIOUS
<1>1. ASSUME NEW a \in Adders, NEW p \in Paths, NEW t \in ModType, BeginAdd(a, p, t)
      PROVE  Log!Next
  <2>1. Len(Abstract(text)) = Len(text)
    BY AbstractPieces DEF LogInv
  <2>2. Log!BeginAdd(a, p, t)
    BY <1>1, <2>1, LogStates, LogOperators DEF BeginAdd, Log!BeginAdd
  <2> QED BY <2>2, LogOperators DEF Log!Next
<1>2. ASSUME NEW a \in Adders, RemoveEarlier(a) PROVE Log!Next
  <2> DEFINE After(i) == [call EXCEPT ![a] =
                           [call[a] EXCEPT !.mine = Rest(call[a].mine, i),
                                           !.first = IF @ = "none" THEN call[a].mine[i].type ELSE @]]
  <2>1. PICK i \in DOMAIN call[a].mine :
          /\ IsNext(call[a].mine, i)
          /\ text' = RemoveEntry(text, call[a].mine[i].number)
          /\ call' = After(i)
    BY <1>2 DEF RemoveEarlier
  <2>2. Abstract(text)' \in Log!RemoveResults(Abstract(text), call[a].mine[i].number)
    <3>1. Abstract(text') \in Log!RemoveResults(Abstract(text), call[a].mine[i].number)
      BY <2>1, RemoveEntryAllowed
    <3> QED BY <3>1
  <2>3. call[a].phase = "remove" /\ UNCHANGED <<newIndex, todo, shared, restarts>>
    BY <1>2 DEF RemoveEarlier
  <2>4. /\ Log!IsNext(call[a].mine, i)
        /\ call' = [call EXCEPT ![a] =
                     [call[a] EXCEPT !.mine = Log!Rest(call[a].mine, i),
                                     !.first = IF @ = "none" THEN call[a].mine[i].type ELSE @]]
    BY <2>1, LogOperators
  <2>5. Log!RemoveEarlier(a)
    BY <2>2, <2>3, <2>4 DEF Log!RemoveEarlier
  <2> QED BY <2>5 DEF Log!Next
<1>3. ASSUME NEW a \in Adders, AppendMerged(a) PROVE Log!Next
  <2> DEFINE type == Merge(call[a].first, call[a].type)
  <2>1. /\ text \in Text /\ newIndex \in Nat /\ call[a].path \in Paths
        /\ type \in ModType \cup {"x"}
    <3>1. call[a] \in CallsInProgress /\ newIndex \in Nat /\ text \in Text
      BY <1>3, PhaseOfCall DEF LogInv, AppendMerged
    <3>2. /\ call[a].first \in ModType \cup {"none"} /\ call[a].type \in ModType
          /\ call[a].path \in Paths
      BY <3>1 DEF CallsInProgress
    <3> QED BY <3>1, <3>2, MergeType
  <2>2. type = Log!Merge(call[a].first, call[a].type)
    BY LogOperators
  <2> HIDE DEF type
  <2>3. /\ call[a].phase = "remove" /\ Log!IsExhausted(call[a].mine)
        /\ UNCHANGED <<newIndex, todo, restarts>>
    BY <1>3, LogOperators DEF AppendMerged
  <2>4. IF type = "x"
        THEN /\ call' = [call EXCEPT ![a] = Log!NoCall]
             /\ UNCHANGED <<Abstract(text), shared>>
        ELSE /\ Abstract(text)' = Append(Abstract(text), Log!NewPiece(newIndex, call[a].path, type))
             /\ call' = [call EXCEPT ![a] = Log!Written]
             /\ shared' = (shared \/ Log!Counting # {})
    <3>1. CASE type = "x"
      BY <1>3, <3>1, LogStates DEF AppendMerged, type, Abstract
    <3>2. CASE type # "x"
      <4>1. /\ text' = Append(text, FullPiece(newIndex, call[a].path, type))
            /\ call' = [call EXCEPT ![a] = Log!Written]
            /\ shared' = (shared \/ Log!Counting # {})
        BY <1>3, <3>2, LogStates DEF AppendMerged, type
      <4>2. Abstract(text)' = Append(Abstract(text), NewPiece(newIndex, call[a].path, type))
        BY <2>1, <3>2, <4>1, AbstractAppend
      <4> QED BY <3>2, <4>1, <4>2, LogOperators
    <3> QED BY <3>1, <3>2
  <2>5. Log!AppendMerged(a)
    BY <2>2, <2>3, <2>4 DEF Log!AppendMerged
  <2> QED BY <2>5 DEF Log!Next
<1>4. ASSUME NEW a \in Adders, LoadIndex(a) PROVE Log!Next
  <2>1. Log!LoadIndex(a)
    BY <1>4, LogStates DEF LoadIndex, Log!LoadIndex, Abstract
  <2> QED BY <2>1 DEF Log!Next
<1>5. ASSUME NEW a \in Adders, StoreIndex(a) PROVE Log!Next
  <2>1. Log!StoreIndex(a)
    BY <1>5, LogStates DEF StoreIndex, Log!StoreIndex, Abstract
  <2> QED BY <2>1 DEF Log!Next
<1>6. CASE ListAll
  <2>1. Log!ListAll
    BY <1>6, LogOperators DEF ListAll, Log!ListAll
  <2> QED BY <2>1 DEF Log!Next
<1>7. CASE RemoveDone
  <2>1. PICK i \in DOMAIN todo :
          /\ IsNext(todo, i)
          /\ text' = RemoveEntry(text, todo[i].number) /\ todo' = Rest(todo, i)
    BY <1>7 DEF RemoveDone
  <2>2. Abstract(text') \in Log!RemoveResults(Abstract(text), todo[i].number)
    BY <2>1, RemoveEntryAllowed
  <2>3. Log!RemoveDone
    BY <1>7, <2>1, <2>2, LogOperators DEF RemoveDone, Log!RemoveDone
  <2> QED BY <2>3 DEF Log!Next
<1>8. CASE Restart
  <2>1. Log!Restart
    BY <1>8, LogStates DEF Restart, Log!Restart
  <2> QED BY <2>1 DEF Log!Next
<1>9. CASE UNCHANGED vars
  BY <1>9 DEF vars, Log!vars, Abstract
<1> QED BY <1>1, <1>2, <1>3, <1>4, <1>5, <1>6, <1>7, <1>8, <1>9 DEF Next

\* The log that synclogger.cpp writes byte by byte implements the one with free
\* cuts, for all paths, all their lengths and any number of threads that log.
THEOREM ImplementsSyncLogAlways == Spec => ImplementsSyncLog
<1>1. Init => Log!Init
  BY LogStates DEF Init, Log!Init, Abstract
<1> QED BY <1>1, LogStep, LogInvAlways, PTL DEF Spec, ImplementsSyncLog, Log!Spec

\* Only AddEntry's append takes a call from removing to counting.
LEMMA WritesAppends ==
  ASSUME LogInv, [Next]_vars, NEW a \in Adders,
         call[a].phase = "remove", call'[a].phase = "count"
  PROVE  AppendMerged(a) /\ restarts' = restarts
<1>1. call \in [Adders -> CallStates]
  BY DEF LogInv
<1>2. \A b \in Adders, p \in Paths, t \in ModType : ~BeginAdd(b, p, t)
  <2> SUFFICES ASSUME NEW b \in Adders, NEW p \in Paths, NEW t \in ModType, BeginAdd(b, p, t)
               PROVE  FALSE
    OBVIOUS
  <2>1. /\ call[b] = NoCall
        /\ call' = [call EXCEPT ![b] = Call(p, t, "none", SectionsOf(Abstract(text), p))]
    BY DEF BeginAdd
  <2>2. a # b
    BY <2>1 DEF NoCall
  <2> QED BY <1>1, <2>1, <2>2
<1>3. ASSUME NEW b \in Adders, RemoveEarlier(b) PROVE FALSE
  <2>1. PICK i \in DOMAIN call[b].mine :
          call' = [call EXCEPT ![b] =
                     [call[b] EXCEPT !.mine = Rest(call[b].mine, i),
                                     !.first = IF @ = "none" THEN call[b].mine[i].type ELSE @]]
    BY <1>3 DEF RemoveEarlier
  <2>2. call[b] \in CallsInProgress
    BY <1>1, <1>3, PhaseOfCall DEF RemoveEarlier
  <2>3. [call[b] EXCEPT !.mine = Rest(call[b].mine, i),
                        !.first = IF @ = "none" THEN call[b].mine[i].type ELSE @].phase = "remove"
    BY <2>2 DEF CallsInProgress
  <2> QED BY <1>1, <2>1, <2>3
<1>4. ASSUME NEW b \in Adders, AppendMerged(b), b # a PROVE FALSE
  <2>1. \E c : call' = [call EXCEPT ![b] = c]
    BY <1>4 DEF AppendMerged
  <2> QED BY <1>1, <1>4, <2>1
<1>5. ASSUME NEW b \in Adders, LoadIndex(b) \/ StoreIndex(b) PROVE FALSE
  <2>1. (\E c : call' = [call EXCEPT ![b] = c]) /\ call[b].phase # "remove"
    BY <1>5 DEF LoadIndex, StoreIndex
  <2> QED BY <1>1, <2>1
<1>6. ~ListAll /\ ~RemoveDone /\ ~(UNCHANGED vars)
  BY DEF ListAll, RemoveDone, vars
<1>7. ~Restart
  BY DEF Restart, NoCall
<1>8. AppendMerged(a)
  BY <1>2, <1>3, <1>4, <1>5, <1>6, <1>7 DEF Next
<1> QED BY <1>8 DEF AppendMerged

\* Until a restart, and until two threads share a number, logging a change leaves
\* every other pending change in the list.
THEOREM AppendKeepsOthersAlways == Spec => AppendKeepsOthers
<1>1. ASSUME LogInv, [Next]_vars, NEW a \in Adders,
             call[a].phase = "remove", call'[a] = Written, restarts = 0, ~shared'
      PROVE  Listed(Sections(Abstract(text))) \subseteq Listed(Sections(Abstract(text)'))
  <2>1. AppendMerged(a) /\ call[a] \in CallsInProgress
    <3>1. call'[a].phase = "count"
      BY <1>1 DEF Written
    <3> QED BY <1>1, <3>1, WritesAppends, PhaseOfCall DEF LogInv
  <2> DEFINE type == Merge(call[a].first, call[a].type)
             x == NewPiece(newIndex, call[a].path, type)
  <2>2. /\ text \in Text /\ newIndex \in Nat /\ call[a].path \in Paths
        /\ type \in ModType \cup {"x"}
    <3>1. /\ call[a].first \in ModType \cup {"none"} /\ call[a].type \in ModType
          /\ call[a].path \in Paths
      BY <2>1 DEF CallsInProgress
    <3>2. newIndex \in Nat /\ text \in Text
      BY <1>1 DEF LogInv
    <3> QED BY <3>1, <3>2, MergeType
  <2>3. CASE type = "x"
    <3>1. text' = text
      BY <2>1, <2>3 DEF AppendMerged
    <3> QED BY <3>1 DEF Abstract
  <2>4. CASE type # "x"
    <3>1. text' = Append(text, FullPiece(newIndex, call[a].path, type))
          /\ shared' = (shared \/ Counting # {})
      BY <2>1, <2>4 DEF AppendMerged
    <3> HIDE DEF type
    <3>2. Abstract(text)' = Append(Abstract(text), x)
      BY <2>2, <2>4, <3>1, AbstractAppend
    <3>3. x \in Piece /\ x.entry.number = newIndex
      BY <2>2, <2>4 DEF NewPiece, Piece, Entry
    <3>4. \A i \in DOMAIN Abstract(text) :
            Abstract(text)[i].entry.number # x.entry.number
      <4>1. /\ DOMAIN Abstract(text) = DOMAIN text
            /\ \A i \in DOMAIN text : Abstract(text)[i].entry = text[i].entry
        BY DEF Abstract
      <4>2. \A i \in DOMAIN text : text[i].entry.number \in Nat
        BY <2>2, TextPieces DEF Entry
      <4>3. \A i \in DOMAIN text : text[i].entry.number < newIndex
        BY <1>1, <3>1 DEF LogInv, NumbersInText
      <4> HIDE DEF x
      <4> QED BY <2>2, <3>3, <4>1, <4>2, <4>3
    <3>5. Abstract(text) \in Seq(Piece)
      BY <2>2, AbstractPieces
    <3> HIDE DEF x
    <3> QED BY <3>2, <3>3, <3>4, <3>5, AppendedSections
  <2> QED BY <2>3, <2>4
<1>2. LogInv /\ [Next]_vars =>
        [(Log!Writes /\ restarts = 0 /\ ~shared' /\ Log!Parses(Abstract(text)))
           => Log!Listed(Log!Sections(Abstract(text)))
                \subseteq Log!Listed(Log!Sections(Abstract(text)'))]_(Log!vars)
  BY <1>1, LogOperators, LogStates DEF Log!Writes
<1> QED BY <1>2, LogInvAlways, PTL DEF Spec, AppendKeepsOthers, Log!AppendKeepsOthers
================================================================================
