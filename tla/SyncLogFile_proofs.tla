------------------------- MODULE SyncLogFile_proofs -------------------------
(****************************************************************************)
(* What the operators of SyncLogFile return: the sections of a log, what a  *)
(* rewrite leaves of it, and the merged type.                               *)
(****************************************************************************)
EXTENDS SyncLogFile, FiniteSetTheorems, WellFoundedInduction, TLAPS

\* A bounded set of positions has a last one.
LEMMA LastOfProperties ==
  ASSUME NEW n \in Nat, NEW S, S \subseteq 1 .. n, S # {}
  PROVE  LastOf(S) \in S /\ \A k \in S : k <= LastOf(S)
<1> DEFINE Later(j) == {k \in S : j < k}
           T == {Later(j) : j \in S}
           R == StrictSubsetOrdering(S)
<1>0. S \subseteq Nat
  OBVIOUS
<1>1. IsFiniteSet(S)
  BY <1>0, \A s \in S : s <= n, FS_BoundedSetOfNaturals
<1>2. IsWellFoundedOn(R, FiniteSubsetsOf(S))
  BY FS_StrictSubsetOrderingWellFounded
<1>3. T \subseteq FiniteSubsetsOf(S) /\ T # {}
  <2>1. FiniteSubsetsOf(S) = SUBSET S
    BY <1>1, FS_FiniteSubsetsOfFinite
  <2>2. T \subseteq SUBSET S
    OBVIOUS
  <2>3. T # {}
    <3>1. PICK j \in S : TRUE
      OBVIOUS
    <3>2. Later(j) \in T
      BY <3>1
    <3> HIDE DEF T
    <3> QED BY <3>2
  <2> QED BY <2>1, <2>2, <2>3
<1>4. PICK x \in T : \A y \in T : ~(<<y, x>> \in R)
  <2> HIDE DEF T, R
  <2> QED BY <1>2, <1>3, WFMin, Zenon
<1>5. PICK j \in S : x = Later(j)
  BY <1>4
<1>6. \A k \in S : k <= j
  <2> SUFFICES ASSUME NEW k \in S, j < k PROVE FALSE
    BY <1>0
  <2>0. j \in Nat /\ k \in Nat
    BY <1>0
  <2>1. Later(k) \subseteq Later(j) /\ k \in Later(j) /\ k \notin Later(k)
    <3>1. k \in Later(j) /\ k \notin Later(k)
      BY <1>0, <2>0
    <3>2. ASSUME NEW i \in Later(k) PROVE i \in Later(j)
      BY <1>0, <2>0, <3>2
    <3> QED BY <3>1, <3>2
  <2>2. <<Later(k), Later(j)>> \in R
    BY <2>1, Zenon DEF StrictSubsetOrdering
  <2> QED BY <2>2, <1>4, <1>5
<1> QED BY <1>6 DEF LastOf
\* Every text of a log that parses gives one element of the list or none, and
\* an element that is listed is the change some text was written for.
LEMMA SectionsProperties ==
  ASSUME NEW file \in Seq(Piece)
  PROVE  /\ Sections(file) \in Seq(Section)
         /\ DOMAIN Sections(file) = DOMAIN file
         /\ \A i \in DOMAIN file :
              IsListed(Sections(file)[i]) =>
                \E k \in DOMAIN file : Sections(file)[i] = file[k].entry
<1>1. /\ Len(file) \in Nat
      /\ DOMAIN file = 1 .. Len(file)
      /\ \A i \in DOMAIN file : file[i] \in Piece
  OBVIOUS
<1>2. ASSUME NEW i \in DOMAIN file
      PROVE  /\ Sections(file)[i] \in Section
             /\ IsListed(Sections(file)[i]) =>
                  \E k \in DOMAIN file : Sections(file)[i] = file[k].entry
  <2> DEFINE S == SameTitle(file, i)
  <2>1. S \subseteq 1 .. Len(file) /\ S # {}
    BY <1>1, <1>2 DEF SameTitle
  <2>2. LastOf(S) \in DOMAIN file
    <3> HIDE DEF S
    <3> QED BY <1>1, <2>1, LastOfProperties
  <2>3. CASE \E j \in S : j < i
    <3>1. Sections(file)[i] = Unlisted(file[i].entry)
      BY <1>2, <2>3 DEF Sections
    <3>2. file[i].entry \in Entry
      BY <1>1, <1>2 DEF Piece
    <3> QED BY <3>1, <3>2 DEF Unlisted, IsListed, Entry, Section
  <2>4. CASE ~\E j \in S : j < i
    <3>1. Sections(file)[i] = file[LastOf(S)].entry
      BY <1>2, <2>4 DEF Sections
    <3>2. file[LastOf(S)].entry \in Entry
      BY <1>1, <2>2 DEF Piece
    <3> HIDE DEF S
    <3>3. file[LastOf(S)].entry \in Section
      BY <3>2 DEF Entry, Section
    <3> QED BY <3>1, <3>3, <2>2
  <2> QED BY <2>3, <2>4
<1>3. DOMAIN Sections(file) = DOMAIN file
  BY DEF Sections
<1>4. Sections(file) \in [1 .. Len(file) -> Section]
  <2>1. Sections(file) = [i \in DOMAIN file |-> Sections(file)[i]]
    BY DEF Sections
  <2> QED BY <2>1, <1>1, <1>2
<1> QED BY <1>1, <1>2, <1>3, <1>4

\* The same for the entries of one path.
LEMMA SectionsOfType ==
  ASSUME NEW file \in Seq(Piece), NEW p
  PROVE  SectionsOf(file, p) \in Seq(Section)
<1>1. /\ Len(file) \in Nat
      /\ DOMAIN file = 1 .. Len(file)
  OBVIOUS
<1>2. ASSUME NEW i \in DOMAIN file
      PROVE  SectionsOf(file, p)[i] \in Section
  <2>1. Sections(file)[i] \in Section
    BY <1>1, <1>2, SectionsProperties
  <2>2. Unlisted(Sections(file)[i]) \in Section
    BY <2>1 DEF Unlisted, Section
  <2> QED BY <1>2, <2>1, <2>2 DEF SectionsOf
<1>3. SectionsOf(file, p) \in [1 .. Len(file) -> Section]
  <2>1. SectionsOf(file, p) = [i \in DOMAIN file |-> SectionsOf(file, p)[i]]
    BY DEF SectionsOf
  <2> QED BY <2>1, <1>1, <1>2
<1> QED BY <1>1, <1>3

\* What remains of a list after one of its elements was taken.
LEMMA RestProperties ==
  ASSUME NEW s \in Seq(Section), NEW i \in DOMAIN s
  PROVE  /\ s[i] \in Section
         /\ Rest(s, i) \in Seq(Section)
         /\ \A k \in DOMAIN Rest(s, i) : \E j \in DOMAIN s : Rest(s, i)[k] = s[j]
<1>1. i \in 1 .. Len(s) /\ Len(s) \in Nat
  OBVIOUS
<1>2. /\ Rest(s, i) \in Seq(Section)
      /\ Len(Rest(s, i)) = Len(s) - i
      /\ \A k \in 1 .. Len(s) - i : Rest(s, i)[k] = s[i + k]
  BY <1>1 DEF Rest
<1>3. ASSUME NEW k \in DOMAIN Rest(s, i)
      PROVE  \E j \in DOMAIN s : Rest(s, i)[k] = s[j]
  <2>1. k \in 1 .. Len(s) - i /\ i + k \in DOMAIN s
    BY <1>1, <1>2, <1>3
  <2> QED BY <2>1, <1>2
<1> QED BY <1>1, <1>2, <1>3
\* A file whose texts were all written for changes that file also holds.
Copies(f, file) ==
  /\ f \in Seq(Piece)
  /\ \A i \in DOMAIN f : \E k \in DOMAIN file : f[i].entry = file[k].entry

\* The first pieces of a file are copies.
LEMMA PrefixCopies ==
  ASSUME NEW file \in Seq(Piece), NEW m \in 0 .. Len(file)
  PROVE  Copies(SubSeq(file, 1, m), file)
<1>1. /\ SubSeq(file, 1, m) \in Seq(Piece)
      /\ DOMAIN SubSeq(file, 1, m) = 1 .. m
      /\ \A i \in 1 .. m : SubSeq(file, 1, m)[i] = file[i] /\ i \in DOMAIN file
  OBVIOUS
<1> QED BY <1>1 DEF Copies

\* Two lists of copies give a list of copies.
LEMMA ConcatCopies ==
  ASSUME NEW file \in Seq(Piece), NEW f, NEW g, Copies(f, file), Copies(g, file)
  PROVE  Copies(f \o g, file)
<1>1. f \in Seq(Piece) /\ g \in Seq(Piece)
  BY DEF Copies
<1>2. /\ f \o g \in Seq(Piece)
      /\ DOMAIN (f \o g) = 1 .. Len(f) + Len(g)
      /\ \A i \in 1 .. Len(f) + Len(g) :
           (f \o g)[i] = IF i <= Len(f) THEN f[i] ELSE g[i - Len(f)]
  BY <1>1
<1>3. ASSUME NEW i \in DOMAIN (f \o g)
      PROVE  \E k \in DOMAIN file : (f \o g)[i].entry = file[k].entry
  <2>1. CASE i <= Len(f)
    <3>1. (f \o g)[i] = f[i] /\ i \in DOMAIN f
      BY <1>1, <1>2, <1>3, <2>1
    <3> QED BY <3>1 DEF Copies
  <2>2. CASE ~(i <= Len(f))
    <3>1. (f \o g)[i] = g[i - Len(f)] /\ i - Len(f) \in DOMAIN g
      BY <1>1, <1>2, <1>3, <2>2
    <3> QED BY <3>1 DEF Copies
  <2> QED BY <2>1, <2>2
<1> QED BY <1>2, <1>3 DEF Copies

\* Cutting a file leaves copies, the last of them perhaps a fragment.
LEMMA CutCopies ==
  ASSUME NEW file \in Seq(Piece), NEW m \in 0 .. Len(file) - 1,
         NEW rest \in {"none", "torn", "bare"}
  PROVE  Copies(Cut(file, m, rest), file)
<1> DEFINE tail == IF rest = "none" THEN <<>>
                   ELSE <<[file[m + 1] EXCEPT !.state = rest]>>
<1>1. Copies(SubSeq(file, 1, m), file)
  BY PrefixCopies
<1>2. Copies(tail, file)
  <2>1. CASE rest = "none"
    BY <2>1 DEF Copies
  <2>2. CASE rest # "none"
    <3> DEFINE piece == [file[m + 1] EXCEPT !.state = rest]
    <3>1. m + 1 \in DOMAIN file /\ file[m + 1] \in Piece
      OBVIOUS
    <3>2. piece \in Piece /\ piece.entry = file[m + 1].entry
      BY <3>1, <2>2 DEF Piece
    <3>3. tail = <<piece>>
      BY <2>2
    <3> HIDE DEF piece, tail
    <3>4. tail \in Seq(Piece) /\ DOMAIN tail = {1} /\ tail[1] = piece
      BY <3>2, <3>3
    <3> QED BY <3>1, <3>2, <3>4 DEF Copies
  <2> QED BY <2>1, <2>2
<1> HIDE DEF tail
<1>3. Cut(file, m, rest) = SubSeq(file, 1, m) \o tail
  BY DEF Cut, tail
<1> QED BY <1>1, <1>2, <1>3, ConcatCopies

\* RemoveEntry makes up no text: it leaves copies of texts that were in the log,
\* or parts of them.
LEMMA RemoveResultsCopies ==
  ASSUME NEW file \in Seq(Piece), NEW n, NEW f \in RemoveResults(file, n)
  PROVE  Copies(f, file)
<1>1. CASE f = file
  BY <1>1 DEF Copies
<1>2. CASE \E i \in DOMAIN file : f \in RemovedAt(file, i)
  <2>1. PICK i \in DOMAIN file : f \in RemovedAt(file, i)
    BY <1>2
  <2> DEFINE front == SubSeq(file, 1, i - 1)
             ends  == {j \in i .. Len(file) : Whole(file[j])}
             rests == {"none", "torn", "bare"}
             cuts  == [m : 0 .. Len(file) - 1, rest : rests]
  <2>2. i \in 1 .. Len(file) /\ Len(file) \in Nat
    OBVIOUS
  <2>3. Copies(front, file)
    BY <2>2, PrefixCopies
  <2>4. \/ f = front
        \/ \E rest \in rests : f = front \o Cut(file, 0, rest)
        \/ \E c \in cuts : f = front \o Cut(file, c.m, c.rest)
    BY <2>1 DEF RemovedAt
  <2> HIDE DEF front
  <2>5. CASE f = front
    BY <2>3, <2>5
  <2>6. ASSUME NEW rest \in rests, f = front \o Cut(file, 0, rest)
        PROVE  Copies(f, file)
    <3>1. 0 \in 0 .. Len(file) - 1
      BY <2>2
    <3>2. Copies(Cut(file, 0, rest), file)
      BY <3>1, CutCopies
    <3> QED BY <2>3, <2>6, <3>2, ConcatCopies
  <2>7. ASSUME NEW c \in cuts, f = front \o Cut(file, c.m, c.rest)
        PROVE  Copies(f, file)
    <3>1. c.m \in 0 .. Len(file) - 1 /\ c.rest \in rests
      OBVIOUS
    <3>2. Copies(Cut(file, c.m, c.rest), file)
      BY <3>1, CutCopies
    <3> QED BY <2>3, <2>7, <3>2, ConcatCopies
  <2> QED BY <2>4, <2>5, <2>6, <2>7
<1>3. f = file \/ \E i \in DOMAIN file : f \in RemovedAt(file, i)
  BY DEF RemoveResults
<1> QED BY <1>1, <1>2, <1>3

\* A new entry with a number of its own leaves the list of the others as it was.
LEMMA AppendedSections ==
  ASSUME NEW file \in Seq(Piece), NEW x \in Piece,
         \A i \in DOMAIN file : file[i].entry.number # x.entry.number
  PROVE  Listed(Sections(file)) \subseteq Listed(Sections(Append(file, x)))
<1> DEFINE long == Append(file, x)
<1>1. /\ Len(file) \in Nat
      /\ DOMAIN file = 1 .. Len(file)
      /\ DOMAIN long = 1 .. Len(file) + 1
      /\ \A i \in DOMAIN file : long[i] = file[i]
      /\ long[Len(file) + 1] = x
  OBVIOUS
<1>2. \A i \in DOMAIN long : i \in DOMAIN file \/ i = Len(file) + 1
  BY <1>1
<1>3. \A i \in DOMAIN file : i \in DOMAIN long
  BY <1>1
<1> HIDE DEF long
<1>4. ASSUME NEW i \in DOMAIN file
      PROVE  Sections(long)[i] = Sections(file)[i]
  <2>1. SameTitle(long, i) = SameTitle(file, i)
    BY <1>1, <1>2, <1>3 DEF SameTitle
  <2> DEFINE S == SameTitle(file, i)
  <2>2. S \subseteq 1 .. Len(file) /\ S # {}
    BY <1>1 DEF SameTitle
  <2>3. LastOf(S) \in DOMAIN file
    <3> HIDE DEF S
    <3> QED BY <1>1, <2>2, LastOfProperties
  <2>4. long[i].entry = file[i].entry /\ long[LastOf(S)].entry = file[LastOf(S)].entry
    BY <1>1, <2>3
  <2>5. Sections(long)[i] = IF \E j \in S : j < i THEN Unlisted(long[i].entry)
                            ELSE long[LastOf(S)].entry
    BY <1>3, <2>1 DEF Sections
  <2>6. Sections(file)[i] = IF \E j \in S : j < i THEN Unlisted(file[i].entry)
                            ELSE file[LastOf(S)].entry
    BY DEF Sections
  <2> HIDE DEF S
  <2> QED BY <2>4, <2>5, <2>6
<1>5. DOMAIN Sections(file) = DOMAIN file /\ DOMAIN Sections(long) = DOMAIN long
  BY DEF Sections
<1> QED BY <1>3, <1>4, <1>5 DEF Listed, long

\* The merged type is one to log, or nothing is logged.
LEMMA MergeType ==
  ASSUME NEW first \in ModType \cup {"none"}, NEW new \in ModType
  PROVE  Merge(first, new) \in ModType \cup {"x"}
BY DEF Merge, MergeTable, ModType

\* The request's next entry.
LEMMA TailType ==
  ASSUME NEW S, NEW s \in Seq(S), s # <<>>, Len(s) # 1
  PROVE  Tail(s) \in Seq(S) /\ Tail(s) # <<>>
<1>1. Len(s) \in Nat /\ Len(s) # 0
  OBVIOUS
<1>2. Tail(s) \in Seq(S) /\ Len(Tail(s)) = Len(s) - 1
  BY <1>1
<1>3. Len(Tail(s)) # Len(<<>>)
  BY <1>1, <1>2
<1> QED BY <1>2, <1>3
=============================================================================
