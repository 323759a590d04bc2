--------------------------- MODULE OfflineTrees_proofs ---------------------------
(****************************************************************************)
(* For any paths, names, kinds of files and bounds, whatever the requests,  *)
(* the updates, the other users and restarts do:                            *)
(*   - the list of trees changes only as Backingtrees says, a path belongs  *)
(*     to at most one tree, and the saved list is the list;                 *)
(*   - an undisturbed update that finds directories on both sides or on     *)
(*     neither makes the cache below its tree what the server has; it       *)
(*     leaves files in conflict to the user; a conflict of files that is    *)
(*     resolved leaves one version.  These three ask for PlainPaths.        *)
(****************************************************************************)
EXTENDS OfflineTrees, WellFoundedInduction, TLAPS

Saving(w) == w.pc \in {"persist", "write"}

\* Every list there is, in memory, in the file or on its way to it, is separate.
ListsSeparate ==
  /\ Separate(trees) /\ Separate(saved)
  /\ Saving(reg) => Separate(reg.list)
  /\ Saving(rem) => Separate(rem.list)

\* As long as no two requests have saved at once, the one that is saving has the
\* present list, nobody writes into its text, and without one the file is current.
SavingIsCurrent ==
  ~raced =>
    /\ ~(Saving(reg) /\ Saving(rem))
    /\ Saving(reg) => reg.list = trees /\ (reg.pc = "write" => ~reg.mixed)
    /\ Saving(rem) => rem.list = trees /\ (rem.pc = "write" => ~rem.mixed)
    /\ ~Saving(reg) /\ ~Saving(rem) => saved = trees

TreesInv == TreesTypeOK /\ ListsSeparate /\ SavingIsCurrent

--------------------------------------------------------------------------------
\* Of two beginnings of one path, one begins the other.
LEMMA BeginningsComparable ==
  ASSUME NEW p \in Seq(STRING), NEW s \in Seq(STRING), NEW t \in Seq(STRING),
         Begins(s, p), Begins(t, p)
  PROVE  Begins(s, t) \/ Begins(t, s)
<1>1. Len(p) \in Nat /\ Len(s) \in Nat /\ Len(t) \in Nat
  OBVIOUS
<1>2. CASE Len(s) <= Len(t)
  BY <1>1, <1>2 DEF Begins
<1>3. CASE Len(t) <= Len(s)
  BY <1>1, <1>3 DEF Begins
<1> QED BY <1>1, <1>2, <1>3

LEMMA PathsAreSequences == AppPaths \subseteq Seq(STRING)
BY AppPathsAssumption

\* The trees of a separate list do not share a path.
LEMMA SeparateTrees ==
  ASSUME trees \subseteq AppPaths, Separate(trees)
  PROVE  OneTreePerPath
<1> SUFFICES ASSUME NEW p \in AppPaths, NEW s \in trees, NEW t \in trees,
                    Begins(s, p), Begins(t, p)
             PROVE  s = t
  BY DEF OneTreePerPath
<1>1. Begins(s, t) \/ Begins(t, s)
  BY BeginningsComparable, PathsAreSequences
<1> QED BY <1>1 DEF Separate

\* A list stays separate when a path outside of its trees replaces those below it.
LEMMA RegisteredIsSeparate ==
  ASSUME NEW p \in AppPaths, trees \subseteq AppPaths, Separate(trees), ~InTree(p)
  PROVE  Separate((trees \ BacktreesBelow(p)) \cup {p})
BY DEF Separate, InTree, BacktreesBelow

LEMMA SmallerIsSeparate ==
  ASSUME NEW list, NEW smaller, smaller \subseteq list, Separate(list)
  PROVE  Separate(smaller)
BY DEF Separate

LEMMA NoListIsSeparate == Separate({})
BY DEF Separate
--------------------------------------------------------------------------------
\* What a writer is: the kinds of records of Writers, one by one.
LEMMA WriterCases ==
  ASSUME NEW w \in Writers
  PROVE  \/ w = Free /\ w.pc = "free"
         \/ w \in [pc : {"update", "remove"}, path : AppPaths]
         \/ w \in [pc : {"persist"}, path : AppPaths, list : SUBSET AppPaths]
         \/ w \in [pc : {"write"}, path : AppPaths, list : SUBSET AppPaths, mixed : BOOLEAN]
BY DEF Writers, Free

LEMMA WriterForms ==
  ASSUME NEW p \in AppPaths, NEW list \in SUBSET AppPaths
  PROVE  /\ Free \in Writers /\ Updating(p) \in Writers /\ Removing(p) \in Writers
         /\ Persisting(p, list) \in Writers /\ Writing(p, list) \in Writers
         /\ ~Saving(Free) /\ ~Saving(Updating(p)) /\ ~Saving(Removing(p))
BY DEF Writers, Free, Updating, Removing, Persisting, Writing, Saving

\* A text that another one has been written into is still that of its own list.
LEMMA MixedWriter ==
  ASSUME NEW w \in Writers, NEW list
  PROVE  /\ Mixed(w, list) \in Writers
         /\ Mixed(w, list).pc = w.pc
         /\ Saving(w) => Mixed(w, list).list = w.list
         /\ ~Saving(w) => Mixed(w, list) = w
<1>1. CASE w.pc = "write" /\ w.list # list
  <2>1. w \in [pc : {"write"}, path : AppPaths, list : SUBSET AppPaths, mixed : BOOLEAN]
    BY <1>1, WriterCases
  <2>2. Mixed(w, list) = [w EXCEPT !.mixed = TRUE]
    BY <1>1 DEF Mixed
  <2> QED BY <1>1, <2>1, <2>2 DEF Writers, Saving
<1>2. CASE ~(w.pc = "write" /\ w.list # list)
  BY <1>2 DEF Mixed
<1> QED BY <1>1, <1>2
--------------------------------------------------------------------------------
LEMMA InitTreesInv == Init => TreesInv
<1> SUFFICES ASSUME Init PROVE TreesInv
  OBVIOUS
<1>1. saved \in {{}, Listed} /\ trees = saved /\ plist = saved /\ reg = Free /\ rem = Free
      /\ raced = FALSE
  BY DEF Init, TreesInit
<1>2. Listed \subseteq AppPaths /\ Separate(Listed)
  BY OfflineTreesAssumption
<1>3. Free \in Writers /\ ~Saving(Free)
  BY DEF Writers, Free, Saving
<1>4. TreesTypeOK
  BY <1>1, <1>2, <1>3 DEF TreesTypeOK
<1>5. ListsSeparate
  BY <1>1, <1>2, <1>3, NoListIsSeparate DEF ListsSeparate
<1>6. SavingIsCurrent
  BY <1>1, <1>3 DEF SavingIsCurrent
<1> QED BY <1>4, <1>5, <1>6 DEF TreesInv

LEMMA RegisterKeepsTreesInv ==
  ASSUME TreesInv, NEW p \in AppPaths, register_Backingtree(p)
  PROVE  TreesInv'
<1>1. reg = Free /\ saved' = saved /\ plist' = plist /\ rem' = rem
  BY DEF register_Backingtree, InstanceFree
<1>2. ~Saving(reg)
  BY <1>1 DEF Saving, Free
<1>3. CASE InTree(p)
  <2>1. trees' = trees /\ raced' = raced /\ reg' = Updating(p)
    BY <1>3 DEF register_Backingtree
  <2>2. Updating(p) \in Writers /\ ~Saving(Updating(p))
    BY WriterForms
  <2> QED BY <1>1, <1>2, <2>1, <2>2
       DEF TreesInv, TreesTypeOK, ListsSeparate, SavingIsCurrent, Saving
<1>4. CASE ~InTree(p)
  <2> DEFINE new == (trees \ BacktreesBelow(p)) \cup {p}
  <2>1. /\ trees' = new /\ reg' = Persisting(p, new)
        /\ raced' = (raced \/ rem.pc \in {"persist", "write"})
    BY <1>4 DEF register_Backingtree
  <2>2. new \in SUBSET AppPaths /\ Separate(new)
    BY <1>4, RegisteredIsSeparate DEF TreesInv, TreesTypeOK, ListsSeparate, BacktreesBelow
  <2>3. Persisting(p, new) \in Writers
    BY <2>2, WriterForms
  <2>4. Persisting(p, new).list = new /\ Persisting(p, new).pc = "persist"
    BY DEF Persisting
  <2> HIDE DEF new
  <2>5. TreesTypeOK'
    BY <1>1, <2>1, <2>2, <2>3 DEF TreesInv, TreesTypeOK
  <2>6. ListsSeparate'
    BY <1>1, <2>1, <2>2, <2>4 DEF TreesInv, ListsSeparate, Saving
  <2>7. SavingIsCurrent'
    BY <1>1, <2>1, <2>4 DEF TreesInv, TreesTypeOK, SavingIsCurrent, Saving
  <2> QED BY <2>5, <2>6, <2>7 DEF TreesInv
<1> QED BY <1>3, <1>4

LEMMA EnterRemoveKeepsTreesInv ==
  ASSUME TreesInv, NEW p \in AppPaths, EnterRemove(p)
  PROVE  TreesInv'
<1>1. /\ rem = Free /\ rem' = Removing(p)
      /\ trees' = trees /\ saved' = saved /\ plist' = plist /\ reg' = reg /\ raced' = raced
  BY DEF EnterRemove
<1>2. Removing(p) \in Writers /\ ~Saving(Removing(p)) /\ ~Saving(Free)
  BY WriterForms
<1> QED BY <1>1, <1>2 DEF TreesInv, TreesTypeOK, ListsSeparate, SavingIsCurrent, Saving

LEMMA RemoveKeepsTreesInv ==
  ASSUME TreesInv, remove_Backingtree
  PROVE  TreesInv'
<1> DEFINE new == trees \ {rem.path}
<1>1. /\ rem.pc = "remove" /\ trees' = new /\ rem' = Persisting(rem.path, new)
      /\ raced' = (raced \/ reg.pc \in {"persist", "write"})
      /\ saved' = saved /\ plist' = plist /\ reg' = reg
  BY DEF remove_Backingtree
<1>2. rem.path \in AppPaths
  BY <1>1, WriterCases DEF TreesInv, TreesTypeOK
<1>3. new \in SUBSET AppPaths /\ Separate(new)
  BY SmallerIsSeparate DEF TreesInv, TreesTypeOK, ListsSeparate
<1>4. Persisting(rem.path, new) \in Writers
  BY <1>2, <1>3, WriterForms
<1>5. Persisting(rem.path, new).list = new /\ Persisting(rem.path, new).pc = "persist"
  BY DEF Persisting
<1> HIDE DEF new
<1>6. TreesTypeOK'
  BY <1>1, <1>3, <1>4 DEF TreesInv, TreesTypeOK
<1>7. ListsSeparate'
  BY <1>1, <1>3, <1>5 DEF TreesInv, ListsSeparate, Saving
<1>8. SavingIsCurrent'
  BY <1>1, <1>5 DEF TreesInv, TreesTypeOK, SavingIsCurrent, Saving
<1> QED BY <1>6, <1>7, <1>8 DEF TreesInv

\* A request about to write has its list; the file has none until it has written.
LEMMA TruncateKeepsTreesInv ==
  ASSUME TreesInv, RegTruncate \/ RemTruncate
  PROVE  TreesInv'
<1>1. CASE RegTruncate
  <2>1. /\ reg.pc = "persist" /\ plist' = reg.list /\ saved' = {}
        /\ reg' = Writing(reg.path, reg.list)
        /\ trees' = trees /\ rem' = rem /\ raced' = raced
    BY <1>1 DEF RegTruncate
  <2>2. reg.path \in AppPaths /\ reg.list \in SUBSET AppPaths
    BY <2>1, WriterCases DEF TreesInv, TreesTypeOK
  <2>3. Writing(reg.path, reg.list) \in Writers
    BY <2>2, WriterForms
  <2>4. /\ Writing(reg.path, reg.list).list = reg.list
        /\ Writing(reg.path, reg.list).pc = "write"
        /\ Writing(reg.path, reg.list).mixed = FALSE
    BY DEF Writing
  <2>5. TreesTypeOK'
    BY <2>1, <2>2, <2>3 DEF TreesInv, TreesTypeOK
  <2>6. ListsSeparate'
    BY <2>1, <2>4, NoListIsSeparate DEF TreesInv, ListsSeparate, Saving
  <2>7. SavingIsCurrent'
    BY <2>1, <2>4 DEF TreesInv, SavingIsCurrent, Saving
  <2> QED BY <2>5, <2>6, <2>7 DEF TreesInv
<1>2. CASE RemTruncate
  <2>1. /\ rem.pc = "persist" /\ plist' = rem.list /\ saved' = {}
        /\ rem' = Writing(rem.path, rem.list)
        /\ trees' = trees /\ reg' = reg /\ raced' = raced
    BY <1>2 DEF RemTruncate
  <2>2. rem.path \in AppPaths /\ rem.list \in SUBSET AppPaths
    BY <2>1, WriterCases DEF TreesInv, TreesTypeOK
  <2>3. Writing(rem.path, rem.list) \in Writers
    BY <2>2, WriterForms
  <2>4. /\ Writing(rem.path, rem.list).list = rem.list
        /\ Writing(rem.path, rem.list).pc = "write"
        /\ Writing(rem.path, rem.list).mixed = FALSE
    BY DEF Writing
  <2>5. TreesTypeOK'
    BY <2>1, <2>2, <2>3 DEF TreesInv, TreesTypeOK
  <2>6. ListsSeparate'
    BY <2>1, <2>4, NoListIsSeparate DEF TreesInv, ListsSeparate, Saving
  <2>7. SavingIsCurrent'
    BY <2>1, <2>4 DEF TreesInv, SavingIsCurrent, Saving
  <2> QED BY <2>5, <2>6, <2>7 DEF TreesInv
<1> QED BY <1>1, <1>2

\* What is written is the request's own list, or nothing.
LEMMA WriteKeepsTreesInv ==
  ASSUME TreesInv, RegWrite \/ RemWrite
  PROVE  TreesInv'
<1>1. CASE RegWrite
  <2>1. /\ reg.pc = "write" /\ saved' \in Written(reg) /\ reg' = Updating(reg.path)
        /\ rem' = Mixed(rem, reg.list)
        /\ trees' = trees /\ plist' = plist /\ raced' = raced
    BY <1>1 DEF RegWrite
  <2>2. reg.path \in AppPaths /\ reg.list \in SUBSET AppPaths /\ reg.mixed \in BOOLEAN
    BY <2>1, WriterCases DEF TreesInv, TreesTypeOK
  <2>3. Updating(reg.path) \in Writers /\ ~Saving(Updating(reg.path))
    BY <2>2, WriterForms
  <2>4. saved' \in {reg.list, {}} /\ (~reg.mixed => saved' = reg.list)
    BY <2>1 DEF Written
  <2>5. Separate(reg.list) /\ Separate(saved')
    BY <2>1, <2>4, NoListIsSeparate DEF TreesInv, ListsSeparate, Saving
  <2>6. /\ rem' \in Writers /\ rem'.pc = rem.pc
        /\ Saving(rem) => rem'.list = rem.list
        /\ ~Saving(rem) => rem' = rem
    BY <2>1, MixedWriter DEF TreesInv, TreesTypeOK
  <2>7. TreesTypeOK'
    BY <2>1, <2>2, <2>3, <2>4, <2>6 DEF TreesInv, TreesTypeOK
  <2>8. ListsSeparate'
    BY <2>1, <2>3, <2>5, <2>6 DEF TreesInv, ListsSeparate, Saving
  <2>9. SavingIsCurrent'
    BY <2>1, <2>3, <2>4, <2>6 DEF TreesInv, SavingIsCurrent, Saving
  <2> QED BY <2>7, <2>8, <2>9 DEF TreesInv
<1>2. CASE RemWrite
  <2>1. /\ rem.pc = "write" /\ saved' \in Written(rem) /\ rem' = Free
        /\ reg' = Mixed(reg, rem.list)
        /\ trees' = trees /\ plist' = plist /\ raced' = raced
    BY <1>2 DEF RemWrite
  <2>2. rem.path \in AppPaths /\ rem.list \in SUBSET AppPaths /\ rem.mixed \in BOOLEAN
    BY <2>1, WriterCases DEF TreesInv, TreesTypeOK
  <2>3. Free \in Writers /\ ~Saving(Free)
    BY <2>2, WriterForms
  <2>4. saved' \in {rem.list, {}} /\ (~rem.mixed => saved' = rem.list)
    BY <2>1 DEF Written
  <2>5. Separate(rem.list) /\ Separate(saved')
    BY <2>1, <2>4, NoListIsSeparate DEF TreesInv, ListsSeparate, Saving
  <2>6. /\ reg' \in Writers /\ reg'.pc = reg.pc
        /\ Saving(reg) => reg'.list = reg.list
        /\ ~Saving(reg) => reg' = reg
    BY <2>1, MixedWriter DEF TreesInv, TreesTypeOK
  <2>7. TreesTypeOK'
    BY <2>1, <2>2, <2>3, <2>4, <2>6 DEF TreesInv, TreesTypeOK
  <2>8. ListsSeparate'
    BY <2>1, <2>3, <2>5, <2>6 DEF TreesInv, ListsSeparate, Saving
  <2>9. SavingIsCurrent'
    BY <2>1, <2>3, <2>4, <2>6 DEF TreesInv, SavingIsCurrent, Saving
  <2> QED BY <2>7, <2>8, <2>9 DEF TreesInv
<1> QED BY <1>1, <1>2

LEMMA EndRegisterKeepsTreesInv ==
  ASSUME TreesInv, EndRegister
  PROVE  TreesInv'
<1>1. /\ reg.pc = "update" /\ reg' = Free
      /\ trees' = trees /\ saved' = saved /\ plist' = plist /\ rem' = rem /\ raced' = raced
  BY DEF EndRegister
<1>2. Free \in Writers /\ ~Saving(Free) /\ ~Saving(reg)
  BY <1>1 DEF Writers, Free, Saving
<1> QED BY <1>1, <1>2 DEF TreesInv, TreesTypeOK, ListsSeparate, SavingIsCurrent, Saving

LEMMA ReinstateKeepsTreesInv ==
  ASSUME TreesInv, reinstate
  PROVE  TreesInv'
<1>1. /\ plist' = saved /\ trees' = saved /\ saved' = saved
      /\ reg' = Free /\ rem' = Free /\ raced' = raced
  BY DEF reinstate
<1>2. Free \in Writers /\ ~Saving(Free)
  BY DEF Writers, Free, Saving
<1> QED BY <1>1, <1>2 DEF TreesInv, TreesTypeOK, ListsSeparate, SavingIsCurrent, Saving

\* The list of trees alone keeps its invariant.
LEMMA TreesNextKeepsTreesInv == TreesInv /\ [TreesNext]_treeVars => TreesInv'
<1> SUFFICES ASSUME TreesInv, [TreesNext]_treeVars PROVE TreesInv'
  OBVIOUS
<1>1. ASSUME NEW p \in AppPaths, register_Backingtree(p) PROVE TreesInv'
  BY <1>1, RegisterKeepsTreesInv
<1>2. ASSUME NEW p \in AppPaths, EnterRemove(p) PROVE TreesInv'
  BY <1>2, EnterRemoveKeepsTreesInv
<1>3. CASE remove_Backingtree
  BY <1>3, RemoveKeepsTreesInv
<1>4. CASE RegTruncate \/ RemTruncate
  BY <1>4, TruncateKeepsTreesInv
<1>5. CASE RegWrite \/ RemWrite
  BY <1>5, WriteKeepsTreesInv
<1>6. CASE EndRegister
  BY <1>6, EndRegisterKeepsTreesInv
<1>7. CASE reinstate
  BY <1>7, ReinstateKeepsTreesInv
<1>8. CASE UNCHANGED treeVars
  BY <1>8 DEF treeVars, TreesInv, TreesTypeOK, ListsSeparate, SavingIsCurrent, Saving
<1> QED BY <1>1, <1>2, <1>3, <1>4, <1>5, <1>6, <1>7, <1>8 DEF TreesNext
--------------------------------------------------------------------------------
\* Each step of the whole is a step of the list of trees or leaves it alone.
LEMMA NextIsTreesNext == [Next]_vars => [TreesNext]_treeVars
<1> SUFFICES ASSUME [Next]_vars PROVE [TreesNext]_treeVars
  OBVIOUS
<1>1. CASE Register
  BY <1>1 DEF Register, op_setxattr_offline, TreesNext
<1>2. CASE Remove
  BY <1>2 DEF Remove, op_removexattr_offline, TreesNext
<1>3. CASE SaveTrees
  BY <1>3 DEF SaveTrees, TreesNext
<1>4. CASE RemoveTree
  BY <1>4 DEF RemoveTree, TreesNext
<1>5. CASE FinishRegister
  BY <1>5 DEF FinishRegister, TreesNext
<1>6. CASE Restart
  BY <1>6 DEF Restart, TreesNext
<1>7. CASE BeginRequest \/ RunRequest \/ SetAvailability \/ StartUpdate \/ Update
  BY <1>7 DEF BeginRequest, RunRequest, SetAvailability, StartUpdate, Update
<1>8. CASE ServerEdit \/ MountShare \/ ConflictFound \/ Tick
  BY <1>8 DEF ServerEdit, MountShare, ConflictFound, Tick
<1>9. CASE UNCHANGED vars
  BY <1>9 DEF vars
<1> QED BY <1>1, <1>2, <1>3, <1>4, <1>5, <1>6, <1>7, <1>8, <1>9 DEF Next

\* The whole changes the list of trees and its file only as register_Backingtree,
\* remove_Backingtree, make_persistent and reinstate do.
THEOREM ImplementsTrees == Spec => TreesSpec(Listed)
<1>1. Init => TreesInit(Listed)
  BY DEF Init
<1> QED BY <1>1, NextIsTreesNext, PTL DEF Spec, TreesSpec

LEMMA TreesInvAlways == Spec => []TreesInv
<1>1. TreesInv /\ [Next]_vars => TreesInv'
  BY NextIsTreesNext, TreesNextKeepsTreesInv
<1> QED BY InitTreesInv, <1>1, PTL DEF Spec

\* A path belongs to at most one tree, however trees have been registered below or
\* above each other, removed, saved at once, half saved or read back.
THEOREM OneTreePerPathAlways == Spec => []OneTreePerPath
<1>1. TreesInv => OneTreePerPath
  BY SeparateTrees DEF TreesInv, TreesTypeOK, ListsSeparate
<1> QED BY <1>1, TreesInvAlways, PTL

\* Unless a registration and a removal have saved at once, the file has the list
\* whenever nobody saves.
THEOREM SavedIsRegisteredAlways == Spec => []SavedIsRegistered
<1>1. TreesInv => SavedIsRegistered
  <2> SUFFICES ASSUME TreesInv, ~raced, rem = Free, reg.pc \in {"free", "update"}
               PROVE  saved = trees
    BY DEF SavedIsRegistered
  <2>1. ~Saving(rem) /\ ~Saving(reg)
    BY DEF Saving, Free
  <2> QED BY <2>1 DEF TreesInv, SavingIsCurrent
<1> QED BY <1>1, TreesInvAlways, PTL

\* A set of numbers has a least one.
LEMMA LeastNumber ==
  ASSUME NEW T, T \subseteq Nat, T # {}
  PROVE  \E m \in T : \A k \in T : m <= k
<1>1. IsWellFoundedOn(OpToRel(<, Nat), Nat)
  BY NatLessThanWellFounded
<1>2. PICK m \in T : \A k \in T : ~(<<k, m>> \in OpToRel(<, Nat))
  BY <1>1, WFMin
<1>3. \A k \in T : ~(k < m)
  BY <1>2 DEF OpToRel
<1> QED BY <1>3

--------------------------------------------------------------------------------
(****************************************************************************)
(* Types of the whole.  What a place is and what update_cache returns are   *)
(* defined by recursion over a path; each is unrolled by a function that    *)
(* satisfies its equation, which exists because there is no least length    *)
(* without one.                                                             *)
(****************************************************************************)
Letters == STRING \cup {Slash}

LEMMA LetterSequences ==
  /\ AppPaths \subseteq Seq(Letters) /\ <<>> \notin AppPaths
  /\ \A n \in Names : n \in Seq(Letters) /\ n # <<>> /\ \A j \in 1 .. Len(n) : n[j] # Slash
<1>1. Seq(STRING) \subseteq Seq(Letters) /\ Seq(STRING \ {Slash}) \subseteq Seq(Letters)
  BY DEF Letters
<1>2. \A n \in Seq(STRING \ {Slash}) : \A j \in 1 .. Len(n) : n[j] # Slash
  OBVIOUS
<1> QED BY <1>1, <1>2, AppPathsAssumption, PlacesAssumption

\* What is left of the first n letters of a path.
Dropped(p, n) == p[n] = Slash /\ (n = Len(p) \/ p[n + 1] = Slash)
Keeps(f, p, n) ==
  /\ f[0] = <<>>
  /\ \A k \in 1 .. n : f[k] = IF Dropped(p, k) THEN f[k - 1] ELSE Append(f[k - 1], p[k])

LEMMA KeepsExists ==
  ASSUME NEW p \in Seq(Letters), NEW n \in Nat
  PROVE  \E f : Keeps(f, p, n)
<1> DEFINE T == {m \in Nat : ~ \E f : Keeps(f, p, m)}
<1>1. 0 \notin T
  <2> DEFINE f == [k \in {0} |-> <<>>]
  <2>1. Keeps(f, p, 0)
    BY DEF Keeps
  <2> QED BY <2>1
<1>2. T = {}
  <2> SUFFICES ASSUME T # {} PROVE FALSE
    OBVIOUS
  <2>1. PICK m \in T : \A k \in T : m <= k
    <3>1. T \subseteq Nat
      OBVIOUS
    <3> HIDE DEF T
    <3> QED BY <3>1, LeastNumber
  <2>2. m \in Nat /\ m # 0
    BY <1>1
  <2>3. m - 1 \in Nat /\ m - 1 \notin T
    BY <2>1, <2>2
  <2>4. PICK f : Keeps(f, p, m - 1)
    BY <2>3
  <2> DEFINE h == [k \in 0 .. m |->
                     IF k < m THEN f[k]
                     ELSE IF Dropped(p, m) THEN f[m - 1] ELSE Append(f[m - 1], p[m])]
  <2>5. Keeps(h, p, m)
    <3>1. h[0] = <<>>
      BY <2>2, <2>4 DEF Keeps
    <3>2. ASSUME NEW k \in 1 .. m
          PROVE  h[k] = IF Dropped(p, k) THEN h[k - 1] ELSE Append(h[k - 1], p[k])
      <4>1. CASE k = m
        <5>1. h[m] = IF Dropped(p, m) THEN f[m - 1] ELSE Append(f[m - 1], p[m])
          BY <2>2
        <5>2. h[m - 1] = f[m - 1]
          BY <2>2
        <5> HIDE DEF h
        <5> QED BY <4>1, <5>1, <5>2
      <4>2. CASE k # m
        <5>1. k \in 1 .. m - 1 /\ k < m /\ k - 1 < m /\ k \in 0 .. m /\ k - 1 \in 0 .. m
          BY <2>2, <4>2
        <5>2. h[k] = f[k] /\ h[k - 1] = f[k - 1]
          BY <5>1
        <5> HIDE DEF h
        <5> QED BY <2>4, <5>1, <5>2 DEF Keeps
      <4> QED BY <4>1, <4>2
    <3> HIDE DEF h
    <3> QED BY <3>1, <3>2 DEF Keeps
  <2> QED BY <2>2, <2>5
<1> QED BY <1>2

\* The place of a path is what is left of all its letters.
LEMMA PlaceKeeps ==
  ASSUME NEW p \in Seq(Letters)
  PROVE  \E f : Keeps(f, p, Len(p)) /\ Place(p) = f[Len(p)]
<1> DEFINE n == Len(p)
           Iter(h) == h = [k \in 0 .. n |->
                             CASE k = 0 -> <<>>
                               [] k > 0 /\ p[k] = Slash /\ (k = n \/ p[k + 1] = Slash)
                                    -> h[k - 1]
                               [] OTHER -> Append(h[k - 1], p[k])]
           h == CHOOSE h : Iter(h)
<1>0. n \in Nat
  OBVIOUS
<1>1. Place(p) = h[n]
  BY DEF Place
<1>2. PICK g : Keeps(g, p, n)
  BY <1>0, KeepsExists
<1>3. Iter([k \in 0 .. n |-> g[k]])
  <2> DEFINE gn == [k \in 0 .. n |-> g[k]]
  <2> HIDE DEF n
  <2>1. ASSUME NEW k \in 0 .. n
        PROVE  gn[k] = CASE k = 0 -> <<>>
                         [] k > 0 /\ p[k] = Slash /\ (k = n \/ p[k + 1] = Slash)
                              -> gn[k - 1]
                         [] OTHER -> Append(gn[k - 1], p[k])
    <3>1. CASE k = 0
      BY <3>1, <1>2, <1>0 DEF Keeps
    <3>2. CASE k # 0
      <4>1. k \in 1 .. n /\ k > 0 /\ k - 1 \in 0 .. n
        BY <3>2, <1>0
      <4>2. g[k] = IF Dropped(p, k) THEN g[k - 1] ELSE Append(g[k - 1], p[k])
        BY <4>1, <1>2 DEF Keeps
      <4>3. gn[k] = g[k] /\ gn[k - 1] = g[k - 1]
        BY <4>1
      <4>4. Dropped(p, k) <=> (p[k] = Slash /\ (k = n \/ p[k + 1] = Slash))
        BY DEF Dropped, n
      <4> HIDE DEF gn
      <4> QED BY <3>2, <4>1, <4>2, <4>3, <4>4
    <3> QED BY <3>1, <3>2
  <2> QED BY <2>1
<1>4. Iter(h)
  <2> HIDE DEF Iter
  <2> QED BY <1>3
<1>5. Keeps(h, p, n)
  <2> HIDE DEF h
  <2>1. h[0] = <<>>
    BY <1>4, <1>0
  <2>2. ASSUME NEW k \in 1 .. n
        PROVE  h[k] = IF Dropped(p, k) THEN h[k - 1] ELSE Append(h[k - 1], p[k])
    <3>1. k # 0 /\ k > 0 /\ k \in 0 .. n
      BY <1>0
    <3>2. h[k] = IF p[k] = Slash /\ (k = n \/ p[k + 1] = Slash)
                 THEN h[k - 1] ELSE Append(h[k - 1], p[k])
      <4> HIDE DEF n
      <4> QED BY <1>4, <3>1
    <3> QED BY <3>2 DEF Dropped
  <2> HIDE DEF n
  <2> QED BY <2>1, <2>2 DEF Keeps
<1> QED BY <1>1, <1>5

LEMMA AppendForms ==
  ASSUME NEW S, NEW x \in S, NEW s \in Seq(S), NEW t \in Seq(S)
  PROVE  Append(s, x) \in Seq(S) /\ Append(t \o s, x) = t \o Append(s, x)
OBVIOUS

LEMMA KeepsType ==
  ASSUME NEW p \in Seq(Letters), NEW f, Keeps(f, p, Len(p)), NEW k \in 0 .. Len(p)
  PROVE  f[k] \in Seq(Letters)
<1> DEFINE T == {m \in 0 .. Len(p) : f[m] \notin Seq(Letters)}
<1>1. Len(p) \in Nat /\ T \subseteq Nat
  OBVIOUS
<1>2. SUFFICES ASSUME T # {} PROVE FALSE
  OBVIOUS
<1>3. PICK m \in T : \A j \in T : m <= j
  <2> HIDE DEF T
  <2> QED BY <1>1, <1>2, LeastNumber
<1>4. m # 0
  <2>1. f[0] \in Seq(Letters)
    BY DEF Keeps
  <2> QED BY <2>1
<1>5. m \in 1 .. Len(p) /\ m - 1 \in 0 .. Len(p) /\ m - 1 \notin T
  BY <1>1, <1>3, <1>4
<1>6. f[m - 1] \in Seq(Letters) /\ p[m] \in Letters
  BY <1>5
<1>7. f[m] = f[m - 1] \/ f[m] = Append(f[m - 1], p[m])
  BY <1>5 DEF Keeps
<1>8. f[m] \in Seq(Letters)
  <2> HIDE DEF T
  <2> QED BY <1>6, <1>7, AppendForms
<1> QED BY <1>3, <1>8

LEMMA PlaceType ==
  ASSUME NEW p \in Seq(Letters)
  PROVE  Place(p) \in Seq(Letters)
<1>1. PICK f : Keeps(f, p, Len(p)) /\ Place(p) = f[Len(p)]
  BY PlaceKeeps
<1>2. Len(p) \in 0 .. Len(p)
  OBVIOUS
<1> QED BY <1>1, <1>2, KeepsType

\* The letters of a name below a directory.
LEMMA BelowLetters ==
  ASSUME NEW p \in Seq(Letters), NEW n \in Names
  PROVE  /\ n \in Seq(Letters) /\ Len(n) \in Nat \ {0}
         /\ \A j \in 1 .. Len(n) : n[j] # Slash
         /\ Below(p, n) \in Seq(Letters)
         /\ Len(Below(p, n)) = Len(p) + 1 + Len(n)
         /\ \A i \in 1 .. Len(p) : Below(p, n)[i] = p[i]
         /\ Below(p, n)[Len(p) + 1] = Slash
         /\ \A j \in 1 .. Len(n) : Below(p, n)[Len(p) + 1 + j] = n[j]
<1>1. n \in Seq(Letters) /\ n # <<>> /\ \A j \in 1 .. Len(n) : n[j] # Slash
  BY LetterSequences
<1>2. Slash \in Letters
  BY DEF Letters
<1>3. Len(n) \in Nat \ {0} /\ Len(p) \in Nat
  BY <1>1
<1> DEFINE s == p \o <<Slash>>
<1>4. s \in Seq(Letters) /\ Len(s) = Len(p) + 1 /\ s[Len(p) + 1] = Slash
      /\ \A i \in 1 .. Len(p) : s[i] = p[i]
  BY <1>2
<1>5. Below(p, n) = s \o n
  BY DEF Below
<1> HIDE DEF s
<1>6. s \o n \in Seq(Letters) /\ Len(s \o n) = Len(p) + 1 + Len(n)
  BY <1>1, <1>3, <1>4
<1>7. \A i \in 1 .. Len(s) : (s \o n)[i] = s[i]
  BY <1>1, <1>3, <1>4
<1>8. \A j \in 1 .. Len(n) : (s \o n)[Len(p) + 1 + j] = n[j]
  BY <1>1, <1>3, <1>4
<1>9. (\A i \in 1 .. Len(p) : i \in 1 .. Len(s)) /\ Len(p) + 1 \in 1 .. Len(s)
  BY <1>3, <1>4
<1> QED BY <1>1, <1>3, <1>4, <1>5, <1>6, <1>7, <1>8, <1>9

\* A name adds itself to the place of its directory.
LEMMA PlaceBelow ==
  ASSUME NEW p \in Seq(Letters), NEW n \in Names
  PROVE  Place(Below(p, n)) = Below(Place(p), n)
<1> DEFINE q == Below(p, n)
           L == Len(p)
           M == Len(n)
<1>1. /\ n \in Seq(Letters) /\ M \in Nat \ {0} /\ L \in Nat
      /\ \A j \in 1 .. M : n[j] # Slash
      /\ q \in Seq(Letters) /\ Len(q) = L + 1 + M
      /\ \A i \in 1 .. L : q[i] = p[i]
      /\ q[L + 1] = Slash
      /\ \A j \in 1 .. M : q[L + 1 + j] = n[j]
  <2>1. Len(p) \in Nat
    OBVIOUS
  <2> QED BY <2>1, BelowLetters
<1>2. PICK f : Keeps(f, p, L) /\ Place(p) = f[L]
  BY PlaceKeeps
<1>3. PICK g : Keeps(g, q, Len(q)) /\ Place(q) = g[Len(q)]
  <2> HIDE DEF q
  <2> QED BY <1>1, PlaceKeeps
<1>4. Place(p) \in Seq(Letters)
  BY PlaceType
<1> DEFINE base == Append(Place(p), Slash)
<1>5. Slash \in Letters
  BY DEF Letters
<1>6. Below(Place(p), n) = base \o n /\ base \in Seq(Letters)
  <2>1. Place(p) \o <<Slash>> = Append(Place(p), Slash)
    BY <1>4, <1>5
  <2> QED BY <2>1, <1>4, <1>5 DEF Below
<1> HIDE DEF q, L, M, base
<1>7. \A k \in 0 .. L : g[k] = f[k]
  <2> DEFINE T == {k \in 0 .. L : g[k] # f[k]}
  <2>1. SUFFICES ASSUME T # {} PROVE FALSE
    OBVIOUS
  <2>2. PICK k \in T : \A j \in T : k <= j
    <3>1. T \subseteq Nat
      BY <1>1
    <3> HIDE DEF T
    <3> QED BY <2>1, <3>1, LeastNumber
  <2>3. k # 0
    BY <1>2, <1>3 DEF Keeps
  <2>4. k \in 1 .. L /\ k - 1 \in 0 .. L /\ k - 1 \notin T /\ k \in 1 .. Len(q)
    BY <1>1, <2>2, <2>3
  <2>5. g[k - 1] = f[k - 1] /\ q[k] = p[k]
    BY <1>1, <2>4
  <2>6. Dropped(p, k) <=> Dropped(q, k)
    <3>1. CASE k = L
      BY <3>1, <1>1, <2>4, <2>5 DEF Dropped, L
    <3>2. CASE k # L
      <4>1. k + 1 \in 1 .. L /\ k # Len(q)
        BY <3>2, <1>1, <2>4
      <4>2. q[k + 1] = p[k + 1]
        BY <4>1, <1>1
      <4> QED BY <3>2, <4>1, <4>2, <2>5 DEF Dropped, L
    <3> QED BY <3>1, <3>2
  <2>7. /\ f[k] = IF Dropped(p, k) THEN f[k - 1] ELSE Append(f[k - 1], p[k])
        /\ g[k] = IF Dropped(q, k) THEN g[k - 1] ELSE Append(g[k - 1], q[k])
    BY <1>2, <1>3, <2>4 DEF Keeps
  <2> QED BY <2>2, <2>5, <2>6, <2>7
<1>8. g[L + 1] = base
  <2>1. L + 1 \in 1 .. Len(q) /\ L + 1 # Len(q) /\ (L + 1) - 1 = L /\ (L + 1) + 1 = L + 1 + 1
        /\ 1 \in 1 .. M /\ L \in 0 .. L
    BY <1>1
  <2>2. q[L + 1] = Slash /\ q[(L + 1) + 1] # Slash
    BY <1>1, <2>1
  <2>3. ~Dropped(q, L + 1)
    BY <2>1, <2>2 DEF Dropped
  <2>4. g[L + 1] = Append(g[L], q[L + 1])
    BY <2>1, <2>3, <1>3 DEF Keeps
  <2> QED BY <2>1, <2>2, <2>4, <1>2, <1>7 DEF base
<1>9. \A j \in 0 .. M : g[L + 1 + j] = base \o SubSeq(n, 1, j)
  <2> DEFINE T == {j \in 0 .. M : g[L + 1 + j] # base \o SubSeq(n, 1, j)}
  <2>1. SUFFICES ASSUME T # {} PROVE FALSE
    OBVIOUS
  <2>2. PICK j \in T : \A i \in T : j <= i
    <3>1. T \subseteq Nat
      BY <1>1
    <3> HIDE DEF T
    <3> QED BY <2>1, <3>1, LeastNumber
  <2>3. j # 0
    <3>1. SubSeq(n, 1, 0) = <<>> /\ base \o <<>> = base /\ L + 1 + 0 = L + 1
      BY <1>1, <1>6
    <3>2. 0 \notin T
      BY <3>1, <1>8
    <3> QED BY <2>2, <3>2
  <2>4. j \in 1 .. M /\ j - 1 \in 0 .. M /\ j - 1 \notin T
    <3>1. j \in 0 .. M /\ M \in Nat
      BY <1>1, <2>2
    <3>2. j \in 1 .. M /\ j - 1 \in 0 .. M /\ j - 1 < j
      BY <2>3, <3>1
    <3> HIDE DEF T
    <3> QED BY <2>2, <3>2
  <2>10. L + 1 + j \in 1 .. Len(q) /\ (L + 1 + j) - 1 = L + 1 + (j - 1)
    BY <1>1, <2>4
  <2>5. q[L + 1 + j] = n[j] /\ n[j] # Slash /\ n[j] \in Letters
    BY <1>1, <2>4
  <2>6. ~Dropped(q, L + 1 + j)
    BY <2>5 DEF Dropped
  <2>7. g[L + 1 + j] = Append(g[L + 1 + (j - 1)], n[j])
    BY <2>10, <2>5, <2>6, <1>3 DEF Keeps
  <2>8. g[L + 1 + (j - 1)] = base \o SubSeq(n, 1, j - 1)
    BY <2>4
  <2>9. Append(base \o SubSeq(n, 1, j - 1), n[j]) = base \o SubSeq(n, 1, j)
    <3>1. SubSeq(n, 1, j - 1) \in Seq(Letters) /\ SubSeq(n, 1, j) = Append(SubSeq(n, 1, j - 1), n[j])
      BY <1>1, <2>4, <2>5 DEF M
    <3>2. Append(base \o SubSeq(n, 1, j - 1), n[j]) = base \o Append(SubSeq(n, 1, j - 1), n[j])
      <4> DEFINE t == SubSeq(n, 1, j - 1)
                 x == n[j]
      <4>1. t \in Seq(Letters) /\ x \in Letters
        BY <2>5, <3>1
      <4> HIDE DEF T, t, x
      <4>2. Append(base \o t, x) = base \o Append(t, x)
        BY <1>6, <4>1, AppendForms
      <4> QED BY <4>2 DEF t, x
    <3> QED BY <3>1, <3>2
  <2> QED BY <2>2, <2>7, <2>8, <2>9
<1>10. g[Len(q)] = base \o n
  <2>1. M \in 0 .. M /\ SubSeq(n, 1, M) = n
    BY <1>1 DEF M
  <2> QED BY <2>1, <1>1, <1>9
<1> QED BY <1>3, <1>6, <1>10 DEF q

LEMMA GreatestNumber ==
  ASSUME NEW n \in Nat, NEW S, S \subseteq 1 .. n, S # {}
  PROVE  \E m \in S : \A k \in S : k <= m
<1> DEFINE T == {b \in Nat : \A k \in S : k <= b}
<1>1. n \in T
  OBVIOUS
<1>2. PICK b \in T : \A k \in T : b <= k
  BY <1>1, LeastNumber
<1>3. b \in S
  <2> SUFFICES ASSUME b \notin S PROVE FALSE
    OBVIOUS
  <2>1. PICK x \in S : TRUE
    OBVIOUS
  <2>2. b - 1 \in Nat /\ x <= b
    BY <1>2, <2>1
  <2>3. \A k \in S : k <= b - 1
    BY <1>2
  <2> QED BY <1>2, <2>2, <2>3
<1> QED BY <1>2, <1>3

\* The parent of a path ends before one of its slashes.
LEMMA ParentBefore ==
  ASSUME NEW p, Len(p) \in Nat, HasParent(p)
  PROVE  ParentLength(p) \in 0 .. Len(p) - 1 /\ p[ParentLength(p) + 1] = Slash
<1> DEFINE S == SlashesOf(p)
<1>1. S \subseteq 1 .. Len(p) /\ S # {} /\ \A i \in S : p[i] = Slash
  BY DEF SlashesOf, HasParent
<1> DEFINE i == CHOOSE i \in S : \A j \in S : j <= i
<1>2. i \in S
  <2> HIDE DEF S
  <2>1. \E m \in S : \A k \in S : k <= m
    BY <1>1, GreatestNumber
  <2> QED BY <2>1
<1>3. ParentLength(p) = i - 1
  BY DEF ParentLength
<1> HIDE DEF i, S
<1> QED BY <1>1, <1>2, <1>3

--------------------------------------------------------------------------------
\* The paths that a request or the update of a tree gets to.
Known == {p \in Seq(Letters) : Reached(p)}

LEMMA RequestedIsKnown == AppPaths \subseteq Known
BY LetterSequences, PlacesAssumption DEF Known

LEMMA KnownPlace ==
  ASSUME NEW p \in Known
  PROVE  p \in Seq(Letters) /\ Place(p) \in Places
<1>1. p \in Seq(Letters) /\ Len(p) \in 0 .. Len(p) /\ SubSeq(p, 1, Len(p)) = p
  BY DEF Known
<1> QED BY <1>1 DEF Known, Reached

LEMMA BelowIsKnown ==
  ASSUME NEW p \in Known, NEW n \in Names, Below(Place(p), n) \in Places
  PROVE  Below(p, n) \in Known
<1> DEFINE q == Below(p, n)
<1>0. p \in Seq(Letters) /\ Place(p) \in Places /\ Len(p) \in Nat
  BY KnownPlace
<1>1. /\ Len(n) \in Nat \ {0} /\ \A j \in 1 .. Len(n) : n[j] # Slash
      /\ q \in Seq(Letters) /\ Len(q) = Len(p) + 1 + Len(n)
      /\ \A i \in 1 .. Len(p) : q[i] = p[i]
      /\ \A j \in 1 .. Len(n) : q[Len(p) + 1 + j] = n[j]
  BY <1>0, BelowLetters
<1>2. Place(q) \in Places
  BY <1>0, PlaceBelow
<1> HIDE DEF q
<1>3. ASSUME NEW m \in 0 .. Len(q), m = Len(q) \/ q[m + 1] = Slash
      PROVE  Place(SubSeq(q, 1, m)) \in Places
  <2>1. CASE m = Len(q)
    <3>1. SubSeq(q, 1, m) = q
      BY <1>1, <2>1
    <3> QED BY <1>2, <3>1
  <2>2. CASE m # Len(q)
    <3>1. m \in 0 .. Len(p)
      <4>1. CASE m > Len(p)
        <5>1. m - Len(p) \in 1 .. Len(n) /\ Len(p) + 1 + (m - Len(p)) = m + 1
          BY <1>0, <1>1, <2>2, <4>1
        <5>2. q[m + 1] = n[m - Len(p)] /\ n[m - Len(p)] # Slash
          BY <1>1, <5>1
        <5> QED BY <1>3, <2>2, <5>2
      <4>2. CASE ~(m > Len(p))
        BY <1>0, <4>2
      <4> QED BY <4>1, <4>2
    <3>2. SubSeq(q, 1, m) = SubSeq(p, 1, m)
      <4>1. \A i \in 1 .. m : q[i] = p[i]
        BY <1>0, <1>1, <3>1
      <4> QED BY <4>1, <1>0, <1>1, <3>1
    <3>3. m = Len(p) \/ p[m + 1] = Slash
      <4>1. CASE m # Len(p)
        <5>1. m + 1 \in 1 .. Len(p)
          BY <1>0, <3>1, <4>1
        <5> QED BY <1>1, <1>3, <2>2, <5>1
      <4> QED BY <4>1
    <3> QED BY <3>1, <3>2, <3>3 DEF Known, Reached
  <2> QED BY <2>1, <2>2
<1> QED BY <1>1, <1>3 DEF q, Known, Reached

\* The beginning of a path before a slash.
LEMMA BeginningIsKnown ==
  ASSUME NEW p \in Known, NEW m \in 0 .. Len(p), m = Len(p) \/ p[m + 1] = Slash
  PROVE  SubSeq(p, 1, m) \in Known
<1> DEFINE q == SubSeq(p, 1, m)
<1>1. p \in Seq(Letters) /\ Len(p) \in Nat
  BY DEF Known
<1>2. q \in Seq(Letters) /\ Len(q) = m /\ \A i \in 1 .. m : q[i] = p[i]
  BY <1>1
<1> HIDE DEF q
<1>3. ASSUME NEW k \in 0 .. Len(q), k = Len(q) \/ q[k + 1] = Slash
      PROVE  Place(SubSeq(q, 1, k)) \in Places
  <2>1. k \in 0 .. Len(p) /\ (k = Len(p) \/ p[k + 1] = Slash)
    <3>1. CASE k = m
      BY <3>1
    <3>2. CASE k # m
      <4>1. k + 1 \in 1 .. m /\ k \in 0 .. Len(p)
        BY <1>1, <1>2, <3>2
      <4> QED BY <1>2, <1>3, <3>2, <4>1
    <3> QED BY <3>1, <3>2
  <2>2. SubSeq(q, 1, k) = SubSeq(p, 1, k)
    BY <1>1, <1>2
  <2> QED BY <2>1, <2>2 DEF Known, Reached
<1> QED BY <1>2, <1>3 DEF q, Known, Reached

--------------------------------------------------------------------------------
(****************************************************************************)
(* What lies at a place.                                                    *)
(****************************************************************************)
FilesOf == [Places -> Nodes]
Clock == now \in 0 .. MaxTime
Flags == available \in BOOLEAN /\ mounted \in BOOLEAN /\ sync \in BOOLEAN

LEMMA NodeCases ==
  ASSUME NEW node \in Nodes
  PROVE  \/ node = None /\ node.kind = "none"
         \/ node = Dir /\ node.kind = "dir"
         \/ /\ node \in [kind : {"file", "link"}, by : {"server", "user"}, mtime : 0 .. MaxTime]
            /\ node.kind \in {"file", "link"} /\ node.by \in {"server", "user"}
BY DEF Nodes, None, Dir

LEMMA MadeType ==
  ASSUME Clock, NEW kind \in {"dir", "file", "link"}, NEW by,
         kind # "dir" => by \in {"server", "user"}
  PROVE  Made(kind, by) \in Nodes
BY DEF Made, Nodes, Clock

\* What has been made of an entry is again an entry.
LEMMA CopyType ==
  ASSUME Clock, NEW node \in Nodes, node # None
  PROVE  Made(node.kind, node.by) \in Nodes
BY NodeCases, MadeType

LEMMA TouchedType ==
  ASSUME Clock, NEW node \in Nodes
  PROVE  Touched(node) \in Nodes
<1>1. CASE node.kind = "file"
  <2>1. node \in [kind : {"file", "link"}, by : {"server", "user"}, mtime : 0 .. MaxTime]
    BY <1>1, NodeCases
  <2> QED BY <1>1, <2>1 DEF Touched, Nodes, Clock
<1>2. CASE node.kind # "file"
  BY <1>2 DEF Touched
<1> QED BY <1>1, <1>2

LEMMA PutType ==
  ASSUME NEW files \in FilesOf, NEW place, NEW node \in Nodes
  PROVE  [files EXCEPT ![place] = node] \in FilesOf
BY DEF FilesOf

LEMMA RemoteType ==
  ASSUME remote \in FilesOf, mounted \in BOOLEAN, NEW p, Place(p) \in Places
  PROVE  RemoteAt(p) \in Nodes
<1>1. None \in Nodes /\ Dir \in Nodes
  BY DEF Nodes
<1>2. CASE mounted
  BY <1>2 DEF RemoteAt, FilesOf
<1>3. CASE ~mounted /\ Place(p) = Root
  BY <1>1, <1>3 DEF RemoteAt
<1>4. CASE ~mounted /\ Place(p) # Root
  BY <1>1, <1>4 DEF RemoteAt
<1> QED BY <1>2, <1>3, <1>4

Outcomes == [files : FilesOf, ok : BOOLEAN]

\* What fetching may leave: what was there before, the server's version in its
\* place, or nothing but the exception.
LEMMA FetchedForms ==
  ASSUME NEW before, NEW f, NEW r, NEW after \in Fetched(before, f, r)
  PROVE  \/ after = before
         \/ /\ r # None /\ HasDir(before.files, f.at) /\ before.files[f.at] # Dir
            /\ after = [before EXCEPT !.files[f.at] = Made(r.kind, r.by)]
         \/ after = [before EXCEPT !.ok = FALSE]
<1>1. CASE ~before.ok
  BY <1>1 DEF Fetched
<1>2. CASE before.ok /\ LstatFails(f)
  BY <1>2 DEF Fetched
<1>3. CASE before.ok /\ ~LstatFails(f) /\ before.files[f.at] = Dir
  BY <1>3 DEF Fetched
<1>4. CASE before.ok /\ ~LstatFails(f) /\ before.files[f.at] # Dir
  BY <1>4 DEF Fetched
<1> QED BY <1>1, <1>2, <1>3, <1>4

LEMMA FetchedType ==
  ASSUME Clock, NEW before \in Outcomes, NEW f, NEW r \in Nodes
  PROVE  Fetched(before, f, r) \subseteq Outcomes
<1> SUFFICES ASSUME NEW after \in Fetched(before, f, r) PROVE after \in Outcomes
  OBVIOUS
<1> DEFINE put == [before.files EXCEPT ![f.at] = Made(r.kind, r.by)]
<1>1. r # None => put \in FilesOf
  <2> SUFFICES ASSUME r # None PROVE put \in FilesOf
    OBVIOUS
  <2>1. Made(r.kind, r.by) \in Nodes
    BY CopyType
  <2>2. before.files \in FilesOf
    BY DEF Outcomes
  <2> QED BY <2>1, <2>2, PutType
<1>2. [before EXCEPT !.files[f.at] = Made(r.kind, r.by)] = [before EXCEPT !.files = put]
  BY DEF Outcomes
<1> HIDE DEF put
<1>3. r # None => [before EXCEPT !.files = put] \in Outcomes
  BY <1>1 DEF Outcomes
<1>4. [before EXCEPT !.ok = FALSE] \in Outcomes
  BY DEF Outcomes
<1>5. \/ after = before
      \/ r # None /\ after = [before EXCEPT !.files[f.at] = Made(r.kind, r.by)]
      \/ after = [before EXCEPT !.ok = FALSE]
  BY FetchedForms
<1> QED BY <1>2, <1>3, <1>4, <1>5

(****************************************************************************)
(* update_cache, along the parents of a path.                               *)
(****************************************************************************)
Unfetched == [files |-> cache, ok |-> TRUE]
\* The File of the first n letters: f itself, or one that is built for a parent.
FileOfFirst(f, n) == IF n = Len(f.path) THEN f ELSE FileOf(SubSeq(f.path, 1, n))
BeforeIt(F, f, n) ==
  LET g == FileOfFirst(f, n) IN
  IF NeedsParent(g) THEN F[ParentLength(g.path)] ELSE {Unfetched}
OutcomesAt(F, f, n) ==
  LET g == FileOfFirst(f, n) IN
  IF Updates(g, RemoteAt(g.path))
  THEN UNION {Fetched(before, g, RemoteAt(g.path)) : before \in BeforeIt(F, f, n)}
  ELSE {Unfetched}
Follows(F, f, n) == \A k \in 0 .. n : F[k] = OutcomesAt(F, f, k)

LEMMA FirstLetters ==
  ASSUME NEW f, NEW L \in Nat, f.path \in Seq(Letters), Len(f.path) = L, NEW k \in 0 .. L
  PROVE  FileOfFirst(f, k).path = SubSeq(f.path, 1, k)
<1>1. CASE k = L
  BY <1>1 DEF FileOfFirst
<1>2. CASE k # L
  BY <1>2 DEF FileOfFirst, FileOf
<1> QED BY <1>1, <1>2

\* The outcome for a path asks only for that of a shorter one.
LEMMA OutcomesOfShorter ==
  ASSUME NEW f, NEW L \in Nat, f.path \in Seq(Letters), Len(f.path) = L, NEW k \in 0 .. L,
         NEW F, NEW G, \A i \in 0 .. k - 1 : F[i] = G[i]
  PROVE  OutcomesAt(F, f, k) = OutcomesAt(G, f, k)
<1> DEFINE g == FileOfFirst(f, k)
<1>1. NeedsParent(g) => HasParent(g.path)
  BY DEF NeedsParent
<1>2. g.path = SubSeq(f.path, 1, k) /\ Len(g.path) = k
  <2>1. Len(SubSeq(f.path, 1, k)) = k
    OBVIOUS
  <2> QED BY <2>1, FirstLetters
<1>3. NeedsParent(g) => ParentLength(g.path) \in 0 .. k - 1
  <2> HIDE DEF g
  <2> SUFFICES ASSUME HasParent(g.path) PROVE ParentLength(g.path) \in 0 .. k - 1
    BY <1>1
  <2>1. Len(g.path) \in Nat
    BY <1>2
  <2>2. ParentLength(g.path) \in 0 .. Len(g.path) - 1
    BY <2>1, ParentBefore
  <2> QED BY <1>2, <2>2
<1>4. BeforeIt(F, f, k) = BeforeIt(G, f, k)
  BY <1>3 DEF BeforeIt
<1> QED BY <1>4 DEF OutcomesAt

LEMMA FollowsExists ==
  ASSUME NEW f, NEW L \in Nat, f.path \in Seq(Letters), Len(f.path) = L, NEW n \in 0 .. L
  PROVE  \E F : Follows(F, f, n)
<1> DEFINE T == {m \in 0 .. L : ~ \E F : Follows(F, f, m)}
<1>1. 0 \notin T
  <2> DEFINE H == [k \in {0} |-> OutcomesAt(<<>>, f, 0)]
  <2>1. H[0] = OutcomesAt(<<>>, f, 0)
    OBVIOUS
  <2> HIDE DEF H
  <2>2. OutcomesAt(<<>>, f, 0) = OutcomesAt(H, f, 0)
    <3>1. 0 \in 0 .. L /\ \A i \in 0 .. 0 - 1 : <<>>[i] = H[i]
      OBVIOUS
    <3> QED BY <3>1, OutcomesOfShorter
  <2>3. Follows(H, f, 0)
    BY <2>1, <2>2 DEF Follows
  <2> QED BY <2>3
<1>2. T = {}
  <2> SUFFICES ASSUME T # {} PROVE FALSE
    OBVIOUS
  <2>1. PICK m \in T : \A k \in T : m <= k
    <3>1. T \subseteq Nat
      OBVIOUS
    <3> HIDE DEF T
    <3> QED BY <3>1, LeastNumber
  <2>2. m \in 1 .. L
    BY <1>1
  <2>3. m - 1 \in 0 .. L /\ m - 1 \notin T
    BY <2>1, <2>2
  <2>4. PICK F : Follows(F, f, m - 1)
    BY <2>3
  <2> DEFINE H == [k \in 0 .. m |-> IF k < m THEN F[k] ELSE OutcomesAt(F, f, m)]
  <2>5. H[m] = OutcomesAt(F, f, m) /\ \A i \in 0 .. m - 1 : H[i] = F[i]
    BY <2>2
  <2> HIDE DEF H, T
  <2>6. \A k \in 0 .. m : OutcomesAt(H, f, k) = OutcomesAt(F, f, k)
    <3> SUFFICES ASSUME NEW k \in 0 .. m PROVE OutcomesAt(H, f, k) = OutcomesAt(F, f, k)
      OBVIOUS
    <3>1. k \in 0 .. L /\ \A i \in 0 .. k - 1 : H[i] = F[i]
      BY <2>2, <2>5
    <3> QED BY <3>1, OutcomesOfShorter
  <2>7. \A k \in 0 .. m : k = m \/ k \in 0 .. m - 1
    BY <2>2
  <2>8. \A k \in 0 .. m - 1 : k \in 0 .. m /\ F[k] = OutcomesAt(F, f, k)
    BY <2>2, <2>4 DEF Follows
  <2>9. Follows(H, f, m)
    BY <2>5, <2>6, <2>7, <2>8 DEF Follows
  <2> QED BY <2>1, <2>9 DEF T
<1> QED BY <1>2

LEMMA UpdateFollows ==
  ASSUME NEW f, NEW L \in Nat, f.path \in Seq(Letters), Len(f.path) = L
  PROVE  \E F : Follows(F, f, L) /\ update_cache(f) = F[L]
<1> DEFINE Iter(H) == H = [n \in 0 .. L |-> OutcomesAt(H, f, n)]
           H == CHOOSE H : Iter(H)
<1>1. update_cache(f) = H[L]
  BY DEF update_cache, OutcomesAt, BeforeIt, FileOfFirst, Unfetched
<1>2. PICK F : Follows(F, f, L)
  <2>1. L \in 0 .. L
    OBVIOUS
  <2> QED BY <2>1, FollowsExists
<1>3. Iter([n \in 0 .. L |-> F[n]])
  <2> DEFINE G == [n \in 0 .. L |-> F[n]]
  <2>1. ASSUME NEW n \in 0 .. L PROVE G[n] = OutcomesAt(G, f, n)
    <3>1. G[n] = F[n] /\ \A i \in 0 .. n - 1 : G[i] = F[i]
      OBVIOUS
    <3> HIDE DEF G
    <3>2. OutcomesAt(G, f, n) = OutcomesAt(F, f, n)
      BY <3>1, OutcomesOfShorter
    <3> QED BY <1>2, <3>1, <3>2 DEF Follows
  <2> QED BY <2>1
<1>4. Iter(H)
  <2> HIDE DEF Iter
  <2> QED BY <1>3
<1>5. Follows(H, f, L)
  <2> HIDE DEF H
  <2>1. \A n \in 0 .. L : H[n] = OutcomesAt(H, f, n)
    BY <1>4
  <2> QED BY <2>1 DEF Follows
<1> QED BY <1>1, <1>5

\* The files that are looked at on the way: f itself and those of its parents.
OnTheWay(f) ==
  {FileOfFirst(f, k) : k \in {n \in 0 .. Len(f.path) : n = Len(f.path) \/ f.path[n + 1] = Slash}}

LEMMA WayIsKnown ==
  ASSUME NEW f, f.path \in Known, NEW g \in OnTheWay(f)
  PROVE  g.path \in Known
<1>1. PICK k \in 0 .. Len(f.path) : /\ k = Len(f.path) \/ f.path[k + 1] = Slash
                                    /\ g = FileOfFirst(f, k)
  BY DEF OnTheWay
<1>2. f.path \in Seq(Letters) /\ Len(f.path) \in Nat
  BY KnownPlace
<1>3. g.path = SubSeq(f.path, 1, k)
  BY <1>1, <1>2, FirstLetters
<1>4. SubSeq(f.path, 1, k) \in Known
  BY <1>1, BeginningIsKnown
<1> QED BY <1>3, <1>4

\* Where the parts of a path end that are looked at.
StopsAt(f, k) == k \in 0 .. Len(f.path) /\ (k = Len(f.path) \/ f.path[k + 1] = Slash)

\* What is fetched before the file of a part comes from a shorter part.
LEMMA BeforeWithin ==
  ASSUME NEW f, f.path \in Known, NEW F, NEW X, Unfetched \in X,
         NEW k \in 0 .. Len(f.path), StopsAt(f, k),
         \A m \in 0 .. Len(f.path) : m < k /\ StopsAt(f, m) => F[m] \subseteq X
  PROVE  BeforeIt(F, f, k) \subseteq X
<1> DEFINE L == Len(f.path)
           g == FileOfFirst(f, k)
           m == ParentLength(g.path)
<1>0. f.path \in Seq(Letters) /\ L \in Nat
  BY KnownPlace
<1>1. CASE ~NeedsParent(g)
  BY <1>1 DEF BeforeIt
<1>2. CASE NeedsParent(g)
  <2>1. g.path = SubSeq(f.path, 1, k)
    <3> HIDE DEF L
    <3> QED BY <1>0, FirstLetters DEF L
  <2>2. HasParent(g.path) /\ Len(g.path) = k /\ Len(g.path) \in Nat
    <3>1. HasParent(g.path)
      BY <1>2 DEF NeedsParent
    <3>2. Len(SubSeq(f.path, 1, k)) = k
      BY <1>0
    <3> HIDE DEF g
    <3> QED BY <2>1, <3>1, <3>2
  <2>3. m \in 0 .. k - 1 /\ g.path[m + 1] = Slash
    <3> HIDE DEF g
    <3>1. m \in 0 .. Len(g.path) - 1 /\ g.path[m + 1] = Slash
      BY <2>2, ParentBefore
    <3> QED BY <2>2, <3>1
  <2> HIDE DEF g, m
  <2>4. m + 1 \in 1 .. k /\ m \in 0 .. L /\ m < k
    BY <1>0, <2>3
  <2>5. f.path[m + 1] = Slash
    <3>1. SubSeq(f.path, 1, k)[m + 1] = f.path[m + 1]
      BY <1>0, <2>4
    <3> QED BY <2>1, <2>3, <3>1
  <2>6. F[m] \subseteq X
    BY <2>4, <2>5 DEF StopsAt
  <2>7. BeforeIt(F, f, k) = F[m]
    BY <1>2 DEF BeforeIt, g, m
  <2> QED BY <2>6, <2>7
<1> QED BY <1>1, <1>2

LEMMA OutcomesWithin ==
  ASSUME NEW f, f.path \in Known, NEW F, Follows(F, f, Len(f.path)), NEW X, Unfetched \in X,
         \A g \in OnTheWay(f) : Updates(g, RemoteAt(g.path)) =>
           \A before \in X : Fetched(before, g, RemoteAt(g.path)) \subseteq X
  PROVE  \A k \in 0 .. Len(f.path) : StopsAt(f, k) => F[k] \subseteq X
<1> DEFINE L == Len(f.path)
           T == {k \in 0 .. L : StopsAt(f, k) /\ ~(F[k] \subseteq X)}
<1>1. SUFFICES ASSUME T # {} PROVE FALSE
  OBVIOUS
<1>2. PICK k \in T : \A j \in T : k <= j
  <2>1. f.path \in Seq(Letters) /\ T \subseteq Nat
    BY KnownPlace
  <2> HIDE DEF T
  <2> QED BY <1>1, <2>1, LeastNumber
<1> DEFINE g == FileOfFirst(f, k)
           r == RemoteAt(g.path)
<1>3. k \in 0 .. L /\ StopsAt(f, k) /\ F[k] = OutcomesAt(F, f, k)
  BY <1>2 DEF Follows
<1>4. g \in OnTheWay(f)
  BY <1>3 DEF OnTheWay, StopsAt
<1>5. BeforeIt(F, f, k) \subseteq X
  <2>1. ASSUME NEW m \in 0 .. L, m < k, StopsAt(f, m) PROVE F[m] \subseteq X
    <3>1. m \notin T
      <4>1. k \in Nat /\ m \in Nat
        BY <1>3
      <4> HIDE DEF T
      <4> QED BY <1>2, <2>1, <4>1
    <3> QED BY <2>1, <3>1
  <2> QED BY <1>3, <2>1, BeforeWithin
<1>6. OutcomesAt(F, f, k) \subseteq X
  <2>1. CASE ~Updates(g, r)
    BY <2>1 DEF OutcomesAt
  <2>2. CASE Updates(g, r)
    <3>1. OutcomesAt(F, f, k) = UNION {Fetched(before, g, r) : before \in BeforeIt(F, f, k)}
      BY <2>2 DEF OutcomesAt
    <3>2. \A before \in X : Fetched(before, g, r) \subseteq X
      BY <1>4, <2>2
    <3> HIDE DEF g, r
    <3> QED BY <1>5, <3>1, <3>2
  <2> QED BY <2>1, <2>2
<1> QED BY <1>2, <1>3, <1>6

\* What holds of the cache as it is, and after each fetch on the way if before it,
\* holds of what update_cache leaves, and of what it finds when it comes to the file.
LEMMA UpdateWithin ==
  ASSUME NEW f, f.path \in Known, NEW X, Unfetched \in X,
         \A g \in OnTheWay(f) : Updates(g, RemoteAt(g.path)) =>
           \A before \in X : Fetched(before, g, RemoteAt(g.path)) \subseteq X
  PROVE  /\ update_cache(f) \subseteq X
         /\ Updates(f, RemoteAt(f.path)) =>
              \A u \in update_cache(f) : \E before \in X : u \in Fetched(before, f, RemoteAt(f.path))
<1> DEFINE L == Len(f.path)
<1>0. f.path \in Seq(Letters) /\ L \in Nat /\ L \in 0 .. L /\ StopsAt(f, L)
  BY KnownPlace DEF StopsAt
<1>1. PICK F : Follows(F, f, L) /\ update_cache(f) = F[L]
  <2> HIDE DEF L
  <2> QED BY <1>0, UpdateFollows DEF L
<1>2. \A k \in 0 .. L : StopsAt(f, k) => F[k] \subseteq X
  BY <1>1, OutcomesWithin
<1>3. BeforeIt(F, f, L) \subseteq X
  BY <1>0, <1>2, BeforeWithin
<1>4. Updates(f, RemoteAt(f.path)) =>
        F[L] = UNION {Fetched(before, f, RemoteAt(f.path)) : before \in BeforeIt(F, f, L)}
  BY <1>0, <1>1 DEF Follows, OutcomesAt, FileOfFirst
<1> HIDE DEF L
<1> QED BY <1>0, <1>1, <1>2, <1>3, <1>4

\* What update_cache leaves is a cache, and it says whether it has failed.
LEMMA UpdateType ==
  ASSUME cache \in FilesOf, remote \in FilesOf, Clock, Flags,
         NEW f, f.path \in Known, NEW u \in update_cache(f)
  PROVE  u \in Outcomes
<1>1. Unfetched \in Outcomes
  BY DEF Unfetched, Outcomes
<1>2. ASSUME NEW g \in OnTheWay(f), NEW before \in Outcomes
      PROVE  Fetched(before, g, RemoteAt(g.path)) \subseteq Outcomes
  <2>1. Place(g.path) \in Places
    BY WayIsKnown, KnownPlace
  <2>2. RemoteAt(g.path) \in Nodes
    BY <2>1, RemoteType DEF Flags
  <2> QED BY <2>2, FetchedType
<1> QED BY <1>1, <1>2, UpdateWithin

--------------------------------------------------------------------------------
(****************************************************************************)
(* The types of the whole.                                                  *)
(****************************************************************************)
\* What a request and what the update of a tree may have in hand.
Files == [path : AppPaths, offline : BOOLEAN, avail : BOOLEAN, at : Places]
WalkFiles == [path : Known, offline : BOOLEAN, avail : BOOLEAN, at : Seq(Letters)]
Ops == {"mkdir", "mknod", "symlink", "rmdir", "link", "chmod", "chown", "utimens", "readlink"}
Calls ==
  {NoReq} \cup [op : Ops, file : Files, to : Files]
          \cup [op : {"setxattr"}, file : Files, version : Versions]
Walks ==
  {AtRest} \cup [pc : {"visit"}, todo : SUBSET Known]
           \cup [pc : {"list"}, todo : SUBSET Known, file : WalkFiles]
           \cup [pc : {"fetch"}, todo : SUBSET Known, file : WalkFiles,
                 left : SUBSET Names, subdirs : SUBSET Names, files : SUBSET Names]

\* The names that are read in a directory are of places below it.
NamesHavePlaces ==
  walk.pc = "fetch" =>
    \A n \in walk.left \cup walk.subdirs : Below(Place(walk.file.path), n) \in Places

PartsOK ==
  /\ ShareTypeOK
  /\ req \in Calls
  /\ walk \in Walks /\ NamesHavePlaces
  /\ calm \in {"no", "mixed", "alike"}

LEMMA InTreeType ==
  ASSUME NEW p
  PROVE  InTree(p) \in BOOLEAN /\ (InTree(p) => TreeOf(p) \in trees /\ Begins(TreeOf(p), p))
BY DEF InTree, TreeOf

LEMMA FileOfType ==
  ASSUME trees \subseteq AppPaths, available \in BOOLEAN, NEW p \in AppPaths
  PROVE  FileOf(p) \in Files /\ FileOf(p).path = p
<1>1. Place(IF InTree(p) THEN CachePath(TreeOf(p), p) ELSE p) \in Places
  <2>1. CASE InTree(p)
    BY <2>1, InTreeType, PlacesAssumption
  <2>2. CASE ~InTree(p)
    BY <2>2 DEF Places
  <2> QED BY <2>1, <2>2
<1>2. InTree(p) \in BOOLEAN
  BY InTreeType
<1> QED BY <1>1, <1>2 DEF FileOf, Files

LEMMA CachePathType ==
  ASSUME NEW t \in Seq(Letters), NEW p \in Seq(Letters), Begins(t, p)
  PROVE  CachePath(t, p) \in Seq(Letters)
<1>1. Slash \in Letters
  BY DEF Letters
<1>2. Len(t) \in Nat /\ Len(p) \in Nat /\ Len(t) <= Len(p)
  BY DEF Begins
<1>3. SubSeq(p, Len(t) + 1, Len(p)) \in Seq(Letters)
  BY <1>2
<1>4. \A s \in Seq(Letters) : t \o <<Slash>> \o s \in Seq(Letters)
  BY <1>1
<1> QED BY <1>3, <1>4 DEF CachePath, Below

LEMMA WalkFileType ==
  ASSUME trees \subseteq AppPaths, available \in BOOLEAN, NEW p \in Known
  PROVE  FileOf(p) \in WalkFiles /\ FileOf(p).path = p
<1>1. Place(IF InTree(p) THEN CachePath(TreeOf(p), p) ELSE p) \in Seq(Letters)
  <2>0. p \in Seq(Letters)
    BY KnownPlace
  <2>1. CASE InTree(p)
    <3>1. TreeOf(p) \in Seq(Letters) /\ Begins(TreeOf(p), p)
      BY <2>1, InTreeType, LetterSequences
    <3>2. CachePath(TreeOf(p), p) \in Seq(Letters)
      BY <2>0, <3>1, CachePathType
    <3> QED BY <2>1, <3>2, PlaceType
  <2>2. CASE ~InTree(p)
    BY <2>0, <2>2, PlaceType
  <2> QED BY <2>1, <2>2
<1>2. InTree(p) \in BOOLEAN
  BY InTreeType
<1> QED BY <1>1, <1>2 DEF FileOf, WalkFiles

LEMMA CallCases ==
  ASSUME req \in Calls, req.op # "none"
  PROVE  /\ req.file \in Files /\ req.file.path \in AppPaths /\ req.file.path \in Known
         /\ req.op = "link" => req.to \in Files
BY RequestedIsKnown DEF Calls, NoReq, Files, Ops

LEMMA NodesOfPlaces == None \in Nodes /\ Dir \in Nodes
BY DEF Nodes

\* What a change of the log leaves.
LEMMA LogChangeType ==
  ASSUME ShareTypeOK, NEW p \in AppPaths, NEW type \in Types, LogChange(p, type)
  PROVE  log' \in [AppPaths -> Types \cup {"none"}] /\ sync' \in BOOLEAN
<1>1. MergeTypes(log[p], type) \in Types \cup {"none"}
  BY DEF MergeTypes, Types
<1> QED BY <1>1 DEF LogChange, ShareTypeOK

LEMMA ChangeRemoteType ==
  ASSUME ShareTypeOK, NEW f, NEW node \in Nodes, ChangeRemote(f, node)
  PROVE  remote' \in FilesOf
<1>1. remote \in FilesOf
  BY DEF ShareTypeOK, FilesOf
<1>2. [remote EXCEPT ![Place(f.path)] = node] \in FilesOf
  BY <1>1, PutType
<1> QED BY <1>1, <1>2 DEF ChangeRemote

LEMMA ThroughType ==
  ASSUME ShareTypeOK, NEW u \in Outcomes, NEW f \in Files, NEW node \in Nodes,
         NEW type \in Types, Through(u, f, node, type)
  PROVE  /\ cache' \in FilesOf /\ remote' \in FilesOf
         /\ log' \in [AppPaths -> Types \cup {"none"}] /\ sync' \in BOOLEAN
<1>0. u.files \in FilesOf /\ f.path \in AppPaths /\ remote \in FilesOf
      /\ log \in [AppPaths -> Types \cup {"none"}] /\ sync \in BOOLEAN
  BY DEF Outcomes, Files, ShareTypeOK, FilesOf
<1>1. [u.files EXCEPT ![f.at] = node] \in FilesOf
  BY <1>0, PutType
<1>2. CASE u.ok /\ f.offline /\ Able(u.files, f.at, node)
  <2>1. /\ cache' = [u.files EXCEPT ![f.at] = node]
        /\ LogChange(f.path, type) /\ remote' = remote
    BY <1>2 DEF Through
  <2> QED BY <1>0, <1>1, <2>1, LogChangeType
<1>3. CASE u.ok /\ ~f.offline
  <2>1. cache' = u.files /\ ChangeRemote(f, node) /\ log' = log /\ sync' = sync
    BY <1>3 DEF Through
  <2> QED BY <1>0, <2>1, ChangeRemoteType
<1>4. CASE ~(u.ok /\ f.offline /\ Able(u.files, f.at, node)) /\ ~(u.ok /\ ~f.offline)
  <2>1. cache' = u.files /\ remote' = remote /\ log' = log /\ sync' = sync
    BY <1>4 DEF Through
  <2> QED BY <1>0, <2>1
<1> QED BY <1>2, <1>3, <1>4

\* An operation leaves the flags, the conflicts and the clock alone.
LEMMA OperationType ==
  ASSUME ShareTypeOK, cache' \in FilesOf, remote' \in FilesOf,
         log' \in [AppPaths -> Types \cup {"none"}], sync' \in BOOLEAN,
         based' \subseteq AppPaths,
         UNCHANGED <<available, mounted, conflicts, now>>
  PROVE  ShareTypeOK'
BY DEF ShareTypeOK, FilesOf

LEMMA UpdateInRequest ==
  ASSUME PartsOK, req.op # "none", NEW u \in update_cache(req.file)
  PROVE  u \in Outcomes /\ u.files \in FilesOf /\ u.ok \in BOOLEAN
<1>1. cache \in FilesOf /\ remote \in FilesOf /\ Clock /\ Flags
  BY DEF PartsOK, ShareTypeOK, FilesOf, Clock, Flags
<1>2. req.file.path \in Known
  BY CallCases DEF PartsOK
<1>3. u \in Outcomes
  BY <1>1, <1>2, UpdateType
<1> QED BY <1>3 DEF Outcomes

LEMMA MkdirType == ASSUME PartsOK, op_mkdir PROVE ShareTypeOK'
<1>1. PICK u \in update_cache(req.file) : Through(u, req.file, Dir, "c")
  BY DEF op_mkdir
<1>2. req.op = "mkdir" /\ UNCHANGED <<available, mounted, based, conflicts, now>>
  BY DEF op_mkdir, Runs
<1>3. u \in Outcomes /\ req.file \in Files /\ ShareTypeOK /\ "c" \in Types
  BY <1>2, UpdateInRequest, CallCases DEF PartsOK, Types
<1>4. /\ cache' \in FilesOf /\ remote' \in FilesOf
      /\ log' \in [AppPaths -> Types \cup {"none"}] /\ sync' \in BOOLEAN
  BY <1>1, <1>3, NodesOfPlaces, ThroughType
<1>5. based' \subseteq AppPaths
  BY <1>2, <1>3 DEF ShareTypeOK
<1> QED BY <1>2, <1>3, <1>4, <1>5, OperationType

LEMMA MknodType == ASSUME PartsOK, op_mknod PROVE ShareTypeOK'
<1>1. PICK u \in update_cache(req.file) :
        IF u.ok /\ req.file.offline /\ ~CanMake(u.files, req.file.at)
        THEN cache' = u.files /\ LogChange(req.file.path, "c") /\ UNCHANGED remote
        ELSE Through(u, req.file, Made("file", "user"), "c")
  BY DEF op_mknod
<1>2. req.op = "mknod" /\ UNCHANGED <<available, mounted, based, conflicts, now>>
  BY DEF op_mknod, Runs
<1>3. /\ u \in Outcomes /\ u.files \in FilesOf /\ req.file \in Files /\ req.file.path \in AppPaths
      /\ ShareTypeOK /\ "c" \in Types /\ Clock
  BY <1>2, UpdateInRequest, CallCases DEF PartsOK, Types, Clock, ShareTypeOK
<1>4. Made("file", "user") \in Nodes
  BY <1>3, MadeType
<1>5. /\ cache' \in FilesOf /\ remote' \in FilesOf
      /\ log' \in [AppPaths -> Types \cup {"none"}] /\ sync' \in BOOLEAN
  <2>1. CASE u.ok /\ req.file.offline /\ ~CanMake(u.files, req.file.at)
    <3>1. cache' = u.files /\ LogChange(req.file.path, "c") /\ remote' = remote
      BY <1>1, <2>1
    <3>2. remote \in FilesOf
      BY <1>3 DEF ShareTypeOK, FilesOf
    <3> QED BY <1>3, <3>1, <3>2, LogChangeType
  <2>2. CASE ~(u.ok /\ req.file.offline /\ ~CanMake(u.files, req.file.at))
    <3>1. Through(u, req.file, Made("file", "user"), "c")
      BY <1>1, <2>2
    <3> QED BY <3>1, <1>3, <1>4, ThroughType
  <2> QED BY <2>1, <2>2
<1>6. based' \subseteq AppPaths
  BY <1>2, <1>3 DEF ShareTypeOK
<1> QED BY <1>2, <1>3, <1>5, <1>6, OperationType

LEMMA RmdirType == ASSUME PartsOK, op_rmdir PROVE ShareTypeOK'
<1>1. PICK u \in update_cache(req.file) :
        /\ IF u.ok THEN savemtime(req.file) ELSE UNCHANGED based
        /\ Through(u, req.file, None, "d")
  BY DEF op_rmdir
<1>2. req.op = "rmdir" /\ UNCHANGED <<available, mounted, conflicts, now>>
  BY DEF op_rmdir, Runs
<1>3. /\ u \in Outcomes /\ req.file \in Files /\ req.file.path \in AppPaths
      /\ ShareTypeOK /\ "d" \in Types
  BY <1>2, UpdateInRequest, CallCases DEF PartsOK, Types
<1>4. /\ cache' \in FilesOf /\ remote' \in FilesOf
      /\ log' \in [AppPaths -> Types \cup {"none"}] /\ sync' \in BOOLEAN
  BY <1>1, <1>3, NodesOfPlaces, ThroughType
<1>5. based' = based \/ based' = based \cup {req.file.path}
  BY <1>1 DEF savemtime
<1>6. based' \subseteq AppPaths
  BY <1>3, <1>5 DEF ShareTypeOK
<1> QED BY <1>2, <1>3, <1>4, <1>6, OperationType

LEMMA SymlinkType == ASSUME PartsOK, op_symlink PROVE ShareTypeOK'
<1> DEFINE f == req.file
           link == Made("link", "user")
<1>1. /\ IF f.offline
         THEN /\ cache' = IF CanMake(cache, f.at) THEN [cache EXCEPT ![f.at] = link] ELSE cache
              /\ remote' = remote
         ELSE ChangeRemote(f, link) /\ cache' = cache
      /\ UNCHANGED <<log, sync, available, mounted, based, conflicts, now>>
  BY DEF op_symlink
<1>2. ShareTypeOK /\ Clock /\ cache \in FilesOf /\ remote \in FilesOf
      /\ log \in [AppPaths -> Types \cup {"none"}] /\ sync \in BOOLEAN /\ based \subseteq AppPaths
  BY DEF PartsOK, ShareTypeOK, Clock, FilesOf
<1>3. link \in Nodes
  BY <1>2, MadeType
<1>4. [cache EXCEPT ![f.at] = link] \in FilesOf
  BY <1>2, <1>3, PutType
<1> HIDE DEF f, link
<1>5. cache' \in FilesOf
  BY <1>1, <1>2, <1>4
<1>6. remote' \in FilesOf
  BY <1>1, <1>2, <1>3, ChangeRemoteType
<1> QED BY <1>1, <1>2, <1>5, <1>6, OperationType

LEMMA LinkType == ASSUME PartsOK, op_link PROVE ShareTypeOK'
<1> DEFINE f == req.file
           to == req.to
<1>1. PICK u \in update_cache(f) :
        CASE /\ u.ok /\ f.offline
             /\ u.files[f.at].kind \in {"file", "link"} /\ CanMake(u.files, to.at) ->
               /\ cache' = [u.files EXCEPT ![to.at] = u.files[f.at]]
               /\ LogChange(f.path, "c")
               /\ UNCHANGED remote
          [] u.ok /\ ~f.offline /\ f.avail /\ RemoteAt(f.path).kind \in {"file", "link"} ->
               /\ cache' = u.files
               /\ ChangeRemote(to, RemoteAt(f.path))
               /\ UNCHANGED <<log, sync>>
          [] OTHER -> cache' = u.files /\ UNCHANGED <<remote, log, sync>>
  BY DEF op_link
<1>2. req.op = "link" /\ UNCHANGED <<available, mounted, based, conflicts, now>>
  BY DEF op_link, Runs
<1>3. /\ u \in Outcomes /\ u.files \in FilesOf /\ f \in Files /\ f.path \in AppPaths
      /\ f.path \in Known /\ ShareTypeOK /\ "c" \in Types
  BY <1>2, UpdateInRequest, CallCases DEF PartsOK, Types
<1>4. remote \in FilesOf /\ log \in [AppPaths -> Types \cup {"none"}] /\ sync \in BOOLEAN
      /\ mounted \in BOOLEAN /\ based \subseteq AppPaths
  BY <1>3 DEF ShareTypeOK, FilesOf
<1>5. RemoteAt(f.path) \in Nodes
  <2>1. Place(f.path) \in Places
    BY <1>3, KnownPlace
  <2> QED BY <2>1, <1>4, RemoteType
<1>6. u.files[f.at] \in Nodes
  BY <1>3 DEF Files, FilesOf
<1>7. [u.files EXCEPT ![to.at] = u.files[f.at]] \in FilesOf
  BY <1>3, <1>6, PutType
<1> HIDE DEF f, to
<1>8. /\ cache' \in FilesOf /\ remote' \in FilesOf
      /\ log' \in [AppPaths -> Types \cup {"none"}] /\ sync' \in BOOLEAN
  <2>1. CASE /\ u.ok /\ f.offline
             /\ u.files[f.at].kind \in {"file", "link"} /\ CanMake(u.files, to.at)
    <3>1. /\ cache' = [u.files EXCEPT ![to.at] = u.files[f.at]]
          /\ LogChange(f.path, "c") /\ remote' = remote
      BY <1>1, <2>1
    <3> QED BY <1>3, <1>4, <1>7, <3>1, LogChangeType
  <2>2. CASE u.ok /\ ~f.offline /\ f.avail /\ RemoteAt(f.path).kind \in {"file", "link"}
    <3>1. cache' = u.files /\ ChangeRemote(to, RemoteAt(f.path)) /\ log' = log /\ sync' = sync
      BY <1>1, <2>2
    <3> QED BY <1>3, <1>4, <1>5, <3>1, ChangeRemoteType
  <2>3. CASE /\ ~(/\ u.ok /\ f.offline
                  /\ u.files[f.at].kind \in {"file", "link"} /\ CanMake(u.files, to.at))
             /\ ~(u.ok /\ ~f.offline /\ f.avail /\ RemoteAt(f.path).kind \in {"file", "link"})
    <3>1. cache' = u.files /\ remote' = remote /\ log' = log /\ sync' = sync
      BY <1>1, <2>3
    <3> QED BY <1>3, <1>4, <3>1
  <2> QED BY <2>1, <2>2, <2>3
<1>9. based' \subseteq AppPaths
  BY <1>2, <1>4
<1> QED BY <1>2, <1>3, <1>8, <1>9, OperationType

LEMMA ChangesModeType ==
  ASSUME PartsOK, NEW op, ChangesMode(op), op # "none"
  PROVE  ShareTypeOK'
<1>1. PICK u \in update_cache(req.file) :
        cache' = u.files /\ sync' = (sync /\ ~(u.ok /\ req.file.offline))
  BY DEF ChangesMode
<1>2. /\ req.op # "none"
      /\ UNCHANGED <<remote, log, available, mounted, based, conflicts, now>>
  BY DEF ChangesMode, Runs
<1>3. u.files \in FilesOf /\ ShareTypeOK
  BY <1>2, UpdateInRequest DEF PartsOK
<1>4. sync' \in BOOLEAN
  BY <1>1
<1>5. /\ remote' \in FilesOf /\ log' \in [AppPaths -> Types \cup {"none"}]
      /\ based' \subseteq AppPaths
  BY <1>2, <1>3 DEF ShareTypeOK, FilesOf
<1> QED BY <1>1, <1>2, <1>3, <1>4, <1>5, OperationType

LEMMA UtimensType == ASSUME PartsOK, op_utimens PROVE ShareTypeOK'
<1> DEFINE f == req.file
           there == Place(f.path)
<1>1. PICK u \in update_cache(f) :
        /\ cache' = IF u.ok /\ f.offline
                    THEN [u.files EXCEPT ![f.at] = Touched(@)] ELSE u.files
        /\ remote' = IF u.ok /\ OnServer(f)
                     THEN [remote EXCEPT ![there] = Touched(@)] ELSE remote
  BY DEF op_utimens
<1>2. /\ req.op = "utimens"
      /\ UNCHANGED <<log, sync, available, mounted, based, conflicts, now>>
  BY DEF op_utimens, Runs
<1>3. /\ u.files \in FilesOf /\ f \in Files /\ f.path \in Known
      /\ ShareTypeOK /\ Clock /\ remote \in FilesOf
      /\ log \in [AppPaths -> Types \cup {"none"}] /\ sync \in BOOLEAN /\ based \subseteq AppPaths
  BY <1>2, UpdateInRequest, CallCases DEF PartsOK, Clock, ShareTypeOK, FilesOf
<1>4. u.files[f.at] \in Nodes /\ remote[there] \in Nodes
  BY <1>3, KnownPlace DEF Files, FilesOf
<1>5. Touched(u.files[f.at]) \in Nodes /\ Touched(remote[there]) \in Nodes
  BY <1>3, <1>4, TouchedType
<1> HIDE DEF f, there
<1>6. cache' = u.files \/ cache' = [u.files EXCEPT ![f.at] = Touched(u.files[f.at])]
  BY <1>1
<1>7. remote' = remote \/ remote' = [remote EXCEPT ![there] = Touched(remote[there])]
  BY <1>1
<1>8. /\ [u.files EXCEPT ![f.at] = Touched(u.files[f.at])] \in FilesOf
      /\ [remote EXCEPT ![there] = Touched(remote[there])] \in FilesOf
  BY <1>3, <1>5, PutType
<1>9. cache' \in FilesOf /\ remote' \in FilesOf
  BY <1>3, <1>6, <1>7, <1>8
<1> QED BY <1>2, <1>3, <1>9, OperationType

LEMMA ReadlinkType == ASSUME PartsOK, op_readlink PROVE ShareTypeOK'
<1>1. PICK u \in update_cache(req.file) : cache' = u.files
  BY DEF op_readlink
<1>2. /\ req.op = "readlink"
      /\ UNCHANGED <<remote, log, sync, available, mounted, based, conflicts, now>>
  BY DEF op_readlink, Runs
<1>3. u.files \in FilesOf /\ ShareTypeOK
  BY <1>2, UpdateInRequest DEF PartsOK
<1>4. /\ remote' \in FilesOf /\ log' \in [AppPaths -> Types \cup {"none"}]
      /\ sync' \in BOOLEAN /\ based' \subseteq AppPaths
  BY <1>2, <1>3 DEF ShareTypeOK, FilesOf
<1> QED BY <1>1, <1>2, <1>3, <1>4, OperationType

LEMMA ResolvedType ==
  ASSUME Clock, NEW files \in FilesOf, NEW place \in Places, NEW node \in Nodes
  PROVE  Resolved(files, place, node) \in Outcomes
<1> DEFINE old == files[place]
           cleared == IF place # Root /\ (old.kind \in {"file", "link"}
                                          \/ (node # None /\ CanRmdir(files, place)))
                      THEN [files EXCEPT ![place] = None] ELSE files
           put == [cleared EXCEPT ![place] = Made(node.kind, node.by)]
<1>1. cleared \in FilesOf
  BY NodesOfPlaces, PutType
<1>2. node # None => put \in FilesOf
  <2> HIDE DEF cleared
  <2> QED BY <1>1, CopyType, PutType
<1>3. Resolved(files, place, node) =
        CASE node \in {None, Dir} -> [files |-> cleared, ok |-> TRUE]
          [] node \notin {None, Dir} /\ CanMake(cleared, place) -> [files |-> put, ok |-> TRUE]
          [] OTHER -> [files |-> cleared, ok |-> FALSE]
  BY DEF Resolved
<1> HIDE DEF cleared, put
<1>4. CASE node \in {None, Dir}
  BY <1>1, <1>3, <1>4 DEF Outcomes
<1>5. CASE node \notin {None, Dir} /\ CanMake(cleared, place)
  BY <1>2, <1>3, <1>5 DEF Outcomes
<1>6. CASE node \notin {None, Dir} /\ ~CanMake(cleared, place)
  BY <1>1, <1>3, <1>6 DEF Outcomes
<1> QED BY <1>4, <1>5, <1>6

LEMMA SetConflictType ==
  ASSUME PartsOK, trees \subseteq AppPaths, op_setxattr_conflict
  PROVE  ShareTypeOK'
<1> DEFINE p == req.file.path
           f == FileOf(p)
           theirs == Resolved(cache, f.at, IF f.avail THEN RemoteAt(p) ELSE None)
           mine == Resolved(remote, Place(p), cache[f.at])
<1>1. /\ req.op = "setxattr"
      /\ resolve(p, req.version) \/ UNCHANGED <<remote, cache, conflicts>>
      /\ UNCHANGED <<log, sync, available, mounted, based, now>>
  BY DEF op_setxattr_conflict
<1>2. /\ p \in AppPaths /\ p \in Known /\ ShareTypeOK
      /\ cache \in FilesOf /\ remote \in FilesOf /\ Clock /\ Flags /\ conflicts \subseteq AppPaths
  BY <1>1, CallCases DEF PartsOK, Clock, Flags, ShareTypeOK, FilesOf
<1>3. f \in Files
  BY <1>2, FileOfType DEF Flags
<1>4. Place(p) \in Places /\ RemoteAt(p) \in Nodes
  BY <1>2, KnownPlace, RemoteType DEF Flags
<1>5. f.at \in Places /\ cache[f.at] \in Nodes
  BY <1>2, <1>3 DEF Files, FilesOf
<1>6. theirs \in Outcomes /\ mine \in Outcomes
  <2> HIDE DEF f
  <2> QED BY <1>2, <1>4, <1>5, NodesOfPlaces, ResolvedType
<1>7. theirs.files \in FilesOf /\ mine.files \in FilesOf
  BY <1>6 DEF Outcomes
<1>8. resolve(p, req.version) =>
        /\ remote' = remote \/ remote' = mine.files
        /\ cache' = cache \/ cache' = theirs.files
        /\ conflicts' \subseteq conflicts
  <2> HIDE DEF p
  <2> QED BY DEF resolve
<1> HIDE DEF p, f, theirs, mine
<1>9. remote' \in FilesOf /\ cache' \in FilesOf /\ conflicts' \subseteq AppPaths
  BY <1>1, <1>2, <1>7, <1>8
<1> QED BY <1>1, <1>2, <1>9 DEF ShareTypeOK, FilesOf

LEMMA RequestTypes ==
  ASSUME PartsOK, trees \subseteq AppPaths, FileRequest
  PROVE  ShareTypeOK' /\ req' = NoReq
<1>1. req' = NoReq
  BY DEF FileRequest, op_mkdir, op_mknod, op_rmdir, op_symlink, op_link, op_chmod, op_chown,
         ChangesMode, op_utimens, op_readlink, op_setxattr_conflict, Runs
<1> SUFFICES ShareTypeOK'
  BY <1>1
<1>2. CASE op_chmod \/ op_chown
  BY <1>2, ChangesModeType DEF op_chmod, op_chown
<1>3. CASE op_mkdir \/ op_mknod \/ op_rmdir
  BY <1>3, MkdirType, MknodType, RmdirType
<1>4. CASE op_symlink \/ op_link
  BY <1>4, SymlinkType, LinkType
<1>5. CASE op_utimens \/ op_readlink
  BY <1>5, UtimensType, ReadlinkType
<1>6. CASE op_setxattr_conflict
  BY <1>6, SetConflictType
<1> QED BY <1>1, <1>2, <1>3, <1>4, <1>5, <1>6 DEF FileRequest

--------------------------------------------------------------------------------
LEMMA AsksType ==
  ASSUME trees \subseteq AppPaths, available \in BOOLEAN,
         NEW op \in Ops, NEW p \in AppPaths, NEW q \in AppPaths, Asks(op, p, q)
  PROVE  req' \in Calls
<1>1. FileOf(p) \in Files /\ FileOf(q) \in Files
  BY FileOfType
<1> QED BY <1>1 DEF Asks, Calls

LEMMA BeginRequestType ==
  ASSUME PartsOK, trees \subseteq AppPaths, BeginRequest
  PROVE  req' \in Calls
<1>0. available \in BOOLEAN /\ conflicts \subseteq AppPaths
  BY DEF PartsOK, ShareTypeOK
<1>1. ASSUME NEW p \in AppPaths,
             \/ fuse_mkdir(p) \/ fuse_mknod(p) \/ fuse_symlink(p) \/ fuse_rmdir(p)
             \/ fuse_chmod(p) \/ fuse_chown(p) \/ fuse_utimens(p) \/ fuse_readlink(p)
      PROVE  req' \in Calls
  <2>1. \E op \in Ops : Asks(op, p, p)
    BY <1>1 DEF Ops, MakesNew, fuse_mkdir, fuse_mknod, fuse_symlink, fuse_rmdir, fuse_chmod,
                fuse_chown, fuse_utimens, fuse_readlink
  <2> QED BY <1>0, <2>1, AsksType
<1>2. ASSUME NEW p \in AppPaths, NEW q \in AppPaths, fuse_link(p, q)
      PROVE  req' \in Calls
  <2>1. Asks("link", p, q) /\ "link" \in Ops
    BY <1>2 DEF fuse_link, Ops
  <2> QED BY <1>0, <2>1, AsksType
<1>3. ASSUME NEW p \in conflicts, NEW version \in Versions, fuse_setxattr(p, version)
      PROVE  req' \in Calls
  <2>1. p \in AppPaths
    BY <1>0
  <2>2. FileOf(p) \in Files
    BY <1>0, <2>1, FileOfType
  <2>3. req' = [op |-> "setxattr", file |-> FileOf(p), version |-> version]
    BY <1>3 DEF fuse_setxattr
  <2> QED BY <2>2, <2>3 DEF Calls
<1> QED BY <1>1, <1>2, <1>3 DEF BeginRequest

\* A step that leaves the files, the walk and the request alone.
LEMMA PartsKept ==
  ASSUME PartsOK, UNCHANGED <<shareVars, walk, req>>, calm' \in {"no", "mixed", "alike"}
  PROVE  PartsOK'
BY DEF PartsOK, ShareTypeOK, NamesHavePlaces, shareVars

LEMMA FormsOfWalks ==
  ASSUME NEW todo \in SUBSET Known, NEW f \in WalkFiles, NEW left \in SUBSET Names,
         NEW subdirs \in SUBSET Names, NEW files \in SUBSET Names
  PROVE  /\ AtRest \in Walks /\ Visiting(todo) \in Walks /\ Listing(todo, f) \in Walks
         /\ Fetching(todo, f, left, subdirs, files) \in Walks
         /\ AtRest.pc = "rest" /\ Visiting(todo).pc = "visit" /\ Listing(todo, f).pc = "list"
BY DEF Walks, AtRest, Visiting, Listing, Fetching

LEMMA PlainWalks ==
  ASSUME NEW todo \in SUBSET Known
  PROVE  /\ AtRest \in Walks /\ Visiting(todo) \in Walks
         /\ AtRest.pc = "rest" /\ Visiting(todo).pc = "visit"
BY DEF Walks, AtRest, Visiting

LEMMA WalkCases ==
  ASSUME walk \in Walks
  PROVE  /\ walk.pc \in {"rest", "visit", "list", "fetch"}
         /\ walk.pc \in {"visit", "list", "fetch"} => walk.todo \subseteq Known
         /\ walk.pc \in {"list", "fetch"} => walk.file \in WalkFiles /\ walk.file.path \in Known
         /\ walk.pc = "fetch" =>
              walk \in [pc : {"fetch"}, todo : SUBSET Known, file : WalkFiles,
                        left : SUBSET Names, subdirs : SUBSET Names, files : SUBSET Names]
BY DEF Walks, AtRest, WalkFiles

LEMMA StartUpdateType ==
  ASSUME PartsOK, TreesTypeOK, StartUpdate
  PROVE  PartsOK'
<1>1. /\ reg.pc = "update" /\ walk' = Visiting({reg.path})
      /\ calm' = IF ~StartsCalm(reg.path) THEN "no"
                 ELSE IF KindsAgree(Place(reg.path)) THEN "alike" ELSE "mixed"
      /\ UNCHANGED shareVars /\ req' = req
  BY DEF StartUpdate, updateCache
<1>2. {reg.path} \in SUBSET Known
  <2>1. reg.path \in AppPaths
    BY <1>1, WriterCases DEF TreesTypeOK
  <2> QED BY <2>1, RequestedIsKnown
<1>3. walk' \in Walks /\ walk'.pc # "fetch"
  BY <1>1, <1>2, PlainWalks
<1>4. calm' \in {"no", "mixed", "alike"}
  BY <1>1
<1>5. ShareTypeOK'
  BY <1>1 DEF PartsOK, ShareTypeOK, shareVars
<1> QED BY <1>1, <1>3, <1>4, <1>5 DEF PartsOK, NamesHavePlaces

\* What a step of the walk leaves of the share.
LEMMA WalkShare ==
  ASSUME PartsOK, cache' \in FilesOf,
         UNCHANGED <<remote, available, mounted, sync, log, based, conflicts, now, calm, req>>
  PROVE  ShareTypeOK' /\ req' \in Calls /\ calm' \in {"no", "mixed", "alike"}
BY DEF PartsOK, ShareTypeOK, FilesOf

LEMMA UpdateInWalk ==
  ASSUME PartsOK, trees \subseteq AppPaths, NEW p \in Known, NEW u \in update_cache(FileOf(p))
  PROVE  u.files \in FilesOf /\ u.ok \in BOOLEAN
<1>1. cache \in FilesOf /\ remote \in FilesOf /\ Clock /\ Flags
  BY DEF PartsOK, ShareTypeOK, FilesOf, Clock, Flags
<1>2. FileOf(p).path \in Known
  BY DEF FileOf
<1>3. u \in Outcomes
  BY <1>1, <1>2, UpdateType
<1> QED BY <1>3 DEF Outcomes

LEMMA VisitDirType ==
  ASSUME PartsOK, trees \subseteq AppPaths, VisitDir, req' = req
  PROVE  PartsOK'
<1>1. PICK dir \in walk.todo :
        \E u \in update_cache(FileOf(dir)) :
          /\ cache' = u.files
          /\ walk' = IF u.ok THEN Listing(walk.todo \ {dir}, FileOf(dir))
                             ELSE Visiting(walk.todo \ {dir})
  BY DEF VisitDir
<1>2. PICK u \in update_cache(FileOf(dir)) :
          /\ cache' = u.files
          /\ walk' = IF u.ok THEN Listing(walk.todo \ {dir}, FileOf(dir))
                             ELSE Visiting(walk.todo \ {dir})
  BY <1>1
<1>3. /\ walk.pc = "visit"
      /\ UNCHANGED <<remote, available, mounted, sync, log, based, conflicts, now, calm>>
  BY DEF VisitDir
<1>4. walk.todo \subseteq Known /\ available \in BOOLEAN
  BY <1>3, WalkCases DEF PartsOK, ShareTypeOK
<1>5. dir \in Known /\ walk.todo \ {dir} \in SUBSET Known
  BY <1>1, <1>4
<1>6. FileOf(dir) \in WalkFiles
  BY <1>4, <1>5, WalkFileType
<1>7. cache' \in FilesOf
  BY <1>2, <1>5, UpdateInWalk
<1>8. walk' \in Walks /\ walk'.pc # "fetch"
  <2>1. {} \in SUBSET Names
    OBVIOUS
  <2> QED BY <1>2, <1>5, <1>6, <2>1, FormsOfWalks
<1>9. ShareTypeOK' /\ req' \in Calls /\ calm' \in {"no", "mixed", "alike"}
  BY <1>3, <1>7, WalkShare
<1> QED BY <1>8, <1>9 DEF PartsOK, NamesHavePlaces

LEMMA OpenRemoteDirType ==
  ASSUME PartsOK, OpenRemoteDir, req' = req
  PROVE  PartsOK'
<1> DEFINE f == walk.file
           left == IF mounted THEN EntriesIn(remote, Place(f.path)) ELSE {}
<1>1. /\ walk.pc = "list" /\ UNCHANGED <<shareVars, calm>>
      /\ walk' = Fetching(walk.todo, f, left, {}, {}) \/ walk' = Visiting(walk.todo)
  BY DEF OpenRemoteDir
<1>2. walk.todo \in SUBSET Known /\ f \in WalkFiles
  BY <1>1, WalkCases DEF PartsOK
<1>3. left \in SUBSET Names /\ \A n \in left : Below(Place(f.path), n) \in Places
  BY DEF EntriesIn
<1>4. ShareTypeOK' /\ req' \in Calls /\ calm' \in {"no", "mixed", "alike"}
  BY <1>1 DEF PartsOK, ShareTypeOK, shareVars
<1> HIDE DEF f, left
<1>5. CASE walk' = Visiting(walk.todo)
  <2>1. walk' \in Walks /\ walk'.pc # "fetch"
    BY <1>2, <1>5, PlainWalks
  <2> QED BY <1>4, <2>1 DEF PartsOK, NamesHavePlaces
<1>6. CASE walk' = Fetching(walk.todo, f, left, {}, {})
  <2>1. {} \in SUBSET Names
    OBVIOUS
  <2>2. walk' \in Walks
    BY <1>2, <1>3, <1>6, <2>1, FormsOfWalks
  <2>3. walk'.left = left /\ walk'.subdirs = {} /\ walk'.file = f
    BY <1>6 DEF Fetching
  <2>4. NamesHavePlaces'
    BY <1>3, <2>3 DEF NamesHavePlaces, Places
  <2> QED BY <1>4, <2>2, <2>4 DEF PartsOK
<1> QED BY <1>1, <1>5, <1>6

LEMMA FetchEntryType ==
  ASSUME PartsOK, trees \subseteq AppPaths, FetchEntry, req' = req
  PROVE  PartsOK'
<1>1. PICK n \in walk.left :
        LET p == Below(walk.file.path, n)
            r == RemoteAt(p)
            next == [walk EXCEPT !.left = @ \ {n}]
        IN \/ walk' = next /\ cache' = cache
           \/ walk' = [next EXCEPT !.subdirs = @ \cup {n}] /\ cache' = cache
           \/ /\ walk' = [next EXCEPT !.files = @ \cup {n}]
              /\ \E u \in update_cache(FileOf(p)) : cache' = u.files
  BY DEF FetchEntry
<1> DEFINE p == Below(walk.file.path, n)
<1>2. /\ walk.pc = "fetch"
      /\ UNCHANGED <<remote, available, mounted, sync, log, based, conflicts, now, calm>>
  BY DEF FetchEntry
<1>3. /\ walk \in [pc : {"fetch"}, todo : SUBSET Known, file : WalkFiles,
                   left : SUBSET Names, subdirs : SUBSET Names, files : SUBSET Names]
      /\ walk.file.path \in Known
  BY <1>2, WalkCases DEF PartsOK
<1>4. n \in Names /\ \A m \in walk.left \cup walk.subdirs : Below(Place(walk.file.path), m) \in Places
  BY <1>1, <1>2, <1>3 DEF PartsOK, NamesHavePlaces
<1>5. p \in Known
  BY <1>1, <1>3, <1>4, BelowIsKnown
<1>6. cache' \in FilesOf
  <2>1. cache \in FilesOf
    BY DEF PartsOK, ShareTypeOK, FilesOf
  <2>2. cache' = cache \/ \E u \in update_cache(FileOf(p)) : cache' = u.files
    BY <1>1
  <2> HIDE DEF p
  <2> QED BY <1>5, <2>1, <2>2, UpdateInWalk
<1> DEFINE R == [pc : {"fetch"}, todo : SUBSET Known, file : WalkFiles,
                 left : SUBSET Names, subdirs : SUBSET Names, files : SUBSET Names]
           next == [walk EXCEPT !.left = @ \ {n}]
<1>7. /\ walk' \in R
      /\ walk'.file = walk.file
      /\ walk'.left \cup walk'.subdirs \subseteq walk.left \cup walk.subdirs
  <2>1. /\ next \in R /\ next.file = walk.file /\ next.subdirs = walk.subdirs
        /\ next.left = walk.left \ {n}
    BY <1>3
  <2>2. n \in walk.left /\ n \in Names
    BY <1>1, <1>4
  <2>3. \/ walk' = next
        \/ walk' = [next EXCEPT !.subdirs = @ \cup {n}]
        \/ walk' = [next EXCEPT !.files = @ \cup {n}]
    BY <1>1
  <2> HIDE DEF next
  <2>4. CASE walk' = next
    BY <2>1, <2>4
  <2>5. CASE walk' = [next EXCEPT !.subdirs = @ \cup {n}]
    BY <2>1, <2>2, <2>5
  <2>6. CASE walk' = [next EXCEPT !.files = @ \cup {n}]
    BY <2>1, <2>2, <2>6
  <2> QED BY <2>3, <2>4, <2>5, <2>6
<1>8. ShareTypeOK' /\ req' \in Calls /\ calm' \in {"no", "mixed", "alike"}
  BY <1>2, <1>6, WalkShare
<1>9. walk' \in Walks
  BY <1>7 DEF Walks
<1>10. NamesHavePlaces'
  BY <1>4, <1>7 DEF NamesHavePlaces, Places
<1> QED BY <1>8, <1>9, <1>10 DEF PartsOK

LEMMA ClearCacheDirType ==
  ASSUME PartsOK, ClearCacheDir, req' = req
  PROVE  PartsOK'
<1> DEFINE kept == [q \in Places |-> IF q \in Cleared(walk.file.at) THEN None ELSE cache[q]]
<1>1. /\ walk.pc = "fetch"
      /\ UNCHANGED <<remote, available, mounted, sync, log, based, conflicts, now, calm>>
      /\ \/ cache' = kept /\ walk' = Visiting(walk.todo \cup Subdirs)
         \/ cache' = cache /\ walk' = Visiting(walk.todo)
  BY DEF ClearCacheDir
<1>2. cache \in FilesOf
  BY DEF PartsOK, ShareTypeOK, FilesOf
<1>3. kept \in FilesOf
  BY <1>2, NodesOfPlaces DEF FilesOf
<1> HIDE DEF kept
<1>4. walk.todo \in SUBSET Known /\ walk.subdirs \subseteq Names /\ walk.file.path \in Known
  BY <1>1, WalkCases DEF PartsOK
<1>5. Subdirs \subseteq Known
  <2> SUFFICES ASSUME NEW n \in walk.subdirs PROVE Below(walk.file.path, n) \in Known
    BY DEF Subdirs
  <2>1. Below(Place(walk.file.path), n) \in Places
    BY <1>1 DEF PartsOK, NamesHavePlaces
  <2> QED BY <1>4, <2>1, BelowIsKnown
<1>6. walk' \in Walks /\ walk'.pc # "fetch"
  <2>1. walk.todo \cup Subdirs \in SUBSET Known
    BY <1>4, <1>5
  <2> QED BY <1>1, <1>4, <2>1, PlainWalks
<1>7. ShareTypeOK' /\ req' \in Calls /\ calm' \in {"no", "mixed", "alike"}
  BY <1>1, <1>2, <1>3, WalkShare
<1> QED BY <1>6, <1>7 DEF PartsOK, NamesHavePlaces

--------------------------------------------------------------------------------
LEMMA EndUpdateType ==
  ASSUME PartsOK, EndUpdate, req' = req
  PROVE  PartsOK'
<1>1. walk' = AtRest /\ UNCHANGED <<shareVars, calm>>
  BY DEF EndUpdate
<1>2. walk' \in Walks /\ walk'.pc # "fetch"
  <2>1. {} \in SUBSET Known
    OBVIOUS
  <2> QED BY <1>1, <2>1, PlainWalks
<1>3. ShareTypeOK'
  BY <1>1 DEF PartsOK, ShareTypeOK, shareVars
<1> QED BY <1>1, <1>2, <1>3 DEF PartsOK, NamesHavePlaces

LEMMA KindsHere ==
  ASSUME NEW q \in Places, NEW kind \in KindsAt[q]
  PROVE  kind \in {"dir", "file", "link"}
BY KindsAssumption

\* The server's files after an edit.
Edited(q, node) ==
  [r \in Places |-> IF r = q THEN node
                    ELSE IF Begins(q \o <<Slash>>, r) THEN None
                    ELSE remote[r]]

LEMMA ServerEditForm ==
  ASSUME ServerEdit
  PROVE  /\ \E q \in Places \ {Root} :
              \E node \in {None} \cup {Made(kind, "server") : kind \in KindsAt[q]} :
                HasDir(remote, q) /\ remote' = Edited(q, node)
         /\ calm' = "no"
         /\ UNCHANGED <<treeVars, cache, available, mounted, sync, log, based, conflicts, now,
                        walk, req>>
BY DEF ServerEdit, Edited

LEMMA ServerEditType ==
  ASSUME PartsOK, ServerEdit
  PROVE  PartsOK'
<1>0. PICK q \in Places \ {Root} :
        \E node \in {None} \cup {Made(kind, "server") : kind \in KindsAt[q]} :
          remote' = Edited(q, node)
  BY ServerEditForm
<1>1. PICK node \in {None} \cup {Made(kind, "server") : kind \in KindsAt[q]} :
        remote' = Edited(q, node)
  BY <1>0
<1>2. /\ calm' = "no"
      /\ UNCHANGED <<cache, available, mounted, sync, log, based, conflicts, now, walk, req>>
  BY ServerEditForm
<1>3. remote \in FilesOf /\ Clock
  BY DEF PartsOK, ShareTypeOK, FilesOf, Clock
<1>4. node \in Nodes
  <2>1. CASE node = None
    BY <2>1, NodesOfPlaces
  <2>2. CASE node # None
    <3>1. PICK kind \in KindsAt[q] : node = Made(kind, "server")
      BY <1>1, <2>2
    <3>2. kind \in {"dir", "file", "link"}
      BY <3>1, KindsHere
    <3> QED BY <1>3, <3>1, <3>2, MadeType
  <2> QED BY <2>1, <2>2
<1>5. remote' \in FilesOf
  BY <1>1, <1>3, <1>4, NodesOfPlaces DEF FilesOf, Edited
<1>6. ShareTypeOK'
  BY <1>2, <1>5 DEF PartsOK, ShareTypeOK, FilesOf
<1> QED BY <1>2, <1>6 DEF PartsOK, NamesHavePlaces, Places

LEMMA ConflictFoundType ==
  ASSUME PartsOK, ConflictFound
  PROVE  PartsOK'
<1>1. PICK p \in AppPaths :
        /\ conflicts' = conflicts \cup {p}
        /\ log' = [log EXCEPT ![p] = "none"]
        /\ based' = based \ {p}
  BY DEF ConflictFound
<1>2. /\ calm' = "no"
      /\ UNCHANGED <<remote, cache, available, mounted, sync, now, walk, req>>
  BY DEF ConflictFound
<1>3. ShareTypeOK'
  BY <1>1, <1>2 DEF PartsOK, ShareTypeOK
<1> QED BY <1>2, <1>3 DEF PartsOK, NamesHavePlaces

LEMMA RestartType ==
  ASSUME PartsOK, Restart
  PROVE  PartsOK'
<1>1. /\ available' = TRUE /\ mounted' = TRUE /\ sync' = TRUE
      /\ walk' = AtRest /\ calm' = "no" /\ req' = NoReq
      /\ UNCHANGED <<remote, cache, log, based, conflicts, now>>
  BY DEF Restart
<1>2. walk' \in Walks /\ walk'.pc # "fetch"
  <2>1. {} \in SUBSET Known
    OBVIOUS
  <2> QED BY <1>1, <2>1, PlainWalks
<1>3. ShareTypeOK'
  BY <1>1 DEF PartsOK, ShareTypeOK
<1>4. req' \in Calls
  BY <1>1 DEF Calls
<1> QED BY <1>1, <1>2, <1>3, <1>4 DEF PartsOK, NamesHavePlaces

LEMMA AvailabilityType ==
  ASSUME PartsOK, SetAvailability \/ MountShare \/ Tick
  PROVE  PartsOK'
<1>1. CASE SetAvailability
  <2>1. /\ available' \in BOOLEAN /\ mounted' \in BOOLEAN
        /\ UNCHANGED <<remote, cache, log, sync, based, conflicts, now>>
    BY <1>1 DEF SetAvailability, op_setxattr_available, op_removexattr_available, PartsOK,
                ShareTypeOK
  <2>2. calm' = "no" /\ UNCHANGED <<walk, req>>
    BY <1>1 DEF SetAvailability
  <2>3. ShareTypeOK'
    BY <2>1 DEF PartsOK, ShareTypeOK
  <2> QED BY <2>2, <2>3 DEF PartsOK, NamesHavePlaces
<1>2. CASE MountShare
  <2>1. /\ mounted' = TRUE /\ calm' = "no"
        /\ UNCHANGED <<remote, cache, available, sync, log, based, conflicts, now, walk, req>>
    BY <1>2 DEF MountShare
  <2>2. ShareTypeOK'
    BY <2>1 DEF PartsOK, ShareTypeOK
  <2> QED BY <2>1, <2>2 DEF PartsOK, NamesHavePlaces
<1>3. CASE Tick
  <2>1. /\ now < MaxTime /\ now' = now + 1
        /\ UNCHANGED <<remote, cache, available, mounted, sync, log, based, conflicts, walk,
                       calm, req>>
    BY <1>3 DEF Tick
  <2>2. now' \in 0 .. MaxTime
    BY <2>1, PlacesAssumption DEF PartsOK, ShareTypeOK
  <2>3. ShareTypeOK'
    BY <2>1, <2>2 DEF PartsOK, ShareTypeOK
  <2> QED BY <2>1, <2>3 DEF PartsOK, NamesHavePlaces
<1> QED BY <1>1, <1>2, <1>3

LEMMA PartsStart == Init => PartsOK
<1> SUFFICES ASSUME Init PROVE PartsOK
  OBVIOUS
<1>1. /\ remote \in [Places -> UNION {Originals(q) : q \in Places}]
      /\ \A q \in Places : remote[q] \in Originals(q)
  BY DEF Init, Shares
<1>2. /\ cache = [q \in Places |-> IF q = Root THEN Dir ELSE None]
      /\ available = TRUE /\ mounted = TRUE /\ sync = TRUE
      /\ log = [p \in AppPaths |-> "none"] /\ based = {} /\ conflicts = {} /\ now = 1
      /\ walk = AtRest /\ calm = "no" /\ req = NoReq
  BY DEF Init
<1>3. \A q \in Places : Originals(q) \subseteq Nodes
  <2> SUFFICES ASSUME NEW q \in Places, NEW node \in Originals(q) PROVE node \in Nodes
    OBVIOUS
  <2>1. CASE node = None
    BY <2>1, NodesOfPlaces
  <2>2. CASE node # None
    <3>1. PICK kind \in KindsAt[q] : node = Original(kind)
      BY <2>2 DEF Originals
    <3>2. kind \in {"dir", "file", "link"} /\ 1 \in 0 .. MaxTime
      BY <3>1, KindsHere, PlacesAssumption
    <3> QED BY <3>1, <3>2 DEF Original, Nodes
  <2> QED BY <2>1, <2>2
<1>4. remote \in [Places -> Nodes] /\ cache \in [Places -> Nodes]
  BY <1>1, <1>2, <1>3, NodesOfPlaces
<1>5. now \in 0 .. MaxTime
  BY <1>2, PlacesAssumption
<1>6. ShareTypeOK
  BY <1>2, <1>4, <1>5 DEF ShareTypeOK
<1>7. walk \in Walks /\ walk.pc # "fetch" /\ req \in Calls
  <2>1. {} \in SUBSET Known
    OBVIOUS
  <2> QED BY <1>2, <2>1, PlainWalks DEF Calls
<1> QED BY <1>2, <1>6, <1>7 DEF PartsOK, NamesHavePlaces

LEMMA NextKeepsParts == TreesTypeOK /\ PartsOK /\ [Next]_vars => PartsOK'
<1> SUFFICES ASSUME TreesTypeOK, PartsOK, [Next]_vars PROVE PartsOK'
  OBVIOUS
<1>0. trees \subseteq AppPaths /\ calm \in {"no", "mixed", "alike"}
  BY DEF TreesTypeOK, PartsOK
<1>1. CASE BeginRequest
  <2>1. req' \in Calls
    BY <1>0, <1>1, BeginRequestType
  <2>2. UNCHANGED <<shareVars, walk, calm>>
    BY <1>1 DEF BeginRequest
  <2> QED BY <2>1, <2>2 DEF PartsOK, ShareTypeOK, NamesHavePlaces, shareVars
<1>2. CASE RunRequest
  <2>1. ShareTypeOK' /\ req' = NoReq
    BY <1>0, <1>2, RequestTypes DEF RunRequest
  <2>2. calm' = "no" /\ walk' = walk
    BY <1>2 DEF RunRequest
  <2> QED BY <2>1, <2>2 DEF PartsOK, NamesHavePlaces, Calls
<1>3. CASE Register \/ Remove \/ SaveTrees \/ RemoveTree \/ UNCHANGED vars
  <2>1. UNCHANGED <<shareVars, walk, req>> /\ calm' \in {"no", "mixed", "alike"}
    BY <1>0, <1>3 DEF Register, Remove, SaveTrees, RemoveTree, vars
  <2> QED BY <2>1, PartsKept
<1>4. CASE SetAvailability \/ MountShare \/ Tick
  BY <1>4, AvailabilityType
<1>5. CASE StartUpdate
  BY <1>5, StartUpdateType
<1>6. CASE Update
  BY <1>0, <1>6, VisitDirType, OpenRemoteDirType, FetchEntryType, ClearCacheDirType
     DEF Update, UpdateStep
<1>7. CASE FinishRegister
  BY <1>7, EndUpdateType DEF FinishRegister
<1>8. CASE ServerEdit
  BY <1>8, ServerEditType
<1>9. CASE ConflictFound
  BY <1>9, ConflictFoundType
<1>10. CASE Restart
  BY <1>10, RestartType
<1> QED BY <1>1, <1>2, <1>3, <1>4, <1>5, <1>6, <1>7, <1>8, <1>9, <1>10 DEF Next

LEMMA EventsCounted == used \in 0 .. MaxEvents /\ [Next]_vars => used' \in 0 .. MaxEvents
<1> SUFFICES ASSUME used \in 0 .. MaxEvents, [Next]_vars PROVE used' \in 0 .. MaxEvents
  OBVIOUS
<1>1. used' = used \/ (used < MaxEvents /\ used' = used + 1)
  BY DEF Next, vars, Counted, BeginRequest, RunRequest, Register, Remove, SetAvailability,
         SaveTrees, StartUpdate, Update, FinishRegister, RemoveTree, ServerEdit, MountShare,
         ConflictFound, Tick, Restart
<1> QED BY <1>1, OfflineTreesAssumption

\* For any paths, kinds of files and bounds: what lies on the share and in the cache,
\* the log and the list of conflicts have their types, whatever update_cache makes of
\* the parents of a path, and the walk is in a state of updateCacheRunner.
THEOREM TreesTypeCorrect == Spec => []TypeOK
<1>1. Init => used \in 0 .. MaxEvents
  BY OfflineTreesAssumption DEF Init
<1>2. TreesInv => TreesTypeOK
  BY DEF TreesInv
<1>3. Spec => [](PartsOK /\ used \in 0 .. MaxEvents)
  <2>1. Init => PartsOK /\ used \in 0 .. MaxEvents
    BY <1>1, PartsStart
  <2>2. TreesInv /\ (PartsOK /\ used \in 0 .. MaxEvents) /\ [Next]_vars
          => (PartsOK /\ used \in 0 .. MaxEvents)'
    BY <1>2, NextKeepsParts, EventsCounted
  <2> QED BY <2>1, <2>2, TreesInvAlways, PTL DEF Spec
<1>4. TreesTypeOK /\ PartsOK /\ used \in 0 .. MaxEvents => TypeOK
  BY WalkCases DEF PartsOK, TypeOK
<1> QED BY <1>2, <1>3, <1>4, TreesInvAlways, PTL

--------------------------------------------------------------------------------
(****************************************************************************)
(* What lies above and below a place.                                       *)
(****************************************************************************)
LEMMA PlaceLetters == Root \in Places /\ Places \subseteq Seq(Letters)
<1>1. Root \in Seq(Letters)
  BY DEF Root
<1>2. \A p \in AppPaths : Place(p) \in Seq(Letters)
  BY LetterSequences, PlaceType
<1> QED BY <1>1, <1>2 DEF Places

\* Of the places of a set one is the root or is below a place that is not in it.
LEMMA LeastPlace ==
  ASSUME NEW T, T \subseteq Places, T # {}
  PROVE  \E q \in T : q = Root \/ \E d \in Places, n \in Names : q = Below(d, n) /\ d \notin T
<1> DEFINE lengths == {Len(q) : q \in T}
<1>1. T \subseteq Seq(Letters)
  BY PlaceLetters
<1>2. lengths \subseteq Nat /\ lengths # {}
  <2>1. \A q \in T : Len(q) \in Nat
    BY <1>1
  <2> QED BY <2>1
<1>3. PICK l \in lengths : \A k \in lengths : l <= k
  <2> HIDE DEF lengths
  <2> QED BY <1>2, LeastNumber
<1>4. PICK q \in T : Len(q) = l
  OBVIOUS
<1>5. CASE q = Root
  BY <1>5
<1>6. CASE q # Root
  <2>1. PICK d \in Places, n \in Names : q = Below(d, n)
    BY <1>6, PlacesAssumption
  <2>2. d \in Seq(Letters)
    BY PlaceLetters
  <2>3. Len(d) < Len(q)
    <3>1. Len(n) \in Nat \ {0} /\ Len(Below(d, n)) = Len(d) + 1 + Len(n) /\ Len(d) \in Nat
      BY <2>2, BelowLetters
    <3> QED BY <2>1, <3>1
  <2>4. d \notin T
    <3> SUFFICES ASSUME d \in T PROVE FALSE
      OBVIOUS
    <3>1. Len(d) \in lengths
      OBVIOUS
    <3>2. l <= Len(d) /\ Len(d) \in Nat /\ l \in Nat
      BY <1>2, <1>3, <2>2, <3>1
    <3> HIDE DEF lengths
    <3> QED BY <1>4, <2>3, <3>2
  <2> QED BY <2>1, <2>4
<1> QED BY <1>5, <1>6

LEMMA DirOfBelow ==
  ASSUME NEW d \in Seq(Letters), NEW n \in Names
  PROVE  DirOf(Below(d, n)) = d /\ Below(d, n) # Root
<1> DEFINE q == Below(d, n)
           L == Len(d)
<1>1. /\ Len(n) \in Nat \ {0} /\ L \in Nat /\ \A j \in 1 .. Len(n) : n[j] # Slash
      /\ q \in Seq(Letters) /\ Len(q) = L + 1 + Len(n)
      /\ \A i \in 1 .. L : q[i] = d[i]
      /\ q[L + 1] = Slash
      /\ \A j \in 1 .. Len(n) : q[L + 1 + j] = n[j]
  <2>1. Len(d) \in Nat
    OBVIOUS
  <2> QED BY <2>1, BelowLetters
<1> HIDE DEF q
<1> DEFINE S == SlashesOf(q)
<1>2. L + 1 \in S
  BY <1>1 DEF SlashesOf
<1>3. \A j \in S : j <= L + 1
  <2> SUFFICES ASSUME NEW j \in S, j > L + 1 PROVE FALSE
    BY <1>1 DEF SlashesOf
  <2>1. j \in 1 .. Len(q) /\ q[j] = Slash
    BY DEF SlashesOf
  <2>2. j - (L + 1) \in 1 .. Len(n) /\ L + 1 + (j - (L + 1)) = j
    BY <1>1, <2>1
  <2> QED BY <1>1, <2>1, <2>2
<1>4. S \subseteq Nat
  BY <1>1 DEF SlashesOf
<1> DEFINE i == CHOOSE i \in S : \A j \in S : j <= i
<1>5. i \in S /\ \A j \in S : j <= i
  <2> HIDE DEF S
  <2> QED BY <1>2, <1>3
<1>6. i = L + 1
  <2> HIDE DEF S, i
  <2>1. i \in Nat /\ i <= L + 1 /\ L + 1 <= i
    BY <1>2, <1>3, <1>4, <1>5
  <2> QED BY <2>1, <1>1
<1>7. ParentLength(q) = L
  <2>1. ParentLength(q) = i - 1
    BY DEF ParentLength
  <2> HIDE DEF i
  <2> QED BY <2>1, <1>1, <1>6
<1>8. SubSeq(q, 1, L) = d
  BY <1>1
<1>9. q # Root
  BY <1>1 DEF Root
<1> QED BY <1>7, <1>8, <1>9 DEF DirOf, q

LEMMA PlaceCases ==
  ASSUME NEW q \in Places, q # Root
  PROVE  DirOf(q) \in Places /\ \E n \in Names : q = Below(DirOf(q), n)
<1>1. PICK d \in Places, n \in Names : q = Below(d, n)
  BY PlacesAssumption
<1>2. DirOf(q) = d
  BY <1>1, PlaceLetters, DirOfBelow
<1> QED BY <1>1, <1>2

\* What begins an entry of a directory, and a slash, is the directory or above it.
Above(a, q) == Begins(a \o <<Slash>>, q)

LEMMA WithSlash ==
  ASSUME NEW a \in Seq(Letters)
  PROVE  /\ a \o <<Slash>> \in Seq(Letters) /\ Len(a \o <<Slash>>) = Len(a) + 1
         /\ \A i \in 1 .. Len(a) : (a \o <<Slash>>)[i] = a[i]
         /\ (a \o <<Slash>>)[Len(a) + 1] = Slash
<1>1. Slash \in Letters
  BY DEF Letters
<1> QED BY <1>1

LEMMA AboveForm ==
  ASSUME NEW a \in Seq(Letters), NEW q \in Seq(Letters)
  PROVE  Above(a, q) <=> Len(a) < Len(q) /\ q[Len(a) + 1] = Slash /\ \A i \in 1 .. Len(a) : a[i] = q[i]
<1> DEFINE s == a \o <<Slash>>
<1>1. s \in Seq(Letters) /\ Len(s) = Len(a) + 1 /\ s[Len(a) + 1] = Slash
      /\ \A i \in 1 .. Len(a) : s[i] = a[i]
  BY WithSlash
<1>2. Above(a, q) <=> Begins(s, q)
  BY DEF Above
<1> HIDE DEF s
<1>3. Len(a) \in Nat /\ Len(q) \in Nat
  OBVIOUS
<1>4. ASSUME Begins(s, q)
      PROVE  Len(a) < Len(q) /\ q[Len(a) + 1] = Slash /\ \A i \in 1 .. Len(a) : a[i] = q[i]
  <2>1. Len(a) + 1 <= Len(q) /\ \A i \in 1 .. Len(a) + 1 : s[i] = q[i]
    BY <1>1, <1>4 DEF Begins
  <2> QED BY <1>1, <1>3, <2>1
<1>5. ASSUME Len(a) < Len(q), q[Len(a) + 1] = Slash, \A i \in 1 .. Len(a) : a[i] = q[i]
      PROVE  Begins(s, q)
  <2>1. ASSUME NEW i \in 1 .. Len(s) PROVE s[i] = q[i]
    <3>1. i \in 1 .. Len(a) \/ i = Len(a) + 1
      BY <1>1, <1>3
    <3> QED BY <3>1, <1>1, <1>5
  <2> QED BY <1>1, <1>3, <1>5, <2>1 DEF Begins
<1> QED BY <1>2, <1>4, <1>5

LEMMA AboveEntry ==
  ASSUME NEW a \in Seq(Letters), NEW d \in Seq(Letters), NEW n \in Names
  PROVE  Above(a, Below(d, n)) <=> a = d \/ Above(a, d)
<1> DEFINE q == Below(d, n)
<1>1. /\ Len(n) \in Nat \ {0} /\ Len(d) \in Nat /\ \A j \in 1 .. Len(n) : n[j] # Slash
      /\ q \in Seq(Letters) /\ Len(q) = Len(d) + 1 + Len(n)
      /\ \A i \in 1 .. Len(d) : q[i] = d[i]
      /\ q[Len(d) + 1] = Slash
      /\ \A j \in 1 .. Len(n) : q[Len(d) + 1 + j] = n[j]
  <2>1. Len(d) \in Nat
    OBVIOUS
  <2> QED BY <2>1, BelowLetters
<1> HIDE DEF q
<1>2. Len(a) \in Nat
  OBVIOUS
<1>3. ASSUME Above(a, q) PROVE a = d \/ Above(a, d)
  <2>1. Len(a) < Len(q) /\ q[Len(a) + 1] = Slash /\ \A i \in 1 .. Len(a) : a[i] = q[i]
    BY <1>1, <1>3, AboveForm
  <2>2. ~(Len(a) > Len(d))
    <3> SUFFICES ASSUME Len(a) > Len(d) PROVE FALSE
      OBVIOUS
    <3>1. Len(a) - Len(d) \in 1 .. Len(n) /\ Len(d) + 1 + (Len(a) - Len(d)) = Len(a) + 1
      BY <1>1, <1>2, <2>1
    <3> QED BY <1>1, <2>1, <3>1
  <2>3. CASE Len(a) = Len(d)
    BY <1>1, <1>2, <2>1, <2>3
  <2>4. CASE Len(a) < Len(d)
    <3>1. \A i \in 1 .. Len(a) : a[i] = d[i]
      BY <1>1, <1>2, <2>1, <2>4
    <3>2. d[Len(a) + 1] = Slash
      <4>1. Len(a) + 1 \in 1 .. Len(d)
        BY <1>1, <1>2, <2>4
      <4> QED BY <4>1, <1>1, <2>1
    <3> QED BY <2>4, <3>1, <3>2, AboveForm
  <2> QED BY <1>1, <1>2, <2>2, <2>3, <2>4
<1>4. ASSUME a = d PROVE Above(a, q)
  <2>1. Len(a) < Len(q) /\ q[Len(a) + 1] = Slash /\ \A i \in 1 .. Len(a) : a[i] = q[i]
    BY <1>1, <1>4
  <2> QED BY <1>1, <2>1, AboveForm
<1>5. ASSUME Above(a, d) PROVE Above(a, q)
  <2>1. Len(a) < Len(d) /\ d[Len(a) + 1] = Slash /\ \A i \in 1 .. Len(a) : a[i] = d[i]
    BY <1>5, AboveForm
  <2>2. Len(a) + 1 \in 1 .. Len(d)
    BY <1>1, <1>2, <2>1
  <2>3. Len(a) < Len(q) /\ q[Len(a) + 1] = Slash /\ \A i \in 1 .. Len(a) : a[i] = q[i]
    BY <1>1, <1>2, <2>1, <2>2
  <2> QED BY <1>1, <2>3, AboveForm
<1> QED BY <1>3, <1>4, <1>5 DEF q

LEMMA PlacesArePlain ==
  ASSUME NEW q \in Places
  PROVE  Place(q) = q
<1> DEFINE T == {p \in Places : Place(p) # p}
<1> SUFFICES ASSUME T # {} PROVE FALSE
  OBVIOUS
<1>1. PICK p \in T : p = Root \/ \E d \in Places, n \in Names : p = Below(d, n) /\ d \notin T
  <2>1. T \subseteq Places
    OBVIOUS
  <2> HIDE DEF T
  <2> QED BY <2>1, LeastPlace
<1>2. Place(Root) = Root
  <2>1. Root \in Seq(Letters) /\ Len(Root) = 0
    BY PlaceLetters DEF Root
  <2>2. \E f : Keeps(f, Root, 0) /\ Place(Root) = f[0]
    BY <2>1, PlaceKeeps
  <2> QED BY <2>2 DEF Keeps, Root
<1>3. CASE p = Root
  BY <1>2, <1>3
<1>4. CASE p # Root
  <2>1. PICK d \in Places, n \in Names : p = Below(d, n) /\ d \notin T
    BY <1>1, <1>4
  <2>2. Place(d) = d
    BY <2>1
  <2>3. d \in Seq(Letters)
    BY PlaceLetters
  <2> QED BY <2>1, <2>2, <2>3, PlaceBelow
<1> QED BY <1>3, <1>4

\* What passes from an entry to its directory reaches every directory above.
LEMMA AboveIn ==
  ASSUME NEW S, NEW D, NEW a \in Places, NEW q \in Places, q \in S, Above(a, q),
         \A p \in Places \ {Root} : p \in S => DirOf(p) \in S /\ DirOf(p) \in D
  PROVE  a \in D
<1> DEFINE T == {p \in Places : p \in S /\ Above(a, p)}
<1>1. PICK p \in T : p = Root \/ \E d \in Places, n \in Names : p = Below(d, n) /\ d \notin T
  <2>1. T \subseteq Places /\ T # {}
    OBVIOUS
  <2> HIDE DEF T
  <2> QED BY <2>1, LeastPlace
<1>2. a \in Seq(Letters)
  BY PlaceLetters
<1>3. p # Root
  <2> SUFFICES ASSUME p = Root PROVE FALSE
    OBVIOUS
  <2>1. Len(a) < Len(Root)
    BY <1>2, PlaceLetters, AboveForm
  <2> QED BY <1>2, <2>1 DEF Root
<1>4. PICK d \in Places, n \in Names : p = Below(d, n) /\ d \notin T
  BY <1>1, <1>3
<1>5. d \in Seq(Letters)
  BY PlaceLetters
<1>6. DirOf(p) = d
  BY <1>4, <1>5, DirOfBelow
<1>7. d \in S /\ d \in D
  BY <1>3, <1>6
<1>8. a = d
  BY <1>2, <1>4, <1>5, <1>7, AboveEntry
<1> QED BY <1>7, <1>8

LEMMA InPlaceForm ==
  ASSUME NEW a, NEW q
  PROVE  InPlace(a, q) <=> a = q \/ Above(a, q)
BY DEF InPlace, Above

\* What is above what is above.
LEMMA AboveTransitive ==
  ASSUME NEW a \in Places, NEW b \in Places, NEW q \in Places, Above(a, b), Above(b, q)
  PROVE  Above(a, q)
<1>1. a \in Seq(Letters) /\ b \in Seq(Letters) /\ q \in Seq(Letters)
  BY PlaceLetters
<1>2. Len(a) \in Nat /\ Len(b) \in Nat /\ Len(q) \in Nat
  BY <1>1
<1>3. /\ Len(a) < Len(b) /\ b[Len(a) + 1] = Slash /\ \A i \in 1 .. Len(a) : a[i] = b[i]
      /\ Len(b) < Len(q) /\ \A i \in 1 .. Len(b) : b[i] = q[i]
  BY <1>1, AboveForm
<1>4. Len(a) + 1 \in 1 .. Len(b)
  BY <1>2, <1>3
<1>5. Len(a) < Len(q) /\ q[Len(a) + 1] = Slash /\ \A i \in 1 .. Len(a) : a[i] = q[i]
  BY <1>2, <1>3, <1>4
<1> QED BY <1>1, <1>5, AboveForm

\* What lies below a directory lies at or below one of its entries.
LEMMA EntryAbove ==
  ASSUME NEW a \in Places, NEW q \in Places, Above(a, q)
  PROVE  \E n \in Names : Below(a, n) \in Places /\ InPlace(Below(a, n), q)
<1> DEFINE Found(p) == \E n \in Names : Below(a, n) \in Places /\ InPlace(Below(a, n), p)
           T == {p \in Places : Above(a, p) /\ ~Found(p)}
<1> SUFFICES ASSUME T # {} PROVE FALSE
  OBVIOUS
<1>1. PICK p \in T : p = Root \/ \E d \in Places, n \in Names : p = Below(d, n) /\ d \notin T
  <2>1. T \subseteq Places
    OBVIOUS
  <2> HIDE DEF T
  <2> QED BY <2>1, LeastPlace
<1>2. a \in Seq(Letters)
  BY PlaceLetters
<1>3. p # Root
  <2> SUFFICES ASSUME p = Root PROVE FALSE
    OBVIOUS
  <2>1. Len(a) < Len(Root)
    BY <1>2, PlaceLetters, AboveForm
  <2> QED BY <1>2, <2>1 DEF Root
<1>4. PICK d \in Places, m \in Names : p = Below(d, m) /\ d \notin T
  BY <1>1, <1>3
<1>5. d \in Seq(Letters)
  BY PlaceLetters
<1>6. CASE a = d
  <2>1. Found(p)
    BY <1>4, <1>6 DEF InPlace
  <2> QED BY <2>1
<1>7. CASE a # d
  <2>1. Above(a, d)
    BY <1>2, <1>4, <1>5, <1>7, AboveEntry
  <2>2. PICK n \in Names : Below(a, n) \in Places /\ InPlace(Below(a, n), d)
    BY <1>4, <2>1
  <2> DEFINE b == Below(a, n)
  <2>3. b \in Places /\ (b = d \/ Above(b, d)) /\ b \in Seq(Letters)
    BY <2>2, InPlaceForm, PlaceLetters
  <2>4. Above(b, p)
    <3> HIDE DEF b
    <3> QED BY <1>4, <1>5, <2>3, AboveEntry
  <2>5. InPlace(b, p)
    BY <2>4, InPlaceForm
  <2>6. Found(p)
    BY <2>3, <2>5
  <2> QED BY <2>6
<1> QED BY <1>6, <1>7

\* A place up to one of its slashes is a directory above it.
LEMMA PlaceBeginning ==
  ASSUME NEW q \in Places, NEW m \in Nat, m < Len(q), q[m + 1] = Slash
  PROVE  SubSeq(q, 1, m) \in Places /\ Above(SubSeq(q, 1, m), q)
<1> DEFINE Good(p) == \A k \in Nat : k < Len(p) /\ p[k + 1] = Slash => SubSeq(p, 1, k) \in Places
           T == {p \in Places : ~Good(p)}
<1>1. q \in Seq(Letters) /\ Len(q) \in Nat
  BY PlaceLetters
<1>2. Above(SubSeq(q, 1, m), q)
  <2> DEFINE s == SubSeq(q, 1, m)
  <2>1. s \in Seq(Letters) /\ Len(s) = m /\ \A i \in 1 .. m : s[i] = q[i]
    BY <1>1
  <2> HIDE DEF s
  <2>2. Len(s) < Len(q) /\ q[Len(s) + 1] = Slash /\ \A i \in 1 .. Len(s) : s[i] = q[i]
    BY <2>1
  <2>3. Above(s, q)
    BY <1>1, <2>1, <2>2, AboveForm
  <2> QED BY <2>3 DEF s
<1>3. SUFFICES ASSUME T # {} PROVE FALSE
  BY <1>2
<1>4. PICK p \in T : p = Root \/ \E d \in Places, n \in Names : p = Below(d, n) /\ d \notin T
  <2>1. T \subseteq Places
    OBVIOUS
  <2> HIDE DEF T
  <2> QED BY <1>3, <2>1, LeastPlace
<1>5. PICK k \in Nat : k < Len(p) /\ p[k + 1] = Slash /\ SubSeq(p, 1, k) \notin Places
  BY <1>4
<1>6. p # Root
  BY <1>5 DEF Root
<1>7. PICK d \in Places, n \in Names : p = Below(d, n) /\ Good(d)
  BY <1>4, <1>6
<1>8. /\ Len(n) \in Nat \ {0} /\ Len(d) \in Nat /\ \A j \in 1 .. Len(n) : n[j] # Slash
      /\ d \in Seq(Letters) /\ p \in Seq(Letters) /\ Len(p) = Len(d) + 1 + Len(n)
      /\ \A i \in 1 .. Len(d) : p[i] = d[i]
      /\ \A j \in 1 .. Len(n) : p[Len(d) + 1 + j] = n[j]
  <2>1. d \in Seq(Letters) /\ Len(d) \in Nat
    BY PlaceLetters
  <2>2. p = Below(d, n)
    BY <1>7
  <2>3. /\ Len(n) \in Nat \ {0} /\ \A j \in 1 .. Len(n) : n[j] # Slash
        /\ Below(d, n) \in Seq(Letters) /\ Len(Below(d, n)) = Len(d) + 1 + Len(n)
        /\ \A i \in 1 .. Len(d) : Below(d, n)[i] = d[i]
        /\ \A j \in 1 .. Len(n) : Below(d, n)[Len(d) + 1 + j] = n[j]
    BY <2>1, BelowLetters
  <2> QED BY <2>1, <2>2, <2>3, Zenon
<1> HIDE DEF T
<1>9. ~(k > Len(d))
  <2> SUFFICES ASSUME k > Len(d) PROVE FALSE
    OBVIOUS
  <2>0. /\ k \in Nat /\ k < Len(p) /\ Len(d) \in Nat /\ Len(n) \in Nat
        /\ Len(p) = Len(d) + 1 + Len(n)
    BY <1>5, <1>8
  <2> HIDE DEF Good
  <2>1. k - Len(d) \in 1 .. Len(n) /\ Len(d) + 1 + (k - Len(d)) = k + 1
    BY <2>0
  <2>2. p[k + 1] = n[k - Len(d)] /\ n[k - Len(d)] # Slash
    BY <1>8, <2>1
  <2> QED BY <1>5, <2>2
<1>10. SubSeq(p, 1, k) = SubSeq(d, 1, k)
  BY <1>8, <1>9
<1>11. CASE k = Len(d)
  <2>1. SubSeq(d, 1, k) = d
    BY <1>8, <1>11
  <2> QED BY <1>5, <1>10, <2>1
<1>12. CASE k < Len(d)
  <2>1. k + 1 \in 1 .. Len(d)
    BY <1>8, <1>12
  <2>2. d[k + 1] = Slash
    BY <1>5, <1>8, <2>1
  <2> QED BY <1>5, <1>7, <1>10, <1>12, <2>2
<1> QED BY <1>8, <1>9, <1>11, <1>12

\* Every place but the root begins with a slash and a letter that is none.
LEMMA PlaceStart ==
  ASSUME NEW q \in Places, q # Root
  PROVE  Len(q) > 1 /\ q[1] = Slash /\ q[2] # Slash
<1> DEFINE Good(p) == Len(p) > 1 /\ p[1] = Slash /\ p[2] # Slash
           T == {p \in Places \ {Root} : ~Good(p)}
<1> SUFFICES ASSUME T # {} PROVE FALSE
  OBVIOUS
<1>1. PICK p \in T : p = Root \/ \E d \in Places, n \in Names : p = Below(d, n) /\ d \notin T
  <2>1. T \subseteq Places
    OBVIOUS
  <2> HIDE DEF T
  <2> QED BY <2>1, LeastPlace
<1>2. PICK d \in Places, n \in Names : p = Below(d, n) /\ (d = Root \/ Good(d))
  BY <1>1
<1>3. /\ Len(n) \in Nat \ {0} /\ Len(d) \in Nat /\ \A j \in 1 .. Len(n) : n[j] # Slash
      /\ Len(p) = Len(d) + 1 + Len(n)
      /\ \A i \in 1 .. Len(d) : p[i] = d[i]
      /\ p[Len(d) + 1] = Slash
      /\ \A j \in 1 .. Len(n) : p[Len(d) + 1 + j] = n[j]
  <2>1. d \in Seq(Letters) /\ Len(d) \in Nat
    BY PlaceLetters
  <2> QED BY <1>2, <2>1, BelowLetters
<1>4. CASE d = Root
  <2>1. Len(d) = 0
    BY <1>4 DEF Root
  <2>2. 1 \in 1 .. Len(n) /\ Len(d) + 1 + 1 = 2 /\ Len(d) + 1 = 1
    BY <1>3, <2>1
  <2>3. p[2] = n[1]
    BY <1>3, <2>2
  <2> QED BY <1>3, <2>1, <2>2, <2>3
<1>5. CASE Good(d)
  <2>1. 1 \in 1 .. Len(d) /\ 2 \in 1 .. Len(d) /\ Len(p) > 1
    BY <1>3, <1>5
  <2> QED BY <1>3, <1>5, <2>1
<1> QED BY <1>2, <1>4, <1>5

--------------------------------------------------------------------------------
(****************************************************************************)
(* Paths that no comparison of strings confuses: a file lies in the cache   *)
(* where it lies on the server, whatever trees there are.                   *)
(****************************************************************************)
LEMMA DoubledSlash ==
  ASSUME NEW a \in Seq(Letters), NEW b \in Seq(Letters), b # <<>>, b[1] = Slash
  PROVE  Place(a \o <<Slash>> \o b) = Place(a \o b)
<1> DEFINE x == a \o <<Slash>> \o b
           y == a \o b
           L == Len(a)
           M == Len(b)
<1>1. /\ L \in Nat /\ M \in Nat \ {0}
      /\ x \in Seq(Letters) /\ Len(x) = L + 1 + M
      /\ y \in Seq(Letters) /\ Len(y) = L + M
      /\ \A i \in 1 .. L : x[i] = y[i]
      /\ x[L + 1] = Slash
      /\ \A j \in 1 .. M : x[L + 1 + j] = b[j] /\ y[L + j] = b[j]
  <2> DEFINE s == a \o <<Slash>>
  <2>1. /\ s \in Seq(Letters) /\ Len(s) = L + 1 /\ \A i \in 1 .. L : s[i] = a[i]
        /\ s[L + 1] = Slash
    BY WithSlash
  <2>2. x = s \o b
    OBVIOUS
  <2>3. L \in Nat /\ M \in Nat \ {0}
    OBVIOUS
  <2>4. /\ y \in Seq(Letters) /\ Len(y) = L + M
        /\ \A i \in 1 .. L : y[i] = a[i]
        /\ \A j \in 1 .. M : y[L + j] = b[j]
    OBVIOUS
  <2> HIDE DEF s, x, y
  <2>5. /\ s \o b \in Seq(Letters) /\ Len(s \o b) = L + 1 + M
        /\ \A i \in 1 .. L + 1 : (s \o b)[i] = s[i]
        /\ \A j \in 1 .. M : (s \o b)[L + 1 + j] = b[j]
    <3>1. s \o b \in Seq(Letters) /\ Len(s \o b) = Len(s) + Len(b)
      BY <2>1
    <3>2. \A i \in 1 .. Len(s) : (s \o b)[i] = s[i]
      BY <2>1
    <3>3. \A j \in 1 .. Len(b) : (s \o b)[Len(s) + j] = b[j]
      BY <2>1
    <3> QED BY <2>1, <3>1, <3>2, <3>3
  <2>6. 1 .. L \subseteq 1 .. L + 1 /\ L + 1 \in 1 .. L + 1
    BY <2>3
  <2> QED BY <2>1, <2>2, <2>3, <2>4, <2>5, <2>6
<1>2. PICK f : Keeps(f, x, Len(x)) /\ Place(x) = f[Len(x)]
  <2> HIDE DEF x
  <2> QED BY <1>1, PlaceKeeps
<1>3. PICK g : Keeps(g, y, Len(y)) /\ Place(y) = g[Len(y)]
  <2> HIDE DEF y
  <2> QED BY <1>1, PlaceKeeps
<1> HIDE DEF x, y, L, M
<1>0. 1 \in 1 .. M /\ b[1] = Slash
  BY <1>1
<1>4. \A k \in 0 .. L : f[k] = g[k]
  <2> DEFINE T == {k \in 0 .. L : f[k] # g[k]}
  <2>1. SUFFICES ASSUME T # {} PROVE FALSE
    OBVIOUS
  <2>2. PICK k \in T : \A j \in T : k <= j
    <3>1. T \subseteq Nat
      BY <1>1
    <3> HIDE DEF T
    <3> QED BY <2>1, <3>1, LeastNumber
  <2>3. k # 0
    BY <1>2, <1>3 DEF Keeps
  <2>4. k \in 1 .. L /\ k - 1 \in 0 .. L /\ k - 1 \notin T /\ k \in 1 .. Len(x) /\ k \in 1 .. Len(y)
    BY <1>1, <2>2, <2>3
  <2>5. f[k - 1] = g[k - 1] /\ x[k] = y[k]
    BY <1>1, <2>4
  <2>6. k # Len(x) /\ k # Len(y) /\ (x[k + 1] = Slash <=> y[k + 1] = Slash)
    <3>1. CASE k = L
      <4>1. y[L + 1] = b[1]
        BY <1>0, <1>1
      <4> QED BY <1>0, <1>1, <3>1, <4>1
    <3>2. CASE k # L
      <4>1. k + 1 \in 1 .. L
        BY <1>1, <2>4, <3>2
      <4> QED BY <1>1, <2>4, <4>1
    <3> QED BY <3>1, <3>2
  <2>7. Dropped(x, k) <=> Dropped(y, k)
    BY <2>5, <2>6 DEF Dropped
  <2>8. /\ f[k] = IF Dropped(x, k) THEN f[k - 1] ELSE Append(f[k - 1], x[k])
        /\ g[k] = IF Dropped(y, k) THEN g[k - 1] ELSE Append(g[k - 1], y[k])
    BY <1>2, <1>3, <2>4 DEF Keeps
  <2> QED BY <2>2, <2>5, <2>7, <2>8
<1>5. f[L + 1] = g[L]
  <2>0. L \in Nat /\ M \in Nat \ {0} /\ Len(x) = L + 1 + M
    BY <1>1
  <2>1. L + 1 \in 1 .. Len(x) /\ (L + 1) - 1 = L /\ L \in 0 .. L
    BY <2>0
  <2>2. x[(L + 1) + 1] = b[1]
    BY <1>0, <1>1
  <2>3. Dropped(x, L + 1)
    BY <1>0, <1>1, <2>2 DEF Dropped
  <2>4. f[L + 1] = f[L]
    BY <1>2, <2>1, <2>3 DEF Keeps
  <2> QED BY <1>4, <2>1, <2>4
<1>6. \A j \in 0 .. M : f[L + 1 + j] = g[L + j]
  <2> DEFINE T == {j \in 0 .. M : f[L + 1 + j] # g[L + j]}
  <2>1. SUFFICES ASSUME T # {} PROVE FALSE
    OBVIOUS
  <2>2. PICK j \in T : \A i \in T : j <= i
    <3>1. T \subseteq Nat
      BY <1>1
    <3> HIDE DEF T
    <3> QED BY <2>1, <3>1, LeastNumber
  <2>3. j # 0
    <3>1. L + 1 + 0 = L + 1 /\ L + 0 = L
      BY <1>1
    <3>2. 0 \notin T
      BY <1>5, <3>1
    <3> QED BY <2>2, <3>2
  <2>4. j \in 1 .. M /\ j - 1 \in 0 .. M /\ j - 1 \notin T
    <3>1. j \in 0 .. M /\ M \in Nat
      BY <1>1, <2>2
    <3>2. j \in 1 .. M /\ j - 1 \in 0 .. M /\ j - 1 < j
      BY <2>3, <3>1
    <3> HIDE DEF T
    <3> QED BY <2>2, <3>2
  <2>5. /\ L + 1 + j \in 1 .. Len(x) /\ L + j \in 1 .. Len(y)
        /\ (L + 1 + j) - 1 = L + 1 + (j - 1) /\ (L + j) - 1 = L + (j - 1)
        /\ (L + 1 + j) + 1 = L + 1 + (j + 1) /\ (L + j) + 1 = L + (j + 1)
    BY <1>1, <2>4
  <2>6. f[(L + 1 + j) - 1] = g[(L + j) - 1] /\ x[L + 1 + j] = y[L + j]
    BY <1>1, <2>4, <2>5
  <2>7. Dropped(x, L + 1 + j) <=> Dropped(y, L + j)
    <3>1. CASE j = M
      <4>1. L + 1 + j = Len(x) /\ L + j = Len(y)
        BY <1>1, <3>1
      <4> QED BY <2>6, <4>1 DEF Dropped
    <3>2. CASE j # M
      <4>1. j + 1 \in 1 .. M /\ L + 1 + j # Len(x) /\ L + j # Len(y)
        BY <1>1, <2>4, <3>2
      <4>2. x[(L + 1 + j) + 1] = y[(L + j) + 1]
        BY <1>1, <2>5, <4>1
      <4> QED BY <2>6, <4>1, <4>2 DEF Dropped
    <3> QED BY <3>1, <3>2
  <2>8. /\ f[L + 1 + j] = IF Dropped(x, L + 1 + j) THEN f[(L + 1 + j) - 1]
                          ELSE Append(f[(L + 1 + j) - 1], x[L + 1 + j])
        /\ g[L + j] = IF Dropped(y, L + j) THEN g[(L + j) - 1]
                      ELSE Append(g[(L + j) - 1], y[L + j])
    BY <1>2, <1>3, <2>5 DEF Keeps
  <2> QED BY <2>2, <2>6, <2>7, <2>8
<1>7. M \in 0 .. M
  BY <1>1
<1> QED BY <1>1, <1>2, <1>3, <1>6, <1>7 DEF x, y

\* The paths that the walk of an update gets to: places, and below the tree "/" places
\* behind a second slash.
Straight == Places \cup {<<Slash>> \o c : c \in Places}

LEMMA SlashedPlace ==
  ASSUME NEW c \in Places
  PROVE  Place(<<Slash>> \o c) = c
<1>1. <<>> \in Seq(Letters) /\ c \in Seq(Letters) /\ <<Slash>> \in Seq(Letters)
  BY PlaceLetters DEF Letters
<1>2. CASE c = Root
  <2>1. <<Slash>> \o c = <<Slash>> /\ Len(<<Slash>>) = 1 /\ 1 \in 1 .. 1
    BY <1>2 DEF Root
  <2>2. PICK f : Keeps(f, <<Slash>>, 1) /\ Place(<<Slash>>) = f[1]
    BY <1>1, <2>1, PlaceKeeps
  <2>3. Dropped(<<Slash>>, 1)
    BY DEF Dropped
  <2>4. f[1] = f[1 - 1] /\ f[0] = <<>>
    BY <2>1, <2>2, <2>3 DEF Keeps
  <2> QED BY <1>2, <2>1, <2>2, <2>4 DEF Root
<1>3. CASE c # Root
  <2>1. c # <<>> /\ c[1] = Slash
    BY <1>3, PlaceStart DEF Root
  <2>2. Place(<<>> \o <<Slash>> \o c) = Place(<<>> \o c)
    BY <1>1, <2>1, DoubledSlash
  <2>3. <<>> \o <<Slash>> \o c = <<Slash>> \o c /\ <<>> \o c = c
    BY <1>1
  <2> QED BY <2>2, <2>3, PlacesArePlain
<1> QED BY <1>2, <1>3

LEMMA StraightForms ==
  ASSUME NEW q \in Straight
  PROVE  /\ q \in Seq(Letters) /\ Place(q) \in Places
         /\ q = Place(q) \/ q = <<Slash>> \o Place(q)
<1>1. CASE q \in Places
  BY <1>1, PlaceLetters, PlacesArePlain
<1>2. ASSUME NEW c \in Places, q = <<Slash>> \o c
      PROVE  q \in Seq(Letters) /\ Place(q) = c
  <2>1. c \in Seq(Letters) /\ <<Slash>> \in Seq(Letters)
    BY PlaceLetters DEF Letters
  <2> QED BY <1>2, <2>1, SlashedPlace
<1> QED BY <1>1, <1>2 DEF Straight

LEMMA StraightBelow ==
  ASSUME NEW q \in Straight, NEW n \in Names, Below(Place(q), n) \in Places
  PROVE  Below(q, n) \in Straight /\ Place(Below(q, n)) = Below(Place(q), n)
<1>1. q \in Seq(Letters) /\ Place(q) \in Places
  BY StraightForms
<1>2. Place(Below(q, n)) = Below(Place(q), n)
  BY <1>1, PlaceBelow
<1>3. CASE q = Place(q)
  BY <1>2, <1>3 DEF Straight
<1>4. CASE q = <<Slash>> \o Place(q)
  <2> DEFINE c == Place(q)
  <2>1. c \in Seq(Letters) /\ n \in Seq(Letters) /\ <<Slash>> \in Seq(Letters)
    BY <1>1, PlaceLetters, LetterSequences DEF Letters
  <2> HIDE DEF c
  <2>2. (<<Slash>> \o c) \o <<Slash>> \o n = <<Slash>> \o (c \o <<Slash>> \o n)
    BY <2>1
  <2>3. Below(q, n) = <<Slash>> \o Below(c, n)
    <3>1. q = <<Slash>> \o c
      BY <1>4 DEF c
    <3> QED BY <2>2, <3>1 DEF Below
  <2> QED BY <1>2, <2>3 DEF Straight, c
<1> QED BY <1>3, <1>4, StraightForms

LEMMA RequestedIsStraight ==
  ASSUME PlainPaths
  PROVE  AppPaths \subseteq Straight /\ Places \ {Root} \subseteq AppPaths
<1>1. ASSUME NEW p \in AppPaths PROVE p \in Straight
  <2>1. CASE p = RootPath
    <3>1. RootPath = <<Slash>> \o Root
      BY DEF RootPath, Root
    <3> QED BY <2>1, <3>1, PlaceLetters DEF Straight
  <2>2. CASE Place(p) = p
    BY <2>2 DEF Straight, Places
  <2> QED BY <2>1, <2>2 DEF PlainPaths
<1>2. ASSUME NEW q \in Places \ {Root} PROVE q \in AppPaths
  <2>1. PICK p \in AppPaths : q = Place(p)
    BY DEF Places
  <2>2. CASE p = RootPath
    <3>1. RootPath = <<Slash>> \o Root
      BY DEF RootPath, Root
    <3>2. Place(p) = Root
      BY <2>2, <3>1, PlaceLetters, SlashedPlace
    <3> QED BY <2>1, <3>2
  <2> QED BY <2>1, <2>2 DEF PlainPaths
<1> QED BY <1>1, <1>2

LEMMA PlainForms ==
  ASSUME PlainPaths, NEW p \in AppPaths
  PROVE  p = RootPath \/ (p \in Places \ {Root} /\ Place(p) = p)
<1>1. p # <<>>
  BY LetterSequences
<1> QED BY <1>1 DEF PlainPaths, Places, Root

\* Where the rest of a path below a tree begins there is a slash.
LEMMA TreeEnds ==
  ASSUME PlainPaths, NEW t \in AppPaths, t # RootPath, NEW q \in Straight,
         Begins(t, q), Len(t) < Len(q)
  PROVE  q[Len(t) + 1] = Slash
<1>1. t \in Places \ {Root} /\ t \in Seq(Letters)
  BY PlainForms, PlaceLetters
<1>2. Len(t) > 1 /\ t[1] = Slash /\ t[2] # Slash /\ Len(t) \in Nat
  BY <1>1, PlaceStart
<1>3. \A i \in 1 .. Len(t) : t[i] = q[i]
  BY DEF Begins
<1>4. CASE q \in Places
  <2>1. q # Root
    BY <1>2 DEF Root
  <2>2. q \in AppPaths
    BY <1>4, <2>1, RequestedIsStraight
  <2> QED BY <2>2 DEF PlainPaths
<1>5. ASSUME NEW c \in Places, q = <<Slash>> \o c
      PROVE  FALSE
  <2>1. c \in Seq(Letters) /\ Len(q) = 1 + Len(c) /\ Len(c) \in Nat
    <3>1. c \in Seq(Letters) /\ <<Slash>> \in Seq(Letters)
      BY PlaceLetters DEF Letters
    <3> QED BY <1>5, <3>1
  <2>2. Len(c) > 1 /\ 1 \in 1 .. Len(c) /\ c # Root
    BY <1>2, <2>1 DEF Root
  <2>3. q[2] = c[1]
    BY <1>5, <2>1, <2>2
  <2>4. c[1] = Slash
    BY <2>2, PlaceStart
  <2>5. 2 \in 1 .. Len(t)
    BY <1>2
  <2> QED BY <1>2, <1>3, <2>3, <2>4, <2>5
<1> QED BY <1>4, <1>5 DEF Straight

LEMMA AtPlace ==
  ASSUME PlainPaths, trees \subseteq AppPaths, NEW q \in Straight
  PROVE  FileOf(q).at = Place(q) /\ FileOf(q).path = q
<1>1. q \in Seq(Letters)
  BY StraightForms
<1>2. CASE ~InTree(q)
  BY <1>2 DEF FileOf
<1>3. CASE InTree(q)
  <2> DEFINE t == TreeOf(q)
             L == Len(t)
  <2>1. t \in AppPaths /\ Begins(t, q)
    BY <1>3, InTreeType
  <2> HIDE DEF t
  <2>2. t \in Seq(Letters) /\ t # <<>> /\ L \in Nat /\ Len(q) \in Nat /\ L <= Len(q) /\ L # 0
    BY <1>1, <2>1, LetterSequences DEF Begins
  <2>3. \A i \in 1 .. L : t[i] = q[i]
    BY <2>1 DEF Begins
  <2>4. Place(CachePath(t, q)) = Place(q)
    <3>1. CASE L = Len(q)
      <4>1. t = q
        BY <1>1, <2>2, <2>3, <3>1
      <4> QED BY <4>1 DEF CachePath
    <3>2. CASE L < Len(q)
      <4> DEFINE rest == SubSeq(q, L + 1, Len(q))
      <4>1. rest \in Seq(Letters) /\ rest # <<>> /\ rest[1] = q[L + 1]
        <5>1. L + 1 \in 1 .. Len(q)
          BY <2>2, <3>2
        <5> HIDE DEF L
        <5>2. rest \in Seq(Letters) /\ Len(rest) = Len(q) - L /\ rest[1] = q[L + 1]
          BY <1>1, <2>2, <5>1
        <5> HIDE DEF rest
        <5>3. rest # <<>>
          BY <2>2, <3>2, <5>2
        <5> QED BY <5>2, <5>3
      <4>2. t \o rest = q
        BY <1>1, <2>2, <2>3, <3>2
      <4>3. CachePath(t, q) = t \o <<Slash>> \o rest
        <5>1. Len(q) # Len(t)
          BY <2>2, <3>2
        <5> QED BY <5>1 DEF CachePath, Below
      <4> HIDE DEF rest
      <4>4. CASE t # RootPath
        <5>1. q[L + 1] = Slash
          BY <2>1, <3>2, <4>4, TreeEnds
        <5> QED BY <2>2, <4>1, <4>2, <4>3, <5>1, DoubledSlash
      <4>5. CASE t = RootPath
        <5>1. <<>> \in Seq(Letters) /\ <<Slash>> \in Seq(Letters)
          BY DEF Letters
        <5>2. q # <<>> /\ q[1] = Slash
          BY <2>2, <2>3, <4>5 DEF RootPath
        <5>3. t \o <<Slash>> \o rest = <<>> \o <<Slash>> \o q
          <6>1. t \o <<Slash>> = <<Slash>> \o t
            BY <4>5 DEF RootPath
          <6>2. (<<Slash>> \o t) \o rest = <<Slash>> \o (t \o rest)
            BY <2>2, <4>1, <5>1
          <6>3. <<>> \o <<Slash>> \o q = <<Slash>> \o q
            BY <1>1, <5>1
          <6> QED BY <4>2, <6>1, <6>2, <6>3
        <5>4. Place(<<>> \o <<Slash>> \o q) = Place(<<>> \o q)
          BY <1>1, <5>1, <5>2, DoubledSlash
        <5>5. <<>> \o q = q
          BY <1>1
        <5> QED BY <4>3, <5>3, <5>4, <5>5
      <4> QED BY <4>4, <4>5
    <3> QED BY <2>2, <3>1, <3>2
  <2> QED BY <1>3, <2>4 DEF FileOf, t
<1> QED BY <1>2, <1>3

\* The files that update_cache looks at on the way to another one are of the
\* directories above it.
LEMMA StraightWay ==
  ASSUME NEW f, f.path \in Straight, NEW g \in OnTheWay(f), g # f
  PROVE  /\ g = FileOf(g.path) /\ g.path \in Straight
         /\ Place(g.path) = Root \/ Above(Place(g.path), Place(f.path))
         /\ f.path \in Places => g.path \in Places
<1> DEFINE q == f.path
<1>1. PICK k \in 0 .. Len(q) : (k = Len(q) \/ q[k + 1] = Slash) /\ g = FileOfFirst(f, k)
  BY DEF OnTheWay
<1>2. q \in Seq(Letters) /\ Len(q) \in Nat
  BY StraightForms
<1>3. k # Len(q)
  BY <1>1 DEF FileOfFirst
<1> DEFINE s == SubSeq(q, 1, k)
<1>4. g = FileOf(s) /\ g.path = s
  BY <1>1, <1>3 DEF FileOfFirst, FileOf
<1>5. k \in Nat /\ k < Len(q) /\ q[k + 1] = Slash
  BY <1>1, <1>2, <1>3
<1> HIDE DEF q, s
<1>6. CASE q \in Places
  <2>1. s \in Places /\ Above(s, q)
    BY <1>5, <1>6, PlaceBeginning DEF s
  <2>2. Place(s) = s /\ Place(q) = q
    BY <1>6, <2>1, PlacesArePlain
  <2> QED BY <1>4, <1>6, <2>1, <2>2 DEF q, Straight
<1>7. ASSUME NEW c \in Places, q = <<Slash>> \o c, q \notin Places
      PROVE  s \in Straight /\ (Place(s) = Root \/ Above(Place(s), Place(q)))
  <2>1. c \in Seq(Letters) /\ Len(c) \in Nat /\ Len(q) = 1 + Len(c)
        /\ \A i \in 1 .. Len(c) : q[1 + i] = c[i]
    <3>1. c \in Seq(Letters) /\ <<Slash>> \in Seq(Letters)
      BY PlaceLetters DEF Letters
    <3> QED BY <1>7, <3>1
  <2>2. Place(q) = c
    BY <1>7, SlashedPlace
  <2>3. CASE k = 0
    <3>1. s = Root
      BY <1>2, <2>3 DEF s, Root
    <3> QED BY <3>1, PlaceLetters, PlacesArePlain DEF Straight
  <2>4. CASE k # 0
    <3> DEFINE m == k - 1
               d == SubSeq(c, 1, m)
    <3>1. m \in Nat /\ m < Len(c) /\ m + 1 \in 1 .. Len(c) /\ 1 + (m + 1) = k + 1 /\ 1 + m = k
      BY <1>5, <2>1, <2>4
    <3>2. c[m + 1] = Slash
      <4> HIDE DEF m
      <4> QED BY <1>5, <2>1, <3>1
    <3> HIDE DEF m
    <3>3. d \in Places /\ Above(d, c)
      BY <3>1, <3>2, PlaceBeginning
    <3>4. s = <<Slash>> \o d
      <4>1. <<Slash>> \in Seq(Letters)
        BY DEF Letters
      <4>2. SubSeq(<<Slash>> \o c, 1, 1 + m) = <<Slash>> \o SubSeq(c, 1, m)
        BY <2>1, <3>1, <4>1
      <4> QED BY <1>7, <3>1, <4>2 DEF s
    <3>5. Place(s) = d
      BY <3>3, <3>4, SlashedPlace
    <3> HIDE DEF d
    <3> QED BY <2>2, <3>3, <3>4, <3>5 DEF Straight
  <2> QED BY <2>3, <2>4
<1> QED BY <1>4, <1>6, <1>7 DEF q, Straight

--------------------------------------------------------------------------------
(****************************************************************************)
(* Files that fit: nothing without its directory, nothing newer than the    *)
(* clock.                                                                   *)
(****************************************************************************)
Proper(node) == node \in Nodes /\ node.mtime <= now

Sound ==
  {files \in FilesOf :
     /\ files[Root] = Dir
     /\ \A q \in Places : Proper(files[q])
     /\ \A q \in Places \ {Root} : files[q] # None => files[DirOf(q)] = Dir}

LEMMA NodeKinds ==
  /\ None # Dir /\ None.mtime = 0 /\ Dir.mtime = 0 /\ None.kind = "none" /\ Dir.kind = "dir"
  /\ \A node \in Nodes : /\ node.kind = "dir" <=> node = Dir
                         /\ node.kind = "none" <=> node = None
                         /\ node.kind \in {"file", "link"} <=> node \notin {None, Dir}
                         /\ node.mtime \in 0 .. MaxTime
<1>1. /\ None # Dir /\ None.mtime = 0 /\ Dir.mtime = 0 /\ None.kind = "none" /\ Dir.kind = "dir"
  BY DEF None, Dir
<1>2. 0 \in 0 .. MaxTime
  BY PlacesAssumption
<1>3. ASSUME NEW node \in Nodes
      PROVE  /\ node.kind = "dir" <=> node = Dir
             /\ node.kind = "none" <=> node = None
             /\ node.kind \in {"file", "link"} <=> node \notin {None, Dir}
             /\ node.mtime \in 0 .. MaxTime
  <2>1. CASE node = None
    BY <1>1, <1>2, <2>1
  <2>2. CASE node = Dir
    BY <1>1, <1>2, <2>2
  <2>3. CASE node \in [kind : {"file", "link"}, by : {"server", "user"}, mtime : 0 .. MaxTime]
    BY <1>1, <2>3
  <2> QED BY <2>1, <2>2, <2>3, NodeCases
<1> QED BY <1>1, <1>3

LEMMA ProperNodes ==
  ASSUME Clock
  PROVE  Proper(None) /\ Proper(Dir)
<1>1. 0 <= now
  BY DEF Clock
<1> QED BY <1>1, NodeKinds, NodesOfPlaces DEF Proper

LEMMA ProperMade ==
  ASSUME Clock, NEW kind \in {"dir", "file", "link"}, NEW by,
         kind # "dir" => by \in {"server", "user"}
  PROVE  Proper(Made(kind, by)) /\ Made(kind, by) # None /\ Made(kind, by).kind = kind
<1>1. Made(kind, by) \in Nodes
  BY MadeType
<1>2. CASE kind = "dir"
  BY <1>2, NodeKinds, ProperNodes DEF Made
<1>3. CASE kind # "dir"
  <2>1. Made(kind, by) = [kind |-> kind, by |-> by, mtime |-> now]
    BY <1>3 DEF Made
  <2>2. Made(kind, by).kind = kind /\ Made(kind, by).mtime = now
    BY <2>1
  <2>3. Made(kind, by) \notin {None, Dir} /\ now <= now
    BY <1>1, <1>3, <2>2, NodeKinds DEF Clock
  <2> QED BY <1>1, <1>3, <2>2, <2>3 DEF Proper
<1> QED BY <1>2, <1>3

LEMMA ProperCopy ==
  ASSUME Clock, NEW node, node # None, Proper(node)
  PROVE  /\ Proper(Made(node.kind, node.by))
         /\ Made(node.kind, node.by) # None /\ Made(node.kind, node.by).kind = node.kind
<1>1. node \in Nodes
  BY DEF Proper
<1>2. /\ node.kind \in {"dir", "file", "link"}
      /\ node.kind # "dir" => node.by \in {"server", "user"}
  BY <1>1, NodeCases
<1> QED BY <1>2, ProperMade

LEMMA SoundFacts ==
  ASSUME NEW files \in Sound
  PROVE  /\ files \in FilesOf /\ files[Root] = Dir
         /\ \A q \in Places : /\ files[q] \in Nodes /\ Proper(files[q])
                              /\ HasDir(files, q) <=> q = Root \/ files[DirOf(q)] = Dir
                              /\ files[q] # None => HasDir(files, q)
<1>1. ASSUME NEW q \in Places
      PROVE  /\ files[q] \in Nodes
             /\ HasDir(files, q) <=> q = Root \/ files[DirOf(q)] = Dir
  <2>1. files[q] \in Nodes
    BY DEF Sound, FilesOf
  <2>2. q # Root => files[DirOf(q)] \in Nodes
    BY PlaceCases DEF Sound, FilesOf
  <2> QED BY <2>1, <2>2, NodeKinds DEF HasDir
<1> QED BY <1>1 DEF Sound

\* Something is made or replaced in a directory.
LEMMA SoundPut ==
  ASSUME NEW files \in Sound, NEW q \in Places, NEW node, Proper(node),
         HasDir(files, q), files[q] # Dir
  PROVE  node # None => [files EXCEPT ![q] = node] \in Sound
<1> DEFINE new == [files EXCEPT ![q] = node]
<1>0. SUFFICES ASSUME node # None PROVE new \in Sound
  OBVIOUS
<1>1. files \in FilesOf /\ q # Root /\ files[DirOf(q)] = Dir
  BY SoundFacts
<1>2. new \in FilesOf
  BY <1>1, PutType DEF Proper
<1>3. new[q] = node /\ \A p \in Places : p # q => new[p] = files[p]
  BY <1>1 DEF FilesOf
<1> HIDE DEF new
<1>4. new[Root] = Dir
  BY <1>1, <1>3, PlaceLetters, SoundFacts
<1>5. \A p \in Places : Proper(new[p])
  BY <1>3, SoundFacts
<1>6. ASSUME NEW p \in Places \ {Root}, new[p] # None PROVE new[DirOf(p)] = Dir
  <2>1. DirOf(p) \in Places
    BY PlaceCases
  <2>2. files[DirOf(p)] = Dir
    BY <1>1, <1>3, <1>6 DEF Sound
  <2>3. DirOf(p) # q
    BY <2>2
  <2> QED BY <1>3, <2>1, <2>2, <2>3
<1> QED BY <1>2, <1>4, <1>5, <1>6 DEF Sound

\* Entries go with what is below them.
LEMMA SoundDelete ==
  ASSUME Clock, NEW files \in Sound, NEW S, S \subseteq Places \ {Root},
         \A p \in Places \ {Root} : DirOf(p) \in S => p \in S \/ files[p] = None
  PROVE  [q \in Places |-> IF q \in S THEN None ELSE files[q]] \in Sound
<1> DEFINE new == [q \in Places |-> IF q \in S THEN None ELSE files[q]]
<1>1. \A q \in Places : new[q] = IF q \in S THEN None ELSE files[q]
  OBVIOUS
<1>2. new \in FilesOf
  <2>1. \A q \in Places : (IF q \in S THEN None ELSE files[q]) \in Nodes
    BY SoundFacts, NodesOfPlaces
  <2> QED BY <2>1 DEF FilesOf
<1> HIDE DEF new
<1>3. new[Root] = Dir
  BY <1>1, PlaceLetters, SoundFacts
<1>4. \A q \in Places : Proper(new[q])
  BY <1>1, SoundFacts, ProperNodes
<1>5. ASSUME NEW p \in Places \ {Root}, new[p] # None PROVE new[DirOf(p)] = Dir
  <2>1. DirOf(p) \in Places
    BY PlaceCases
  <2>2. p \notin S /\ files[p] # None
    BY <1>1, <1>5
  <2>3. files[DirOf(p)] = Dir
    BY <2>2 DEF Sound
  <2> QED BY <1>1, <2>1, <2>2, <2>3
<1> QED BY <1>2, <1>3, <1>4, <1>5 DEF Sound, new

LEMMA SoundRemove ==
  ASSUME Clock, NEW files \in Sound, NEW q \in Places \ {Root},
         files[q] # Dir \/ CanRmdir(files, q)
  PROVE  [files EXCEPT ![q] = None] \in Sound
<1>1. ASSUME NEW p \in Places \ {Root}, DirOf(p) \in {q} PROVE files[p] = None
  <2>1. CASE files[q] # Dir
    BY <1>1, <2>1 DEF Sound
  <2>2. CASE CanRmdir(files, q)
    <3>1. PICK n \in Names : p = Below(q, n)
      BY <1>1, PlaceCases
    <3>2. n \notin EntriesIn(files, q)
      BY <2>2 DEF CanRmdir
    <3> QED BY <3>1, <3>2 DEF EntriesIn
  <2> QED BY <2>1, <2>2
<1>2. [p \in Places |-> IF p \in {q} THEN None ELSE files[p]] \in Sound
  <2>1. {q} \subseteq Places \ {Root}
    OBVIOUS
  <2> QED BY <1>1, <2>1, SoundDelete
<1>3. [files EXCEPT ![q] = None] = [p \in Places |-> IF p \in {q} THEN None ELSE files[p]]
  BY SoundFacts DEF FilesOf
<1> QED BY <1>2, <1>3

LEMMA SoundTouch ==
  ASSUME Clock, NEW files \in Sound, NEW q \in Places
  PROVE  [files EXCEPT ![q] = Touched(@)] \in Sound
<1>1. files \in FilesOf /\ files[q] \in Nodes /\ Proper(files[q])
      /\ (files[q] # None => HasDir(files, q))
  BY SoundFacts
<1> DEFINE node == Touched(files[q])
<1>2. [files EXCEPT ![q] = Touched(@)] = [files EXCEPT ![q] = node]
  OBVIOUS
<1>3. CASE files[q].kind = "file"
  <2>1. node = [files[q] EXCEPT !.mtime = now]
    BY <1>3 DEF Touched
  <2>2. files[q] \in [kind : {"file", "link"}, by : {"server", "user"}, mtime : 0 .. MaxTime]
    BY <1>1, <1>3, NodeCases
  <2>3. node.kind = "file" /\ node.mtime = now
    BY <1>3, <2>1, <2>2
  <2>4. node \in Nodes
    BY <1>1, TouchedType
  <2> HIDE DEF node
  <2>5. node \notin {None, Dir} /\ files[q] \notin {None, Dir}
    BY <1>1, <1>3, <2>3, <2>4, NodeKinds
  <2>6. Proper(node)
    BY <1>1, <2>3, <2>4, <2>5 DEF Proper, Clock
  <2> QED BY <1>1, <1>2, <2>5, <2>6, SoundPut
<1>4. CASE files[q].kind # "file"
  <2>1. node = files[q]
    BY <1>4 DEF Touched
  <2>2. [files EXCEPT ![q] = files[q]] = files
    BY <1>1 DEF FilesOf
  <2> QED BY <1>2, <2>1, <2>2
<1> QED BY <1>3, <1>4

--------------------------------------------------------------------------------
(****************************************************************************)
(* What is fetched fits, and what a request does leaves files that fit.     *)
(****************************************************************************)
SoundOutcomes == {u \in Outcomes : u.files \in Sound}

LEMMA FetchedSound ==
  ASSUME Clock, NEW before \in SoundOutcomes, NEW f, f.at \in Places,
         NEW r, Proper(r)
  PROVE  Fetched(before, f, r) \subseteq SoundOutcomes
<1> SUFFICES ASSUME NEW after \in Fetched(before, f, r) PROVE after \in SoundOutcomes
  OBVIOUS
<1> DEFINE put == [before.files EXCEPT ![f.at] = Made(r.kind, r.by)]
<1>1. before \in Outcomes /\ before.files \in Sound
  BY DEF SoundOutcomes
<1>2. CASE after = before
  BY <1>2
<1>3. CASE /\ r # None /\ HasDir(before.files, f.at) /\ before.files[f.at] # Dir
           /\ after = [before EXCEPT !.files[f.at] = Made(r.kind, r.by)]
  <2>1. Proper(Made(r.kind, r.by)) /\ Made(r.kind, r.by) # None
    BY <1>3, ProperCopy
  <2>2. put \in Sound
    BY <1>1, <1>3, <2>1, SoundPut
  <2>3. after = [before EXCEPT !.files = put]
    BY <1>1, <1>3 DEF Outcomes
  <2> HIDE DEF put
  <2>4. [before EXCEPT !.files = put] \in Outcomes /\ [before EXCEPT !.files = put].files = put
    BY <1>1, <2>2, SoundFacts DEF Outcomes
  <2> QED BY <2>2, <2>3, <2>4 DEF SoundOutcomes
<1>4. CASE after = [before EXCEPT !.ok = FALSE]
  <2>1. /\ [before EXCEPT !.ok = FALSE] \in Outcomes
        /\ [before EXCEPT !.ok = FALSE].files = before.files
    BY <1>1 DEF Outcomes
  <2> QED BY <1>1, <1>4, <2>1 DEF SoundOutcomes
<1> QED BY <1>2, <1>3, <1>4, FetchedForms

LEMMA RemoteProper ==
  ASSUME Clock, remote \in Sound, mounted \in BOOLEAN, NEW p, Place(p) \in Places
  PROVE  Proper(RemoteAt(p)) /\ (mounted => RemoteAt(p) = remote[Place(p)])
<1>1. CASE mounted
  BY <1>1, SoundFacts DEF RemoteAt
<1>2. CASE ~mounted /\ Place(p) = Root
  BY <1>2, ProperNodes DEF RemoteAt
<1>3. CASE ~mounted /\ Place(p) # Root
  BY <1>3, ProperNodes DEF RemoteAt
<1> QED BY <1>1, <1>2, <1>3

FileInPlace(f) == f.path \in Straight /\ f.at = Place(f.path)

LEMMA OnTheWayInPlace ==
  ASSUME PlainPaths, trees \subseteq AppPaths, NEW f, FileInPlace(f), NEW g \in OnTheWay(f)
  PROVE  FileInPlace(g) /\ g.at \in Places
<1>1. CASE g = f
  BY <1>1, StraightForms DEF FileInPlace
<1>2. CASE g # f
  <2>1. g = FileOf(g.path) /\ g.path \in Straight
    BY <1>2, StraightWay DEF FileInPlace
  <2>2. FileOf(g.path).at = Place(g.path)
    BY <2>1, AtPlace
  <2> QED BY <2>1, <2>2, StraightForms DEF FileInPlace
<1> QED BY <1>1, <1>2

SharesSound == remote \in Sound /\ cache \in Sound

LEMMA UpdateSound ==
  ASSUME PlainPaths, trees \subseteq AppPaths, Clock, Flags, SharesSound,
         NEW f, f.path \in Known, FileInPlace(f), NEW u \in update_cache(f)
  PROVE  u \in SoundOutcomes
<1>1. Unfetched \in SoundOutcomes
  BY SoundFacts DEF Unfetched, SoundOutcomes, Outcomes, SharesSound
<1>2. ASSUME NEW g \in OnTheWay(f), NEW before \in SoundOutcomes
      PROVE  Fetched(before, g, RemoteAt(g.path)) \subseteq SoundOutcomes
  <2>1. g.at = Place(g.path) /\ g.at \in Places
    BY OnTheWayInPlace DEF FileInPlace
  <2>2. Proper(RemoteAt(g.path))
    BY <2>1, RemoteProper DEF SharesSound, Flags
  <2> QED BY <2>1, <2>2, FetchedSound
<1> QED BY <1>1, <1>2, UpdateWithin

\* What a request has in hand: where its files lie.
CallFits ==
  req.op # "none" =>
    /\ FileInPlace(req.file)
    /\ req.op = "link" => FileInPlace(req.to)

LEMMA RequestSound ==
  ASSUME PlainPaths, PartsOK, trees \subseteq AppPaths, SharesSound, CallFits, req.op # "none"
  PROVE  /\ FileInPlace(req.file) /\ req.file.at \in Places /\ req.file.at = Place(req.file.path)
         /\ \A u \in update_cache(req.file) : u \in SoundOutcomes /\ u.files \in Sound
         /\ Clock
<1>1. Clock /\ Flags
  BY DEF PartsOK, ShareTypeOK, Clock, Flags
<1>2. req.file.path \in Known /\ FileInPlace(req.file)
  BY CallCases DEF PartsOK, CallFits
<1>3. \A u \in update_cache(req.file) : u \in SoundOutcomes /\ u.files \in Sound
  BY <1>1, <1>2, UpdateSound DEF SoundOutcomes
<1> QED BY <1>1, <1>2, <1>3, StraightForms DEF FileInPlace

LEMMA AbleSound ==
  ASSUME Clock, NEW files \in Sound, NEW q \in Places, NEW node, Proper(node), Able(files, q, node)
  PROVE  [files EXCEPT ![q] = node] \in Sound
<1>1. CASE node = None
  <2>1. CanRmdir(files, q) /\ q # Root
    BY <1>1 DEF Able, CanRmdir
  <2> QED BY <1>1, <2>1, SoundRemove
<1>2. CASE node # None
  <2>1. files[q] = None /\ HasDir(files, q)
    BY <1>2 DEF Able, CanMake
  <2> QED BY <1>2, <2>1, NodeKinds, SoundPut
<1> QED BY <1>1, <1>2

LEMMA ChangeRemoteSound ==
  ASSUME Clock, remote \in Sound, NEW f, Place(f.path) \in Places,
         NEW node, Proper(node), ChangeRemote(f, node)
  PROVE  remote' \in Sound
BY AbleSound DEF ChangeRemote

LEMMA ThroughSound ==
  ASSUME Clock, remote \in Sound, NEW u, u.files \in Sound, NEW f, f.at = Place(f.path),
         f.at \in Places, NEW node, Proper(node), NEW type, Through(u, f, node, type)
  PROVE  cache' \in Sound /\ remote' \in Sound
<1>1. CASE u.ok /\ f.offline /\ Able(u.files, f.at, node)
  <2>1. cache' = [u.files EXCEPT ![f.at] = node] /\ remote' = remote
    BY <1>1 DEF Through
  <2> QED BY <1>1, <2>1, AbleSound
<1>2. CASE u.ok /\ ~f.offline
  <2>1. cache' = u.files /\ ChangeRemote(f, node)
    BY <1>2 DEF Through
  <2> QED BY <2>1, ChangeRemoteSound
<1>3. CASE ~(u.ok /\ f.offline /\ Able(u.files, f.at, node)) /\ ~(u.ok /\ ~f.offline)
  <2>1. cache' = u.files /\ remote' = remote
    BY <1>3 DEF Through
  <2> QED BY <2>1
<1> QED BY <1>1, <1>2, <1>3

LEMMA MadeByUser ==
  ASSUME Clock, NEW kind \in {"file", "link"}
  PROVE  Proper(Made(kind, "user"))
<1>1. kind \in {"dir", "file", "link"} /\ kind # "dir"
  OBVIOUS
<1> QED BY <1>1, ProperMade

LEMMA MakeSound ==
  ASSUME PlainPaths, PartsOK, trees \subseteq AppPaths, SharesSound, CallFits,
         op_mkdir \/ op_mknod \/ op_rmdir
  PROVE  cache' \in Sound /\ remote' \in Sound /\ conflicts' = conflicts /\ now' = now
<1> DEFINE f == req.file
<1>1. req.op \in {"mkdir", "mknod", "rmdir"} /\ conflicts' = conflicts /\ now' = now
  BY DEF op_mkdir, op_mknod, op_rmdir, Runs
<1>2. /\ FileInPlace(f) /\ f.at \in Places /\ f.at = Place(f.path) /\ Clock
      /\ \A u \in update_cache(f) : u.files \in Sound
  BY <1>1, RequestSound
<1>3. remote \in Sound
  BY DEF SharesSound
<1>4. CASE op_mkdir
  <2>1. PICK u \in update_cache(f) : Through(u, f, Dir, "c")
    BY <1>4 DEF op_mkdir
  <2>2. Proper(Dir)
    BY <1>2, ProperNodes
  <2> HIDE DEF f
  <2> QED BY <1>1, <1>2, <1>3, <2>1, <2>2, ThroughSound
<1>5. CASE op_mknod
  <2>1. PICK u \in update_cache(f) :
          \/ cache' = u.files /\ remote' = remote
          \/ Through(u, f, Made("file", "user"), "c")
    BY <1>5 DEF op_mknod
  <2>2. Proper(Made("file", "user"))
    BY <1>2, MadeByUser
  <2> HIDE DEF f
  <2>3. CASE cache' = u.files /\ remote' = remote
    BY <1>1, <1>2, <1>3, <2>1, <2>3
  <2>4. CASE Through(u, f, Made("file", "user"), "c")
    BY <1>1, <1>2, <1>3, <2>1, <2>2, <2>4, ThroughSound
  <2> QED BY <2>1, <2>3, <2>4
<1>6. CASE op_rmdir
  <2>1. PICK u \in update_cache(f) : Through(u, f, None, "d")
    BY <1>6 DEF op_rmdir
  <2>2. Proper(None)
    BY <1>2, ProperNodes
  <2> HIDE DEF f
  <2> QED BY <1>1, <1>2, <1>3, <2>1, <2>2, ThroughSound
<1> QED BY <1>4, <1>5, <1>6

LEMMA LinkSound ==
  ASSUME PlainPaths, PartsOK, trees \subseteq AppPaths, SharesSound, CallFits,
         op_symlink \/ op_link
  PROVE  cache' \in Sound /\ remote' \in Sound /\ conflicts' = conflicts /\ now' = now
<1> DEFINE f == req.file
           to == req.to
<1>1. req.op \in {"symlink", "link"} /\ conflicts' = conflicts /\ now' = now
  BY DEF op_symlink, op_link, Runs
<1>2. /\ FileInPlace(f) /\ f.at \in Places /\ f.at = Place(f.path) /\ Clock
      /\ \A u \in update_cache(f) : u.files \in Sound
  BY <1>1, RequestSound
<1>3. remote \in Sound /\ cache \in Sound /\ mounted \in BOOLEAN
  BY DEF SharesSound, PartsOK, ShareTypeOK
<1>4. CASE op_symlink
  <2> DEFINE link == Made("link", "user")
  <2>1. IF f.offline
        THEN /\ cache' = IF CanMake(cache, f.at) THEN [cache EXCEPT ![f.at] = link] ELSE cache
             /\ remote' = remote
        ELSE ChangeRemote(f, link) /\ cache' = cache
    BY <1>4 DEF op_symlink
  <2>2. Proper(link) /\ link # None
    <3>1. "link" \in {"dir", "file", "link"} /\ "link" # "dir"
      OBVIOUS
    <3> QED BY <1>2, <3>1, ProperMade
  <2> HIDE DEF f, link
  <2>3. CanMake(cache, f.at) => [cache EXCEPT ![f.at] = link] \in Sound
    BY <1>2, <1>3, <2>2, NodeKinds, SoundPut DEF CanMake
  <2>4. CASE f.offline
    BY <1>1, <1>3, <2>1, <2>3, <2>4
  <2>5. CASE ~f.offline
    BY <1>1, <1>2, <1>3, <2>1, <2>2, <2>5, ChangeRemoteSound
  <2> QED BY <2>4, <2>5
<1>5. CASE op_link
  <2>1. PICK u \in update_cache(f) :
          \/ /\ u.files[f.at].kind \in {"file", "link"} /\ CanMake(u.files, to.at)
             /\ cache' = [u.files EXCEPT ![to.at] = u.files[f.at]] /\ remote' = remote
          \/ /\ RemoteAt(f.path).kind \in {"file", "link"}
             /\ cache' = u.files /\ ChangeRemote(to, RemoteAt(f.path))
          \/ cache' = u.files /\ remote' = remote
    BY <1>5 DEF op_link
  <2>2. to.at = Place(to.path) /\ to.at \in Places
    <3>1. req.op = "link"
      BY <1>5 DEF op_link, Runs
    <3>2. FileInPlace(to)
      BY <3>1 DEF CallFits
    <3> QED BY <3>2, StraightForms DEF FileInPlace
  <2>3. u.files \in Sound
    BY <1>2, <2>1
  <2>4. ASSUME NEW node, Proper(node), node.kind \in {"file", "link"}
        PROVE  node # None
    BY <2>4, NodeKinds DEF Proper
  <2>5. Proper(RemoteAt(f.path)) /\ Proper(u.files[f.at])
    BY <1>2, <1>3, <2>3, RemoteProper, SoundFacts
  <2> HIDE DEF f, to
  <2>6. CASE /\ u.files[f.at].kind \in {"file", "link"} /\ CanMake(u.files, to.at)
             /\ cache' = [u.files EXCEPT ![to.at] = u.files[f.at]] /\ remote' = remote
    <3>1. HasDir(u.files, to.at) /\ u.files[to.at] # Dir
      BY <2>6, NodeKinds DEF CanMake
    <3>2. Proper(u.files[f.at]) /\ u.files[f.at] # None
      BY <2>4, <2>5, <2>6
    <3>3. [u.files EXCEPT ![to.at] = u.files[f.at]] \in Sound
      BY <2>2, <2>3, <3>1, <3>2, SoundPut
    <3> QED BY <1>1, <1>3, <2>6, <3>3
  <2>7. CASE /\ RemoteAt(f.path).kind \in {"file", "link"}
             /\ cache' = u.files /\ ChangeRemote(to, RemoteAt(f.path))
    <3>1. Proper(RemoteAt(f.path))
      BY <2>4, <2>5, <2>7
    <3> QED BY <1>1, <1>2, <1>3, <2>2, <2>3, <2>7, <3>1, ChangeRemoteSound
  <2>8. CASE cache' = u.files /\ remote' = remote
    BY <1>1, <1>3, <2>3, <2>8
  <2> QED BY <2>1, <2>6, <2>7, <2>8
<1> QED BY <1>4, <1>5

LEMMA TouchSound ==
  ASSUME PlainPaths, PartsOK, trees \subseteq AppPaths, SharesSound, CallFits,
         op_chmod \/ op_chown \/ op_utimens \/ op_readlink
  PROVE  cache' \in Sound /\ remote' \in Sound /\ conflicts' = conflicts /\ now' = now
<1> DEFINE f == req.file
           there == Place(f.path)
<1>1. req.op # "none" /\ conflicts' = conflicts /\ now' = now
  BY DEF op_chmod, op_chown, ChangesMode, op_utimens, op_readlink, Runs
<1>2. /\ f.at \in Places /\ f.at = there /\ Clock
      /\ \A u \in update_cache(f) : u.files \in Sound
  BY <1>1, RequestSound
<1>3. remote \in Sound
  BY DEF SharesSound
<1>4. PICK u \in update_cache(f) :
        /\ cache' = [u.files EXCEPT ![f.at] = Touched(@)] \/ cache' = u.files
        /\ remote' = [remote EXCEPT ![there] = Touched(@)] \/ remote' = remote
  <2>1. CASE op_utimens
    BY <2>1 DEF op_utimens
  <2>2. CASE op_chmod \/ op_chown \/ op_readlink
    BY <2>2 DEF op_chmod, op_chown, ChangesMode, op_readlink
  <2> QED BY <2>1, <2>2
<1> HIDE DEF f, there
<1>5. u.files \in Sound
  BY <1>2, <1>4
<1>6. [u.files EXCEPT ![f.at] = Touched(@)] \in Sound
  BY <1>2, <1>5, SoundTouch
<1>7. [remote EXCEPT ![there] = Touched(@)] \in Sound
  BY <1>2, <1>3, SoundTouch
<1> QED BY <1>1, <1>3, <1>4, <1>5, <1>6, <1>7

LEMMA ResolvedForms ==
  ASSUME Clock, NEW files \in Sound, NEW q \in Places, NEW node, Proper(node)
  PROVE  /\ Resolved(files, q, node).files \in Sound
         /\ (files[q] # Dir /\ node # Dir /\ Resolved(files, q, node).ok) =>
              LET left == Resolved(files, q, node).files[q] IN
              left.kind = node.kind /\ left.by = node.by
<1> DEFINE old == files[q]
           Clears == q # Root /\ (old.kind \in {"file", "link"}
                                   \/ (node # None /\ CanRmdir(files, q)))
           cleared == IF Clears THEN [files EXCEPT ![q] = None] ELSE files
           put == [cleared EXCEPT ![q] = Made(node.kind, node.by)]
<1>0. files \in FilesOf /\ old \in Nodes /\ Proper(old) /\ node \in Nodes
  BY SoundFacts DEF Proper
<1>1. cleared \in Sound /\ cleared \in FilesOf
  <2>1. Clears => [files EXCEPT ![q] = None] \in Sound
    <3> SUFFICES ASSUME Clears PROVE [files EXCEPT ![q] = None] \in Sound
      OBVIOUS
    <3>1. old # Dir \/ CanRmdir(files, q)
      BY NodeKinds
    <3> QED BY <3>1, SoundRemove
  <2>2. cleared \in Sound
    <3> HIDE DEF Clears
    <3> QED BY <2>1
  <2> HIDE DEF cleared
  <2> QED BY <2>2, SoundFacts
<1>2. old # Dir => cleared[q] = None
  <2> SUFFICES ASSUME old # Dir PROVE cleared[q] = None
    OBVIOUS
  <2>1. q # Root
    BY SoundFacts
  <2>2. CASE old = None
    <3>1. ~(old.kind \in {"file", "link"})
      BY <2>2, NodeKinds
    <3>2. cleared[q] = None \/ cleared = files
      BY <1>0 DEF FilesOf
    <3> QED BY <2>2, <3>2
  <2>3. CASE old # None
    <3>1. Clears
      BY <1>0, <2>1, <2>3, NodeKinds
    <3>2. [files EXCEPT ![q] = None][q] = None
      BY <1>0 DEF FilesOf
    <3> HIDE DEF Clears
    <3> QED BY <3>1, <3>2
  <2> QED BY <2>2, <2>3
<1>3. Resolved(files, q, node) =
        CASE node \in {None, Dir} -> [files |-> cleared, ok |-> TRUE]
          [] node \notin {None, Dir} /\ CanMake(cleared, q) -> [files |-> put, ok |-> TRUE]
          [] OTHER -> [files |-> cleared, ok |-> FALSE]
  BY DEF Resolved
<1> HIDE DEF Clears, cleared, old
<1>4. CASE node \in {None, Dir}
  <2>1. Resolved(files, q, node) = [files |-> cleared, ok |-> TRUE]
    BY <1>3, <1>4
  <2>2. node # Dir => node = None
    BY <1>4
  <2> QED BY <1>1, <1>2, <2>1, <2>2 DEF old
<1>5. CASE node \notin {None, Dir} /\ CanMake(cleared, q)
  <2>1. Resolved(files, q, node) = [files |-> put, ok |-> TRUE]
    BY <1>3, <1>5
  <2>2. Proper(Made(node.kind, node.by)) /\ Made(node.kind, node.by) # None
    BY <1>5, ProperCopy
  <2>3. put \in Sound
    BY <1>1, <1>5, <2>2, NodeKinds, SoundPut DEF CanMake
  <2>4. put[q] = Made(node.kind, node.by)
    BY <1>1 DEF FilesOf
  <2>5. node.kind # "dir"
    BY <1>0, <1>5, NodeKinds
  <2>6. Made(node.kind, node.by) = [kind |-> node.kind, by |-> node.by, mtime |-> now]
    BY <2>5 DEF Made
  <2>7. Made(node.kind, node.by).kind = node.kind /\ Made(node.kind, node.by).by = node.by
    BY <2>6
  <2> HIDE DEF put
  <2> QED BY <2>1, <2>3, <2>4, <2>7
<1>6. CASE node \notin {None, Dir} /\ ~CanMake(cleared, q)
  <2>1. Resolved(files, q, node) = [files |-> cleared, ok |-> FALSE]
    BY <1>3, <1>6
  <2> QED BY <1>1, <2>1
<1> QED BY <1>4, <1>5, <1>6

LEMMA SoundStays == now' = now => Sound' = Sound
BY DEF Sound, Proper

LEMMA SoundGrows ==
  ASSUME now \in Nat, now' = now + 1, MaxTime \in Nat
  PROVE  Sound \subseteq Sound'
<1> SUFFICES ASSUME NEW files \in Sound PROVE files \in Sound'
  OBVIOUS
<1>1. ASSUME NEW node, Proper(node) PROVE Proper(node)'
  <2>1. node.mtime \in Nat
    BY <1>1, NodeKinds DEF Proper
  <2>2. node.mtime <= now'
    BY <1>1, <2>1 DEF Proper
  <2> QED BY <1>1, <2>2 DEF Proper
<1> QED BY <1>1 DEF Sound

LEMMA SetConflictSound ==
  ASSUME PlainPaths, PartsOK, trees \subseteq AppPaths, SharesSound, CallFits, op_setxattr_conflict
  PROVE  /\ cache' \in Sound /\ remote' \in Sound /\ conflicts' \subseteq conflicts /\ now' = now
         /\ \A p \in conflicts \ conflicts' :
              req.file.avail /\ available /\ mounted /\ OfFiles(p) => SameVersion(p)
<1> DEFINE p == req.file.path
           f == FileOf(p)
           theirs == Resolved(cache, f.at, IF f.avail THEN RemoteAt(p) ELSE None)
           mine == Resolved(remote, Place(p), cache[f.at])
<1>1. now' = now /\ req.op = "setxattr"
  BY DEF op_setxattr_conflict
<1>2. Clock /\ remote \in Sound /\ cache \in Sound /\ mounted \in BOOLEAN /\ conflicts \subseteq AppPaths
  BY DEF SharesSound, PartsOK, ShareTypeOK, Clock
<1>3. CASE UNCHANGED <<remote, cache, conflicts>>
  BY <1>1, <1>2, <1>3
<1>4. CASE resolve(p, req.version)
  <2>1. /\ p \in conflicts
        /\ \/ /\ remote' = IF OnServer(f) THEN mine.files ELSE remote
              /\ conflicts' = IF mine.ok \/ (f.avail /\ ~mounted) THEN conflicts \ {p} ELSE conflicts
              /\ cache' = cache
           \/ /\ cache' = theirs.files
              /\ conflicts' = IF theirs.ok THEN conflicts \ {p} ELSE conflicts
              /\ remote' = remote
    BY <1>4 DEF resolve
  <2>2. p \in AppPaths /\ p \in Straight /\ Place(p) \in Places
    BY <1>2, <2>1, RequestedIsStraight, StraightForms
  <2>3. f.at = Place(p) /\ f.avail = available
    BY <2>2, AtPlace DEF FileOf
  <2> HIDE DEF p, f
  <2>4. Proper(RemoteAt(p)) /\ (mounted => RemoteAt(p) = remote[Place(p)])
    BY <1>2, <2>2, <2>3, RemoteProper
  <2>5. Proper(IF f.avail THEN RemoteAt(p) ELSE None)
    BY <1>2, <2>2, <2>3, <2>4, ProperNodes
  <2>6. Proper(cache[f.at])
    BY <1>2, <2>2, <2>3, SoundFacts
  <2>7. /\ theirs.files \in Sound
        /\ theirs.ok /\ cache[f.at] # Dir /\ (IF f.avail THEN RemoteAt(p) ELSE None) # Dir =>
                        /\ theirs.files[f.at].kind = (IF f.avail THEN RemoteAt(p) ELSE None).kind
                        /\ theirs.files[f.at].by = (IF f.avail THEN RemoteAt(p) ELSE None).by
    BY <1>2, <2>2, <2>3, <2>5, ResolvedForms
  <2>8. /\ mine.files \in Sound
        /\ mine.ok /\ remote[Place(p)] # Dir /\ cache[f.at] # Dir =>
                      /\ mine.files[Place(p)].kind = cache[f.at].kind
                      /\ mine.files[Place(p)].by = cache[f.at].by
    BY <1>2, <2>2, <2>3, <2>6, ResolvedForms
  <2> HIDE DEF mine, theirs
  <2>9. cache' \in Sound /\ remote' \in Sound /\ conflicts' \subseteq conflicts
    BY <1>2, <2>1, <2>7, <2>8
  <2>10. ASSUME NEW c \in conflicts \ conflicts', available, mounted, OfFiles(c) PROVE SameVersion(c)
    <3>1. c = p
      BY <2>1, <2>10
    <3>2. /\ cache'[f.at].kind = remote'[Place(p)].kind
          /\ cache'[f.at].by = remote'[Place(p)].by
      <4>0. cache[f.at] # Dir /\ remote[Place(p)] # Dir
        BY <2>10, <3>1 DEF OfFiles, f
      <4>1. OnServer(f) /\ f.avail
        BY <2>3, <2>10 DEF OnServer
      <4>2. CASE /\ remote' = mine.files /\ cache' = cache /\ mine.ok
        BY <2>8, <4>0, <4>2
      <4>3. CASE /\ cache' = theirs.files /\ remote' = remote /\ theirs.ok
        BY <2>4, <2>7, <2>10, <4>0, <4>1, <4>3
      <4> QED BY <2>1, <2>10, <4>1, <4>2, <4>3
    <3> QED BY <3>1, <3>2 DEF SameVersion, f
  <2> QED BY <1>1, <2>9, <2>10
<1> QED BY <1>3, <1>4 DEF op_setxattr_conflict

--------------------------------------------------------------------------------
(****************************************************************************)
(* Every step keeps files that fit, and the requests and the walk in place. *)
(****************************************************************************)
WalkInPlace ==
  /\ walk.todo \subseteq Straight
  /\ walk.pc \in {"list", "fetch"} => FileInPlace(walk.file)

FitInv == SharesSound /\ CallFits /\ WalkInPlace

LEMMA RequestedInPlace ==
  ASSUME PlainPaths, trees \subseteq AppPaths, NEW p \in AppPaths
  PROVE  FileInPlace(FileOf(p)) /\ FileOf(p).at = Place(p)
BY RequestedIsStraight, AtPlace DEF FileInPlace

LEMMA BeginRequestFits ==
  ASSUME PlainPaths, PartsOK, trees \subseteq AppPaths, BeginRequest
  PROVE  CallFits'
<1> SUFFICES ASSUME NEW call, call = req'
             PROVE  /\ FileInPlace(call.file)
                    /\ call.op = "link" => FileInPlace(call.to)
  BY DEF CallFits, FileInPlace
<1>1. ASSUME NEW op, NEW p \in AppPaths, NEW q \in AppPaths, Asks(op, p, q)
      PROVE  /\ FileInPlace(call.file)
             /\ call.op = "link" => FileInPlace(call.to)
  <2>1. call.op = op /\ call.file = FileOf(p) /\ call.to = FileOf(q)
    BY <1>1 DEF Asks
  <2> QED BY <1>1, <2>1, RequestedInPlace
<1>2. CASE \E p \in AppPaths : fuse_mkdir(p) \/ fuse_mknod(p) \/ fuse_symlink(p) \/ fuse_rmdir(p)
  BY <1>1, <1>2 DEF fuse_mkdir, fuse_mknod, fuse_symlink, fuse_rmdir, MakesNew
<1>3. CASE \E p \in AppPaths : fuse_chmod(p) \/ fuse_chown(p) \/ fuse_utimens(p) \/ fuse_readlink(p)
  BY <1>1, <1>3 DEF fuse_chmod, fuse_chown, fuse_utimens, fuse_readlink
<1>4. CASE \E p, q \in AppPaths : fuse_link(p, q)
  BY <1>1, <1>4 DEF fuse_link
<1>5. CASE \E p \in conflicts, version \in Versions : fuse_setxattr(p, version)
  <2>1. PICK p \in AppPaths : call.op = "setxattr" /\ call.file = FileOf(p)
    BY <1>5 DEF fuse_setxattr, PartsOK, ShareTypeOK
  <2> QED BY <2>1, RequestedInPlace
<1> QED BY <1>2, <1>3, <1>4, <1>5 DEF BeginRequest

LEMMA RunRequestFits ==
  ASSUME PlainPaths, PartsOK, trees \subseteq AppPaths, FitInv, FileRequest
  PROVE  SharesSound' /\ CallFits'
<1>1. /\ cache' \in Sound /\ remote' \in Sound /\ conflicts' \subseteq conflicts /\ now' = now
  <2>1. SharesSound /\ CallFits
    BY DEF FitInv
  <2>2. CASE op_mkdir \/ op_mknod \/ op_rmdir
    BY <2>1, <2>2, MakeSound
  <2>3. CASE op_symlink \/ op_link
    BY <2>1, <2>3, LinkSound
  <2>4. CASE op_chmod \/ op_chown \/ op_utimens \/ op_readlink
    BY <2>1, <2>4, TouchSound
  <2>5. CASE op_setxattr_conflict
    BY <2>1, <2>5, SetConflictSound
  <2> QED BY <2>2, <2>3, <2>4, <2>5 DEF FileRequest
<1>2. req' = NoReq
  BY DEF FileRequest, op_mkdir, op_mknod, op_rmdir, op_symlink, op_link, op_chmod, op_chown,
         ChangesMode, op_utimens, op_readlink, op_setxattr_conflict, Runs
<1>3. CallFits'
  BY <1>2 DEF CallFits, NoReq
<1>4. SharesSound'
  BY <1>1, SoundStays DEF FitInv, SharesSound
<1> QED BY <1>3, <1>4

\* What a step of the walk fetches fits.
LEMMA WalkUpdateSound ==
  ASSUME PlainPaths, PartsOK, trees \subseteq AppPaths, FitInv, NEW p \in Known, p \in Straight,
         NEW u \in update_cache(FileOf(p))
  PROVE  u.files \in Sound /\ u \in SoundOutcomes /\ FileInPlace(FileOf(p))
<1>1. Clock /\ Flags /\ SharesSound
  BY DEF PartsOK, ShareTypeOK, Clock, Flags, FitInv
<1>2. FileOf(p).path \in Known /\ FileInPlace(FileOf(p))
  BY AtPlace DEF FileOf, FileInPlace
<1>3. u \in SoundOutcomes
  BY <1>1, <1>2, UpdateSound
<1> QED BY <1>2, <1>3 DEF SoundOutcomes

\* One entry, with all that the step leaves of the walk.
LEMMA EntryFetched ==
  ASSUME PartsOK, FetchEntry
  PROVE  \E n \in walk.left :
           /\ n \in Names /\ Below(Place(walk.file.path), n) \in Places
           /\ walk'.pc = "fetch" /\ walk'.todo = walk.todo /\ walk'.file = walk.file
           /\ walk'.left = walk.left \ {n}
           /\ LET p == Below(walk.file.path, n) IN
              \/ /\ RemoteAt(p) = None /\ cache' = cache
                 /\ walk'.subdirs = walk.subdirs /\ walk'.files = walk.files
              \/ /\ RemoteAt(p).kind = "dir" /\ cache' = cache
                 /\ walk'.subdirs = walk.subdirs \cup {n} /\ walk'.files = walk.files
              \/ /\ RemoteAt(p) # None /\ RemoteAt(p).kind # "dir"
                 /\ \E u \in update_cache(FileOf(p)) : cache' = u.files
                 /\ walk'.subdirs = walk.subdirs /\ walk'.files = walk.files \cup {n}
<1> DEFINE P(n) == Below(walk.file.path, n)
           next(n) == [walk EXCEPT !.left = @ \ {n}]
           R == [pc : {"fetch"}, todo : SUBSET Known, file : WalkFiles,
                 left : SUBSET Names, subdirs : SUBSET Names, files : SUBSET Names]
<1>1. PICK n \in walk.left :
        \/ RemoteAt(P(n)) = None /\ walk' = next(n) /\ cache' = cache
        \/ /\ RemoteAt(P(n)).kind = "dir" /\ cache' = cache
           /\ walk' = [next(n) EXCEPT !.subdirs = @ \cup {n}]
        \/ /\ RemoteAt(P(n)) # None /\ RemoteAt(P(n)).kind # "dir"
           /\ walk' = [next(n) EXCEPT !.files = @ \cup {n}]
           /\ \E u \in update_cache(FileOf(P(n))) : cache' = u.files
  BY DEF FetchEntry
<1>2. walk \in R /\ walk.pc = "fetch"
  BY WalkCases DEF PartsOK, FetchEntry
<1>3. n \in Names /\ Below(Place(walk.file.path), n) \in Places
  BY <1>1, <1>2 DEF PartsOK, NamesHavePlaces
<1>4. /\ next(n) \in R /\ next(n).file = walk.file /\ next(n).subdirs = walk.subdirs
      /\ next(n).left = walk.left \ {n} /\ next(n).files = walk.files /\ next(n).todo = walk.todo
      /\ next(n).pc = "fetch"
  BY <1>2
<1> HIDE DEF P, next
<1>5. CASE RemoteAt(P(n)) = None /\ walk' = next(n) /\ cache' = cache
  BY <1>1, <1>3, <1>4, <1>5 DEF P
<1>6. CASE /\ RemoteAt(P(n)).kind = "dir" /\ cache' = cache
           /\ walk' = [next(n) EXCEPT !.subdirs = @ \cup {n}]
  <2>1. /\ walk'.file = walk.file /\ walk'.subdirs = walk.subdirs \cup {n}
        /\ walk'.left = walk.left \ {n} /\ walk'.files = walk.files /\ walk'.todo = walk.todo
        /\ walk'.pc = "fetch"
    BY <1>4, <1>6
  <2> QED BY <1>1, <1>3, <1>6, <2>1 DEF P
<1>7. CASE /\ RemoteAt(P(n)) # None /\ RemoteAt(P(n)).kind # "dir"
           /\ walk' = [next(n) EXCEPT !.files = @ \cup {n}]
           /\ \E u \in update_cache(FileOf(P(n))) : cache' = u.files
  <2>1. /\ walk'.file = walk.file /\ walk'.subdirs = walk.subdirs
        /\ walk'.left = walk.left \ {n} /\ walk'.files = walk.files \cup {n}
        /\ walk'.todo = walk.todo /\ walk'.pc = "fetch"
    BY <1>4, <1>7
  <2> QED BY <1>1, <1>3, <1>7, <2>1 DEF P
<1> QED BY <1>1, <1>5, <1>6, <1>7

LEMMA ClearedForm ==
  ASSUME NEW at \in Seq(Letters)
  PROVE  /\ Cleared(at) \subseteq Places \ {Root}
         /\ \A q \in Places \ {Root} : DirOf(q) \in Cleared(at) => q \in Cleared(at)
         /\ \A q \in Cleared(at) : \E n \in Unlisted(at) : InPlace(Below(at, n), q)
<1> DEFINE Entry(n) == Below(at, n)
<1>1. ASSUME NEW n \in Unlisted(at) PROVE n \in Names /\ Entry(n) \in Places /\ Entry(n) \in Seq(Letters)
  BY <1>1, PlaceLetters DEF Unlisted, EntriesIn
<1>2. \A q \in Places : q \in Cleared(at) <=> \E n \in Unlisted(at) : q = Entry(n) \/ Above(Entry(n), q)
  BY DEF Cleared, Above
<1>3. Cleared(at) \subseteq Places
  BY DEF Cleared
<1>4. Root \notin Cleared(at)
  <2> SUFFICES ASSUME NEW n \in Unlisted(at), Root = Entry(n) \/ Above(Entry(n), Root)
               PROVE  FALSE
    BY <1>2, PlaceLetters
  <2>1. Entry(n) # Root
    BY <1>1, DirOfBelow
  <2>2. Len(Root) = 0 /\ Len(Entry(n)) \in Nat /\ Root \in Seq(Letters)
    BY <1>1, PlaceLetters DEF Root
  <2> HIDE DEF Entry
  <2>3. ~Above(Entry(n), Root)
    <3>1. ~(Len(Entry(n)) < Len(Root))
      BY <2>2
    <3> QED BY <1>1, <2>2, <3>1, AboveForm
  <2> QED BY <2>1, <2>3
<1>5. ASSUME NEW q \in Places \ {Root}, DirOf(q) \in Cleared(at) PROVE q \in Cleared(at)
  <2>1. DirOf(q) \in Places /\ \E m \in Names : q = Below(DirOf(q), m)
    BY PlaceCases
  <2>2. PICK m \in Names : q = Below(DirOf(q), m)
    BY <2>1
  <2>3. PICK n \in Unlisted(at) : DirOf(q) = Entry(n) \/ Above(Entry(n), DirOf(q))
    BY <1>2, <1>5, <2>1
  <2>4. Above(Entry(n), q)
    <3>1. DirOf(q) \in Seq(Letters) /\ Entry(n) \in Seq(Letters)
      BY <1>1, <2>1, PlaceLetters
    <3> HIDE DEF Entry
    <3> QED BY <2>2, <2>3, <3>1, AboveEntry
  <2> QED BY <1>2, <2>4
<1>6. ASSUME NEW q \in Cleared(at) PROVE \E n \in Unlisted(at) : InPlace(Below(at, n), q)
  BY <1>2, <1>3, <1>6, InPlaceForm
<1> QED BY <1>3, <1>4, <1>5, <1>6

LEMMA ClearedSound ==
  ASSUME Clock, cache \in Sound, NEW at \in Seq(Letters)
  PROVE  [q \in Places |-> IF q \in Cleared(at) THEN None ELSE cache[q]] \in Sound
BY ClearedForm, SoundDelete

LEMMA UpdateStepFits ==
  ASSUME PlainPaths, PartsOK, trees \subseteq AppPaths, FitInv, UpdateStep, req' = req
  PROVE  FitInv'
<1>1. /\ UNCHANGED <<remote, conflicts, now>>
      /\ Clock
  BY DEF UpdateStep, VisitDir, OpenRemoteDir, FetchEntry, ClearCacheDir, shareVars, PartsOK,
         ShareTypeOK, Clock
<1>2. /\ cache \in Sound /\ remote \in Sound /\ walk.todo \subseteq Straight /\ walk \in Walks
      /\ walk.pc \in {"list", "fetch"} => FileInPlace(walk.file)
  BY DEF FitInv, SharesSound, WalkInPlace, PartsOK
<1>3. cache' \in Sound /\ WalkInPlace'
  <2>1. CASE VisitDir
    <3>1. PICK dir \in walk.todo :
            \E u \in update_cache(FileOf(dir)) :
              /\ cache' = u.files
              /\ \/ walk' = Listing(walk.todo \ {dir}, FileOf(dir))
                 \/ walk' = Visiting(walk.todo \ {dir})
      BY <2>1 DEF VisitDir
    <3>2. dir \in Known /\ dir \in Straight
      BY <1>2, <2>1, WalkCases DEF VisitDir
    <3>3. cache' \in Sound
      BY <3>1, <3>2, WalkUpdateSound
    <3>4. FileInPlace(FileOf(dir))
      BY <3>1, <3>2, WalkUpdateSound
    <3>5. /\ walk'.todo = walk.todo \ {dir}
          /\ walk'.pc = "visit" \/ (walk'.pc = "list" /\ walk'.file = FileOf(dir))
      BY <3>1 DEF Listing, Visiting
    <3> QED BY <1>2, <3>3, <3>4, <3>5 DEF WalkInPlace, FileInPlace
  <2>2. CASE OpenRemoteDir
    <3>1. cache' = cache /\ walk.pc = "list"
      BY <2>2 DEF OpenRemoteDir, shareVars
    <3>2. /\ walk'.todo = walk.todo
          /\ walk'.pc = "visit" \/ (walk'.pc = "fetch" /\ walk'.file = walk.file)
      BY <2>2 DEF OpenRemoteDir, Fetching, Visiting
    <3> QED BY <1>2, <3>1, <3>2 DEF WalkInPlace, FileInPlace
  <2>3. CASE FetchEntry
    <3>1. PICK n \in walk.left :
            /\ n \in Names /\ Below(Place(walk.file.path), n) \in Places
            /\ walk'.pc = "fetch" /\ walk'.todo = walk.todo /\ walk'.file = walk.file
            /\ \/ cache' = cache
               \/ \E u \in update_cache(FileOf(Below(walk.file.path, n))) : cache' = u.files
      BY <2>3, EntryFetched
    <3>2. walk.file.path \in Straight /\ walk.file.path \in Known
      BY <1>2, <2>3, WalkCases DEF FetchEntry, FileInPlace
    <3>3. Below(walk.file.path, n) \in Straight /\ Below(walk.file.path, n) \in Known
      BY <3>1, <3>2, StraightBelow, BelowIsKnown
    <3>4. cache' \in Sound
      BY <1>2, <3>1, <3>3, WalkUpdateSound
    <3>5. FileInPlace(walk.file)
      BY <1>2, <2>3 DEF FetchEntry
    <3> QED BY <1>2, <3>1, <3>4, <3>5 DEF WalkInPlace, FileInPlace
  <2>4. CASE ClearCacheDir
    <3>1. /\ walk.pc = "fetch"
          /\ \/ cache' = [q \in Places |-> IF q \in Cleared(walk.file.at) THEN None ELSE cache[q]]
             \/ cache' = cache
          /\ \/ walk' = Visiting(walk.todo \cup Subdirs)
             \/ walk' = Visiting(walk.todo)
      BY <2>4 DEF ClearCacheDir
    <3>2. FileInPlace(walk.file)
      BY <1>2, <3>1
    <3>3. walk.file.at \in Seq(Letters) /\ walk.file.path \in Straight
      BY <3>2, StraightForms, PlaceLetters DEF FileInPlace
    <3>4. cache' \in Sound
      BY <1>1, <1>2, <3>1, <3>3, ClearedSound
    <3>5. Subdirs \subseteq Straight
      <4> SUFFICES ASSUME NEW n \in walk.subdirs PROVE Below(walk.file.path, n) \in Straight
        BY DEF Subdirs
      <4>1. n \in Names /\ Below(Place(walk.file.path), n) \in Places
        BY <1>2, <3>1, WalkCases DEF PartsOK, NamesHavePlaces
      <4> QED BY <3>3, <4>1, StraightBelow
    <3>6. walk'.pc = "visit" /\ walk'.todo \subseteq walk.todo \cup Subdirs
      BY <3>1 DEF Visiting
    <3> QED BY <1>2, <3>4, <3>5, <3>6 DEF WalkInPlace
  <2> QED BY <2>1, <2>2, <2>3, <2>4 DEF UpdateStep
<1>4. SharesSound'
  BY <1>1, <1>3, SoundStays DEF FitInv, SharesSound
<1>5. CallFits'
  BY DEF FitInv, CallFits, FileInPlace
<1> QED BY <1>3, <1>4, <1>5 DEF FitInv

LEMMA ServerEditFits ==
  ASSUME PartsOK, FitInv, ServerEdit
  PROVE  remote' \in Sound
<1>1. PICK q \in Places \ {Root} :
        \E node \in {None} \cup {Made(kind, "server") : kind \in KindsAt[q]} :
          HasDir(remote, q) /\ remote' = Edited(q, node)
  BY ServerEditForm
<1>2. PICK node \in {None} \cup {Made(kind, "server") : kind \in KindsAt[q]} :
        HasDir(remote, q) /\ remote' = Edited(q, node)
  BY <1>1
<1>3. remote \in Sound /\ Clock /\ remote \in FilesOf
  BY SoundFacts DEF FitInv, SharesSound, PartsOK, ShareTypeOK, Clock
<1>4. Proper(node)
  <2>1. CASE node = None
    BY <1>3, <2>1, ProperNodes
  <2>2. CASE node # None
    <3>1. PICK kind \in KindsAt[q] : node = Made(kind, "server")
      BY <1>2, <2>2
    <3>2. kind \in {"dir", "file", "link"} /\ "server" \in {"server", "user"}
      BY <3>1, KindsHere
    <3> QED BY <1>3, <3>1, <3>2, ProperMade
  <2> QED BY <2>1, <2>2
<1> DEFINE new == Edited(q, node)
<1>5. \A r \in Places : new[r] = IF r = q THEN node ELSE IF Above(q, r) THEN None ELSE remote[r]
  BY DEF Edited, Above
<1>6. new \in FilesOf
  <2>1. \A r \in Places : remote[r] \in Nodes
    BY <1>3 DEF FilesOf
  <2> QED BY <1>4, <2>1, NodesOfPlaces DEF FilesOf, Edited, Proper
<1> HIDE DEF new
<1>7. ASSUME NEW r \in Places, ~(Len(q) < Len(r)) PROVE ~Above(q, r)
  BY <1>7, AboveForm, PlaceLetters
<1>8. new[Root] = Dir
  <2>1. ~(Len(q) < Len(Root))
    BY PlaceLetters DEF Root
  <2> QED BY <1>3, <1>5, <1>7, <2>1, PlaceLetters, SoundFacts
<1>9. \A r \in Places : Proper(new[r])
  BY <1>3, <1>4, <1>5, ProperNodes, SoundFacts
<1>10. ASSUME NEW r \in Places \ {Root}, new[r] # None PROVE new[DirOf(r)] = Dir
  <2>1. PICK n \in Names : r = Below(DirOf(r), n)
    BY PlaceCases
  <2>2. DirOf(r) \in Places /\ DirOf(r) \in Seq(Letters) /\ r \in Seq(Letters)
    BY PlaceCases, PlaceLetters
  <2>3. CASE r = q
    <3>1. Len(DirOf(r)) < Len(r) /\ Len(DirOf(r)) \in Nat
      <4>1. Len(n) \in Nat \ {0} /\ Len(Below(DirOf(r), n)) = Len(DirOf(r)) + 1 + Len(n)
        BY <2>2, BelowLetters
      <4>2. Len(r) = Len(DirOf(r)) + 1 + Len(n) /\ Len(DirOf(r)) \in Nat
        BY <2>1, <2>2, <4>1
      <4> QED BY <4>1, <4>2
    <3>2. DirOf(r) # q /\ ~Above(q, DirOf(r))
      <4>1. ~(Len(q) < Len(DirOf(r))) /\ DirOf(r) # q
        BY <2>2, <2>3, <3>1
      <4> QED BY <1>7, <2>2, <4>1
    <3>3. remote[DirOf(r)] = Dir
      BY <1>2, <1>3, <2>3, SoundFacts
    <3> QED BY <1>5, <2>2, <3>2, <3>3
  <2>4. CASE r # q
    <3>1. ~Above(q, r) /\ remote[r] # None
      BY <1>5, <1>10, <2>4
    <3>2. remote[DirOf(r)] = Dir
      BY <1>3, <3>1 DEF Sound
    <3>3. DirOf(r) # q /\ ~Above(q, DirOf(r))
      <4>1. DirOf(r) = q \/ Above(q, DirOf(r)) => Above(q, r)
        BY <2>1, <2>2, PlaceLetters, AboveEntry
      <4> QED BY <3>1, <4>1
    <3> QED BY <1>5, <2>2, <3>2, <3>3
  <2> QED BY <2>3, <2>4
<1>11. new \in Sound
  BY <1>6, <1>8, <1>9, <1>10 DEF Sound
<1> QED BY <1>2, <1>11 DEF new

LEMMA FitStarts ==
  ASSUME Init
  PROVE  FitInv
<1>1. /\ \A q \in Places : remote[q] \in Originals(q)
      /\ \A q \in Places : remote[q] # None => HasDir(remote, q)
  BY DEF Init, Shares
<1>2. /\ cache = [q \in Places |-> IF q = Root THEN Dir ELSE None]
      /\ conflicts = {} /\ now = 1 /\ walk = AtRest /\ req = NoReq
  BY DEF Init
<1>3. Clock
  BY <1>2, PlacesAssumption DEF Clock
<1>4. \A q \in Places : Proper(remote[q])
  <2> SUFFICES ASSUME NEW q \in Places, NEW node \in Originals(q) PROVE Proper(node)
    BY <1>1
  <2>1. CASE node = None
    BY <1>3, <2>1, ProperNodes
  <2>2. CASE node # None
    <3>1. PICK kind \in KindsAt[q] : node = Original(kind)
      BY <2>2 DEF Originals
    <3>2. node = Made(kind, "server")
      BY <1>2, <3>1 DEF Original, Made
    <3>3. kind \in {"dir", "file", "link"} /\ "server" \in {"server", "user"}
      BY <3>1, KindsHere
    <3> QED BY <1>3, <3>2, <3>3, ProperMade
  <2> QED BY <2>1, <2>2
<1>5. PartsOK
  BY PartsStart
<1>6. remote \in FilesOf /\ cache \in FilesOf
  BY <1>5 DEF PartsOK, ShareTypeOK, FilesOf
<1>7. remote \in Sound
  <2>1. remote[Root] = Dir
    BY <1>1, KindsAssumption, PlaceLetters DEF Originals, Original
  <2>2. ASSUME NEW q \in Places \ {Root}, remote[q] # None PROVE remote[DirOf(q)] = Dir
    <3>1. DirOf(q) \in Places /\ remote[DirOf(q)].kind = "dir"
      BY <1>1, <2>2, PlaceCases DEF HasDir
    <3> QED BY <1>6, <3>1, NodeKinds DEF FilesOf
  <2> QED BY <1>4, <1>6, <2>1, <2>2 DEF Sound
<1>8. cache \in Sound
  <2>1. cache[Root] = Dir /\ \A q \in Places \ {Root} : cache[q] = None
    BY <1>2, PlaceLetters
  <2>2. Proper(Dir)
    BY <1>3, ProperNodes
  <2>3. \A q \in Places : Proper(cache[q])
    BY <1>3, <2>1, <2>2, ProperNodes
  <2> QED BY <1>6, <2>1, <2>3 DEF Sound
<1>9. CallFits /\ WalkInPlace
  BY <1>2 DEF CallFits, NoReq, WalkInPlace, AtRest
<1> QED BY <1>2, <1>7, <1>8, <1>9 DEF FitInv, SharesSound

LEMMA NextKeepsFit ==
  ASSUME PlainPaths, TreesTypeOK, PartsOK, FitInv, [Next]_vars
  PROVE  FitInv'
<1>0. trees \subseteq AppPaths /\ PartsOK'
  BY NextKeepsParts DEF TreesTypeOK
<1>1. CASE BeginRequest
  <2>1. CallFits' /\ UNCHANGED <<shareVars, walk>>
    BY <1>0, <1>1, BeginRequestFits DEF BeginRequest
  <2>2. SharesSound'
    BY <2>1, SoundStays DEF FitInv, SharesSound, shareVars
  <2>3. WalkInPlace'
    BY <2>1 DEF FitInv, WalkInPlace, FileInPlace
  <2> QED BY <2>1, <2>2, <2>3 DEF FitInv
<1>2. CASE RunRequest
  <2>1. SharesSound' /\ CallFits' /\ walk' = walk
    BY <1>0, <1>2, RunRequestFits DEF RunRequest
  <2>2. WalkInPlace'
    BY <2>1 DEF FitInv, WalkInPlace, FileInPlace
  <2> QED BY <2>1, <2>2 DEF FitInv
<1>3. ASSUME UNCHANGED <<walk, req>>, SharesSound' PROVE FitInv'
  <2>1. WalkInPlace'
    BY <1>3 DEF FitInv, WalkInPlace, FileInPlace
  <2>2. CallFits'
    BY <1>3 DEF FitInv, CallFits, FileInPlace
  <2> QED BY <1>3, <2>1, <2>2 DEF FitInv
<1>4. ASSUME UNCHANGED <<remote, cache, conflicts, now>> PROVE SharesSound'
  BY <1>4, SoundStays DEF FitInv, SharesSound
<1>5. CASE \/ Register \/ Remove \/ SetAvailability \/ SaveTrees \/ RemoveTree
           \/ MountShare \/ UNCHANGED vars
  <2>1. UNCHANGED <<walk, req>> /\ UNCHANGED <<remote, cache, conflicts, now>>
    BY <1>5 DEF Register, Remove, SetAvailability, op_setxattr_available,
                op_removexattr_available, SaveTrees, RemoveTree, MountShare, vars, shareVars
  <2> QED BY <1>3, <1>4, <2>1
<1>6. CASE StartUpdate
  <2>1. /\ reg.pc = "update" /\ walk' = Visiting({reg.path})
        /\ UNCHANGED shareVars /\ req' = req
    BY <1>6 DEF StartUpdate, updateCache
  <2>2. reg.path \in Straight
    BY <2>1, WriterCases, RequestedIsStraight DEF TreesTypeOK
  <2>3. WalkInPlace'
    BY <2>1, <2>2 DEF WalkInPlace, Visiting
  <2>4. CallFits'
    BY <2>1 DEF FitInv, CallFits, FileInPlace
  <2>5. SharesSound'
    BY <1>4, <2>1 DEF shareVars
  <2> QED BY <2>3, <2>4, <2>5 DEF FitInv
<1>7. CASE Update
  BY <1>0, <1>7, UpdateStepFits DEF Update
<1>8. CASE FinishRegister
  <2>1. walk' = AtRest /\ UNCHANGED shareVars /\ req' = req
    BY <1>8 DEF FinishRegister, EndUpdate
  <2>2. WalkInPlace'
    BY <2>1 DEF WalkInPlace, AtRest
  <2>3. CallFits'
    BY <2>1 DEF FitInv, CallFits, FileInPlace
  <2>4. SharesSound'
    BY <1>4, <2>1 DEF shareVars
  <2> QED BY <2>2, <2>3, <2>4 DEF FitInv
<1>9. CASE ServerEdit
  <2>1. remote' \in Sound /\ UNCHANGED <<cache, conflicts, now, walk, req>>
    BY <1>9, ServerEditFits DEF ServerEdit
  <2>2. SharesSound'
    BY <2>1, SoundStays DEF FitInv, SharesSound
  <2> QED BY <1>3, <2>1, <2>2
<1>10. CASE ConflictFound
  <2>1. UNCHANGED <<remote, cache, now, walk, req>>
    BY <1>10 DEF ConflictFound
  <2>2. SharesSound'
    BY <2>1, SoundStays DEF FitInv, SharesSound
  <2> QED BY <1>3, <2>1, <2>2
<1>11. CASE Tick
  <2>1. now' = now + 1 /\ UNCHANGED <<remote, cache, conflicts, walk, req>>
    BY <1>11 DEF Tick
  <2>2. now \in Nat /\ MaxTime \in Nat
    BY PlacesAssumption DEF PartsOK, ShareTypeOK
  <2>3. Sound \subseteq Sound'
    BY <2>1, <2>2, SoundGrows
  <2>4. SharesSound'
    BY <2>1, <2>3 DEF FitInv, SharesSound
  <2> QED BY <1>3, <2>1, <2>4
<1>12. CASE Restart
  <2>1. walk' = AtRest /\ req' = NoReq /\ UNCHANGED <<remote, cache, conflicts, now>>
    BY <1>12 DEF Restart
  <2>2. WalkInPlace' /\ CallFits'
    BY <2>1 DEF WalkInPlace, AtRest, CallFits, NoReq
  <2> QED BY <1>4, <2>1, <2>2 DEF FitInv
<1> QED BY <1>1, <1>2, <1>5, <1>6, <1>7, <1>8, <1>9, <1>10, <1>11, <1>12 DEF Next

LEMMA PartsAlways == Spec => [](TreesTypeOK /\ PartsOK)
<1>1. TreesInv => TreesTypeOK
  BY DEF TreesInv
<1>2. TreesInv /\ PartsOK /\ [Next]_vars => PartsOK'
  BY <1>1, NextKeepsParts
<1> QED BY <1>1, <1>2, PartsStart, TreesInvAlways, PTL DEF Spec

LEMMA FitAlways ==
  ASSUME PlainPaths
  PROVE  Spec => []FitInv
<1>1. Init => FitInv
  BY FitStarts
<1>2. TreesTypeOK /\ PartsOK /\ FitInv /\ [Next]_vars => FitInv'
  BY NextKeepsFit
<1> QED BY <1>1, <1>2, PartsAlways, PTL DEF Spec

\* In a share of any size, when paths are plain: whatever is made, changed and deleted
\* on either side in any order, a conflict of files or links leaves the list only when
\* both sides have one version of the file, unless the share has gone while the request
\* waited.
THEOREM ResolutionAgreesAlways ==
  ASSUME PlainPaths
  PROVE  Spec => ResolutionAgrees
<1>1. ASSUME TreesTypeOK, PartsOK, FitInv, [Next]_vars, NEW p \in AppPaths, IsResolved(p), OfFiles(p)
      PROVE  SameVersion(p)
  <2>0. /\ p \in conflicts \ conflicts'
        /\ req.file.avail /\ available /\ mounted
    BY <1>1 DEF IsResolved
  <2>1. CASE op_setxattr_conflict
    BY <1>1, <2>0, <2>1, SetConflictSound DEF FitInv, TreesTypeOK
  <2>2. CASE ~op_setxattr_conflict
    <3>1. conflicts \subseteq conflicts'
      BY <1>1, <2>2
         DEF Next, vars, shareVars, BeginRequest, RunRequest, FileRequest, op_mkdir, op_mknod, op_rmdir,
             op_symlink, op_link, op_chmod, op_chown, ChangesMode, op_utimens, op_readlink,
             Register, Remove, SetAvailability, op_setxattr_available,
             op_removexattr_available, SaveTrees, StartUpdate, updateCache, Update, UpdateStep,
             VisitDir, OpenRemoteDir, FetchEntry, ClearCacheDir, FinishRegister, EndUpdate,
             RemoveTree, ServerEdit, MountShare, ConflictFound, Tick, Restart
    <3> QED BY <2>0, <3>1
  <2> QED BY <2>1, <2>2
<1>2. TreesTypeOK /\ PartsOK /\ FitInv /\ [Next]_vars
        => [\A p \in AppPaths : IsResolved(p) /\ OfFiles(p) => SameVersion(p)]_vars
  BY <1>1
<1> QED BY <1>2, FitAlways, PartsAlways, PTL DEF Spec, ResolutionAgrees

--------------------------------------------------------------------------------
(****************************************************************************)
(* An update that nobody disturbs: it is within its tree, and what it has   *)
(* read of a directory is what the server has there.                        *)
(****************************************************************************)
Undisturbed == calm # "no" /\ walk.pc # "rest"

Here == Place(walk.file.path)
InWork == walk.todo \cup (IF walk.pc \in {"list", "fetch"} THEN {walk.file.path} ELSE {})
OfTree(d) == Begins(reg.path, d) /\ (reg.path # RootPath => d \in Places)

ReadsRemote ==
  walk.pc = "fetch" =>
    /\ remote[Here] = Dir
    /\ EntriesIn(remote, Here) \subseteq walk.left \cup walk.subdirs \cup walk.files
    /\ walk.left \cup walk.subdirs \cup walk.files \subseteq EntriesIn(remote, Here)
    /\ \A n \in walk.subdirs : remote[Below(Here, n)] = Dir
    /\ \A n \in walk.files : remote[Below(Here, n)] # Dir

CalmInv ==
  Undisturbed =>
    /\ reg.pc = "update" /\ InTree(reg.path) /\ available = TRUE /\ mounted = TRUE
    /\ walk.pc \in {"list", "fetch"} => walk.file.avail = TRUE
    /\ \A d \in InWork : OfTree(d)
    /\ ReadsRemote

LEMMA BelowOfTree ==
  ASSUME TreesTypeOK, reg.pc = "update", NEW d \in Straight, OfTree(d), NEW n \in Names,
         Below(Place(d), n) \in Places
  PROVE  OfTree(Below(d, n))
<1>1. d \in Seq(Letters) /\ reg.path \in Seq(Letters)
  BY StraightForms, WriterCases, LetterSequences DEF TreesTypeOK
<1>2. /\ Len(Below(d, n)) = Len(d) + 1 + Len(n) /\ Len(n) \in Nat \ {0}
      /\ \A i \in 1 .. Len(d) : Below(d, n)[i] = d[i]
  BY <1>1, BelowLetters
<1>3. Len(d) \in Nat /\ Len(reg.path) \in Nat /\ Begins(reg.path, d)
  BY <1>1 DEF OfTree
<1>4. Begins(reg.path, Below(d, n))
  BY <1>2, <1>3 DEF Begins
<1>5. reg.path # RootPath => Below(d, n) \in Places
  BY PlacesArePlain DEF OfTree
<1> QED BY <1>4, <1>5 DEF OfTree

\* What the walk has in hand, as the invariants before say.
LEMMA WalkFacts ==
  ASSUME TreesTypeOK, PartsOK, FitInv
  PROVE  /\ trees \subseteq AppPaths /\ calm \in {"no", "mixed", "alike"} /\ walk \in Walks
         /\ cache \in Sound /\ remote \in Sound /\ Clock /\ Flags
         /\ walk.todo \subseteq Straight /\ walk.todo \subseteq Known
         /\ walk.pc \in {"list", "fetch"} =>
              /\ walk.file.path \in Straight /\ walk.file.path \in Known
              /\ walk.file.at = Here /\ Here \in Places /\ Here \in Seq(Letters)
         /\ walk.pc = "fetch" =>
              /\ walk.left \subseteq Names /\ walk.subdirs \subseteq Names /\ walk.files \subseteq Names
<1>1. /\ trees \subseteq AppPaths /\ calm \in {"no", "mixed", "alike"} /\ walk \in Walks
      /\ cache \in Sound /\ remote \in Sound /\ Clock /\ Flags
      /\ walk.todo \subseteq Straight
  BY DEF TreesTypeOK, PartsOK, FitInv, SharesSound, WalkInPlace, ShareTypeOK, Clock, Flags
<1>2. walk.todo \subseteq Known
  <2>1. CASE walk = AtRest
    BY <2>1 DEF AtRest
  <2>2. CASE walk # AtRest
    BY <1>1, <2>2 DEF Walks
  <2> QED BY <2>1, <2>2
<1>3. walk.pc \in {"list", "fetch"} =>
        /\ walk.file.path \in Straight /\ walk.file.path \in Known /\ walk.file.at = Here
  BY <1>1, WalkCases DEF FitInv, WalkInPlace, FileInPlace, Here
<1>4. walk.pc \in {"list", "fetch"} => Here \in Places /\ Here \in Seq(Letters)
  BY <1>3, StraightForms, PlaceLetters DEF Here
<1> QED BY <1>1, <1>2, <1>3, <1>4, WalkCases

LEMMA EntryPlace ==
  ASSUME TreesTypeOK, PartsOK, FitInv, walk.pc = "fetch",
         NEW n \in Names, Below(Here, n) \in Places
  PROVE  /\ Below(walk.file.path, n) \in Straight /\ Below(walk.file.path, n) \in Known
         /\ Place(Below(walk.file.path, n)) = Below(Here, n)
         /\ mounted = TRUE => RemoteAt(Below(walk.file.path, n)) = remote[Below(Here, n)]
<1>1. walk.file.path \in Straight /\ walk.file.path \in Known
  BY WalkFacts
<1>2. /\ Below(walk.file.path, n) \in Straight /\ Below(walk.file.path, n) \in Known
      /\ Place(Below(walk.file.path, n)) = Below(Here, n)
  BY <1>1, StraightBelow, BelowIsKnown DEF Here
<1> QED BY <1>2 DEF RemoteAt

LEMMA UpdateStepCalm ==
  ASSUME PlainPaths, TreesTypeOK, PartsOK, FitInv, CalmInv, UpdateStep, UNCHANGED <<treeVars, req>>
  PROVE  CalmInv'
<1> SUFFICES ASSUME calm' # "no", walk'.pc # "rest"
             PROVE  /\ walk'.pc \in {"list", "fetch"} => walk'.file.avail = TRUE
                    /\ \A d \in InWork' : OfTree(d)
                    /\ ReadsRemote'
                    /\ Undisturbed /\ UNCHANGED <<available, mounted>>
  BY DEF CalmInv, Undisturbed, OfTree, treeVars, InTree
<1>1. UNCHANGED <<remote, available, mounted, calm>> /\ calm # "no"
  BY DEF UpdateStep, VisitDir, OpenRemoteDir, FetchEntry, ClearCacheDir, shareVars
<1>2. walk.pc \in {"visit", "list", "fetch"} /\ Undisturbed
  BY <1>1 DEF UpdateStep, VisitDir, OpenRemoteDir, FetchEntry, ClearCacheDir, Undisturbed
<1>3. /\ reg.pc = "update" /\ available = TRUE /\ mounted = TRUE
      /\ walk.pc \in {"list", "fetch"} => walk.file.avail = TRUE
      /\ \A d \in InWork : OfTree(d)
      /\ ReadsRemote
  BY <1>2 DEF CalmInv
<1>4. /\ walk.todo \subseteq InWork
      /\ walk.pc \in {"list", "fetch"} => walk.file.path \in InWork
  BY DEF InWork
<1>5. CASE VisitDir
  <2>1. PICK dir \in walk.todo :
              \/ walk' = Listing(walk.todo \ {dir}, FileOf(dir))
              \/ walk' = Visiting(walk.todo \ {dir})
    BY <1>5 DEF VisitDir
  <2>2. FileOf(dir).path = dir /\ FileOf(dir).avail = TRUE
    BY <1>3 DEF FileOf
  <2>3. \/ /\ walk'.pc = "list" /\ walk'.file = FileOf(dir) /\ walk'.todo = walk.todo \ {dir}
        \/ /\ walk'.pc = "visit" /\ walk'.todo = walk.todo \ {dir}
    BY <2>1 DEF Listing, Visiting
  <2>4. InWork' \subseteq walk.todo
    BY <2>1, <2>2, <2>3 DEF InWork
  <2> QED BY <1>1, <1>2, <1>3, <1>4, <2>2, <2>3, <2>4 DEF ReadsRemote
<1>6. CASE OpenRemoteDir
  <2>1. /\ walk.pc = "list"
        /\ \/ /\ RemoteAt(walk.file.path).kind = "dir"
              /\ walk' = Fetching(walk.todo, walk.file, EntriesIn(remote, Here), {}, {})
           \/ walk' = Visiting(walk.todo)
    BY <1>3, <1>6 DEF OpenRemoteDir, Here
  <2>2. CASE walk' = Visiting(walk.todo)
    <3>1. walk'.pc = "visit" /\ walk'.todo = walk.todo
      BY <2>2 DEF Visiting
    <3>2. InWork' \subseteq walk.todo
      BY <3>1 DEF InWork
    <3> QED BY <1>1, <1>2, <1>3, <1>4, <3>1, <3>2 DEF ReadsRemote
  <2>3. CASE /\ RemoteAt(walk.file.path).kind = "dir"
             /\ walk' = Fetching(walk.todo, walk.file, EntriesIn(remote, Here), {}, {})
    <3>1. /\ walk'.pc = "fetch" /\ walk'.todo = walk.todo /\ walk'.file = walk.file
          /\ walk'.left = EntriesIn(remote, Here) /\ walk'.subdirs = {} /\ walk'.files = {}
      BY <2>3 DEF Fetching
    <3>2. InWork' \subseteq InWork /\ Here' = Here
      BY <2>1, <3>1 DEF InWork, Here
    <3>3. Here \in Places /\ remote \in Sound
      BY <2>1, WalkFacts
    <3>4. remote[Here] = Dir
      <4>1. RemoteAt(walk.file.path) = remote[Here]
        BY <1>3 DEF RemoteAt, Here
      <4>2. remote[Here].kind = "dir"
        BY <2>3, <4>1
      <4>3. remote[Here] \in Nodes
        BY <3>3, SoundFacts
      <4> QED BY <4>2, <4>3, NodeKinds
    <3>5. ReadsRemote'
      <4>1. EntriesIn(remote, Here)' = EntriesIn(remote, Here)
        BY <1>1, <3>2 DEF EntriesIn
      <4>2. (remote[Here])' = remote[Here]
        BY <1>1, <3>2
      <4> QED BY <3>1, <3>4, <4>1, <4>2 DEF ReadsRemote
    <3> QED BY <1>1, <1>2, <1>3, <2>1, <3>1, <3>2, <3>5
  <2> QED BY <2>1, <2>2, <2>3
<1>7. CASE FetchEntry
  <2>1. PICK n \in walk.left :
           /\ n \in Names /\ Below(Here, n) \in Places
           /\ walk'.pc = "fetch" /\ walk'.todo = walk.todo /\ walk'.file = walk.file
           /\ walk'.left = walk.left \ {n}
           /\ LET p == Below(walk.file.path, n) IN
              \/ /\ RemoteAt(p) = None
                 /\ walk'.subdirs = walk.subdirs /\ walk'.files = walk.files
              \/ /\ RemoteAt(p).kind = "dir"
                 /\ walk'.subdirs = walk.subdirs \cup {n} /\ walk'.files = walk.files
              \/ /\ RemoteAt(p) # None /\ RemoteAt(p).kind # "dir"
                 /\ walk'.subdirs = walk.subdirs /\ walk'.files = walk.files \cup {n}
    BY <1>7, EntryFetched DEF Here
  <2>2. walk.pc = "fetch"
    BY <1>7 DEF FetchEntry
  <2>3. InWork' = InWork /\ Here' = Here
    BY <2>1, <2>2 DEF InWork, Here
  <2>4. RemoteAt(Below(walk.file.path, n)) = remote[Below(Here, n)]
    BY <1>3, <2>1, <2>2, EntryPlace
  <2>5. /\ remote[Here] = Dir
        /\ EntriesIn(remote, Here) \subseteq walk.left \cup walk.subdirs \cup walk.files
        /\ walk.left \cup walk.subdirs \cup walk.files \subseteq EntriesIn(remote, Here)
        /\ \A m \in walk.subdirs : remote[Below(Here, m)] = Dir
        /\ \A m \in walk.files : remote[Below(Here, m)] # Dir
    BY <1>3, <2>2 DEF ReadsRemote
  <2>6. remote[Below(Here, n)] # None
    BY <2>1, <2>5 DEF EntriesIn
  <2>7. remote[Below(Here, n)].kind = "dir" <=> remote[Below(Here, n)] = Dir
    <3>1. remote[Below(Here, n)] \in Nodes
      BY <2>1, WalkFacts, SoundFacts
    <3> QED BY <3>1, NodeKinds
  <2>8. ReadsRemote'
    <3>1. EntriesIn(remote, Here)' = EntriesIn(remote, Here)
      BY <1>1, <2>3 DEF EntriesIn
    <3>2. /\ EntriesIn(remote, Here) \subseteq walk'.left \cup walk'.subdirs \cup walk'.files
          /\ walk'.left \cup walk'.subdirs \cup walk'.files \subseteq EntriesIn(remote, Here)
      BY <2>1, <2>4, <2>5, <2>6
    <3>3. /\ \A m \in walk'.subdirs : remote[Below(Here, m)] = Dir
          /\ \A m \in walk'.files : remote[Below(Here, m)] # Dir
      BY <2>1, <2>4, <2>5, <2>6, <2>7
    <3>4. \A m : (remote[Below(Here, m)])' = remote[Below(Here, m)]
      BY <1>1, <2>3
    <3>5. (remote[Here])' = Dir
      BY <1>1, <2>3, <2>5
    <3> QED BY <1>1, <2>1, <2>3, <3>1, <3>2, <3>3, <3>4, <3>5 DEF ReadsRemote
  <2> QED BY <1>1, <1>2, <1>3, <2>1, <2>2, <2>3, <2>8
<1>8. CASE ClearCacheDir
  <2>1. walk.pc = "fetch" /\ (walk' = Visiting(walk.todo \cup Subdirs) \/ walk' = Visiting(walk.todo))
    BY <1>8 DEF ClearCacheDir
  <2>2. walk'.pc = "visit" /\ walk'.todo \subseteq walk.todo \cup Subdirs
    BY <2>1 DEF Visiting
  <2>3. InWork' \subseteq walk.todo \cup Subdirs
    BY <2>2 DEF InWork
  <2>4. \A d \in Subdirs : OfTree(d)
    <3> SUFFICES ASSUME NEW n \in walk.subdirs PROVE OfTree(Below(walk.file.path, n))
      BY DEF Subdirs
    <3>1. n \in Names /\ Below(Here, n) \in Places
      BY <1>3, <2>1 DEF ReadsRemote, EntriesIn
    <3>2. OfTree(walk.file.path) /\ walk.file.path \in Straight
      BY <1>3, <1>4, <2>1, WalkFacts
    <3> QED BY <1>3, <3>1, <3>2, BelowOfTree DEF Here
  <2> QED BY <1>1, <1>2, <1>3, <1>4, <2>2, <2>3, <2>4 DEF ReadsRemote
<1> QED BY <1>5, <1>6, <1>7, <1>8 DEF UpdateStep

LEMMA StartUpdateCalm ==
  ASSUME PlainPaths, TreesTypeOK, PartsOK, StartUpdate
  PROVE  CalmInv'
<1>1. /\ reg.pc = "update" /\ walk' = Visiting({reg.path})
      /\ calm' # "no" => StartsCalm(reg.path)
      /\ UNCHANGED shareVars /\ UNCHANGED treeVars
  BY DEF StartUpdate, updateCache
<1>2. SUFFICES ASSUME calm' # "no"
               PROVE  /\ InTree(reg.path) /\ available = TRUE /\ mounted = TRUE
                      /\ OfTree(reg.path)
  <2>1. walk'.pc = "visit" /\ walk'.todo = {reg.path} /\ InWork' = {reg.path}
    BY <1>1 DEF Visiting, InWork
  <2> QED BY <1>1, <2>1 DEF CalmInv, Undisturbed, ReadsRemote, OfTree, InTree, treeVars, shareVars
<1>3. InTree(reg.path) /\ available = TRUE /\ mounted = TRUE
  BY <1>1, <1>2 DEF StartsCalm, PartsOK, ShareTypeOK
<1>4. OfTree(reg.path)
  <2>1. reg.path \in AppPaths
    BY <1>1, WriterCases DEF TreesTypeOK
  <2>2. reg.path # RootPath => reg.path \in Places
    BY <2>1, PlainForms
  <2>3. Len(reg.path) <= Len(reg.path)
    BY <2>1, LetterSequences
  <2> QED BY <2>2, <2>3 DEF OfTree, Begins
<1> QED BY <1>3, <1>4

\* What neither disturbs an update nor is one of its steps.
LEMMA OthersKeepCalm ==
  ASSUME [Next]_vars, ~StartUpdate, ~Update, Undisturbed', reg.pc = "update" \/ ~Undisturbed
  PROVE  /\ Undisturbed
         /\ UNCHANGED <<treeVars, remote, cache, available, mounted, conflicts, walk, calm>>
<1>1. calm' # "no" /\ walk'.pc # "rest"
  BY DEF Undisturbed
<1>2. CASE BeginRequest \/ Tick \/ UNCHANGED vars
  BY <1>1, <1>2 DEF BeginRequest, Tick, vars, shareVars, Undisturbed
<1>3. CASE \/ RunRequest \/ Remove \/ SetAvailability \/ RemoveTree \/ ServerEdit \/ MountShare
           \/ ConflictFound \/ Restart
  BY <1>1, <1>3 DEF RunRequest, Remove, SetAvailability, RemoveTree, ServerEdit, MountShare,
                    ConflictFound, Restart
<1>4. CASE FinishRegister
  BY <1>1, <1>4 DEF FinishRegister, EndUpdate, AtRest
<1>5. CASE Register \/ SaveTrees
  <2>1. reg.pc # "update"
    BY <1>5 DEF Register, op_setxattr_offline, register_Backingtree, InstanceFree, Free,
                SaveTrees, RegTruncate, RegWrite
  <2>2. calm' = calm /\ walk' = walk
    BY <1>5 DEF Register, SaveTrees
  <2>3. Undisturbed
    BY <1>1, <2>2 DEF Undisturbed
  <2> QED BY <2>1, <2>3
<1> QED BY <1>2, <1>3, <1>4, <1>5 DEF Next

LEMMA NextKeepsCalm ==
  ASSUME PlainPaths, TreesTypeOK, PartsOK, FitInv, CalmInv, [Next]_vars
  PROVE  CalmInv'
<1>1. CASE StartUpdate
  BY <1>1, StartUpdateCalm
<1>2. CASE Update
  BY <1>2, UpdateStepCalm DEF Update
<1>3. CASE ~StartUpdate /\ ~Update
  <2> SUFFICES ASSUME Undisturbed' PROVE CalmInv'
    BY DEF CalmInv
  <2>1. /\ Undisturbed
        /\ UNCHANGED <<treeVars, remote, cache, available, mounted, conflicts, walk, calm>>
    BY <1>3, OthersKeepCalm DEF CalmInv
  <2> QED BY <2>1 DEF CalmInv, treeVars, InTree, InWork, OfTree, ReadsRemote, Here, EntriesIn
<1> QED BY <1>1, <1>2, <1>3

LEMMA CalmAlways ==
  ASSUME PlainPaths
  PROVE  Spec => []CalmInv
<1>1. Init => CalmInv
  BY DEF Init, CalmInv, Undisturbed
<1>2. TreesTypeOK /\ PartsOK /\ FitInv /\ CalmInv /\ [Next]_vars => CalmInv'
  BY NextKeepsCalm
<1> QED BY <1>1, <1>2, FitAlways, PartsAlways, PTL DEF Spec

LEMMA SoundAbove ==
  ASSUME NEW files \in Sound, NEW a \in Places, NEW q \in Places, a = Root \/ Above(a, q),
         HasDir(files, q)
  PROVE  files[a] = Dir
<1>1. CASE a = Root
  BY <1>1, SoundFacts
<1>2. CASE Above(a, q)
  <2> DEFINE S == {p \in Places : files[p] # None \/ p = q}
             D == {p \in Places : files[p] = Dir}
  <2>1. ASSUME NEW p \in Places \ {Root}, p \in S PROVE DirOf(p) \in S /\ DirOf(p) \in D
    <3>1. HasDir(files, p)
      BY <2>1, SoundFacts
    <3>2. DirOf(p) \in Places /\ files[DirOf(p)] = Dir
      BY <3>1, PlaceCases, SoundFacts
    <3> QED BY <3>2, NodeKinds
  <2>2. q \in S
    OBVIOUS
  <2> HIDE DEF S, D
  <2>3. a \in D
    BY <1>2, <2>1, <2>2, AboveIn
  <2> QED BY <2>3 DEF D
<1> QED BY <1>1, <1>2

LEMMA NothingBelow ==
  ASSUME NEW files \in Sound, NEW a \in Places, NEW q \in Places, Above(a, q), files[a] # Dir
  PROVE  files[q] = None
BY SoundAbove, SoundFacts

\* What is cleared has gone from the server, unless it was a directory on one side and
\* none on the other.
LEMMA NotCleared ==
  ASSUME TreesTypeOK, PartsOK, FitInv, CalmInv, Undisturbed, walk.pc = "fetch", walk.left = {},
         NEW q \in Cleared(Here), cache[q] # None, Alike(q)
  PROVE  remote[q] = None
<1>1. cache \in Sound /\ remote \in Sound /\ Here \in Seq(Letters)
  BY WalkFacts
<1>2. EntriesIn(remote, Here) \subseteq walk.subdirs \cup walk.files
      /\ (\A n \in walk.subdirs : remote[Below(Here, n)] = Dir)
      /\ (\A n \in walk.files : remote[Below(Here, n)] # Dir)
  BY DEF CalmInv, ReadsRemote
<1>3. q \in Places \ {Root} /\ \E n \in Unlisted(Here) : InPlace(Below(Here, n), q)
  BY <1>1, ClearedForm
<1>4. PICK n \in Unlisted(Here) : InPlace(Below(Here, n), q)
  BY <1>3
<1> DEFINE b == Below(Here, n)
<1>5. /\ n \in Names /\ b \in Places /\ cache[b] # None
      /\ n \notin (IF cache[b].kind = "dir" THEN walk.subdirs ELSE walk.files)
  BY <1>4 DEF Unlisted, EntriesIn
<1>6. cache[b].kind = "dir" <=> cache[b] = Dir
  BY <1>1, <1>5, SoundFacts, NodeKinds
<1>7. remote[b] # None => n \in walk.subdirs \cup walk.files
  BY <1>2, <1>5 DEF EntriesIn
<1>8. CASE q = b
  <2> SUFFICES ASSUME remote[b] # None PROVE FALSE
    BY <1>8
  <2>1. cache[b] = Dir <=> remote[b] = Dir
    BY <1>5, <1>8 DEF Alike
  <2> QED BY <1>2, <1>5, <1>6, <1>7, <2>1
<1>9. CASE Above(b, q)
  <2> SUFFICES ASSUME remote[q] # None PROVE FALSE
    OBVIOUS
  <2>1. remote[b] = Dir
    <3>1. HasDir(remote, q)
      BY <1>1, <1>3, SoundFacts
    <3> HIDE DEF b
    <3> QED BY <1>1, <1>3, <1>5, <1>9, <3>1, SoundAbove
  <2>2. n \in walk.subdirs
    BY <1>2, <1>7, <2>1, NodeKinds
  <2>3. cache[b] # Dir
    BY <1>5, <1>6, <2>2
  <2>4. cache[q] = None
    <3> HIDE DEF b
    <3> QED BY <1>1, <1>3, <1>5, <1>9, <2>3, NothingBelow
  <2> QED BY <2>4
<1> HIDE DEF b
<1> QED BY <1>3, <1>4, <1>5, <1>8, <1>9, InPlaceForm DEF b

\* A file in conflict is not fetched over.
LEMMA ConflictNotFetched ==
  ASSUME PlainPaths, TreesTypeOK, PartsOK, FitInv, mounted = TRUE,
         NEW a \in Places, isConflicted(a), remote[a].kind \in {"file", "link"},
         NEW d \in Known, d \in Places, NEW u \in update_cache(FileOf(d))
  PROVE  u.files[a] = cache[a]
<1> DEFINE X == {w \in Outcomes : w.files[a] = cache[a]}
           f == FileOf(d)
<1>1. /\ trees \subseteq AppPaths /\ cache \in Sound /\ remote \in Sound /\ Clock /\ Flags
  BY WalkFacts
<1>2. Unfetched \in X
  BY <1>1, SoundFacts DEF Unfetched, Outcomes
<1>3. f.path = d /\ d \in Straight /\ FileInPlace(f)
  BY <1>1, AtPlace DEF FileOf, Straight, FileInPlace
<1>4. ASSUME NEW g \in OnTheWay(f), Updates(g, RemoteAt(g.path)), NEW before \in X
      PROVE  Fetched(before, g, RemoteAt(g.path)) \subseteq X
  <2>0. SUFFICES ASSUME NEW after \in Fetched(before, g, RemoteAt(g.path)) PROVE after \in X
    OBVIOUS
  <2>1. g.at = Place(g.path) /\ g.at \in Places
    BY <1>1, <1>3, OnTheWayInPlace DEF FileInPlace
  <2>2. g.path \in Places
    BY <1>3, StraightWay
  <2>3. g.at = g.path
    BY <2>1, <2>2, PlacesArePlain
  <2>4. RemoteAt(g.path) = remote[g.at] /\ RemoteAt(g.path) \in Nodes
    BY <1>1, <2>1, SoundFacts DEF RemoteAt
  <2>5. g.at # a
    <3> SUFFICES ASSUME g.at = a PROVE FALSE
      OBVIOUS
    <3>1. isConflicted(g.path) /\ RemoteAt(g.path).kind # "dir"
      BY <2>3, <2>4
    <3> QED BY <1>4, <3>1 DEF Updates
  <2>6. before \in Outcomes /\ before.files[a] = cache[a] /\ before.files \in FilesOf
    BY DEF Outcomes
  <2> DEFINE r == RemoteAt(g.path)
             put == [before.files EXCEPT ![g.at] = Made(r.kind, r.by)]
  <2>7. after \in Outcomes
    BY <1>1, <2>0, <2>4, <2>6, FetchedType
  <2>8. put[a] = before.files[a]
    BY <2>5, <2>6 DEF FilesOf
  <2>9. \/ after = before
        \/ after = [before EXCEPT !.files = put]
        \/ after = [before EXCEPT !.ok = FALSE]
    <3>1. [before EXCEPT !.files[g.at] = Made(r.kind, r.by)] = [before EXCEPT !.files = put]
      BY <2>6
    <3>2. \/ after = before
          \/ after = [before EXCEPT !.files[g.at] = Made(r.kind, r.by)]
          \/ after = [before EXCEPT !.ok = FALSE]
      BY <2>0, FetchedForms
    <3> QED BY <3>1, <3>2
  <2> HIDE DEF put, r
  <2>10. after.files[a] = cache[a]
    BY <2>6, <2>8, <2>9 DEF Outcomes
  <2> QED BY <2>7, <2>10
<1> HIDE DEF X, f
<1>5. update_cache(f) \subseteq X
  BY <1>2, <1>3, <1>4, UpdateWithin
<1> QED BY <1>5 DEF X, f

\* In a share of any size: the update of a tree other than "/" leaves the user's file
\* or link in conflict with one on the server to its user, whichever directory the update
\* is in, whatever it has fetched and cleared before, and whatever else the share holds.
THEOREM ConflictSurvivesAlways ==
  ASSUME PlainPaths
  PROVE  Spec => ConflictSurvivesUpdate
<1>1. ASSUME TreesTypeOK, PartsOK, FitInv, CalmInv, UpdateStep, calm # "no", reg.path # RootPath,
             NEW p \in AppPaths, isConflicted(p), remote[Place(p)].kind \in {"file", "link"},
             cache[FileOf(p).at].kind \in {"file", "link"}
      PROVE  cache'[FileOf(p).at] = cache[FileOf(p).at]
  <2>1. /\ trees \subseteq AppPaths /\ cache \in Sound /\ remote \in Sound
        /\ walk.todo \subseteq Known
    BY <1>1, WalkFacts
  <2>2. Undisturbed
    BY <1>1 DEF Undisturbed, UpdateStep, VisitDir, OpenRemoteDir, FetchEntry, ClearCacheDir
  <2>3. mounted = TRUE /\ \A d \in InWork : d \in Places
    BY <1>1, <2>2 DEF CalmInv, OfTree
  <2>4. p \in Places /\ Place(p) = p /\ FileOf(p).at = p
    <3>1. FileOf(p).at = Place(p)
      BY <2>1, RequestedInPlace
    <3>2. p # RootPath
      <4>1. Place(RootPath) = Root
        <5>1. RootPath = <<Slash>> \o Root
          BY DEF RootPath, Root
        <5> QED BY <5>1, SlashedPlace, PlaceLetters
      <4> QED BY <1>1, <2>1, <4>1, SoundFacts, NodeKinds
    <3> QED BY <3>1, <3>2, PlainForms
  <2>5. CASE VisitDir
    <3>1. PICK dir \in walk.todo : \E u \in update_cache(FileOf(dir)) : cache' = u.files
      BY <2>5 DEF VisitDir
    <3>2. dir \in Known /\ dir \in Places
      BY <2>1, <2>3 DEF InWork
    <3> QED BY <1>1, <2>3, <2>4, <3>1, <3>2, ConflictNotFetched
  <2>6. CASE OpenRemoteDir
    BY <2>6 DEF OpenRemoteDir, shareVars
  <2>7. CASE FetchEntry
    <3>1. PICK n \in walk.left :
            /\ n \in Names /\ Below(Here, n) \in Places
            /\ \/ cache' = cache
               \/ \E u \in update_cache(FileOf(Below(walk.file.path, n))) : cache' = u.files
      BY <1>1, <2>7, EntryFetched DEF Here
    <3>2. walk.pc = "fetch"
      BY <2>7 DEF FetchEntry
    <3>3. walk.file.path \in Places
      BY <2>3, <3>2 DEF InWork
    <3>4. Below(walk.file.path, n) \in Known /\ Below(walk.file.path, n) \in Places
      BY <1>1, <3>1, <3>2, <3>3, EntryPlace, PlacesArePlain DEF Here
    <3> QED BY <1>1, <2>3, <2>4, <3>1, <3>4, ConflictNotFetched
  <2>8. CASE ClearCacheDir
    <3>1. /\ walk.pc = "fetch" /\ walk.left = {}
          /\ \/ cache' = cache
             \/ cache' = [q \in Places |-> IF q \in Cleared(walk.file.at) THEN None ELSE cache[q]]
      BY <2>8 DEF ClearCacheDir
    <3>2. walk.file.at = Here
      BY <1>1, <3>1, WalkFacts
    <3>3. p \notin Cleared(Here)
      <4>1. remote[p] \notin {None, Dir} /\ cache[p] \notin {None, Dir}
        BY <1>1, <2>4, NodeKinds
      <4>2. Alike(p)
        BY <4>1 DEF Alike
      <4> QED BY <1>1, <2>2, <3>1, <4>1, <4>2, NotCleared
    <3> QED BY <2>4, <3>1, <3>2, <3>3
  <2> QED BY <1>1, <2>5, <2>6, <2>7, <2>8 DEF UpdateStep
<1>2. TreesTypeOK /\ PartsOK /\ FitInv /\ CalmInv /\ [Next]_vars
        => [KeepsConflicts(UpdateStep, {"file", "link"})]_vars
  <2> SUFFICES ASSUME TreesTypeOK, PartsOK, FitInv, CalmInv
               PROVE  KeepsConflicts(UpdateStep, {"file", "link"})
    OBVIOUS
  <2>1. \A p \in AppPaths : op_getxattr(FileOf(p), "conflict") => isConflicted(p)
    BY DEF op_getxattr, FileOf
  <2> QED BY <1>1, <2>1 DEF KeepsConflicts
<1> QED BY <1>2, FitAlways, CalmAlways, PartsAlways, PTL DEF Spec, ConflictSurvivesUpdate

--------------------------------------------------------------------------------
(****************************************************************************)
(* What one update_cache of an undisturbed update fetches.                  *)
(****************************************************************************)
LEMMA BeginsInPlace ==
  ASSUME PlainPaths, NEW p \in AppPaths, NEW q \in AppPaths, Begins(p, q), p # RootPath
  PROVE  InPlace(Place(p), Place(q)) /\ q # RootPath
<1>1. p \in Places \ {Root} /\ Place(p) = p /\ p \in Seq(Letters) /\ q \in Seq(Letters)
  BY PlainForms, LetterSequences
<1>2. Len(p) > 1 /\ Len(p) \in Nat /\ Len(q) \in Nat
  BY <1>1, PlaceStart
<1>3. Len(p) <= Len(q) /\ \A i \in 1 .. Len(p) : p[i] = q[i]
  BY DEF Begins
<1>4. q # RootPath
  <2>1. Len(RootPath) = 1
    BY DEF RootPath
  <2> QED BY <1>2, <1>3, <2>1
<1>5. Place(q) = q
  BY <1>4, PlainForms
<1>6. CASE p = q
  BY <1>4, <1>6 DEF InPlace
<1>7. CASE p # q
  <2>1. q[Len(p) + 1] = Slash
    BY <1>7 DEF PlainPaths
  <2>2. Len(p) # Len(q)
    BY <1>1, <1>3, <1>7
  <2>3. Len(p) < Len(q)
    BY <1>2, <1>3, <2>2
  <2>4. Above(p, q)
    BY <1>1, <1>3, <2>1, <2>3, AboveForm
  <2> QED BY <1>1, <1>4, <1>5, <2>4, InPlaceForm
<1> QED BY <1>6, <1>7

\* A path below the root is in conflict with those at its place or below it.
LEMMA ConflictThere ==
  ASSUME PlainPaths, NEW d \in Straight, NEW c \in AppPaths, Begins(d, c), Place(d) # Root
  PROVE  InPlace(Place(d), Place(c))
<1> DEFINE a == Place(d)
<1>1. a \in Places /\ a # Root /\ a \in Seq(Letters) /\ d \in Seq(Letters)
  BY StraightForms, PlaceLetters
<1>2. Len(a) \in Nat /\ Len(a) > 1 /\ a[1] = Slash /\ a[2] # Slash
  BY <1>1, PlaceStart
<1>3. c \in Seq(Letters) /\ Len(c) \in Nat
  BY LetterSequences
<1>4. c = RootPath \/ (c \in Places \ {Root} /\ Place(c) = c)
  BY PlainForms
<1>5. CASE d = a
  <2>1. a \in AppPaths
    BY <1>1, RequestedIsStraight
  <2>2. a # RootPath
    <3>1. Len(RootPath) = 1
      BY DEF RootPath
    <3> HIDE DEF a
    <3> QED BY <1>2, <3>1
  <2> QED BY <1>5, <2>1, <2>2, BeginsInPlace
<1>6. CASE d = <<Slash>> \o a
  <2> HIDE DEF a
  <2>1. Len(d) = Len(a) + 1 /\ d[1] = Slash /\ d[2] = a[1]
    <3>1. <<Slash>> \in Seq(Letters) /\ Len(<<Slash>>) = 1 /\ <<Slash>>[1] = Slash
      BY DEF Letters
    <3>2. Len(d) = Len(a) + 1
      BY <1>1, <1>6, <3>1
    <3>3. d[1] = Slash
      BY <1>1, <1>6, <3>1
    <3>4. d[2] = a[2 - 1]
      BY <1>1, <1>2, <1>6, <3>1
    <3> QED BY <3>2, <3>3, <3>4
  <2>2. Len(c) > 1 /\ c[1] = Slash /\ c[2] = Slash
    <3>1. Len(d) <= Len(c) /\ \A i \in 1 .. Len(d) : d[i] = c[i]
      BY DEF Begins
    <3>2. 1 \in 1 .. Len(d) /\ 2 \in 1 .. Len(d)
      BY <1>2, <2>1
    <3>3. Len(c) > 1
      BY <1>2, <1>3, <2>1, <3>1
    <3> QED BY <1>2, <2>1, <3>1, <3>2, <3>3
  <2>3. c # RootPath
    <3>1. Len(RootPath) = 1
      BY DEF RootPath
    <3> QED BY <1>3, <2>2, <3>1
  <2> QED BY <1>4, <2>2, <2>3, PlaceStart
<1> QED BY <1>5, <1>6, StraightForms

\* What the walk visits lies in the place of the registered tree.
LEMMA OfTreeInPlace ==
  ASSUME PlainPaths, TreesTypeOK, reg.pc = "update", NEW d \in Straight, OfTree(d)
  PROVE  InPlace(Place(reg.path), Place(d))
<1>0. PICK t : t = reg.path
  OBVIOUS
<1>1. t \in AppPaths /\ Begins(t, d) /\ (t # RootPath => d \in Places)
  BY <1>0, WriterCases DEF TreesTypeOK, OfTree
<1>2. Place(d) \in Places /\ Place(d) \in Seq(Letters)
  BY StraightForms, PlaceLetters
<1>3. CASE t = RootPath
  <2>1. Place(t) = Root
    <3>1. RootPath = <<Slash>> \o Root
      BY DEF RootPath, Root
    <3> QED BY <1>3, <3>1, SlashedPlace, PlaceLetters
  <2>2. CASE Place(d) = Root
    <3>1. Place(d) = Place(reg.path)
      BY <1>0, <2>1, <2>2
    <3> QED BY <3>1 DEF InPlace
  <2>3. CASE Place(d) # Root
    <3>1. Len(Place(d)) > 1 /\ Place(d)[1] = Slash
      BY <1>2, <2>3, PlaceStart
    <3>2. Len(Root) = 0 /\ Root \in Seq(Letters)
      BY PlaceLetters DEF Root
    <3>3. Place(d)[Len(Root) + 1] = Slash /\ \A i \in 1 .. Len(Root) : Root[i] = Place(d)[i]
      BY <3>1, <3>2
    <3>4. Len(Root) < Len(Place(d))
      BY <3>1, <3>2
    <3>5. Above(Root, Place(d))
      BY <1>2, <3>2, <3>3, <3>4, AboveForm
    <3>6. Place(reg.path) = Root
      BY <1>0, <2>1
    <3> QED BY <3>5, <3>6 DEF InPlace, Above
  <2> QED BY <1>0, <2>2, <2>3
<1>4. CASE t # RootPath
  <2>1. d \in Places /\ Place(d) = d
    BY <1>1, <1>4, PlacesArePlain
  <2>2. d # Root
    <3>1. Len(t) > 1
      BY <1>1, <1>4, PlainForms, PlaceStart
    <3>2. Len(Root) = 0
      BY DEF Root
    <3> QED BY <1>1, <3>1, <3>2 DEF Begins
  <2>3. d \in AppPaths
    BY <2>1, <2>2, RequestedIsStraight
  <2> QED BY <1>0, <1>1, <1>4, <2>3, BeginsInPlace
<1> QED BY <1>3, <1>4

\* One side has what the other has, and nothing older.
MirrorsNode(here, there) ==
  /\ \A kind \in {"none", "dir"} : here.kind = kind <=> there.kind = kind
  /\ there.mtime <= here.mtime

LEMMA MirroredNodes ==
  ASSUME NEW here, NEW there, Proper(here), Proper(there),
         here = None <=> there = None, here = Dir <=> there = Dir, there.mtime <= here.mtime
  PROVE  MirrorsNode(here, there)
<1>1. here \in Nodes /\ there \in Nodes
  BY DEF Proper
<1> QED BY <1>1, NodeKinds DEF MirrorsNode

\* The outcome is the cache as it is, or with the server's version at the place.
WithFetched(a) == [cache EXCEPT ![a] = Made(remote[a].kind, remote[a].by)]

LEMMA NotBlocked ==
  ASSUME NEW files \in Sound, NEW a \in Places, HasDir(files, a)
  PROVE  ~Blocked(files, a)
<1> SUFFICES ASSUME NEW d \in Places, Above(d, a) PROVE files[d].kind = "dir"
  BY DEF Blocked, Above
<1> QED BY SoundAbove, NodeKinds

LEMMA CalmUpdate ==
  ASSUME PlainPaths, TreesTypeOK, PartsOK, FitInv, available = TRUE, mounted = TRUE,
         NEW d \in Straight, d \in Known, InTree(d), NEW a, a = Place(d),
         remote[a] # None, HasDir(cache, a), Alike(a), NEW u \in update_cache(FileOf(d))
  PROVE  /\ u.ok = TRUE
         /\ \/ u.files = cache
            \/ u.files = WithFetched(a) /\ cache[a] # Dir
         /\ ~KeptForUser(a) => MirrorsNode(u.files[a], remote[a])
<1> DEFINE f == FileOf(d)
           r == remote[a]
           put == [cache EXCEPT ![a] = Made(r.kind, r.by)]
           after == [Unfetched EXCEPT !.files = put]
           fresh == cache[a] # None /\ r.mtime <= cache[a].mtime
           X == {w \in SoundOutcomes : w = Unfetched \/ (w = after /\ ~fresh)}
<1>1. /\ trees \subseteq AppPaths /\ cache \in Sound /\ remote \in Sound /\ Clock /\ Flags
      /\ conflicts \subseteq AppPaths
  BY WalkFacts DEF PartsOK, ShareTypeOK
<1>2. /\ a \in Places /\ Proper(r) /\ r \in Nodes /\ Proper(cache[a]) /\ cache[a] \in Nodes
      /\ (cache[a] # None => (cache[a] = Dir <=> r = Dir))
  BY <1>1, StraightForms, SoundFacts DEF Alike
<1>3. /\ f.path = d /\ FileInPlace(f) /\ f.at = a
      /\ f.offline = TRUE /\ f.avail = TRUE /\ RemoteAt(f.path) = r
  BY <1>1, AtPlace DEF FileOf, FileInPlace, RemoteAt, InTree
<1>4. /\ Proper(Made(r.kind, r.by)) /\ Made(r.kind, r.by) # None /\ r.mtime <= Made(r.kind, r.by).mtime
      /\ Made(r.kind, r.by).kind = r.kind
  <2>1. /\ Proper(Made(r.kind, r.by)) /\ Made(r.kind, r.by) # None
        /\ Made(r.kind, r.by).kind = r.kind
    BY <1>1, <1>2, ProperCopy
  <2>2. CASE r.kind = "dir"
    <3>1. r = Dir /\ Made(r.kind, r.by) = Dir
      BY <1>2, <2>2, NodeKinds DEF Made
    <3> QED BY <2>1, <3>1, NodeKinds
  <2>3. CASE r.kind # "dir"
    <3>1. Made(r.kind, r.by).mtime = now
      BY <2>3 DEF Made
    <3> QED BY <1>2, <2>1, <3>1 DEF Proper
  <2> QED BY <2>2, <2>3
<1>5. ~fresh => cache[a] # Dir
  <2> SUFFICES ASSUME cache[a] = Dir PROVE fresh
    OBVIOUS
  <2>1. r = Dir
    BY <1>2, NodeKinds
  <2> QED BY <2>1, NodeKinds
<1>6. (put \in Sound /\ put[a] = Made(r.kind, r.by)) \/ fresh
  <2> SUFFICES ASSUME ~fresh PROVE put \in Sound /\ put[a] = Made(r.kind, r.by)
    OBVIOUS
  <2>1. cache \in FilesOf
    BY <1>1, SoundFacts
  <2>2. put[a] = Made(r.kind, r.by)
    BY <1>2, <2>1 DEF FilesOf
  <2> HIDE DEF fresh
  <2>3. [cache EXCEPT ![a] = Made(r.kind, r.by)] \in Sound
    <3> HIDE DEF r
    <3> QED BY <1>1, <1>2, <1>4, <1>5, SoundPut
  <2> QED BY <2>2, <2>3
<1>7. Unfetched \in SoundOutcomes /\ (~fresh => after \in SoundOutcomes)
  <2>1. Unfetched \in SoundOutcomes
    BY <1>1, SoundFacts DEF Unfetched, SoundOutcomes, Outcomes
  <2>2. put \in Sound => after \in SoundOutcomes
    <3> HIDE DEF put
    <3> QED BY <2>1, SoundFacts DEF SoundOutcomes, Outcomes
  <2> HIDE DEF fresh, put
  <2> QED BY <1>6, <2>1, <2>2
<1> HIDE DEF f
\* Of the file itself.
<1>8. /\ fresh => Fetched(Unfetched, f, r) = {Unfetched}
      /\ ~fresh => Fetched(Unfetched, f, r) = {after} /\ Fetched(after, f, r) = {after}
  <2>0. ~LstatFails(f)
    <3>1. HasDir(remote, a)
      BY <1>1, <1>2, SoundFacts
    <3>2. ~Blocked(remote, a) /\ ~Blocked(cache, a)
      BY <1>1, <1>2, <3>1, NotBlocked
    <3> QED BY <1>3, <3>2 DEF LstatFails
  <2>1. Unfetched.files = cache /\ Unfetched.ok = TRUE
    BY DEF Unfetched
  <2>2. ASSUME fresh PROVE Fetched(Unfetched, f, r) = {Unfetched}
    <3>1. CASE cache[a] = Dir
      <4>1. r.kind = "dir"
        BY <1>2, <3>1, NodeKinds
      <4> QED BY <1>3, <2>0, <2>1, <3>1, <4>1 DEF Fetched
    <3>2. CASE cache[a] # Dir
      BY <1>3, <2>0, <2>1, <2>2, <3>2 DEF Fetched
    <3> QED BY <3>1, <3>2
  <2>3. ASSUME ~fresh PROVE Fetched(Unfetched, f, r) = {after}
    <3>1. [Unfetched EXCEPT !.files[f.at] = Made(r.kind, r.by)] = after
      BY <1>3 DEF Unfetched
    <3>2. cache[a] # Dir /\ r # None
      BY <1>5, <2>3
    <3>3. cache[a] # None => r.kind \notin {"none", "dir"} /\ ~(r.mtime <= cache[a].mtime)
      BY <1>2, <2>3, <3>2, NodeKinds
    <3> HIDE DEF put, r, fresh, after
    <3>4. Fetched(Unfetched, f, r) = {[Unfetched EXCEPT !.files[f.at] = Made(r.kind, r.by)]}
      BY <1>3, <2>0, <2>1, <3>2, <3>3 DEF Fetched
    <3> QED BY <3>1, <3>4
  <2>4. ASSUME ~fresh PROVE Fetched(after, f, r) = {after}
    <3>1. after.files = put /\ after.ok = TRUE
      <4> HIDE DEF put
      <4> QED BY DEF Unfetched
    <3>2. put[a] = Made(r.kind, r.by)
      BY <1>6, <2>4
    <3> HIDE DEF put, after, fresh
    <3>3. CASE Made(r.kind, r.by) = Dir
      <4>1. r.kind = "dir"
        <5>1. Made(r.kind, r.by).kind = r.kind
          BY <1>4
        <5> QED BY <3>3, <5>1, NodeKinds
      <4> QED BY <1>3, <2>0, <3>1, <3>2, <3>3, <4>1 DEF Fetched
    <3>4. CASE Made(r.kind, r.by) # Dir
      BY <1>3, <1>4, <2>0, <3>1, <3>2, <3>4 DEF Fetched
    <3> QED BY <3>3, <3>4
  <2> QED BY <2>2, <2>3, <2>4
\* Directories above it are there on both sides.
<1>9. ASSUME NEW g \in OnTheWay(f), g # f, NEW before \in X
      PROVE  Fetched(before, g, RemoteAt(g.path)) = {before}
  <2>1. g.at = Place(g.path) /\ g.at \in Places
    BY <1>1, <1>3, <1>9, OnTheWayInPlace DEF FileInPlace
  <2>2. g.at = Root \/ Above(g.at, a)
    BY <1>3, <1>9, <2>1, StraightWay DEF FileInPlace
  <2>3. RemoteAt(g.path) = Dir
    <3>1. HasDir(remote, a)
      BY <1>1, <1>2, SoundFacts
    <3>2. remote[g.at] = Dir
      BY <1>1, <1>2, <2>1, <2>2, <3>1, SoundAbove
    <3> QED BY <2>1, <3>2 DEF RemoteAt
  <2>4. before.files \in Sound /\ (before = Unfetched \/ (before = after /\ ~fresh))
    BY DEF SoundOutcomes
  <2>5. HasDir(before.files, a)
    <3>1. CASE before = Unfetched
      BY <3>1 DEF Unfetched
    <3>2. CASE before = after /\ ~fresh
      <4>1. before.files = put
        <5> HIDE DEF put, fresh
        <5> QED BY <3>2 DEF Unfetched
      <4>2. CASE a = Root
        BY <4>2 DEF HasDir
      <4>3. CASE a # Root
        <5>1. DirOf(a) \in Places /\ cache[DirOf(a)] = Dir
          BY <1>1, <1>2, <4>3, PlaceCases, SoundFacts
        <5>2. DirOf(a) # a
          BY <1>5, <3>2, <5>1
        <5>3. put[DirOf(a)] = cache[DirOf(a)]
          <6>1. cache \in FilesOf
            BY <1>1, SoundFacts
          <6> QED BY <5>1, <5>2, <6>1 DEF FilesOf
        <5> HIDE DEF put
        <5> QED BY <4>1, <5>1, <5>3, NodeKinds DEF HasDir
      <4> QED BY <4>2, <4>3
    <3> QED BY <2>4, <3>1, <3>2
  <2>6. before.files[g.at] = Dir
    BY <1>2, <2>1, <2>2, <2>4, <2>5, SoundAbove
  <2>7. ~LstatFails(g)
    <3>1. remote[g.at] = Dir
      BY <1>1, <1>2, <2>1, <2>2, SoundAbove, SoundFacts
    <3>2. cache[g.at] = Dir
      BY <1>1, <1>2, <2>1, <2>2, SoundAbove
    <3>3. HasDir(remote, g.at) /\ HasDir(cache, g.at)
      BY <1>1, <2>1, <3>1, <3>2, SoundFacts, NodeKinds
    <3>4. ~Blocked(remote, g.at) /\ ~Blocked(cache, g.at)
      BY <1>1, <2>1, <3>3, NotBlocked
    <3> QED BY <2>1, <3>4 DEF LstatFails
  <2> HIDE DEF X
  <2>8. RemoteAt(g.path).kind = "dir"
    BY <2>3, NodeKinds
  <2>9. CASE before.ok
    BY <2>6, <2>7, <2>8, <2>9 DEF Fetched
  <2>10. CASE ~before.ok
    BY <2>10 DEF Fetched
  <2> QED BY <2>9, <2>10
<1>10. ASSUME NEW g \in OnTheWay(f), NEW before \in X
       PROVE  Fetched(before, g, RemoteAt(g.path)) \subseteq X
  <2>1. CASE g # f
    BY <1>9, <2>1
  <2>2. CASE g = f
    <3>1. RemoteAt(g.path) = r
      BY <1>3, <2>2
    <3>2. before \in {Unfetched, after} /\ (before = after => before = Unfetched \/ ~fresh)
      OBVIOUS
    <3> HIDE DEF r, fresh, after
    <3>3. Fetched(before, f, r) = {Unfetched} \/ (Fetched(before, f, r) = {after} /\ ~fresh)
      BY <1>8, <3>2
    <3> QED BY <1>7, <2>2, <3>1, <3>3
  <2> QED BY <2>1, <2>2
<1>11. Unfetched \in X
  BY <1>7
<1> HIDE DEF X
<1>12. f.path \in Known /\ u \in update_cache(f)
  BY <1>3 DEF f
<1>13. /\ u \in X
       /\ Updates(f, r) => \E before \in X : u \in Fetched(before, f, r)
  <2>1. /\ update_cache(f) \subseteq X
        /\ Updates(f, RemoteAt(f.path)) =>
             \A w \in update_cache(f) : \E before \in X : w \in Fetched(before, f, RemoteAt(f.path))
    BY <1>10, <1>11, <1>12, UpdateWithin
  <2> HIDE DEF r
  <2> QED BY <1>3, <1>12, <2>1
<1>14. u = Unfetched \/ (u = after /\ ~fresh)
  BY <1>13 DEF X
<1>15. Updates(f, r) => (fresh /\ u = Unfetched) \/ (~fresh /\ u = after)
  <2> SUFFICES ASSUME Updates(f, r) PROVE (fresh /\ u = Unfetched) \/ (~fresh /\ u = after)
    OBVIOUS
  <2>1. PICK before \in X : u \in Fetched(before, f, r)
    BY <1>13
  <2>2. before = Unfetched \/ (before = after /\ ~fresh)
    BY DEF X
  <2> HIDE DEF fresh, after, r
  <2> QED BY <1>8, <2>1, <2>2
<1>16. /\ u.ok = TRUE
       /\ \/ u.files = cache
          \/ u.files = put /\ cache[a] # Dir
  <2>1. Unfetched.ok = TRUE /\ Unfetched.files = cache /\ after.ok = TRUE /\ after.files = put
    <3> HIDE DEF put
    <3> QED BY DEF Unfetched
  <2> HIDE DEF after, fresh, put
  <2> QED BY <1>5, <1>14, <2>1
<1>17. ASSUME ~KeptForUser(a)
       PROVE  MirrorsNode(u.files[a], r)
  <2>1. Updates(f, r)
    <3>1. CASE r = Dir
      BY <1>3, <3>1, NodeKinds DEF Updates
    <3>2. CASE r # Dir
      <4>1. a # Root /\ remote[a].kind \in {"file", "link"}
        BY <1>1, <1>2, <3>2, SoundFacts, NodeKinds
      <4>2. ~isConflicted(d)
        BY <1>1, <1>17, <4>1, ConflictThere DEF isConflicted, KeptForUser
      <4> QED BY <1>3, <4>2 DEF Updates
    <3> QED BY <3>1, <3>2
  <2>2. CASE fresh /\ u = Unfetched
    <3>1. u.files = cache
      BY <2>2 DEF Unfetched
    <3> QED BY <1>2, <2>2, <3>1, MirroredNodes
  <2>3. CASE ~fresh /\ u = after
    <3>1. u.files = put
      <4> HIDE DEF put, fresh
      <4> QED BY <2>3 DEF Unfetched
    <3>2. u.files[a] = Made(r.kind, r.by)
      <4> HIDE DEF put, fresh
      <4> QED BY <1>6, <2>3, <3>1
    <3>3. Made(r.kind, r.by) = Dir <=> r = Dir
      <4>1. Made(r.kind, r.by) \in Nodes /\ r \in Nodes
        BY <1>2, <1>4 DEF Proper
      <4> QED BY <1>4, <4>1, NodeKinds
    <3> HIDE DEF r
    <3> QED BY <1>2, <1>4, <3>2, <3>3, MirroredNodes DEF r
  <2> QED BY <1>15, <2>1, <2>2, <2>3
<1> QED BY <1>16, <1>17 DEF WithFetched

--------------------------------------------------------------------------------
(****************************************************************************)
(* An undisturbed update has still to come to whatever differs.             *)
(****************************************************************************)
Top == Place(reg.path)

\* Directories on the list are there on the server, and the one above them in the
\* cache too.
DirsReached ==
  /\ \A d \in InWork : remote[Place(d)] # None /\ HasDir(cache, Place(d))
  /\ walk.pc \in {"list", "fetch"} /\ remote[Here] = Dir => cache[Here] = Dir

Pending(q) ==
  \/ \E d \in walk.todo : InPlace(Place(d), q)
  \/ walk.pc = "list" /\ Above(Here, q)
  \/ /\ walk.pc = "fetch"
     /\ \E n \in Names :
          /\ Below(Here, n) \in Places /\ InPlace(Below(Here, n), q)
          /\ n \in walk.left \cup walk.subdirs \/ n \notin EntriesIn(remote, Here)

NothingMissed ==
  \A q \in Places : InPlace(Top, q) /\ ~KeptForUser(q) => Mirrors(q) \/ Pending(q)
Covered ==
  Undisturbed /\ calm = "alike" /\ remote[Top] # None =>
    DirsReached /\ NothingMissed /\ KindsAgree(Top)

LEMMA MirrorsForm ==
  ASSUME NEW q
  PROVE  Mirrors(q) <=> MirrorsNode(cache[q], remote[q])
BY DEF Mirrors, MirrorsNode

LEMMA MirrorsNothing ==
  ASSUME NEW here, NEW there, here = None, there = None
  PROVE  MirrorsNode(here, there)
BY NodeKinds DEF MirrorsNode

\* What the invariants before say of an undisturbed step.
LEMMA UndisturbedFacts ==
  ASSUME TreesTypeOK, PartsOK, FitInv, CalmInv, Undisturbed
  PROVE  /\ available = TRUE /\ mounted = TRUE
         /\ \A d \in InWork : InTree(d)
         /\ walk.todo \subseteq InWork /\ (walk.pc \in {"list", "fetch"} => walk.file.path \in InWork)
         /\ \A d \in InWork : d \in Straight /\ d \in Known /\ Place(d) \in Places /\ OfTree(d)
<1>1. /\ available = TRUE /\ mounted = TRUE /\ InTree(reg.path) /\ reg.pc = "update"
      /\ \A d \in InWork : OfTree(d)
  BY DEF CalmInv
<1>2. \A d \in InWork : d \in Straight /\ d \in Known /\ Place(d) \in Places
  BY WalkFacts, StraightForms DEF InWork, Here
<1>3. PICK t \in trees : Begins(t, reg.path)
  BY <1>1 DEF InTree
<1>4. t \in Seq(Letters) /\ reg.path \in Seq(Letters)
  BY <1>1, WriterCases, LetterSequences DEF TreesTypeOK
<1>5. ASSUME NEW d \in InWork PROVE InTree(d)
  <2>1. d \in Seq(Letters) /\ Begins(reg.path, d)
    BY <1>1, <1>2, StraightForms DEF OfTree
  <2>2. Begins(t, d)
    <3>1. Len(t) \in Nat /\ Len(reg.path) \in Nat /\ Len(d) \in Nat
      BY <1>4, <2>1
    <3>2. /\ Len(t) <= Len(reg.path) /\ Len(reg.path) <= Len(d)
          /\ \A i \in 1 .. Len(t) : t[i] = reg.path[i]
          /\ \A i \in 1 .. Len(reg.path) : reg.path[i] = d[i]
      BY <1>3, <2>1 DEF Begins
    <3> QED BY <3>1, <3>2 DEF Begins
  <2> QED BY <2>2 DEF InTree
<1>6. walk.todo \subseteq InWork /\ (walk.pc \in {"list", "fetch"} => walk.file.path \in InWork)
  BY DEF InWork
<1> QED BY <1>1, <1>2, <1>5, <1>6

\* After one update_cache only the place itself may differ, and no directory goes.
LEMMA CoveredUpdate ==
  ASSUME PlainPaths, TreesTypeOK, PartsOK, FitInv, available = TRUE, mounted = TRUE,
         NEW d \in Straight, d \in Known, InTree(d), NEW a, a = Place(d),
         remote[a] # None, HasDir(cache, a), Alike(a), NEW u \in update_cache(FileOf(d)),
         cache' = u.files, remote' = remote
  PROVE  /\ u.ok = TRUE
         /\ \A q \in Places : q # a /\ Mirrors(q) => Mirrors(q)'
         /\ \A q \in Places : q # a => cache'[q] = cache[q]
         /\ ~KeptForUser(a) => Mirrors(a)'
         /\ remote[a] = Dir => cache'[a] = Dir
         /\ \A q \in Places : HasDir(cache, q) => HasDir(cache', q)
         /\ \A q \in Places : cache[q] = Dir => cache'[q] = Dir
         /\ \A q \in Places : Alike(q) => Alike(q)'
<1>1. /\ u.ok = TRUE
      /\ \/ cache' = cache
         \/ cache' = WithFetched(a) /\ cache[a] # Dir
      /\ ~KeptForUser(a) => MirrorsNode(cache'[a], remote[a])
  BY CalmUpdate
<1>2. a \in Places /\ cache \in Sound /\ remote \in Sound /\ cache \in FilesOf
  BY WalkFacts, StraightForms, SoundFacts
<1>3. \A q \in Places : q # a => cache'[q] = cache[q]
  BY <1>1, <1>2 DEF FilesOf, WithFetched
<1>4. \A q \in Places : cache[q] = Dir => cache'[q] = Dir
  BY <1>1, <1>2 DEF FilesOf, WithFetched
<1>5. ASSUME NEW q \in Places, HasDir(cache, q) PROVE HasDir(cache', q)
  <2>1. q = Root \/ (cache[DirOf(q)] = Dir /\ DirOf(q) \in Places)
    BY <1>2, <1>5, PlaceCases, SoundFacts
  <2>2. q = Root \/ cache'[DirOf(q)] = Dir
    BY <1>4, <2>1
  <2> QED BY <2>2, NodeKinds DEF HasDir
<1>6. ASSUME NEW q \in Places, q # a, Mirrors(q) PROVE Mirrors(q)'
  <2>1. cache'[q] = cache[q] /\ remote'[q] = remote[q]
    BY <1>3, <1>6
  <2> QED BY <1>6, <2>1 DEF Mirrors
<1>7. ASSUME MirrorsNode(cache'[a], remote[a]) PROVE Mirrors(a)'
  <2>1. remote'[a] = remote[a]
    OBVIOUS
  <2> QED BY <1>7, <2>1 DEF Mirrors, MirrorsNode
<1>8. ASSUME remote[a] = Dir PROVE cache'[a] = Dir
  <2>0. ~KeptForUser(a)
    BY <1>8, NodeKinds DEF KeptForUser
  <2>1. MirrorsNode(cache'[a], Dir)
    BY <1>1, <1>8, <2>0
  <2>2. cache'[a].kind = "dir"
    BY <2>1, NodeKinds DEF MirrorsNode
  <2>3. u.files \in Sound
    <3>1. u \in SoundOutcomes
      BY WalkUpdateSound DEF TreesTypeOK
    <3> QED BY <3>1 DEF SoundOutcomes
  <2>4. cache'[a] \in Nodes
    BY <1>2, <2>3, SoundFacts
  <2> QED BY <2>2, <2>4, NodeKinds
<1>9. ASSUME NEW q \in Places, Alike(q) PROVE Alike(q)'
  <2>1. CASE cache'[q] = cache[q]
    BY <1>9, <2>1 DEF Alike
  <2>2. CASE cache'[q] # cache[q]
    <3>1. q = a /\ cache'[a] = Made(remote[a].kind, remote[a].by)
      BY <1>1, <1>2, <1>3, <2>2 DEF FilesOf, WithFetched
    <3>2. remote[a] \in Nodes /\ Proper(remote[a]) /\ Clock
      BY <1>2, SoundFacts, WalkFacts
    <3>3. /\ Made(remote[a].kind, remote[a].by) \in Nodes
          /\ Made(remote[a].kind, remote[a].by).kind = remote[a].kind
      BY <3>2, ProperCopy DEF Proper
    <3>4. cache'[a] = Dir <=> remote[a] = Dir
      BY <3>1, <3>2, <3>3, NodeKinds
    <3> QED BY <3>1, <3>4 DEF Alike
  <2> QED BY <2>1, <2>2
<1> QED BY <1>1, <1>3, <1>4, <1>5, <1>6, <1>7, <1>8, <1>9

LEMMA VisitCovers ==
  ASSUME PlainPaths, TreesTypeOK, PartsOK, FitInv, CalmInv, Undisturbed,
         DirsReached, NothingMissed, KindsAgree(Top), VisitDir, reg' = reg
  PROVE  DirsReached' /\ NothingMissed' /\ KindsAgree(Top)'
<1>1. PICK dir \in walk.todo : \E u \in update_cache(FileOf(dir)) :
        /\ cache' = u.files
        /\ walk' = IF u.ok THEN Listing(walk.todo \ {dir}, FileOf(dir))
                           ELSE Visiting(walk.todo \ {dir})
  BY DEF VisitDir
<1>2. PICK u \in update_cache(FileOf(dir)) :
        /\ cache' = u.files
        /\ walk' = IF u.ok THEN Listing(walk.todo \ {dir}, FileOf(dir))
                           ELSE Visiting(walk.todo \ {dir})
  BY <1>1
<1>3. /\ walk.pc = "visit" /\ remote' = remote /\ conflicts' = conflicts
  BY DEF VisitDir
<1> DEFINE a == Place(dir)
<1>4. /\ available = TRUE /\ mounted = TRUE /\ dir \in InWork /\ InTree(dir)
      /\ dir \in Straight /\ dir \in Known /\ a \in Places
      /\ \A d \in walk.todo : Place(d) \in Places /\ d \in InWork
  BY UndisturbedFacts
<1>5. remote[a] # None /\ HasDir(cache, a) /\ Alike(a)
  <2>1. InPlace(Top, a)
    BY <1>4, UndisturbedFacts, OfTreeInPlace DEF Top, CalmInv
  <2> QED BY <1>4, <2>1 DEF DirsReached, KindsAgree
<1>6. /\ u.ok = TRUE
      /\ \A q \in Places : q # a /\ Mirrors(q) => Mirrors(q)'
      /\ ~KeptForUser(a) => Mirrors(a)'
      /\ remote[a] = Dir => cache'[a] = Dir
      /\ \A q \in Places : HasDir(cache, q) => HasDir(cache', q)
      /\ \A q \in Places : Alike(q) => Alike(q)'
  BY <1>2, <1>3, <1>4, <1>5, CoveredUpdate
<1>7. /\ walk'.pc = "list" /\ walk'.todo = walk.todo \ {dir} /\ walk'.file.path = dir
  BY <1>2, <1>6 DEF Listing, FileOf
<1>8. Here' = a /\ InWork' = walk.todo
  BY <1>1, <1>7 DEF Here, InWork
<1>9. DirsReached'
  <2>1. ASSUME NEW d \in walk.todo PROVE remote'[Place(d)] # None /\ HasDir(cache', Place(d))
    BY <1>3, <1>4, <1>6 DEF DirsReached
  <2>2. remote'[a] = Dir => cache'[a] = Dir
    BY <1>3, <1>6
  <2>3. (\A d \in InWork : remote[Place(d)] # None /\ HasDir(cache, Place(d)))'
    BY <1>8, <2>1
  <2>4. (walk.pc \in {"list", "fetch"} /\ remote[Here] = Dir => cache[Here] = Dir)'
    BY <1>8, <2>2
  <2> QED BY <2>3, <2>4 DEF DirsReached
<1>10. ASSUME NEW q \in Places, InPlace(Top, q), ~KeptForUser(q) PROVE Mirrors(q)' \/ Pending(q)'
  <2>1. CASE q = a
    BY <1>6, <1>10, <2>1
  <2>2. CASE q # a /\ Mirrors(q)
    BY <1>6, <2>2
  <2>3. CASE q # a /\ Pending(q)
    <3>1. PICK d \in walk.todo : InPlace(Place(d), q)
      BY <1>3, <2>3 DEF Pending
    <3>2. CASE d # dir
      <4>1. d \in walk'.todo
        BY <1>7, <3>2
      <4>2. InPlace(Place(d), q)
        BY <3>1
      <4> QED BY <4>1, <4>2 DEF Pending, InPlace
    <3>3. CASE d = dir
      <4>1. Above(a, q)
        BY <2>3, <3>1, <3>3, InPlaceForm
      <4> QED BY <1>7, <1>8, <4>1 DEF Pending, Above
    <3> QED BY <3>2, <3>3
  <2> QED BY <1>10, <2>1, <2>2, <2>3 DEF NothingMissed
<1>11. NothingMissed'
  BY <1>3, <1>10 DEF NothingMissed, Top, KeptForUser, InPlace
<1>12. KindsAgree(Top)'
  BY <1>6 DEF KindsAgree, Top, InPlace
<1> QED BY <1>9, <1>11, <1>12

LEMMA OpenCovers ==
  ASSUME PlainPaths, TreesTypeOK, PartsOK, FitInv, CalmInv, Undisturbed,
         DirsReached, NothingMissed, KindsAgree(Top), OpenRemoteDir, reg' = reg
  PROVE  DirsReached' /\ NothingMissed' /\ KindsAgree(Top)'
<1>1. walk.pc = "list" /\ UNCHANGED shareVars
  BY DEF OpenRemoteDir
<1>2. UNCHANGED <<remote, cache, conflicts>>
  BY <1>1 DEF shareVars
<1>3. mounted = TRUE /\ walk.file.path \in InWork /\ walk.file.avail = TRUE
  BY <1>1, UndisturbedFacts DEF CalmInv
<1>4. Here \in Places /\ remote \in Sound /\ cache \in Sound
  BY <1>1, WalkFacts
<1>5. RemoteAt(walk.file.path) = remote[Here] /\ remote[Here] # None
  BY <1>3 DEF RemoteAt, Here, DirsReached
<1>6. walk' = IF remote[Here].kind = "dir"
              THEN Fetching(walk.todo, walk.file, EntriesIn(remote, Here), {}, {})
              ELSE Visiting(walk.todo)
  BY <1>3, <1>5 DEF OpenRemoteDir, Here
<1>7. remote[Here].kind = "dir" <=> remote[Here] = Dir
  BY <1>4, SoundFacts, NodeKinds
<1>8. ASSUME NEW q, Mirrors(q) PROVE Mirrors(q)'
  BY <1>2, <1>8 DEF Mirrors
<1>11. Alike(Here)
  <2>1. InPlace(Top, Here)
    BY <1>1, <1>3, UndisturbedFacts, OfTreeInPlace DEF Top, CalmInv, Here
  <2> QED BY <1>4, <2>1 DEF KindsAgree
<1>12. KindsAgree(Top)'
  BY <1>2 DEF KindsAgree, Top, InPlace, Alike
<1>9. CASE remote[Here] = Dir
  <2>1. /\ walk'.pc = "fetch" /\ walk'.todo = walk.todo /\ walk'.file = walk.file
        /\ walk'.left = EntriesIn(remote, Here) /\ walk'.subdirs = {}
    BY <1>6, <1>7, <1>9 DEF Fetching
  <2>2. Here' = Here /\ InWork' = InWork /\ EntriesIn(remote, Here)' = EntriesIn(remote, Here)
    BY <1>1, <1>2, <2>1 DEF Here, InWork, EntriesIn
  <2>3. DirsReached'
    BY <1>1, <1>2, <2>1, <2>2 DEF DirsReached, HasDir
  <2>4. ASSUME NEW q \in Places, Pending(q) PROVE Pending(q)'
    <3>1. CASE \E d \in walk.todo : InPlace(Place(d), q)
      BY <2>1, <3>1 DEF Pending, InPlace
    <3>2. CASE Above(Here, q)
      <4>1. PICK n \in Names : Below(Here, n) \in Places /\ InPlace(Below(Here, n), q)
        BY <1>4, <3>2, EntryAbove
      <4>2. n \in walk'.left \cup walk'.subdirs \/ n \notin EntriesIn(remote, Here)
        BY <2>1
      <4> QED BY <2>1, <2>2, <4>1, <4>2 DEF Pending, InPlace, Places
    <3> QED BY <1>1, <2>4, <3>1, <3>2 DEF Pending
  <2>5. NothingMissed'
    <3>1. ASSUME NEW q \in Places, InPlace(Top, q), ~KeptForUser(q) PROVE Mirrors(q)' \/ Pending(q)'
      BY <1>8, <2>4, <3>1 DEF NothingMissed
    <3> QED BY <1>2, <3>1 DEF NothingMissed, Top, KeptForUser, InPlace
  <2> QED BY <2>3, <2>5, <1>12
<1>10. CASE remote[Here] # Dir
  <2>1. walk'.pc = "visit" /\ walk'.todo = walk.todo
    BY <1>6, <1>7, <1>10 DEF Visiting
  <2>2. InWork' \subseteq InWork
    BY <2>1 DEF InWork
  <2>3. DirsReached'
    BY <1>2, <2>1, <2>2 DEF DirsReached, HasDir
  <2>4. ASSUME NEW q \in Places, Pending(q) PROVE Mirrors(q)' \/ Pending(q)'
    <3>1. CASE \E d \in walk.todo : InPlace(Place(d), q)
      BY <2>1, <3>1 DEF Pending, InPlace
    <3>2. CASE Above(Here, q)
      <4>1. cache[Here] # Dir
        BY <1>5, <1>10, <1>11, NodeKinds DEF Alike
      <4>2. remote[q] = None /\ cache[q] = None
        BY <1>4, <1>10, <3>2, <4>1, NothingBelow
      <4>3. Mirrors(q)
        BY <4>2, MirrorsNothing, MirrorsForm
      <4> QED BY <1>8, <4>3
    <3> QED BY <1>1, <2>4, <3>1, <3>2 DEF Pending
  <2>5. NothingMissed'
    <3>1. ASSUME NEW q \in Places, InPlace(Top, q), ~KeptForUser(q) PROVE Mirrors(q)' \/ Pending(q)'
      BY <1>8, <2>4, <3>1 DEF NothingMissed
    <3> QED BY <1>2, <3>1 DEF NothingMissed, Top, KeptForUser, InPlace
  <2> QED BY <2>3, <2>5, <1>12
<1> QED BY <1>9, <1>10, <1>12

LEMMA FetchCovers ==
  ASSUME PlainPaths, TreesTypeOK, PartsOK, FitInv, CalmInv, Undisturbed,
         DirsReached, NothingMissed, KindsAgree(Top), FetchEntry, reg' = reg
  PROVE  DirsReached' /\ NothingMissed' /\ KindsAgree(Top)'
<1>1. PICK n \in walk.left :
           /\ n \in Names /\ Below(Here, n) \in Places
           /\ walk'.pc = "fetch" /\ walk'.todo = walk.todo /\ walk'.file = walk.file
           /\ walk'.left = walk.left \ {n}
           /\ LET p == Below(walk.file.path, n) IN
              \/ RemoteAt(p) = None
              \/ /\ RemoteAt(p).kind = "dir" /\ cache' = cache
                 /\ walk'.subdirs = walk.subdirs \cup {n}
              \/ /\ RemoteAt(p) # None /\ RemoteAt(p).kind # "dir"
                 /\ \E u \in update_cache(FileOf(p)) : cache' = u.files
                 /\ walk'.subdirs = walk.subdirs
  BY EntryFetched DEF Here
<1>2. /\ walk.pc = "fetch" /\ remote' = remote /\ conflicts' = conflicts
  BY DEF FetchEntry
<1>0. PICK d, b : d = Below(walk.file.path, n) /\ b = Below(Here, n)
  OBVIOUS
<1>3. /\ available = TRUE /\ mounted = TRUE /\ walk.file.path \in InWork
      /\ \A c \in InWork : Place(c) \in Places /\ c \in Straight /\ OfTree(c)
  BY <1>2, UndisturbedFacts
<1>4. /\ reg.pc = "update" /\ InTree(reg.path) /\ ReadsRemote
  BY DEF CalmInv
<1>5. Here \in Places /\ Here \in Seq(Letters) /\ remote \in Sound /\ cache \in Sound
  BY <1>2, WalkFacts
<1>6. d \in Straight /\ d \in Known /\ Place(d) = b /\ RemoteAt(d) = remote[b]
  BY <1>1, <1>2, <1>3, <1>0, EntryPlace
<1>7. remote[Here] = Dir /\ cache[Here] = Dir /\ remote[b] # None
  BY <1>1, <1>2, <1>4, <1>0 DEF ReadsRemote, DirsReached, EntriesIn
<1>8. Here' = Here /\ InWork' = InWork /\ EntriesIn(remote, Here)' = EntriesIn(remote, Here)
  BY <1>1, <1>2 DEF Here, InWork, EntriesIn
<1>9. remote[b].kind = "dir" <=> remote[b] = Dir
  BY <1>1, <1>5, <1>0, SoundFacts, NodeKinds
<1>10. CASE RemoteAt(d).kind = "dir" /\ cache' = cache /\ walk'.subdirs = walk.subdirs \cup {n}
  <2>1. DirsReached'
    BY <1>1, <1>2, <1>8, <1>10 DEF DirsReached, HasDir
  <2>2. ASSUME NEW q, Mirrors(q) PROVE Mirrors(q)'
    BY <1>2, <1>10, <2>2 DEF Mirrors
  <2>3. walk.left \cup walk.subdirs \subseteq walk'.left \cup walk'.subdirs
    BY <1>1, <1>10
  <2>4. ASSUME NEW q \in Places, Pending(q) PROVE Pending(q)'
    <3>1. CASE \E c \in walk.todo : InPlace(Place(c), q)
      BY <1>1, <3>1 DEF Pending, InPlace
    <3>2. CASE \E m \in Names :
                 /\ Below(Here, m) \in Places /\ InPlace(Below(Here, m), q)
                 /\ m \in walk.left \cup walk.subdirs \/ m \notin EntriesIn(remote, Here)
      <4>1. PICK m \in Names :
                 /\ Below(Here, m) \in Places /\ InPlace(Below(Here, m), q)
                 /\ m \in walk.left \cup walk.subdirs \/ m \notin EntriesIn(remote, Here)
        BY <3>2
      <4>2. m \in walk'.left \cup walk'.subdirs \/ m \notin EntriesIn(remote, Here)
        BY <2>3, <4>1
      <4> QED BY <1>1, <1>8, <4>1, <4>2 DEF Pending, InPlace, Places
    <3> QED BY <1>2, <2>4, <3>1, <3>2 DEF Pending
  <2>5. NothingMissed'
    <3>1. ASSUME NEW q \in Places, InPlace(Top, q), ~KeptForUser(q) PROVE Mirrors(q)' \/ Pending(q)'
      BY <2>2, <2>4, <3>1 DEF NothingMissed
    <3> QED BY <1>2, <3>1 DEF NothingMissed, Top, KeptForUser, InPlace
  <2>6. KindsAgree(Top)'
    BY <1>2, <1>10 DEF KindsAgree, Top, InPlace, Alike
  <2> QED BY <2>1, <2>5, <2>6
<1>11. CASE /\ RemoteAt(d).kind # "dir" /\ walk'.subdirs = walk.subdirs
            /\ \E u \in update_cache(FileOf(d)) : cache' = u.files
  <2>1. PICK u \in update_cache(FileOf(d)) : cache' = u.files
    BY <1>11
  <2>0. OfTree(d)
    BY <1>1, <1>3, <1>4, <1>0, BelowOfTree DEF Here
  <2>8. Alike(b)
    <3>1. b \in Places
      BY <1>0, <1>1
    <3>2. InPlace(Top, b)
      BY <1>4, <1>6, <2>0, OfTreeInPlace DEF Top
    <3> QED BY <3>1, <3>2 DEF KindsAgree
  <2>2. InTree(d)
    <3>2. PICK t \in trees : Begins(t, reg.path)
      BY <1>4 DEF InTree
    <3>3. t \in Seq(Letters) /\ reg.path \in Seq(Letters) /\ d \in Seq(Letters)
      BY <1>4, <1>6, StraightForms, WriterCases, LetterSequences DEF TreesTypeOK
    <3>4. Begins(t, d)
      <4>1. Begins(reg.path, d)
        BY <2>0 DEF OfTree
      <4>2. Len(t) \in Nat /\ Len(reg.path) \in Nat /\ Len(d) \in Nat
        BY <3>3
      <4>3. /\ Len(t) <= Len(reg.path) /\ Len(reg.path) <= Len(d)
            /\ \A i \in 1 .. Len(t) : t[i] = reg.path[i]
            /\ \A i \in 1 .. Len(reg.path) : reg.path[i] = d[i]
        BY <3>2, <4>1 DEF Begins
      <4> QED BY <4>2, <4>3 DEF Begins
    <3> QED BY <3>2, <3>4 DEF InTree
  <2>3. HasDir(cache, b)
    <3>1. DirOf(b) = Here
      BY <1>1, <1>5, <1>0, DirOfBelow
    <3> QED BY <1>7, <3>1, NodeKinds DEF HasDir
  <2>4. /\ \A q \in Places : q # b /\ Mirrors(q) => Mirrors(q)'
        /\ \A q \in Places : q # b => cache'[q] = cache[q]
        /\ ~KeptForUser(b) => Mirrors(b)'
        /\ \A q \in Places : HasDir(cache, q) => HasDir(cache', q)
        /\ \A q \in Places : cache[q] = Dir => cache'[q] = Dir
        /\ \A q \in Places : Alike(q) => Alike(q)'
    <3>1. /\ available = TRUE /\ mounted = TRUE /\ d \in Straight /\ d \in Known /\ InTree(d)
          /\ b = Place(d) /\ remote[b] # None /\ HasDir(cache, b) /\ u \in update_cache(FileOf(d))
          /\ cache' = u.files /\ remote' = remote /\ Alike(b)
      BY <1>2, <1>3, <1>6, <1>7, <2>1, <2>2, <2>3, <2>8
    <3> QED BY ONLY <3>1, PlainPaths, TreesTypeOK, PartsOK, FitInv, CoveredUpdate
  <2>5. DirsReached'
    <3>1. \A c \in InWork : remote'[Place(c)] # None /\ HasDir(cache', Place(c))
      BY <1>2, <1>3, <2>4 DEF DirsReached
    <3>2. (\A c \in InWork : remote[Place(c)] # None /\ HasDir(cache, Place(c)))'
      BY <1>8, <3>1
    <3>3. cache'[Here] = Dir
      BY <1>5, <1>7, <2>4
    <3>4. (cache[Here] = Dir)'
      BY <1>8, <3>3
    <3> QED BY <3>2, <3>4 DEF DirsReached
  <2>6. ASSUME NEW q \in Places, q # b, Pending(q) PROVE Mirrors(q)' \/ Pending(q)'
    <3>1. CASE \E c \in walk.todo : InPlace(Place(c), q)
      BY <1>1, <3>1 DEF Pending, InPlace
    <3>2. CASE \E m \in Names :
                 /\ Below(Here, m) \in Places /\ InPlace(Below(Here, m), q)
                 /\ m \in walk.left \cup walk.subdirs \/ m \notin EntriesIn(remote, Here)
      <4>1. PICK m \in Names :
                 /\ Below(Here, m) \in Places /\ InPlace(Below(Here, m), q)
                 /\ m \in walk.left \cup walk.subdirs \/ m \notin EntriesIn(remote, Here)
        BY <3>2
      <4>2. CASE m # n
        <5>1. m \in walk'.left \cup walk'.subdirs \/ m \notin EntriesIn(remote, Here)
          BY <1>1, <1>11, <4>1, <4>2
        <5> QED BY <1>1, <1>8, <4>1, <5>1 DEF Pending, InPlace, Places
      <4>3. CASE m = n
        <5>1. Above(b, q)
          BY <1>0, <2>6, <4>1, <4>3, InPlaceForm
        <5>2. b \in Places /\ remote[b] # Dir
          BY <1>1, <1>6, <1>9, <1>11, <1>0
        <5>3. remote[q] = None
          BY <1>5, <5>1, <5>2, NothingBelow
        <5>4. cache[b] # Dir
          BY <1>7, <2>8, <5>2, NodeKinds DEF Alike
        <5>5. cache[q] = None
          BY <1>5, <5>1, <5>2, <5>4, NothingBelow
        <5>6. Mirrors(q)
          BY <5>3, <5>5, MirrorsNothing, MirrorsForm
        <5> QED BY <2>4, <2>6, <5>6
      <4> QED BY <4>2, <4>3
    <3> QED BY <1>2, <2>6, <3>1, <3>2 DEF Pending
  <2>7. NothingMissed'
    <3>1. ASSUME NEW q \in Places, InPlace(Top, q), ~KeptForUser(q) PROVE Mirrors(q)' \/ Pending(q)'
      <4>1. CASE q = b
        BY <2>4, <3>1, <4>1
      <4>2. CASE q # b
        <5>1. Mirrors(q) \/ Pending(q)
          BY <3>1 DEF NothingMissed
        <5>2. CASE Mirrors(q)
          BY <2>4, <4>2, <5>2
        <5>3. CASE Pending(q)
          BY <2>6, <4>2, <5>3
        <5> QED BY <5>1, <5>2, <5>3
      <4> QED BY <4>1, <4>2
    <3> QED BY <1>2, <3>1 DEF NothingMissed, Top, KeptForUser, InPlace
  <2>9. KindsAgree(Top)'
    BY <2>4 DEF KindsAgree, Top, InPlace
  <2> QED BY <2>5, <2>7, <2>9
<1>12. RemoteAt(d) # None
  BY <1>6, <1>7
<1> QED BY <1>1, <1>10, <1>11, <1>12, <1>0

LEMMA ClearCovers ==
  ASSUME TreesTypeOK, PartsOK, FitInv, CalmInv, Undisturbed,
         DirsReached, NothingMissed, KindsAgree(Top), ClearCacheDir, reg' = reg
  PROVE  DirsReached' /\ NothingMissed' /\ KindsAgree(Top)'
<1>1. /\ walk.pc = "fetch" /\ walk.left = {} /\ remote' = remote /\ conflicts' = conflicts
  BY DEF ClearCacheDir
<1>2. /\ Here \in Places /\ Here \in Seq(Letters) /\ remote \in Sound /\ cache \in Sound
      /\ walk.file.at = Here
  BY <1>1, WalkFacts
<1>3. /\ remote[Here] = Dir /\ ReadsRemote
  BY <1>1 DEF CalmInv, ReadsRemote
<1>4. cache[Here] = Dir /\ cache[walk.file.at].kind = "dir"
  BY <1>1, <1>2, <1>3, NodeKinds DEF DirsReached
<1>5. /\ cache' = [q \in Places |-> IF q \in Cleared(Here) THEN None ELSE cache[q]]
      /\ walk' = Visiting(walk.todo \cup Subdirs)
  BY <1>2, <1>4 DEF ClearCacheDir
<1>6. walk'.pc = "visit" /\ walk'.todo = walk.todo \cup Subdirs
  BY <1>5 DEF Visiting
<1>7. \A q \in Places : cache'[q] = IF q \in Cleared(Here) THEN None ELSE cache[q]
  BY <1>5
<1>8. \A q \in Cleared(Here) : cache[q] # None /\ Alike(q) => remote[q] = None
  BY <1>1, NotCleared
<1>16. \A q \in Places : cache[q] = Dir /\ remote[q] = Dir => q \notin Cleared(Here)
  BY <1>8, NodeKinds DEF Alike
<1>9. ASSUME NEW n \in walk.subdirs
      PROVE  /\ n \in Names /\ Below(Here, n) \in Places
             /\ Place(Below(walk.file.path, n)) = Below(Here, n)
             /\ remote[Below(Here, n)] = Dir
  <2>1. n \in Names /\ Below(Here, n) \in Places /\ remote[Below(Here, n)] = Dir
    BY <1>1, <1>3 DEF ReadsRemote, EntriesIn
  <2> QED BY <1>1, <2>1, EntryPlace
<1>10. \A d \in walk.todo : Place(d) \in Places /\ d \in InWork
  BY UndisturbedFacts
<1>11. DirsReached'
  <2>1. ASSUME NEW d \in walk.todo PROVE remote[Place(d)] # None /\ HasDir(cache', Place(d))
    <3>1. remote[Place(d)] # None /\ HasDir(cache, Place(d)) /\ Place(d) \in Places
      BY <1>10 DEF DirsReached
    <3>2. CASE Place(d) = Root
      BY <3>1, <3>2 DEF HasDir
    <3>3. CASE Place(d) # Root
      <4>1. DirOf(Place(d)) \in Places /\ cache[DirOf(Place(d))] = Dir
        BY <1>2, <3>1, <3>3, PlaceCases, SoundFacts
      <4>2. remote[DirOf(Place(d))] = Dir
        BY <1>2, <3>1, <3>3 DEF Sound
      <4>3. DirOf(Place(d)) \notin Cleared(Here)
        BY <1>16, <4>1, <4>2
      <4>4. cache'[DirOf(Place(d))] = Dir
        BY <1>7, <4>1, <4>3
      <4> QED BY <3>1, <4>4, NodeKinds DEF HasDir
    <3> QED BY <3>2, <3>3
  <2>2. ASSUME NEW n \in walk.subdirs
        PROVE  /\ remote[Place(Below(walk.file.path, n))] # None
               /\ HasDir(cache', Place(Below(walk.file.path, n)))
    <3>1. DirOf(Below(Here, n)) = Here
      BY <1>2, <1>9, DirOfBelow
    <3>2. cache'[Here] = Dir
      BY <1>2, <1>3, <1>4, <1>7, <1>16
    <3>3. HasDir(cache', Below(Here, n))
      BY <3>1, <3>2, NodeKinds DEF HasDir
    <3> QED BY <1>9, <3>3, NodeKinds
  <2>3. InWork' = walk.todo \cup Subdirs
    BY <1>6 DEF InWork
  <2>4. \A d \in walk.todo \cup Subdirs : remote[Place(d)] # None /\ HasDir(cache', Place(d))
    BY <2>1, <2>2 DEF Subdirs
  <2>5. (\A d \in InWork : remote[Place(d)] # None /\ HasDir(cache, Place(d)))'
    BY <1>1, <2>3, <2>4
  <2> QED BY <1>6, <2>5 DEF DirsReached
<1>12. ASSUME NEW q \in Places, remote[q] = None, q \in Cleared(Here) \/ cache[q] = None
       PROVE  Mirrors(q)'
  <2>1. cache'[q] = None /\ remote'[q] = None
    BY <1>1, <1>7, <1>12
  <2>2. MirrorsNode(cache'[q], remote'[q])
    BY <2>1, MirrorsNothing
  <2> QED BY <2>2 DEF Mirrors, MirrorsNode
<1>13. ASSUME NEW q \in Places, Mirrors(q) PROVE Mirrors(q)'
  <2>1. CASE q \in Cleared(Here)
    <3>1. cache[q] \in Nodes /\ remote[q] \in Nodes
      BY <1>2, SoundFacts
    <3>2. Alike(q)
      BY <1>13, <3>1, NodeKinds DEF Mirrors, Alike
    <3>3. remote[q] = None
      <4>1. CASE cache[q] = None
        BY <1>13, <3>1, <4>1, NodeKinds DEF Mirrors
      <4>2. CASE cache[q] # None
        BY <1>8, <2>1, <3>2, <4>2
      <4> QED BY <4>1, <4>2
    <3> QED BY <1>12, <2>1, <3>3
  <2>2. CASE q \notin Cleared(Here)
    <3>1. cache'[q] = cache[q] /\ remote'[q] = remote[q]
      BY <1>1, <1>7, <2>2
    <3> QED BY <1>13, <3>1 DEF Mirrors
  <2> QED BY <2>1, <2>2
<1>14. ASSUME NEW q \in Places, Pending(q) PROVE Mirrors(q)' \/ Pending(q)'
  <2>1. CASE \E d \in walk.todo : InPlace(Place(d), q)
    BY <1>6, <2>1 DEF Pending, InPlace
  <2>2. CASE \E n \in Names : /\ Below(Here, n) \in Places /\ InPlace(Below(Here, n), q)
                              /\ n \in walk.subdirs
    <3>1. PICK n \in walk.subdirs : InPlace(Below(Here, n), q)
      BY <2>2
    <3>2. Below(walk.file.path, n) \in walk'.todo
      BY <1>6 DEF Subdirs
    <3>3. InPlace(Place(Below(walk.file.path, n)), q)
      BY <1>9, <3>1
    <3> QED BY <3>2, <3>3 DEF Pending, InPlace
  <2>3. CASE \E n \in Names : /\ Below(Here, n) \in Places /\ InPlace(Below(Here, n), q)
                              /\ n \notin walk.subdirs /\ n \notin EntriesIn(remote, Here)
    <3>1. PICK n \in Names : /\ Below(Here, n) \in Places /\ InPlace(Below(Here, n), q)
                             /\ n \notin walk.subdirs /\ n \notin EntriesIn(remote, Here)
      BY <2>3
    <3> DEFINE b == Below(Here, n)
    <3>2. remote[b] = None /\ remote[b] # Dir
      BY <3>1, NodeKinds DEF EntriesIn
    <3>3. n \notin walk.files
      BY <1>1, <1>3, <3>1 DEF ReadsRemote
    <3>4. q = b \/ Above(b, q)
      BY <3>1, InPlaceForm
    <3>5. remote[q] = None
      <4>1. b \in Places
        BY <3>1
      <4> HIDE DEF b
      <4> QED BY <1>2, <3>2, <3>4, <4>1, NothingBelow
    <3>6. cache[q] = None \/ cache[b] # None
      <4>1. b \in Places
        BY <3>1
      <4> HIDE DEF b
      <4> QED BY <1>2, <3>4, <4>1, NothingBelow, NodeKinds
    <3>7. cache[b] # None => q \in Cleared(Here)
      <4> SUFFICES ASSUME cache[b] # None PROVE q \in Cleared(Here)
        OBVIOUS
      <4>1. n \in Unlisted(Here)
        BY <3>1, <3>3 DEF Unlisted, EntriesIn
      <4>2. q = b \/ Begins(b \o <<Slash>>, q)
        <5> HIDE DEF b
        <5> QED BY <3>4 DEF Above
      <4> QED BY <4>1, <4>2 DEF Cleared
    <3> HIDE DEF b
    <3> QED BY <1>12, <3>5, <3>6, <3>7
  <2> QED BY <1>1, <1>14, <2>1, <2>2, <2>3 DEF Pending
<1>15. NothingMissed'
  <2>1. ASSUME NEW q \in Places, InPlace(Top, q), ~KeptForUser(q) PROVE Mirrors(q)' \/ Pending(q)'
    BY <1>13, <1>14, <2>1 DEF NothingMissed
  <2> QED BY <1>1, <2>1 DEF NothingMissed, Top, KeptForUser, InPlace
<1>17. KindsAgree(Top)'
  <2>1. ASSUME NEW q \in Places, Alike(q) PROVE Alike(q)'
    <3>1. remote'[q] = remote[q] /\ (cache'[q] = None \/ cache'[q] = cache[q])
      BY <1>1, <1>7
    <3> QED BY <2>1, <3>1 DEF Alike
  <2> QED BY <2>1 DEF KindsAgree, Top, InPlace
<1> QED BY <1>11, <1>15, <1>17

LEMMA StartCovers ==
  ASSUME PlainPaths, TreesTypeOK, PartsOK, FitInv, StartUpdate,
         calm' = "alike", remote'[Top'] # None
  PROVE  DirsReached' /\ NothingMissed' /\ KindsAgree(Top)'
<1>1. /\ reg.pc = "update" /\ walk' = Visiting({reg.path})
      /\ StartsCalm(reg.path) /\ KindsAgree(Place(reg.path))
      /\ UNCHANGED shareVars /\ UNCHANGED treeVars
  BY DEF StartUpdate, updateCache
<1>2. UNCHANGED <<remote, cache, conflicts, reg>>
  BY <1>1 DEF shareVars, treeVars
<1>3. /\ walk'.pc = "visit" /\ walk'.todo = {reg.path} /\ InWork' = {reg.path}
  BY <1>1 DEF Visiting, InWork
<1>4. reg.path \in AppPaths /\ trees \subseteq AppPaths
  BY <1>1, WalkFacts, WriterCases DEF TreesTypeOK
<1>5. FileOf(reg.path).at = Place(reg.path)
  BY <1>4, RequestedInPlace
<1>6. HasDir(cache, Place(reg.path))
  BY <1>1, <1>5 DEF StartsCalm
<1>7. remote'[Place(reg.path)] # None /\ HasDir(cache', Place(reg.path))
  BY <1>2, <1>6 DEF Top
<1>8. DirsReached'
  <2>1. (\A d \in InWork : remote[Place(d)] # None /\ HasDir(cache, Place(d)))'
    BY <1>3, <1>7
  <2> QED BY <1>3, <2>1 DEF DirsReached
<1>9. ASSUME NEW q \in Places, InPlace(Top, q) PROVE Pending(q)'
  <2>1. reg.path \in walk'.todo
    BY <1>3
  <2>2. InPlace(Place(reg.path), q)
    BY <1>9 DEF Top
  <2> QED BY <2>1, <2>2 DEF Pending, InPlace
<1>10. NothingMissed'
  BY <1>2, <1>9 DEF NothingMissed, Top, InPlace, KeptForUser
<1>11. KindsAgree(Top)'
  BY <1>1, <1>2 DEF KindsAgree, Top, InPlace, Alike
<1> QED BY <1>8, <1>10, <1>11

LEMMA NextKeepsCovered ==
  ASSUME PlainPaths, TreesTypeOK, PartsOK, FitInv, CalmInv, Covered, [Next]_vars
  PROVE  Covered'
<1> SUFFICES ASSUME Undisturbed', calm' = "alike", remote'[Top'] # None
             PROVE  DirsReached' /\ NothingMissed' /\ KindsAgree(Top)'
  BY DEF Covered
<1>1. CASE StartUpdate
  BY <1>1, StartCovers
<1>2. CASE Update
  <2>1. /\ UpdateStep /\ reg' = reg
        /\ UNCHANGED <<remote, calm>>
    BY <1>2 DEF Update, treeVars, UpdateStep, VisitDir, OpenRemoteDir, FetchEntry,
                ClearCacheDir, shareVars
  <2>2. Undisturbed
    BY <2>1 DEF Undisturbed, UpdateStep, VisitDir, OpenRemoteDir, FetchEntry, ClearCacheDir
  <2>3. remote[Top] # None
    BY <2>1 DEF Top
  <2>4. DirsReached /\ NothingMissed /\ KindsAgree(Top)
    BY <2>1, <2>2, <2>3 DEF Covered
  <2>5. CASE VisitDir
    BY <2>1, <2>2, <2>4, <2>5, VisitCovers
  <2>6. CASE OpenRemoteDir
    BY <2>1, <2>2, <2>4, <2>6, OpenCovers
  <2>7. CASE FetchEntry
    BY <2>1, <2>2, <2>4, <2>7, FetchCovers
  <2>8. CASE ClearCacheDir
    BY <2>1, <2>2, <2>4, <2>8, ClearCovers
  <2> QED BY <2>1, <2>5, <2>6, <2>7, <2>8 DEF UpdateStep
<1>3. CASE ~StartUpdate /\ ~Update
  <2>1. /\ Undisturbed
        /\ UNCHANGED <<reg, remote, cache, conflicts, walk, calm>>
    BY <1>3, OthersKeepCalm DEF CalmInv, treeVars
  <2>2. remote[Top] # None
    BY <2>1 DEF Top
  <2>3. DirsReached /\ NothingMissed /\ KindsAgree(Top)
    BY <2>1, <2>2 DEF Covered
  <2>4. DirsReached'
    BY <2>1, <2>3 DEF DirsReached, InWork, Here, HasDir
  <2>5. ASSUME NEW q \in Places, InPlace(Top, q), ~KeptForUser(q) PROVE Mirrors(q)' \/ Pending(q)'
    <3>1. Mirrors(q) \/ Pending(q)
      BY <2>3, <2>5 DEF NothingMissed
    <3> QED BY <2>1, <3>1 DEF Mirrors, Pending, Here, EntriesIn, InPlace, Above
  <2>6. NothingMissed'
    BY <2>1, <2>5 DEF NothingMissed, Top, KeptForUser, InPlace
  <2>7. KindsAgree(Top)'
    BY <2>1, <2>3 DEF KindsAgree, Top, InPlace, Alike
  <2> QED BY <2>4, <2>6, <2>7
<1> QED BY <1>1, <1>2, <1>3

LEMMA CoveredAlways ==
  ASSUME PlainPaths
  PROVE  Spec => []Covered
<1>1. Init => Covered
  BY DEF Init, Covered, Undisturbed
<1>2. TreesTypeOK /\ PartsOK /\ FitInv /\ CalmInv /\ Covered /\ [Next]_vars => Covered'
  BY NextKeepsCovered
<1> QED BY <1>1, <1>2, FitAlways, CalmAlways, PartsAlways, PTL DEF Spec

\* In a share of any size: when the update of a tree ends, nothing else has happened
\* since it began and neither side had a directory where the other had a file, the
\* cache has below the registered path what the server has there and nothing else,
\* files kept for the user left out.  This holds for every
\* order in which the directories are visited, and wherever the reading of a
\* directory has been interrupted by other requests that do not touch the share.
THEOREM UpdateMirrorsAlways ==
  ASSUME PlainPaths
  PROVE  Spec => []UpdateMirrors
<1>1. PartsOK /\ Covered => UpdateMirrors
  <2> SUFFICES ASSUME PartsOK, Covered, UpdateFinished, calm = "alike",
                      remote[Place(reg.path)] # None,
                      NEW q \in Places, InPlace(Place(reg.path), q), ~KeptForUser(q)
               PROVE  Mirrors(q)
    BY DEF UpdateMirrors, UpdateLeavesMirror
  <2>2. walk.pc = "visit" /\ walk.todo = {}
    BY DEF UpdateFinished
  <2>3. NothingMissed
    BY <2>2 DEF Covered, Undisturbed, Top
  <2>4. ~Pending(q)
    BY <2>2 DEF Pending
  <2> QED BY <2>3, <2>4 DEF NothingMissed, Top
<1> QED BY <1>1, CoveredAlways, PartsAlways, PTL
================================================================================
