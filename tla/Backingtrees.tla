------------------------------ MODULE Backingtrees ------------------------------
(****************************************************************************)
(* The trees of the share that are kept offline: BackingtreeManager's list  *)
(* (src/src/backingtreemanager.cpp) and the file it is saved in             *)
(* (src/src/backingtreepersistence.cpp, src/src/persistencemanager.cpp).    *)
(*                                                                          *)
(* One request registers a tree: it holds the manager's lock until the      *)
(* cache has been updated.  Another one removes a tree: it passes the lock  *)
(* in Instance() and then works without it.  Both save the list in two      *)
(* steps, a truncation and a write, between which the process may end.      *)
(* Changing the list itself is one step (it is a std::list changed by two   *)
(* threads without a lock, whose outcome the language leaves open).         *)
(****************************************************************************)
EXTENDS SharePaths, FiniteSets

CONSTANT
  AppPaths      \* the paths that requests name: nonempty, as the kernel gives them

ASSUME AppPathsAssumption == AppPaths \subseteq Seq(STRING) \ {<<>>}

VARIABLES
  trees,        \* backinglist: the relative paths of the trees
  saved,        \* the trees that reading the saved list gives
  plist,        \* BackingtreePersistence::p_backingtrees
  reg,          \* the request in register_Backingtree, which holds the lock
  rem,          \* the request in remove_Backingtree
  raced         \* history: a removal and a registration have saved at once

treeVars == <<trees, saved, plist, reg, rem, raced>>

Free == [pc |-> "free"]
Updating(p) == [pc |-> "update", path |-> p]
Removing(p) == [pc |-> "remove", path |-> p]
\* persist() takes a copy of the list before BackingtreePersistence gets it.
Persisting(p, list) == [pc |-> "persist", path |-> p, list |-> list]
\* get_persistence has made the text; "mixed" if another thread writes its own
\* text into the file meanwhile.
Writing(p, list) == [pc |-> "write", path |-> p, list |-> list, mixed |-> FALSE]

\* MutexLocker in Instance(): held for the whole of register_Backingtree.
InstanceFree == reg = Free

InTree(p) == \E t \in trees : Begins(t, p)
\* Search_Backingtree_via_Path: the first tree of the list.
TreeOf(p) == CHOOSE t \in trees : Begins(t, p)
BacktreesBelow(p) == {t \in trees : Begins(p, t)}

\* The first process, or one that finds a list.
TreesInit(list) ==
  /\ saved \in {{}, list} /\ trees = saved /\ plist = saved
  /\ reg = Free /\ rem = Free
  /\ raced = FALSE

\* No tree of a list begins another one of it.
Separate(list) == \A s, t \in list : Begins(s, t) => s = t

\* Mutant of register_Backingtree: the trees below the new one stay.
register_BackingtreeKeeping(p) ==
  /\ InstanceFree
  /\ IF InTree(p)
     THEN reg' = Updating(p) /\ UNCHANGED <<trees, raced>>
     ELSE /\ trees' = trees \cup {p}
          /\ reg' = Persisting(p, trees')
          /\ raced' = (raced \/ rem.pc \in {"persist", "write"})
  /\ UNCHANGED <<saved, plist, rem>>

register_Backingtree(p) ==
  /\ InstanceFree
  /\ IF InTree(p)
     THEN reg' = Updating(p) /\ UNCHANGED <<trees, raced>>
     ELSE /\ trees' = (trees \ BacktreesBelow(p)) \cup {p}
          /\ reg' = Persisting(p, trees')
          /\ raced' = (raced \/ rem.pc \in {"persist", "write"})
  /\ UNCHANGED <<saved, plist, rem>>

\* Instance(), which waits for a registration, and then erase without the lock.
EnterRemove(p) ==
  /\ InstanceFree /\ rem = Free
  /\ rem' = Removing(p)
  /\ UNCHANGED <<trees, saved, plist, reg, raced>>

\* Mutant of remove_Backingtree: the list is not saved.
remove_BackingtreeUnsaved ==
  /\ rem.pc = "remove"
  /\ trees' = trees \ {rem.path}
  /\ rem' = Free
  /\ UNCHANGED <<saved, plist, reg, raced>>

remove_Backingtree ==
  /\ rem.pc = "remove"
  /\ trees' = trees \ {rem.path}
  /\ rem' = Persisting(rem.path, trees')
  /\ raced' = (raced \/ reg.pc \in {"persist", "write"})
  /\ UNCHANGED <<saved, plist, reg>>

(****************************************************************************)
(* make_persistent.  A file read between its two steps has no list.         *)
(****************************************************************************)
RegTruncate ==
  /\ reg.pc = "persist"
  /\ plist' = reg.list
  /\ saved' = {}
  /\ reg' = Writing(reg.path, reg.list)
  /\ UNCHANGED <<trees, rem, raced>>

RemTruncate ==
  /\ rem.pc = "persist"
  /\ plist' = rem.list
  /\ saved' = {}
  /\ rem' = Writing(rem.path, rem.list)
  /\ UNCHANGED <<trees, reg, raced>>

\* A text written over a longer one leaves the end of that one, and a file that
\* does not parse is read as an empty list.
Written(writer) == IF writer.mixed THEN {writer.list, {}} ELSE {writer.list}
Mixed(other, list) ==
  IF other.pc = "write" /\ other.list # list THEN [other EXCEPT !.mixed = TRUE] ELSE other

RegWrite ==
  /\ reg.pc = "write"
  /\ saved' \in Written(reg)
  /\ reg' = Updating(reg.path)
  /\ rem' = Mixed(rem, reg.list)
  /\ UNCHANGED <<trees, plist, raced>>

RemWrite ==
  /\ rem.pc = "write"
  /\ saved' \in Written(rem)
  /\ rem' = Free
  /\ reg' = Mixed(reg, rem.list)
  /\ UNCHANGED <<trees, plist, raced>>

\* register_Backingtree returns after updateCache.
EndRegister ==
  /\ reg.pc = "update"
  /\ reg' = Free
  /\ UNCHANGED <<trees, saved, plist, rem, raced>>

\* The process ends at any point; the next one reads the list (reinstate).
reinstate ==
  /\ plist' = saved /\ trees' = saved
  /\ reg' = Free /\ rem' = Free
  /\ UNCHANGED <<saved, raced>>

TreesNext ==
  \/ \E p \in AppPaths : register_Backingtree(p)
  \/ \E p \in AppPaths : EnterRemove(p)
  \/ remove_Backingtree
  \/ RegTruncate
  \/ RegWrite
  \/ RemTruncate
  \/ RemWrite
  \/ EndRegister
  \/ reinstate

TreesSpec(list) == TreesInit(list) /\ [][TreesNext]_treeVars
--------------------------------------------------------------------------------
Writers == {Free}
  \cup [pc : {"update", "remove"}, path : AppPaths]
  \cup [pc : {"persist"}, path : AppPaths, list : SUBSET AppPaths]
  \cup [pc : {"write"}, path : AppPaths, list : SUBSET AppPaths, mixed : BOOLEAN]

TreesTypeOK ==
  /\ trees \subseteq AppPaths /\ saved \subseteq AppPaths /\ plist \subseteq AppPaths
  /\ reg \in Writers /\ rem \in Writers
  /\ raced \in BOOLEAN

\* A path belongs to one tree, whichever trees have been registered, removed or
\* read back before, so what give_me_file answers does not depend on the order
\* of the list.  (backingtreemanager.cpp:40 "if there are backingtrees below this
\* one, remove them, because the new one is the new root")
OneTreePerPath ==
  \A p \in AppPaths : \A s, t \in trees : Begins(s, p) /\ Begins(t, p) => s = t

\* While nobody saves, the file holds the list: a restart changes nothing.  Two
\* requests that have saved at once may have left an older list in it.
SavedIsRegistered ==
  (~raced /\ rem = Free /\ reg.pc \in {"free", "update"}) => saved = trees
================================================================================
