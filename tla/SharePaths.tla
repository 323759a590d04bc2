------------------------------- MODULE SharePaths -------------------------------
(****************************************************************************)
(* Paths as OFS compares and builds them: character by character, relative  *)
(* to the share.  A path is the sequence of its letters; the operators      *)
(* below are the string operations of class Backingtree                     *)
(* (src/src/backingtree.cpp), of ConflictManager::isConflicted and of       *)
(* OFSFile::get_parent_directory, which know nothing of directories.        *)
(****************************************************************************)
EXTENDS Integers, Sequences

Slash == "/"
RootPath == <<Slash>>

\* is_in_backingtree of a tree p: path q begins with it, be it below p or not
\* ("/d" begins "/df" too).
Begins(p, q) == Len(p) <= Len(q) /\ \A i \in 1 .. Len(p) : p[i] = q[i]

\* relativeDir + "/" + filename, also where relativeDir is "/" already.
Below(dir, name) == dir \o <<Slash>> \o name

\* get_parent_directory: everything before the last slash, a trailing one not
\* counted; of "/d" and of "/" itself it is the empty path, which has no parent.
SlashesOf(p) ==
  {i \in 1 .. Len(p) : p[i] = Slash /\ (i < Len(p) \/ Len(p) = 1)}
HasParent(p) == SlashesOf(p) # {}
ParentLength(p) ==
  (CHOOSE i \in SlashesOf(p) : \A j \in SlashesOf(p) : j <= i) - 1

\* What the operating system makes of a path below a directory: repeated and
\* trailing slashes are dropped, and the empty place is the directory itself.
Place(p) ==
  LET kept[n \in 0 .. Len(p)] ==
        CASE n = 0 -> <<>>
          [] n > 0 /\ p[n] = Slash /\ (n = Len(p) \/ p[n + 1] = Slash) -> kept[n - 1]
          [] OTHER -> Append(kept[n - 1], p[n])
  IN  kept[Len(p)]

\* Backingtree::get_cache_path: the rest of the path goes below the tree, with a
\* slash between them, so in the tree "/d" the path "/df" is that of "/d/f".
CachePath(tree, p) ==
  IF Len(p) = Len(tree)
  THEN tree
  ELSE Below(tree, SubSeq(p, Len(tree) + 1, Len(p)))
================================================================================
