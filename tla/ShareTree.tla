-------------------------------- MODULE ShareTree --------------------------------
(****************************************************************************)
(* A share as a tree of directories, files and links, its cache, and what   *)
(* an OFSFile knows and fetches: Filestatusmanager::give_me_file            *)
(* (src/src/filestatusmanager.cpp) and OFSFile::update_cache along the      *)
(* parents of a path (src/src/ofsfile.cpp).                                 *)
(*                                                                          *)
(* What lies on the server or in the cache at a place is its kind, who made *)
(* it last and when.  Directories have no time: the code never compares it  *)
(* here.  The sync log is the abstract one that loses no change (SyncLogger *)
(* has the real one): the pending change of each path, of no order.  The    *)
(* server always answers (OfflineFS has one that does not).                 *)
(****************************************************************************)
EXTENDS Backingtrees

CONSTANTS
  Names,        \* the names of directory entries, sequences of letters
  MaxTime,      \* bound of the clock
  MaxLog        \* bound: pending changes

VARIABLES
  remote, cache,        \* what lies at each place on the server and in the cache
  available, mounted,   \* FilesystemStatusManager's flag; the share is mounted
  sync, log, based,     \* sync flag; pending change of each path, "none" if there is
                        \* none; paths with a base time
  conflicts,            \* ConflictManager::conflictfiles
  now

shareVars == <<remote, cache, available, mounted, sync, log, based, conflicts, now>>

Root   == <<>>
Places == {Place(p) : p \in AppPaths} \cup {Root}

\* A path and the directories above it lie at places.
Reached(p) ==
  \A n \in 0 .. Len(p) : n = Len(p) \/ p[n + 1] = Slash => Place(SubSeq(p, 1, n)) \in Places

\* The kernel has looked up the directories above a path before it passes a request
\* on, name by name, and what a tree keeps of a path lies at a place too.
ASSUME PlacesAssumption ==
  /\ MaxTime \in Nat \ {0} /\ MaxLog \in Nat
  /\ Names \subseteq Seq(STRING \ {Slash}) \ {<<>>}
  /\ \A q \in Places \ {Root} : \E d \in Places, n \in Names : q = Below(d, n)
  /\ \A p \in AppPaths : Reached(p)
  /\ \A t, p \in AppPaths : Begins(t, p) => Place(CachePath(t, p)) \in Places

None   == [kind |-> "none", by |-> "nobody", mtime |-> 0]
Dir    == [kind |-> "dir", by |-> "nobody", mtime |-> 0]
\* Mutant of Made: stamped with the next second.
MadeLater(kind, by) ==
  IF kind = "dir" THEN Dir ELSE [kind |-> kind, by |-> by, mtime |-> now + 1]
Made(kind, by) ==
  IF kind = "dir" THEN Dir ELSE [kind |-> kind, by |-> by, mtime |-> now]
Nodes  == {None, Dir} \cup [kind : {"file", "link"}, by : {"server", "user"}, mtime : 0 .. MaxTime]

EntriesIn(files, place) == {n \in Names : Below(place, n) \in Places /\ files[Below(place, n)] # None}
DirOf(place) == SubSeq(place, 1, ParentLength(place))
HasDir(files, place) == place = Root \/ files[DirOf(place)].kind = "dir"
CanMake(files, place) == files[place] = None /\ HasDir(files, place)
CanRmdir(files, place) ==
  place # Root /\ files[place] = Dir /\ EntriesIn(files, place) = {}

\* lstat of a remote path that was built while the share was available: below the
\* bare mount point there is nothing.
RemoteAt(p) ==
  CASE mounted                       -> remote[Place(p)]
    [] ~mounted /\ Place(p) = Root   -> Dir
    [] OTHER                         -> None

(****************************************************************************)
(* class File, as give_me_file fills it: the two states of the moment, and  *)
(* where the path lies in the cache.                                        *)
(****************************************************************************)
FileOf(p) ==
  [path |-> p, offline |-> InTree(p), avail |-> available,
   at |-> Place(IF InTree(p) THEN CachePath(TreeOf(p), p) ELSE p)]

\* A path is in conflict if a listed path begins with it.
isConflicted(p) == \E c \in conflicts : Begins(p, c)

(****************************************************************************)
(* update_cache.  An outcome is the cache afterwards and whether no         *)
(* exception has ended it.                                                  *)
(****************************************************************************)
\* Mutant of Updates: conflicts are not asked for.
UpdatesConflicts(f, r) == f.offline /\ f.avail
Updates(f, r) == f.offline /\ f.avail /\ (~isConflicted(f.path) \/ r.kind = "dir")

\* Below a file lstat fails with ENOTDIR, not with ENOENT.
Blocked(files, place) ==
  \E d \in Places : Begins(d \o <<Slash>>, place) /\ files[d].kind \notin {"none", "dir"}
LstatFails(f) ==
  \/ mounted /\ Blocked(remote, Place(f.path))
  \/ RemoteAt(f.path) # None /\ Blocked(cache, f.at)

\* Making or replacing what lies at f's place, after its parent's turn: a directory
\* is only made, a file or link does not replace a directory, and nothing is made
\* without its directory.  Directories have no time here: the remote file may be
\* newer than the cached directory or not.
Fetched(before, f, r) ==
  LET old    == before.files[f.at]
      fresh  == r.kind \in {"none", "dir"} \/ r.mtime <= old.mtime
      failed == [before EXCEPT !.ok = FALSE]
  IN
  CASE ~before.ok -> {before}
    [] before.ok /\ LstatFails(f) -> {failed}
    [] before.ok /\ ~LstatFails(f) /\ old = Dir ->
         IF r.kind \in {"none", "dir"} THEN {before} ELSE {before, failed}
    [] before.ok /\ ~LstatFails(f) /\ old # Dir ->
         IF r = None \/ (old # None /\ fresh) THEN {before}
         ELSE IF HasDir(before.files, f.at)
              THEN {[before EXCEPT !.files[f.at] = Made(r.kind, r.by)]}
              ELSE {failed}

\* The parent is looked after if the remote file is missing, or the cached one.
NeedsParent(f) ==
  /\ Updates(f, RemoteAt(f.path)) /\ ~LstatFails(f)
  /\ RemoteAt(f.path) = None \/ cache[f.at] = None
  /\ HasParent(f.path)

update_cache(f) ==
  LET unchanged == [files |-> cache, ok |-> TRUE]
      outcomes[n \in 0 .. Len(f.path)] ==
        LET g == IF n = Len(f.path) THEN f ELSE FileOf(SubSeq(f.path, 1, n))
            parent == IF NeedsParent(g) THEN outcomes[ParentLength(g.path)] ELSE {unchanged}
        IN  IF Updates(g, RemoteAt(g.path))
            THEN UNION {Fetched(before, g, RemoteAt(g.path)) : before \in parent}
            ELSE {unchanged}
  IN  outcomes[Len(f.path)]

(****************************************************************************)
(* The change log: an earlier entry of the path is merged into the new one. *)
(****************************************************************************)
Types == {"c", "d", "m"}
MergeTypes(first, new) ==
  CASE first = "none" -> new
    [] first = "c" -> IF new = "d" THEN "none" ELSE IF new = "m" THEN "c" ELSE "m"
    [] OTHER -> IF new = "d" THEN "d" ELSE "m"

LogHasRoom == Cardinality({p \in AppPaths : log[p] # "none"}) < MaxLog

\* AddEntry and setsync(false).
LogChange(p, type) ==
  /\ log' = [log EXCEPT ![p] = MergeTypes(@, type)]
  /\ sync' = FALSE

savemtime(f) ==
  based' = IF f.offline /\ ~f.avail /\ cache[f.at] # None THEN based \cup {f.path} ELSE based
================================================================================
