------------------------------ MODULE OfflineTrees ------------------------------
(****************************************************************************)
(* Offline trees at work: requests on directories, links and attributes     *)
(* (TreeRequests), the update of a registered tree (CacheUpdate), the list  *)
(* of trees with its file (Backingtrees), other users of the server, the    *)
(* mount, and the process, which may end and be started again.              *)
(****************************************************************************)
EXTENDS TreeRequests

CONSTANTS
  Listed,       \* the trees an earlier process has left in the saved list
  MaxEvents     \* bound: requests, edits on the server and restarts

ASSUME OfflineTreesAssumption ==
  /\ MaxEvents \in Nat
  /\ Listed \subseteq AppPaths /\ Separate(Listed)

vars == <<treeVars, shareVars, walk, calm, req, used>>

Counted == used < MaxEvents /\ used' = used + 1

\* What the share holds before the application comes.
Original(kind) ==
  IF kind = "dir" THEN Dir ELSE [kind |-> kind, by |-> "server", mtime |-> 1]
Originals(q) == {Original(kind) : kind \in KindsAt[q]} \cup (IF q = Root THEN {} ELSE {None})
Shares ==
  {files \in [Places -> UNION {Originals(q) : q \in Places}] :
     \A q \in Places : files[q] \in Originals(q) /\ (files[q] # None => HasDir(files, q))}

Init ==
  /\ TreesInit(Listed)
  /\ remote \in Shares
  /\ cache = [q \in Places |-> IF q = Root THEN Dir ELSE None]
  /\ available = TRUE /\ mounted = TRUE
  /\ sync = TRUE /\ log = [p \in AppPaths |-> "none"] /\ based = {} /\ conflicts = {}
  /\ now = 1
  /\ walk = AtRest /\ calm = "no"
  /\ req = NoReq
  /\ used = 0

(****************************************************************************)
(* Requests.  One on a file or directory is at work at a time, and beside   *)
(* it those on attributes, each by a thread of its own.                     *)
(****************************************************************************)
BeginRequest ==
  /\ Counted
  /\ \/ \E p \in AppPaths :
          \/ fuse_mkdir(p) \/ fuse_mknod(p) \/ fuse_symlink(p) \/ fuse_rmdir(p)
          \/ fuse_chmod(p) \/ fuse_chown(p) \/ fuse_utimens(p) \/ fuse_readlink(p)
     \/ \E p, q \in AppPaths : fuse_link(p, q)
     \/ \E p \in conflicts, version \in Versions : fuse_setxattr(p, version)
  /\ UNCHANGED <<treeVars, shareVars, walk, calm>>

RunRequest ==
  /\ FileRequest
  /\ calm' = "no"
  /\ UNCHANGED <<treeVars, walk, used>>

Register ==
  /\ Counted
  /\ \E p \in AppPaths : op_setxattr_offline(p)
  /\ UNCHANGED <<shareVars, walk, calm, req>>

Remove ==
  /\ Counted
  /\ \E p \in AppPaths : op_removexattr_offline(p)
  /\ calm' = "no"
  /\ UNCHANGED <<shareVars, walk, req>>

SetAvailability ==
  /\ Counted
  /\ op_setxattr_available \/ op_removexattr_available
  /\ calm' = "no"
  /\ UNCHANGED <<treeVars, walk, req>>

(****************************************************************************)
(* The two requests that change the list of trees, after they have begun.   *)
(****************************************************************************)
SaveTrees ==
  /\ RegTruncate \/ RegWrite
  /\ UNCHANGED <<shareVars, walk, calm, req, used>>

StartUpdate ==
  /\ updateCache
  /\ UNCHANGED <<treeVars, req, used>>

Update ==
  /\ UpdateStep
  /\ UNCHANGED <<treeVars, req, used>>

FinishRegister ==
  /\ EndUpdate
  /\ EndRegister
  /\ UNCHANGED <<req, used>>

RemoveTree ==
  /\ remove_Backingtree \/ RemTruncate \/ RemWrite
  /\ calm' = "no"
  /\ UNCHANGED <<shareVars, walk, req, used>>

(****************************************************************************)
(* The environment.                                                         *)
(****************************************************************************)
\* Somebody else makes, changes, replaces or deletes something on the server; a
\* directory goes with what is below it.
ServerEdit ==
  /\ Counted
  /\ \E q \in Places \ {Root} :
     \E node \in {None} \cup {Made(kind, "server") : kind \in KindsAt[q]} :
       /\ HasDir(remote, q) /\ node # remote[q]
       /\ remote' = [r \in Places |-> IF r = q THEN node
                                      ELSE IF Begins(q \o <<Slash>>, r) THEN None
                                      ELSE remote[r]]
  /\ calm' = "no"
  /\ UNCHANGED <<treeVars, cache, available, mounted, sync, log, based, conflicts, now,
                 walk, req>>

\* mountfs of setAvailability(true).
MountShare ==
  /\ available /\ ~mounted
  /\ mounted' = TRUE
  /\ calm' = "no"
  /\ UNCHANGED <<treeVars, remote, cache, available, sync, log, based, conflicts, now,
                 walk, req, used>>

\* Of a pass, the branch of CreateFile that finds the entry made on the server too:
\* the path is listed as a conflict and its entry dropped.
ConflictFound ==
  /\ available /\ mounted /\ InstanceFree
  /\ \E p \in AppPaths :
       LET f == FileOf(p)
       IN /\ log[p] = "c" /\ f.offline
          /\ cache[f.at] # None /\ RemoteAt(p) # None
          /\ cache[f.at] # Dir \/ RemoteAt(p) # Dir
          /\ conflicts' = conflicts \cup {p}
          /\ log' = [log EXCEPT ![p] = "none"]
          /\ based' = based \ {p}
  /\ calm' = "no"
  /\ UNCHANGED <<treeVars, remote, cache, available, mounted, sync, now, walk, req, used>>

Tick ==
  /\ now < MaxTime
  /\ now' = now + 1
  /\ UNCHANGED <<treeVars, remote, cache, available, mounted, sync, log, based, conflicts,
                 walk, calm, req, used>>

\* The process ends at any point and is started again, with the share mounted.
Restart ==
  /\ Counted
  /\ reinstate
  /\ available' = TRUE /\ mounted' = TRUE /\ sync' = TRUE
  /\ walk' = AtRest /\ calm' = "no"
  /\ req' = NoReq
  /\ UNCHANGED <<remote, cache, log, based, conflicts, now>>

Next ==
  \/ BeginRequest \/ RunRequest
  \/ Register \/ Remove \/ SetAvailability
  \/ SaveTrees \/ StartUpdate \/ Update \/ FinishRegister \/ RemoveTree
  \/ ServerEdit \/ MountShare \/ ConflictFound \/ Tick \/ Restart

Spec == Init /\ [][Next]_vars

\* The thread that registers a tree runs on: nothing ends it but the end of the
\* process.  Nothing is assumed of the other requests, the other users of the
\* server, the recogniser or the clock.
Fairness ==
  /\ WF_vars(SaveTrees) /\ WF_vars(StartUpdate) /\ WF_vars(FinishRegister)
  \* WF_vars(Update), with what disables it written out: the pc alone decides.
  /\ []<>(walk = AtRest \/ UpdateFinished) \/ []<><<Update>>_vars

FairSpec == Spec /\ Fairness
--------------------------------------------------------------------------------
ShareTypeOK ==
  /\ remote \in [Places -> Nodes] /\ cache \in [Places -> Nodes]
  /\ available \in BOOLEAN /\ mounted \in BOOLEAN /\ sync \in BOOLEAN
  /\ log \in [AppPaths -> Types \cup {"none"}]
  /\ based \subseteq AppPaths /\ conflicts \subseteq AppPaths
  /\ now \in 0 .. MaxTime

TypeOK ==
  /\ TreesTypeOK /\ ShareTypeOK
  /\ walk.pc \in {"rest", "visit", "list", "fetch"}
  /\ calm \in {"no", "mixed", "alike"}
  /\ used \in 0 .. MaxEvents

\* What the theorems about the next three properties need in a share of any size:
\* paths are as the kernel gives them, and one begins another only with whole names.
PlainPaths ==
  /\ \A p \in AppPaths : p = RootPath \/ Place(p) = p
  /\ \A p, q \in AppPaths :
       Begins(p, q) /\ p # q /\ p # RootPath => q[Len(p) + 1] = Slash

\* What the update of a tree is for: when nothing else has happened since it began,
\* and neither side had a directory where the other had a file, the cache below the
\* registered path has what the server has and nothing else, and nothing in it is
\* older.  A file keeps the user's version while it, or something that was below it,
\* is in conflict.
\* (backingtree.cpp:140 "make sure all files and directories in the cache are
\* current", :176 "remove files and directories which have been removed")
Mirrors(q) ==
  /\ \A kind \in {"none", "dir"} : cache[q].kind = kind <=> remote[q].kind = kind
  /\ remote[q].mtime <= cache[q].mtime
KeptForUser(q) ==
  remote[q].kind \in {"file", "link"} /\ \E c \in conflicts : InPlace(q, Place(c))
UpdateLeavesMirror ==
  remote[Place(reg.path)] # None =>
    \A q \in Places : InPlace(Place(reg.path), q) /\ ~KeptForUser(q) => Mirrors(q)
UpdateMirrors == UpdateFinished /\ calm = "alike" => UpdateLeavesMirror

\* The same whatever lay on the two sides when the update began.
UpdateMirrorsMixed == UpdateFinished /\ calm # "no" => UpdateLeavesMirror

\* An update leaves the user's version alone while ofs.conflict says that it is in
\* conflict, as long as the server has a file or link there and nobody interferes.
\* The update of "/" itself is left out: it asks isConflicted for "//d/f".
KeepsConflicts(step, kinds) ==
  step /\ calm # "no" /\ calm' # "no" /\ reg.path # RootPath =>
    \A p \in AppPaths :
      op_getxattr(FileOf(p), "conflict") /\ cache[FileOf(p).at].kind \in kinds
        /\ remote[Place(p)].kind \in {"file", "link"}
      => cache'[FileOf(p).at] = cache[FileOf(p).at]

\* So for a file or a link of the user.
ConflictSurvivesUpdate == [][KeepsConflicts(UpdateStep, {"file", "link"})]_vars

\* So for a directory of the user, which a file on the server is in conflict with
\* (synchronizationmanager.cpp:244).
DirectorySurvivesUpdate == [][KeepsConflicts(UpdateStep, {"dir"})]_vars

\* A conflict leaves the list when both sides have one version again.
\* (getting_started.md:125 "you can decide if the local should overwrite the file in
\* the server or the other way")
SameVersion(p) ==
  LET here == cache'[FileOf(p).at]
      there == remote'[Place(p)]
  IN  here.kind = there.kind /\ here.by = there.by
IsResolved(p) ==
  p \in conflicts /\ p \notin conflicts' /\ req.file.avail /\ available /\ mounted
OfFiles(p) == Dir \notin {cache[FileOf(p).at], remote[Place(p)]}

\* So for a conflict of files and links ...
ResolutionAgrees ==
  [][\A p \in AppPaths : IsResolved(p) /\ OfFiles(p) => SameVersion(p)]_vars
\* ... and for one with a directory on either side.
DirectoryResolutionAgrees ==
  [][\A p \in AppPaths : IsResolved(p) /\ ~OfFiles(p) => SameVersion(p)]_vars

\* An update deletes from the cache what the server no longer has.
\* (backingtree.cpp:176-177 "remove files and directories which have been removed
\* from the remote directory".)  A change that is still pending has never been there.
KeepsPending(step) ==
  \A p \in AppPaths :
    LET at == FileOf(p).at IN
    step /\ log[p] = "c" /\ cache[at] # None => cache'[at] # None
OnlyRemovedIsCleared == [][KeepsPending(UpdateStep)]_vars

\* The update of a tree ends and frees the lock that every request waits for.
UpdateEnds == reg.pc # "free" ~> InstanceFree
================================================================================
