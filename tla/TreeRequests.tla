------------------------------ MODULE TreeRequests ------------------------------
(****************************************************************************)
(* The requests on directories, links and attributes: the callbacks of      *)
(* src/src/ofs_fuse.cpp, which build the OFSFile (fuse_mkdir, ...), and its *)
(* operations in src/src/ofsfile.cpp (op_mkdir, ...).                       *)
(*                                                                          *)
(* Building an OFSFile takes the tree manager's lock and captures where the *)
(* file lies and whether the share is available; the operation runs later,  *)
(* whatever has happened to the trees and the share in between.  It takes   *)
(* the lock again when update_cache has to look after a parent.             *)
(*                                                                          *)
(* Permission bits, owners and the targets of links are left out: of chmod  *)
(* and chown their update_cache and the sync flag remain.                   *)
(****************************************************************************)
EXTENDS CacheUpdate

CONSTANTS Requests,     \* the requests the application makes
          KindsAt       \* what the application and others make at each place

\* The share itself is a directory.  Where something may lie below, nobody makes a
\* link: it could lead to a directory, and targets are left out.
ASSUME KindsAssumption ==
  /\ KindsAt \in [Places -> SUBSET {"dir", "file", "link"}]
  /\ KindsAt[Root] = {"dir"}
  /\ \A q \in Places, n \in Names : Below(q, n) \in Places => "link" \notin KindsAt[q]

VARIABLES req, used     \* the request in work; the number of events, for the bound

NoReq == [op |-> "none"]

Seen(p) == IF available THEN RemoteAt(p) ELSE cache[FileOf(p).at]

\* The kernel has looked the path up (op_getattr) before it passes a request on.
Asks(op, p, q) ==
  /\ req = NoReq /\ op \in Requests
  /\ InstanceFree
  /\ req' = [op |-> op, file |-> FileOf(p), to |-> FileOf(q)]

MakesNew(op, p, kind) ==
  Asks(op, p, p) /\ kind \in KindsAt[Place(p)] /\ Seen(p) = None /\ LogHasRoom

fuse_mkdir(p)   == MakesNew("mkdir", p, "dir")
fuse_mknod(p)   == MakesNew("mknod", p, "file")
fuse_symlink(p) == MakesNew("symlink", p, "link")
fuse_rmdir(p)   == Asks("rmdir", p, p) /\ Seen(p).kind = "dir" /\ LogHasRoom
fuse_link(p, q) ==
  /\ Asks("link", p, q)
  /\ Seen(p).kind \in {"file", "link"} /\ Seen(q) = None
  /\ KindsAt[Place(p)] \ {"dir"} \subseteq KindsAt[Place(q)]
  /\ LogHasRoom
fuse_chmod(p)   == Asks("chmod", p, p) /\ Seen(p) # None
fuse_chown(p)   == Asks("chown", p, p) /\ Seen(p) # None
fuse_utimens(p) == Asks("utimens", p, p) /\ Seen(p) # None
fuse_readlink(p) == Asks("readlink", p, p) /\ Seen(p).kind = "link"

\* ofs.conflict is set; the requests that set the other attributes are below.
Versions == {"local", "remote"}
fuse_setxattr(p, version) ==
  /\ req = NoReq /\ "setxattr" \in Requests
  /\ InstanceFree
  /\ Seen(p) # None
  /\ req' = [op |-> "setxattr", file |-> FileOf(p), version |-> version]

(****************************************************************************)
(* The operations.                                                          *)
(****************************************************************************)
Runs(op) ==
  /\ req.op = op
  /\ req' = NoReq
  /\ NeedsParent(req.file) => InstanceFree

\* Working through a remote path: below the bare mount point it changes nothing
\* of the share, and without the share the path is empty.
OnServer(f) == f.avail /\ mounted
Able(files, place, node) ==
  IF node = None THEN CanRmdir(files, place) ELSE CanMake(files, place)
ChangeRemote(f, node) ==
  remote' = IF OnServer(f) /\ Able(remote, Place(f.path), node)
            THEN [remote EXCEPT ![Place(f.path)] = node] ELSE remote

\* After update_cache (u), what is done in the cache of a tree, with its log entry,
\* or on the server.
Through(u, f, node, type) ==
  CASE u.ok /\ f.offline /\ Able(u.files, f.at, node) ->
         /\ cache' = [u.files EXCEPT ![f.at] = node]
         /\ LogChange(f.path, type)
         /\ UNCHANGED remote
    [] u.ok /\ ~f.offline ->
         /\ cache' = u.files
         /\ ChangeRemote(f, node)
         /\ UNCHANGED <<log, sync>>
    [] OTHER ->
         cache' = u.files /\ UNCHANGED <<remote, log, sync>>

op_mkdir ==
  /\ Runs("mkdir")
  /\ \E u \in update_cache(req.file) : Through(u, req.file, Dir, "c")
  /\ UNCHANGED <<available, mounted, based, conflicts, now>>

\* op_mknod logs the change even where it could not be made.
op_mknod ==
  /\ Runs("mknod")
  /\ \E u \in update_cache(req.file) :
       IF u.ok /\ req.file.offline /\ ~CanMake(u.files, req.file.at)
       THEN cache' = u.files /\ LogChange(req.file.path, "c") /\ UNCHANGED remote
       ELSE Through(u, req.file, Made("file", "user"), "c")
  /\ UNCHANGED <<available, mounted, based, conflicts, now>>

op_rmdir ==
  /\ Runs("rmdir")
  /\ \E u \in update_cache(req.file) :
       /\ IF u.ok THEN savemtime(req.file) ELSE UNCHANGED based
       /\ Through(u, req.file, None, "d")
  /\ UNCHANGED <<available, mounted, conflicts, now>>

\* No update_cache, and neither a log entry nor the flag.
op_symlink ==
  /\ req.op = "symlink" /\ req' = NoReq
  /\ LET f == req.file
         link == Made("link", "user")
     IN IF f.offline
        THEN /\ cache' = IF CanMake(cache, f.at) THEN [cache EXCEPT ![f.at] = link] ELSE cache
             /\ UNCHANGED remote
        ELSE ChangeRemote(f, link) /\ UNCHANGED cache
  /\ UNCHANGED <<log, sync, available, mounted, based, conflicts, now>>

\* The cached file gets a second name, but it is the first one that is logged.
op_link ==
  /\ Runs("link")
  /\ LET f  == req.file
         to == req.to
     IN \E u \in update_cache(f) :
          CASE /\ u.ok /\ f.offline
               /\ u.files[f.at].kind \in {"file", "link"} /\ CanMake(u.files, to.at) ->
                 /\ cache' = [u.files EXCEPT ![to.at] = u.files[f.at]]
                 /\ LogChange(f.path, "c")
                 /\ UNCHANGED remote
            [] u.ok /\ ~f.offline /\ f.avail /\ RemoteAt(f.path).kind \in {"file", "link"} ->
                 /\ cache' = u.files
                 /\ ChangeRemote(to, RemoteAt(f.path))
                 /\ UNCHANGED <<log, sync>>
            [] OTHER -> cache' = u.files /\ UNCHANGED <<remote, log, sync>>
  /\ UNCHANGED <<available, mounted, based, conflicts, now>>

\* Of a cached file neither is logged; the sync flag falls all the same.
ChangesMode(op) ==
  /\ Runs(op)
  /\ \E u \in update_cache(req.file) :
       /\ cache' = u.files
       /\ sync' = (sync /\ ~(u.ok /\ req.file.offline))
  /\ UNCHANGED <<remote, log, available, mounted, based, conflicts, now>>
op_chmod == ChangesMode("chmod")
op_chown == ChangesMode("chown")

\* The times go to the cached file and to the remote one, without a log entry.  Of a
\* link it is the target that utimes changes.
Touched(node) == IF node.kind = "file" THEN [node EXCEPT !.mtime = now] ELSE node
op_utimens ==
  /\ Runs("utimens")
  /\ LET f == req.file IN
     \E u \in update_cache(f) :
       /\ cache' = IF u.ok /\ f.offline
                   THEN [u.files EXCEPT ![f.at] = Touched(@)] ELSE u.files
       /\ remote' = IF u.ok /\ OnServer(f)
                    THEN [remote EXCEPT ![Place(f.path)] = Touched(@)] ELSE remote
  /\ UNCHANGED <<log, sync, available, mounted, based, conflicts, now>>

\* update_amtime leaves links as they are.
op_readlink ==
  /\ Runs("readlink")
  /\ \E u \in update_cache(req.file) : cache' = u.files
  /\ UNCHANGED <<remote, log, sync, available, mounted, based, conflicts, now>>

\* Mutant of Resolved: the version that is kept is not copied.
ResolvedByDeleting(files, place, node) ==
  [files |-> IF place = Root THEN files ELSE [files EXCEPT ![place] = None], ok |-> TRUE]

\* ConflictManager::resolve of a listed path: one version is deleted and the other
\* one copied if it is a file or a link; a directory that is not empty stays, and
\* with it the conflict.  Its File is built now: without the share by then, the
\* server's version counts as deleted.
Resolved(files, place, node) ==
  LET old     == files[place]
      cleared == IF place # Root /\ (old.kind \in {"file", "link"}
                                     \/ (node # None /\ CanRmdir(files, place)))
                 THEN [files EXCEPT ![place] = None] ELSE files
  IN CASE node \in {None, Dir} -> [files |-> cleared, ok |-> TRUE]
       [] node \notin {None, Dir} /\ CanMake(cleared, place) ->
            [files |-> [cleared EXCEPT ![place] = Made(node.kind, node.by)], ok |-> TRUE]
       [] OTHER -> [files |-> cleared, ok |-> FALSE]

resolve(p, direction) ==
  LET f == FileOf(p)
      theirs == Resolved(cache, f.at, IF f.avail THEN RemoteAt(p) ELSE None)
      mine   == Resolved(remote, Place(p), cache[f.at])
  IN
  /\ InstanceFree
  /\ p \in conflicts
  /\ IF direction = "local"
     THEN /\ remote' = IF OnServer(f) THEN mine.files ELSE remote
          /\ conflicts' = IF mine.ok \/ (f.avail /\ ~mounted) THEN conflicts \ {p} ELSE conflicts
          /\ UNCHANGED cache
     ELSE /\ cache' = theirs.files
          /\ conflicts' = IF theirs.ok THEN conflicts \ {p} ELSE conflicts
          /\ UNCHANGED remote

\* ofs.conflict: only for a File of a tree that was built while the share was
\* available, and without effect on a path that is not listed.
op_setxattr_conflict ==
  /\ req.op = "setxattr" /\ req' = NoReq
  /\ LET f == req.file IN
     \/ f.offline /\ f.avail /\ resolve(f.path, req.version)
     \/ /\ ~(f.offline /\ f.avail /\ f.path \in conflicts)
        /\ UNCHANGED <<remote, cache, conflicts>>
  /\ UNCHANGED <<log, sync, available, mounted, based, now>>

\* The other attributes need nothing of the OFSFile but its path, so a request is
\* one step up to where it waits or works without a lock.  ofs.offline: it goes on
\* in register_Backingtree or remove_Backingtree.
op_setxattr_offline(p)    == Seen(p) # None /\ register_Backingtree(p)
op_removexattr_offline(p) == Seen(p) # None /\ EnterRemove(p)

\* ofs.available, on the root: setAvailability raises the flag and then mounts
\* (MountShare), or clears it and unmounts, which can fail while a directory is open.
\* The recogniser calls it too, and nobody holds the lock of the trees.
op_setxattr_available ==
  /\ ~available
  /\ available' = TRUE
  /\ UNCHANGED <<remote, cache, log, sync, mounted, based, conflicts, now>>

op_removexattr_available ==
  /\ available
  /\ available' = FALSE
  /\ mounted' \in (IF RemoteDirOpen THEN {mounted, FALSE} ELSE {FALSE})
  /\ UNCHANGED <<remote, cache, log, sync, based, conflicts, now>>

\* What ofs.offline, ofs.available and ofs.conflict answer.
op_getxattr(f, name) ==
  CASE name = "offline"   -> f.offline
    [] name = "available" -> f.avail
    [] name = "conflict"  -> isConflicted(f.path)

FileRequest ==
  \/ op_mkdir \/ op_mknod \/ op_rmdir \/ op_symlink \/ op_link
  \/ op_chmod \/ op_chown \/ op_utimens \/ op_readlink
  \/ op_setxattr_conflict
================================================================================
