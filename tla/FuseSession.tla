------------------------------- MODULE FuseSession -------------------------------
(****************************************************************************)
(* One process from main to its end: the start (src/src/ofs.cpp), the       *)
(* session that FUSE serves (fuse_init, fuse_destroy and the callbacks of   *)
(* src/src/ofs_fuse.cpp), and the OFSFile objects that live from an open to *)
(* a release with the descriptors they hold (src/src/ofsfile.cpp).          *)
(*                                                                          *)
(* The application works with one file and its directory.  Of the file's    *)
(* bytes nothing is kept but where the last logged change of the user's is; *)
(* which bytes a fetch or a pass copies is OfflineFS's subject, and what    *)
(* becomes of setAvailability in several threads OfflineRecognizer's.       *)
(*                                                                          *)
(* Three threads work off the log: the lazy writer's, the one inside        *)
(* setAvailability(true), and at the end the one inside fuse_destroy.  Each *)
(* reads the list, works it off and raises the flag, in steps between which *)
(* the others and the requests go on; the second one has the mount command  *)
(* run before, which is a process of its own.                               *)
(*                                                                          *)
(* Of an object's fields fd_remote and fd_cache, 0 says that there is none. *)
(* Descriptor 0 is /dev/null, as a daemon has it, until somebody closes it. *)
(****************************************************************************)
EXTENDS Startup, FiniteSets

CONSTANTS
  CommandLines,     \* the command lines the process may be started with
  Handles,          \* the objects the kernel may hold at once
  Fds, Zero,        \* the descriptors of the process, and descriptor 0
  MaxEvents         \* bound: changes of the share's state, and of the file

None == "none"

ASSUME SessionAssumption ==
  None \notin Fds /\ Zero \in Fds /\ MaxEvents \in Nat /\ CommandLines # {}

\* Names and values are words, and no user or group has the word for none as its name.
ASSUME LinesAssumption ==
  CommandLines \subseteq Seq([name : STRING, value : STRING \ {Unset}])

VARIABLES
  main, line, env,      \* where main is, its command line, the environment
  available, sync,      \* the two flags of FilesystemStatusManager
  pass,                 \* how far each thread is with its pass, see Stages
  mounts,               \* mounts of the share, one above the other
  tree,                 \* the file lies in an offline tree
  work, torn,           \* where the user's last change is; the log does not parse
  fd,                   \* what each descriptor refers to
  handle,               \* the OFSFile objects
  lost,                 \* history: descriptors whose object has gone, or that a
                        \* failed call has left
  stacked,              \* history: the share has been mounted over itself
  created,              \* history: what has been logged of creates since a list
                        \* was read, see Waits
  events

start  == <<main, line, env>>
share  == <<available, sync, mounts, tree, stacked>>
change == <<work, torn, pass, created>>
table  == <<fd, handle, lost>>
vars   == <<start, share, change, table, events>>

Threads == {"lazy", "net", "exit"}

\* none: no pass; mount: the mount command runs before it; mounted: it has run;
\* change: the list has the last logged change; earlier: the list has a change of
\* the file, but another one has been logged since; done: the list is worked off.
Stages == {"none", "mount", "mounted", "change", "earlier", "done"}
HasRead(x) == pass[x] \in {"change", "earlier", "done"}

\* none: no create; alone: one while no pass was under way; beside: one beside a pass.
Waits == {"none", "alone", "beside"}

\* FUSE serves requests; the threads of the process run.
Serving == main = "serving"
Alive   == main \in {"serving", "destroying"}
NoFile  == [kind |-> "none", offline |-> FALSE, avail |-> FALSE, cached |-> None, far |-> None]
UsedBy(object) == {object.cached, object.far} \ {None}
\* What the object of a file takes for a descriptor; that of a directory has pointers.
IsSet(object, d) == d # None /\ (object.kind = "file" => d # Zero)
Closes(object) == {d \in UsedBy(object) : IsSet(object, d)}
Busy    == \E d \in Fds : fd[d] = "remote"

Event == events < MaxEvents /\ events' = events + 1

Init ==
  /\ main = "init" /\ line \in CommandLines /\ env = Defaults
  /\ available = TRUE /\ sync = TRUE /\ mounts = 0 /\ tree \in BOOLEAN
  /\ work \in {"none", "pending"} /\ torn = FALSE
  /\ pass = [x \in Threads |-> "none"]
  /\ fd = [d \in Fds |-> IF d = Zero THEN "null" ELSE "free"] /\ handle = [h \in Handles |-> NoFile] /\ lost = {}
  /\ stacked = FALSE /\ created = "none" /\ events = 0

(****************************************************************************)
(* main.                                                                    *)
(****************************************************************************)
ReadCommandLine ==
  /\ main = "init"
  /\ env' = init(line)
  /\ main' = CASE env'.end = "read"   -> "mountfs"
               [] env'.end = "thrown" -> "returned"
               [] OTHER               -> "exited"
  /\ UNCHANGED <<line, share, change, table, events>>

MountAtStart ==
  /\ main = "mountfs"
  /\ \/ mounts' = 1 /\ main' = "cachepath"
     \/ mounts' = 0 /\ main' = "returned"
  /\ UNCHANGED <<line, env, available, sync, tree, stacked, change, table, events>>

\* The cache path is no directory or cannot be made, an id cannot be adopted, the
\* file system cannot be mounted: the process ends and leaves the share mounted.
MakeCachePath ==
  /\ main = "cachepath"
  /\ main' \in {"adoptids", "terminated"}
  /\ UNCHANGED <<line, env, share, change, table, events>>

AdoptIds ==
  /\ main = "adoptids"
  /\ main' \in (IF env.uid = Unset THEN {"fuse"} ELSE {"fuse", "exited"})
  /\ UNCHANGED <<line, env, share, change, table, events>>

fuse_init ==
  /\ main = "fuse"
  /\ main' \in {"serving", "returned"}
  /\ UNCHANGED <<line, env, share, change, table, events>>

(****************************************************************************)
(* Passes and the state of the share.                                       *)
(****************************************************************************)
\* GetEntries at the start of ReintegrateAll.
TakesList(x) ==
  /\ pass' = [pass EXCEPT ![x] = IF work = "pending" THEN "change" ELSE "done"]
  /\ created' = "none"

\* A log that does not parse makes a thread throw, which nobody catches.
Throws == main' = "terminated" /\ UNCHANGED <<pass, created>>

ReadsList(x) ==
  \/ torn /\ Throws
  \/ ~torn /\ TakesList(x) /\ UNCHANGED main

\* ReintegrateFiles: what is dropped from the log has reached the server, has become
\* a conflict, or neither, if the share is not available or the tree not offline.
\* Another entry that has been logged since stays, unless it has the same number.
\* Dropping an entry may tear the log.
Outcomes ==
  IF available /\ tree THEN {"server", "conflict"}
  ELSE {IF work = "pending" THEN "dropped" ELSE work}

Reintegrates(x) ==
  /\ Alive /\ pass[x] \in {"change", "earlier"}
  /\ work' \in Outcomes \cup (IF pass[x] = "earlier" THEN {work} ELSE {})
  /\ torn' \in BOOLEAN
  /\ pass' = [pass EXCEPT ![x] = "done"]
  /\ UNCHANGED <<start, share, created, table, events>>

\* After ReintegrateAll the lazy writer and setAvailability raise the flag.
PassEnds(x) ==
  /\ Alive /\ x # "exit" /\ pass[x] = "done"
  /\ sync' = TRUE
  /\ pass' = [pass EXCEPT ![x] = "none"]
  /\ UNCHANGED <<start, available, mounts, tree, stacked, work, torn, created, table, events>>

LazyPass ==
  /\ Alive /\ available /\ ~sync /\ pass["lazy"] = "none"
  /\ ReadsList("lazy")
  /\ UNCHANGED <<line, env, share, work, torn, table, events>>

\* setAvailability(true) sets the flag and has mount started.
SetAvailable ==
  /\ Alive /\ ~available /\ pass["net"] = "none" /\ Event
  /\ available' = TRUE
  /\ pass' = [pass EXCEPT !["net"] = "mount"]
  /\ UNCHANGED <<start, sync, mounts, tree, stacked, work, torn, created, table>>

\* The command runs on when the process that has started it has ended.  If it
\* fails, mountfs throws and the process ends.
MountEnds ==
  /\ main \in {"serving", "destroying", "destroyed"} /\ pass["net"] = "mount"
  /\ \/ /\ mounts' = mounts + 1
        /\ stacked' = (stacked \/ mounts > 0)
        /\ pass' = [pass EXCEPT !["net"] = "mounted"]
        /\ UNCHANGED main
     \/ /\ pass' = [pass EXCEPT !["net"] = "none"]
        /\ main' = IF Alive THEN "terminated" ELSE main
        /\ UNCHANGED <<mounts, stacked>>
  /\ UNCHANGED <<line, env, available, sync, tree, work, torn, created, table, events>>

ReconnectPass ==
  /\ Alive /\ pass["net"] = "mounted"
  /\ ReadsList("net")
  /\ UNCHANGED <<line, env, share, work, torn, table, events>>

\* Mutant of unmountfs: the count goes down whether anything is mounted or not.
unmountfsUnchecked == mounts' = mounts - 1

\* umount2 fails while a file of the share is open, which is only logged.
unmountfs ==
  mounts' \in (IF mounts = 0 THEN {0} ELSE IF Busy THEN {mounts - 1, mounts} ELSE {mounts - 1})

SetUnavailable ==
  /\ Alive /\ available /\ Event
  /\ available' = FALSE
  /\ unmountfs
  /\ UNCHANGED <<start, sync, tree, stacked, change, table>>

DeviceNoLongerActive ==
  /\ Alive /\ available /\ Event
  /\ available' = FALSE
  /\ UNCHANGED <<start, sync, mounts, tree, stacked, change, table>>

\* op_setxattr and op_removexattr of ofs.offline; registering updates the cache.
SetOffline ==
  /\ Serving /\ Event
  /\ tree' = ~tree
  /\ UNCHANGED <<start, available, sync, mounts, stacked, change, table>>

\* With lazy write a pass comes before the end if the flag is down.
fuse_destroy ==
  /\ Serving
  /\ \/ ~env.unmount /\ main' = "destroyed" /\ UNCHANGED <<pass, created>>
     \/ /\ env.unmount /\ env.lazywrite /\ ~sync
        /\ \/ torn /\ Throws
           \/ ~torn /\ TakesList("exit") /\ main' = "destroying"
     \/ /\ env.unmount /\ (~env.lazywrite \/ sync)
        /\ main' = "destroying" /\ UNCHANGED <<pass, created>>
  /\ UNCHANGED <<line, env, share, work, torn, table, events>>

\* Mutant of DestroyEnds: a process that has written back leaves without unmounting.
DestroyEndsMounted ==
  /\ main = "destroying" /\ pass["exit"] \in {"none", "done"}
  /\ sync' = (sync \/ pass["exit"] = "done")
  /\ pass' = [pass EXCEPT !["exit"] = "none"]
  /\ IF pass["exit"] = "done" THEN UNCHANGED mounts ELSE unmountfs
  /\ main' = "destroyed"
  /\ UNCHANGED <<line, env, available, tree, stacked, work, torn, created, table, events>>

DestroyEnds ==
  /\ main = "destroying" /\ pass["exit"] \in {"none", "done"}
  /\ sync' = (sync \/ pass["exit"] = "done")
  /\ pass' = [pass EXCEPT !["exit"] = "none"]
  /\ unmountfs
  /\ main' = "destroyed"
  /\ UNCHANGED <<line, env, available, tree, stacked, work, torn, created, table, events>>

(****************************************************************************)
(* OFSFile objects.  Each is a step, whatever calls it makes may fail; a    *)
(* descriptor is taken for a file below the cache path or for one of the    *)
(* share.                                                                   *)
(****************************************************************************)
FileNow == [offline |-> tree, avail |-> available]

\* The descriptors an open may get in a table, if it is made at all: 0 is the lowest.
Slots(wanted, t) ==
  CASE ~wanted                      -> {None}
    [] wanted /\ t[Zero] = "free"   -> {Zero}
    [] OTHER                        -> {d \in Fds : t[d] = "free"}
Put(t, c, r) ==
  [d \in Fds |-> CASE d = c -> "cache" [] d # c /\ d = r -> "remote" [] OTHER -> t[d]]
Without(t, gone) == [d \in Fds |-> IF d \in gone THEN "free" ELSE t[d]]

Object(kind, f, c, r) ==
  [kind |-> kind, offline |-> f.offline, avail |-> f.avail, cached |-> c, far |-> r]

\* What update_cache leaves open when it does not return: opening the remote file
\* fails with the cached one open, a failed write leaves both, and the exception of
\* a failed read is thrown by pointer, which no handler of the callers takes.
update_cacheFails(f) ==
  /\ f.offline /\ f.avail
  /\ \E wanted \in [cached : BOOLEAN, far : BOOLEAN], end \in {"serving", "terminated"} :
       \E c \in Slots(wanted.cached, fd) : \E r \in Slots(wanted.far, Put(fd, c, None)) :
         /\ wanted.far => wanted.cached
         /\ end = "terminated" => wanted.far
         /\ main' = end
         /\ fd' = Put(fd, c, r)
         /\ lost' = lost \cup ({c, r} \ {None})
  /\ UNCHANGED <<handle, change, sync>>

\* The object is deleted, with no descriptor open but those left.
CallFails(c) ==
  /\ fd' = Put(fd, c, None) /\ lost' = lost \cup ({c} \ {None})
  /\ UNCHANGED <<main, handle, change, sync>>

Holds(h, object) ==
  /\ fd' = Put(fd, object.cached, object.far)
  /\ handle' = [handle EXCEPT ![h] = object]
  /\ UNCHANGED <<main, lost, change, sync>>

\* An entry is added to the log; dropping an earlier one for it may tear the log.
Logged ==
  /\ work' = "pending"
  /\ torn' \in BOOLEAN
  /\ pass' = [x \in Threads |-> IF pass[x] = "change" THEN "earlier" ELSE pass[x]]

\* op_getattr, which precedes every request by path, parses the log while the
\* share is available and does not catch what that throws.
op_getattr ==
  /\ Serving /\ available /\ torn
  /\ main' = "terminated"
  /\ UNCHANGED <<line, env, share, change, table, events>>

\* Closing what a failed call has opened; without a tree that is descriptor 0.
ClosesZero ==
  /\ fd' = [fd EXCEPT ![Zero] = "free"]
  /\ UNCHANGED <<main, handle, lost, change, sync>>

\* Mutant of OpensNot: a remote file that cannot be opened leaves the cached one.
OpensNotUnclosed(f) ==
  \/ f.offline /\ CallFails(None)
  \/ ~f.offline /\ f.avail /\ ClosesZero
  \/ \E c \in Slots(f.offline, fd) :
       /\ f.avail
       /\ fd' = Put(fd, c, None)
       /\ lost' = IF torn THEN lost \cup ({c} \ {None}) ELSE lost
       /\ UNCHANGED <<main, handle, change, sync>>

\* The cached file cannot be opened; the remote one cannot and what is in fdc is
\* closed; or filesync() throws on a torn log while the cached one is open.
OpensNot(f) ==
  \/ f.offline /\ CallFails(None)
  \/ ~f.offline /\ f.avail /\ ClosesZero
  \/ \E c \in Slots(f.offline, fd) : f.avail /\ torn /\ CallFails(c)

op_open(h) ==
  /\ Serving /\ handle[h] = NoFile
  /\ \/ update_cacheFails(FileNow)
     \/ OpensNot(FileNow)
     \/ \E c \in Slots(tree, fd) : \E r \in Slots(available, Put(fd, c, None)) :
          (available => ~torn) /\ Holds(h, Object("file", FileNow, c, r))
  /\ UNCHANGED <<line, env, available, mounts, tree, stacked, events>>

\* Here filesync() comes first, and the remote directory is closed if the cached
\* one, which is read without the share or in a tree, cannot be opened.
op_opendir(h) ==
  /\ Serving /\ handle[h] = NoFile
  /\ \/ update_cacheFails(FileNow)
     \/ CallFails(None)
     \/ \E r \in Slots(available, fd) :
          \E c \in Slots(tree \/ ~available, Put(fd, None, r)) :
            (available => ~torn) /\ Holds(h, Object("dir", FileNow, c, r))
  /\ UNCHANGED <<line, env, available, mounts, tree, stacked, events>>

\* A create is logged while no pass has read its list, or beside one.
CreateWaits ==
  created' = IF created = "beside" \/ \E x \in Threads : HasRead(x) THEN "beside" ELSE "alone"

\* Mutant of LogsCreate: the flag stays up.
LogsCreateUnflagged == Logged /\ CreateWaits /\ UNCHANGED sync

LogsCreate == Logged /\ CreateWaits /\ sync' = FALSE

\* In a tree the file is made in the cache and logged; what AddEntry throws on a
\* torn log is caught, and the descriptor is in no object yet.  FUSE asks for the
\* attributes of what has been created and releases the object if that is no file:
\* while the share is available, op_fgetattr asks fd_remote, which is 0.
CreatesInTree(h, f) ==
  \E c \in Slots(TRUE, fd) :
    \/ torn /\ CallFails(c)
    \/ /\ ~torn /\ LogsCreate
       /\ \/ /\ f.avail /\ c # Zero
             /\ UNCHANGED <<fd, handle>>
          \/ /\ ~f.avail \/ Put(fd, c, None)[Zero] \notin {"null", "free"}
             /\ fd' = Put(fd, c, None)
             /\ handle' = [handle EXCEPT ![h] = Object("file", f, c, None)]
       /\ UNCHANGED <<main, lost>>

op_create(h) ==
  /\ Serving /\ handle[h] = NoFile
  /\ Event
  /\ \/ update_cacheFails(FileNow)
     \/ tree /\ CallFails(None)
     \/ tree /\ CreatesInTree(h, FileNow)
     \/ ~tree /\ ClosesZero
     \/ ~tree /\ available
        /\ \E r \in Slots(TRUE, fd) : Holds(h, Object("file", FileNow, None, r))
  /\ UNCHANGED <<line, env, available, mounts, tree, stacked>>

\* Writing to the cached file logs, and does not clear the flag; op_write does not
\* catch what AddEntry throws.  The change is merged with an earlier one, which may
\* be a create that a pass has in its list.
op_write(h) ==
  /\ Serving /\ handle[h].kind = "file" /\ IsSet(handle[h], handle[h].cached)
  /\ Event
  /\ IF torn
     THEN main' = "terminated" /\ UNCHANGED <<work, torn, pass, created>>
     ELSE /\ Logged /\ UNCHANGED main
          /\ created' \in {created} \cup
               (IF \E x \in Threads : pass[x] = "change" THEN {"beside"} ELSE {})
  /\ UNCHANGED <<line, env, share, table>>

\* The object is deleted whatever happens: if closing the remote file fails, as it
\* may when the server has gone, the cached one stays open.  update_amtime, which
\* comes last, throws if the cached file has gone; nobody catches it.
Released(h) ==
  LET object == handle[h] IN
  /\ handle' = [handle EXCEPT ![h] = NoFile]
  /\ \/ /\ fd' = Without(fd, Closes(object))
        /\ lost' = lost \cup (UsedBy(object) \ Closes(object))
        /\ main' \in {"serving"} \cup
             (IF Closes(object) # {} /\ object.offline /\ object.avail THEN {"terminated"} ELSE {})
     \/ /\ IsSet(object, object.far)
        /\ fd' = Without(fd, {object.far})
        /\ lost' = lost \cup (UsedBy(object) \ {object.far})
        /\ UNCHANGED main

op_release(h) ==
  /\ Serving /\ handle[h].kind = "file"
  /\ Released(h)
  /\ UNCHANGED <<line, env, share, change, events>>

op_releasedir(h) ==
  /\ Serving /\ handle[h].kind = "dir"
  /\ Released(h)
  /\ UNCHANGED <<line, env, share, change, events>>

Next ==
  \/ ReadCommandLine
  \/ MountAtStart
  \/ MakeCachePath
  \/ AdoptIds
  \/ fuse_init
  \/ LazyPass
  \/ \E x \in Threads : Reintegrates(x)
  \/ \E x \in Threads : PassEnds(x)
  \/ SetAvailable
  \/ MountEnds
  \/ ReconnectPass
  \/ SetUnavailable
  \/ DeviceNoLongerActive
  \/ SetOffline
  \/ op_getattr
  \/ \E h \in Handles : op_open(h)
  \/ \E h \in Handles : op_opendir(h)
  \/ \E h \in Handles : op_create(h)
  \/ \E h \in Handles : op_write(h)
  \/ \E h \in Handles : op_release(h)
  \/ \E h \in Handles : op_releasedir(h)
  \/ fuse_destroy
  \/ DestroyEnds

Spec == Init /\ [][Next]_vars
--------------------------------------------------------------------------------
Mains == {"init", "mountfs", "cachepath", "adoptids", "fuse", "serving", "destroying", "destroyed",
           "returned", "exited", "terminated"}
Objects == [kind : {"none", "file", "dir"}, offline : BOOLEAN, avail : BOOLEAN,
            cached : Fds \cup {None}, far : Fds \cup {None}]

\* Every value is of its kind, whatever fails on the way.
TypeOK ==
  /\ main \in Mains /\ line \in CommandLines
  /\ env.end \in Ends /\ env.unmount \in BOOLEAN /\ env.lazywrite \in BOOLEAN
  /\ available \in BOOLEAN /\ sync \in BOOLEAN /\ mounts \in Nat /\ tree \in BOOLEAN
  /\ work \in {"none", "pending", "server", "conflict", "dropped"} /\ torn \in BOOLEAN
  /\ pass \in [Threads -> Stages] /\ created \in Waits
  /\ fd \in [Fds -> {"null", "free", "cache", "remote"}]
  /\ handle \in [Handles -> Objects] /\ lost \subseteq Fds
  /\ stacked \in BOOLEAN /\ events \in Nat

\* A table of descriptors, those left behind, and the objects fit each other.
Accounted(t, left, held) ==
  /\ \A d \in Fds : t[d] \in {"cache", "remote"} <=>
       (d \in left \/ \E h \in Handles : d \in UsedBy(held[h]))
  /\ \A h \in Handles :
       /\ UsedBy(held[h]) \cap left = {}
       /\ \A g \in Handles : g # h => UsedBy(held[g]) \cap UsedBy(held[h]) = {}
       /\ held[h].cached # None => t[held[h].cached] = "cache"
       /\ held[h].far # None => t[held[h].far] = "remote"

\* No call leaves a descriptor behind: each one in use belongs to one object that
\* the kernel still holds, of the kind the object takes it for, except those that a
\* close, a fetch or a log that failed have left.  (The early returns of op_open,
\* op_create, op_opendir and op_release, the exceptions between them, and the
\* deletion of the object in ofs_fuse.cpp.)  Until descriptor 0 has been closed.
NoDescriptorLeft == fd[Zero] = "null" => Accounted(fd, lost, handle)

\* A process that has been told to unmount and ends in order leaves no mount,
\* however often the share went and came back and whatever threads are at it, unless
\* a file of the share is still open, the share was mounted over itself, or a mount
\* command has ended behind fuse_destroy's back.  (fuse_destroy, "unmount the remote
\* share")
ExitUnmounts ==
  (main = "destroyed" /\ env.unmount /\ ~Busy /\ ~stacked /\ pass["net"] # "mounted")
    => mounts = 0

\* The same of a mount command that was running when fuse_destroy unmounted.
\* (ofs_fuse.cpp "Exit the filesystem - unmount the remote share")
ExitLeavesNoMount ==
  (main = "destroyed" /\ env.unmount /\ ~Busy /\ ~stacked) => mounts = 0

\* With lazy write, a process that ends in order leaves no create waiting in the log
\* that was logged while no pass was under way: whatever passes come later, beside
\* each other, until the end, one of them reads it.  (lazywrite.cpp "on Shutdown or
\* Log-off the reintegration will start in fuse_destroy")
ExitWritesBack ==
  (main = "destroyed" /\ env.unmount /\ env.lazywrite) => created # "alone"

\* The same of every create.
ExitLeavesNoCreate ==
  (main = "destroyed" /\ env.unmount /\ env.lazywrite) => created = "none"

\* The order of the options does not matter: a command line is read in every order
\* or in none, and then gives the same process.  (ro and rw, user and uid, group and
\* gid each look for the other one)
OrderDoesNotMatter ==
  main = "init" => \A q \in Reordered(line) : Process(q) = Process(line)

\* Ending in order does not give up a change made in a tree.  (lazywrite.cpp "on
\* Shutdown or Log-off the reintegration will start in fuse_destroy")
ExitKeepsChanges ==
  [][(Reintegrates("exit") /\ tree /\ work = "pending") => work' # "dropped"]_vars

\* An object opened while the share is available has a descriptor: that there is none
\* says that there was no connection.  (ofsfile.cpp:950 "Couldn't write file due to
\* missing network connection.")
NoneMeansNoShare ==
  \A h \in Handles : handle[h].kind = "file" /\ Closes(handle[h]) = {} => ~handle[h].avail
================================================================================
