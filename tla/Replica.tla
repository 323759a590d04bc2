-------------------------------- MODULE Replica --------------------------------
(****************************************************************************)
(* The state that OFS keeps of one share, all of it inside one backing tree *)
(* (class File: offline state true), and the helpers that requests and      *)
(* reintegration share.                                                     *)
(*                                                                          *)
(* A file is its modification time and who wrote its bytes last: what       *)
(* matters is whether the server's or the user's version survives, and      *)
(* whether a file is an empty one.  Files are regular files of one flat     *)
(* directory; no path is the beginning of another one.  Times are whole     *)
(* seconds of one clock (server and client agree).                          *)
(****************************************************************************)
EXTENDS SyncLogFile, FiniteSets

CONSTANTS Syncers,          \* threads that run ReintegrateAll: "lazy", "net"
          MaxTime,          \* bound of the clock
          MaxNumber,        \* bound: no request that logs begins when the numbers
                            \* of its entries would exceed this one
          MaxPieces         \* bound: nor when the log has so many pieces

ASSUME ReplicaAssumption ==
  /\ Syncers \subseteq {"lazy", "net"}
  /\ MaxTime \in Nat
  /\ MaxNumber \in Nat /\ MaxPieces \in Nat

VARIABLES
  \* file contents
  remote,           \* the files on the server
  under,            \* the files below the bare, unmounted mount point
  cache,            \* the files below the cache path
  known,            \* history: the server's version this client last fetched or
                    \* wrote, and when
  \* persistent bookkeeping
  log,              \* the sync log
  mtimes,           \* SynchronizationManager::mtimes, 0 where there is none
  conflicts,        \* ConflictManager::conflictfiles, their order left out
  \* the process
  up,               \* the process runs
  nextIndex,        \* m_nNewIndex
  available, sync,  \* FilesystemStatusManager's two flags
  handle,           \* the open OFSFile of each path
  req,              \* the request on each path that is between two of its steps
  th,               \* the synchronising threads
  \* the environment
  mounted, reachable,
  now,
  used              \* how often others changed the server, the share was set
                    \* unavailable, the process was restarted: for the bounds

files == <<remote, under, cache, known>>
books == <<log, nextIndex, mtimes, conflicts>>
net   == <<available, mounted, reachable>>
world == <<now, used>>
vars  == <<files, books, net, sync, up, handle, req, th, world>>

Writers == {"server", "user", "nobody"}        \* "nobody": an empty file
Absent  == [by |-> "absent", mtime |-> 0]
Node    == [by : Writers, mtime : Nat] \cup {Absent}
Exists(node) == node # Absent

Version(node) == [node |-> node, at |-> now]

\* What lstat of the remote path reports, for a path built while the share was
\* available: an unreachable server gives an error that is not ENOENT.
Unreachable == [by |-> "error", mtime |-> 0]
RemoteStat(p) ==
  CASE mounted /\ reachable  -> remote[p]
    [] mounted /\ ~reachable -> Unreachable
    [] ~mounted              -> under[p]

RemoteThere(p) == RemoteStat(p) \notin {Absent, Unreachable}

\* Writing through the remote path: it reaches the server or the directory below
\* the mount point.
WriteRemote(p, node) ==
  /\ ~(mounted /\ ~reachable)
  /\ IF mounted THEN remote' = [remote EXCEPT ![p] = node] /\ UNCHANGED under
                ELSE under' = [under EXCEPT ![p] = node] /\ UNCHANGED remote

(****************************************************************************)
(* Handles: OFSFile objects between open and release.  avail is the state   *)
(* of the share when the object was built; fdc says whether fd_cache refers *)
(* to the file at the cache path, to one that has been unlinked since, or   *)
(* is 0; fdr whether fd_remote is set.                                      *)
(****************************************************************************)
Closed == [open |-> FALSE, avail |-> FALSE, fdc |-> "none", fdr |-> FALSE]
Handle == [open : BOOLEAN, avail : BOOLEAN, fdc : {"none", "cache", "orphan"},
           fdr : BOOLEAN]
Opened(avail, fdc, fdr) ==
  [open |-> TRUE, avail |-> avail, fdc |-> fdc, fdr |-> fdr]

Orphan(h) == [h EXCEPT !.fdc = IF @ = "cache" THEN "orphan" ELSE @]

\* Mutant of savemtime: every change replaces the saved time.
savemtimeAgain(p) ==
  mtimes' = IF Exists(cache[p])
            THEN [mtimes EXCEPT ![p] = cache[p].mtime]
            ELSE mtimes

\* savemtime / addmtime: the first time stamp stays.
savemtime(p) ==
  mtimes' = IF Exists(cache[p]) /\ mtimes[p] = 0
            THEN [mtimes EXCEPT ![p] = cache[p].mtime]
            ELSE mtimes

(****************************************************************************)
(* What OFSFile::update_cache looks at before it fetches a remote file: the *)
(* share is available, the path is not listed as a conflict, and the remote *)
(* file is newer than the cached one.                                       *)
(****************************************************************************)
Fetches(p) ==
  /\ available
  /\ p \notin conflicts
  /\ RemoteThere(p)
  /\ ~Exists(cache[p]) \/ RemoteStat(p).mtime > cache[p].mtime

\* Mutant of Stamped: a cached file that is gone gets a time.
StampedGone(c, avail, s) ==
  IF avail /\ s \notin {Absent, Unreachable} THEN [c EXCEPT !.mtime = s.mtime] ELSE c

\* OFSFile::update_amtime with the availability of its object: the cached file c
\* gets the time of the remote file s.
Stamped(c, avail, s) ==
  IF avail /\ s \notin {Absent, Unreachable} /\ Exists(c)
  THEN [c EXCEPT !.mtime = s.mtime] ELSE c

\* utime fails on a cache file that is gone, and update_amtime throws.
StampThrows(c, avail, s) ==
  avail /\ s \notin {Absent, Unreachable} /\ ~Exists(c)

(****************************************************************************)
(* SynchronizationManager::has_been_modified == changed_on_server, for an   *)
(* entry's File that was built while the share was available.               *)
(****************************************************************************)
BaseTime(p) == IF mtimes[p] # 0 THEN mtimes[p] ELSE cache[p].mtime

\* Mutant of ChangedOnServer: the same second counts as a change.
ChangedInSameSecond(p) ==
  /\ RemoteThere(p)
  /\ mtimes[p] # 0 \/ Exists(cache[p])
  /\ RemoteStat(p).mtime >= BaseTime(p)

ChangedOnServer(p) ==
  /\ RemoteThere(p)
  /\ mtimes[p] # 0 \/ Exists(cache[p])
  /\ RemoteStat(p).mtime > BaseTime(p)

(****************************************************************************)
(* Requests between two of their steps: one on each path, and a rename also *)
(* on the path it renames onto.  A request fetches the remote file, and     *)
(* then it writes the log, one AddEntry after the other.                    *)
(****************************************************************************)
NoReq == [stage |-> "idle"]
Fetching(stage, op, onto) == [stage |-> stage, op |-> op, onto |-> onto]
Request(op, adds, onto) ==
  [stage |-> "scan", op |-> op, adds |-> adds, onto |-> onto,
   first |-> "none", mine |-> <<>>, index |-> 0]

Idle == [pc |-> "idle"]

\* An OFSException that nobody catches ends the process.
Terminate == up' = FALSE
================================================================================
