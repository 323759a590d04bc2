------------------------------ MODULE FileRequests ------------------------------
(****************************************************************************)
(* The requests of class OFSFile (src/src/ofsfile.cpp) on a regular file of *)
(* an offline tree, as the FUSE callbacks of src/src/ofs_fuse.cpp run them. *)
(*                                                                          *)
(* FUSE runs the requests of an application on several threads, without a   *)
(* lock: here the requests on one path follow one another, as the kernel    *)
(* orders them, and those on different paths interleave.  A request that    *)
(* fetches the remote file does so in two steps, the conditions of          *)
(* update_cache and the copy; the rest up to its first AddEntry is one step;*)
(* AddEntry reads, rewrites and appends to the log and counts m_nNewIndex   *)
(* up in steps of their own.  Other requests and the synchronising threads  *)
(* run in between.                                                          *)
(*                                                                          *)
(* The kernel looks a path up before it passes a request on, so op_getattr  *)
(* precedes every request by path, and its filesync() parses the log.       *)
(****************************************************************************)
EXTENDS Replica

CONSTANTS Requests,       \* the requests the application makes
          WorkOnline      \* whether it also works while the share is available

ASSUME RequestsAssumption == WorkOnline \in BOOLEAN

\* FUSE asks for the attributes of a file it has just created, and releases the
\* object again if it gets no file's: op_fgetattr asks fd_remote while the share is
\* available, which op_create has left at 0, and fd_cache otherwise.
Kept(h) == IF h.avail THEN h.fdr ELSE h.fdc # "none"

\* No request is under way on the path, nor one that renames another file to it.
Free(p) ==
  /\ req[p] = NoReq
  /\ \A q \in Paths : req[q] # NoReq => p \notin req[q].onto

Asked(op, p) ==
  /\ up
  /\ Free(p)
  /\ handle[p].open => Kept(handle[p])
  /\ op \in Requests
  /\ WorkOnline \/ ~available

\* What op_getattr sees of a path: the remote file while the share is available
\* (filesync() compares the cache path with relative paths and never finds an
\* entry), the cached one otherwise.
Seen(p) == IF available THEN RemoteStat(p) ELSE cache[p]
SeenThere(p) == Seen(p) \notin {Absent, Unreachable}

Lookup(op, p) == Asked(op, p) /\ (available => Parses(log))

\* op_getattr does not catch what GetEntries throws on a torn log; a path may be
\* looked up at any time.
LookupTerminates ==
  /\ up
  /\ Requests # {} /\ WorkOnline
  /\ available /\ ~Parses(log)
  /\ Terminate
  /\ UNCHANGED <<files, books, net, sync, handle, req, th, world>>

(****************************************************************************)
(* OFSFile::update_cache.  A request that has to fetch the remote file      *)
(* decides so first and copies then: what it decided from may be another    *)
(* one by then.                                                             *)
(****************************************************************************)
UpdateCache(p, op, onto) ==
  /\ Lookup(op, p)
  /\ SeenThere(p)
  /\ Fetches(p)
  /\ p \notin onto /\ \A q \in onto : Free(q)
  /\ op \in {"open", "rename"} => \A q \in {p} \cup onto : ~handle[q].open
  /\ req' = [req EXCEPT ![p] = Fetching("fetch", op, onto)]
  /\ UNCHANGED <<files, books, net, sync, up, handle, th, world>>

\* The cached file is unlinked and made anew, empty, before the remote one is
\* opened.  If that one is not there any more the request fails and leaves the
\* empty file; of a server that does not answer any more the open may still
\* succeed and the read fails, whose exception nobody catches.
Fetch(p) ==
  /\ up /\ req[p].stage = "fetch"
  /\ handle' = [handle EXCEPT ![p] = Orphan(@)]
  /\ IF RemoteThere(p)
     THEN /\ cache' = [cache EXCEPT ![p] = [by |-> RemoteStat(p).by, mtime |-> now]]
          /\ known' = IF mounted THEN [known EXCEPT ![p] = Version(remote[p])] ELSE known
          /\ req' = [req EXCEPT ![p] = Fetching("fetched", @.op, @.onto)]
          /\ UNCHANGED up
     ELSE /\ cache' = [cache EXCEPT ![p] = [by |-> "nobody", mtime |-> now]]
          /\ req' = [req EXCEPT ![p] = NoReq]
          /\ up' \in {TRUE, RemoteStat(p) # Unreachable}
          /\ UNCHANGED known
  /\ UNCHANGED <<remote, under, books, net, sync, th, world>>

\* update_cache has returned, with or without having fetched the file.
Updated(p, op, onto) ==
  \/ Lookup(op, p) /\ SeenThere(p) /\ ~Fetches(p)
  \/ up /\ req[p] = Fetching("fetched", op, onto)

\* The availability of the request's File, which is as old as the request.
Avail(p) == req[p] # NoReq \/ available

(****************************************************************************)
(* The requests.                                                            *)
(****************************************************************************)
\* A request that logs.
Logs(p, op, adds, onto) ==
  /\ nextIndex + Len(adds) <= MaxNumber /\ Len(log) < MaxPieces
  /\ req' = [req EXCEPT ![p] = Request(op, adds, onto)]

Ends(p) == req' = [req EXCEPT ![p] = NoReq]

Add(p, t) == [path |-> p, type |-> t]

op_create(p) ==
  /\ Lookup("create", p)
  /\ Seen(p) = Absent
  /\ ~handle[p].open
  /\ cache' = [cache EXCEPT ![p] = [by |-> "nobody", mtime |-> now]]
  /\ handle' = [handle EXCEPT ![p] = Opened(available, "cache", FALSE)]
  /\ Logs(p, "create", <<Add(p, "c")>>, {})
  /\ UNCHANGED <<remote, under, known, books, net, sync, up, th, world>>

\* Without the remote file the request fails, and closes the cached one again.
op_open(p) ==
  /\ Updated(p, "open", {})
  /\ ~handle[p].open
  /\ Exists(cache[p])
  /\ handle' = IF Avail(p) /\ ~RemoteThere(p)
               THEN handle
               ELSE [handle EXCEPT ![p] = Opened(Avail(p), "cache", Avail(p))]
  /\ Ends(p)
  /\ UNCHANGED <<files, books, net, sync, up, th, world>>

\* The base time is saved only by a handle that was opened offline, and only a
\* write at offset 0 is logged (res == size - offset).  Nothing clears sync.
op_write(p, offset) ==
  LET h == handle[p] IN
  /\ Asked("write", p)
  /\ h.open
  /\ IF h.avail THEN UNCHANGED mtimes ELSE savemtime(p)
  /\ cache' = IF h.fdc = "cache"
              THEN [cache EXCEPT ![p] = [by |-> "user", mtime |-> now]]
              ELSE cache
  /\ IF h.fdc # "none" /\ offset = 0
     THEN Logs(p, "write", <<Add(p, "m")>>, {})
     ELSE UNCHANGED req
  /\ UNCHANGED <<remote, under, known, log, nextIndex, conflicts, net, sync,
                 up, handle, th, world>>

op_release(p) ==
  LET h == handle[p] IN
  /\ up /\ Free(p)
  /\ h.open
  /\ handle' = [handle EXCEPT ![p] = Closed]
  /\ IF h.fdc = "none"
     THEN UNCHANGED <<cache, up>>
     ELSE /\ cache' = [cache EXCEPT ![p] = Stamped(@, h.avail, RemoteStat(p))]
          /\ up' = ~StampThrows(cache[p], h.avail, RemoteStat(p))
  /\ UNCHANGED <<remote, under, known, books, net, sync, req, th, world>>

\* Truncating by path, as opening with O_TRUNC does: neither a log entry nor a
\* base time.
op_truncate(p) ==
  /\ Updated(p, "truncate", {})
  /\ Exists(cache[p])
  /\ cache' = [cache EXCEPT ![p] =
                 Stamped([by |-> "nobody", mtime |-> now], Avail(p), RemoteStat(p))]
  /\ Ends(p)
  /\ UNCHANGED <<remote, under, known, books, net, sync, up, handle, th, world>>

\* The remote file if it is open, else the cached one.
op_ftruncate(p) ==
  LET h == handle[p]
      empty == [by |-> "nobody", mtime |-> now]
  IN
  /\ Asked("ftruncate", p)
  /\ h.open
  /\ IF h.fdr
     THEN /\ mounted /\ reachable /\ Exists(remote[p])
          /\ remote' = [remote EXCEPT ![p] = empty]
          /\ known' = [known EXCEPT ![p] = Version(empty)]
          /\ UNCHANGED cache
     ELSE /\ h.fdc = "cache"
          /\ cache' = [cache EXCEPT ![p] = empty]
          /\ UNCHANGED <<remote, known>>
  /\ UNCHANGED <<under, books, net, sync, up, handle, req, th, world>>

op_unlink(p) ==
  /\ Updated(p, "unlink", {})
  /\ Exists(cache[p])
  /\ IF Avail(p) THEN UNCHANGED mtimes ELSE savemtime(p)
  /\ cache' = [cache EXCEPT ![p] = Absent]
  /\ handle' = [handle EXCEPT ![p] = Orphan(@)]
  /\ Logs(p, "unlink", <<Add(p, "d")>>, {})
  /\ UNCHANGED <<remote, under, known, log, nextIndex, conflicts, net, sync, up, th,
                 world>>

\* Renaming a closed file: create the new name, "copy" the content, delete the
\* old name, as three log entries.
op_rename(p, q) ==
  /\ Updated(p, "rename", {q})
  /\ p # q
  /\ req[p] = NoReq => Free(q)
  /\ ~handle[p].open /\ ~handle[q].open
  /\ Exists(cache[p])
  /\ IF Avail(p) THEN UNCHANGED mtimes ELSE savemtime(p)
  /\ cache' = [cache EXCEPT ![q] = cache[p], ![p] = Absent]
  /\ Logs(p, "rename", <<Add(q, "c"), Add(q, "m"), Add(p, "d")>>, {q})
  /\ UNCHANGED <<remote, under, known, log, nextIndex, conflicts, net, sync, up,
                 handle, th, world>>

\* op_setxattr ofs.conflict = "local" | "remote": ConflictManager::resolve.
resolve(p, direction) ==
  /\ Lookup("resolve", p)
  /\ available
  /\ p \in conflicts
  /\ RemoteThere(p)
  /\ IF direction = "local"
     THEN /\ WriteRemote(p, IF Exists(cache[p])
                            THEN [by |-> cache[p].by, mtime |-> now] ELSE Absent)
          /\ known' = IF mounted THEN [known EXCEPT ![p] = Version(remote'[p])] ELSE known
          /\ UNCHANGED <<cache, handle>>
     ELSE /\ cache' = [cache EXCEPT ![p] = [by |-> RemoteStat(p).by, mtime |-> now]]
          /\ handle' = [handle EXCEPT ![p] = Orphan(@)]
          /\ known' = IF mounted THEN [known EXCEPT ![p] = Version(remote[p])] ELSE known
          /\ UNCHANGED <<remote, under>>
  /\ conflicts' = conflicts \ {p}
  /\ UNCHANGED <<log, nextIndex, mtimes, net, sync, up, req, th, world>>

(****************************************************************************)
(* SyncLogger::AddEntry for the entries of a request, one after the other.  *)
(* The handlers of create, unlink and rename catch the exception of a log   *)
(* that does not parse and report success; op_write does not catch it.      *)
(****************************************************************************)
GetEntriesOfPath(p) ==
  /\ up /\ req[p].stage = "scan"
  /\ IF Parses(log)
     THEN /\ req' = [req EXCEPT ![p] =
                       [@ EXCEPT !.stage = "remove",
                                 !.mine = SectionsOf(log, Head(req[p].adds).path)]]
          /\ UNCHANGED <<up, handle>>
     ELSE /\ Ends(p)
          /\ up' = (req[p].op # "write")
          /\ handle' = IF req[p].op = "create"    \* fd_cache has not been set yet
                       THEN [handle EXCEPT ![p].fdc = "none"]
                       ELSE handle
  /\ UNCHANGED <<files, books, net, sync, th, world>>

RemoveEarlierEntry(p) ==
  LET mine  == req[p].mine
      first == req[p].first
  IN
  /\ up /\ req[p].stage = "remove"
  /\ \E i \in DOMAIN mine :
       /\ IsNext(mine, i)
       /\ log' \in RemoveResults(log, mine[i].number)
       /\ req' = [req EXCEPT
                    ![p].mine = Rest(mine, i),
                    ![p].first = IF first = "none" THEN mine[i].type ELSE first]
  /\ UNCHANGED <<files, nextIndex, mtimes, conflicts, net, sync, up, handle, th, world>>

\* After the last entry the request clears the sync flag, unless it is a write.
NextAdd(p) ==
  LET r == req[p]
      last == Len(r.adds) = 1
  IN
  /\ req' = [req EXCEPT ![p] = IF last THEN NoReq ELSE Request(r.op, Tail(r.adds), r.onto)]
  /\ sync' = IF last /\ r.op # "write" THEN FALSE ELSE sync

\* The entry gets the number that m_nNewIndex holds.
AppendEntry(p) ==
  LET add  == Head(req[p].adds)
      type == Merge(req[p].first, add.type)
  IN
  /\ up /\ req[p].stage = "remove"
  /\ IsExhausted(req[p].mine)
  /\ IF type = "x"
     THEN NextAdd(p) /\ UNCHANGED log
     ELSE /\ log' = Append(log, NewPiece(nextIndex, add.path, type))
          /\ req' = [req EXCEPT ![p] = [@ EXCEPT !.stage = "count"]]
          /\ UNCHANGED sync
  /\ UNCHANGED <<files, nextIndex, mtimes, conflicts, net, up, handle, th, world>>

\* m_nNewIndex++ is a load and a store.
LoadIndex(p) ==
  /\ up /\ req[p].stage = "count"
  /\ req' = [req EXCEPT ![p] = [@ EXCEPT !.stage = "store", !.index = nextIndex]]
  /\ UNCHANGED <<files, books, net, sync, up, handle, th, world>>

StoreIndex(p) ==
  /\ up /\ req[p].stage = "store"
  /\ nextIndex' = req[p].index + 1
  /\ NextAdd(p)
  /\ UNCHANGED <<files, log, mtimes, conflicts, net, up, handle, th, world>>
================================================================================
