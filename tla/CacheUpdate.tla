------------------------------- MODULE CacheUpdate -------------------------------
(****************************************************************************)
(* Backingtree::updateCache (src/src/backingtree.cpp), which the request    *)
(* that registers a tree runs under the manager's lock: for one directory   *)
(* after the other, fetch what the server has, then delete from the cache   *)
(* what was not in the server's directory.                                  *)
(*                                                                          *)
(* The steps are those between which a request, another user or a           *)
(* disconnection can come: each update_cache, opening the remote directory, *)
(* and the clearing of one cached directory.                                *)
(****************************************************************************)
EXTENDS ShareTree

VARIABLES
  walk,         \* updateCacheRunner: the directories left to visit and the one
                \* it is in
  calm          \* history: "no" if something else has happened since the update
                \* began, or if it did not begin in a registered tree whose parent
                \* directory is cached; otherwise whether the cache had a directory
                \* where the server had none, or the reverse ("mixed", "alike")

AtRest == [pc |-> "rest", todo |-> {}]
Visiting(todo) == [pc |-> "visit", todo |-> todo]
Listing(todo, f) == [pc |-> "list", todo |-> todo, file |-> f]
Fetching(todo, f, left, subdirs, files) ==
  [pc |-> "fetch", todo |-> todo, file |-> f,
   left |-> left, subdirs |-> subdirs, files |-> files]

\* closedir comes after the last entry: while it reads, the share is busy.
RemoteDirOpen == walk.pc = "fetch"

StartsCalm(p) ==
  InTree(p) /\ rem = Free /\ available /\ mounted /\ HasDir(cache, FileOf(p).at)

\* What lies at a place on both sides is on both a directory, or on both none.
Alike(q) == cache[q] # None /\ remote[q] # None => (cache[q] = Dir <=> remote[q] = Dir)
InPlace(top, q) == q = top \/ Begins(top \o <<Slash>>, q)
KindsAgree(top) == \A q \in Places : InPlace(top, q) => Alike(q)

updateCache ==
  /\ reg.pc = "update" /\ walk = AtRest
  /\ walk' = Visiting({reg.path})
  /\ calm' = IF ~StartsCalm(reg.path) THEN "no"
             ELSE IF KindsAgree(Place(reg.path)) THEN "alike" ELSE "mixed"
  /\ UNCHANGED shareVars

\* An exception of update_cache ends the work on this directory and all below it.
VisitDir ==
  /\ walk.pc = "visit"
  /\ \E dir \in walk.todo :
       LET f    == FileOf(dir)
           rest == walk.todo \ {dir}
       IN \E u \in update_cache(f) :
            /\ cache' = u.files
            /\ walk' = IF u.ok THEN Listing(rest, f) ELSE Visiting(rest)
  /\ UNCHANGED <<remote, available, mounted, sync, log, based, conflicts, now, calm>>

\* opendir of the remote path, which is empty in a File built without the share.
OpenRemoteDir ==
  /\ walk.pc = "list"
  /\ LET f == walk.file IN
     walk' = IF f.avail /\ RemoteAt(f.path).kind = "dir"
             THEN Fetching(walk.todo, f,
                           IF mounted THEN EntriesIn(remote, Place(f.path)) ELSE {}, {}, {})
             ELSE Visiting(walk.todo)
  /\ UNCHANGED <<shareVars, calm>>

\* One entry: lstat, and update_cache unless it is a directory; what that throws
\* is caught.
FetchEntry ==
  /\ walk.pc = "fetch"
  /\ \E n \in walk.left :
       LET p == Below(walk.file.path, n)
           r == RemoteAt(p)
           next == [walk EXCEPT !.left = @ \ {n}]
       IN CASE r = None ->
                 walk' = next /\ UNCHANGED cache
            [] r.kind = "dir" ->
                 walk' = [next EXCEPT !.subdirs = @ \cup {n}] /\ UNCHANGED cache
            [] OTHER ->
                 /\ walk' = [next EXCEPT !.files = @ \cup {n}]
                 /\ \E u \in update_cache(FileOf(p)) : cache' = u.files
  /\ UNCHANGED <<remote, available, mounted, sync, log, based, conflicts, now, calm>>

\* Mutant of Unlisted: a directory that has gone from the server stays.
UnlistedFiles(place) ==
  {n \in EntriesIn(cache, place) : cache[Below(place, n)].kind # "dir" /\ n \notin walk.files}

\* What the clearing deletes: a cached directory with all below it unless a
\* directory of that name was listed, anything else unless a non-directory was.
Unlisted(place) ==
  {n \in EntriesIn(cache, place) :
     n \notin (IF cache[Below(place, n)].kind = "dir" THEN walk.subdirs ELSE walk.files)}
Cleared(place) ==
  {q \in Places : \E n \in Unlisted(place) :
     q = Below(place, n) \/ Begins(Below(place, n) \o <<Slash>>, q)}

\* Mutant of Subdirs: the entry "." is not passed over.
SubdirsAndItself ==
  {walk.file.path} \cup {Below(walk.file.path, n) : n \in walk.subdirs}
Subdirs == {Below(walk.file.path, n) : n \in walk.subdirs}

\* Without a cached directory nothing is cleared and nothing below is visited.
ClearCacheDir ==
  /\ walk.pc = "fetch" /\ walk.left = {}
  /\ LET f == walk.file IN
     IF cache[f.at].kind = "dir"
     THEN /\ cache' = [q \in Places |-> IF q \in Cleared(f.at) THEN None ELSE cache[q]]
          /\ walk' = Visiting(walk.todo \cup Subdirs)
     ELSE cache' = cache /\ walk' = Visiting(walk.todo)
  /\ UNCHANGED <<remote, available, mounted, sync, log, based, conflicts, now, calm>>

\* updateCacheThread and register_Backingtree return; the lock is released.
UpdateFinished == walk.pc = "visit" /\ walk.todo = {}

EndUpdate ==
  /\ UpdateFinished
  /\ walk' = AtRest
  /\ UNCHANGED <<shareVars, calm>>

UpdateStep == VisitDir \/ OpenRemoteDir \/ FetchEntry \/ ClearCacheDir
================================================================================
