------------------------------- MODULE OfflineFS -------------------------------
(****************************************************************************)
(* One share of OFS with everything that touches its files: the application *)
(* (FileRequests), the synchronising threads (Reintegration), other users   *)
(* of the server, the network, and the process itself, which may end and be *)
(* started again.                                                           *)
(****************************************************************************)
EXTENDS FileRequests, Reintegration

CONSTANTS MaxServerEdits,   \* bound: changes made on the server by others
          MaxDisconnects,   \* bound: switches to offline
          MaxRestarts,      \* bound: restarts of the process
          MayLoseServer     \* whether the server may stop answering

ASSUME OfflineFSAssumption ==
  /\ MaxServerEdits \in Nat /\ MaxDisconnects \in Nat /\ MaxRestarts \in Nat
  /\ MayLoseServer \in BOOLEAN

\* Time 1 lies before every modification; the files of the share were made at 2
\* and fetched at 2 or 3.
Start == 3

Init ==
  /\ remote \in [Paths -> {Absent, [by |-> "server", mtime |-> 2]}]
  /\ \E t \in 2 .. Start :
       /\ cache = [p \in Paths |-> IF Exists(remote[p])
                                   THEN [by |-> "server", mtime |-> t] ELSE Absent]
       /\ known = [p \in Paths |-> [node |-> remote[p], at |-> t]]
  /\ under = [p \in Paths |-> Absent]
  /\ log = <<>> /\ nextIndex = 0
  /\ mtimes = [p \in Paths |-> 0]
  /\ conflicts = {}
  /\ up = TRUE
  /\ available = TRUE /\ sync = TRUE
  /\ mounted = TRUE /\ reachable = TRUE
  /\ handle = [p \in Paths |-> Closed]
  /\ req = [p \in Paths |-> NoReq]
  /\ th = [t \in Syncers |-> Idle]
  /\ now = Start
  /\ used = [edits |-> 0, disconnects |-> 0, restarts |-> 0]

(****************************************************************************)
(* Other users of the server.                                               *)
(****************************************************************************)
ServerEdit(p) ==
  /\ used.edits < MaxServerEdits
  /\ used' = [used EXCEPT !.edits = @ + 1]
  /\ remote' = [remote EXCEPT ![p] = [by |-> "server", mtime |-> now]]
  /\ UNCHANGED <<under, cache, known, books, net, sync, up, handle, req, th, now>>

ServerDelete(p) ==
  /\ used.edits < MaxServerEdits
  /\ Exists(remote[p])
  /\ used' = [used EXCEPT !.edits = @ + 1]
  /\ remote' = [remote EXCEPT ![p] = Absent]
  /\ UNCHANGED <<under, cache, known, books, net, sync, up, handle, req, th, now>>

Tick ==
  /\ now < MaxTime
  /\ now' = now + 1
  /\ UNCHANGED <<files, books, net, sync, up, handle, req, th, used>>

(****************************************************************************)
(* The network, and switching to offline: setAvailability(false), by the    *)
(* recogniser when the server does not answer or by the user who removes    *)
(* the attribute ofs.available.  A failing umount is only logged; it can    *)
(* fail while remote files are open.                                        *)
(****************************************************************************)
ServerLost ==
  /\ MayLoseServer
  /\ reachable' = FALSE /\ reachable
  /\ UNCHANGED <<files, books, available, mounted, sync, up, handle, req, th, world>>

ServerBack ==
  /\ ~reachable
  /\ reachable' = TRUE
  /\ UNCHANGED <<files, books, available, mounted, sync, up, handle, req, th, world>>

SetUnavailable ==
  /\ up /\ available
  /\ used.disconnects < MaxDisconnects
  /\ used' = [used EXCEPT !.disconnects = @ + 1]
  /\ available' = FALSE
  /\ mounted' \in (IF \E p \in Paths : handle[p].fdr THEN {mounted, FALSE} ELSE {FALSE})
  /\ UNCHANGED <<files, books, reachable, sync, up, handle, req, th, now>>

(****************************************************************************)
(* The process ends between any two steps and is started again; it does not *)
(* start without the share.  What it kept in memory is gone: entry numbers  *)
(* start at 0, sync is assumed.  Of the conflict list every second element  *)
(* is read back, and a base time as the value of one character of it: a     *)
(* digit or nothing.                                                        *)
(****************************************************************************)
Crash ==
  /\ up /\ used.restarts < MaxRestarts
  /\ Terminate
  /\ UNCHANGED <<files, books, net, sync, handle, req, th, world>>

ReadBack(mtime) == IF mtime = 0 THEN {0} ELSE {0, 1}
ReadBackConflicts(list) ==
  {kept \in SUBSET list : Cardinality(kept) = (Cardinality(list) + 1) \div 2}

Restart ==
  /\ ~up /\ used.restarts < MaxRestarts
  /\ reachable
  /\ used' = [used EXCEPT !.restarts = @ + 1]
  /\ up' = TRUE
  /\ mounted' = TRUE
  /\ available' = TRUE /\ sync' = TRUE
  /\ nextIndex' = 0
  /\ mtimes' \in {m \in [Paths -> 0 .. 1] : \A p \in Paths : m[p] \in ReadBack(mtimes[p])}
  /\ conflicts' \in ReadBackConflicts(conflicts)
  /\ handle' = [p \in Paths |-> Closed]
  /\ req' = [p \in Paths |-> NoReq]
  /\ th' = [t \in Syncers |-> Idle]
  /\ UNCHANGED <<files, log, reachable, now>>

(****************************************************************************)
(* The system.                                                              *)
(****************************************************************************)
RequestStep ==
  \/ \E p \in Paths, op \in {"open", "truncate", "unlink"} : UpdateCache(p, op, {})
  \/ \E p, q \in Paths : UpdateCache(p, "rename", {q})
  \/ \E p \in Paths : Fetch(p)
  \/ \E p \in Paths : op_create(p)
  \/ \E p \in Paths : op_open(p)
  \/ \E p \in Paths, offset \in 0 .. 1 : op_write(p, offset)
  \/ \E p \in Paths : op_release(p)
  \/ \E p \in Paths : op_truncate(p)
  \/ \E p \in Paths : op_ftruncate(p)
  \/ \E p \in Paths : op_unlink(p)
  \/ \E p, q \in Paths : op_rename(p, q)
  \/ \E p \in Paths, d \in {"local", "remote"} : resolve(p, d)
  \/ LookupTerminates
  \/ \E p \in Paths : GetEntriesOfPath(p)
  \/ \E p \in Paths : RemoveEarlierEntry(p)
  \/ \E p \in Paths : AppendEntry(p)
  \/ \E p \in Paths : LoadIndex(p)
  \/ \E p \in Paths : StoreIndex(p)

SyncStep ==
  \/ StartLazywrite
  \/ SetAvailable
  \/ MountShare
  \/ \E t \in Syncers : Syncing(t)

EnvStep ==
  \/ \E p \in Paths : ServerEdit(p)
  \/ \E p \in Paths : ServerDelete(p)
  \/ Tick
  \/ ServerLost
  \/ ServerBack
  \/ SetUnavailable
  \/ Crash
  \/ Restart

Next == RequestStep \/ SyncStep \/ EnvStep

Spec == Init /\ [][Next]_vars

\* The synchronising threads run on their own: lazy write looks again every 300
\* seconds, and neither thread waits for anything inside a pass.
Fairness ==
  /\ WF_vars(StartLazywrite)
  /\ \A t \in Syncers : WF_vars(Syncing(t))

FairSpec == Spec /\ Fairness
--------------------------------------------------------------------------------
Adds == [path : Paths, type : ModType]

FetchState ==
  [stage : {"fetch", "fetched"}, op : {"open", "truncate", "unlink", "rename"},
   onto : SUBSET Paths]

LogState ==
  [stage : {"scan", "remove", "count", "store"},
   op : {"create", "write", "unlink", "rename"}, adds : Seq(Adds) \ {<<>>},
   onto : SUBSET Paths, first : ModType \cup {"none"}, mine : Seq(Section),
   index : Nat]

RequestState == {NoReq} \cup FetchState \cup LogState

ThreadState ==
  {Idle} \cup [pc : {"mount", "list", "next"}, todo : Seq(Section)]
    \cup [pc : {"check", "apply", "finish"}, todo : Seq(Section), entry : Entry,
          avail : BOOLEAN, verdict : Verdicts]

FilesOK ==
  /\ remote \in [Paths -> Node] /\ under \in [Paths -> Node]
  /\ cache \in [Paths -> Node]
  /\ known \in [Paths -> [node : Node, at : Nat]]

BooksOK ==
  /\ log \in Seq(Piece) /\ nextIndex \in Nat
  /\ mtimes \in [Paths -> Nat]
  /\ conflicts \subseteq Paths

FlagsOK ==
  /\ up \in BOOLEAN /\ sync \in BOOLEAN
  /\ available \in BOOLEAN /\ mounted \in BOOLEAN /\ reachable \in BOOLEAN

ActorsOK ==
  /\ handle \in [Paths -> Handle]
  /\ req \in [Paths -> RequestState]
  /\ th \in [Syncers -> ThreadState]

WorldOK ==
  /\ now \in Nat
  /\ used \in [edits : Nat, disconnects : Nat, restarts : Nat]

\* Every value the actions compute is of the kind the next action expects.
TypeOK == FilesOK /\ BooksOK /\ FlagsOK /\ ActorsOK /\ WorldOK

\* While a file is listed as a conflict, no request fetches the server's version
\* over the user's: that takes a resolution, or renaming another file onto it.
\* (ofsfile.cpp:1133 "only update if: [...] - the file is not in conflict state")
ConflictKeepsUserVersion ==
  [][\A p \in conflicts \cap conflicts' :
       (cache[p].by = "user" /\ cache'[p].by = "server")
         => \E q \in Paths : op_rename(q, p)]_vars

\* A pass decides to overwrite or delete a file on the server only if it is
\* still the version this client knows, or one made in the second in which the
\* client fetched it (times are whole seconds); otherwise it reports a conflict.
\* (docs/usage/getting_started.md: "If you change a file on the client and someone
\* edits the same file on the server while you work in disconnected mode this file
\* remains in conflicted state and does not get reintegrated")
NoBlindOverwrite ==
  [][\A t \in Syncers :
       (CheckEntry(t) /\ mounted /\ th'[t].verdict \in {"copy", "unlink"})
         => LET p == th[t].entry.path
            IN  remote[p] = known[p].node \/ remote[p].mtime <= known[p].at]_vars

\* Nobody else changes the server: then no pass reports a conflict.
\* (The same sentence: a conflict takes an edit on the server.)
NoFalseConflict == used.edits = 0 => conflicts = {}

\* A pass that has written a file to the server, while no request on that file is
\* under way, has written the user's content.
\* (docs/usage/getting_started.md: "the changes you made during offline mode will
\* be reintegrated to the server")
WrittenFileHasContent ==
  [][\A t \in Syncers :
       LET p == th[t].entry.path
       IN  (ApplyWrite(t) /\ mounted /\ th'[t].pc = "finish" /\ Free(p))
             => remote'[p].by = cache[p].by]_vars

\* A pass that raises the sync flag leaves no change behind in the log: the lazy
\* writer does nothing while the flag is up.
\* (filesystemstatusmanager.cpp:314 "Remote==Cache")
FlagMeansMerged ==
  [][\A t \in Syncers :
       (EndPass(t) /\ Parses(log)) => IsExhausted(Sections(log))]_vars

\* A change of p that waits in the log while the flag is down and no pass is
\* under way comes into the hands of a pass, which lists it or finds it gone,
\* unless the share is set unavailable or the process ends.  (lazywrite.cpp:107)
Waiting(p) ==
  /\ up /\ available /\ ~sync
  /\ \A t \in Syncers : th[t] = Idle
  /\ \E e \in Listed(Sections(log)) : e.path = p

InHands(p) ==
  \E t \in Syncers :
    \/ th[t].pc \in {"check", "apply", "finish"} /\ th[t].entry.path = p
    \/ th[t] # Idle /\ \E e \in Listed(th[t].todo) : e.path = p

WaitingChangeIsTaken ==
  \A p \in Paths :
    Waiting(p) ~> \/ InHands(p) \/ ~up \/ ~available
                  \/ ~\E e \in Listed(Sections(log)) : e.path = p

\* A pass that has begun ends.
PassesEnd ==
  \A t \in Syncers : (up /\ th[t].pc \notin {"idle", "mount"}) ~> (th[t].pc = "idle" \/ ~up)
================================================================================
