---------------------------- MODULE OfflineFS_proofs ----------------------------
(****************************************************************************)
(* Theorems about OfflineFS for every set of paths and every bound:         *)
(* the type invariant, and what it takes to prove the rest.                 *)
(****************************************************************************)
EXTENDS OfflineFS, SyncLogFile_proofs

USE DEF files, books, net, world

(****************************************************************************)
(* The helpers of Replica keep files, times and handles what they are.      *)
(****************************************************************************)
\* lstat reports a file, none, or an error; a file that is there has a writer and a time.
LEMMA StatType ==
  ASSUME FilesOK, NEW p \in Paths
  PROVE  /\ RemoteStat(p) \in Node \cup {Unreachable}
         /\ RemoteThere(p) => RemoteStat(p) \in [by : Writers, mtime : Nat]
BY DEF FilesOK, RemoteStat, RemoteThere, Node, Unreachable

\* A file that somebody writes now is a file.
LEMMA NewNode ==
  ASSUME NEW by \in Writers, now \in Nat
  PROVE  [by |-> by, mtime |-> now] \in Node
BY DEF Node

\* A handle whose cached file was unlinked is a handle.
LEMMA OrphanType ==
  ASSUME NEW h \in Handle
  PROVE  Orphan(h) \in Handle
BY DEF Orphan, Handle

\* update_amtime leaves a file or nothing.
LEMMA StampedType ==
  ASSUME NEW c \in Node, NEW avail \in BOOLEAN, NEW s \in Node \cup {Unreachable}
  PROVE  Stamped(c, avail, s) \in Node
BY DEF Stamped, Node, Exists, Absent, Unreachable

\* Writing through the remote path leaves files on both sides of the mount.
LEMMA WriteRemoteType ==
  ASSUME FilesOK, NEW p \in Paths, NEW node \in Node, WriteRemote(p, node)
  PROVE  remote' \in [Paths -> Node] /\ under' \in [Paths -> Node]
BY DEF FilesOK, WriteRemote

\* savemtime saves a time.
LEMMA SavemtimeType ==
  ASSUME FilesOK, mtimes \in [Paths -> Nat], NEW p \in Paths, savemtime(p)
  PROVE  mtimes' \in [Paths -> Nat]
<1>1. Exists(cache[p]) => cache[p].mtime \in Nat
  BY DEF FilesOK, Node, Exists
<1> QED BY <1>1 DEF savemtime

(****************************************************************************)
(* Type correctness.                                                        *)
(****************************************************************************)
\* The share as the process finds it has the types.
LEMMA InitType == Init => TypeOK
<1> SUFFICES ASSUME Init PROVE TypeOK
  OBVIOUS
<1>1. FilesOK
  BY DEF Init, FilesOK, Node, Writers, Start, Absent
<1>2. BooksOK
  BY DEF Init, BooksOK
<1>3. FlagsOK
  BY DEF Init, FlagsOK
<1>4. ActorsOK
  <2>1. handle \in [Paths -> Handle]
    BY DEF Init, Handle, Closed
  <2>2. req \in [Paths -> RequestState]
    BY DEF Init, RequestState
  <2>3. th \in [Syncers -> ThreadState]
    BY DEF Init, ThreadState
  <2> QED BY <2>1, <2>2, <2>3 DEF ActorsOK
<1>5. WorldOK
  BY DEF Init, WorldOK, Start
<1> QED BY <1>1, <1>2, <1>3, <1>4, <1>5 DEF TypeOK

\* A request that has something to log is a request.
LEMMA NewRequestType ==
  ASSUME NEW op \in {"create", "write", "unlink", "rename"},
         NEW adds \in Seq(Adds), adds # <<>>, NEW onto \in SUBSET Paths
  PROVE  Request(op, adds, onto) \in RequestState
BY DEF Request, RequestState, LogState, ModType

\* One path's request becomes another one.
LEMMA RequestType ==
  ASSUME ActorsOK, NEW p \in Paths, NEW state \in RequestState,
         req' = [req EXCEPT ![p] = state]
  PROVE  req' \in [Paths -> RequestState]
BY DEF ActorsOK

\* A request that has ended.
LEMMA EndsType ==
  ASSUME ActorsOK, NEW p \in Paths, Ends(p)
  PROVE  req' \in [Paths -> RequestState]
<1>1. NoReq \in RequestState
  BY DEF RequestState
<1> QED BY <1>1, RequestType DEF Ends

\* A change that a request logs.
LEMMA AddType ==
  ASSUME NEW p \in Paths, NEW t \in ModType
  PROVE  Add(p, t) \in Adds
BY DEF Add, Adds

\* A request that has begun to log is a request.
LEMMA LogsType ==
  ASSUME ActorsOK, NEW p \in Paths, NEW op \in {"create", "write", "unlink", "rename"},
         NEW adds \in Seq(Adds), adds # <<>>, NEW onto \in SUBSET Paths,
         Logs(p, op, adds, onto)
  PROVE  req' \in [Paths -> RequestState]
<1>1. Request(op, adds, onto) \in RequestState
  BY NewRequestType
<1> QED BY <1>1, RequestType DEF Logs

\* The decision of update_cache to fetch keeps the types.
LEMMA UpdateCacheType ==
  ASSUME TypeOK, NEW p \in Paths, NEW op \in {"open", "truncate", "unlink", "rename"},
         NEW onto \in SUBSET Paths, UpdateCache(p, op, onto)
  PROVE  TypeOK'
<1>1. Fetching("fetch", op, onto) \in RequestState
  BY DEF Fetching, RequestState, FetchState
<1>2. req' \in [Paths -> RequestState]
  BY <1>1, RequestType DEF UpdateCache, TypeOK
<1> QED BY <1>2 DEF UpdateCache, TypeOK, FilesOK, BooksOK, FlagsOK, ActorsOK, WorldOK

\* The copy of update_cache keeps the types, whatever it finds.
LEMMA FetchType ==
  ASSUME TypeOK, NEW p \in Paths, Fetch(p)
  PROVE  TypeOK'
<1>1. UNCHANGED <<remote, under, books, net, sync, th, world>>
  BY DEF Fetch
<1>2. handle' \in [Paths -> Handle]
  BY OrphanType DEF Fetch, TypeOK, ActorsOK
<1>3. req[p] \in FetchState
  BY DEF Fetch, TypeOK, ActorsOK, RequestState, LogState, NoReq
<1>4. CASE RemoteThere(p)
  <2>1. RemoteStat(p) \in [by : Writers, mtime : Nat]
    BY <1>4, StatType DEF TypeOK
  <2>2. [by |-> RemoteStat(p).by, mtime |-> now] \in Node
    BY <2>1 DEF Node, TypeOK, WorldOK
  <2>3. cache' \in [Paths -> Node]
    BY <1>4, <2>2 DEF Fetch, TypeOK, FilesOK
  <2>4. known' \in [Paths -> [node : Node, at : Nat]]
    BY <1>4 DEF Fetch, Version, TypeOK, FilesOK, WorldOK
  <2>5. Fetching("fetched", req[p].op, req[p].onto) \in RequestState
    BY <1>3 DEF Fetching, RequestState, FetchState
  <2>6. req' \in [Paths -> RequestState] /\ up' = up
    BY <1>4, <2>5, RequestType DEF Fetch, TypeOK
  <2> QED BY <1>1, <1>2, <2>3, <2>4, <2>6
          DEF TypeOK, FilesOK, BooksOK, FlagsOK, ActorsOK, WorldOK
<1>5. CASE ~RemoteThere(p)
  <2>1. [by |-> "nobody", mtime |-> now] \in Node
    BY NewNode DEF TypeOK, WorldOK, Writers
  <2>2. cache' \in [Paths -> Node] /\ known' = known
    BY <1>5, <2>1 DEF Fetch, TypeOK, FilesOK
  <2>3. req' \in [Paths -> RequestState]
    BY <1>5, EndsType DEF Fetch, Ends, TypeOK
  <2>4. up' \in BOOLEAN
    BY <1>5 DEF Fetch
  <2> QED BY <1>1, <1>2, <2>2, <2>3, <2>4
          DEF TypeOK, FilesOK, BooksOK, FlagsOK, ActorsOK, WorldOK
<1> QED BY <1>4, <1>5

\* OFSFile::op_create keeps the types.
LEMMA CreateType ==
  ASSUME TypeOK, NEW p \in Paths, op_create(p)
  PROVE  TypeOK'
<1> USE DEF TypeOK
<1>1. FilesOK'
  <2>1. [by |-> "nobody", mtime |-> now] \in Node
    BY NewNode DEF WorldOK, Writers
  <2> QED BY <2>1 DEF op_create, FilesOK
<1>2. BooksOK' /\ FlagsOK' /\ WorldOK'
  BY DEF op_create, BooksOK, FlagsOK, WorldOK
<1>3. ActorsOK'
  <2>1. handle' \in [Paths -> Handle]
    BY DEF op_create, ActorsOK, FlagsOK, Opened, Handle
  <2>2. req' \in [Paths -> RequestState]
    <3>1. Add(p, "c") \in Adds
      BY AddType DEF ModType
    <3>2. <<Add(p, "c")>> \in Seq(Adds) /\ <<Add(p, "c")>> # <<>> /\ {} \in SUBSET Paths
      BY <3>1
    <3> QED BY <3>2, LogsType DEF op_create
  <2> QED BY <2>1, <2>2 DEF op_create, ActorsOK
<1> QED BY <1>1, <1>2, <1>3

\* OFSFile::op_open keeps the types.
LEMMA OpenType ==
  ASSUME TypeOK, NEW p \in Paths, op_open(p)
  PROVE  TypeOK'
<1> USE DEF TypeOK
<1>1. FilesOK'
  BY DEF op_open, FilesOK
<1>2. BooksOK' /\ FlagsOK' /\ WorldOK'
  BY DEF op_open, BooksOK, FlagsOK, WorldOK
<1>3. ActorsOK'
  <2>1. Avail(p) \in BOOLEAN
    BY DEF Avail, FlagsOK
  <2>2. Opened(Avail(p), "cache", Avail(p)) \in Handle
    BY <2>1 DEF Opened, Handle
  <2>3. handle' \in [Paths -> Handle]
    BY <2>2 DEF op_open, ActorsOK
  <2> QED BY <2>3, EndsType DEF op_open, ActorsOK
<1> QED BY <1>1, <1>2, <1>3

\* OFSFile::op_write keeps the types.
LEMMA WriteType ==
  ASSUME TypeOK, NEW p \in Paths, NEW offset, op_write(p, offset)
  PROVE  TypeOK'
<1> USE DEF TypeOK
<1>1. FilesOK'
  <2>1. [by |-> "user", mtime |-> now] \in Node
    BY NewNode DEF WorldOK, Writers
  <2> QED BY <2>1 DEF op_write, FilesOK
<1>2. BooksOK'
  <2>1. mtimes' \in [Paths -> Nat]
    BY SavemtimeType DEF op_write, BooksOK
  <2> QED BY <2>1 DEF op_write, BooksOK
<1>3. FlagsOK' /\ WorldOK'
  BY DEF op_write, FlagsOK, WorldOK
<1>4. req' \in [Paths -> RequestState]
  <2>1. Add(p, "m") \in Adds
    BY AddType DEF ModType
  <2>2. <<Add(p, "m")>> \in Seq(Adds) /\ <<Add(p, "m")>> # <<>> /\ {} \in SUBSET Paths
    BY <2>1
  <2>3. CASE UNCHANGED req
    BY <2>3 DEF ActorsOK
  <2>4. CASE Logs(p, "write", <<Add(p, "m")>>, {})
    BY <2>2, <2>4, LogsType
  <2> QED BY <2>3, <2>4 DEF op_write
<1>5. ActorsOK'
  BY <1>4 DEF op_write, ActorsOK
<1> QED BY <1>1, <1>2, <1>3, <1>5

\* OFSFile::op_release keeps the types.
LEMMA ReleaseType ==
  ASSUME TypeOK, NEW p \in Paths, op_release(p)
  PROVE  TypeOK'
<1> USE DEF TypeOK
<1>1. FilesOK'
  <2>1. handle[p].avail \in BOOLEAN
    BY DEF ActorsOK, Handle
  <2>2. Stamped(cache[p], handle[p].avail, RemoteStat(p)) \in Node
    BY <2>1, StatType, StampedType DEF FilesOK
  <2> QED BY <2>2 DEF op_release, FilesOK
<1>2. BooksOK' /\ FlagsOK' /\ WorldOK'
  BY DEF op_release, BooksOK, FlagsOK, WorldOK, StampThrows
<1>3. ActorsOK'
  BY DEF op_release, ActorsOK, Closed, Handle
<1> QED BY <1>1, <1>2, <1>3

\* OFSFile::op_truncate keeps the types.
LEMMA TruncateType ==
  ASSUME TypeOK, NEW p \in Paths, op_truncate(p)
  PROVE  TypeOK'
<1> USE DEF TypeOK
<1>1. FilesOK'
  <2>1. [by |-> "nobody", mtime |-> now] \in Node
    BY NewNode DEF WorldOK, Writers
  <2>2. Avail(p) \in BOOLEAN
    BY DEF Avail, FlagsOK
  <2>3. Stamped([by |-> "nobody", mtime |-> now], Avail(p), RemoteStat(p)) \in Node
    BY <2>1, <2>2, StatType, StampedType
  <2> QED BY <2>3 DEF op_truncate, FilesOK
<1>2. BooksOK' /\ FlagsOK' /\ WorldOK'
  BY DEF op_truncate, BooksOK, FlagsOK, WorldOK
<1>3. ActorsOK'
  BY EndsType DEF op_truncate, ActorsOK
<1> QED BY <1>1, <1>2, <1>3

\* OFSFile::op_ftruncate keeps the types.
LEMMA FtruncateType ==
  ASSUME TypeOK, NEW p \in Paths, op_ftruncate(p)
  PROVE  TypeOK'
<1> USE DEF TypeOK
<1>1. FilesOK'
  <2>1. [by |-> "nobody", mtime |-> now] \in Node
    BY NewNode DEF WorldOK, Writers
  <2> DEFINE empty == [by |-> "nobody", mtime |-> now]
  <2>2. CASE handle[p].fdr
    <3>1. /\ remote' = [remote EXCEPT ![p] = empty]
          /\ known' = [known EXCEPT ![p] = Version(empty)]
          /\ UNCHANGED <<cache, under>>
      BY <2>2 DEF op_ftruncate
    <3>2. Version(empty) \in [node : Node, at : Nat]
      BY <2>1 DEF Version, WorldOK
    <3> HIDE DEF empty
    <3> QED BY <2>1, <3>1, <3>2 DEF FilesOK, empty
  <2>3. CASE ~handle[p].fdr
    <3>1. cache' = [cache EXCEPT ![p] = empty] /\ UNCHANGED <<remote, known, under>>
      BY <2>3 DEF op_ftruncate
    <3> QED BY <2>1, <3>1 DEF FilesOK
  <2> QED BY <2>2, <2>3
<1>2. BooksOK' /\ FlagsOK' /\ ActorsOK' /\ WorldOK'
  BY DEF op_ftruncate, BooksOK, FlagsOK, ActorsOK, WorldOK
<1> QED BY <1>1, <1>2

\* OFSFile::op_unlink keeps the types.
LEMMA UnlinkType ==
  ASSUME TypeOK, NEW p \in Paths, op_unlink(p)
  PROVE  TypeOK'
<1> USE DEF TypeOK
<1>1. FilesOK'
  <2>1. Absent \in Node
    BY DEF Node
  <2> QED BY <2>1 DEF op_unlink, FilesOK
<1>2. BooksOK'
  <2>1. mtimes' \in [Paths -> Nat]
    BY SavemtimeType DEF op_unlink, BooksOK
  <2> QED BY <2>1 DEF op_unlink, BooksOK
<1>3. FlagsOK' /\ WorldOK'
  BY DEF op_unlink, FlagsOK, WorldOK
<1>4. ActorsOK'
  <2>1. handle' \in [Paths -> Handle]
    BY OrphanType DEF op_unlink, ActorsOK
  <2>2. Add(p, "d") \in Adds
    BY AddType DEF ModType
  <2>3. <<Add(p, "d")>> \in Seq(Adds) /\ <<Add(p, "d")>> # <<>> /\ {} \in SUBSET Paths
    BY <2>2
  <2>4. req' \in [Paths -> RequestState]
    BY <2>3, LogsType DEF op_unlink
  <2> QED BY <2>1, <2>4 DEF op_unlink, ActorsOK
<1> QED BY <1>1, <1>2, <1>3, <1>4

\* OFSFile::op_rename keeps the types.
LEMMA RenameType ==
  ASSUME TypeOK, NEW p \in Paths, NEW q \in Paths, op_rename(p, q)
  PROVE  TypeOK'
<1> USE DEF TypeOK
<1>1. FilesOK'
  <2>1. Absent \in Node
    BY DEF Node
  <2> QED BY <2>1 DEF op_rename, FilesOK
<1>2. BooksOK'
  <2>1. mtimes' \in [Paths -> Nat]
    BY SavemtimeType DEF op_rename, BooksOK
  <2> QED BY <2>1 DEF op_rename, BooksOK
<1>3. FlagsOK' /\ WorldOK'
  BY DEF op_rename, FlagsOK, WorldOK
<1>4. ActorsOK'
  <2> DEFINE adds == <<Add(q, "c"), Add(q, "m"), Add(p, "d")>>
  <2>1. Add(q, "c") \in Adds /\ Add(q, "m") \in Adds /\ Add(p, "d") \in Adds
    BY AddType DEF ModType
  <2>2. adds \in Seq(Adds) /\ adds # <<>>
    BY <2>1
  <2>3. Logs(p, "rename", adds, {q}) /\ {q} \in SUBSET Paths
    BY DEF op_rename
  <2> HIDE DEF adds
  <2>4. req' \in [Paths -> RequestState]
    BY <2>2, <2>3, LogsType
  <2> QED BY <2>4 DEF op_rename, ActorsOK
<1> QED BY <1>1, <1>2, <1>3, <1>4

\* ConflictManager::resolve keeps the types.
LEMMA ResolveType ==
  ASSUME TypeOK, NEW p \in Paths, NEW direction, resolve(p, direction)
  PROVE  TypeOK'
<1> USE DEF TypeOK
<1>1. FilesOK'
  <2>1. CASE direction = "local"
    <3> DEFINE node == IF Exists(cache[p]) THEN [by |-> cache[p].by, mtime |-> now] ELSE Absent
    <3>1. node \in Node
      BY DEF FilesOK, Exists, Node, WorldOK
    <3>2. WriteRemote(p, node) /\ UNCHANGED cache
      BY <2>1 DEF resolve
    <3> HIDE DEF node
    <3>3. remote' \in [Paths -> Node] /\ under' \in [Paths -> Node]
      BY <3>1, <3>2, WriteRemoteType
    <3>4. known' \in [Paths -> [node : Node, at : Nat]]
      BY <2>1, <3>3 DEF resolve, FilesOK, Version, WorldOK
    <3> QED BY <3>2, <3>3, <3>4 DEF FilesOK
  <2>2. CASE direction # "local"
    <3>1. RemoteStat(p) \in [by : Writers, mtime : Nat]
      BY StatType DEF resolve
    <3>2. [by |-> RemoteStat(p).by, mtime |-> now] \in Node
      BY <3>1 DEF Node, WorldOK
    <3>3. known' \in [Paths -> [node : Node, at : Nat]]
      BY <2>2 DEF resolve, FilesOK, Version, WorldOK
    <3> QED BY <2>2, <3>2, <3>3 DEF resolve, FilesOK
  <2> QED BY <2>1, <2>2
<1>2. BooksOK' /\ FlagsOK' /\ WorldOK'
  BY DEF resolve, BooksOK, FlagsOK, WorldOK
<1>3. ActorsOK'
  BY OrphanType DEF resolve, ActorsOK
<1> QED BY <1>1, <1>2, <1>3

\* An uncaught exception in op_getattr keeps the types.
LEMMA LookupTerminatesType ==
  ASSUME TypeOK, LookupTerminates
  PROVE  TypeOK'
BY DEF TypeOK, FilesOK, BooksOK, FlagsOK, ActorsOK, WorldOK, LookupTerminates, Terminate

\* The fields of a request that is writing the log.
LEMMA LogStateFields ==
  ASSUME ActorsOK, NEW p \in Paths, req[p].stage \in {"scan", "remove", "count", "store"}
  PROVE  /\ req[p] \in LogState
         /\ req[p].adds \in Seq(Adds) /\ req[p].adds # <<>>
         /\ req[p].mine \in Seq(Section)
         /\ req[p].first \in ModType \cup {"none"}
         /\ req[p].op \in {"create", "write", "unlink", "rename"}
         /\ req[p].onto \in SUBSET Paths /\ req[p].index \in Nat
<1>1. req[p] \in RequestState
  BY DEF ActorsOK
<1>2. req[p] \in LogState
  BY <1>1 DEF RequestState, FetchState, NoReq
<1> QED BY <1>2 DEF LogState

\* AddEntry's call of GetEntries gives a list of sections.
LEMMA GetEntriesType ==
  ASSUME TypeOK, NEW p \in Paths, GetEntriesOfPath(p)
  PROVE  TypeOK'
<1> USE DEF TypeOK
<1>1. FilesOK' /\ BooksOK' /\ WorldOK'
  BY DEF GetEntriesOfPath, FilesOK, BooksOK, WorldOK
<1>2. FlagsOK'
  BY DEF GetEntriesOfPath, FlagsOK
<1>3. handle' \in [Paths -> Handle]
  BY DEF GetEntriesOfPath, ActorsOK, Handle
<1>4. req' \in [Paths -> RequestState]
  <2>1. CASE Parses(log)
    <3> DEFINE mine == SectionsOf(log, Head(req[p].adds).path)
               new == [req[p] EXCEPT !.stage = "remove", !.mine = mine]
    <3>1. mine \in Seq(Section)
      BY SectionsOfType DEF BooksOK
    <3>2. req' = [req EXCEPT ![p] = new]
      BY <2>1 DEF GetEntriesOfPath
    <3>3. req[p] \in LogState
      BY LogStateFields DEF GetEntriesOfPath
    <3> HIDE DEF mine
    <3>4. new \in RequestState
      BY <3>1, <3>3 DEF RequestState, LogState
    <3> HIDE DEF new
    <3> QED BY <3>2, <3>4, RequestType
  <2>2. CASE ~Parses(log)
    BY <2>2, EndsType DEF GetEntriesOfPath
  <2> QED BY <2>1, <2>2
<1>5. ActorsOK'
  BY <1>3, <1>4 DEF GetEntriesOfPath, ActorsOK
<1> QED BY <1>1, <1>2, <1>5

\* Removing an earlier entry of the path leaves pieces in the log.
LEMMA RemoveEarlierType ==
  ASSUME TypeOK, NEW p \in Paths, RemoveEarlierEntry(p)
  PROVE  TypeOK'
<1> USE DEF TypeOK
<1> DEFINE mine == req[p].mine
<1>1. PICK i \in DOMAIN mine :
        /\ IsNext(mine, i)
        /\ log' \in RemoveResults(log, mine[i].number)
        /\ req' = [req EXCEPT
                     ![p].mine = Rest(mine, i),
                     ![p].first = IF req[p].first = "none" THEN mine[i].type
                                                           ELSE req[p].first]
  BY DEF RemoveEarlierEntry
<1>2. FilesOK' /\ FlagsOK' /\ WorldOK'
  BY DEF RemoveEarlierEntry, FilesOK, FlagsOK, WorldOK
<1>3. BooksOK'
  <2>1. log' \in Seq(Piece)
    BY <1>1, RemoveResultsCopies DEF BooksOK, Copies
  <2> QED BY <2>1 DEF RemoveEarlierEntry, BooksOK
<1>4. ActorsOK'
  <2>1. req[p] \in LogState /\ mine \in Seq(Section) /\ req[p].first \in ModType \cup {"none"}
    BY LogStateFields DEF RemoveEarlierEntry
  <2>2. Rest(mine, i) \in Seq(Section) /\ mine[i] \in Section
    BY <2>1, <1>1, RestProperties
  <2>3. mine[i].type \in ModType \cup {"none"}
    BY <2>2 DEF Section
  <2>4. req' = [req EXCEPT ![p] = req'[p]]
    BY <1>1, <2>1 DEF ActorsOK
  <2>5. req'[p] \in RequestState
    <3> DEFINE first == IF req[p].first = "none" THEN mine[i].type ELSE req[p].first
    <3>1. first \in ModType \cup {"none"}
      BY <2>1, <2>3
    <3>2. req'[p] = [req[p] EXCEPT !.mine = Rest(mine, i), !.first = first]
      BY <1>1 DEF ActorsOK
    <3> HIDE DEF first
    <3> QED BY <3>1, <3>2, <2>1, <2>2 DEF RequestState, LogState
  <2>6. req' \in [Paths -> RequestState]
    BY <2>4, <2>5, RequestType
  <2> QED BY <2>6 DEF RemoveEarlierEntry, ActorsOK
<1> QED BY <1>2, <1>3, <1>4

\* The next AddEntry of a request, or its end.
LEMMA NextAddType ==
  ASSUME ActorsOK, FlagsOK, NEW p \in Paths,
         req[p].stage \in {"scan", "remove", "count", "store"}, NextAdd(p)
  PROVE  req' \in [Paths -> RequestState] /\ sync' \in BOOLEAN
<1> DEFINE r == req[p]
           new == IF Len(r.adds) = 1 THEN NoReq ELSE Request(r.op, Tail(r.adds), r.onto)
<1>1. /\ r.adds \in Seq(Adds) /\ r.adds # <<>> /\ r.onto \in SUBSET Paths
      /\ r.op \in {"create", "write", "unlink", "rename"}
  BY LogStateFields
<1>2. new \in RequestState
  <2>1. CASE Len(r.adds) = 1
    BY <2>1 DEF RequestState
  <2>2. CASE Len(r.adds) # 1
    <3>1. Tail(r.adds) \in Seq(Adds) /\ Tail(r.adds) # <<>>
      BY <1>1, <2>2, TailType
    <3> QED BY <1>1, <2>2, <3>1, NewRequestType
  <2> QED BY <2>1, <2>2
<1>3. req' = [req EXCEPT ![p] = new]
  BY DEF NextAdd
<1>4. sync' \in BOOLEAN
  BY DEF NextAdd, FlagsOK
<1> HIDE DEF new
<1> QED BY <1>2, <1>3, <1>4, RequestType

\* The merged entry is one of the three types that are logged.
LEMMA AppendType ==
  ASSUME TypeOK, NEW p \in Paths, AppendEntry(p)
  PROVE  TypeOK'
<1> USE DEF TypeOK
<1> DEFINE add  == Head(req[p].adds)
           type == Merge(req[p].first, add.type)
<1>1. /\ req[p].stage = "remove"
      /\ UNCHANGED <<files, nextIndex, mtimes, conflicts, net, up, handle, th, world>>
      /\ IF type = "x"
         THEN NextAdd(p) /\ UNCHANGED log
         ELSE /\ log' = Append(log, NewPiece(nextIndex, add.path, type))
              /\ req' = [req EXCEPT ![p] = [@ EXCEPT !.stage = "count"]]
              /\ UNCHANGED sync
  BY DEF AppendEntry
<1>2. /\ req[p] \in LogState /\ req[p].first \in ModType \cup {"none"}
      /\ req[p].adds \in Seq(Adds) /\ req[p].adds # <<>>
  BY <1>1, LogStateFields
<1>3. add \in Adds
  <2> HIDE DEF Adds
  <2> QED BY <1>2
<1>4. FilesOK' /\ WorldOK'
  BY <1>1 DEF FilesOK, WorldOK
<1>5. type \in ModType \cup {"x"}
  BY <1>2, <1>3, MergeType DEF Adds
<1>6. CASE type = "x"
  BY <1>1, <1>4, <1>6, NextAddType DEF BooksOK, FlagsOK, ActorsOK
<1>7. CASE type # "x"
  <2>1. NewPiece(nextIndex, add.path, type) \in Piece
    BY <1>3, <1>5, <1>7 DEF NewPiece, Piece, Entry, Adds, BooksOK
  <2>2. BooksOK'
    <3>1. log' = Append(log, NewPiece(nextIndex, add.path, type))
      BY <1>1, <1>7
    <3>2. log' \in Seq(Piece)
      BY <2>1, <3>1 DEF BooksOK
    <3> QED BY <1>1, <3>2 DEF BooksOK
  <2> DEFINE new == [req[p] EXCEPT !.stage = "count"]
  <2>3. new \in RequestState
    BY <1>2 DEF RequestState, LogState
  <2>4. req' = [req EXCEPT ![p] = new]
    BY <1>1, <1>7
  <2> HIDE DEF new
  <2>5. req' \in [Paths -> RequestState]
    BY <2>3, <2>4, RequestType
  <2>6. sync' = sync
    BY <1>1, <1>7
  <2> QED BY <1>1, <1>4, <2>2, <2>5, <2>6 DEF FlagsOK, ActorsOK
<1> QED BY <1>6, <1>7

\* Loading m_nNewIndex keeps the types ...
LEMMA LoadIndexType ==
  ASSUME TypeOK, NEW p \in Paths, LoadIndex(p)
  PROVE  TypeOK'
<1> DEFINE new == [req[p] EXCEPT !.stage = "store", !.index = nextIndex]
<1>1. req[p] \in LogState /\ nextIndex \in Nat
  BY LogStateFields DEF LoadIndex, TypeOK, BooksOK
<1>2. new \in RequestState
  BY <1>1 DEF RequestState, LogState
<1>3. req' = [req EXCEPT ![p] = new]
  BY DEF LoadIndex
<1> HIDE DEF new
<1>4. req' \in [Paths -> RequestState]
  BY <1>2, <1>3, RequestType DEF TypeOK
<1> QED BY <1>4 DEF LoadIndex, TypeOK, FilesOK, BooksOK, FlagsOK, ActorsOK, WorldOK

\* ... and so does storing it.
LEMMA StoreIndexType ==
  ASSUME TypeOK, NEW p \in Paths, StoreIndex(p)
  PROVE  TypeOK'
<1>1. req[p].index \in Nat
  BY LogStateFields DEF StoreIndex, TypeOK
<1>2. req' \in [Paths -> RequestState] /\ sync' \in BOOLEAN
  BY NextAddType DEF StoreIndex, TypeOK
<1> QED BY <1>1, <1>2 DEF StoreIndex, TypeOK, FilesOK, BooksOK, FlagsOK, ActorsOK, WorldOK

\* A thread that goes to another place of its pass.
LEMMA BecomeType ==
  ASSUME ActorsOK, NEW t \in Syncers, NEW state \in ThreadState, Become(t, state)
  PROVE  th' \in [Syncers -> ThreadState]
BY DEF ActorsOK, Become

\* A thread between two entries of its list.
LEMMA InPassType ==
  ASSUME NEW pc \in {"mount", "list", "next"}, NEW todo \in Seq(Section)
  PROVE  InPass(pc, todo) \in ThreadState
BY DEF InPass, ThreadState

\* A thread outside a pass.
LEMMA IdleType == Idle \in ThreadState
BY DEF ThreadState

\* Lists and entries of a thread by the place it is at.
LEMMA ThreadProperties ==
  ASSUME ActorsOK, NEW t \in Syncers
  PROVE  /\ th[t] \in ThreadState
         /\ th[t].pc = "next" => th[t].todo \in Seq(Section)
         /\ th[t].pc \in {"check", "apply", "finish"} =>
              th[t] \in [pc : {"check", "apply", "finish"}, todo : Seq(Section),
                         entry : Entry, avail : BOOLEAN, verdict : Verdicts]
BY DEF ActorsOK, ThreadState, Idle

\* The lazy writer's start keeps the types.
LEMMA StartLazywriteType ==
  ASSUME TypeOK, StartLazywrite
  PROVE  TypeOK'
<1>1. th' \in [Syncers -> ThreadState]
  <2>1. <<>> \in Seq(Section)
    OBVIOUS
  <2>2. "lazy" \in Syncers /\ Become("lazy", InPass("list", <<>>))
    BY DEF StartLazywrite
  <2> QED BY <2>1, <2>2, InPassType, BecomeType DEF TypeOK
<1> QED BY <1>1 DEF StartLazywrite, TypeOK, FilesOK, BooksOK, FlagsOK, ActorsOK, WorldOK

\* setAvailability(true) keeps the types.
LEMMA SetAvailableType ==
  ASSUME TypeOK, SetAvailable
  PROVE  TypeOK'
<1>1. th' \in [Syncers -> ThreadState]
  <2>1. <<>> \in Seq(Section)
    OBVIOUS
  <2>2. "net" \in Syncers /\ Become("net", InPass("mount", <<>>))
    BY DEF SetAvailable
  <2> QED BY <2>1, <2>2, InPassType, BecomeType DEF TypeOK
<1> QED BY <1>1 DEF SetAvailable, TypeOK, FilesOK, BooksOK, FlagsOK, ActorsOK, WorldOK

\* mountfs keeps the types.
LEMMA MountShareType ==
  ASSUME TypeOK, MountShare
  PROVE  TypeOK'
<1>1. th' \in [Syncers -> ThreadState]
  <2>1. <<>> \in Seq(Section)
    OBVIOUS
  <2>2. CASE UNCHANGED th
    BY <2>2 DEF TypeOK, ActorsOK
  <2>3. CASE Become("net", InPass("list", <<>>))
    <3>1. "net" \in Syncers
      BY DEF MountShare
    <3> QED BY <2>1, <2>3, <3>1, InPassType, BecomeType DEF TypeOK
  <2> QED BY <2>2, <2>3 DEF MountShare
<1> QED BY <1>1 DEF MountShare, Terminate, TypeOK, FilesOK, BooksOK, FlagsOK, ActorsOK, WorldOK

\* The list of a pass is a list of sections.
LEMMA ListEntriesType ==
  ASSUME TypeOK, NEW t \in Syncers, ListEntries(t)
  PROVE  TypeOK'
<1>1. th' \in [Syncers -> ThreadState]
  <2>1. CASE UNCHANGED th
    BY <2>1 DEF TypeOK, ActorsOK
  <2>2. CASE Become(t, InPass("next", Sections(log)))
    <3>1. Sections(log) \in Seq(Section)
      BY SectionsProperties DEF TypeOK, BooksOK
    <3> QED BY <2>2, <3>1, InPassType, BecomeType DEF TypeOK
  <2> QED BY <2>1, <2>2 DEF ListEntries
<1> QED BY <1>1 DEF ListEntries, Terminate, TypeOK, FilesOK, BooksOK, FlagsOK, ActorsOK, WorldOK

\* The element that TakeEntry takes is listed, so it is a whole entry.
LEMMA TakenEntry ==
  ASSUME ActorsOK, NEW t \in Syncers, th[t].pc = "next",
         NEW i \in DOMAIN th[t].todo, IsNext(th[t].todo, i)
  PROVE  /\ th[t].todo \in Seq(Section)
         /\ th[t].todo[i] \in Entry
         /\ Rest(th[t].todo, i) \in Seq(Section)
<1>1. th[t].todo \in Seq(Section)
  BY ThreadProperties
<1>2. th[t].todo[i] \in Section /\ Rest(th[t].todo, i) \in Seq(Section)
  BY <1>1, RestProperties
<1>3. th[t].todo[i].type # "none"
  BY DEF IsNext, IsListed
<1> QED BY <1>1, <1>2, <1>3 DEF Section, Entry

\* The entry a pass takes is a whole entry.
LEMMA TakeEntryType ==
  ASSUME TypeOK, NEW t \in Syncers, TakeEntry(t)
  PROVE  TypeOK'
<1>1. PICK i \in DOMAIN th[t].todo :
        /\ IsNext(th[t].todo, i)
        /\ Become(t, AtEntry("check", Rest(th[t].todo, i), th[t].todo[i], available, "skip"))
  BY DEF TakeEntry
<1>2. th[t].todo[i] \in Entry /\ Rest(th[t].todo, i) \in Seq(Section)
  BY <1>1, TakenEntry DEF TakeEntry, TypeOK
<1>3. AtEntry("check", Rest(th[t].todo, i), th[t].todo[i], available, "skip") \in ThreadState
  BY <1>2 DEF AtEntry, ThreadState, Verdicts, TypeOK, FlagsOK
<1>4. th' \in [Syncers -> ThreadState]
  BY <1>1, <1>3, BecomeType DEF TypeOK
<1> QED BY <1>4 DEF TakeEntry, TypeOK, FilesOK, BooksOK, FlagsOK, ActorsOK, WorldOK

\* Whatever the files are, one of the five verdicts is found.
LEMMA VerdictType ==
  ASSUME NEW e, NEW avail
  PROVE  Verdict(e, avail) \in Verdicts
<1>1. VerdictCreate(e.path) \in Verdicts
  BY DEF VerdictCreate, Verdicts
<1>2. VerdictModify(e.path) \in Verdicts
  BY DEF VerdictModify, Verdicts
<1>3. VerdictDelete(e.path) \in Verdicts
  BY DEF VerdictDelete, Verdicts
<1>4. "skip" \in Verdicts
  BY DEF Verdicts
<1> QED BY <1>1, <1>2, <1>3, <1>4 DEF Verdict

\* Deciding keeps the types, and conflicts are paths of the share.
LEMMA CheckEntryType ==
  ASSUME TypeOK, NEW t \in Syncers, CheckEntry(t)
  PROVE  TypeOK'
<1> DEFINE v == Verdict(th[t].entry, th[t].avail)
           new == [th[t] EXCEPT !.verdict = v,
                                !.pc = IF v \in {"skip", "conflict"} THEN "finish" ELSE "apply"]
<1>1. v \in Verdicts
  BY VerdictType
<1>2. th[t] \in [pc : {"check", "apply", "finish"}, todo : Seq(Section),
                 entry : Entry, avail : BOOLEAN, verdict : Verdicts]
  BY ThreadProperties DEF CheckEntry, TypeOK
<1>3. Become(t, new) /\ conflicts' = IF v = "conflict" THEN conflicts \cup {th[t].entry.path}
                                                      ELSE conflicts
  BY DEF CheckEntry
<1> HIDE DEF v
<1>4. new \in ThreadState
  BY <1>1, <1>2 DEF ThreadState
<1>5. th' \in [Syncers -> ThreadState]
  BY <1>3, <1>4, BecomeType DEF TypeOK
<1>6. conflicts' \subseteq Paths
  BY <1>2, <1>3 DEF Entry, TypeOK, BooksOK
<1> QED BY <1>5, <1>6 DEF CheckEntry, TypeOK, FilesOK, BooksOK, FlagsOK, ActorsOK, WorldOK

\* A thread that has worked on an entry: only its place changes.
LEMMA FinishedType ==
  ASSUME ActorsOK, NEW t \in Syncers, th[t].pc = "apply"
  PROVE  [th[t] EXCEPT !.pc = "finish"] \in ThreadState
BY ThreadProperties DEF ThreadState

\* CreateFile's and ModifyFile's writing keeps the types, however far it gets.
LEMMA ApplyWriteType ==
  ASSUME TypeOK, NEW t \in Syncers, ApplyWrite(t)
  PROVE  TypeOK'
<1> DEFINE p == th[t].entry.path
           v == th[t].verdict
           empty == [by |-> "nobody", mtime |-> now]
           written == [by |-> WrittenBy(v, p), mtime |-> now]
<1>1. th[t].pc = "apply" /\ p \in Paths /\ v \in {"create", "copy"}
  BY ThreadProperties DEF ApplyWrite, TypeOK, Entry
<1>2. /\ UNCHANGED <<books, net, sync, handle, req, world>>
      /\ \/ Terminate /\ UNCHANGED <<remote, under, cache, known, th>>
         \/ WriteRemote(p, empty) /\ Terminate /\ UNCHANGED <<cache, known, th>>
         \/ /\ v = "copy" => Exists(cache[p])
            /\ WriteRemote(p, written)
            /\ known' = IF mounted THEN [known EXCEPT ![p] = Version(written)] ELSE known
            /\ StampFromRemote(p, written)
            /\ Become(t, [th[t] EXCEPT !.pc = "finish"])
  BY <1>1, Zenon DEF ApplyWrite
<1>3. empty \in Node
  BY NewNode DEF TypeOK, WorldOK, Writers
<1>4. (v = "copy" => Exists(cache[p])) => written \in Node
  BY <1>1 DEF WrittenBy, Node, Exists, Writers, TypeOK, FilesOK, WorldOK
<1> HIDE DEF p, v, empty, written
<1>5. CASE Terminate /\ UNCHANGED <<remote, under, cache, known, th>>
  BY <1>2, <1>5 DEF Terminate, TypeOK, FilesOK, BooksOK, FlagsOK, ActorsOK, WorldOK
<1>6. CASE WriteRemote(p, empty) /\ Terminate /\ UNCHANGED <<cache, known, th>>
  <2>1. remote' \in [Paths -> Node] /\ under' \in [Paths -> Node]
    BY <1>1, <1>3, <1>6, WriteRemoteType DEF TypeOK
  <2> QED BY <1>2, <1>6, <2>1
          DEF Terminate, TypeOK, FilesOK, BooksOK, FlagsOK, ActorsOK, WorldOK
<1>7. CASE /\ v = "copy" => Exists(cache[p])
           /\ WriteRemote(p, written)
           /\ known' = IF mounted THEN [known EXCEPT ![p] = Version(written)] ELSE known
           /\ StampFromRemote(p, written)
           /\ Become(t, [th[t] EXCEPT !.pc = "finish"])
  <2>1. remote' \in [Paths -> Node] /\ under' \in [Paths -> Node]
    BY <1>1, <1>4, <1>7, WriteRemoteType DEF TypeOK
  <2>2. known' \in [Paths -> [node : Node, at : Nat]]
    BY <1>4, <1>7 DEF Version, TypeOK, FilesOK, WorldOK
  <2>3. cache' \in [Paths -> Node]
    BY <1>1, <1>4, <1>7, StampedType DEF StampFromRemote, TypeOK, FilesOK, FlagsOK
  <2>4. up' \in BOOLEAN
    BY <1>7 DEF StampFromRemote
  <2>5. th' \in [Syncers -> ThreadState]
    BY <1>1, <1>7, FinishedType, BecomeType DEF TypeOK
  <2> QED BY <1>2, <2>1, <2>2, <2>3, <2>4, <2>5
          DEF TypeOK, FilesOK, BooksOK, FlagsOK, ActorsOK, WorldOK
<1> QED BY <1>2, <1>5, <1>6, <1>7

\* DeleteFile keeps the types.
LEMMA ApplyUnlinkType ==
  ASSUME TypeOK, NEW t \in Syncers, ApplyUnlink(t)
  PROVE  TypeOK'
<1> DEFINE p == th[t].entry.path
<1>1. th[t].pc = "apply" /\ p \in Paths
  BY ThreadProperties DEF ApplyUnlink, TypeOK, Entry
<1>2. Absent \in Node
  BY DEF Node
<1>3. \/ UNCHANGED <<remote, under, known>>
      \/ /\ WriteRemote(p, Absent)
         /\ known' = IF mounted THEN [known EXCEPT ![p] = Version(Absent)] ELSE known
  BY DEF ApplyUnlink
<1>4. th' \in [Syncers -> ThreadState]
  BY <1>1, FinishedType, BecomeType DEF ApplyUnlink, TypeOK
<1> HIDE DEF p
<1>5. /\ remote' \in [Paths -> Node] /\ under' \in [Paths -> Node]
      /\ known' \in [Paths -> [node : Node, at : Nat]]
  <2>1. CASE UNCHANGED <<remote, under, known>>
    BY <2>1 DEF TypeOK, FilesOK
  <2>2. CASE /\ WriteRemote(p, Absent)
             /\ known' = IF mounted THEN [known EXCEPT ![p] = Version(Absent)] ELSE known
    BY <1>1, <1>2, <2>2, WriteRemoteType DEF Version, TypeOK, FilesOK, WorldOK
  <2> QED BY <1>3, <2>1, <2>2
<1> QED BY <1>4, <1>5 DEF ApplyUnlink, TypeOK, FilesOK, BooksOK, FlagsOK, ActorsOK, WorldOK

\* removemtime and RemoveEntry keep the types.
LEMMA FinishEntryType ==
  ASSUME TypeOK, NEW t \in Syncers, FinishEntry(t)
  PROVE  TypeOK'
<1>1. th[t].todo \in Seq(Section)
  BY ThreadProperties DEF FinishEntry, TypeOK
<1>2. th' \in [Syncers -> ThreadState]
  BY <1>1, InPassType, BecomeType DEF FinishEntry, TypeOK
<1>3. log' \in Seq(Piece)
  BY RemoveResultsCopies DEF FinishEntry, Copies, TypeOK, BooksOK
<1> QED BY <1>2, <1>3 DEF FinishEntry, TypeOK, FilesOK, BooksOK, FlagsOK, ActorsOK, WorldOK

\* setsync(true) after a pass keeps the types.
LEMMA EndPassType ==
  ASSUME TypeOK, NEW t \in Syncers, EndPass(t)
  PROVE  TypeOK'
<1>1. th' \in [Syncers -> ThreadState]
  BY IdleType, BecomeType DEF EndPass, TypeOK
<1> QED BY <1>1 DEF EndPass, TypeOK, FilesOK, BooksOK, FlagsOK, ActorsOK, WorldOK

\* Other users, the clock, the network and restarts keep the types.
LEMMA EnvStepType ==
  ASSUME TypeOK, EnvStep
  PROVE  TypeOK'
<1> USE DEF TypeOK
<1>1. ASSUME NEW p \in Paths, ServerEdit(p) PROVE TypeOK'
  <2>1. [by |-> "server", mtime |-> now] \in Node
    BY NewNode DEF WorldOK, Writers
  <2>2. FilesOK'
    BY <1>1, <2>1 DEF ServerEdit, FilesOK
  <2>3. WorldOK'
    BY <1>1 DEF ServerEdit, WorldOK
  <2> QED BY <1>1, <2>2, <2>3 DEF ServerEdit, BooksOK, FlagsOK, ActorsOK
<1>2. ASSUME NEW p \in Paths, ServerDelete(p) PROVE TypeOK'
  <2>1. Absent \in Node
    BY DEF Node
  <2>2. FilesOK'
    BY <1>2, <2>1 DEF ServerDelete, FilesOK
  <2>3. WorldOK'
    BY <1>2 DEF ServerDelete, WorldOK
  <2> QED BY <1>2, <2>2, <2>3 DEF ServerDelete, BooksOK, FlagsOK, ActorsOK
<1>3. CASE Tick
  BY <1>3 DEF Tick, FilesOK, BooksOK, FlagsOK, ActorsOK, WorldOK
<1>4. CASE ServerLost \/ ServerBack
  BY <1>4 DEF ServerLost, ServerBack, FilesOK, BooksOK, FlagsOK, ActorsOK, WorldOK
<1>5. CASE SetUnavailable
  <2>1. FlagsOK'
    BY <1>5 DEF SetUnavailable, FlagsOK
  <2>2. WorldOK'
    BY <1>5 DEF SetUnavailable, WorldOK
  <2> QED BY <1>5, <2>1, <2>2 DEF SetUnavailable, FilesOK, BooksOK, ActorsOK
<1>6. CASE Crash
  BY <1>6 DEF Crash, Terminate, FilesOK, BooksOK, FlagsOK, ActorsOK, WorldOK
<1>7. CASE Restart
  <2>1. mtimes' \in [Paths -> Nat] /\ conflicts' \subseteq Paths
    BY <1>7 DEF Restart, ReadBackConflicts, BooksOK
  <2>2. handle' \in [Paths -> Handle]
    BY <1>7 DEF Restart, Closed, Handle
  <2>3. req' \in [Paths -> RequestState]
    BY <1>7 DEF Restart, RequestState
  <2>4. th' \in [Syncers -> ThreadState]
    BY <1>7, IdleType DEF Restart
  <2>5. FlagsOK'
    BY <1>7 DEF Restart, FlagsOK
  <2>6. WorldOK'
    BY <1>7 DEF Restart, WorldOK
  <2>7. FilesOK' /\ BooksOK'
    BY <1>7, <2>1 DEF Restart, FilesOK, BooksOK
  <2> QED BY <2>2, <2>3, <2>4, <2>5, <2>6, <2>7 DEF ActorsOK
<1> QED BY <1>1, <1>2, <1>3, <1>4, <1>5, <1>6, <1>7 DEF EnvStep

\* Every step of a request keeps the types.
LEMMA RequestStepType ==
  ASSUME TypeOK, RequestStep
  PROVE  TypeOK'
<1>1. ASSUME NEW p \in Paths, NEW op \in {"open", "truncate", "unlink"}, UpdateCache(p, op, {})
      PROVE  TypeOK'
  BY <1>1, UpdateCacheType
<1>2. ASSUME NEW p \in Paths, NEW q \in Paths, UpdateCache(p, "rename", {q})
      PROVE  TypeOK'
  BY <1>2, UpdateCacheType
<1>3. ASSUME NEW p \in Paths,
             \/ Fetch(p) \/ op_create(p) \/ op_open(p) \/ op_release(p) \/ op_truncate(p)
             \/ op_ftruncate(p) \/ op_unlink(p)
      PROVE  TypeOK'
  BY <1>3, FetchType, CreateType, OpenType, ReleaseType, TruncateType, FtruncateType,
     UnlinkType
<1>4. ASSUME NEW p \in Paths,
             \/ GetEntriesOfPath(p) \/ RemoveEarlierEntry(p) \/ AppendEntry(p)
             \/ LoadIndex(p) \/ StoreIndex(p)
      PROVE  TypeOK'
  BY <1>4, GetEntriesType, RemoveEarlierType, AppendType, LoadIndexType, StoreIndexType
<1> QED BY <1>1, <1>2, <1>3, <1>4, WriteType, RenameType, ResolveType, LookupTerminatesType
        DEF RequestStep

\* Every step of a synchronising thread keeps the types.
LEMMA SyncStepType ==
  ASSUME TypeOK, SyncStep
  PROVE  TypeOK'
BY StartLazywriteType, SetAvailableType, MountShareType, ListEntriesType, TakeEntryType,
   CheckEntryType, ApplyWriteType, ApplyUnlinkType, FinishEntryType, EndPassType
   DEF SyncStep, Syncing

\* Every value the program computes stays of the kind its next step expects.
THEOREM TypeCorrect == Spec => []TypeOK
<1>1. Init => TypeOK
  BY InitType
<1>2. TypeOK /\ [Next]_vars => TypeOK'
  <2> SUFFICES ASSUME TypeOK, [Next]_vars PROVE TypeOK'
    OBVIOUS
  <2>1. CASE RequestStep
    BY <2>1, RequestStepType
  <2>2. CASE SyncStep
    BY <2>2, SyncStepType
  <2>3. CASE EnvStep
    BY <2>3, EnvStepType
  <2>4. CASE UNCHANGED vars
    BY <2>4 DEF vars, TypeOK, FilesOK, BooksOK, FlagsOK, ActorsOK, WorldOK
  <2> QED BY <2>1, <2>2, <2>3, <2>4 DEF Next
<1> QED BY <1>1, <1>2, PTL DEF Spec
================================================================================
