---------------------------- MODULE OfflineFS_safety ----------------------------
(****************************************************************************)
(* What a single offline session of OfflineFS promises the other users of   *)
(* the server, for every length of the session and every bound.  Type       *)
(* correctness is proved in OfflineFS_proofs.                               *)
(****************************************************************************)
EXTENDS OfflineFS_proofs

USE DEF files, books, net, world

(****************************************************************************)
(* One session: the application works offline on one file, once, and the    *)
(* share is then set available again and stays so.  A pass that sees a log  *)
(* it can parse sees the first change and nothing else, because RemoveEntry *)
(* tears the only entry of a log; so what the first change saved is what    *)
(* the pass compares with the server.  Of the other conditions none can go: *)
(* with a second file, a second thread, a second disconnection, a server    *)
(* that stops answering, requests while the share is available, or          *)
(* truncation, which saves no base time, TLC finds a pass that overwrites   *)
(* an edit it knows nothing of.                                             *)
(****************************************************************************)
OneSession ==
  /\ \E p : Paths = {p}
  /\ Syncers = {"net"}
  /\ WorkOnline = FALSE /\ MayLoseServer = FALSE
  /\ MaxDisconnects = 1
  /\ Requests \cap {"truncate", "ftruncate"} = {}

Net == th["net"]

\* The pass has not read the log yet.
Ahead == used.disconnects = 0 \/ available = FALSE \/ Net.pc \in {"mount", "list"}

\* The server's file as the client found it when the share was mounted.
Fetched(p) ==
  /\ known[p].node \in {Absent, [by |-> "server", mtime |-> 2]}
  /\ used.edits = 0 => remote[p] = known[p].node

\* A first change of this type has saved what a pass has to know.
Waits(p, type) ==
  /\ Fetched(p)
  /\ IF type = "c" THEN known[p].node = Absent
     ELSE known[p].node # Absent /\ mtimes[p] \in 2 .. known[p].at

\* No change has been logged; a write that logs nothing may have saved the time.
NothingChanged(p) ==
  /\ log = <<>> /\ req[p] = NoReq
  /\ Fetched(p)
  /\ handle[p].open => handle[p].fdc = "cache" /\ Exists(cache[p])
  /\ IF Exists(cache[p]) THEN known[p].node # Absent /\ BaseTime(p) \in 2 .. known[p].at
                         ELSE known[p].node = Absent

\* Before the disconnection the application does nothing.
Untouched(p) == NothingChanged(p) /\ mtimes[p] = 0

Adding(p) == Len(req[p].adds) = 1 /\ req[p].adds[1].path = p

\* The first change is being logged.
FirstUnderWay(p) ==
  /\ log = <<>> /\ req[p].stage \in {"scan", "remove"}
  /\ Adding(p) /\ Waits(p, req[p].adds[1].type)
  /\ req[p].first = "none" /\ IsExhausted(req[p].mine)

\* The log is the first change; a second one may be on its way.
FirstLogged(p) ==
  /\ Len(log) = 1 /\ log[1].state = "full"
  /\ log[1].entry.path = p /\ Waits(p, log[1].entry.type)
  /\ req[p] # NoReq => Adding(p)
  /\ req[p].stage = "remove" => req[p].mine = <<log[1].entry>>

\* The second change has torn it, for good.
LogTorn(p) == ~Parses(log) /\ (req[p].stage = "remove" => IsExhausted(req[p].mine))

Recorded(p) == NothingChanged(p) \/ FirstUnderWay(p) \/ FirstLogged(p) \/ LogTorn(p)

\* What the pass has in its hands.
PassSees(p) ==
  /\ Net.pc = "next" =>
       \/ Net.todo = <<>>
       \/ Len(Net.todo) = 1 /\ Net.todo[1].path = p /\ Waits(p, Net.todo[1].type)
  /\ Net.pc \in {"check", "apply", "finish"} => Net.todo = <<>>
  /\ Net.pc = "check" => Waits(p, Net.entry.type)

OneDisconnection ==
  /\ reachable = TRUE
  /\ used.disconnects \in {0, 1}
  /\ available = FALSE => used.disconnects = 1
  /\ Net # Idle => available = TRUE /\ used.disconnects = 1
  /\ Net.pc \notin {"idle", "mount"} => mounted = TRUE

\* No request has been looked up while the share was available.
InSession(p) ==
  /\ req[p].stage \notin {"fetch", "fetched"}
  /\ handle[p].avail = FALSE /\ handle[p].fdr = FALSE
  /\ used.disconnects = 0 => Untouched(p)
  /\ Ahead => Recorded(p)
  /\ PassSees(p)

SessionInv ==
  /\ OneDisconnection
  /\ NoFalseConflict
  /\ \A p \in Paths : InSession(p)

\* There is one file.
LEMMA OneFile ==
  ASSUME OneSession, NEW p \in Paths, NEW q \in Paths
  PROVE  q = p
BY DEF OneSession

\* A pass that has read the log is not ahead of it.
LEMMA PassAtWork ==
  ASSUME OneDisconnection, Ahead
  PROVE  Net.pc \notin {"next", "check", "apply", "finish"}
BY DEF OneDisconnection, Ahead, Idle

\* While the application works, no pass is under way.
LEMMA WorkingOffline ==
  ASSUME OneSession, SessionInv, NEW p \in Paths, NEW op, Asked(op, p)
  PROVE  /\ op \in Requests /\ req[p] = NoReq /\ available = FALSE
         /\ used.disconnects = 1 /\ Ahead /\ Recorded(p)
         /\ handle[p].avail = FALSE /\ handle[p].fdr = FALSE
<1>1. op \in Requests /\ req[p] = NoReq /\ available = FALSE
  BY DEF OneSession, Asked, Free
<1>2. Ahead /\ used.disconnects = 1
  BY <1>1 DEF Ahead, SessionInv, OneDisconnection
<1> QED BY <1>1, <1>2 DEF SessionInv, InSession

\* A step of the application: what it has to keep.
LEMMA ApplicationStep ==
  ASSUME TypeOK, OneSession, SessionInv, NEW p \in Paths,
         UNCHANGED <<th, used, net, conflicts, known, remote>>,
         req'[p].stage \notin {"fetch", "fetched"},
         handle'[p].avail = FALSE, handle'[p].fdr = FALSE,
         used.disconnects = 0 => Untouched(p)',
         Ahead => Recorded(p)',
         ~Ahead => mtimes' = mtimes
  PROVE  SessionInv'
<1>1. OneDisconnection' /\ NoFalseConflict'
  BY DEF SessionInv, OneDisconnection, NoFalseConflict, Net
<1>2. InSession(p)
  BY DEF SessionInv
<1>3. Net' = Net /\ Ahead' = Ahead
  BY DEF Net, Ahead
<1>4. Net.pc \in {"next", "check"} => mtimes' = mtimes
  BY PassAtWork DEF SessionInv
<1>5. \A type : Net.pc \in {"next", "check"} /\ Waits(p, type) => Waits(p, type)'
  BY <1>4 DEF Waits, Fetched
<1>6. PassSees(p)'
  BY <1>2, <1>3, <1>5 DEF InSession, PassSees
<1>7. InSession(p)'
  BY <1>3, <1>6 DEF InSession
<1> QED BY <1>1, <1>7, OneFile DEF SessionInv

\* A request that logs a change to the file.
LEMMA LogsOne ==
  ASSUME TypeOK, NEW op, NEW p \in Paths, NEW type \in ModType,
         Logs(p, op, <<Add(p, type)>>, {})
  PROVE  /\ Adding(p)' /\ req'[p].adds[1].type = type
         /\ req'[p].first = "none" /\ IsExhausted(req'[p].mine) /\ req'[p].stage = "scan"
<1>1. req'[p] = Request(op, <<Add(p, type)>>, {})
  BY DEF Logs, TypeOK, ActorsOK
<1> QED BY <1>1 DEF Request, Add, Adding, IsExhausted

\* savemtime does not touch a time that is there.
LEMMA SavemtimeKeeps ==
  ASSUME mtimes \in [Paths -> Nat], NEW p \in Paths, savemtime(p),
         NEW q \in Paths, mtimes[q] # 0
  PROVE  mtimes'[q] = mtimes[q]
BY DEF savemtime

\* The first change to a file saves the time it has, unless one was saved.
LEMMA FirstChangeSaves ==
  ASSUME TypeOK, NEW p \in Paths, NothingChanged(p), Exists(cache[p]), savemtime(p)
  PROVE  mtimes'[p] = BaseTime(p) /\ mtimes'[p] \in 2 .. known[p].at
<1>1. mtimes \in [Paths -> Nat]
  BY DEF TypeOK, BooksOK
<1>2. BaseTime(p) \in 2 .. known[p].at
  BY DEF NothingChanged
<1> QED BY <1>1, <1>2 DEF savemtime, BaseTime

\* What has been recorded of a file with a logged change stays when another
\* request begins.
LEMMA RecordedKept ==
  ASSUME TypeOK, NEW p \in Paths, UNCHANGED <<log, known, remote, used>>,
         FirstLogged(p) \/ LogTorn(p),
         mtimes[p] # 0 => mtimes'[p] = mtimes[p],
         \/ req'[p] = req[p] \/ req'[p] = NoReq
         \/ Adding(p)' /\ req'[p].stage = "scan"
  PROVE  FirstLogged(p)' \/ LogTorn(p)'
<1>1. CASE LogTorn(p)
  BY <1>1 DEF LogTorn, NoReq
<1>2. CASE FirstLogged(p)
  <2>1. Waits(p, log[1].entry.type)'
    <3>1. Waits(p, log[1].entry.type) /\ known \in [Paths -> [node : Node, at : Nat]]
      BY <1>2 DEF FirstLogged, TypeOK, FilesOK
    <3>2. Fetched(p)'
      BY <3>1 DEF Waits, Fetched
    <3>3. mtimes[p] \in 2 .. known[p].at => mtimes'[p] = mtimes[p]
      BY <3>1
    <3> QED BY <3>1, <3>2, <3>3 DEF Waits
  <2>2. /\ req'[p] # NoReq => Adding(p)'
        /\ req'[p].stage = "remove" => req'[p].mine = <<log[1].entry>>
    BY <1>2 DEF FirstLogged, Adding, NoReq
  <2> QED BY <1>2, <2>1, <2>2 DEF FirstLogged
<1> QED BY <1>1, <1>2

\* OFSFile::op_create.
LEMMA CreateSession ==
  ASSUME TypeOK, OneSession, SessionInv, NEW p \in Paths, op_create(p)
  PROVE  SessionInv'
<1>1. /\ req[p] = NoReq /\ available = FALSE /\ used.disconnects = 1 /\ Ahead /\ Recorded(p)
  BY WorkingOffline DEF op_create, Lookup
<1>2. /\ cache[p] = Absent
      /\ cache' = [cache EXCEPT ![p] = [by |-> "nobody", mtime |-> now]]
      /\ known' = known
      /\ handle' = [handle EXCEPT ![p] = Opened(available, "cache", FALSE)]
  BY <1>1 DEF op_create, Seen
<1>3. /\ Logs(p, "create", <<Add(p, "c")>>, {})
      /\ UNCHANGED <<remote, books, net, th, used>>
  BY DEF op_create
<1>4. handle'[p].avail = FALSE /\ handle'[p].fdr = FALSE
  BY <1>1, <1>2 DEF TypeOK, ActorsOK, Opened
<1>5. /\ Adding(p)' /\ req'[p].adds[1].type = "c"
      /\ req'[p].first = "none" /\ IsExhausted(req'[p].mine) /\ req'[p].stage = "scan"
  BY <1>3, LogsOne DEF ModType
<1>6. Recorded(p)'
  <2>1. CASE NothingChanged(p)
    <3>1. Fetched(p)' /\ known'[p].node = Absent /\ log' = <<>>
      BY <1>2, <1>3, <2>1 DEF NothingChanged, Fetched, Exists
    <3>2. FirstUnderWay(p)'
      BY <1>5, <3>1 DEF FirstUnderWay, Waits
    <3> QED BY <3>2 DEF Recorded
  <2>2. CASE FirstLogged(p) \/ LogTorn(p)
    BY <1>2, <1>3, <1>5, <2>2, RecordedKept DEF Recorded
  <2> QED BY <1>1, <2>1, <2>2 DEF Recorded, FirstUnderWay, NoReq
<1>7. used.disconnects = 0 => Untouched(p)'
  BY <1>1
<1> QED BY <1>1, <1>2, <1>3, <1>4, <1>5, <1>6, <1>7, ApplicationStep

\* In the session no request fetches the remote file.
LEMMA NeverFetched ==
  ASSUME OneSession, SessionInv, NEW p \in Paths, NEW op, NEW onto, Updated(p, op, onto)
  PROVE  Lookup(op, p)
<1>1. req[p] # Fetching("fetched", op, onto)
  BY DEF SessionInv, InSession, Fetching
<1> QED BY <1>1 DEF Updated

\* OFSFile::op_open.
LEMMA OpenSession ==
  ASSUME TypeOK, OneSession, SessionInv, NEW p \in Paths, op_open(p)
  PROVE  SessionInv'
<1>1. /\ req[p] = NoReq /\ available = FALSE /\ used.disconnects = 1 /\ Ahead /\ Recorded(p)
  BY NeverFetched, WorkingOffline DEF op_open, Lookup
<1>2. /\ Exists(cache[p])
      /\ cache' = cache /\ known' = known
      /\ handle' = [handle EXCEPT ![p] = Opened(FALSE, "cache", FALSE)]
      /\ UNCHANGED <<remote, books, net, th, used>>
  <2>1. Avail(p) = FALSE
    BY <1>1 DEF Avail
  <2> QED BY <2>1 DEF op_open
<1>3. /\ handle'[p].avail = FALSE /\ handle'[p].fdr = FALSE /\ handle'[p].fdc = "cache"
      /\ req'[p] = NoReq
  BY <1>2 DEF op_open, Ends, TypeOK, ActorsOK, Opened
<1>4. Recorded(p)'
  <2>1. CASE NothingChanged(p)
    <3>1. NothingChanged(p)'
      BY <1>2, <1>3, <2>1 DEF NothingChanged, Fetched, BaseTime
    <3> QED BY <3>1 DEF Recorded
  <2>2. CASE FirstLogged(p) \/ LogTorn(p)
    BY <1>2, <1>3, <2>2, RecordedKept DEF Recorded
  <2> QED BY <1>1, <2>1, <2>2 DEF Recorded, FirstUnderWay, NoReq
<1>5. used.disconnects = 0 => Untouched(p)'
  BY <1>1
<1>6. req'[p].stage \notin {"fetch", "fetched"}
  BY <1>3 DEF NoReq
<1> QED BY <1>1, <1>2, <1>3, <1>4, <1>5, <1>6, ApplicationStep

\* OFSFile::op_write.
LEMMA WriteSession ==
  ASSUME TypeOK, OneSession, SessionInv, NEW p \in Paths, NEW offset, op_write(p, offset)
  PROVE  SessionInv'
<1>1. /\ req[p] = NoReq /\ available = FALSE /\ used.disconnects = 1 /\ Ahead /\ Recorded(p)
      /\ handle[p].avail = FALSE /\ handle[p].fdr = FALSE
  BY WorkingOffline DEF op_write
<1>2. /\ handle[p].open
      /\ savemtime(p)
      /\ cache' = IF handle[p].fdc = "cache"
                  THEN [cache EXCEPT ![p] = [by |-> "user", mtime |-> now]] ELSE cache
      /\ UNCHANGED <<remote, known, log, conflicts, net, handle, th, used>>
  BY <1>1 DEF op_write
<1>3. Logs(p, "write", <<Add(p, "m")>>, {}) \/ req' = req
  BY DEF op_write
<1>4. Recorded(p)'
  <2>1. CASE NothingChanged(p)
    <3>1. Exists(cache[p]) /\ cache' = [cache EXCEPT ![p] = [by |-> "user", mtime |-> now]]
      BY <1>2, <2>1 DEF NothingChanged
    <3>2. mtimes'[p] = BaseTime(p) /\ mtimes'[p] \in 2 .. known[p].at
      BY <1>2, <2>1, <3>1, FirstChangeSaves
    <3>3. Fetched(p)' /\ known'[p].node # Absent
      BY <1>2, <2>1, <3>1 DEF NothingChanged, Fetched
    <3>4. CASE Logs(p, "write", <<Add(p, "m")>>, {})
      <4>1. /\ Adding(p)' /\ req'[p].adds[1].type = "m" /\ req'[p].stage = "scan"
            /\ req'[p].first = "none" /\ IsExhausted(req'[p].mine)
        BY <3>4, LogsOne DEF ModType
      <4>2. FirstUnderWay(p)'
        BY <1>2, <2>1, <3>2, <3>3, <4>1 DEF FirstUnderWay, Waits, NothingChanged
      <4> QED BY <4>2 DEF Recorded
    <3>5. CASE req' = req
      <4>1. Exists(cache'[p])
        BY <3>1 DEF Exists, Absent, TypeOK, FilesOK
      <4>2. BaseTime(p)' \in 2 .. known'[p].at
        <5>1. mtimes'[p] # 0
          BY <3>2
        <5> QED BY <1>2, <3>2, <5>1 DEF BaseTime
      <4>3. NothingChanged(p)'
        BY <1>2, <2>1, <3>3, <3>5, <4>1, <4>2 DEF NothingChanged
      <4> QED BY <4>3 DEF Recorded
    <3> QED BY <1>3, <3>4, <3>5
  <2>2. CASE FirstLogged(p) \/ LogTorn(p)
    <3>1. mtimes[p] # 0 => mtimes'[p] = mtimes[p]
      BY <1>2, SavemtimeKeeps DEF TypeOK, BooksOK
    <3>2. \/ req' = req
          \/ Adding(p)' /\ req'[p].stage = "scan"
      BY <1>3, LogsOne DEF ModType
    <3> QED BY <1>2, <2>2, <3>1, <3>2, RecordedKept DEF Recorded
  <2> QED BY <1>1, <2>1, <2>2 DEF Recorded, FirstUnderWay, NoReq
<1>5. used.disconnects = 0 => Untouched(p)'
  BY <1>1
<1>6. req'[p].stage \notin {"fetch", "fetched"}
  <2>1. req' = req \/ req'[p].stage = "scan"
    BY <1>3, LogsOne DEF ModType
  <2> QED BY <1>1, <2>1 DEF NoReq
<1> QED BY <1>1, <1>2, <1>4, <1>5, <1>6, ApplicationStep

\* OFSFile::op_unlink.
LEMMA UnlinkSession ==
  ASSUME TypeOK, OneSession, SessionInv, NEW p \in Paths, op_unlink(p)
  PROVE  SessionInv'
<1>1. /\ req[p] = NoReq /\ available = FALSE /\ used.disconnects = 1 /\ Ahead /\ Recorded(p)
      /\ handle[p].avail = FALSE /\ handle[p].fdr = FALSE
  BY NeverFetched, WorkingOffline DEF op_unlink, Lookup
<1>2. /\ Exists(cache[p])
      /\ savemtime(p)
      /\ known' = known
      /\ handle' = [handle EXCEPT ![p] = Orphan(handle[p])]
      /\ UNCHANGED <<remote, log, conflicts, net, th, used>>
  <2>1. Avail(p) = FALSE
    BY <1>1 DEF Avail
  <2> QED BY <2>1 DEF op_unlink
<1>3. Logs(p, "unlink", <<Add(p, "d")>>, {})
  BY DEF op_unlink
<1>4. handle'[p].avail = FALSE /\ handle'[p].fdr = FALSE
  BY <1>1, <1>2 DEF TypeOK, ActorsOK, Orphan, Handle
<1>5. /\ Adding(p)' /\ req'[p].adds[1].type = "d"
      /\ req'[p].first = "none" /\ IsExhausted(req'[p].mine) /\ req'[p].stage = "scan"
  BY <1>3, LogsOne DEF ModType
<1>6. Recorded(p)'
  <2>1. CASE NothingChanged(p)
    <3>1. mtimes'[p] \in 2 .. known[p].at
      BY <1>2, <2>1, FirstChangeSaves
    <3>2. Fetched(p)' /\ known'[p].node # Absent /\ log' = <<>>
      BY <1>2, <2>1 DEF NothingChanged, Fetched
    <3>3. FirstUnderWay(p)'
      BY <1>2, <1>5, <3>1, <3>2 DEF FirstUnderWay, Waits
    <3> QED BY <3>3 DEF Recorded
  <2>2. CASE FirstLogged(p) \/ LogTorn(p)
    <3>1. mtimes[p] # 0 => mtimes'[p] = mtimes[p]
      BY <1>2, SavemtimeKeeps DEF TypeOK, BooksOK
    <3> QED BY <1>2, <1>5, <2>2, <3>1, RecordedKept DEF Recorded
  <2> QED BY <1>1, <2>1, <2>2 DEF Recorded, FirstUnderWay, NoReq
<1>7. used.disconnects = 0 => Untouched(p)'
  BY <1>1
<1> QED BY <1>1, <1>2, <1>4, <1>5, <1>6, <1>7, ApplicationStep

\* OFSFile::op_release: the file was opened offline, so no time is stamped.
LEMMA ReleaseSession ==
  ASSUME TypeOK, OneSession, SessionInv, NEW p \in Paths, op_release(p)
  PROVE  SessionInv'
<1>1. /\ req[p] = NoReq /\ handle[p].avail = FALSE
      /\ used.disconnects = 0 => Untouched(p)
      /\ Ahead => Recorded(p)
  BY DEF op_release, Free, SessionInv, InSession
<1>2. /\ cache' = cache
      /\ handle' = [handle EXCEPT ![p] = Closed]
      /\ UNCHANGED <<remote, known, books, net, req, th, used>>
  BY <1>1 DEF op_release, Stamped, TypeOK, FilesOK
<1>3. /\ handle'[p].open = FALSE /\ handle'[p].avail = FALSE /\ handle'[p].fdr = FALSE
  BY <1>2 DEF TypeOK, ActorsOK, Closed
<1>4. ASSUME NothingChanged(p) PROVE NothingChanged(p)'
  BY <1>2, <1>3, <1>4 DEF NothingChanged, Fetched, BaseTime
<1>5. ASSUME Recorded(p) PROVE Recorded(p)'
  <2>1. CASE FirstLogged(p) \/ LogTorn(p)
    BY <1>2, <2>1, RecordedKept DEF Recorded
  <2> QED BY <1>1, <1>4, <1>5, <2>1 DEF Recorded, FirstUnderWay, NoReq
<1>6. used.disconnects = 0 => Untouched(p)'
  BY <1>1, <1>2, <1>4 DEF Untouched
<1>7. req'[p].stage \notin {"fetch", "fetched"}
  BY <1>1, <1>2 DEF NoReq
<1> QED BY <1>1, <1>2, <1>3, <1>5, <1>6, <1>7, ApplicationStep

\* A list whose elements are not there has nothing to remove; one that has a
\* single, listed element has that.
LEMMA SingleList ==
  ASSUME NEW s \in Seq(Section), NEW i \in DOMAIN s, IsNext(s, i), Len(s) = 1
  PROVE  i = 1 /\ Rest(s, i) = <<>> /\ IsExhausted(Rest(s, i))
<1>1. i = 1
  OBVIOUS
<1>2. Rest(s, 1) = <<>>
  BY DEF Rest
<1> QED BY <1>1, <1>2 DEF IsExhausted

\* A log of one whole entry: its list is that entry, removing it leaves a fragment.
LEMMA SingleLog ==
  ASSUME NEW file \in Seq(Piece), Len(file) = 1, file[1].state = "full"
  PROVE  /\ Parses(file)
         /\ Sections(file) = <<file[1].entry>>
         /\ SectionsOf(file, file[1].entry.path) = <<file[1].entry>>
         /\ \A f \in RemoveResults(file, file[1].entry.number) : ~Parses(f)
<1>1. DOMAIN file = {1} /\ file[1] \in Piece /\ file[1].entry \in Entry /\ Whole(file[1])
  <2>1. DOMAIN file = {1} /\ file[1] \in Piece
    <3> HIDE DEF Piece
    <3>1. DOMAIN file = 1 .. Len(file) /\ 1 .. 1 = {1}
      OBVIOUS
    <3>2. \A i \in DOMAIN file : file[i] \in Piece
      OBVIOUS
    <3> QED BY <3>1, <3>2
  <2> QED BY <2>1 DEF Piece, Whole
<1>2. Parses(file)
  BY <1>1 DEF Parses
<1>3. SameTitle(file, 1) = {1}
  BY <1>1 DEF SameTitle
<1>4. LastOf({1}) = 1
  BY DEF LastOf
<1>5. Sections(file) = <<file[1].entry>>
  <2>1. ~\E j \in SameTitle(file, 1) : j < 1
    BY <1>3
  <2>2. Sections(file) = [i \in {1} |-> file[1].entry]
    BY <1>1, <1>3, <1>4, <2>1 DEF Sections
  <2> QED BY <2>2
<1>6. SectionsOf(file, file[1].entry.path) = <<file[1].entry>>
  <2>1. SectionsOf(file, file[1].entry.path) = [i \in {1} |-> file[1].entry]
    BY <1>1, <1>5 DEF SectionsOf
  <2> QED BY <2>1
<1>7. ASSUME NEW f \in RemoveResults(file, file[1].entry.number)
      PROVE  ~Parses(f)
  <2>1. f \in RemovedAt(file, 1)
    BY <1>1 DEF RemoveResults
  <2> DEFINE ends == {j \in 1 .. Len(file) : Whole(file[j])}
  <2>2. ends = {1} /\ ends # {} /\ ends = {Len(file)}
    BY <1>1
  <2>3. file[Len(file)].state # "bare"
    OBVIOUS
  <2> DEFINE torn == [file[1] EXCEPT !.state = "torn"]
  <2>4. f = SubSeq(file, 1, 0) \o Cut(file, 0, "torn")
    BY <1>1, <2>1, <2>2, <2>3 DEF RemovedAt
  <2>5. torn \in Piece /\ torn.state = "torn"
    BY <1>1 DEF Piece
  <2>6. SubSeq(file, 1, 0) = <<>> /\ 0 + 1 = 1
    OBVIOUS
  <2>7. Cut(file, 0, "torn") = SubSeq(file, 1, 0) \o <<torn>>
    BY <2>6, Zenon DEF Cut
  <2> HIDE DEF torn
  <2>8. <<>> \o (<<>> \o <<torn>>) = <<torn>>
    OBVIOUS
  <2>9. f = <<torn>>
    BY <2>4, <2>6, <2>7, <2>8, Zenon
  <2> QED BY <2>5, <2>9 DEF Parses, Whole
<1> QED BY <1>2, <1>5, <1>6, <1>7

\* A log of nothing but the change of a finished AddEntry.
LEMMA NewLog ==
  ASSUME NEW n, NEW p, NEW type
  PROVE  /\ Len(Append(<<>>, NewPiece(n, p, type))) = 1
         /\ Append(<<>>, NewPiece(n, p, type))[1].state = "full"
         /\ Append(<<>>, NewPiece(n, p, type))[1].entry.path = p
         /\ Append(<<>>, NewPiece(n, p, type))[1].entry.type = type
BY DEF NewPiece

\* The change that a request of one change logs.
LEMMA OneAdd ==
  ASSUME TypeOK, NEW p \in Paths, req[p].stage \in {"scan", "remove"}, Adding(p)
  PROVE  /\ Head(req[p].adds) = req[p].adds[1] /\ Head(req[p].adds).path = p
         /\ Head(req[p].adds).type \in ModType
<1>1. req[p].adds \in Seq(Adds) /\ Len(req[p].adds) = 1
  BY LogStateFields DEF Adding, TypeOK
<1>2. Head(req[p].adds) = req[p].adds[1] /\ req[p].adds[1] \in Adds
  <2> HIDE DEF Adds
  <2> QED BY <1>1
<1> QED BY <1>2 DEF Adding, Adds

\* The entry of a log of one entry.
LEMMA FirstEntry ==
  ASSUME TypeOK, Len(log) = 1
  PROVE  log \in Seq(Piece) /\ log[1].entry \in Entry
<1>1. log \in Seq(Piece)
  BY DEF TypeOK, BooksOK
<1>2. log[1] \in Piece
  <2> HIDE DEF Piece
  <2> QED BY <1>1
<1> QED BY <1>1, <1>2 DEF Piece

\* Nothing has been recorded of a request that is not there.
LEMMA AddingEntry ==
  ASSUME SessionInv, NEW p \in Paths, req[p].stage \in {"scan", "remove", "count", "store"}
  PROVE  /\ req[p] # NoReq /\ ~NothingChanged(p) /\ used.disconnects # 0
         /\ Ahead => FirstUnderWay(p) \/ FirstLogged(p) \/ LogTorn(p)
         /\ handle[p].avail = FALSE /\ handle[p].fdr = FALSE
BY DEF SessionInv, InSession, Untouched, NothingChanged, NoReq, Recorded

\* The first change has not been removed while the log is that change.
LEMMA FirstNotExhausted ==
  ASSUME TypeOK, NEW p \in Paths, req[p].stage = "remove", IsExhausted(req[p].mine)
  PROVE  ~FirstLogged(p)
<1> SUFFICES ASSUME FirstLogged(p) PROVE FALSE
  OBVIOUS
<1>1. req[p].mine = <<log[1].entry>> /\ log[1].entry \in Entry
  BY FirstEntry DEF FirstLogged
<1> QED BY <1>1 DEF IsExhausted, IsListed, Entry, ModType

\* AddEntry reads the log: it finds nothing, the first change, or no list at all.
LEMMA GetEntriesSession ==
  ASSUME TypeOK, OneSession, SessionInv, NEW p \in Paths, GetEntriesOfPath(p)
  PROVE  SessionInv'
<1>1. /\ req[p].stage = "scan" /\ used.disconnects # 0
      /\ Ahead => FirstUnderWay(p) \/ FirstLogged(p) \/ LogTorn(p)
      /\ handle[p].avail = FALSE /\ handle[p].fdr = FALSE
      /\ req[p] \in LogState
  BY AddingEntry, LogStateFields DEF GetEntriesOfPath, TypeOK
<1>2. UNCHANGED <<files, books, net, sync, th, world>>
  BY DEF GetEntriesOfPath
<1>3. handle'[p].avail = FALSE /\ handle'[p].fdr = FALSE
  <2>1. handle' = handle \/ handle' = [handle EXCEPT ![p].fdc = "none"]
    BY DEF GetEntriesOfPath
  <2> QED BY <1>1, <2>1 DEF TypeOK, ActorsOK, Handle
<1>4. CASE Parses(log)
  <2> DEFINE mine == SectionsOf(log, Head(req[p].adds).path)
  <2>1. req'[p] = [req[p] EXCEPT !.stage = "remove", !.mine = mine]
    BY <1>4 DEF GetEntriesOfPath, TypeOK, ActorsOK
  <2>2. /\ req'[p].stage = "remove" /\ req'[p].first = req[p].first
        /\ req'[p].adds = req[p].adds /\ req'[p].mine = mine
    <3> HIDE DEF mine
    <3> QED BY <1>1, <2>1 DEF LogState
  <2>3. ASSUME FirstUnderWay(p) PROVE FirstUnderWay(p)'
    <3>1. IsExhausted(req'[p].mine)
      BY <2>2, <2>3 DEF FirstUnderWay, SectionsOf, IsExhausted
    <3> HIDE DEF mine
    <3> QED BY <1>2, <2>2, <2>3, <3>1 DEF FirstUnderWay, Adding, Waits, Fetched
  <2>4. ASSUME FirstLogged(p) PROVE FirstLogged(p)'
    <3>1. Adding(p)
      BY <1>1, <2>4 DEF FirstLogged, NoReq
    <3>2. Head(req[p].adds).path = p
      BY <1>1, <3>1, OneAdd
    <3>3. req'[p].mine = <<log[1].entry>>
      BY <2>2, <2>4, <3>2, SingleLog DEF FirstLogged, TypeOK, BooksOK
    <3> HIDE DEF mine
    <3> QED BY <1>2, <2>2, <2>4, <3>1, <3>3 DEF FirstLogged, Adding, Waits, Fetched
  <2>5. Ahead => Recorded(p)'
    BY <1>1, <1>4, <2>3, <2>4 DEF Recorded, LogTorn
  <2> QED BY <1>1, <1>2, <1>3, <2>2, <2>5, ApplicationStep
<1>5. CASE ~Parses(log)
  <2>1. req'[p] = NoReq
    BY <1>5 DEF GetEntriesOfPath, Ends, TypeOK, ActorsOK
  <2>2. LogTorn(p)'
    BY <1>2, <1>5, <2>1 DEF LogTorn, NoReq
  <2>3. req'[p].stage \notin {"fetch", "fetched"} /\ Recorded(p)'
    BY <2>1, <2>2 DEF Recorded, NoReq
  <2> QED BY <1>1, <1>2, <1>3, <2>3, ApplicationStep
<1> QED BY <1>4, <1>5

\* AddEntry removes the first change to log a second one: the log is torn.
LEMMA RemoveEarlierSession ==
  ASSUME TypeOK, OneSession, SessionInv, NEW p \in Paths, RemoveEarlierEntry(p)
  PROVE  SessionInv'
<1> DEFINE mine == req[p].mine
<1>1. /\ req[p].stage = "remove" /\ used.disconnects # 0
      /\ Ahead => FirstUnderWay(p) \/ FirstLogged(p) \/ LogTorn(p)
      /\ handle[p].avail = FALSE /\ handle[p].fdr = FALSE
      /\ req[p] \in LogState
  BY AddingEntry, LogStateFields DEF RemoveEarlierEntry, TypeOK
<1>2. UNCHANGED <<files, nextIndex, mtimes, conflicts, net, handle, th, world>>
  BY DEF RemoveEarlierEntry
<1>3. PICK i \in DOMAIN mine :
        /\ IsNext(mine, i)
        /\ log' \in RemoveResults(log, mine[i].number)
        /\ req' = [req EXCEPT
                     ![p].mine = Rest(mine, i),
                     ![p].first = IF req[p].first = "none" THEN mine[i].type
                                                           ELSE req[p].first]
  BY DEF RemoveEarlierEntry
<1>4. req'[p].mine = Rest(mine, i) /\ req'[p].stage = "remove"
  BY <1>1, <1>3 DEF LogState, TypeOK, ActorsOK
<1>5. ~IsExhausted(mine)
  BY <1>3 DEF IsExhausted, IsNext
<1>6. ASSUME FirstLogged(p) PROVE LogTorn(p)'
  <2>1. mine = <<log[1].entry>> /\ log[1].entry \in Entry
    BY <1>1, <1>6, FirstEntry DEF FirstLogged
  <2>2. i = 1 /\ Rest(mine, i) = <<>>
    BY <1>3, <2>1 DEF Rest
  <2>3. ~Parses(log')
    BY <1>3, <1>6, <2>1, <2>2, SingleLog DEF FirstLogged, TypeOK, BooksOK
  <2>4. req'[p].mine = <<>>
    BY <1>4, <2>2
  <2> QED BY <2>3, <2>4 DEF LogTorn, IsExhausted
<1>7. Ahead => Recorded(p)'
  BY <1>1, <1>5, <1>6 DEF FirstUnderWay, LogTorn, Recorded
<1> QED BY <1>1, <1>2, <1>4, <1>7, ApplicationStep

\* A request of one change ends with it.
LEMMA LastAdd ==
  ASSUME TypeOK, NEW p \in Paths, NextAdd(p)
  PROVE  /\ req'[p] = NoReq \/ req'[p].stage = "scan"
         /\ Adding(p) => req'[p] = NoReq
<1>1. req'[p] = IF Len(req[p].adds) = 1 THEN NoReq
                ELSE Request(req[p].op, Tail(req[p].adds), req[p].onto)
  BY DEF NextAdd, TypeOK, ActorsOK
<1> QED BY <1>1 DEF Request, Adding

\* AddEntry appends: the first change, or something behind a fragment.
LEMMA AppendSession ==
  ASSUME TypeOK, OneSession, SessionInv, NEW p \in Paths, AppendEntry(p)
  PROVE  SessionInv'
<1> DEFINE add  == Head(req[p].adds)
           type == Merge(req[p].first, add.type)
<1>1. /\ req[p].stage = "remove" /\ used.disconnects # 0
      /\ Ahead => FirstUnderWay(p) \/ FirstLogged(p) \/ LogTorn(p)
      /\ handle[p].avail = FALSE /\ handle[p].fdr = FALSE
      /\ IsExhausted(req[p].mine)
      /\ req[p] \in LogState
  BY AddingEntry, LogStateFields DEF AppendEntry, TypeOK
<1>2. UNCHANGED <<files, mtimes, conflicts, net, handle, th, world>>
  BY DEF AppendEntry
<1>3. CASE type = "x"
  <2>1. log' = log /\ NextAdd(p)
    BY <1>3 DEF AppendEntry
  <2>2. req'[p] = NoReq \/ req'[p].stage = "scan"
    BY <2>1, LastAdd
  <2>3. ~FirstUnderWay(p)
    <3>1. ASSUME FirstUnderWay(p) PROVE type = add.type /\ add.type \in ModType
      BY <1>1, <3>1, OneAdd DEF FirstUnderWay, Merge, MergeTable, ModType
    <3> HIDE DEF add, type
    <3> QED BY <1>3, <3>1 DEF ModType
  <2>4. ~FirstLogged(p)
    BY <1>1, FirstNotExhausted
  <2>5. LogTorn(p) => LogTorn(p)'
    BY <2>1, <2>2 DEF LogTorn, NoReq
  <2>6. Ahead => Recorded(p)'
    BY <1>1, <2>3, <2>4, <2>5 DEF Recorded
  <2>7. req'[p].stage \notin {"fetch", "fetched"}
    BY <2>2 DEF NoReq
  <2> QED BY <1>1, <1>2, <2>6, <2>7, ApplicationStep
<1>4. CASE type # "x"
  <2>1. /\ log' = Append(log, NewPiece(nextIndex, add.path, type))
        /\ req'[p] = [req[p] EXCEPT !.stage = "count"]
    BY <1>4 DEF AppendEntry, TypeOK, ActorsOK
  <2>2. req'[p].stage = "count" /\ req'[p].adds = req[p].adds
    BY <1>1, <2>1 DEF LogState
  <2>3. ASSUME FirstUnderWay(p) PROVE FirstLogged(p)'
    <3>1. add = req[p].adds[1] /\ add.path = p /\ add.type \in ModType /\ Adding(p)
      BY <1>1, <2>3, OneAdd DEF FirstUnderWay
    <3>2. type = add.type
      BY <2>3, <3>1 DEF FirstUnderWay, Merge, MergeTable, ModType
    <3>3. log' = Append(<<>>, NewPiece(nextIndex, p, type))
      BY <2>1, <2>3, <3>1 DEF FirstUnderWay
    <3> HIDE DEF add, type
    <3>4. PICK t \in ModType : t = type
      BY <3>1, <3>2
    <3>5. Waits(p, t)
      BY <2>3, <3>1, <3>2, <3>4 DEF FirstUnderWay
    <3>6. Waits(p, t)'
      BY <1>2, <3>5 DEF Waits, Fetched
    <3>7. /\ Len(log') = 1 /\ log'[1].state = "full"
          /\ log'[1].entry.path = p /\ log'[1].entry.type = t
      BY <3>3, <3>4, NewLog
    <3> QED BY <2>2, <3>1, <3>6, <3>7 DEF FirstLogged, Adding
  <2>4. ~FirstLogged(p)
    BY <1>1, FirstNotExhausted
  <2>5. ASSUME LogTorn(p) PROVE LogTorn(p)'
    <3>1. PICK i \in DOMAIN log : ~Whole(log[i])
      BY <2>5 DEF LogTorn, Parses
    <3>2. i \in DOMAIN log' /\ log'[i] = log[i]
      BY <2>1 DEF TypeOK, BooksOK
    <3> QED BY <2>2, <3>1, <3>2 DEF LogTorn, Parses
  <2>6. Ahead => Recorded(p)'
    BY <1>1, <2>3, <2>4, <2>5 DEF Recorded
  <2> QED BY <1>1, <1>2, <2>2, <2>6, ApplicationStep
<1> QED BY <1>3, <1>4

\* AddEntry counts the number up: what it appended stays.
LEMMA CountSession ==
  ASSUME TypeOK, OneSession, SessionInv, NEW p \in Paths, LoadIndex(p) \/ StoreIndex(p)
  PROVE  SessionInv'
<1>1. /\ req[p].stage \in {"count", "store"} /\ used.disconnects # 0
      /\ Ahead => FirstUnderWay(p) \/ FirstLogged(p) \/ LogTorn(p)
      /\ handle[p].avail = FALSE /\ handle[p].fdr = FALSE
      /\ req[p] \in LogState
  BY AddingEntry, LogStateFields DEF LoadIndex, StoreIndex, TypeOK
<1>2. UNCHANGED <<files, log, mtimes, conflicts, net, handle, th, world>>
  BY DEF LoadIndex, StoreIndex
<1>3. /\ req'[p].stage \in {"idle", "scan", "store"}
      /\ Adding(p) => (req'[p] = NoReq \/ Adding(p)')
  <2>1. CASE LoadIndex(p)
    <3>1. req'[p] = [req[p] EXCEPT !.stage = "store", !.index = nextIndex]
      BY <2>1 DEF LoadIndex, TypeOK, ActorsOK
    <3> QED BY <1>1, <3>1 DEF LogState, Adding
  <2>2. CASE StoreIndex(p)
    BY <2>2, LastAdd DEF StoreIndex, NoReq
  <2> QED BY <2>1, <2>2
<1>4. ASSUME FirstLogged(p) PROVE FirstLogged(p)'
  <2>1. Adding(p)
    BY <1>1, <1>4 DEF FirstLogged, NoReq
  <2> QED BY <1>2, <1>3, <1>4, <2>1 DEF FirstLogged, Waits, Fetched
<1>5. LogTorn(p) => LogTorn(p)'
  BY <1>2, <1>3 DEF LogTorn
<1>6. Ahead => Recorded(p)'
  BY <1>1, <1>4, <1>5 DEF FirstUnderWay, Recorded
<1> QED BY <1>1, <1>2, <1>3, <1>6, ApplicationStep

\* Every step of the application.
LEMMA RequestSession ==
  ASSUME TypeOK, OneSession, SessionInv, RequestStep
  PROVE  SessionInv'
<1>1. ASSUME NEW q \in Paths, op_truncate(q) \/ op_ftruncate(q) PROVE FALSE
  BY <1>1, NeverFetched DEF op_truncate, op_ftruncate, Lookup, Asked, OneSession
<1>2. ASSUME NEW q \in Paths, NEW r \in Paths, op_rename(q, r) PROVE FALSE
  BY <1>2, OneFile DEF op_rename
<1>3. ASSUME NEW q \in Paths, NEW d, resolve(q, d) PROVE FALSE
  BY <1>3 DEF resolve, Lookup, Asked, OneSession
<1>4. ASSUME NEW q \in Paths, NEW op, NEW onto, UpdateCache(q, op, onto) PROVE FALSE
  BY <1>4 DEF UpdateCache, Lookup, Asked, Fetches, OneSession
<1>5. ASSUME NEW q \in Paths, Fetch(q) PROVE FALSE
  BY <1>5 DEF Fetch, SessionInv, InSession
<1>6. ~LookupTerminates
  BY DEF LookupTerminates, OneSession
<1> QED BY <1>1, <1>2, <1>3, <1>4, <1>5, <1>6, CreateSession, OpenSession, WriteSession,
           ReleaseSession, UnlinkSession, GetEntriesSession, RemoveEarlierSession,
           AppendSession, CountSession DEF RequestStep

\* What is in order for the path is in order for the session.
LEMMA SessionFromPath ==
  ASSUME OneSession, NEW p \in Paths, OneDisconnection', NoFalseConflict', InSession(p)'
  PROVE  SessionInv'
BY OneFile DEF SessionInv

\* The pass is the one of the thread that set the share available.
LEMMA OneThread ==
  ASSUME OneSession, NEW t \in Syncers
  PROVE  t = "net" /\ th[t] = Net /\ "net" \in Syncers
BY DEF OneSession, Net

\* A step of the network thread that leaves the files of a change alone.
LEMMA RecordKept ==
  ASSUME NEW p \in Paths, UNCHANGED <<remote, cache, known, log, mtimes, req, handle, used>>
  PROVE  /\ Recorded(p) => Recorded(p)'
         /\ Untouched(p) => Untouched(p)'
         /\ \A type : Waits(p, type) => Waits(p, type)'
<1>1. Fetched(p) => Fetched(p)'
  BY DEF Fetched
<1>2. NothingChanged(p) => NothingChanged(p)'
  BY <1>1 DEF NothingChanged, BaseTime
<1>3. \A type : Waits(p, type) => Waits(p, type)'
  BY <1>1 DEF Waits
<1>4. FirstUnderWay(p) => FirstUnderWay(p)'
  BY <1>3 DEF FirstUnderWay, Adding
<1>5. FirstLogged(p) => FirstLogged(p)'
  BY <1>3 DEF FirstLogged, Adding
<1>6. LogTorn(p) => LogTorn(p)'
  BY DEF LogTorn
<1> QED BY <1>2, <1>3, <1>4, <1>5, <1>6 DEF Recorded, Untouched

\* setAvailability(true) and the mount that follows it.
LEMMA MountSession ==
  ASSUME TypeOK, OneSession, SessionInv, NEW p \in Paths, SetAvailable \/ MountShare
  PROVE  SessionInv'
<1>1. UNCHANGED <<files, books, reachable, sync, handle, req, world>>
  BY DEF SetAvailable, MountShare
<1>2. /\ Ahead /\ Ahead'
      /\ Net'.pc \notin {"next", "check", "apply", "finish"}
      /\ OneDisconnection'
  <2>1. th \in [Syncers -> ThreadState] /\ "net" \in Syncers
    BY DEF TypeOK, ActorsOK, OneSession
  <2>2. CASE SetAvailable
    <3>1. available = FALSE /\ available' = TRUE /\ Net' = InPass("mount", <<>>) /\ mounted' = mounted
      BY <2>1, <2>2 DEF SetAvailable, Become, Net
    <3> QED BY <1>1, <3>1 DEF Ahead, SessionInv, OneDisconnection, InPass
  <2>3. CASE MountShare
    <3>1. /\ Net.pc = "mount" /\ available' = available
          /\ \/ mounted' = TRUE /\ Net' = InPass("list", <<>>)
             \/ mounted' = mounted /\ Net' = Net
      BY <2>1, <2>3 DEF MountShare, Become, Net
    <3>2. Net # Idle
      BY <3>1 DEF Idle
    <3> QED BY <1>1, <3>1, <3>2 DEF Ahead, SessionInv, OneDisconnection, InPass
  <2> QED BY <2>2, <2>3
<1>3. NoFalseConflict'
  BY <1>1 DEF SessionInv, NoFalseConflict
<1>4. InSession(p)'
  <2>1. InSession(p)
    BY DEF SessionInv
  <2> QED BY <1>1, <1>2, <2>1, RecordKept DEF InSession, PassSees
<1> QED BY <1>2, <1>3, <1>4, SessionFromPath

\* A pass begins with the first change, or without any.
LEMMA ListSession ==
  ASSUME TypeOK, OneSession, SessionInv, NEW p \in Paths, ListEntries("net")
  PROVE  SessionInv'
<1>0. th \in [Syncers -> ThreadState] /\ "net" \in Syncers
  BY DEF TypeOK, ActorsOK, OneSession
<1>1. /\ UNCHANGED <<files, books, net, sync, handle, req, world>>
      /\ Net.pc = "list"
  BY DEF ListEntries, Net
<1>2. /\ Ahead /\ InSession(p) /\ Recorded(p)
      /\ available = TRUE /\ used.disconnects = 1
  BY <1>1 DEF SessionInv, Ahead, InSession, OneDisconnection, Idle
<1>3. NoFalseConflict'
  BY <1>1 DEF SessionInv, NoFalseConflict
<1>4. CASE ~Parses(log)
  <2>1. Net' = Net
    BY <1>4 DEF ListEntries, Net
  <2>2. OneDisconnection' /\ (Ahead' = Ahead)
    BY <1>1, <2>1 DEF SessionInv, OneDisconnection, Ahead
  <2>3. InSession(p)'
    BY <1>1, <1>2, <2>1, <2>2, RecordKept DEF InSession, PassSees
  <2> QED BY <1>3, <2>2, <2>3, SessionFromPath
<1>5. CASE Parses(log)
  <2>1. Net' = InPass("next", Sections(log))
    BY <1>0, <1>5 DEF ListEntries, Become, Net
  <2>2. OneDisconnection' /\ ~Ahead'
    BY <1>1, <1>2, <2>1 DEF SessionInv, OneDisconnection, Ahead, InPass, Idle
  <2>3. ASSUME log = <<>> PROVE Sections(log) = <<>>
    <3>1. Sections(log) \in Seq(Section) /\ DOMAIN Sections(log) = DOMAIN log
      BY SectionsProperties DEF TypeOK, BooksOK
    <3>2. DOMAIN Sections(log) = {}
      BY <2>3, <3>1
    <3> HIDE DEF Section
    <3> QED BY <3>1, <3>2
  <2>4. ASSUME FirstLogged(p)
        PROVE  Sections(log) = <<log[1].entry>> /\ log[1].entry.path = p
               /\ Waits(p, log[1].entry.type)
    BY <2>4, FirstEntry, SingleLog DEF FirstLogged
  <2>5. \/ Sections(log) = <<>>
        \/ Len(Sections(log)) = 1 /\ Sections(log)[1].path = p /\ Waits(p, Sections(log)[1].type)
    BY <1>2, <1>5, <2>3, <2>4 DEF Recorded, NothingChanged, FirstUnderWay, LogTorn
  <2>6. \A type : Waits(p, type) => Waits(p, type)'
    BY <1>1, RecordKept
  <2>7. /\ Net'.pc = "next"
        /\ \/ Net'.todo = <<>>
           \/ Len(Net'.todo) = 1 /\ Net'.todo[1].path = p /\ Waits(p, Net'.todo[1].type)
    BY <2>1, <2>5 DEF InPass
  <2>8. PassSees(p)'
    BY <2>6, <2>7 DEF PassSees
  <2>9. InSession(p)'
    BY <1>1, <1>2, <2>2, <2>8 DEF InSession
  <2> QED BY <1>3, <2>2, <2>9, SessionFromPath
<1> QED BY <1>4, <1>5

\* A pass that has read the log: the share stays available and mounted.
LEMMA PassInSession ==
  ASSUME SessionInv, Net.pc \in {"next", "check", "apply", "finish"}
  PROVE  /\ ~Ahead /\ reachable = TRUE /\ available = TRUE /\ mounted = TRUE
         /\ used.disconnects = 1
BY DEF SessionInv, OneDisconnection, Ahead, Idle

\* A step of that pass: what it has to keep.
LEMMA PassStep ==
  ASSUME TypeOK, OneSession, SessionInv, NEW p \in Paths,
         Net.pc \in {"next", "check", "apply", "finish"},
         UNCHANGED <<net, handle, req, used>>,
         Net' = Idle \/ Net'.pc \in {"next", "check", "apply", "finish"},
         PassSees(p)', NoFalseConflict'
  PROVE  SessionInv'
<1>1. OneDisconnection' /\ ~Ahead'
  BY PassInSession DEF SessionInv, OneDisconnection, Ahead, Idle
<1>2. used'.disconnects # 0
  <2>1. used.disconnects = 1 /\ used' = used
    BY PassInSession
  <2> QED BY <2>1
<1>3. /\ handle'[p].avail = FALSE /\ handle'[p].fdr = FALSE
      /\ req'[p].stage \notin {"fetch", "fetched"}
  BY DEF SessionInv, InSession
<1>4. InSession(p)'
  BY <1>1, <1>2, <1>3 DEF InSession
<1> QED BY <1>1, <1>4, SessionFromPath

\* give_me_file for the only entry of the list.
LEMMA TakeSession ==
  ASSUME TypeOK, OneSession, SessionInv, NEW p \in Paths, TakeEntry("net")
  PROVE  SessionInv'
<1>0. th \in [Syncers -> ThreadState] /\ "net" \in Syncers /\ ActorsOK
  BY DEF TypeOK, ActorsOK, OneSession
<1>1. /\ UNCHANGED <<files, books, net, sync, handle, req, world>>
      /\ Net.pc = "next" /\ PassSees(p)
  BY DEF TakeEntry, Net, SessionInv, InSession
<1>2. PICK i \in DOMAIN Net.todo :
        /\ IsNext(Net.todo, i)
        /\ Become("net", AtEntry("check", Rest(Net.todo, i), Net.todo[i], available, "skip"))
  BY DEF TakeEntry, Net
<1>3. Net.todo \in Seq(Section)
  BY <1>0, <1>1, ThreadProperties DEF Net
<1>4. Len(Net.todo) = 1 /\ Waits(p, Net.todo[1].type)
  BY <1>1, <1>2 DEF PassSees
<1>5. i = 1 /\ Rest(Net.todo, i) = <<>>
  BY <1>2, <1>3, <1>4, SingleList
<1>6. Net' = AtEntry("check", Rest(Net.todo, i), Net.todo[i], available, "skip")
  BY <1>0, <1>2 DEF Become, Net
<1>7. /\ Net'.pc = "check" /\ Net'.todo = <<>>
      /\ Waits(p, Net'.entry.type)
  BY <1>4, <1>5, <1>6 DEF AtEntry
<1>8. PassSees(p)'
  BY <1>1, <1>7, RecordKept DEF PassSees
<1>9. NoFalseConflict'
  BY <1>1 DEF SessionInv, NoFalseConflict
<1> QED BY <1>1, <1>7, <1>8, <1>9, PassStep

\* What the pass compares with the server is what the first change saved: it
\* reports a conflict only if the server has changed, and goes ahead only if the
\* server has at most what was there when the client fetched the file.
LEMMA VerdictInSession ==
  ASSUME TypeOK, SessionInv, NEW p \in Paths, NEW e \in Entry, e.path = p,
         mounted = TRUE, reachable = TRUE, Waits(p, e.type), NEW avail \in BOOLEAN
  PROVE  /\ Verdict(e, avail) = "conflict" => used.edits # 0
         /\ Verdict(e, avail) \in {"copy", "unlink"} => remote[p].mtime <= known[p].at
<1>1. /\ RemoteStat(p) = remote[p] /\ remote[p] \in Node /\ cache[p] \in Node
      /\ remote[p] # Unreachable
      /\ mtimes[p] \in Nat /\ known[p].at \in Nat
  BY DEF RemoteStat, TypeOK, FilesOK, BooksOK, Node, Writers, Absent, Unreachable
<1>2. /\ remote[p] # Absent => remote[p].mtime \in Nat
      /\ RemoteThere(p) <=> remote[p] # Absent
  BY <1>1 DEF Node, Absent, RemoteThere
<1>3. Fetched(p)
  BY DEF Waits
<1>4. ASSUME e.type # "c"
      PROVE  /\ known[p].node = [by |-> "server", mtime |-> 2]
             /\ mtimes[p] \in 2 .. known[p].at
             /\ ChangedOnServer(p) <=> remote[p] # Absent /\ remote[p].mtime > mtimes[p]
  <2>1. /\ known[p].node = [by |-> "server", mtime |-> 2]
        /\ mtimes[p] \in 2 .. known[p].at
    BY <1>4 DEF Waits, Fetched
  <2>2. mtimes[p] # 0
    BY <1>1, <2>1
  <2> QED BY <1>1, <1>2, <2>1, <2>2 DEF ChangedOnServer, BaseTime
<1>5. ASSUME e.type # "c", used.edits = 0
      PROVE  remote[p] # Absent /\ ~ChangedOnServer(p)
  <2>1. remote[p] = [by |-> "server", mtime |-> 2]
    BY <1>3, <1>4, <1>5 DEF Fetched
  <2> QED BY <1>1, <1>4, <1>5, <2>1 DEF Absent
<1>6. ASSUME e.type # "c", remote[p] = Absent \/ ~ChangedOnServer(p)
      PROVE  remote[p].mtime <= known[p].at
  <2>1. CASE remote[p] = Absent
    BY <1>1, <2>1 DEF Absent
  <2>2. CASE remote[p] # Absent /\ ~ChangedOnServer(p)
    BY <1>1, <1>2, <1>4, <1>6, <2>2
  <2> QED BY <1>6, <2>1, <2>2
<1>7. CASE e.type = "c"
  <2>1. VerdictCreate(p) = "conflict" => RemoteStat(p) # Absent
    BY DEF VerdictCreate
  <2>2. used.edits = 0 => remote[p] = Absent
    BY <1>3, <1>7 DEF Waits, Fetched
  <2>3. VerdictCreate(p) \in {"skip", "create", "conflict"}
    BY DEF VerdictCreate
  <2>4. Verdict(e, avail) = "skip" \/ Verdict(e, avail) = VerdictCreate(p)
    BY <1>7 DEF Verdict
  <2> QED BY <1>1, <2>1, <2>2, <2>3, <2>4
<1>8. CASE e.type = "m"
  <2>1. /\ VerdictModify(p) = "conflict" => remote[p] = Absent \/ ChangedOnServer(p)
        /\ VerdictModify(p) = "copy" => ~ChangedOnServer(p)
        /\ VerdictModify(p) # "unlink"
    BY <1>1 DEF VerdictModify
  <2>2. Verdict(e, avail) = "skip" \/ Verdict(e, avail) = VerdictModify(p)
    BY <1>8 DEF Verdict
  <2> QED BY <1>5, <1>6, <1>8, <2>1, <2>2
<1>9. CASE e.type = "d"
  <2>1. /\ VerdictDelete(p) = "conflict" => ChangedOnServer(p)
        /\ VerdictDelete(p) = "unlink" => ~ChangedOnServer(p)
        /\ VerdictDelete(p) # "copy"
    BY DEF VerdictDelete
  <2>2. Verdict(e, avail) = "skip" \/ Verdict(e, avail) = VerdictDelete(p)
    BY <1>9 DEF Verdict
  <2> QED BY <1>5, <1>6, <1>9, <2>1, <2>2
<1> QED BY <1>7, <1>8, <1>9 DEF Entry, ModType

\* has_been_modified and the conditions around it.
LEMMA CheckSession ==
  ASSUME TypeOK, OneSession, SessionInv, NEW p \in Paths, CheckEntry("net")
  PROVE  /\ SessionInv'
         /\ th'["net"].verdict \in {"copy", "unlink"} =>
              remote[th["net"].entry.path].mtime <= known[th["net"].entry.path].at
<1> DEFINE e == Net.entry
           v == Verdict(e, Net.avail)
           new == [Net EXCEPT !.verdict = v,
                              !.pc = IF v \in {"skip", "conflict"} THEN "finish" ELSE "apply"]
<1>0. th \in [Syncers -> ThreadState] /\ "net" \in Syncers /\ ActorsOK
  BY DEF TypeOK, ActorsOK, OneSession
<1>1. /\ UNCHANGED <<files, log, nextIndex, mtimes, net, sync, up, handle, req, world>>
      /\ Net.pc = "check" /\ PassSees(p)
      /\ Become("net", new)
      /\ conflicts' = IF v = "conflict" THEN conflicts \cup {e.path} ELSE conflicts
  BY DEF CheckEntry, Net, SessionInv, InSession
<1>2. Net \in [pc : {"check", "apply", "finish"}, todo : Seq(Section),
               entry : Entry, avail : BOOLEAN, verdict : Verdicts]
  BY <1>0, <1>1, ThreadProperties DEF Net
<1>3. e \in Entry /\ e.path \in Paths /\ Net.avail \in BOOLEAN /\ Waits(p, e.type) /\ Net.todo = <<>>
  BY <1>1, <1>2 DEF PassSees, Entry
<1>4. e.path = p
  BY <1>3, OneFile
<1>5. /\ v = "conflict" => used.edits # 0
      /\ v \in {"copy", "unlink"} => remote[p].mtime <= known[p].at
  BY <1>1, <1>3, <1>4, PassInSession, VerdictInSession
<1> HIDE DEF v, e
<1>6. /\ Net' = new /\ new.verdict = v /\ new.todo = <<>>
      /\ new.pc \in {"finish", "apply"}
  BY <1>0, <1>1, <1>2, <1>3 DEF Become, Net
<1> HIDE DEF new
<1>7. PassSees(p)'
  BY <1>6 DEF PassSees
<1>8. NoFalseConflict'
  BY <1>1, <1>5 DEF SessionInv, NoFalseConflict
<1>9. SessionInv'
  BY <1>1, <1>6, <1>7, <1>8, PassStep
<1>10. th'["net"].verdict = v /\ th["net"].entry.path = p
  BY <1>4, <1>6 DEF Net, e
<1> QED BY <1>5, <1>9, <1>10

\* Carrying the verdict out, dropping the entry, the end of the pass.
LEMMA WorkSession ==
  ASSUME TypeOK, OneSession, SessionInv, NEW p \in Paths,
         ApplyWrite("net") \/ ApplyUnlink("net") \/ FinishEntry("net") \/ EndPass("net")
  PROVE  SessionInv'
<1>0. th \in [Syncers -> ThreadState] /\ "net" \in Syncers /\ ActorsOK
  BY DEF TypeOK, ActorsOK, OneSession
<1>1. /\ UNCHANGED <<net, handle, req, used, conflicts>>
      /\ Net.pc \in {"apply", "finish", "next"} /\ PassSees(p)
  BY DEF ApplyWrite, ApplyUnlink, FinishEntry, EndPass, Net, SessionInv, InSession
<1>2. CASE EndPass("net")
  <2>1. Net' = Idle
    BY <1>0, <1>2 DEF EndPass, Become, Net
  <2>2. PassSees(p)'
    BY <2>1 DEF PassSees, Idle
  <2>3. NoFalseConflict'
    BY <1>1 DEF SessionInv, NoFalseConflict
  <2> QED BY <1>1, <2>1, <2>2, <2>3, PassStep
<1>3. CASE FinishEntry("net")
  <2>1. Net' = InPass("next", Net.todo) /\ Net.todo = <<>>
    BY <1>0, <1>1, <1>3 DEF FinishEntry, Become, Net, PassSees
  <2>2. Net'.pc = "next" /\ Net'.todo = <<>>
    BY <2>1 DEF InPass
  <2>3. PassSees(p)'
    BY <2>2 DEF PassSees
  <2>4. NoFalseConflict'
    BY <1>1 DEF SessionInv, NoFalseConflict
  <2> QED BY <1>1, <2>2, <2>3, <2>4, PassStep
<1>4. CASE ApplyWrite("net") \/ ApplyUnlink("net")
  <2>1. Net.pc = "apply" /\ Net.todo = <<>>
    BY <1>1, <1>4 DEF ApplyWrite, ApplyUnlink, Net, PassSees
  <2>2. Net' = Net \/ Net' = [Net EXCEPT !.pc = "finish"]
    <3>1. th' = th \/ Become("net", [th["net"] EXCEPT !.pc = "finish"])
      BY <1>4, Zenon DEF ApplyWrite, ApplyUnlink
    <3> QED BY <1>0, <3>1 DEF Become, Net
  <2>3. Net \in [pc : {"check", "apply", "finish"}, todo : Seq(Section),
                 entry : Entry, avail : BOOLEAN, verdict : Verdicts]
    BY <1>0, <2>1, ThreadProperties DEF Net
  <2>4. Net'.pc \in {"apply", "finish"} /\ Net'.todo = <<>>
    BY <2>1, <2>2, <2>3
  <2>5. PassSees(p)'
    BY <2>4 DEF PassSees
  <2>6. NoFalseConflict'
    BY <1>1 DEF SessionInv, NoFalseConflict
  <2> QED BY <1>1, <2>4, <2>5, <2>6, PassStep
<1> QED BY <1>2, <1>3, <1>4

\* Every step of the pass.
LEMMA SyncSession ==
  ASSUME TypeOK, OneSession, SessionInv, SyncStep
  PROVE  SessionInv'
<1>1. PICK p \in Paths : Paths = {p}
  BY DEF OneSession
<1>2. ~StartLazywrite
  BY DEF StartLazywrite, OneSession
<1> QED BY <1>1, <1>2, OneThread, MountSession, ListSession, TakeSession, CheckSession,
           WorkSession DEF SyncStep, Syncing

\* Other users of the server: then a conflict is a real one.
LEMMA EditSession ==
  ASSUME TypeOK, OneSession, SessionInv, NEW p \in Paths,
         NEW q \in Paths, ServerEdit(q) \/ ServerDelete(q)
  PROVE  SessionInv'
<1>1. /\ UNCHANGED <<under, cache, known, books, net, sync, up, handle, req, th, now>>
      /\ used'.edits = used.edits + 1 /\ used'.disconnects = used.disconnects
      /\ used'.edits # 0
  BY DEF ServerEdit, ServerDelete, TypeOK, WorldOK
<1>2. Fetched(p) => Fetched(p)'
  BY <1>1 DEF Fetched
<1>3. \A type : Waits(p, type) => Waits(p, type)'
  BY <1>1, <1>2 DEF Waits
<1>4. NothingChanged(p) => NothingChanged(p)'
  BY <1>1, <1>2 DEF NothingChanged, BaseTime
<1>5. Recorded(p) => Recorded(p)'
  BY <1>1, <1>3, <1>4 DEF Recorded, FirstUnderWay, FirstLogged, LogTorn, Adding
<1>6. OneDisconnection' /\ Ahead' = Ahead /\ Net' = Net
  BY <1>1 DEF SessionInv, OneDisconnection, Ahead, Net
<1>7. NoFalseConflict'
  BY <1>1 DEF NoFalseConflict
<1>8. InSession(p)
  BY DEF SessionInv
<1>9. InSession(p)'
  BY <1>1, <1>3, <1>4, <1>5, <1>6, <1>8 DEF InSession, PassSees, Untouched
<1> QED BY <1>6, <1>7, <1>9, SessionFromPath

\* The network, the clock, and the process.
LEMMA OtherEnvSession ==
  ASSUME TypeOK, OneSession, SessionInv, NEW p \in Paths,
         Tick \/ ServerLost \/ ServerBack \/ SetUnavailable \/ Crash
  PROVE  SessionInv'
<1>1. /\ UNCHANGED <<files, books, handle, req, th>>
      /\ used'.edits = used.edits /\ reachable' = reachable
  BY DEF Tick, ServerLost, ServerBack, SetUnavailable, Crash, OneSession, SessionInv,
         OneDisconnection, TypeOK, WorldOK
<1>2. Net' = Net /\ InSession(p)
  BY <1>1 DEF Net, SessionInv
<1>3. NoFalseConflict'
  BY <1>1 DEF SessionInv, NoFalseConflict
<1>4. CASE used' = used /\ available' = available /\ mounted' = mounted
  <2>1. OneDisconnection' /\ Ahead' = Ahead
    BY <1>1, <1>2, <1>4 DEF SessionInv, OneDisconnection, Ahead
  <2>2. InSession(p)'
    BY <1>1, <1>2, <1>4, <2>1, RecordKept DEF InSession, PassSees
  <2> QED BY <1>3, <2>1, <2>2, SessionFromPath
<1>5. CASE SetUnavailable
  <2>1. /\ used.disconnects = 0 /\ used'.disconnects = 1 /\ available' = FALSE
    BY <1>5 DEF SetUnavailable, OneSession, TypeOK, WorldOK
  <2>2. Net = Idle /\ Ahead'
    BY <2>1 DEF SessionInv, OneDisconnection, Ahead
  <2>3. OneDisconnection'
    BY <1>1, <1>2, <2>1, <2>2 DEF SessionInv, OneDisconnection, Idle
  <2>4. NothingChanged(p)
    BY <1>2, <2>1 DEF InSession, Untouched
  <2>5. NothingChanged(p)'
    BY <1>1, <2>4 DEF NothingChanged, Fetched, BaseTime
  <2>6. PassSees(p)'
    BY <1>2, <2>2 DEF PassSees, Idle
  <2>7. InSession(p)'
    BY <1>1, <1>2, <2>1, <2>5, <2>6 DEF InSession, Recorded
  <2> QED BY <1>3, <2>3, <2>7, SessionFromPath
<1> QED BY <1>4, <1>5
        DEF Tick, ServerLost, ServerBack, Crash, OneSession, SessionInv, OneDisconnection

\* A process that starts again finds a session that has not begun, or one that is over.
LEMMA RestartSession ==
  ASSUME TypeOK, OneSession, SessionInv, NEW p \in Paths, Restart
  PROVE  SessionInv'
<1>1. /\ UNCHANGED <<files, log, reachable>>
      /\ available' = TRUE /\ mounted' = TRUE
      /\ used'.edits = used.edits /\ used'.disconnects = used.disconnects
      /\ req'[p] = NoReq
      /\ handle' = [q \in Paths |-> Closed] /\ th' = [t \in Syncers |-> Idle]
      /\ mtimes' \in [Paths -> 0 .. 1] /\ (mtimes[p] = 0 => mtimes'[p] = 0)
      /\ conflicts' \subseteq conflicts
  BY DEF Restart, TypeOK, WorldOK, ReadBack, ReadBackConflicts
<1>2. Net' = Idle /\ InSession(p)
  BY <1>1 DEF Net, SessionInv, OneSession
<1>3. handle'[p] = Closed
  BY <1>1
<1>4. OneDisconnection'
  BY <1>1, <1>2 DEF SessionInv, OneDisconnection, Idle
<1>5. NoFalseConflict'
  BY <1>1 DEF SessionInv, NoFalseConflict
<1>6. Ahead' => used.disconnects = 0
  BY <1>1, <1>2 DEF Ahead, Idle
<1>7. ASSUME Untouched(p) PROVE Untouched(p)'
  <2>1. NothingChanged(p) /\ mtimes[p] = 0 /\ mtimes'[p] = 0
    BY <1>1, <1>7 DEF Untouched
  <2>2. Fetched(p)' /\ BaseTime(p)' = BaseTime(p)
    BY <1>1, <2>1 DEF NothingChanged, Fetched, BaseTime
  <2> QED BY <1>1, <1>3, <2>1, <2>2 DEF Untouched, NothingChanged, Closed
<1>8. PassSees(p)'
  BY <1>2 DEF PassSees, Idle
<1>9. InSession(p)'
  BY <1>1, <1>2, <1>3, <1>6, <1>7, <1>8 DEF InSession, Untouched, Recorded, Closed, NoReq
<1> QED BY <1>4, <1>5, <1>9, SessionFromPath

\* A session stays what it is.
LEMMA SessionStays ==
  ASSUME OneSession
  PROVE  TypeOK /\ SessionInv /\ [Next]_vars => SessionInv'
<1> SUFFICES ASSUME TypeOK, SessionInv, [Next]_vars PROVE SessionInv'
  OBVIOUS
<1>1. PICK p \in Paths : Paths = {p}
  BY DEF OneSession
<1>2. CASE RequestStep
  BY <1>2, RequestSession
<1>3. CASE SyncStep
  BY <1>3, SyncSession
<1>4. CASE EnvStep
  BY <1>1, <1>4, EditSession, OtherEnvSession, RestartSession DEF EnvStep
<1>5. CASE UNCHANGED vars
  <2>1. Net' = Net /\ Ahead' = Ahead /\ OneDisconnection' /\ NoFalseConflict'
    BY <1>5 DEF vars, SessionInv, OneDisconnection, NoFalseConflict, Ahead, Net
  <2>2. InSession(p) /\ UNCHANGED <<remote, cache, known, log, mtimes, req, handle, used>>
    BY <1>5 DEF SessionInv, vars
  <2>3. InSession(p)'
    BY <2>1, <2>2, RecordKept DEF InSession, PassSees
  <2> QED BY <2>1, <2>3, SessionFromPath
<1> QED BY <1>2, <1>3, <1>4, <1>5 DEF Next

\* The share as the process finds it: nothing changed, and nothing disconnected.
LEMMA SessionBegins ==
  ASSUME OneSession
  PROVE  Init => SessionInv
<1> SUFFICES ASSUME Init PROVE SessionInv
  OBVIOUS
<1>1. Net = Idle /\ used.edits = 0 /\ used.disconnects = 0
  BY DEF Init, Net, OneSession
<1>2. OneDisconnection /\ NoFalseConflict
  BY <1>1 DEF Init, OneDisconnection, NoFalseConflict, Idle
<1>3. ASSUME NEW p \in Paths PROVE InSession(p)
  <2>1. PICK t \in 2 .. 3 :
          /\ cache = [q \in Paths |-> IF Exists(remote[q])
                                      THEN [by |-> "server", mtime |-> t] ELSE Absent]
          /\ known = [q \in Paths |-> [node |-> remote[q], at |-> t]]
    BY DEF Init, Start
  <2>2. /\ known[p].node = remote[p] /\ known[p].at = t
        /\ cache[p] = IF Exists(remote[p]) THEN [by |-> "server", mtime |-> t] ELSE Absent
    BY <2>1
  <2>3. remote[p] \in {Absent, [by |-> "server", mtime |-> 2]}
    BY DEF Init
  <2>4. log = <<>> /\ req[p] = NoReq /\ handle[p] = Closed /\ mtimes[p] = 0
    BY DEF Init
  <2>5. Fetched(p)
    BY <2>2, <2>3 DEF Fetched
  <2>6. NothingChanged(p)
    BY <2>2, <2>3, <2>4, <2>5 DEF NothingChanged, Exists, Absent, BaseTime, Closed
  <2>7. PassSees(p)
    BY <1>1 DEF PassSees, Idle
  <2> QED BY <2>4, <2>6, <2>7 DEF InSession, Recorded, Untouched, Closed, NoReq
<1> QED BY <1>2, <1>3 DEF SessionInv

\* In one session: as long as nobody else changes the server, no pass reports a
\* conflict (SynchronizationManager::has_been_modified with the times that
\* savemtime keeps), however long the session is and whatever is logged in it.
THEOREM ConflictsAreReal ==
  ASSUME OneSession
  PROVE  Spec => []NoFalseConflict
<1>1. SessionInv => NoFalseConflict
  BY DEF SessionInv
<1> QED BY <1>1, SessionBegins, SessionStays, TypeCorrect, PTL DEF Spec

\* In one session: a pass overwrites or deletes a file on the server only if it
\* is still the version this client knows or one of the same second
\* (SynchronizationManager::ModifyFile, DeleteFile).
THEOREM NothingOverwrittenBlindly ==
  ASSUME OneSession
  PROVE  Spec => NoBlindOverwrite
<1>1. TypeOK /\ SessionInv /\ [Next]_vars =>
        [\A t \in Syncers :
           (CheckEntry(t) /\ mounted /\ th'[t].verdict \in {"copy", "unlink"})
             => LET p == th[t].entry.path
                IN  remote[p] = known[p].node \/ remote[p].mtime <= known[p].at]_vars
  <2> SUFFICES ASSUME TypeOK, SessionInv, NEW t \in Syncers, CheckEntry(t),
                      th'[t].verdict \in {"copy", "unlink"}
               PROVE  remote[th[t].entry.path].mtime <= known[th[t].entry.path].at
    OBVIOUS
  <2>1. PICK p \in Paths : Paths = {p}
    BY DEF OneSession
  <2>2. t = "net"
    BY OneThread
  <2> QED BY <2>1, <2>2, CheckSession
<1> QED BY <1>1, SessionBegins, SessionStays, TypeCorrect, PTL DEF Spec, NoBlindOverwrite
================================================================================
