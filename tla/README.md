# A model of OFS, the offline file system

OFS (`src/src`) is a FUSE file system between a network share and its users. It
keeps a copy of chosen directories ("offline trees") in a cache, lets
applications go on working while the share cannot be reached, writes every
change to a log, and replays the log ("reintegrates") when the share is back.
These modules model that: the log, the requests on files, reintegration and
conflicts; the offline trees and the update of their cache; how the share
becomes unavailable and available again; and one process from its command line
to its end, with the descriptors it holds.

Contents: [components](#components) · [hard behaviours](#what-is-hard) ·
[modules](#modules) · [runs](#runs) · [fairness](#fairness) ·
[proofs](#proofs) · [what the code does wrong](#findings) ·
[not modelled](#not-modelled) · [plan](#plan).

## Components

| component | state | operations | talks to |
|---|---|---|---|
| `SyncLogger` | the file `Sync_<share>.log`, `m_nNewIndex` | `AddEntry`, `GetEntries`, `RemoveEntry` | called by requests on several threads and by passes, without a lock |
| `OFSFile` | `fd_cache`, `fd_remote`, the `File` built at the start (availability is *captured*) | `op_*`, `update_cache`, `update_amtime`, `savemtime` | log, conflict list, base times, sync flag |
| `ofs_fuse` | one `OFSFile` per call or per open | FUSE callbacks, served by several threads (`ofs.cpp` passes no `-s`); `fuse_init` starts the threads, `fuse_destroy` writes back and unmounts | `OFSFile` |
| `SynchronizationManager` | `mtimes`: the base time of each changed file, persistent | `ReintegrateAll`, `CreateFile`, `ModifyFile`, `DeleteFile`, `addmtime`, `removemtime` | log, conflict list, share, cache |
| `ConflictManager` | `conflictfiles`, persistent | `addConflictFile`, `isConflicted`, `resolve` | `update_cache`, reintegration |
| `BackingtreeManager` | `backinglist`, persistent; one lock that every lookup takes | `register_Backingtree`, `remove_Backingtree`, `Search_Backingtree_via_Path` | `ofs.offline`, lookup |
| `Backingtree` | the update of one tree, run by the registering request | `updateCache`, `get_cache_path`, `is_in_backingtree` | `update_cache`, the cache |
| `Filestatusmanager` | none | `give_me_file`: availability, tree and cache path of a path | trees, flag |
| `FilesystemStatusManager` | `available`, `sync`, the mount | `setAvailability`, `mountfs`, `unmountfs`, `setsync`, D-Bus listener | starts a pass |
| `Lazywrite` | a thread | every 300 s: a pass if `!sync && available` | `ReintegrateAll` |
| `OfflineRecognizer` | a thread, a failure count | probes the server, `setAvailability` | `FilesystemStatusManager` |
| `PersistenceManager` and its classes | text files | `reload`, `make_persistent` | base times, conflicts, trees |
| `OFSEnvironment`, `main` | the options | `init`, the start up to `fuse_main` | everything reads it |

What makes them correct: the log loses no change and invents none; a pass
drops exactly what it has dealt with; a change on the server since the fetch is
found and reported, and only such a change is; while a conflict lasts the
user's version is safe, and its resolution leaves one version; the content of a
changed file reaches the server; what is pending gets a pass; a share that is
called available is mounted; a server that is gone is noticed, one that is back
is used again; a path lies in one tree; the update of a tree makes the cache a
copy and ends; every descriptor belongs to an object; a process that ends in
order writes back and unmounts.

## What is hard

FUSE serves requests on several threads. They and two more that pass over the log
edit one file with read-rewrite-append sequences, and share the counter of its
entries, without a lock. A pass works on a list it read at its start, and raises
the sync flag at its end. A request decides whether to fetch a file and fetches it
later. Every object captures the
availability of the share and the tree of its path when it is built, and the
share may be lost, unmounted or mounted, the tree registered or removed, at any
step. On the server a file may give way to a directory and the reverse. Whether the
server's file has changed is decided from two time stamps of
one second's resolution, one of them saved when the file was first changed
offline. The update of a tree goes through directories it listed earlier while
others change them. A removal works on the list of trees without the lock that
a registration holds, and the file of the list is truncated first and written
later. Every open, close, fetch and log entry may fail between two others. A
restart keeps the log but not the counter that numbers its entries. Exceptions
that no caller catches end the process. Requests, the recogniser and the D-Bus
listener change `available` without a lock, mounting and unmounting as they go,
`wait()` takes whichever child has ended, and `fuse_destroy` unmounts beside them. `PROJECT.json` lists these hazards
line by line.

## Modules

| module | models | notes |
|---|---|---|
| `SyncLogFile` | the log's text and the parser's view of it (operators only) | text is pieces; a piece is the entry it was written for and whether it is whole |
| `SyncLog` | the log with its users, several threads that append (`Adders`) and one that drops entries; a rewrite keeps *any* part that some lengths of paths produce | the abstract specification |
| `SyncLogger` | the same byte by byte, from the lengths of texts and paths | implements `SyncLog` (`ImplementsSyncLog`, refinement `file <- Abstract(text)`) |
| `Replica` | the variables of one share, and helpers: what `update_cache` decides, `update_amtime`, `savemtime`, `has_been_modified` | a file is its time and who wrote it last: server, user, or nobody (empty) |
| `FileRequests` | the requests on files: `update_cache` in two steps (it decides, it fetches), the operation, `AddEntry` in steps | requests on one path follow one another, requests on different paths interleave |
| `Reintegration` | `ReintegrateFiles` in steps; lazy writer and `setAvailability(true)` | mount, list, take, check, apply, finish, end |
| `OfflineFS` | composes the two with server, network, clock, restart; properties | `Spec`, `FairSpec` |
| `FilesystemStatus` | `setAvailability` step by step, called by several threads; mount commands and other children; the D-Bus listener; the attribute `ofs.available`; `fuse_destroy` | a reintegration is one step here |
| `OfflineRecognizer` | the recogniser's loop over `FilesystemStatus`; properties | `Spec`, `FairSpec` |
| `SharePaths` | the string operations on paths (operators only): `is_in_backingtree`, `get_cache_path`, `get_parent_directory`, and what the kernel makes of a path | a path is the sequence of its letters, because the code compares letters |
| `Backingtrees` | the list of trees, its lock, its file and the two requests that change it | `TreesSpec`, the abstract specification |
| `ShareTree` | the share and the cache as trees of directories, files and links; `give_me_file`; `update_cache` along the parents of a path; `isConflicted` | |
| `CacheUpdate` | `updateCacheRunner`: each fetch, each listing, each clearing is a step | |
| `TreeRequests` | `mkdir`, `mknod`, `symlink`, `link`, `rmdir`, `chmod`, `chown`, `utimens`, `readlink`, and the attributes `ofs.offline`, `ofs.available`, `ofs.conflict` | the lookup and the operation are two steps |
| `OfflineTrees` | composes these with other users, the mount, the clock and restarts; properties | `Spec`, `FairSpec`; implements `TreesSpec` |
| `Startup` | `OFSEnvironment::init` as a fold over the options (operators only) | |
| `FuseSession` | `main`, the session, the passes of three threads and the mount command, and `OFSFile` objects with their descriptors | every call may fail |
| `MC*` | constants for TLC | |
| `*_proofs`, `OfflineFS_safety` | theorems | see [proofs](#proofs) |

There are four compositions, each fine where its questions are and coarse where
another one is fine:

- `OfflineFS` is about content and takes `setAvailability` in coarse steps (the
  flag, the mount, the pass). Its paths are files of one tree.
- `OfflineRecognizer` is about the flag and the mount: `setAvailability` is split
  into its statements, and there are no files.
- `OfflineTrees` is about trees, directories and the update of the cache. Its log
  keeps the pending change of every path, in no order, and its server always
  answers. At one place server and application may have different kinds (`KindsAt`).
- `FuseSession` is about the process and its descriptors: one file and its
  directory, of whose content only the place of the last change is kept. A pass is
  three steps of its thread (it reads the list, works it off, raises the flag);
  overlapping calls of `setAvailability(true)` are `OfflineRecognizer`'s subject.

How code and state correspond. In `Replica`: `remote` is the share,
`under` the directory below its mount point when it is not mounted, `cache` the
cache directory; `log`, `nextIndex`, `mtimes`, `conflicts`, `available`, `sync`
are the members of that name; `handle[p]` is the `OFSFile` of an open file, with
the availability it captured and what its descriptors refer to (`"orphan"`: a
cached file unlinked since); `req[p]` is the request on `p` that is inside
`update_cache` or `AddEntry`; `th[t]` is
where a synchronising thread is in `ReintegrateFiles`. `known` is a history
variable: the server's version this client last fetched or wrote, and when.

In `SyncLog` and `SyncLogger` `call[a]` is where thread `a` is in `AddEntry`
(`m_nNewIndex++` is a load and a store), `todo` the list of the thread that drops
entries; `shared` is a history variable: two threads have been inside the counting
at once.

In `FilesystemStatus` `available` is the flag, `mounts` counts the mounts that
lie on the mount point one above the other, `children` the child processes that
nobody has waited for, by kind, and `call[t]` is where thread `t` is in
`setAvailability` and the value it passed. In `OfflineRecognizer` `loop` is the
place in `startRecognizer`, `failed` is `result` after the first probe, `seconds`
is `msec` in seconds, and `descriptors` are the file descriptors still free.
`asked` and `overlapped` are history variables.

In `Backingtrees` `trees` is `backinglist`, `plist` the list
`BackingtreePersistence` holds, `saved` what reading the file gives (between
truncation and write: nothing), and `reg` and `rem` are the places of the
registering and of the removing request; `reg # Free` is the manager's lock.
`walk` in `CacheUpdate` is the state of `updateCacheRunner`: the directories left
(`todo`), the one it is in, and the two lists it has read. `req` in `TreeRequests`
is a request with the `File` it captured. `calm` (`"alike"` or `"mixed"` as long as
nothing else has happened since the update began: neither side had a directory where
the other had a file, or one had; `"no"` afterwards) and `raced` (a removal and a registration have saved at once)
are history variables.

In `FuseSession` `main` is the place in `main` and how the process ended, `env`
the members of `OFSEnvironment`, `fd` the table of descriptors, `handle` the
`OFSFile` objects with `fd_cache` and `fd_remote`. `Zero` is descriptor 0, which
the code takes for "none". `torn` says that the log no longer parses. `pass[x]` is
how far each thread is with its pass: the lazy writer's, the one inside
`setAvailability(true)`, whose mount command comes first, and that of `fuse_destroy`.
`lost`, `stacked` and `created` are history variables; `created` says whether what
waits of creates was logged while no pass was under way (`"alone"`) or beside one.

Abstractions, each of which leaves the control as it is:

- In `OfflineFS`, regular files of one flat offline tree; no path is the
  beginning of another. In `OfflineTrees`, paths are letters and may be.
- The kernel's FUSE client lets requests that change one path follow one another
  (`Free`). A request of `FileRequests` is: deciding whether to fetch; fetching; the
  operation; the steps of each `AddEntry`. Passes, other requests and the environment
  come between any two of them.
- FUSE asks for the attributes of a file it has just created and releases the
  object again if the answer is no file (libfuse 2, `fuse_lib_create`). An object
  created in a tree while the share is available has no `fd_remote`, which
  `op_fgetattr` asks, so the application gets an error although the entry is
  logged. `Kept` in `FileRequests` and `op_create` in `FuseSession` have that.
- One call of `RemoveEntry` is one step, and so are the lines of one entry (two
  threads inside one read-rewrite, and appends that mix within an entry, are not
  modelled). Storing `m_nNewIndex` and the `setsync(false)` that follows are one step.
- `pszBuffer` in `RemoveEntry` is searched as a string without a terminating
  zero; that read past the end is not modelled.
- In `Replica`'s log a fragment may or may not show its number, and any cut is
  possible that some lengths produce: a superset of what the file can become.
- One clock, and server and client agree on it. Directories have no time: the
  code compares none of them where it is modelled.
- In `OfflineTrees` each place has a set of kinds (`KindsAt`) that the application
  and other users may make there; links lie at places with nothing below them. An
  update during which something else happens is modelled, but the properties of
  its result leave it out (`calm`).
- Permission bits, owners, the targets of links and file contents are left out in
  `OfflineTrees`; of `chmod` and `chown` their `update_cache` and flag remain.
- The list of trees is changed in one step (two threads change a `std::list`
  without a lock, and the language leaves open what comes of it).
- A process of `OfflineRecognizer` either never reaches its limit of descriptors
  (`Plenty`) or runs out of them by the sockets that probes leave open.
- A reintegration inside `setAvailability` returns or ends the process
  (`OfflineRecognizer`).
- In `FuseSession` the process ends with `fuse_destroy`'s return; of its other
  threads only a mount command that is still running goes on after it.

## Runs

`CHECK_DEADLOCK FALSE` everywhere: the process may end (an exception, an exit, or
the bounds are used up), and nothing has to happen then.

| run | configuration | shows |
|---|---|---|
| `sync_log` | `SyncLogger.cfg` | several threads append, one drops: the byte level implements `SyncLog`; until a restart, and until two threads have counted at once, a number names one change and appending loses none |
| `remove_entry` | `SyncLoggerRemove.cfg` | **violation**: removing one entry destroys others |
| `sync_log_shared` | `SyncLoggerShared.cfg` | **violation**: two requests log under one number, and one of the changes is gone |
| `restart_and_loss` | `RestartAndLoss.cfg` | types, over every request, a restart and the loss of the server |
| `one_session` | `OneSession.cfg` | one offline session: no overwriting of unknown versions, no conflict without an edit |
| `passes_end` | `PassesEnd.cfg` | every pass ends; a change that waits while the flag is down gets one |
| `conflict_overwritten` | `ConflictOverwritten.cfg` | **violation**: a request fetches over the user's version of a file that has become a conflict since it asked |
| `availability` | `Availability.cfg` | nobody waits for a child somebody else took; an available share is mounted unless calls overlap; the recogniser notices a server that is gone and one that is back |
| `offline_trees` | `OfflineTrees.cfg` | no path lies in two trees; the saved list is the list; an undisturbed update makes the cache a mirror and spares files in conflict; a resolved conflict of files has one version; an update ends and frees the lock |
| `update_removes_others` | `UpdateRemovesOthers.cfg` | **violation**: the update of a tree deletes what was created in it and waits in the log |
| `fuse_session` | `FuseSession.cfg` | descriptors are accounted for whatever fails; the order of the options does not matter; an orderly end unmounts, and writes back the creates it should |
| `descriptor_zero` | `DescriptorZero.cfg` | **violation**: descriptor 0 is closed, given out again, and taken for "no connection" |

Bounds. `sync_log` (`MaxNumber` 3) has two threads that append, which is what it
takes for one number to be given out twice, and two paths of different length: one
byte of difference is enough to get fragments, whole copies and losses. No call begins when
the file has `MaxPieces` pieces, which bounds what several threads may append; an
`ASSUME` keeps `MaxNumber` and the threads together below 10, because numbers of one
digit are never the beginning of each other.
One path suffices for properties that speak of one path, with the passes and the
application on it; `rename`, and requests that run beside each other, need two
(`passes_end`, 321 000 states, both passes and two creates). One disconnection gives
online, offline and online again. `one_session` has two edits on the server and times
up to 5, so edits fall before, into and after the second of the fetch, the offline
change and the pass, and a restart, which may come between them.
`restart_and_loss` (1 693 708 states) has one file, one pass and two entries; two
passes and two files are in the proof of the same property.

`availability` has one request thread and the recogniser, which is enough for two
calls to overlap, with two changes of the attribute, so that a user may go
offline and online; one D-Bus signal, one measurement of the load that competes
for `wait()`, two mounts one above the other, and a process with one descriptor
left beside one without a limit. Protocols are a stream protocol or an unknown
one. `"datagram"` (nfs, afs) is in the model but in no run: connecting such a
socket asks no server, so every probe succeeds and `GoesOffline` excludes it.

`offline_trees` (905 020 states) has the paths `/`, `/d`, `/d/f` and `/l`: trees
above, below and beside each other, a directory to walk into, which may give way to
a file and come back (`MCKindsAt`), a file in it, a link, and the root, below which
the code writes `//d`. Three events are what a hazard here takes: a request, an edit
or disconnection, and the registration or removal they meet. The server starts with
every closed set of the places, and the list with nothing or one tree. One pending
entry is enough, as the log of this model keeps every change, and times up to 2 make
an edit newer than a copy.

`fuse_session` (2 618 891 states, with symmetry over the objects and over the
descriptors other than 0) has two objects at once, descriptor 0 and three more, so
that they run out, and three events. The command lines have every option
that excludes or implies another, in and out of order, and both fall-throughs.

Where a property is checked on less than the whole system, that is because the
code does not have it there.

- `NumberNamesOneChange` and `AppendKeepsOthers` hold until a restart, and until two
  threads have been inside the counting at once (`shared`). `sync_log_shared` and
  `SyncLoggerRestart.cfg` are what happens otherwise.
- `NoBlindOverwrite` and `NoFalseConflict` hold of one offline session without
  truncation on one path, with one pass at a time and a server that answers. These
  are the hypotheses of their theorems too (`OneSession`), and each of them is
  needed: TLC finds a counterexample as soon as one is dropped. The clock, the number
  of edits and of entries do no harm; a restart comes with the share available and
  the flag raised, so no pass of that session follows it. They fail
  - after truncation: `op_truncate` and `op_ftruncate` offline give the cached file
    the present time and save no base time. The next write takes that time as the
    base, so an edit made on the server before it goes unnoticed and is overwritten
    (add `"truncate"` to `Requests`);
  - over two sessions: a pass's `removemtime` erases the base time of a change
    made since the share went away again (`SecondDisconnection.cfg`);
  - with two files: what `RemoveEntry` leaves behind may be a copy of an entry
    that was dropped, and it is reintegrated a second time;
  - when the share goes unavailable during a pass: the empty mount point looks
    like a deleted file, which is reported as a conflict;
  - when requests are made while the share is available, whose writes a pass
    takes for somebody else's (`WorkOnline`);
  - when both passes create the same file, and on renaming onto an existing file.
- `WaitingChangeIsTaken` begins where the flag is down and no pass is under way. A
  change logged beside a pass may have the flag raised over it.
- `AvailableMeansMounted` holds outside calls and until two have overlapped;
  `ComesBack` for known protocols and a process that does not run out of descriptors.
- `UpdateMirrors` speaks of an update during which nothing else happens, and that
  began in a registered tree with its parent directory in the cache (without the
  parent nothing is ever cached) and with no directory where the other side had a
  file (`calm = "alike"`); `ConflictSurvivesUpdate` of the same without the last
  condition, for a file or link of the user. `SavedIsRegistered` excludes two requests
  that save at once, whose texts may mix. `ResolutionAgrees` is about conflicts of
  files and links, and a share that is there from the request's lookup on.
- `NoDescriptorLeft` keeps account, in `lost`, of the failures known to leave a
  descriptor behind, and holds until descriptor 0 is closed.
- `ExitUnmounts` excludes a mount command that ends behind `fuse_destroy`'s back, open
  files and a share mounted over itself. `ExitWritesBack` speaks of created entries,
  the ones that clear the sync flag, which were logged while no pass was under way;
  the pass may still find the share unavailable and drop them.

## Fairness

`FairSpec` of `OfflineFS` assumes that the lazy writer looks at the flags again
and again (its loop has no other way out) and that a thread inside a pass goes on:
no step of a pass waits for anything but the share. Nothing is assumed of the
application, the network, or other users; `setAvailability(true)` need not
happen. Under it `WaitingChangeIsTaken` (a change that waits while the flag is down and no
pass is under way comes into the hands of one, unless the share goes away, the
process ends or the change leaves the log) and `PassesEnd` hold.

`FairSpec` of `OfflineRecognizer` assumes that the recogniser's loop goes on (it
has no exit, and a probe is bounded by the time limit of `connect`), that a call
of `setAvailability` goes on, and that a mount command ends. Nothing is assumed
of requests, signals or the server: `ComesBack` and `GoesOffline` are stated for
a server that stays reachable, or stays away, by making the opposite one of the
alternatives.

`FairSpec` of `OfflineTrees` assumes only that the thread that registers a tree
goes on: saving the list, starting the update, each of its steps, returning. It
holds the lock throughout and waits for nobody, so `UpdateEnds` is about the walk
itself: the set of directories still to visit must run out although entries come
and go. `FuseSession` states no fairness.

## Proofs

All proved by TLAPS for every value of the constants; the only assumptions are
the named `ASSUME`s on them (bounds are naturals, switches are Booleans, paths
are nonempty sequences, the directories above a path have been looked up before it,
a name has no slash in it, every place but the share itself is an entry of another one,
at every place something may be made and what has entries may be a directory, the clock starts at 1, the trees first listed are
separate, `None` is no descriptor, command lines are sequences of options, entry
numbers have one digit), and what stands in the statement of five theorems:
`OneSession` for two of them, `PlainPaths` for three.

The log:

- `SyncLogFile_proofs`: what the operators of the log return. `SectionsProperties`
  (the list is a list of sections, and what it lists is in the file),
  `RemoveResultsCopies` (a rewrite, whatever bytes survive, holds only copies of
  texts that were there). `LastOfProperties` needs a maximum of a bounded set,
  taken from the well-foundedness of strict subsets.
- `SyncLogger_proofs`, for any threads that append, any lengths of texts and of paths:
  - `LoggerTypeCorrect` and `NumbersNameOneChange`, from `LogInv`. A thread writes
    `m_nNewIndex` into the file, loads it, and stores it counted up, while others do the
    same. As long as no two have been at that at once, at most one thread counts, every
    number in the text is below `m_nNewIndex` but for the one it has just written, and
    equal numbers are one entry's (`NumbersInText`).
  - `ImplementsSyncLogAlways`: `Abstract(text)` behaves as the log of `SyncLog`. Behind
    what precedes the entry, `RemoveEntry` writes as many bytes as follow the entry,
    but takes them from the beginning of the text; where that cut falls is a sum of
    lengths over a sequence. Every such sum is handled by the least index at which a claim would fail
    (`LeastNumber`), which a set has, rather than by induction over sequences:
    `FirstBytesIsCut` says that the first bytes of a text are some of its pieces
    and at most one fragment, and `RemoveEntryResult` that this is one of the
    results that the abstract rewrite allows.
  - `AppendKeepsOthersAlways`: an append leaves what is pending of other paths, under the
    same two conditions.

Requests and passes:

- `OfflineFS_proofs`: `TypeCorrect`, `Spec => []TypeOK`, one lemma per action.
- `OfflineFS_safety`:
  - `ConflictsAreReal` and `NothingOverwrittenBlindly`, of one session
    (`OneSession`: one file, one thread that passes, one disconnection, a server
    that answers, no truncation, no requests while the share is available).
    What a pass compares with the server's time is what `savemtime` kept at the
    first change, so the invariant has to carry that time from there through the
    log to the pass. `SessionInv` says where the session is: nothing has changed
    (`NothingChanged`), the first change is saved and not yet logged
    (`FirstUnderWay`), it is logged and more may follow (`FirstLogged`), or a second
    change has replaced it (`LogTorn`): the log of one file has one entry, whose
    removal leaves a torn one, so a pass that can parse the log finds exactly the
    first change in it, and finds it once. `PassSees` says the same of the entry in the pass's hand:
    its base time is no later than when the known version was current, hence
    "changed since" means changed by somebody else, and "not changed since" that
    what is overwritten is known.

Availability (`OfflineRecognizer_proofs`, for any finite set of request threads and
any bounds):

- `RecognizerTypeCorrect`.
- `WaitsAreServed`: `EveryWaitHasAChild` is not inductive, because `pclose` takes a
  child that the invariant counts. `MountsSuffice` is: the mount commands alone
  are as many as the waiting threads, and a `wait()` that takes a child of the lazy
  writer leaves one mount command too many. Its steps need `LoopIsOutside`: the
  recogniser is inside `setAvailability` only where its loop calls it, so that a
  call never restarts a thread that waits.
- `AvailableIsMounted`: unless calls have overlapped, an available share is
  mounted. `OneCall` says that until then at most one thread is inside
  `setAvailability`, and what the flag and the mount are at each of its statements.

Trees (`OfflineTrees_proofs`, for any set of paths):

- `ImplementsTrees`, `Spec => TreesSpec(Listed)`: requests, updates, other users,
  the mount and the clock leave the list, its file and its two writers alone;
  what remains are the steps of `Backingtrees`. The next two therefore need
  only the steps of that module.
- `OneTreePerPathAlways`: two beginnings of one path begin one another
  (`BeginningsComparable`), so it suffices that no tree begins another. That is
  not inductive for `trees` alone, because a restart reads the file, and the
  file gets the list that a writer took earlier: `ListsSeparate` says it of the
  list, the file and the two lists on their way to it.
- `SavedIsRegisteredAlways`, by `SavingIsCurrent`: as long as no two requests
  have saved at once, only one saves, and what it carries is the present list.
- `TreesTypeCorrect`, `Spec => []TypeOK`. `update_cache` recurs along the parents of
  a path, to beginnings of it that are no bound variable of any quantifier. Two
  facts carry it. There is a function that satisfies the recursion, because there
  is no least length up to which there is none (`Follows`, `UpdateFollows`); and
  whatever set contains the present cache and is kept by every fetch on the way
  contains what `update_cache` returns (`UpdateWithin`), of which the types are one
  use. Where a path lies is recursive as well: `PlaceBelow` and its neighbours say
  what `Place` makes of an entry of a directory.
- `ResolutionAgreesAlways`, `ConflictSurvivesAlways` and `UpdateMirrorsAlways`, for any
  tree of files and any kinds at its places, under `PlainPaths`, on the paths alone: they
  are as the kernel gives them, and one begins another only with whole names. Without it
  two paths may have one place in the cache (`/df` and `/d/f` in the tree `/d`, see the
  findings), and the update of one fetches over the other. TLC evaluates it for the
  paths of its runs.
  Each invariant uses the ones before it:
  - `FitInv` (`FitAlways`): in cache and share, what lies at a place lies in a
    directory, whatever has entries is a directory, and no time is ahead of the clock;
    what the walk and the request hold are places that `Place` gives. A resolution of
    a conflict of files therefore copies file on file, and `SetConflictSound` is what
    `ResolutionAgrees` says.
  - `CalmInv` (`CalmAlways`), of an update that nobody has disturbed: it stays below the
    registered path, and what it has read of the directory it is in (`left`,
    `subdirs`, `files`) is exactly what the server has there. So what it clears has gone
    from the server (`NotCleared`), and a file in conflict is not fetched over
    (`ConflictNotFetched`), which is `ConflictSurvivesUpdate`.
  - `Covered` (`CoveredAlways`), of an update that began with both sides alike: every place below the registered path that has no
    conflict either mirrors the server's or is `Pending`: below a directory on the
    list, below the one being read and not yet reached, or due to be cleared; and
    the directories on the list are on the server, with the one above them in the
    cache. One lemma per step (`VisitCovers`, `OpenCovers`, `FetchCovers`,
    `ClearCovers`) shows that what stops being pending mirrors the server; when the
    list is empty nothing is pending. `CalmUpdate` is where `update_cache` is
    opened: with the parent in the cache it fetches at most the place itself.

The process:

- `FuseSession_proofs`, for any descriptors, objects and command lines:
  - `SessionTypeCorrect`, and `NoDescriptorLeftAlways`. `Accounted` relates three
    things, the table, the descriptors left behind and the objects, and is
    inductive with the kind of the variables (`SessionInv`). Lemmas say what
    taking a free slot, giving it to an object and releasing an object do to such
    a triple; each call is one of these.
  - `ExitUnmountsAlways` and `ExitWritesBackAlways`, from `ExitInv`: a share that
    was never mounted over itself is mounted once at most; and a create that was logged
    while no thread had read a list finds the flag down, and keeps it down, because only
    a thread that has read a list raises it, and reading one leaves no create waiting
    (`ListTaken`). So `fuse_destroy` starts a pass of its own whatever step the other
    threads are in.
  - `OrderNeverMatters`, by the theorems of the next module.
- `Startup_proofs`: `CommandLineRead` says what `OFSEnvironment::init` makes of a
  command line of any length: it is a fold, which is unrolled through the recursive
  function it is made of, so that what it returns and whether it returns at all
  depend on which options occur and not on where. Two orders of one line have the
  same options, because a reordering is a bijection of the positions (`OrderFree`).

Only model-checked:

- All liveness: `WaitingChangeIsTaken`, `PassesEnd`, `ComesBack`, `GoesOffline`,
  `UpdateEnds`. TLAPS has no support for fairness and ENABLED.

## Findings

The five violation runs above, each with its counterexample. Besides, the following
definitions state what a sentence of the repository says, and TLC refutes each with the
configuration beside it; they are kept next to the runs, not in their list.

| definition | refuted by | what happens |
|---|---|---|
| `PendingSurvivesAppend` (`SyncLogger`) | `SyncLoggerRestart.cfg` | a process starts with `m_nNewIndex` = 0 whatever the log holds (`logger.cpp:30`): a change logged after a restart replaces an older one |
| `WrittenFileHasContent` (`OfflineFS`) | `CreatedEmpty.cfg` | a file is created offline and written behind its beginning, which logs nothing (`ofsfile.cpp:970`); `CreateFile` makes an empty file (`synchronizationmanager.cpp:214`), and no entry is left that would copy the content |
| `NoBlindOverwrite` (`OfflineFS`) | `SecondDisconnection.cfg` | a pass reports the deletion of a file as a conflict and forgets its base time (`synchronizationmanager.cpp:174`), the entry of the file made anew follows, and the next pass copies over the server's edit although the file is in conflict |
| `FlagMeansMerged` (`OfflineFS`) | `FlagOverChange.cfg` | the flag is raised at the end of a pass (`filesystemstatusmanager.cpp:315`) over changes logged after its list was read: they wait for the next create, deletion or reconnection |
| `UpdateMirrorsMixed` (`OfflineTrees`) | `UpdateMirrorsMixed.cfg` | the server has replaced a cached directory by a file: open fails on the directory, or the older file is passed over (`ofsfile.cpp:1176`-`1191`), and the directory stays |
| `DirectorySurvivesUpdate` (`OfflineTrees`) | `DirectoryInConflict.cfg` | a directory of the user is in conflict with a file on the server (`synchronizationmanager.cpp:244`): the clearing after the listing (`backingtree.cpp:194`) deletes it |
| `DirectoryResolutionAgrees` (`OfflineTrees`) | `DirectoryResolution.cfg` | resolving that conflict copies nothing (`conflictmanager.cpp:126`-`167`) and drops it (`:226`) |
| `ExitLeavesNoMount` (`FuseSession`) | `ExitLeavesMount.cfg` | a mount command that runs while `fuse_destroy` unmounts (`ofs_fuse.cpp:962`) mounts the share afterwards |
| `ExitLeavesNoCreate` (`FuseSession`) | `ExitLeavesCreate.cfg` | a create logged beside a pass has its lowered flag raised by it (`lazywrite.cpp:118`), and `fuse_destroy` writes nothing back (`ofs_fuse.cpp:956`) |
| `ExitKeepsChanges` (`FuseSession`) | `ExitDropsChanges.cfg` | an orderly end while the share is unavailable drops what is pending, where lazy write is meant to keep it |

What else was met while modelling; where a property is named, it is a definition of
that module, which TLC refutes when it is added to a run.

The log and reintegration:

- `op_write` logs a change only at offset 0 (`ofsfile.cpp:970`, `res == size -
  offset`), and neither write nor truncate clears the sync flag.
- The sync flag starts raised with a log from before.
- `ReintegrateFiles` drops entries that were skipped because the share went
  unavailable (`bOK` is always true, `synchronizationmanager.cpp:172`).
- After `RemoveEntry` the log ends with a fragment ("mo"), so creating and
  writing one file, or renaming one, leaves a log that no longer parses: the
  next pass, or the next lookup online, ends the process.
- `ConflictPersistence` and `SynchronizationPersistence` do not read
  back what was written (`conflictpersistence.cpp:78`,
  `synchronizationpersistence.cpp:98`).
- A conflict whose remote file was deleted cannot be resolved online.
- When the share is back, the first lookup may fetch over a change that is pending
  and not yet listed as a conflict (`ofsfile.cpp:1176`), before the pass sees it.
- `op_release` stamps the cached file with the server's time although its content
  is older (`ofsfile.cpp:672`): an edit made meanwhile is never fetched.

Trees, directories and links:

- A tree is matched by letters: `/df` counts as inside the tree `/d`, and
  `get_cache_path` puts it at `/d/f`, where another file lies. `isConflicted`
  compares in the same way.
- In a tree whose parent directory is not in the cache, every fetch fails at the
  parent, and nothing is cached.
- Removing a tree leaves its cache, although the comment on `fuse_removexattr`
  (`ofs_fuse.cpp:851`) speaks of clearing it.
- Symbolic links are never logged, a hard link logs the old name, and `mknod` logs
  also when it has failed.
- A directory made again after a removal merges with its entry to a modification,
  which creates nothing on the server.
- The names of the attributes but `ofs.offline` are compared without their last
  character and beyond (`strlen(OFS_ATTRIBUTE_... + 1)`, `ofsfile.cpp:1317`): any
  name that begins so is taken for them.

Availability:

- The recogniser reconnects a user who went offline on purpose (`StaysOffline` of
  `OfflineRecognizer`): it does not know who cleared the flag.
- A probe's socket is never closed (`offlinerecognizer.cpp:175`). When the
  descriptors are used up every probe fails: the share is set unavailable and
  stays so.
- A share with an unknown protocol counts as reachable in the first probe and
  not in the second (`offlinerecognizer.cpp:225`): once unavailable it never
  comes back by itself.
- A success does not reset the failures counted before it
  (`offlinerecognizer.cpp:215`): five failures over any length of time suffice.
- The D-Bus listener clears the flag and leaves the share mounted; the
  recogniser then mounts a second time, or the mount command fails and the
  exception ends the process.
- Two calls of `setAvailability` may unmount twice for one change, so that an
  available share is not mounted; and `wait()` without a pid may return for
  another thread's child before the own mount is done.
- On nfs and afs, whose probes use datagram sockets, a lost server is never
  noticed.

The process:

- With `-n` nothing is written back at the end.
- Two `case`s of `OFSEnvironment::init` lack their `break`: `nounmount` also sets
  `fsc`, and `lazywrite` goes on into `user`, so that its value is looked up as a
  user's name, and the process exits if there is none.
- A start that fails after `mountfs` leaves the share mounted (`ofs.cpp:94`).
- Fetches, closes and log entries that fail leave descriptors open
  (`ofsfile.cpp:663`, `1187`-`1206`); a failed read in a fetch throws a pointer
  that no handler takes, which ends the process.

## Not modelled

- In reintegration, the branches for directories and symbolic links, but for the
  conflict of a created entry: `OfflineTrees` asks what is in the cache and in the
  log, `OfflineFS` what passes do to files.
- The content of files outside offline trees, attributes that are not OFS's own,
  and the callbacks that only read (`read`, `readdir`, `access`, `statfs`,
  `listxattr`) or do nothing (`flush`, `fsync`).
- Shares of type `file`, which are never mounted.
- A crash inside the writing of base times and conflicts (that of the list of trees
  is in `Backingtrees`).
- Options that are only strings, and the configuration file behind them.
- Two threads inside one read-rewrite of the log, or inside the lines of one entry:
  the rewrite loses entries by itself already (`remove_entry`), so nothing is left to
  state of two. Likewise overlapping `setAvailability(true)` calls in `FuseSession`.
- Notifications, logging and the helper libraries (no state, or output only), and
  the sources that are not built or have no caller (`syncronisationmanager`,
  `file_sync`, `validateConnection`, `ReadFirstEntry`, `deleteOtherEntries`).

## Plan

1. *(done)* The log (`SyncLogFile`, `SyncLog`, `SyncLogger`) and its refinement.
2. *(done)* Requests on several threads and reintegration (`Replica`, `FileRequests`,
   `Reintegration`, `OfflineFS`), runs and the theorems above.
3. *(done)* `FilesystemStatus` and `OfflineRecognizer`: availability from several
   threads, mounts, children, probes.
4. *(done)* `SharePaths`, `Backingtrees`, `ShareTree`, `CacheUpdate`,
   `TreeRequests`, `OfflineTrees`: trees, directories, links and attributes, the
   update of the cache, the refinement of `TreesSpec` and its invariants; places where
   a directory meets a file.
5. *(done)* `Startup` and `FuseSession`: the process, its descriptors, and its end beside
   passes and mount commands.
6. Reintegration of directories and links; conflicts of two paths over a restart;
   a property of the entries that a pass skips.
7. Put `OfflineFS` and `OfflineRecognizer` together: a request that captures the
   availability while `setAvailability` is between its statements.
8. *(done)* Proofs: types of `OfflineTrees` as a whole; then, of paths no two of which
   have one place, what updates and resolutions do.
9. Proofs of what 6 and 7 add. All present safety properties of the passing runs have
   their theorem.

The runs stay few: an added question replaces or joins a run that a later one
covers.
