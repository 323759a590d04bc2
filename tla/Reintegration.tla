----------------------------- MODULE Reintegration -----------------------------
(****************************************************************************)
(* SynchronizationManager::ReintegrateFiles and the two threads that run    *)
(* it: the lazy writer, which starts a pass when the sync flag is down      *)
(* (src/src/lazywrite.cpp), and whoever calls setAvailability(true), which  *)
(* mounts the share and then starts a pass                                  *)
(* (src/src/filesystemstatusmanager.cpp).                                   *)
(*                                                                          *)
(* For every entry of the list it fetched at the start, a pass builds a     *)
(* File, decides what to do with it, does it, and drops the entry.  Each is *)
(* a step: requests, the server and the other thread run in between.        *)
(****************************************************************************)
EXTENDS Replica

\* What a pass has decided for an entry.
Verdicts == {"skip", "create", "copy", "unlink", "conflict"}

AtEntry(pc, todo, e, avail, verdict) ==
  [pc |-> pc, todo |-> todo, entry |-> e, avail |-> avail, verdict |-> verdict]
InPass(pc, todo) == [pc |-> pc, todo |-> todo]

Become(t, state) == th' = [th EXCEPT ![t] = state]

(****************************************************************************)
(* Starting a pass.                                                         *)
(****************************************************************************)
\* Mutant of StartLazywrite: the test of the sync flag is inverted.
StartLazywriteInSync ==
  /\ up /\ "lazy" \in Syncers
  /\ th["lazy"] = Idle
  /\ sync /\ available
  /\ Become("lazy", InPass("list", <<>>))
  /\ UNCHANGED <<files, books, net, sync, up, handle, req, world>>

\* The lazy writer looks at the two flags; every option of lwoption comes to a
\* pass, because the counter it tests is always below 5.
StartLazywrite ==
  /\ up /\ "lazy" \in Syncers
  /\ th["lazy"] = Idle
  /\ ~sync /\ available
  /\ Become("lazy", InPass("list", <<>>))
  /\ UNCHANGED <<files, books, net, sync, up, handle, req, world>>

\* setAvailability(true) raises the flag before it mounts.
SetAvailable ==
  /\ up /\ "net" \in Syncers
  /\ th["net"] = Idle
  /\ ~available
  /\ available' = TRUE
  /\ Become("net", InPass("mount", <<>>))
  /\ UNCHANGED <<files, books, mounted, reachable, sync, up, handle, req, world>>

\* mountfs throws when the mount command fails, as it does without a server and
\* may do on a share that is still mounted.
MountShare ==
  /\ up /\ "net" \in Syncers
  /\ th["net"].pc = "mount"
  /\ \/ /\ reachable
        /\ mounted' = TRUE
        /\ Become("net", InPass("list", <<>>))
        /\ UNCHANGED up
     \/ /\ ~reachable \/ mounted
        /\ Terminate
        /\ UNCHANGED <<mounted, th>>
  /\ UNCHANGED <<files, books, available, reachable, sync, handle, req, world>>

\* GetEntries for the whole log; a torn log makes it throw in the thread.
ListEntries(t) ==
  /\ up /\ th[t].pc = "list"
  /\ IF Parses(log)
     THEN Become(t, InPass("next", Sections(log))) /\ UNCHANGED up
     ELSE Terminate /\ UNCHANGED th
  /\ UNCHANGED <<files, books, net, sync, handle, req, world>>

(****************************************************************************)
(* One entry.                                                               *)
(****************************************************************************)
\* give_me_file: the File keeps the availability of this moment.
TakeEntry(t) ==
  /\ up /\ th[t].pc = "next"
  /\ \E i \in DOMAIN th[t].todo :
       /\ IsNext(th[t].todo, i)
       /\ Become(t, AtEntry("check", Rest(th[t].todo, i), th[t].todo[i],
                            available, "skip"))
  /\ UNCHANGED <<files, books, net, sync, up, handle, req, world>>

\* The conditions of CreateFile, ModifyFile and DeleteFile.
VerdictCreate(p) ==
  CASE ~Exists(cache[p])      -> "skip"
    [] Exists(cache[p]) /\ RemoteStat(p) = Absent -> "create"
    [] OTHER                  -> "conflict"      \* also when lstat fails

VerdictModify(p) ==
  CASE ~Exists(cache[p])      -> "skip"
    [] Exists(cache[p]) /\ (RemoteStat(p) = Absent \/ ChangedOnServer(p)) -> "conflict"
    [] OTHER                  -> "copy"

VerdictDelete(p) ==
  CASE ~RemoteThere(p)        -> "skip"
    [] ChangedOnServer(p)     -> "conflict"
    [] OTHER                  -> "unlink"

Verdict(e, avail) ==
  CASE ~avail         -> "skip"
    [] avail /\ e.type = "c" -> VerdictCreate(e.path)
    [] avail /\ e.type = "m" -> VerdictModify(e.path)
    [] OTHER          -> VerdictDelete(e.path)

CheckEntry(t) ==
  /\ up /\ th[t].pc = "check"
  /\ LET e == th[t].entry
         v == Verdict(e, th[t].avail)
     IN /\ Become(t, [th[t] EXCEPT !.verdict = v,
                                   !.pc = IF v \in {"skip", "conflict"}
                                          THEN "finish" ELSE "apply"])
        /\ conflicts' = IF v = "conflict" THEN conflicts \cup {e.path} ELSE conflicts
  /\ UNCHANGED <<files, log, nextIndex, mtimes, net, sync, up, handle, req, world>>

\* What ends up in a remote file that a pass writes: CreateFile only creates
\* it, ModifyFile copies the cached bytes.
WrittenBy(verdict, p) == IF verdict = "create" THEN "nobody" ELSE cache[p].by

\* update_amtime after a write, by an OFSFile built at that moment.
StampFromRemote(p, written) ==
  /\ cache' = [cache EXCEPT ![p] = Stamped(@, available, written)]
  /\ up' = ~StampThrows(cache[p], available, written)

\* Writing: the remote file is truncated before the cached one is opened, so a
\* cached file that has gone leaves an empty remote file and ends the process,
\* as a server that does not answer does.
ApplyWrite(t) ==
  LET p == th[t].entry.path
      v == th[t].verdict
      empty == [by |-> "nobody", mtime |-> now]
      written == [by |-> WrittenBy(v, p), mtime |-> now]
  IN
  /\ up /\ th[t].pc = "apply" /\ v \in {"create", "copy"}
  /\ CASE RemoteStat(p) = Unreachable ->
            /\ Terminate
            /\ UNCHANGED <<remote, under, cache, known, th>>
       [] RemoteStat(p) # Unreachable /\ v = "copy" /\ ~Exists(cache[p]) ->
            /\ WriteRemote(p, empty)
            /\ Terminate
            /\ UNCHANGED <<cache, known, th>>
       [] OTHER ->
            /\ WriteRemote(p, written)
            /\ known' = IF mounted THEN [known EXCEPT ![p] = Version(written)] ELSE known
            /\ StampFromRemote(p, written)
            /\ Become(t, [th[t] EXCEPT !.pc = "finish"])
  /\ UNCHANGED <<books, net, sync, handle, req, world>>

\* Deleting: an error is returned, and ReintegrateFiles ignores it.
ApplyUnlink(t) ==
  LET p == th[t].entry.path IN
  /\ up /\ th[t].pc = "apply" /\ th[t].verdict = "unlink"
  /\ IF RemoteThere(p)
     THEN /\ WriteRemote(p, Absent)
          /\ known' = IF mounted THEN [known EXCEPT ![p] = Version(Absent)] ELSE known
     ELSE UNCHANGED <<remote, under, known>>
  /\ Become(t, [th[t] EXCEPT !.pc = "finish"])
  /\ UNCHANGED <<cache, books, net, sync, up, handle, req, world>>

\* Mutant of FinishEntry: the pass begins again instead of going on.
FinishEntryAgain(t) ==
  /\ up /\ th[t].pc = "finish"
  /\ mtimes' = [mtimes EXCEPT ![th[t].entry.path] = 0]
  /\ Become(t, InPass("list", <<>>))
  /\ UNCHANGED <<files, log, nextIndex, conflicts, net, sync, up, handle, req, world>>

\* bOK is always true: the base time and the entry go whatever became of it.
FinishEntry(t) ==
  /\ up /\ th[t].pc = "finish"
  /\ mtimes' = [mtimes EXCEPT ![th[t].entry.path] = 0]
  /\ log' \in RemoveResults(log, th[t].entry.number)
  /\ Become(t, InPass("next", th[t].todo))
  /\ UNCHANGED <<files, nextIndex, conflicts, net, sync, up, handle, req, world>>

\* setsync(true) after the pass, by either thread.
EndPass(t) ==
  /\ up /\ th[t].pc = "next"
  /\ IsExhausted(th[t].todo)
  /\ sync' = TRUE
  /\ Become(t, Idle)
  /\ UNCHANGED <<files, books, net, up, handle, req, world>>

Syncing(t) ==
  \/ ListEntries(t)
  \/ TakeEntry(t)
  \/ CheckEntry(t)
  \/ ApplyWrite(t)
  \/ ApplyUnlink(t)
  \/ FinishEntry(t)
  \/ EndPass(t)
================================================================================
