----------------------------- MODULE FilesystemStatus -----------------------------
(****************************************************************************)
(* FilesystemStatusManager (src/src/filesystemstatusmanager.cpp): the flag  *)
(* available, the mount of the share, and setAvailability, which several    *)
(* threads call and nothing protects.  Who calls it: requests that set or   *)
(* remove the attribute ofs.available of the root, and the recogniser       *)
(* (module OfflineRecognizer).  The D-Bus listener clears the flag without  *)
(* a call.                                                                  *)
(*                                                                          *)
(* A reintegration is one step here, its work and the flag sync are those   *)
(* of module Reintegration.  Shares of type file, which are never mounted,  *)
(* are left out.                                                            *)
(****************************************************************************)
EXTENDS Integers, FiniteSets

CONSTANTS Requests,       \* request threads that change ofs.available
          MaxToggles,     \* bound: such requests
          MaxSignals,     \* bound: D-Bus signals that our device is gone
          MaxPipes,       \* bound: measurements of the load
          MaxMounts       \* bound: mounts one above the other

ASSUME StatusAssumption ==
  /\ MaxToggles \in Nat /\ MaxSignals \in Nat /\ MaxPipes \in Nat
  /\ MaxMounts \in Nat \ {0}
  /\ "recognizer" \notin Requests /\ IsFiniteSet(Requests)

VARIABLES
  up,             \* the process runs
  available,      \* the flag
  mounts,         \* how many mounts lie on the mount point
  children,       \* how many child processes of each kind have not been waited for
  call,           \* where each thread is in setAvailability
  reachable,      \* the server answers
  used,           \* requests, signals and measurements so far, for the bounds
  asked,          \* history: the last request's wish
  overlapped      \* history: two calls have been inside at once, or a wait() has
                  \* met more than one child

statusVars == <<up, available, mounts, children, call, reachable, used, asked, overlapped>>

Callers == Requests \cup {"recognizer"}

\* mount commands, and the pipes that the lazy writer measures the load with
Kinds == {"mounting", "mounted", "failed", "measuring", "measured"}
Ended == {"mounted", "failed", "measured"}
MountChildren == children["mounting"] + children["mounted"] + children["failed"]
PipeChildren == children["measuring"] + children["measured"]

Outside == [pc |-> "outside", value |-> FALSE]
At(pc, value) == [pc |-> pc, value |-> value]
IsOutside(t) == call[t] = Outside

\* main has mounted the share before anything else.
StatusInit ==
  /\ up = TRUE /\ available = TRUE /\ mounts = 1
  /\ children = [k \in Kinds |-> 0]
  /\ call = [t \in Callers |-> Outside]
  /\ reachable = TRUE
  /\ used = [toggles |-> 0, signals |-> 0, pipes |-> 0]
  /\ asked = "online" /\ overlapped = FALSE

(****************************************************************************)
(* setAvailability.                                                         *)
(****************************************************************************)
Go(t, pc) == call' = [call EXCEPT ![t].pc = pc]
Leave(t) == call' = [call EXCEPT ![t] = Outside]
Enter(t, value) == call' = [call EXCEPT ![t] = At("test", value)]

\* if(available != value)
TestFlag(t) ==
  /\ up /\ call[t].pc = "test"
  /\ IF available = call[t].value
     THEN Leave(t) /\ UNCHANGED overlapped
     ELSE /\ Go(t, "assign")
          /\ overlapped' = (overlapped \/ \E s \in Callers \ {t} :
                              call[s].pc \notin {"outside", "test"})
  /\ UNCHANGED <<up, available, mounts, children, reachable, used, asked>>

AssignFlag(t) ==
  /\ up /\ call[t].pc = "assign"
  /\ available' = call[t].value
  /\ Go(t, "branch")
  /\ UNCHANGED <<up, mounts, children, reachable, used, asked, overlapped>>

\* if(available): the flag is read without a lock, so that the compiler may take
\* the value just assigned or load what another thread has stored since.
Branch(t) ==
  /\ up /\ call[t].pc = "branch"
  /\ \E flag \in {call[t].value, available} :
       Go(t, IF flag THEN "mount" ELSE "unmount")
  /\ UNCHANGED <<up, available, mounts, children, reachable, used, asked, overlapped>>

\* Mutant of ForkMount: the command is not started, but waited for.
ForkMountFailed(t) ==
  /\ up /\ call[t].pc = "mount"
  /\ Go(t, "wait")
  /\ UNCHANGED <<up, available, mounts, children, reachable, used, asked, overlapped>>

ForkMount(t) ==
  /\ up /\ call[t].pc = "mount"
  /\ children' = [children EXCEPT !["mounting"] = @ + 1]
  /\ Go(t, "wait")
  /\ UNCHANGED <<up, available, mounts, reachable, used, asked, overlapped>>

\* The mount command ends: it needs the server, and on a share that is mounted
\* already it may add a second mount or fail.
MountCommandEnds ==
  /\ up /\ children["mounting"] > 0
  /\ \/ /\ reachable /\ mounts < MaxMounts
        /\ mounts' = mounts + 1
        /\ children' = [children EXCEPT !["mounting"] = @ - 1, !["mounted"] = @ + 1]
     \/ /\ ~reachable \/ mounts > 0
        /\ children' = [children EXCEPT !["mounting"] = @ - 1, !["failed"] = @ + 1]
        /\ UNCHANGED mounts
  /\ UNCHANGED <<up, available, call, reachable, used, asked, overlapped>>

\* Mutant of WaitForChild: the exit status is not looked at.
WaitForChildUnchecked(t) ==
  /\ up /\ call[t].pc = "wait"
  /\ \E k \in Ended :
       /\ children[k] > 0
       /\ children' = [children EXCEPT ![k] = @ - 1]
       /\ overlapped' = (overlapped \/ MountChildren + PipeChildren > 1)
  /\ Go(t, "reintegrate")
  /\ UNCHANGED <<up, available, mounts, reachable, used, asked>>

\* wait(&status) takes whichever child has ended; mountfs throws when its status
\* is not 0, and nobody catches that.
WaitForChild(t) ==
  /\ up /\ call[t].pc = "wait"
  /\ \E k \in Ended :
       /\ children[k] > 0
       /\ children' = [children EXCEPT ![k] = @ - 1]
       /\ overlapped' = (overlapped \/ MountChildren + PipeChildren > 1)
       /\ up' = (k # "failed")
  /\ Go(t, "reintegrate")
  /\ UNCHANGED <<available, mounts, reachable, used, asked>>

\* ReintegrateAll returns, or throws on a log it cannot read.
Reintegrate(t) ==
  /\ up /\ call[t].pc = "reintegrate"
  /\ up' \in BOOLEAN
  /\ Leave(t)
  /\ UNCHANGED <<available, mounts, children, reachable, used, asked, overlapped>>

\* umount2: it takes the uppermost mount off, or fails (nothing is mounted, the
\* mount point is busy), which is only logged.
UnmountFs(t) ==
  /\ up /\ call[t].pc = "unmount"
  /\ mounts' \in (IF mounts > 0 THEN {mounts - 1, mounts} ELSE {0})
  /\ Leave(t)
  /\ UNCHANGED <<up, available, children, reachable, used, asked, overlapped>>

SetAvailability(t) ==
  \/ TestFlag(t)
  \/ AssignFlag(t)
  \/ Branch(t)
  \/ ForkMount(t)
  \/ WaitForChild(t)
  \/ Reintegrate(t)
  \/ UnmountFs(t)

(****************************************************************************)
(* Callers and surroundings.                                                *)
(****************************************************************************)
\* op_setxattr and op_removexattr of ofs.available on the root of the share.
ChangeAttribute(t, value) ==
  /\ up /\ IsOutside(t)
  /\ used.toggles < MaxToggles
  /\ used' = [used EXCEPT !.toggles = @ + 1]
  /\ asked' = IF value THEN "online" ELSE "offline"
  /\ Enter(t, value)
  /\ UNCHANGED <<up, available, mounts, children, reachable, overlapped>>

op_setxattr(t) == ChangeAttribute(t, TRUE)
op_removexattr(t) == ChangeAttribute(t, FALSE)

\* DbusListenerRun: NetworkManager says that a device of the list is not active
\* any more.  The share stays mounted.
DeviceNoLongerActive ==
  /\ up /\ used.signals < MaxSignals
  /\ used' = [used EXCEPT !.signals = @ + 1]
  /\ available' = FALSE
  /\ UNCHANGED <<up, mounts, children, call, reachable, asked, overlapped>>

\* The lazy writer, when a change is pending and the share available, runs a
\* command and reads its output; pclose waits for this child only.
OpenPipe ==
  /\ up /\ available
  /\ used.pipes < MaxPipes
  /\ used' = [used EXCEPT !.pipes = @ + 1]
  /\ PipeChildren = 0
  /\ children' = [children EXCEPT !["measuring"] = 1]
  /\ UNCHANGED <<up, available, mounts, call, reachable, asked, overlapped>>

PipeEnds ==
  /\ up /\ children["measuring"] > 0
  /\ children' = [children EXCEPT !["measuring"] = 0, !["measured"] = 1]
  /\ UNCHANGED <<up, available, mounts, call, reachable, used, asked, overlapped>>

ClosePipe ==
  /\ up /\ children["measured"] > 0
  /\ children' = [children EXCEPT !["measured"] = 0]
  /\ UNCHANGED <<up, available, mounts, call, reachable, used, asked, overlapped>>

\* fuse_destroy ends the process; with the option to unmount it unmounts.
fuse_destroy ==
  /\ up
  /\ up' = FALSE
  /\ mounts' \in (IF mounts > 0 THEN {mounts - 1, mounts} ELSE {0})
  /\ UNCHANGED <<available, children, call, reachable, used, asked, overlapped>>

ServerChanges ==
  /\ up
  /\ reachable' = ~reachable
  /\ UNCHANGED <<up, available, mounts, children, call, used, asked, overlapped>>

StatusNext ==
  \/ \E t \in Callers : SetAvailability(t)
  \/ \E t \in Requests : op_setxattr(t)
  \/ \E t \in Requests : op_removexattr(t)
  \/ DeviceNoLongerActive
  \/ MountCommandEnds
  \/ OpenPipe
  \/ PipeEnds
  \/ ClosePipe
  \/ fuse_destroy
  \/ ServerChanges

StatusTypeOK ==
  /\ up \in BOOLEAN /\ available \in BOOLEAN /\ reachable \in BOOLEAN
  /\ overlapped \in BOOLEAN /\ asked \in {"online", "offline"}
  /\ mounts \in Nat
  /\ children \in [Kinds -> Nat]
  /\ call \in [Callers -> [pc : {"outside", "test", "assign", "branch", "mount", "wait",
                                 "reintegrate", "unmount"}, value : BOOLEAN]]
  /\ used \in [toggles : Nat, signals : Nat, pipes : Nat]
================================================================================
