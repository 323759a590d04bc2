---------------------------- MODULE OfflineRecognizer ----------------------------
(****************************************************************************)
(* The thread that watches the server (src/src/offlinerecognizer.cpp): it   *)
(* probes the server in a loop and calls setAvailability of module          *)
(* FilesystemStatus, beside the requests that call it and the D-Bus         *)
(* listener.                                                                *)
(*                                                                          *)
(* The loop's pauses are left out, their length is kept: it counts the      *)
(* failures.  A malformed share URL ends the constructor and not the loop.  *)
(****************************************************************************)
EXTENDS FilesystemStatus

CONSTANTS Protocols,        \* subset of {"stream", "datagram", "unknown"}
          MaxDescriptors    \* free file descriptors of a process that runs out

ASSUME RecognizerAssumption ==
  /\ Protocols \subseteq {"stream", "datagram", "unknown"}
  /\ MaxDescriptors \in Nat

VARIABLES
  protocol,         \* what getservbyname or getProtInfoFor says of the share's protocol
  descriptors,      \* free file descriptors
  loop,             \* where startRecognizer is
  failed,           \* result != SUCCESS, after the last probe
  seconds           \* msec / 1000000

loopVars == <<protocol, descriptors, loop, failed, seconds>>
vars == <<statusVars, loopVars>>

\* A process whose limit is not reached.
Plenty == MaxDescriptors + 1

Init ==
  /\ StatusInit
  /\ protocol \in Protocols
  /\ descriptors \in {MaxDescriptors, Plenty}
  /\ loop = "probe" /\ failed = FALSE /\ seconds = 1

(****************************************************************************)
(* checkConnection: look the host up, create a socket, connect it.  Both    *)
(* ends of the lookup and the socket need a descriptor; the socket is never *)
(* closed.  Connecting a datagram socket asks no server.                    *)
(****************************************************************************)
Answers ==
  CASE protocol = "unknown"                         -> {"UNKNOWN_PROT"}
    [] protocol # "unknown" /\ descriptors = 0      -> {"DNS_ERR", "SOCK_ERR"}
    [] protocol # "unknown" /\ descriptors > 0 /\ reachable -> {"SUCCESS"}
    [] protocol = "stream" /\ descriptors > 0 /\ ~reachable -> {"DNS_ERR", "CONN_ERR"}
    [] OTHER                                        -> {"DNS_ERR", "CONN_ERR", "SUCCESS"}

\* The descriptors left after a probe.
Left(answer) ==
  IF answer \in {"SUCCESS", "CONN_ERR"} /\ descriptors \in 1 .. MaxDescriptors
  THEN descriptors - 1 ELSE descriptors

\* An unknown protocol counts as success.
Probe ==
  /\ up /\ loop = "probe"
  /\ \E answer \in Answers :
       /\ failed' = (answer \notin {"SUCCESS", "UNKNOWN_PROT"})
       /\ descriptors' = Left(answer)
  /\ loop' = "decide"
  /\ UNCHANGED <<statusVars, protocol, seconds>>

\* Mutant of CountFailure: without its limit.
CountFailureOn ==
  /\ up /\ loop = "decide"
  /\ failed /\ available
  /\ seconds' = seconds + 1
  /\ loop' = "probe"
  /\ UNCHANGED <<statusVars, protocol, descriptors, failed>>

\* One failure more, but not yet the fifth.
CountFailure ==
  /\ up /\ loop = "decide"
  /\ failed /\ available /\ seconds < 5
  /\ seconds' = seconds + 1
  /\ loop' = "probe"
  /\ UNCHANGED <<statusVars, protocol, descriptors, failed>>

\* Mutant of Disconnect: one failure too late.
DisconnectLate ==
  /\ up /\ loop = "decide"
  /\ failed /\ available /\ seconds > 5
  /\ Enter("recognizer", FALSE)
  /\ loop' = "set"
  /\ UNCHANGED <<up, available, mounts, children, reachable, used, asked, overlapped>>
  /\ UNCHANGED <<protocol, descriptors, failed, seconds>>

\* The fifth: setAvailability(false).
Disconnect ==
  /\ up /\ loop = "decide"
  /\ failed /\ available /\ seconds >= 5
  /\ Enter("recognizer", FALSE)
  /\ loop' = "set"
  /\ UNCHANGED <<up, available, mounts, children, reachable, used, asked, overlapped>>
  /\ UNCHANGED <<protocol, descriptors, failed, seconds>>

Suspect ==
  /\ up /\ loop = "decide"
  /\ ~failed /\ ~available
  /\ loop' = "confirm"
  /\ UNCHANGED <<statusVars, protocol, descriptors, failed, seconds>>

\* The failures counted so far stay counted.
NothingToDo ==
  /\ up /\ loop = "decide"
  /\ failed # available
  /\ loop' = "probe"
  /\ UNCHANGED <<statusVars, protocol, descriptors, failed, seconds>>

\* Mutant of Confirm: a success is taken for a failure.
ConfirmInverted ==
  /\ up /\ loop = "confirm"
  /\ \E answer \in Answers :
       /\ descriptors' = Left(answer)
       /\ IF answer # "SUCCESS"
          THEN Enter("recognizer", TRUE) /\ loop' = "set" /\ UNCHANGED seconds
          ELSE loop' = "probe" /\ seconds' = 1 /\ UNCHANGED call
  /\ UNCHANGED <<up, available, mounts, children, reachable, used, asked, overlapped>>
  /\ UNCHANGED <<protocol, failed>>

\* "try again, just to be sure": here an unknown protocol is not a success.
Confirm ==
  /\ up /\ loop = "confirm"
  /\ \E answer \in Answers :
       /\ descriptors' = Left(answer)
       /\ IF answer = "SUCCESS"
          THEN Enter("recognizer", TRUE) /\ loop' = "set" /\ UNCHANGED seconds
          ELSE loop' = "probe" /\ seconds' = 1 /\ UNCHANGED call
  /\ UNCHANGED <<up, available, mounts, children, reachable, used, asked, overlapped>>
  /\ UNCHANGED <<protocol, failed>>

SetReturns ==
  /\ up /\ loop = "set" /\ IsOutside("recognizer")
  /\ seconds' = 1
  /\ loop' = "probe"
  /\ UNCHANGED <<statusVars, protocol, descriptors, failed>>

startRecognizer ==
  \/ Probe
  \/ CountFailure
  \/ Disconnect
  \/ Suspect
  \/ NothingToDo
  \/ Confirm
  \/ SetReturns

Next == startRecognizer \/ (StatusNext /\ UNCHANGED loopVars)

Spec == Init /\ [][Next]_vars

\* The recogniser's loop and the calls run on their own threads, a probe has a
\* time limit (that of connect), and the mount command ends.
Fairness ==
  /\ WF_vars(startRecognizer)
  /\ \A t \in Callers : WF_vars(SetAvailability(t) /\ UNCHANGED loopVars)
  /\ WF_vars(MountCommandEnds /\ UNCHANGED loopVars)

FairSpec == Spec /\ Fairness
--------------------------------------------------------------------------------
TypeOK ==
  /\ StatusTypeOK
  /\ protocol \in Protocols
  /\ descriptors \in 0 .. Plenty
  /\ loop \in {"probe", "decide", "confirm", "set"}
  /\ failed \in BOOLEAN /\ seconds \in 1 .. 5

\* The threads inside wait().
Waiting == {t \in Callers : call[t].pc = "wait"}

\* Calls of setAvailability share wait() with each other and with the pipes of
\* the lazy writer, and still no call waits for a child that somebody else has
\* taken: there is one left for each.  (mountfs reads status after wait() whatever
\* wait() returned.)
EveryWaitHasAChild == Cardinality(Waiting) <= MountChildren + PipeChildren

\* As long as calls do not overlap, an available share is mounted when no call is
\* under way, although the D-Bus listener clears the flag at any moment and
\* unmounting may fail.  (setAvailability)
AvailableMeansMounted ==
  (up /\ available /\ ~overlapped /\ \A t \in Callers : IsOutside(t)) => mounts > 0

\* A share whose server answers becomes available again, whoever has set it
\* unavailable, as long as its protocol is known and descriptors last.
\* (startRecognizer)
ComesBack ==
  []<>(\/ available \/ ~reachable \/ ~up
       \/ protocol = "unknown" \/ descriptors # Plenty)

\* A share whose server has gone for good becomes unavailable, also if requests
\* set it available again, if it is reached over a stream.  (startRecognizer)
GoesOffline == []<>(~available \/ reachable \/ ~up \/ protocol # "stream")

\* A user who has switched to offline stays offline until a request asks for the
\* share again.  (docs/usage/getting_started.md: "You are now working in
\* disconnected mode"; "Enter the following command on the root of your ofs
\* mountpoint to switch back online")
StaysOffline ==
  [][(up /\ asked = "offline" /\ ~available) => ~available']_vars
================================================================================
