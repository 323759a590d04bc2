------------------------ MODULE OfflineRecognizer_proofs ------------------------
(****************************************************************************)
(* OfflineRecognizer for any finite number of request threads and every     *)
(* bound: type correctness, and that each thread in wait() has a child left *)
(* to wait for.                                                             *)
(****************************************************************************)
EXTENDS OfflineRecognizer, FiniteSetTheorems, TLAPS

USE StatusAssumption, RecognizerAssumption DEF StatusAssumption, RecognizerAssumption
USE DEF statusVars, loopVars, Callers, Kinds, Ended, Outside, At

CallState ==
  [pc : {"outside", "test", "assign", "branch", "mount", "wait", "reintegrate", "unmount"},
   value : BOOLEAN]

(****************************************************************************)
(* Type correctness.                                                        *)
(****************************************************************************)
\* What a thread that goes on in setAvailability, enters or leaves it makes of call.
LEMMA CallMoves ==
  ASSUME call \in [Callers -> CallState], NEW t \in Callers,
         NEW pc \in {"test", "assign", "branch", "mount", "wait", "reintegrate", "unmount"},
         NEW value \in BOOLEAN,
         Go(t, pc) \/ Leave(t) \/ Enter(t, value)
  PROVE  call' \in [Callers -> CallState]
<1>1. call[t].value \in BOOLEAN
  BY DEF CallState
<1>2. [call[t] EXCEPT !.pc = pc] \in CallState
  BY DEF CallState
<1>3. Outside \in CallState /\ At("test", value) \in CallState
  BY DEF CallState
<1> HIDE DEF CallState, Outside, At
<1> QED BY <1>2, <1>3 DEF Go, Leave, Enter

\* A step inside setAvailability keeps the types.
LEMMA SetAvailabilityType ==
  ASSUME StatusTypeOK, NEW t \in Callers, SetAvailability(t)
  PROVE  StatusTypeOK'
<1> USE DEF StatusTypeOK
<1>0. call \in [Callers -> CallState]
  BY DEF CallState
<1>1. CASE TestFlag(t)
  BY <1>0, <1>1, CallMoves DEF TestFlag, CallState
<1>2. CASE AssignFlag(t)
  BY <1>0, <1>2, CallMoves DEF AssignFlag, CallState
<1>3. CASE Branch(t)
  BY <1>0, <1>3, CallMoves DEF Branch, CallState
<1>4. CASE ForkMount(t)
  BY <1>0, <1>4, CallMoves DEF ForkMount, CallState
<1>5. CASE WaitForChild(t)
  <2>1. call' \in [Callers -> CallState]
    BY <1>0, <1>5, CallMoves DEF WaitForChild
  <2>2. children' \in [Kinds -> Nat]
    BY <1>5 DEF WaitForChild
  <2>3. up' \in BOOLEAN /\ overlapped' \in BOOLEAN
    BY <1>5 DEF WaitForChild
  <2> QED BY <1>5, <2>1, <2>2, <2>3 DEF WaitForChild, CallState
<1>6. CASE Reintegrate(t)
  BY <1>0, <1>6, CallMoves DEF Reintegrate, CallState
<1>7. CASE UnmountFs(t)
  <2>1. call' \in [Callers -> CallState]
    BY <1>0, <1>7, CallMoves DEF UnmountFs
  <2>2. mounts' \in Nat
    BY <1>7 DEF UnmountFs
  <2> QED BY <1>7, <2>1, <2>2 DEF UnmountFs, CallState
<1> QED BY <1>1, <1>2, <1>3, <1>4, <1>5, <1>6, <1>7 DEF SetAvailability

\* So does every other step of the callers and of the surroundings.
LEMMA SurroundingsType ==
  ASSUME StatusTypeOK,
         \/ \E t \in Requests : op_setxattr(t) \/ op_removexattr(t)
         \/ DeviceNoLongerActive \/ MountCommandEnds \/ OpenPipe \/ PipeEnds
         \/ ClosePipe \/ fuse_destroy \/ ServerChanges
  PROVE  StatusTypeOK'
<1> USE DEF StatusTypeOK
<1>0. call \in [Callers -> CallState]
  BY DEF CallState
<1>1. ASSUME NEW t \in Requests, NEW value \in BOOLEAN, ChangeAttribute(t, value)
      PROVE  StatusTypeOK'
  BY <1>0, <1>1, CallMoves DEF ChangeAttribute, CallState
<1>2. CASE \E t \in Requests : op_setxattr(t) \/ op_removexattr(t)
  BY <1>1, <1>2 DEF op_setxattr, op_removexattr
<1>3. CASE DeviceNoLongerActive
  <2>1. used' \in [toggles : Nat, signals : Nat, pipes : Nat]
    BY <1>3 DEF DeviceNoLongerActive
  <2>2. available' \in BOOLEAN
    BY <1>3 DEF DeviceNoLongerActive
  <2>3. UNCHANGED <<up, mounts, children, call, reachable, asked, overlapped>>
    BY <1>3 DEF DeviceNoLongerActive
  <2> QED BY <2>1, <2>2, <2>3
<1>4. CASE MountCommandEnds
  BY <1>4 DEF MountCommandEnds
<1>5. CASE OpenPipe
  BY <1>5 DEF OpenPipe
<1>6. CASE PipeEnds
  BY <1>6 DEF PipeEnds
<1>7. CASE ClosePipe
  BY <1>7 DEF ClosePipe
<1>8. CASE fuse_destroy
  <2>1. mounts' \in Nat
    BY <1>8 DEF fuse_destroy
  <2>2. up' \in BOOLEAN
    BY <1>8 DEF fuse_destroy
  <2>3. UNCHANGED <<available, children, call, reachable, used, asked, overlapped>>
    BY <1>8 DEF fuse_destroy
  <2> QED BY <2>1, <2>2, <2>3
<1>9. CASE ServerChanges
  BY <1>9 DEF ServerChanges
<1> QED BY <1>2, <1>3, <1>4, <1>5, <1>6, <1>7, <1>8, <1>9

\* And so does the loop of the recogniser.
LEMMA LoopType ==
  ASSUME TypeOK, startRecognizer
  PROVE  TypeOK'
<1> USE DEF TypeOK, StatusTypeOK
<1>0. call \in [Callers -> CallState]
  BY DEF CallState
<1>1. ASSUME NEW answer PROVE Left(answer) \in 0 .. Plenty
  BY DEF Left, Plenty
<1>2. CASE Probe
  BY <1>1, <1>2 DEF Probe
<1>3. CASE CountFailure
  BY <1>3 DEF CountFailure
<1>4. CASE Disconnect
  BY <1>0, <1>4, CallMoves DEF Disconnect, CallState
<1>5. CASE Suspect \/ NothingToDo \/ SetReturns
  BY <1>5 DEF Suspect, NothingToDo, SetReturns
<1>6. CASE Confirm
  <2>1. call' \in [Callers -> CallState]
    BY <1>0, <1>6, CallMoves DEF Confirm
  <2>2. descriptors' \in 0 .. Plenty
    BY <1>1, <1>6 DEF Confirm
  <2>3. loop' \in {"probe", "set"} /\ seconds' \in {1, seconds}
    BY <1>6, Zenon DEF Confirm
  <2>4. UNCHANGED <<up, available, mounts, children, reachable, used, asked, overlapped,
                    protocol, failed>>
    BY <1>6 DEF Confirm
  <2> QED BY <2>1, <2>2, <2>3, <2>4 DEF CallState, Plenty
<1> QED BY <1>2, <1>3, <1>4, <1>5, <1>6 DEF startRecognizer

\* Every step keeps the types.
LEMMA TypeStep ==
  ASSUME TypeOK, [Next]_vars
  PROVE  TypeOK'
<1>1. CASE startRecognizer
  BY <1>1, LoopType
<1>2. CASE StatusNext /\ UNCHANGED loopVars
  <2>1. StatusTypeOK'
    BY <1>2, SetAvailabilityType, SurroundingsType DEF StatusNext, TypeOK
  <2> QED BY <1>2, <2>1 DEF TypeOK, Plenty
<1>3. CASE UNCHANGED vars
  BY <1>3 DEF vars, TypeOK, StatusTypeOK, Plenty
<1> QED BY <1>1, <1>2, <1>3 DEF Next

\* The initial states are of the types.
LEMMA TypeInit == Init => TypeOK
<1> SUFFICES ASSUME Init PROVE TypeOK
  OBVIOUS
<1>1. call \in [Callers -> CallState] /\ children \in [Kinds -> Nat]
  BY DEF Init, StatusInit, CallState
<1>2. used \in [toggles : Nat, signals : Nat, pipes : Nat]
  BY DEF Init, StatusInit
<1>3. up \in BOOLEAN /\ available \in BOOLEAN /\ reachable \in BOOLEAN
      /\ overlapped \in BOOLEAN /\ asked \in {"online", "offline"} /\ mounts \in Nat
  BY DEF Init, StatusInit
<1>4. protocol \in Protocols /\ loop \in {"probe", "decide", "confirm", "set"}
      /\ seconds \in 1 .. 5
  BY DEF Init
<1>5. failed \in BOOLEAN
  BY DEF Init
<1>6. descriptors \in 0 .. Plenty
  BY DEF Init, Plenty
<1> QED BY <1>1, <1>2, <1>3, <1>4, <1>5, <1>6 DEF TypeOK, StatusTypeOK, CallState

\* Type correctness.
THEOREM RecognizerTypeCorrect == Spec => []TypeOK
BY TypeInit, TypeStep, PTL DEF Spec

(****************************************************************************)
(* wait().                                                                  *)
(****************************************************************************)
\* EveryWaitHasAChild is not inductive: pclose takes a child and no thread stops
\* waiting.  But pclose takes a child of the lazy writer, and those are extra:
\* the mount commands alone suffice.  A wait() that takes one of the lazy writer's
\* leaves one of them too many.
MountsSuffice == Cardinality(Waiting) <= MountChildren

\* The recogniser is outside setAvailability except where its loop calls it.
LoopIsOutside == loop # "set" => IsOutside("recognizer")

\* The threads in wait() are finitely many.
LEMMA WaitingFinite == IsFiniteSet(Waiting) /\ Cardinality(Waiting) \in Nat
<1>1. IsFiniteSet(Callers)
  BY FS_AddElement
<1>2. Waiting \subseteq Callers
  BY DEF Waiting
<1> QED BY <1>1, <1>2, FS_Subset, FS_CardinalityType

\* A step that takes no thread into wait() or out of it.
LEMMA SameWaiting ==
  ASSUME MountsSuffice, Waiting' = Waiting, MountChildren' = MountChildren
  PROVE  MountsSuffice'
BY DEF MountsSuffice

\* A thread that moves between other places than wait() leaves the waiting alone.
LEMMA MovesElsewhere ==
  ASSUME call \in [Callers -> CallState], NEW t \in Callers, call[t].pc # "wait",
         NEW pc, pc # "wait", NEW value,
         Go(t, pc) \/ Leave(t) \/ Enter(t, value)
  PROVE  Waiting' = Waiting
BY DEF Waiting, Go, Leave, Enter, CallState

\* ForkMount adds a thread and a child.
LEMMA ForkMountSuffices ==
  ASSUME TypeOK, MountsSuffice, NEW t \in Callers, ForkMount(t)
  PROVE  MountsSuffice'
<1>1. call \in [Callers -> CallState] /\ children \in [Kinds -> Nat]
  BY DEF TypeOK, StatusTypeOK, CallState
<1>2. t \notin Waiting /\ Waiting' = Waiting \cup {t}
  BY <1>1 DEF ForkMount, Waiting, Go, CallState
<1>3. Cardinality(Waiting') = Cardinality(Waiting) + 1
  BY <1>2, WaitingFinite, FS_AddElement
<1>4. MountChildren' = MountChildren + 1
  BY <1>1 DEF ForkMount, MountChildren
<1> QED BY <1>1, <1>3, <1>4, WaitingFinite DEF MountsSuffice, MountChildren

\* WaitForChild takes a thread away, and at most one mount command.
LEMMA WaitForChildSuffices ==
  ASSUME TypeOK, MountsSuffice, NEW t \in Callers, WaitForChild(t)
  PROVE  MountsSuffice'
<1>1. call \in [Callers -> CallState] /\ children \in [Kinds -> Nat]
  BY DEF TypeOK, StatusTypeOK, CallState
<1>2. t \in Waiting /\ Waiting' = Waiting \ {t}
  BY <1>1 DEF WaitForChild, Waiting, Go, CallState
<1>3. Cardinality(Waiting') = Cardinality(Waiting) - 1
  BY <1>2, WaitingFinite, FS_RemoveElement
<1>4. PICK k \in Ended : children[k] > 0 /\ children' = [children EXCEPT ![k] = @ - 1]
  BY DEF WaitForChild
<1>5. MountChildren' >= MountChildren - 1
  BY <1>1, <1>4 DEF MountChildren
<1>6. MountChildren \in Nat /\ MountChildren' \in Int
  BY <1>1, <1>4 DEF MountChildren
<1> QED BY <1>3, <1>5, <1>6, WaitingFinite DEF MountsSuffice

\* A call of another thread moves that thread only, and a call of the recogniser
\* itself is not outside.
LEMMA LoopIsOutsideStep ==
  ASSUME TypeOK, LoopIsOutside, [Next]_vars
  PROVE  LoopIsOutside'
<1>0. call \in [Callers -> CallState] /\ "recognizer" \in Callers
  BY DEF TypeOK, StatusTypeOK, CallState
<1>1. ASSUME NEW t \in Callers, SetAvailability(t), UNCHANGED loop
      PROVE  LoopIsOutside'
  <2>1. call[t].pc # "outside"
    BY <1>1 DEF SetAvailability, TestFlag, AssignFlag, Branch, ForkMount, WaitForChild,
                Reintegrate, UnmountFs
  <2>2. (\E pc : Go(t, pc)) \/ Leave(t)
    BY <1>1 DEF SetAvailability, TestFlag, AssignFlag, Branch, ForkMount, WaitForChild,
                Reintegrate, UnmountFs
  <2>3. CASE t = "recognizer"
    BY <1>1, <2>1, <2>3 DEF LoopIsOutside, IsOutside
  <2>4. CASE t # "recognizer"
    BY <1>0, <1>1, <2>2, <2>4 DEF LoopIsOutside, IsOutside, Go, Leave
  <2> QED BY <2>3, <2>4
<1>2. ASSUME NEW t \in Requests, NEW value, ChangeAttribute(t, value), UNCHANGED loop
      PROVE  LoopIsOutside'
  BY <1>0, <1>2 DEF ChangeAttribute, Enter, LoopIsOutside, IsOutside
<1>3. ASSUME \/ DeviceNoLongerActive \/ MountCommandEnds \/ OpenPipe \/ PipeEnds
             \/ ClosePipe \/ fuse_destroy \/ ServerChanges,
             UNCHANGED loop
      PROVE  LoopIsOutside'
  BY <1>3 DEF DeviceNoLongerActive, MountCommandEnds, OpenPipe, PipeEnds, ClosePipe,
              fuse_destroy, ServerChanges, LoopIsOutside, IsOutside
<1>4. CASE StatusNext /\ UNCHANGED loopVars
  BY <1>1, <1>2, <1>3, <1>4 DEF StatusNext, op_setxattr, op_removexattr
<1>5. CASE startRecognizer
  BY <1>5 DEF startRecognizer, Probe, CountFailure, Disconnect, Suspect, NothingToDo,
              Confirm, SetReturns, LoopIsOutside, IsOutside
<1>6. CASE UNCHANGED vars
  BY <1>6 DEF vars, LoopIsOutside, IsOutside
<1> QED BY <1>4, <1>5, <1>6 DEF Next

\* Every step keeps a mount command for each waiting thread.
LEMMA SufficeStep ==
  ASSUME TypeOK, LoopIsOutside, MountsSuffice, [Next]_vars
  PROVE  MountsSuffice'
<1>0. call \in [Callers -> CallState] /\ children \in [Kinds -> Nat]
  BY DEF TypeOK, StatusTypeOK, CallState
<1>1. ASSUME NEW t \in Callers, SetAvailability(t)
      PROVE  MountsSuffice'
  <2>1. CASE ForkMount(t)
    BY <2>1, ForkMountSuffices
  <2>2. CASE WaitForChild(t)
    BY <2>2, WaitForChildSuffices
  <2>3. CASE TestFlag(t) \/ AssignFlag(t) \/ Branch(t) \/ Reintegrate(t) \/ UnmountFs(t)
    <3>1. Waiting' = Waiting
      BY <1>0, <2>3, MovesElsewhere DEF TestFlag, AssignFlag, Branch, Reintegrate, UnmountFs
    <3>2. MountChildren' = MountChildren
      BY <2>3 DEF TestFlag, AssignFlag, Branch, Reintegrate, UnmountFs, MountChildren
    <3> QED BY <3>1, <3>2, SameWaiting
  <2> QED BY <1>1, <2>1, <2>2, <2>3 DEF SetAvailability
<1>2. ASSUME NEW t \in Requests, NEW value \in BOOLEAN, ChangeAttribute(t, value)
      PROVE  MountsSuffice'
  <2>1. Waiting' = Waiting
    BY <1>0, <1>2, MovesElsewhere DEF ChangeAttribute, IsOutside
  <2>2. MountChildren' = MountChildren
    BY <1>2 DEF ChangeAttribute, MountChildren
  <2> QED BY <2>1, <2>2, SameWaiting
<1>3. CASE MountCommandEnds \/ OpenPipe \/ PipeEnds \/ ClosePipe
  <2>1. Waiting' = Waiting
    BY <1>3 DEF MountCommandEnds, OpenPipe, PipeEnds, ClosePipe, Waiting
  <2>2. MountChildren' = MountChildren
    BY <1>0, <1>3 DEF MountCommandEnds, OpenPipe, PipeEnds, ClosePipe, MountChildren
  <2> QED BY <2>1, <2>2, SameWaiting
<1>4. CASE DeviceNoLongerActive \/ fuse_destroy \/ ServerChanges \/ UNCHANGED vars
  <2>1. Waiting' = Waiting /\ MountChildren' = MountChildren
    BY <1>4 DEF DeviceNoLongerActive, fuse_destroy, ServerChanges, vars, Waiting,
                MountChildren
  <2> QED BY <2>1, SameWaiting
<1>5. CASE startRecognizer
  <2>1. MountChildren' = MountChildren
    BY <1>5 DEF startRecognizer, Probe, CountFailure, Disconnect, Suspect, NothingToDo,
                Confirm, SetReturns, MountChildren
  <2>2. CASE Disconnect \/ Confirm
    <3>1. "recognizer" \in Callers
      OBVIOUS
    <3>2. call["recognizer"].pc # "wait"
      <4>1. loop # "set"
        BY <2>2 DEF Disconnect, Confirm
      <4>2. call["recognizer"] = Outside
        BY <4>1 DEF LoopIsOutside, IsOutside
      <4> QED BY <4>2
    <3>3. Waiting' = Waiting
      BY <1>0, <2>2, <3>1, <3>2, MovesElsewhere DEF Disconnect, Confirm, Waiting
    <3> QED BY <2>1, <3>3, SameWaiting
  <2>3. CASE Probe \/ CountFailure \/ Suspect \/ NothingToDo \/ SetReturns
    <3>1. Waiting' = Waiting
      BY <2>3 DEF Probe, CountFailure, Suspect, NothingToDo, SetReturns, Waiting
    <3> QED BY <2>1, <3>1, SameWaiting
  <2> QED BY <1>5, <2>2, <2>3 DEF startRecognizer
<1> QED BY <1>1, <1>2, <1>3, <1>4, <1>5
        DEF Next, StatusNext, op_setxattr, op_removexattr

\* No thread waits for a child that another one has taken: status is always
\* written before mountfs reads it.
THEOREM WaitsAreServed == Spec => []EveryWaitHasAChild
<1>1. Init => MountsSuffice
  <2> SUFFICES ASSUME Init PROVE MountsSuffice
    OBVIOUS
  <2>1. Waiting = {}
    BY DEF Init, StatusInit, Waiting
  <2> QED BY <2>1, FS_EmptySet DEF Init, StatusInit, MountsSuffice, MountChildren
<1>2. TypeOK /\ MountsSuffice => EveryWaitHasAChild
  BY WaitingFinite
     DEF TypeOK, StatusTypeOK, MountsSuffice, EveryWaitHasAChild, MountChildren, PipeChildren
<1>3. Init => LoopIsOutside
  BY DEF Init, StatusInit, LoopIsOutside, IsOutside
<1> QED BY <1>1, <1>2, <1>3, LoopIsOutsideStep, SufficeStep, RecognizerTypeCorrect, PTL
        DEF Spec

(****************************************************************************)
(* An available share is mounted.                                           *)
(****************************************************************************)
\* A thread that has found the flag different from what it is to be.
Inside(t) == call[t].pc \notin {"outside", "test"}

\* What the flag and the mount are where a thread is.  The D-Bus listener may clear
\* the flag at any moment, so that only what it cannot break is kept.
Fits(t) ==
  /\ call[t].pc = "assign" /\ call[t].value = TRUE => available = FALSE
  /\ call[t].pc = "branch" /\ call[t].value = FALSE => available = FALSE
  /\ call[t].pc = "unmount" => available = FALSE
  /\ call[t].pc = "reintegrate" => mounts > 0

\* While calls do not overlap one thread at most is inside, and the only mount command
\* is the one it waits for.
OneCall ==
  up = TRUE /\ overlapped = FALSE =>
    /\ \A s, t \in Callers : Inside(s) /\ Inside(t) => s = t
    /\ \A t \in Callers : Fits(t)
    /\ MountChildren = IF \E t \in Callers : call[t].pc = "wait" THEN 1 ELSE 0
    /\ children["mounted"] > 0 => mounts > 0
    /\ (\A t \in Callers : ~Inside(t)) /\ available = TRUE => mounts > 0

\* The thread inside takes a step: the others are where they were, and outside.
LEMMA InsiderSteps ==
  ASSUME NEW t \in Callers,
         \A s \in Callers \ {t} : call'[s] = call[s] /\ ~Inside(s),
         Fits(t)',
         MountChildren' = IF call'[t].pc = "wait" THEN 1 ELSE 0,
         children'["mounted"] > 0 => mounts' > 0,
         ~Inside(t)' /\ available' = TRUE => mounts' > 0
  PROVE  OneCall'
<1>1. \A s \in Callers \ {t} : ~Inside(s)' /\ Fits(s)' /\ call'[s].pc # "wait"
  BY DEF Inside, Fits
<1>2. \A s \in Callers : Fits(s)'
  BY <1>1
<1>3. (\E s \in Callers : call'[s].pc = "wait") <=> call'[t].pc = "wait"
  BY <1>1
<1> QED BY <1>1, <1>2, <1>3 DEF OneCall

\* Somebody else takes a step: whoever is inside stays where it is, and the flag is
\* cleared at most.
LEMMA OthersStep ==
  ASSUME OneCall, up = TRUE, overlapped' = overlapped, mounts' = mounts,
         available' \in {available, FALSE},
         MountChildren' = MountChildren, children'["mounted"] = children["mounted"],
         \A s \in Callers : call'[s] = call[s] \/ (~Inside(s) /\ ~Inside(s)')
  PROVE  OneCall'
<1>1. \A s \in Callers : Inside(s)' <=> Inside(s)
  BY DEF Inside
<1>2. \A s \in Callers : call'[s].pc = "wait" <=> call[s].pc = "wait"
  BY DEF Inside
<1>3. ASSUME NEW s \in Callers, Fits(s) PROVE Fits(s)'
  <2>1. CASE call'[s] = call[s]
    BY <1>3, <2>1 DEF Fits
  <2>2. CASE ~Inside(s)'
    BY <2>2 DEF Fits, Inside
  <2> QED BY <2>1, <2>2
<1> QED BY <1>1, <1>2, <1>3 DEF OneCall

LEMMA TestFlagOneCall ==
  ASSUME TypeOK, OneCall, NEW t \in Callers, TestFlag(t)
  PROVE  OneCall'
<1>0. /\ call \in [Callers -> CallState] /\ up = TRUE /\ call[t].pc = "test" /\ ~Inside(t)
      /\ available \in BOOLEAN /\ overlapped \in BOOLEAN
      /\ call[t].value \in BOOLEAN
  BY DEF TypeOK, StatusTypeOK, CallState, TestFlag, Inside
<1>1. CASE available = call[t].value
  <2>1. /\ Leave(t)
        /\ UNCHANGED <<overlapped, mounts, available, children>>
    BY <1>1 DEF TestFlag
  <2>2. \A s \in Callers : call'[s] = call[s] \/ (~Inside(s) /\ ~Inside(s)')
    BY <1>0, <2>1 DEF Leave, Inside
  <2> QED BY <1>0, <2>1, <2>2, OthersStep DEF MountChildren
<1>2. CASE available # call[t].value
  <2>1. /\ Go(t, "assign")
        /\ overlapped' = (overlapped \/ \E s \in Callers \ {t} :
                            call[s].pc \notin {"outside", "test"})
        /\ UNCHANGED <<up, mounts, available, children>>
    BY <1>2 DEF TestFlag
  <2> SUFFICES ASSUME overlapped' = FALSE PROVE OneCall'
    BY DEF OneCall
  <2>2. overlapped = FALSE /\ \A s \in Callers : ~Inside(s)
    BY <1>0, <2>1, Zenon DEF Inside
  <2>3. /\ call'[t] = [pc |-> "assign", value |-> call[t].value]
        /\ \A s \in Callers \ {t} : call'[s] = call[s]
    BY <1>0, <2>1 DEF Go, CallState
  <2>4. ~\E s \in Callers : call[s].pc = "wait"
    BY <2>2 DEF Inside
  <2>5. MountChildren' = 0 /\ (children'["mounted"] > 0 => mounts' > 0)
    BY <1>0, <2>1, <2>2, <2>4 DEF OneCall, MountChildren
  <2>6. Fits(t)'
    BY <1>0, <1>2, <2>1, <2>3 DEF Fits
  <2>7. \A s \in Callers \ {t} : call'[s] = call[s] /\ ~Inside(s)
    BY <2>2, <2>3
  <2>8. MountChildren' = IF call'[t].pc = "wait" THEN 1 ELSE 0
    BY <2>3, <2>5
  <2>9. ~Inside(t)' /\ available' = TRUE => mounts' > 0
    BY <2>3 DEF Inside
  <2> QED BY <2>5, <2>6, <2>7, <2>8, <2>9, InsiderSteps
<1> QED BY <1>1, <1>2

\* What is known of a thread inside, as long as calls do not overlap.
LEMMA Insider ==
  ASSUME OneCall, NEW t \in Callers, Inside(t), up = TRUE, overlapped = FALSE
  PROVE  /\ \A s \in Callers \ {t} : ~Inside(s)
         /\ Fits(t)
         /\ MountChildren = IF call[t].pc = "wait" THEN 1 ELSE 0
         /\ children["mounted"] > 0 => mounts > 0
<1>1. \A s \in Callers : call[s].pc = "wait" => Inside(s)
  BY DEF Inside
<1> QED BY <1>1 DEF OneCall

\* A step that reads the flag, sets it or starts the command.
LEMMA GoOneCall ==
  ASSUME TypeOK, OneCall, NEW t \in Callers, AssignFlag(t) \/ Branch(t) \/ ForkMount(t)
  PROVE  OneCall'
<1>0. /\ call \in [Callers -> CallState] /\ up = TRUE /\ Inside(t)
      /\ call[t].value \in BOOLEAN /\ available \in BOOLEAN
      /\ children \in [Kinds -> Nat] /\ overlapped' = overlapped /\ mounts' = mounts
  BY DEF TypeOK, StatusTypeOK, CallState, AssignFlag, Branch, ForkMount, Inside
<1> SUFFICES ASSUME overlapped = FALSE PROVE OneCall'
  BY <1>0 DEF OneCall
<1>1. PICK pc \in {"branch", "mount", "unmount", "wait"} : Go(t, pc)
  BY DEF AssignFlag, Branch, ForkMount
<1>2. /\ call'[t] = [pc |-> pc, value |-> call[t].value]
      /\ \A s \in Callers \ {t} : call'[s] = call[s] /\ ~Inside(s)
  <2>1. \A s \in Callers \ {t} : ~Inside(s)
    BY <1>0, Insider
  <2> QED BY <1>0, <1>1, <2>1 DEF Go, CallState
<1>3. Inside(t)'
  BY <1>2 DEF Inside
<1>4. CASE AssignFlag(t)
  <2>1. pc = "branch"
    BY <1>0, <1>1, <1>2, <1>4 DEF AssignFlag, Go, CallState
  <2>2. available' = call[t].value /\ children' = children /\ call[t].pc = "assign"
    BY <1>4 DEF AssignFlag
  <2>3. Fits(t)'
    BY <1>2, <2>1, <2>2 DEF Fits
  <2>4. MountChildren' = MountChildren
    BY <2>2 DEF MountChildren
  <2>5. MountChildren' = IF call'[t].pc = "wait" THEN 1 ELSE 0
    <3>1. MountChildren = 0
      BY <1>0, <2>2, Insider
    <3> QED BY <1>2, <2>1, <2>4, <3>1
  <2>6. children'["mounted"] > 0 => mounts' > 0
    BY <1>0, <2>2, Insider
  <2>7. ~Inside(t)' /\ available' = TRUE => mounts' > 0
    BY <1>3
  <2> QED BY <1>2, <2>3, <2>5, <2>6, <2>7, InsiderSteps
<1>5. CASE Branch(t)
  <2>1. PICK flag \in {call[t].value, available} : Go(t, IF flag THEN "mount" ELSE "unmount")
    BY <1>5 DEF Branch
  <2>2. call'[t].pc = IF flag THEN "mount" ELSE "unmount"
    BY <1>0, <2>1 DEF Go, CallState
  <2>3. available' = available /\ children' = children /\ call[t].pc = "branch"
    BY <1>5 DEF Branch
  <2>4. call[t].value = FALSE => available = FALSE
    BY <1>0, <2>3, Insider DEF Fits
  <2>5. call'[t].pc = "unmount" => available = FALSE
    BY <1>0, <2>2, <2>4
  <2>6. Fits(t)' /\ call'[t].pc # "wait"
    BY <2>2, <2>3, <2>5 DEF Fits
  <2>7. MountChildren' = MountChildren
    BY <2>3 DEF MountChildren
  <2>8. MountChildren' = IF call'[t].pc = "wait" THEN 1 ELSE 0
    <3>1. MountChildren = 0
      BY <1>0, <2>3, Insider
    <3> QED BY <2>6, <2>7, <3>1
  <2>9. children'["mounted"] > 0 => mounts' > 0
    BY <1>0, <2>3, Insider
  <2>10. ~Inside(t)' /\ available' = TRUE => mounts' > 0
    BY <1>3
  <2> QED BY <1>2, <2>6, <2>8, <2>9, <2>10, InsiderSteps
<1>6. CASE ForkMount(t)
  <2>1. /\ call[t].pc = "mount" /\ call'[t].pc = "wait"
        /\ children' = [children EXCEPT !["mounting"] = @ + 1]
    BY <1>0, <1>6 DEF ForkMount, Go, CallState
  <2>2. MountChildren = 0 /\ MountChildren' = MountChildren + 1
    <3>1. MountChildren = 0
      BY <1>0, <2>1, Insider
    <3>2. MountChildren' = MountChildren + 1
      BY <1>0, <2>1 DEF MountChildren
    <3> QED BY <3>1, <3>2
  <2>3. children'["mounted"] > 0 => mounts' > 0
    BY <1>0, <2>1, Insider
  <2>4. Fits(t)'
    BY <2>1 DEF Fits
  <2>5. MountChildren' = IF call'[t].pc = "wait" THEN 1 ELSE 0
    BY <2>1, <2>2
  <2>6. ~Inside(t)' /\ available' = TRUE => mounts' > 0
    BY <1>3
  <2> QED BY <1>2, <2>3, <2>4, <2>5, <2>6, InsiderSteps
<1> QED BY <1>4, <1>5, <1>6

\* wait() returns for the only child there is, the own mount command.  If that has
\* failed the process ends.
LEMMA WaitForChildOneCall ==
  ASSUME TypeOK, OneCall, NEW t \in Callers, WaitForChild(t)
  PROVE  OneCall'
<1>0. /\ call \in [Callers -> CallState] /\ up = TRUE /\ Inside(t) /\ call[t].pc = "wait"
      /\ children \in [Kinds -> Nat] /\ mounts' = mounts /\ overlapped \in BOOLEAN
  BY DEF TypeOK, StatusTypeOK, CallState, WaitForChild, Inside
<1>1. PICK k \in Ended :
        /\ children[k] > 0 /\ children' = [children EXCEPT ![k] = @ - 1]
        /\ overlapped' = (overlapped \/ MountChildren + PipeChildren > 1)
        /\ up' = (k # "failed")
  BY DEF WaitForChild
<1> SUFFICES ASSUME overlapped' = FALSE, up' = TRUE PROVE OneCall'
  BY DEF OneCall
<1>2. overlapped = FALSE /\ ~(MountChildren + PipeChildren > 1) /\ k # "failed"
  BY <1>0, <1>1, Zenon
<1>3. MountChildren = 1 /\ (children["mounted"] > 0 => mounts > 0)
  BY <1>0, <1>2, Insider
<1>4. k = "mounted"
  BY <1>0, <1>1, <1>2, <1>3 DEF MountChildren, PipeChildren
<1>5. MountChildren' = 0 /\ children'["mounted"] = 0 /\ mounts' > 0
  BY <1>0, <1>1, <1>3, <1>4 DEF MountChildren
<1>6. /\ call'[t].pc = "reintegrate"
      /\ \A s \in Callers \ {t} : call'[s] = call[s] /\ ~Inside(s)
  BY <1>0, <1>2, Insider DEF WaitForChild, Go, CallState
<1>7. Fits(t)'
  BY <1>5, <1>6 DEF Fits
<1> QED BY <1>5, <1>6, <1>7, InsiderSteps DEF Fits, Inside

\* A thread leaves: after a mount the share is mounted, after unmounting the flag down.
LEMMA LeaveOneCall ==
  ASSUME TypeOK, OneCall, NEW t \in Callers, Reintegrate(t) \/ UnmountFs(t)
  PROVE  OneCall'
<1>0. /\ call \in [Callers -> CallState] /\ up = TRUE /\ Inside(t)
      /\ children' = children /\ available' = available /\ overlapped' = overlapped
      /\ children \in [Kinds -> Nat] /\ call[t].pc # "wait"
  BY DEF TypeOK, StatusTypeOK, CallState, Reintegrate, UnmountFs, Inside
<1> SUFFICES ASSUME overlapped = FALSE PROVE OneCall'
  BY <1>0 DEF OneCall
<1>1. /\ call'[t] = Outside
      /\ \A s \in Callers \ {t} : call'[s] = call[s] /\ ~Inside(s)
  BY <1>0, Insider DEF Reintegrate, UnmountFs, Leave, CallState
<1>2. Fits(t)'
  BY <1>1 DEF Fits
<1>3. MountChildren' = 0 /\ children'["mounted"] = 0
  <2>1. MountChildren = 0
    BY <1>0, Insider
  <2> QED BY <1>0, <2>1 DEF MountChildren
<1>4. available' = TRUE => mounts' > 0
  BY <1>0, Insider DEF Reintegrate, UnmountFs, Fits
<1>5. MountChildren' = IF call'[t].pc = "wait" THEN 1 ELSE 0
  BY <1>1, <1>3
<1>6. children'["mounted"] > 0 => mounts' > 0
  BY <1>3
<1>7. ~Inside(t)' /\ available' = TRUE => mounts' > 0
  BY <1>4
<1> QED BY <1>1, <1>2, <1>5, <1>6, <1>7, InsiderSteps

\* The mount command that somebody waits for ends.
LEMMA MountCommandOneCall ==
  ASSUME TypeOK, OneCall, MountCommandEnds
  PROVE  OneCall'
<1>0. children \in [Kinds -> Nat] /\ mounts \in Nat /\ up = TRUE
      /\ UNCHANGED <<available, call, overlapped>>
  BY DEF TypeOK, StatusTypeOK, MountCommandEnds
<1>1. /\ MountChildren' = MountChildren /\ mounts' >= mounts
      /\ children'["mounted"] > children["mounted"] => mounts' > 0
  BY <1>0 DEF MountCommandEnds, MountChildren
<1>2. children'["mounted"] \in Nat /\ mounts' \in Nat
  BY <1>0 DEF MountCommandEnds
<1> SUFFICES ASSUME overlapped = FALSE PROVE OneCall'
  BY <1>0 DEF OneCall
<1>3. \A t \in Callers : Inside(t)' = Inside(t) /\ (Fits(t) => Fits(t)')
  BY <1>0, <1>1, <1>2 DEF Inside, Fits
<1>4. children'["mounted"] > 0 => mounts' > 0
  BY <1>0, <1>1, <1>2 DEF OneCall
<1> QED BY <1>0, <1>1, <1>2, <1>3, <1>4 DEF OneCall

\* Every other step is somebody else's.
LEMMA OneCallStep ==
  ASSUME TypeOK, LoopIsOutside, OneCall, [Next]_vars
  PROVE  OneCall'
<1>0. /\ call \in [Callers -> CallState] /\ "recognizer" \in Callers
      /\ children \in [Kinds -> Nat]
  BY DEF TypeOK, StatusTypeOK, CallState
<1>1. ASSUME NEW t \in Callers, SetAvailability(t)
      PROVE  OneCall'
  BY <1>1, TestFlagOneCall, GoOneCall, WaitForChildOneCall, LeaveOneCall
     DEF SetAvailability
<1>2. ASSUME NEW t \in Callers, NEW value, IsOutside(t), Enter(t, value), up = TRUE,
             UNCHANGED <<available, mounts, children, overlapped>>
      PROVE  OneCall'
  <2>1. \A s \in Callers : call'[s] = call[s] \/ (~Inside(s) /\ ~Inside(s)')
    BY <1>0, <1>2 DEF IsOutside, Enter, Inside
  <2> QED BY <1>2, <2>1, OthersStep DEF MountChildren
<1>3. CASE \E t \in Requests : op_setxattr(t) \/ op_removexattr(t)
  <2>1. PICK t \in Requests : \E value \in BOOLEAN : ChangeAttribute(t, value)
    BY <1>3 DEF op_setxattr, op_removexattr
  <2> QED BY <1>2, <2>1 DEF ChangeAttribute
<1>4. CASE MountCommandEnds
  BY <1>4, MountCommandOneCall
<1>5. CASE fuse_destroy
  BY <1>5 DEF fuse_destroy, OneCall
<1>6. CASE DeviceNoLongerActive \/ OpenPipe \/ PipeEnds \/ ClosePipe \/ ServerChanges
  <2>1. /\ up = TRUE /\ UNCHANGED <<overlapped, mounts, call>>
        /\ available' \in {available, FALSE}
    BY <1>6 DEF DeviceNoLongerActive, OpenPipe, PipeEnds, ClosePipe, ServerChanges
  <2>2. MountChildren' = MountChildren /\ children'["mounted"] = children["mounted"]
    BY <1>0, <1>6 DEF DeviceNoLongerActive, OpenPipe, PipeEnds, ClosePipe, ServerChanges,
                      MountChildren
  <2> QED BY <2>1, <2>2, OthersStep
<1>7. CASE Disconnect \/ Confirm
  <2>1. IsOutside("recognizer")
    BY <1>7 DEF Disconnect, Confirm, LoopIsOutside
  <2>2. /\ up = TRUE /\ UNCHANGED <<available, mounts, children, overlapped>>
        /\ (\E value \in BOOLEAN : Enter("recognizer", value)) \/ UNCHANGED call
    BY <1>7 DEF Disconnect, Confirm
  <2>3. CASE UNCHANGED call
    BY <2>2, <2>3, OthersStep DEF MountChildren
  <2> QED BY <1>0, <1>2, <2>1, <2>2, <2>3
<1>8. CASE Probe \/ CountFailure \/ Suspect \/ NothingToDo \/ SetReturns
  <2>1. up = TRUE /\ UNCHANGED <<available, mounts, children, call, overlapped>>
    BY <1>8 DEF Probe, CountFailure, Suspect, NothingToDo, SetReturns
  <2> QED BY <2>1, OthersStep DEF MountChildren
<1>9. CASE UNCHANGED vars
  BY <1>9 DEF vars, OneCall, Fits, Inside, MountChildren
<1> QED BY <1>1, <1>3, <1>4, <1>5, <1>6, <1>7, <1>8, <1>9
        DEF Next, StatusNext, startRecognizer

LEMMA OneCallInit == Init => OneCall
<1> SUFFICES ASSUME Init PROVE OneCall
  OBVIOUS
<1>1. \A t \in Callers : call[t] = Outside
  BY DEF Init, StatusInit
<1>2. \A t \in Callers : ~Inside(t) /\ Fits(t) /\ call[t].pc # "wait"
  BY <1>1 DEF Inside, Fits
<1>3. MountChildren = 0 /\ children["mounted"] = 0 /\ mounts = 1
  BY DEF Init, StatusInit, MountChildren
<1> QED BY <1>2, <1>3 DEF OneCall

\* As long as calls do not overlap, a share that is called available is mounted when
\* no call is under way.  (setAvailability, mountfs and unmountfs)
THEOREM AvailableIsMounted == Spec => []AvailableMeansMounted
<1>1. TypeOK /\ OneCall => AvailableMeansMounted
  <2> SUFFICES ASSUME TypeOK, OneCall, up, available, ~overlapped,
                      \A t \in Callers : IsOutside(t)
               PROVE  mounts > 0
    BY DEF AvailableMeansMounted
  <2>1. up = TRUE /\ available = TRUE /\ overlapped = FALSE
    BY Zenon DEF TypeOK, StatusTypeOK
  <2>2. \A t \in Callers : ~Inside(t)
    BY DEF IsOutside, Inside
  <2> QED BY <2>1, <2>2 DEF OneCall
<1>2. Init => LoopIsOutside
  BY DEF Init, StatusInit, LoopIsOutside, IsOutside
<1> QED BY <1>1, <1>2, OneCallInit, OneCallStep, LoopIsOutsideStep, RecognizerTypeCorrect, PTL
        DEF Spec
================================================================================
