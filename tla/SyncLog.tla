-------------------------------- MODULE SyncLog --------------------------------
(****************************************************************************)
(* The sync log as its callers see it: class SyncLogger of                  *)
(* src/src/synclogger.cpp, used by several threads without a lock.          *)
(*                                                                          *)
(*  - FUSE serves requests on several threads, Adders, and each of them may *)
(*    be inside AddEntry: it reads the log, removes every earlier entry of  *)
(*    the path one by one, appends the merged one under the number it reads *)
(*    from m_nNewIndex, and counts m_nNewIndex up only then;                *)
(*  - the synchronising thread (lazy write or reconnection) fetches the list*)
(*    of entries and removes them one by one as it works through the list.  *)
(*                                                                          *)
(* m_nNewIndex++ is a load and a store, between which others run.  A rewrite*)
(* keeps any number of bytes that some path lengths allow (see SyncLogFile);*)
(* reading and rewriting the file is one step, and so is writing the lines  *)
(* of an entry.  Restart is a new process: the number of the next entry     *)
(* starts at 0 again while the file stays.                                  *)
(****************************************************************************)
EXTENDS SyncLogFile

CONSTANTS Adders,        \* the threads that serve requests
          MaxNumber,     \* bound: no call begins when this number is reached
          MaxPieces,     \* bound: nor when the file has so many pieces
          MaxRestarts    \* bound: restarts of the process

VARIABLES file,          \* the log file, a sequence of pieces
          newIndex,      \* m_nNewIndex
          call,          \* the AddEntry call of each adder
          todo,          \* what is left of the synchronising thread's list
          shared,        \* history: a number was read by a thread while
                         \* another one was about to count it up
          restarts

vars == <<file, newIndex, call, todo, shared, restarts>>

NoCall == [phase |-> "idle"]
Call(p, t, first, mine) ==
  [phase |-> "remove", path |-> p, type |-> t, first |-> first, mine |-> mine]
Written == [phase |-> "count"]               \* the entry is in the file
Counted(n) == [phase |-> "store", next |-> n]

\* The threads that have written m_nNewIndex into the file and not yet counted it up.
Counting == {a \in Adders : call[a].phase \in {"count", "store"}}

Init ==
  /\ file = <<>>
  /\ newIndex = 0
  /\ call = [a \in Adders |-> NoCall]
  /\ todo = <<>>
  /\ shared = FALSE
  /\ restarts = 0

\* GetEntries for one path; a log that does not parse makes it throw, and
\* nothing is logged.
BeginAdd(a, p, t) ==
  /\ call[a] = NoCall
  /\ newIndex < MaxNumber /\ Len(file) < MaxPieces
  /\ Parses(file)
  /\ call' = [call EXCEPT ![a] = Call(p, t, "none", SectionsOf(file, p))]
  /\ UNCHANGED <<file, newIndex, todo, shared, restarts>>

\* The loop of getModDependingOnOtherEntries: it deletes all entries of the
\* path and keeps the type of the first one.
RemoveEarlier(a) ==
  /\ call[a].phase = "remove"
  /\ \E i \in DOMAIN call[a].mine :
       /\ IsNext(call[a].mine, i)
       /\ \E f \in RemoveResults(file, call[a].mine[i].number) : file' = f
       /\ call' = [call EXCEPT ![a] =
                     [call[a] EXCEPT !.mine = Rest(call[a].mine, i),
                                     !.first = IF @ = "none" THEN call[a].mine[i].type ELSE @]]
  /\ UNCHANGED <<newIndex, todo, shared, restarts>>

AppendMerged(a) ==
  LET type == Merge(call[a].first, call[a].type) IN
  /\ call[a].phase = "remove"
  /\ IsExhausted(call[a].mine)
  /\ IF type = "x"
     THEN /\ call' = [call EXCEPT ![a] = NoCall]
          /\ UNCHANGED <<file, shared>>
     ELSE /\ file' = Append(file, NewPiece(newIndex, call[a].path, type))
          /\ call' = [call EXCEPT ![a] = Written]
          /\ shared' = (shared \/ Counting # {})
  /\ UNCHANGED <<newIndex, todo, restarts>>

\* m_nNewIndex++.
LoadIndex(a) ==
  /\ call[a].phase = "count"
  /\ call' = [call EXCEPT ![a] = Counted(newIndex + 1)]
  /\ UNCHANGED <<file, newIndex, todo, shared, restarts>>

StoreIndex(a) ==
  /\ call[a].phase = "store"
  /\ newIndex' = call[a].next
  /\ call' = [call EXCEPT ![a] = NoCall]
  /\ UNCHANGED <<file, todo, shared, restarts>>

\* GetEntries for the whole log at the start of ReintegrateAll.
ListAll ==
  /\ IsExhausted(todo)
  /\ Parses(file)
  /\ todo' = Sections(file)
  /\ UNCHANGED <<file, newIndex, call, shared, restarts>>

\* ReintegrateFiles is done with the next element of its list.
RemoveDone ==
  /\ \E i \in DOMAIN todo :
       /\ IsNext(todo, i)
       /\ \E f \in RemoveResults(file, todo[i].number) : file' = f
       /\ todo' = Rest(todo, i)
  /\ UNCHANGED <<newIndex, call, shared, restarts>>

Restart ==
  /\ restarts < MaxRestarts
  /\ restarts' = restarts + 1
  /\ newIndex' = 0
  /\ call' = [a \in Adders |-> NoCall]
  /\ todo' = <<>>
  /\ UNCHANGED <<file, shared>>

Next ==
  \/ \E a \in Adders, p \in Paths, t \in ModType : BeginAdd(a, p, t)
  \/ \E a \in Adders : RemoveEarlier(a)
  \/ \E a \in Adders : AppendMerged(a)
  \/ \E a \in Adders : LoadIndex(a)
  \/ \E a \in Adders : StoreIndex(a)
  \/ ListAll
  \/ RemoveDone
  \/ Restart

Spec == Init /\ [][Next]_vars
--------------------------------------------------------------------------------
Calls == [phase : {"remove"}, path : Paths, type : ModType,
          first : ModType \cup {"none"}, mine : Seq(Section)]
           \cup {NoCall, Written} \cup [phase : {"store"}, next : Nat]

TypeOK ==
  /\ file \in Seq(Piece)
  /\ newIndex \in Nat
  /\ call \in [Adders -> Calls]
  /\ todo \in Seq(Section)
  /\ shared \in BOOLEAN
  /\ restarts \in Nat

\* Until a restart, and until a thread takes a number that another one is about
\* to count up, an entry number stands for one logged change, whatever the
\* rewrites do to the file: two pieces of the same number are copies of the same
\* text, so libconfuse never replaces one pending change by another one.
NumberNamesOneChange ==
  (restarts = 0 /\ ~shared) =>
    \A i, j \in DOMAIN file :
      file[i].entry.number = file[j].entry.number => file[i].entry = file[j].entry

\* RemoveEntry is called to drop one entry: every other change that is pending
\* stays in the log.  (synclogger.cpp:275 "Entry removed, write rest")
RemoveKeepsOthers ==
  [][\A i \in DOMAIN todo :
       (RemoveDone /\ IsNext(todo, i) /\ Parses(file))
         => \A e \in Listed(Sections(file)) :
              e.number # todo[i].number
                => \E k \in DOMAIN file' : file'[k].entry = e /\ Whole(file'[k])]_vars

\* A call of AddEntry writes its entry.
Writes == \E a \in Adders : call[a].phase = "remove" /\ call'[a] = Written

\* Appending an entry to a log that parses leaves every pending change in the
\* list that the next GetEntries returns, other threads being anywhere inside
\* AddEntry or a pass, as long as no restart has reset the numbers and no two
\* threads have used one.
AppendKeepsOthers ==
  [][(Writes /\ restarts = 0 /\ ~shared' /\ Parses(file))
       => Listed(Sections(file)) \subseteq Listed(Sections(file'))]_vars

\* The same without the condition: a change that is pending stays pending when
\* another one is logged.  (docs/usage/getting_started.md: "the changes you
\* made during offline mode will be reintegrated to the server")
PendingSurvivesAppend ==
  [][(Writes /\ Parses(file))
       => Listed(Sections(file)) \subseteq Listed(Sections(file'))]_vars
================================================================================
