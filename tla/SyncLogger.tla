------------------------------- MODULE SyncLogger -------------------------------
(****************************************************************************)
(* The sync log byte by byte: class SyncLogger of src/src/synclogger.cpp    *)
(* with the lengths of the texts it writes.  A piece is the entry a text    *)
(* was written for and how many of its bytes, from the first on, are in the *)
(* file.  RemoveEntry works on offsets, so which entries survive a rewrite  *)
(* depends on the lengths of the paths; this module computes it, and its    *)
(* specification implements SyncLog, where the cut is free.                 *)
(****************************************************************************)
EXTENDS SyncLogFile, FiniteSetsExt

CONSTANTS PathLen,       \* length of each path, a function on Paths
          Adders,        \* the threads that serve requests
          MaxNumber,     \* bound: no call begins when this number is reached
          MaxPieces,     \* bound: nor when the file has so many pieces
          MaxRestarts    \* bound: restarts of the process

\* Every adder may begin one more entry below MaxNumber: numbers have one digit,
\* so that no number's text is the beginning of another.
ASSUME SyncLoggerAssumption ==
  /\ PathLen \in [Paths -> Nat \ {0}]
  /\ MaxNumber \in Nat
  /\ IsFiniteSet(Adders) /\ MaxNumber + Cardinality(Adders) <= 10
  /\ MaxPieces \in Nat /\ MaxRestarts \in Nat

VARIABLES text,          \* the bytes of the file, as a sequence of pieces
          newIndex, call, todo, shared, restarts

vars == <<text, newIndex, call, todo, shared, restarts>>

(****************************************************************************)
(* Lengths.  AddEntry writes                                                *)
(*   modNumber N\n{\n\tfilePath = "P"\n\tmodTime = T\n\tmodType = c\n}\n\n  *)
(* with T of ten digits.                                                    *)
(****************************************************************************)
TitleBytes == 11                       \* "modNumber N"
EntryBytes(e) == 67 + PathLen[e.path]
AfterBrace == 2                        \* the two newlines

ShowsTitle(piece) == piece.n >= TitleBytes
ShowsBrace(piece) == piece.n >= EntryBytes(piece.entry) - AfterBrace

FullPiece(n, p, t) ==
  LET e == NewPiece(n, p, t).entry IN [entry |-> e, n |-> EntryBytes(e)]

\* The file in the terms of SyncLogFile.
Abstract(f) ==
  [i \in DOMAIN f |-> [entry |-> f[i].entry,
                       state |-> IF ~ShowsBrace(f[i]) THEN "torn"
                                 ELSE IF f[i].n < EntryBytes(f[i].entry) THEN "bare"
                                 ELSE "full"]]

\* Bytes in front of piece i.
Offset(f, i) == MapThenSumSet(LAMBDA j : f[j].n, 1 .. i - 1)
FileBytes(f) == Offset(f, Len(f) + 1)

\* Mutant of FirstBytes: a piece of which nothing is left stays in the list.
FirstBytesAndOne(f, k) ==
  LET kept == {i \in DOMAIN f : Offset(f, i) <= k}
  IN  [i \in 1 .. Cardinality(kept) |->
         [f[i] EXCEPT !.n = Min({@, k - Offset(f, i)})]]

\* The first k bytes of the file.
FirstBytes(f, k) ==
  LET kept == {i \in DOMAIN f : Offset(f, i) < k}
  IN  [i \in 1 .. Cardinality(kept) |->
         [f[i] EXCEPT !.n = Min({@, k - Offset(f, i)})]]

\* Mutant of RemoveEntry: the front part reaches to the end of the entry.
RemoveEntryAfterEnd(f, number) ==
  LET found == {i \in DOMAIN f : f[i].entry.number = number /\ ShowsTitle(f[i])}
      entry == Min(found)
      ends  == {j \in entry .. Len(f) : ShowsBrace(f[j])}
      brace == Offset(f, Min(ends)) + EntryBytes(f[Min(ends)].entry) - AfterBrace
  IN  CASE found = {} -> f
        [] found # {} /\ ends = {} -> SubSeq(f, 1, entry)
        [] OTHER -> SubSeq(f, 1, Min(ends)) \o FirstBytes(f, FileBytes(f) - brace)

\* What RemoveEntry makes of the file.
RemoveEntry(f, number) ==
  LET found == {i \in DOMAIN f : f[i].entry.number = number /\ ShowsTitle(f[i])}
      entry == Min(found)
      ends  == {j \in entry .. Len(f) : ShowsBrace(f[j])}
      brace == Offset(f, Min(ends)) + EntryBytes(f[Min(ends)].entry) - AfterBrace
      front == SubSeq(f, 1, entry - 1)
  IN  CASE found = {} -> f
        [] found # {} /\ ends = {} -> front
        [] OTHER -> front \o FirstBytes(f, FileBytes(f) - brace)

NoCall == [phase |-> "idle"]
Call(p, t, first, mine) ==
  [phase |-> "remove", path |-> p, type |-> t, first |-> first, mine |-> mine]
Written == [phase |-> "count"]               \* the entry is in the file
Counted(n) == [phase |-> "store", next |-> n]

\* The threads that have written m_nNewIndex into the file and not yet counted it up.
Counting == {a \in Adders : call[a].phase \in {"count", "store"}}

Init ==
  /\ text = <<>>
  /\ newIndex = 0
  /\ call = [a \in Adders |-> NoCall]
  /\ todo = <<>>
  /\ shared = FALSE
  /\ restarts = 0

BeginAdd(a, p, t) ==
  /\ call[a] = NoCall
  /\ newIndex < MaxNumber /\ Len(text) < MaxPieces
  /\ Parses(Abstract(text))
  /\ call' = [call EXCEPT ![a] = Call(p, t, "none", SectionsOf(Abstract(text), p))]
  /\ UNCHANGED <<text, newIndex, todo, shared, restarts>>

RemoveEarlier(a) ==
  /\ call[a].phase = "remove"
  /\ \E i \in DOMAIN call[a].mine :
       /\ IsNext(call[a].mine, i)
       /\ text' = RemoveEntry(text, call[a].mine[i].number)
       /\ call' = [call EXCEPT ![a] =
                     [call[a] EXCEPT !.mine = Rest(call[a].mine, i),
                                     !.first = IF @ = "none" THEN call[a].mine[i].type ELSE @]]
  /\ UNCHANGED <<newIndex, todo, shared, restarts>>

AppendMerged(a) ==
  LET type == Merge(call[a].first, call[a].type) IN
  /\ call[a].phase = "remove"
  /\ IsExhausted(call[a].mine)
  /\ IF type = "x"
     THEN /\ call' = [call EXCEPT ![a] = NoCall]
          /\ UNCHANGED <<text, shared>>
     ELSE /\ text' = Append(text, FullPiece(newIndex, call[a].path, type))
          /\ call' = [call EXCEPT ![a] = Written]
          /\ shared' = (shared \/ Counting # {})
  /\ UNCHANGED <<newIndex, todo, restarts>>

\* m_nNewIndex++.
LoadIndex(a) ==
  /\ call[a].phase = "count"
  /\ call' = [call EXCEPT ![a] = Counted(newIndex + 1)]
  /\ UNCHANGED <<text, newIndex, todo, shared, restarts>>

\* Mutant of StoreIndex: m_nNewIndex is not counted up.
StoreIndexUncounted(a) ==
  /\ call[a].phase = "store"
  /\ call' = [call EXCEPT ![a] = NoCall]
  /\ UNCHANGED <<text, newIndex, todo, shared, restarts>>

StoreIndex(a) ==
  /\ call[a].phase = "store"
  /\ newIndex' = call[a].next
  /\ call' = [call EXCEPT ![a] = NoCall]
  /\ UNCHANGED <<text, todo, shared, restarts>>

ListAll ==
  /\ IsExhausted(todo)
  /\ Parses(Abstract(text))
  /\ todo' = Sections(Abstract(text))
  /\ UNCHANGED <<text, newIndex, call, shared, restarts>>

RemoveDone ==
  /\ \E i \in DOMAIN todo :
       /\ IsNext(todo, i)
       /\ text' = RemoveEntry(text, todo[i].number)
       /\ todo' = Rest(todo, i)
  /\ UNCHANGED <<newIndex, call, shared, restarts>>

Restart ==
  /\ restarts < MaxRestarts
  /\ restarts' = restarts + 1
  /\ newIndex' = 0
  /\ call' = [a \in Adders |-> NoCall]
  /\ todo' = <<>>
  /\ UNCHANGED <<text, shared>>

Next ==
  \/ \E a \in Adders, p \in Paths, t \in ModType : BeginAdd(a, p, t)
  \/ \E a \in Adders : RemoveEarlier(a)
  \/ \E a \in Adders : AppendMerged(a)
  \/ \E a \in Adders : LoadIndex(a)
  \/ \E a \in Adders : StoreIndex(a)
  \/ ListAll
  \/ RemoveDone
  \/ Restart

Spec == Init /\ [][Next]_vars
--------------------------------------------------------------------------------
TypeOK ==
  /\ \A i \in DOMAIN text :
       /\ text[i].entry \in Entry
       /\ text[i].n \in 1 .. EntryBytes(text[i].entry)
  /\ newIndex \in Nat
  /\ \A a \in Adders : call[a].phase \in {"idle", "remove", "count", "store"}
  /\ \A i \in DOMAIN todo : todo[i] \in Section

\* The log a caller sees: SyncLog with the file read as whole pieces and
\* fragments.
Log == INSTANCE SyncLog WITH file <- Abstract(text)

\* Every rewrite that lengths produce is one that SyncLog allows, and all other
\* steps agree: what is checked or proved of the log with free cuts holds of the
\* file that synclogger.cpp writes.
ImplementsSyncLog == Log!Spec

\* See SyncLog for what these say.
NumberNamesOneChange == Log!NumberNamesOneChange
AppendKeepsOthers == Log!AppendKeepsOthers
RemoveKeepsOthers == Log!RemoveKeepsOthers
PendingSurvivesAppend == Log!PendingSurvivesAppend
================================================================================
