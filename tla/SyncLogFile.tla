------------------------------ MODULE SyncLogFile ------------------------------
(****************************************************************************)
(* The file Sync_<share>.log as src/src/synclogger.cpp reads and writes it. *)
(* Every offline change is one piece of text                                *)
(*      modNumber <n> { filePath = .. modTime = .. modType = .. }           *)
(* appended to the file.  libconfuse parses the file again before every     *)
(* use, and RemoveEntry rewrites it.                                        *)
(*                                                                          *)
(* Text is abstracted to what the parser and RemoveEntry tell apart: which  *)
(* entry a piece was written for and whether all of it, up to the closing   *)
(* brace and beyond, is still there.  How many bytes survive a rewrite depends on the  *)
(* lengths of the paths in the log, so here the cut is any cut that some    *)
(* lengths produce; module SyncLogger computes it byte by byte and is       *)
(* checked to implement module SyncLog, which uses these operators.         *)
(****************************************************************************)
EXTENDS Integers, Sequences

CONSTANT Paths          \* the relative paths of the share that get logged

ModType == {"c", "m", "d"}              \* created, modified, deleted

Entry == [number : Nat, path : Paths, type : ModType]

\* How much of an entry's text is in the file: all of it, all but some of the
\* newlines behind its closing brace, or only a part from the beginning.
Piece == [entry : Entry, state : {"full", "bare", "torn"}]

\* What GetEntries yields for one piece of text; type "none" says that the
\* piece gives no list element of its own.
Section == [number : Nat, path : Paths, type : ModType \cup {"none"}]

NewPiece(n, p, t) == [entry |-> [number |-> n, path |-> p, type |-> t],
                      state |-> "full"]

(****************************************************************************)
(* Parsing.  A fragment is an unknown option or an unfinished section, so   *)
(* cfg_parse reports an error and ParseFile returns false.                  *)
(****************************************************************************)
Whole(piece) == piece.state # "torn"

Parses(file) == \A i \in DOMAIN file : Whole(file[i])

SameTitle(file, i) ==
  {j \in DOMAIN file : file[j].entry.number = file[i].entry.number}

LastOf(S) == CHOOSE j \in S : \A k \in S : k <= j

Unlisted(section) == [section EXCEPT !.type = "none"]

\* Sections have titles: a second section of the same number replaces the
\* content of the first one and takes its place in the list.
Sections(file) ==
  [i \in DOMAIN file |->
     IF \E j \in SameTitle(file, i) : j < i
     THEN Unlisted(file[i].entry)
     ELSE file[LastOf(SameTitle(file, i))].entry]

SectionsOf(file, p) ==
  [i \in DOMAIN file |-> IF Sections(file)[i].path = p
                         THEN Sections(file)[i]
                         ELSE Unlisted(Sections(file)[i])]

IsListed(section) == section.type # "none"

\* The entries a caller of GetEntries sees.
Listed(sections) == {sections[i] : i \in {j \in DOMAIN sections : IsListed(sections[j])}}

\* One turn of a loop over a list that GetEntries returned: s is the next
\* element, rest what remains of the list.
IsNext(sections, i) ==
  /\ i \in DOMAIN sections
  /\ IsListed(sections[i])
  /\ \A j \in 1 .. i - 1 : ~IsListed(sections[j])

Rest(sections, i) == SubSeq(sections, i + 1, Len(sections))

IsExhausted(sections) == \A i \in DOMAIN sections : ~IsListed(sections[i])

(****************************************************************************)
(* RemoveEntry: find the text "modNumber <n>", then the next closing brace, *)
(* write back everything in front of the entry, then as many bytes as       *)
(* follow the brace - taken from the beginning of the buffer.               *)
(****************************************************************************)
\* The first m pieces and, unless rest is "none", a part of the next one.
Cut(file, m, rest) ==
  SubSeq(file, 1, m) \o
    (IF rest = "none" THEN <<>> ELSE <<[file[m + 1] EXCEPT !.state = rest]>>)

CutStates(piece) == {"none", "torn"} \cup (IF Whole(piece) THEN {"bare"} ELSE {})

RemovedAt(file, i) ==
  LET front == SubSeq(file, 1, i - 1)
      ends  == {j \in i .. Len(file) : Whole(file[j])}
      cuts  == [m : 0 .. Len(file) - 1, rest : {"none", "torn", "bare"}]
  IN  CASE ends = {} -> {front}
        [] ends = {Len(file)} /\ Whole(file[1]) ->
             \* only the newlines follow the brace: two bytes, or fewer
             {front \o Cut(file, 0, rest) :
                rest \in {"torn"} \cup
                        (IF file[Len(file)].state = "bare" THEN {"none"} ELSE {})}
        [] OTHER ->
             {front \o Cut(file, c.m, c.rest) :
                c \in {d \in cuts : d.rest \in CutStates(file[d.m + 1])}}

\* A fragment may be too short to show its number: it may or may not match.
RemoveResults(file, n) ==
  LET found == {i \in DOMAIN file : file[i].entry.number = n}
      first == {i \in found : \A k \in found : k < i => ~Whole(file[k])}
  IN  (UNION {RemovedAt(file, i) : i \in first})
        \cup (IF \E i \in found : Whole(file[i]) THEN {} ELSE {file})

(****************************************************************************)
(* getModDependingOnOtherEntries: the type of the first earlier entry of    *)
(* the path and the new change give the type to log; "x" logs nothing.      *)
(****************************************************************************)
MergeTable ==
  [none |-> [c |-> "c", m |-> "m", d |-> "d"],
   c    |-> [c |-> "c", m |-> "c", d |-> "x"],
   m    |-> [c |-> "m", m |-> "m", d |-> "d"],
   d    |-> [c |-> "m", m |-> "m", d |-> "d"]]

Merge(first, new) == MergeTable[first][new]
================================================================================
