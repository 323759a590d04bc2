----------------------------- MODULE MCFuseSession -----------------------------
(* FuseSession for TLC: command lines that are read, and that are not.        *)
EXTENDS FuseSession

O(name) == [name |-> name, value |-> "n"]
V(name, value) == [name |-> name, value |-> value]

MCCommandLines ==
  { <<>>,
    <<O("-z")>>,
    <<O("-z"), O("-n"), V("uid", "7")>>,
    <<O("rw"), O("string"), O("ro")>>,
    <<O("ro"), O("nounmount"), V("gid", "7")>>,
    <<O("lazywrite")>>,
    <<V("lazywrite", "tom"), V("group", "staff"), O("fsc")>>,
    <<V("user", "tom"), V("uid", "7")>>,
    <<V("group", "staff"), V("gid", "7")>>,
    <<V("group", "nobody")>>,
    <<O("-h"), O("rw")>>,
    <<O("-V")>> }

\* Those in which the ends differ.
MCEndLines == { <<>>, <<O("-z")>>, <<O("-z"), O("-n")>> }

FdSymmetry == Permutations(Fds \ {Zero}) \cup Permutations(Handles)
================================================================================
