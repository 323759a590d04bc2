---------------------------- MODULE FuseSession_proofs ----------------------------
(****************************************************************************)
(* A session leaves no descriptor behind (NoDescriptorLeft), for any number *)
(* of objects and descriptors.  The inductive invariant adds the kinds of   *)
(* the three variables that it speaks of; the lemmas say what taking,       *)
(* leaving and giving back descriptors do to a table that is accounted for. *)
(* Then how a process ends (ExitInv), and the kinds of everything (TypeInv),*)
(* with what the command line gives taken from Startup_proofs.              *)
(****************************************************************************)
EXTENDS FuseSession, Startup_proofs

TableOK(t, left, held) ==
  /\ t \in [Fds -> {"null", "free", "cache", "remote"}]
  /\ left \subseteq Fds
  /\ held \in [Handles -> Objects]

DescriptorsInv == TableOK(fd, lost, handle) /\ NoDescriptorLeft

\* c for a cached file and r for one of the share, if any, are free in a table.
Takes(t, c, r) ==
  /\ c \in Fds \cup {None} /\ r \in Fds \cup {None}
  /\ c # None => t[c] = "free"
  /\ r # None => t[r] = "free" /\ c # r

LEMMA SlotsTaken ==
  ASSUME NEW t \in [Fds -> {"null", "free", "cache", "remote"}],
         NEW x \in BOOLEAN, NEW y \in BOOLEAN, NEW c, NEW r,
         \/ c \in Slots(x, t) /\ r \in Slots(y, Put(t, c, None))
         \/ r \in Slots(y, t) /\ c \in Slots(x, Put(t, None, r))
  PROVE  Takes(t, c, r)
<1>1. ASSUME NEW u, NEW z \in BOOLEAN, NEW d \in Slots(z, u)
      PROVE  d \in Fds \cup {None} /\ (d # None => u[d] = "free")
  <2>1. CASE ~z
    BY <2>1, <1>1 DEF Slots
  <2>2. CASE z /\ u[Zero] = "free"
    BY <2>2, <1>1, SessionAssumption DEF Slots
  <2>3. CASE z /\ u[Zero] # "free"
    BY <2>3, <1>1 DEF Slots
  <2> QED BY <2>1, <2>2, <2>3
<1>2. \A d \in Fds : /\ (d = c => Put(t, c, None)[d] = "cache")
                     /\ (d # c => Put(t, c, None)[d] = t[d])
  BY SessionAssumption DEF Put
<1>3. \A d \in Fds : /\ (d = r => Put(t, None, r)[d] = "remote")
                     /\ (d # r => Put(t, None, r)[d] = t[d])
  BY SessionAssumption DEF Put
<1>4. CASE c \in Slots(x, t) /\ r \in Slots(y, Put(t, c, None))
  <2>1. /\ c \in Fds \cup {None} /\ (c # None => t[c] = "free")
        /\ r \in Fds \cup {None} /\ (r # None => Put(t, c, None)[r] = "free")
    BY <1>1, <1>4
  <2> QED BY <2>1, <1>2 DEF Takes
<1>5. CASE r \in Slots(y, t) /\ c \in Slots(x, Put(t, None, r))
  <2>1. /\ r \in Fds \cup {None} /\ (r # None => t[r] = "free")
        /\ c \in Fds \cup {None} /\ (c # None => Put(t, None, r)[c] = "free")
    BY <1>1, <1>5
  <2> QED BY <2>1, <1>3 DEF Takes
<1> QED BY <1>4, <1>5

\* What taking them does to a table.
LEMMA PutTaken ==
  ASSUME NEW t \in [Fds -> {"null", "free", "cache", "remote"}], NEW c, NEW r, Takes(t, c, r)
  PROVE  /\ Put(t, c, r) \in [Fds -> {"null", "free", "cache", "remote"}]
         /\ c # None => c \in Fds /\ t[c] = "free" /\ Put(t, c, r)[c] = "cache"
         /\ r # None => r \in Fds /\ t[r] = "free" /\ Put(t, c, r)[r] = "remote"
         /\ \A d \in Fds : d \notin {c, r} => Put(t, c, r)[d] = t[d]
         /\ Put(t, c, r)[Zero] = "null" => t[Zero] = "null"
  BY SessionAssumption DEF Put, Takes

\* Descriptors that an object takes from a table, for the object h that is free.
LEMMA TakenByObject ==
  ASSUME NEW t, NEW left, NEW held, TableOK(t, left, held), Accounted(t, left, held),
         NEW h \in Handles, held[h] = NoFile,
         NEW kind \in {"file", "dir"}, NEW f \in [offline : BOOLEAN, avail : BOOLEAN],
         NEW c, NEW r, Takes(t, c, r)
  PROVE  LET object == Object(kind, f, c, r)
         IN  /\ TableOK(Put(t, c, r), left, [held EXCEPT ![h] = object])
             /\ Accounted(Put(t, c, r), left, [held EXCEPT ![h] = object])
<1> DEFINE object == Object(kind, f, c, r)
           after == [held EXCEPT ![h] = object]
           new == Put(t, c, r)
<1>1. c \in Fds \cup {None} /\ r \in Fds \cup {None}
  BY DEF Takes
<1>2. object \in Objects /\ UsedBy(object) = {c, r} \ {None}
  BY <1>1 DEF Object, Objects, UsedBy
<1>3. TableOK(new, left, after)
  BY <1>1, <1>2, PutTaken DEF TableOK
<1>4. /\ after[h] = object
      /\ \A g \in Handles \ {h} : after[g] = held[g]
      /\ UsedBy(held[h]) = {}
  BY DEF TableOK, UsedBy, NoFile
<1>5. /\ c # None => c \in Fds /\ t[c] = "free" /\ new[c] = "cache"
      /\ r # None => r \in Fds /\ t[r] = "free" /\ new[r] = "remote"
      /\ \A d \in Fds \ {c, r} : new[d] = t[d]
  BY PutTaken DEF TableOK
<1>6. \A d \in UsedBy(object) :
        d \in Fds /\ d \notin left /\ \A g \in Handles : d \notin UsedBy(held[g])
  BY <1>2, <1>5 DEF Accounted
<1>7. \A d \in Fds : new[d] \in {"cache", "remote"}
                       <=> d \in left \/ \E g \in Handles : d \in UsedBy(after[g])
  <2> TAKE d \in Fds
  <2>1. CASE d \in UsedBy(object)
    BY <2>1, <1>2, <1>4, <1>5
  <2>2. CASE d \notin UsedBy(object)
    <3>1. new[d] = t[d]
      BY <2>2, <1>2, <1>5, SessionAssumption
    <3>2. (\E g \in Handles : d \in UsedBy(after[g])) <=> \E g \in Handles : d \in UsedBy(held[g])
      BY <2>2, <1>4
    <3> QED BY <3>1, <3>2 DEF Accounted
  <2> QED BY <2>1, <2>2
<1>8. ASSUME NEW k \in Handles
      PROVE  /\ UsedBy(after[k]) \cap left = {}
             /\ \A g \in Handles : g # k => UsedBy(after[g]) \cap UsedBy(after[k]) = {}
  BY <1>4, <1>6 DEF Accounted
<1>9. ASSUME NEW k \in Handles
      PROVE  /\ after[k].cached # None => new[after[k].cached] = "cache"
             /\ after[k].far # None => new[after[k].far] = "remote"
  <2>1. CASE k = h
    BY <2>1, <1>4, <1>5 DEF Object
  <2>2. CASE k # h
    <3>1. held[k] \in Objects /\ after[k] = held[k]
      BY <2>2, <1>4 DEF TableOK
    <3>2. UsedBy(held[k]) \cap UsedBy(object) = {}
      BY <1>6
    <3>3. /\ held[k].cached # None => held[k].cached \in Fds \ {c, r}
          /\ held[k].far # None => held[k].far \in Fds \ {c, r}
      BY <3>1, <3>2, <1>2 DEF UsedBy, Objects
    <3> QED BY <3>1, <3>3, <1>5 DEF Accounted
  <2> QED BY <2>1, <2>2
<1> QED BY <1>3, <1>7, <1>8, <1>9 DEF Accounted

\* Descriptors that a failed call leaves in the table.
LEMMA Left ==
  ASSUME NEW t, NEW left, NEW held, TableOK(t, left, held), Accounted(t, left, held),
         NEW c, NEW r, Takes(t, c, r)
  PROVE  /\ TableOK(Put(t, c, r), left \cup ({c, r} \ {None}), held)
         /\ Accounted(Put(t, c, r), left \cup ({c, r} \ {None}), held)
<1> DEFINE new == Put(t, c, r)
           more == left \cup ({c, r} \ {None})
<1>1. c \in Fds \cup {None} /\ r \in Fds \cup {None}
  BY DEF Takes
<1>2. TableOK(new, more, held)
  BY <1>1, PutTaken DEF TableOK
<1>3. /\ c # None => c \in Fds /\ t[c] = "free" /\ new[c] = "cache"
      /\ r # None => r \in Fds /\ t[r] = "free" /\ new[r] = "remote"
      /\ \A d \in Fds \ {c, r} : new[d] = t[d]
  BY PutTaken DEF TableOK
<1>4. \A d \in {c, r} \ {None} : \A g \in Handles : d \notin UsedBy(held[g])
  BY <1>3 DEF Accounted
<1>5. \A d \in Fds : new[d] \in {"cache", "remote"}
                       <=> d \in more \/ \E g \in Handles : d \in UsedBy(held[g])
  <2> TAKE d \in Fds
  <2>1. CASE d \in {c, r}
    BY <2>1, <1>3, SessionAssumption
  <2>2. CASE d \notin {c, r}
    BY <2>2, <1>3 DEF Accounted
  <2> QED BY <2>1, <2>2
<1>6. ASSUME NEW k \in Handles
      PROVE  /\ UsedBy(held[k]) \cap more = {}
             /\ \A g \in Handles : g # k => UsedBy(held[g]) \cap UsedBy(held[k]) = {}
  BY <1>4 DEF Accounted
<1>7. ASSUME NEW k \in Handles
      PROVE  /\ held[k].cached # None => new[held[k].cached] = "cache"
             /\ held[k].far # None => new[held[k].far] = "remote"
  <2>1. /\ held[k].cached # None => held[k].cached \in Fds \ {c, r}
        /\ held[k].far # None => held[k].far \in Fds \ {c, r}
    BY <1>4, SessionAssumption DEF UsedBy, Objects, TableOK
  <2> QED BY <2>1, <1>3 DEF Accounted
<1> QED BY <1>2, <1>5, <1>6, <1>7 DEF Accounted

\* An object that goes gives some of its descriptors back and leaves the others.
LEMMA GivenBack ==
  ASSUME NEW h \in Handles, TableOK(fd, lost, handle), Released(h)
  PROVE  \E gone, kept :
           /\ gone \cup kept = UsedBy(handle[h]) /\ gone \cap kept = {}
           /\ gone \subseteq Fds /\ kept \subseteq Fds
           /\ fd' = Without(fd, gone) /\ lost' = lost \cup kept
<1> DEFINE o == handle[h]
<1>1. o \in Objects /\ Closes(o) \subseteq UsedBy(o) /\ UsedBy(o) \subseteq Fds
  BY DEF TableOK, Closes, UsedBy, Objects
<1>2. CASE fd' = Without(fd, Closes(o)) /\ lost' = lost \cup (UsedBy(o) \ Closes(o))
  <2> WITNESS Closes(o), UsedBy(o) \ Closes(o)
  <2> QED BY <1>1, <1>2
<1>3. CASE /\ IsSet(o, o.far) /\ fd' = Without(fd, {o.far})
           /\ lost' = lost \cup (UsedBy(o) \ {o.far})
  <2>1. o.far \in UsedBy(o)
    BY <1>3 DEF IsSet, UsedBy
  <2> WITNESS {o.far}, UsedBy(o) \ {o.far}
  <2> QED BY <1>1, <1>3, <2>1
<1> QED BY <1>2, <1>3 DEF Released

LEMMA ReleaseAccounts ==
  ASSUME NEW h \in Handles, DescriptorsInv, Released(h)
  PROVE  DescriptorsInv'
<1> DEFINE o == handle[h]
<1>1. o \in Objects /\ TableOK(fd, lost, handle)
  BY DEF DescriptorsInv, TableOK
<1>3. PICK gone, kept :
        /\ gone \cup kept = UsedBy(o) /\ gone \cap kept = {}
        /\ gone \subseteq Fds /\ kept \subseteq Fds
        /\ fd' = Without(fd, gone) /\ lost' = lost \cup kept
  BY <1>1, GivenBack
<1>4. /\ handle' = [handle EXCEPT ![h] = NoFile]
      /\ handle'[h] = NoFile /\ UsedBy(handle'[h]) = {}
      /\ \A g \in Handles \ {h} : handle'[g] = handle[g]
  BY <1>1 DEF Released, UsedBy, NoFile, TableOK
<1>6. TableOK(fd', lost', handle')
  <2>1. NoFile \in Objects
    BY DEF NoFile, Objects
  <2> QED BY <1>1, <1>3, <1>4, <2>1 DEF TableOK, Without
<1> SUFFICES ASSUME fd'[Zero] = "null"
             PROVE  Accounted(fd', lost', handle')
  BY <1>6 DEF DescriptorsInv, NoDescriptorLeft
<1>2. Accounted(fd, lost, handle)
  BY <1>1, <1>3, SessionAssumption DEF DescriptorsInv, NoDescriptorLeft, Without
<1>7. \A d \in Fds : fd'[d] \in {"cache", "remote"}
                       <=> fd[d] \in {"cache", "remote"} /\ d \notin gone
  BY <1>3, <1>1 DEF Without, TableOK
<1>8. \A d \in gone \cup kept :
        d \notin lost /\ \A g \in Handles \ {h} : d \notin UsedBy(handle[g])
  BY <1>2, <1>3 DEF Accounted
<1>9. \A d \in Fds : fd'[d] \in {"cache", "remote"}
                       <=> (d \in lost' \/ \E g \in Handles : d \in UsedBy(handle'[g]))
  <2> TAKE d \in Fds
  <2>1. CASE d \in gone
    BY <2>1, <1>3, <1>4, <1>7, <1>8
  <2>2. CASE d \in kept
    BY <2>2, <1>2, <1>3, <1>7 DEF Accounted
  <2>3. CASE d \notin gone \cup kept
    <3>1. (\E g \in Handles : d \in UsedBy(handle'[g])) <=> \E g \in Handles : d \in UsedBy(handle[g])
      BY <2>3, <1>3, <1>4
    <3> QED BY <2>3, <3>1, <1>2, <1>3, <1>7 DEF Accounted
  <2> QED BY <2>1, <2>2, <2>3
<1>10. ASSUME NEW k \in Handles
       PROVE  /\ UsedBy(handle'[k]) \cap lost' = {}
              /\ \A g \in Handles : g # k => UsedBy(handle'[g]) \cap UsedBy(handle'[k]) = {}
  BY <1>2, <1>3, <1>4, <1>8 DEF Accounted
<1>11. ASSUME NEW k \in Handles
       PROVE  /\ handle'[k].cached # None => fd'[handle'[k].cached] = "cache"
              /\ handle'[k].far # None => fd'[handle'[k].far] = "remote"
  <2>1. CASE k = h
    BY <2>1, <1>4 DEF NoFile
  <2>2. CASE k # h
    <3>1. handle'[k] = handle[k] /\ handle[k] \in Objects /\ UsedBy(handle[k]) \cap gone = {}
      BY <2>2, <1>1, <1>3, <1>4, <1>8 DEF TableOK
    <3>2. \A d \in UsedBy(handle[k]) : d \in Fds /\ fd'[d] = fd[d]
      BY <3>1, <1>3 DEF Without, UsedBy, Objects
    <3> QED BY <3>1, <3>2, <1>2 DEF Accounted, UsedBy
  <2> QED BY <2>1, <2>2
<1> QED BY <1>9, <1>10, <1>11 DEF Accounted

(****************************************************************************)
(* The three ways in which a call that opens ends.                          *)
(****************************************************************************)
LEMMA LeavingAccounts ==
  ASSUME DescriptorsInv, NEW c, NEW r, Takes(fd, c, r),
         fd' = Put(fd, c, r), lost' = lost \cup ({c, r} \ {None}), handle' = handle
  PROVE  DescriptorsInv'
<1>1. TableOK(fd, lost, handle) /\ (fd'[Zero] = "null" => fd[Zero] = "null")
  BY PutTaken DEF DescriptorsInv, TableOK
<1>2. CASE fd'[Zero] = "null"
  <2>1. Accounted(fd, lost, handle)
    BY <1>1, <1>2 DEF DescriptorsInv, NoDescriptorLeft
  <2>2. TableOK(fd', lost', handle') /\ Accounted(fd', lost', handle')
    BY <1>1, <2>1, Left
  <2> QED BY <2>2 DEF DescriptorsInv, NoDescriptorLeft
<1>3. CASE fd'[Zero] # "null"
  <2>1. fd' \in [Fds -> {"null", "free", "cache", "remote"}] /\ lost' \subseteq Fds
    BY <1>1, PutTaken DEF TableOK, Takes
  <2> QED BY <1>1, <1>3, <2>1 DEF DescriptorsInv, NoDescriptorLeft, TableOK
<1> QED BY <1>2, <1>3

LEMMA HoldingAccounts ==
  ASSUME DescriptorsInv, NEW h \in Handles, handle[h] = NoFile,
         NEW kind \in {"file", "dir"}, NEW f \in [offline : BOOLEAN, avail : BOOLEAN],
         NEW c, NEW r, Takes(fd, c, r),
         fd' = Put(fd, c, r), lost' = lost,
         handle' = [handle EXCEPT ![h] = Object(kind, f, c, r)]
  PROVE  DescriptorsInv'
<1>1. TableOK(fd, lost, handle) /\ (fd'[Zero] = "null" => fd[Zero] = "null")
  BY PutTaken DEF DescriptorsInv, TableOK
<1>2. CASE fd'[Zero] = "null"
  <2>1. Accounted(fd, lost, handle)
    BY <1>1, <1>2 DEF DescriptorsInv, NoDescriptorLeft
  <2>2. TableOK(fd', lost', handle') /\ Accounted(fd', lost', handle')
    BY <1>1, <2>1, TakenByObject
  <2> QED BY <2>2 DEF DescriptorsInv, NoDescriptorLeft
<1>3. CASE fd'[Zero] # "null"
  <2>1. fd' \in [Fds -> {"null", "free", "cache", "remote"}] /\ Object(kind, f, c, r) \in Objects
    BY <1>1, PutTaken DEF TableOK, Takes, Object, Objects
  <2> QED BY <1>1, <1>3, <2>1 DEF DescriptorsInv, NoDescriptorLeft, TableOK
<1> QED BY <1>2, <1>3

LEMMA ZeroAccounts ==
  ASSUME DescriptorsInv, ClosesZero
  PROVE  DescriptorsInv'
<1>1. fd'[Zero] = "free" /\ fd' \in [Fds -> {"null", "free", "cache", "remote"}]
  BY SessionAssumption DEF ClosesZero, DescriptorsInv, TableOK
<1> QED BY <1>1 DEF ClosesZero, DescriptorsInv, TableOK, NoDescriptorLeft

SessionInv == DescriptorsInv /\ tree \in BOOLEAN /\ available \in BOOLEAN

LEMMA SlotTaken ==
  ASSUME DescriptorsInv, NEW x \in BOOLEAN, NEW c \in Slots(x, fd)
  PROVE  Takes(fd, c, None) /\ Takes(fd, None, c)
<1>1. None \in Slots(FALSE, Put(fd, c, None)) /\ None \in Slots(FALSE, Put(fd, None, c))
  BY DEF Slots
<1> QED BY <1>1, SlotsTaken DEF DescriptorsInv, TableOK

LEMMA FailingAccounts ==
  ASSUME DescriptorsInv, NEW c, Takes(fd, c, None), CallFails(c)
  PROVE  DescriptorsInv'
<1>1. {c} \ {None} = {c, None} \ {None}
  OBVIOUS
<1> QED BY <1>1, LeavingAccounts DEF CallFails

LEMMA NothingTaken == Takes(fd, None, None)
  BY DEF Takes

LEMMA UpdateAccounts ==
  ASSUME DescriptorsInv, NEW f, update_cacheFails(f)
  PROVE  DescriptorsInv'
<1>0. PICK wanted \in [cached : BOOLEAN, far : BOOLEAN] :
        \E c \in Slots(wanted.cached, fd) : \E r \in Slots(wanted.far, Put(fd, c, None)) :
          fd' = Put(fd, c, r) /\ lost' = lost \cup ({c, r} \ {None})
  BY DEF update_cacheFails
<1>1. PICK c \in Slots(wanted.cached, fd) :
        \E r \in Slots(wanted.far, Put(fd, c, None)) :
          fd' = Put(fd, c, r) /\ lost' = lost \cup ({c, r} \ {None})
  BY <1>0
<1>2. PICK r \in Slots(wanted.far, Put(fd, c, None)) :
        fd' = Put(fd, c, r) /\ lost' = lost \cup ({c, r} \ {None})
  BY <1>1
<1>3. wanted.cached \in BOOLEAN /\ wanted.far \in BOOLEAN
  OBVIOUS
<1>4. Takes(fd, c, r)
  BY <1>3, SlotsTaken DEF DescriptorsInv, TableOK
<1> QED BY <1>2, <1>4, LeavingAccounts DEF update_cacheFails

LEMMA OpenAccounts ==
  ASSUME SessionInv, NEW h \in Handles, op_open(h)
  PROVE  DescriptorsInv'
<1>1. DescriptorsInv /\ FileNow \in [offline : BOOLEAN, avail : BOOLEAN]
      /\ FileNow.offline \in BOOLEAN
  BY DEF SessionInv, FileNow
<1>2. CASE update_cacheFails(FileNow)
  BY <1>1, <1>2, UpdateAccounts
<1>3. CASE OpensNot(FileNow)
  <2>1. CASE CallFails(None)
    BY <2>1, <1>1, NothingTaken, FailingAccounts
  <2>2. CASE ClosesZero
    BY <2>2, <1>1, ZeroAccounts
  <2>3. ASSUME NEW c \in Slots(FileNow.offline, fd), CallFails(c)
        PROVE  DescriptorsInv'
    BY <2>3, <1>1, SlotTaken, FailingAccounts
  <2> QED BY <1>3, <2>1, <2>2, <2>3 DEF OpensNot
<1>4. ASSUME NEW c \in Slots(tree, fd), NEW r \in Slots(available, Put(fd, c, None)),
             Holds(h, Object("file", FileNow, c, r))
      PROVE  DescriptorsInv'
  <2>1. Takes(fd, c, r)
    BY <1>1, SlotsTaken DEF SessionInv, DescriptorsInv, TableOK
  <2>2. /\ fd' = Put(fd, c, r) /\ lost' = lost
        /\ handle' = [handle EXCEPT ![h] = Object("file", FileNow, c, r)]
    BY <1>4 DEF Holds, Object
  <2> QED BY <1>1, <2>1, <2>2, HoldingAccounts DEF op_open
<1> QED BY <1>2, <1>3, <1>4 DEF op_open

LEMMA OpendirAccounts ==
  ASSUME SessionInv, NEW h \in Handles, op_opendir(h)
  PROVE  DescriptorsInv'
<1>1. DescriptorsInv /\ FileNow \in [offline : BOOLEAN, avail : BOOLEAN]
  BY DEF SessionInv, FileNow
<1>2. CASE update_cacheFails(FileNow)
  BY <1>1, <1>2, UpdateAccounts
<1>3. CASE CallFails(None)
  BY <1>3, <1>1, NothingTaken, FailingAccounts
<1>4. ASSUME NEW r \in Slots(available, fd),
             NEW c \in Slots(tree \/ ~available, Put(fd, None, r)),
             Holds(h, Object("dir", FileNow, c, r))
      PROVE  DescriptorsInv'
  <2>1. Takes(fd, c, r)
    <3>1. (tree \/ ~available) \in BOOLEAN /\ available \in BOOLEAN
      BY DEF SessionInv
    <3> QED BY <1>1, <3>1, SlotsTaken DEF DescriptorsInv, TableOK
  <2>2. /\ fd' = Put(fd, c, r) /\ lost' = lost
        /\ handle' = [handle EXCEPT ![h] = Object("dir", FileNow, c, r)]
    BY <1>4 DEF Holds, Object
  <2> QED BY <1>1, <2>1, <2>2, HoldingAccounts DEF op_opendir
<1> QED BY <1>2, <1>3, <1>4 DEF op_opendir

LEMMA CreateAccounts ==
  ASSUME SessionInv, NEW h \in Handles, op_create(h)
  PROVE  DescriptorsInv'
<1>1. DescriptorsInv /\ FileNow \in [offline : BOOLEAN, avail : BOOLEAN]
  BY DEF SessionInv, FileNow
<1>2. CASE update_cacheFails(FileNow)
  BY <1>1, <1>2, UpdateAccounts
<1>3. CASE CallFails(None)
  BY <1>3, <1>1, NothingTaken, FailingAccounts
<1>4. CASE ClosesZero
  BY <1>4, <1>1, ZeroAccounts
<1>5. CASE CreatesInTree(h, FileNow)
  <2>1. ASSUME NEW c \in Slots(TRUE, fd), CallFails(c)
        PROVE  DescriptorsInv'
    BY <2>1, <1>1, SlotTaken, FailingAccounts
  <2>2. CASE UNCHANGED table
    BY <2>2, <1>1 DEF table, DescriptorsInv, TableOK, NoDescriptorLeft
  <2>3. ASSUME NEW c \in Slots(TRUE, fd), fd' = Put(fd, c, None), lost' = lost,
               handle' = [handle EXCEPT ![h] = Object("file", FileNow, c, None)]
        PROVE  DescriptorsInv'
    <3>1. Takes(fd, c, None)
      BY <1>1, SlotTaken
    <3> QED BY <1>1, <2>3, <3>1, HoldingAccounts DEF op_create
  <2> QED BY <1>5, <2>1, <2>2, <2>3 DEF CreatesInTree, table
<1>6. ASSUME NEW r \in Slots(TRUE, fd), Holds(h, Object("file", FileNow, None, r))
      PROVE  DescriptorsInv'
  <2>1. Takes(fd, None, r)
    BY <1>1, SlotTaken
  <2>2. /\ fd' = Put(fd, None, r) /\ lost' = lost
        /\ handle' = [handle EXCEPT ![h] = Object("file", FileNow, None, r)]
    BY <1>6 DEF Holds, Object
  <2> QED BY <1>1, <2>1, <2>2, HoldingAccounts DEF op_create
<1> QED BY <1>2, <1>3, <1>4, <1>5, <1>6 DEF op_create

LEMMA SessionStarts == Init => SessionInv
<1> SUFFICES ASSUME Init PROVE SessionInv
  OBVIOUS
<1>1. TableOK(fd, lost, handle)
  BY DEF Init, TableOK, NoFile, Objects
<1>2. Accounted(fd, lost, handle)
  BY DEF Init, Accounted, UsedBy, NoFile
<1> QED BY <1>1, <1>2 DEF Init, SessionInv, DescriptorsInv, NoDescriptorLeft

LEMMA SessionSteps ==
  ASSUME SessionInv, [Next]_vars
  PROVE  SessionInv'
<1>1. CASE UNCHANGED table
  <2>1. DescriptorsInv'
    BY <1>1 DEF SessionInv, DescriptorsInv, TableOK, NoDescriptorLeft, table
  <2>2. tree' \in BOOLEAN /\ available' \in BOOLEAN
    BY DEF SessionInv, Next, vars, share, ReadCommandLine, MountAtStart, MakeCachePath,
           AdoptIds, fuse_init, LazyPass, Reintegrates, PassEnds, SetAvailable, MountEnds,
           ReconnectPass, SetUnavailable, DeviceNoLongerActive, SetOffline, op_getattr,
           op_open, op_opendir, op_create, op_write, op_release, op_releasedir,
           fuse_destroy, DestroyEnds
  <2> QED BY <2>1, <2>2 DEF SessionInv
<1>2. ASSUME NEW h \in Handles, op_open(h) \/ op_opendir(h) \/ op_create(h)
      PROVE  SessionInv'
  <2>1. DescriptorsInv'
    BY <1>2, OpenAccounts, OpendirAccounts, CreateAccounts
  <2> QED BY <1>2, <2>1 DEF SessionInv, op_open, op_opendir, op_create
<1>3. ASSUME NEW h \in Handles, op_release(h) \/ op_releasedir(h)
      PROVE  SessionInv'
  <2>1. DescriptorsInv'
    BY <1>3, ReleaseAccounts DEF SessionInv, op_release, op_releasedir
  <2> QED BY <1>3, <2>1 DEF SessionInv, op_release, op_releasedir, share
<1> QED
  BY <1>1, <1>2, <1>3
  DEF Next, vars, ReadCommandLine, MountAtStart, MakeCachePath, AdoptIds, fuse_init, LazyPass,
      Reintegrates, PassEnds, SetAvailable, MountEnds, ReconnectPass, SetUnavailable,
      DeviceNoLongerActive, SetOffline, op_getattr, op_write, fuse_destroy, DestroyEnds

\* Whatever is opened, created and released, and whatever fails on the way, every
\* descriptor in use belongs to one object or has been left by a failed call, as long
\* as descriptor 0 is not closed.  (op_open, op_create, op_opendir, op_release and
\* op_releasedir of ofsfile.cpp)
THEOREM NoDescriptorLeftAlways == Spec => []NoDescriptorLeft
<1>1. SessionInv => NoDescriptorLeft
  BY DEF SessionInv, DescriptorsInv
<1> QED BY <1>1, SessionStarts, SessionSteps, PTL DEF Spec

(****************************************************************************)
(* How a process ends.                                                      *)
(****************************************************************************)
\* A share that was never mounted over itself is mounted once at most, and a create
\* logged alone has left the flag down and been read by nobody: as long as it waits
\* no thread has a list, so that none raises the flag.  When fuse_destroy has begun,
\* with lazy write, nothing of the kind waits.
ExitInv ==
  /\ mounts \in Nat /\ (stacked = TRUE \/ mounts \in {0, 1})
  /\ sync \in BOOLEAN /\ pass \in [Threads -> Stages] /\ created \in Waits
  /\ created = "alone" => sync = FALSE /\ \A x \in Threads : ~HasRead(x)
  /\ main \in {"destroying", "destroyed"} /\ env.unmount /\ env.lazywrite => created # "alone"
  /\ ExitUnmounts

LEMMA ExitStarts == Init => ExitInv
BY DEF Init, ExitInv, ExitUnmounts, Stages, Waits

\* Reading a list leaves no create waiting.
LEMMA ListTaken ==
  ASSUME ExitInv, NEW x \in Threads, TakesList(x)
  PROVE  created' = "none" /\ pass' \in [Threads -> Stages]
BY DEF TakesList, ExitInv, Stages

\* A step of an object's call, of a pass or of the start that leaves the mounts alone.
LEMMA ExitKept ==
  ASSUME ExitInv, UNCHANGED <<mounts, stacked>>,
         sync' \in BOOLEAN, pass' \in [Threads -> Stages], created' \in Waits,
         created' = "alone" => sync' = FALSE /\ \A x \in Threads : ~HasRead(x)',
         main' \notin {"destroying", "destroyed"}
  PROVE  ExitInv'
BY DEF ExitInv, ExitUnmounts

\* Nothing of what speaks of the end changes.
LEMMA ExitSame ==
  ASSUME ExitInv, UNCHANGED <<mounts, stacked, sync, pass, created>>,
         main' \notin {"destroying", "destroyed"}
  PROVE  ExitInv'
BY DEF ExitInv, ExitUnmounts, HasRead

\* What a call logs does not add to the lists that have been read.
LEMMA LoggedLists ==
  ASSUME ExitInv, Logged
  PROVE  /\ pass' \in [Threads -> Stages]
         /\ \A x \in Threads : HasRead(x)' => HasRead(x)
BY DEF ExitInv, Logged, Stages, HasRead

LEMMA CreateLogged ==
  ASSUME ExitInv, LogsCreate
  PROVE  /\ pass' \in [Threads -> Stages] /\ sync' = FALSE /\ created' \in Waits
         /\ created' = "alone" => \A x \in Threads : ~HasRead(x)'
BY LoggedLists DEF LogsCreate, CreateWaits, Waits

\* Calls on an object change neither mounts nor, but for a create, the flag.
LEMMA ExitServed ==
  ASSUME ExitInv, NEW h \in Handles,
         \/ op_open(h) \/ op_opendir(h) \/ op_create(h) \/ op_write(h)
         \/ op_release(h) \/ op_releasedir(h)
  PROVE  ExitInv'
<1>1. UNCHANGED <<mounts, stacked>> /\ main' \notin {"destroying", "destroyed"}
  <2>1. CASE op_open(h)
    BY <2>1 DEF op_open, Serving, update_cacheFails, OpensNot, CallFails, ClosesZero, Holds
  <2>2. CASE op_opendir(h)
    BY <2>2 DEF op_opendir, Serving, update_cacheFails, CallFails, Holds
  <2>3. CASE op_create(h)
    BY <2>3 DEF op_create, Serving, update_cacheFails, CallFails, ClosesZero, Holds,
                CreatesInTree
  <2>4. CASE op_write(h)
    BY <2>4 DEF op_write, Serving, share
  <2>5. CASE op_release(h) \/ op_releasedir(h)
    BY <2>5 DEF op_release, op_releasedir, Serving, Released, share
  <2> QED BY <2>1, <2>2, <2>3, <2>4, <2>5
<1>2. \/ UNCHANGED <<sync, pass, created>>
      \/ LogsCreate
      \/ /\ Logged /\ UNCHANGED sync
         /\ created' = created \/ created' = "beside"
  <2>1. CASE op_open(h)
    BY <2>1 DEF op_open, update_cacheFails, OpensNot, CallFails, ClosesZero, Holds, change
  <2>2. CASE op_opendir(h)
    BY <2>2 DEF op_opendir, update_cacheFails, CallFails, Holds, change
  <2>3. CASE op_create(h)
    BY <2>3 DEF op_create, update_cacheFails, CallFails, ClosesZero, Holds, CreatesInTree,
                change
  <2>4. CASE op_write(h)
    BY <2>4 DEF op_write, share
  <2>5. CASE op_release(h) \/ op_releasedir(h)
    BY <2>5 DEF op_release, op_releasedir, share, change
  <2> QED BY <2>1, <2>2, <2>3, <2>4, <2>5
<1>3. CASE UNCHANGED <<sync, pass, created>>
  BY <1>1, <1>3, ExitSame
<1>4. CASE LogsCreate
  BY <1>1, <1>4, CreateLogged, ExitKept
<1>5. CASE Logged /\ UNCHANGED sync /\ (created' = created \/ created' = "beside")
  <2>1. /\ pass' \in [Threads -> Stages] /\ sync' \in BOOLEAN /\ created' \in Waits
        /\ created' = "alone" => sync' = FALSE /\ \A x \in Threads : ~HasRead(x)'
    BY <1>5, LoggedLists DEF ExitInv, Waits
  <2> QED BY <1>1, <2>1, ExitKept
<1> QED BY <1>2, <1>3, <1>4, <1>5

\* A pass begins, goes on or ends while the process serves or is being destroyed.
LEMMA ExitPass ==
  ASSUME ExitInv,
         \/ LazyPass
         \/ ReconnectPass
         \/ \E x \in Threads : Reintegrates(x)
         \/ \E x \in Threads : PassEnds(x)
  PROVE  ExitInv'
<1>1. /\ UNCHANGED <<mounts, stacked, env>> /\ main # "destroyed"
      /\ main' = main \/ main' = "terminated"
  BY DEF LazyPass, ReconnectPass, ReadsList, Throws, Reintegrates, PassEnds, Alive, start, share
<1>2. /\ sync' \in BOOLEAN /\ pass' \in [Threads -> Stages] /\ created' \in Waits
      /\ created' = "alone" =>
           created = "alone" /\ sync' = FALSE /\ \A x \in Threads : ~HasRead(x)'
  <2>1. ASSUME NEW x \in Threads, TakesList(x), UNCHANGED sync
        PROVE  <1>2
    BY <2>1, ListTaken DEF ExitInv, Waits
  <2>2. ASSUME UNCHANGED <<sync, pass, created>>
        PROVE  <1>2
    BY <2>2 DEF ExitInv, HasRead
  <2>3. CASE LazyPass \/ ReconnectPass
    <3>1. UNCHANGED sync /\ "lazy" \in Threads /\ "net" \in Threads
      BY <2>3 DEF LazyPass, ReconnectPass, share, Threads
    <3> QED BY <2>1, <2>2, <2>3, <3>1 DEF LazyPass, ReconnectPass, ReadsList, Throws
  <2>4. ASSUME NEW x \in Threads, Reintegrates(x)
        PROVE  <1>2
    <3>1. /\ pass' = [pass EXCEPT ![x] = "done"] /\ HasRead(x)
          /\ UNCHANGED <<sync, created>>
      BY <2>4 DEF Reintegrates, share, HasRead
    <3> QED BY <3>1 DEF ExitInv, Stages
  <2>5. ASSUME NEW x \in Threads, PassEnds(x)
        PROVE  <1>2
    <3>1. /\ pass' = [pass EXCEPT ![x] = "none"] /\ HasRead(x)
          /\ sync' = TRUE /\ UNCHANGED created
      BY <2>5 DEF PassEnds, HasRead
    <3> QED BY <3>1 DEF ExitInv, Stages
  <2> QED BY <2>3, <2>4, <2>5
<1>3. main' \in {"destroying", "destroyed"} /\ env'.unmount /\ env'.lazywrite => created' # "alone"
  BY <1>1, <1>2 DEF ExitInv
<1>4. ExitUnmounts'
  <2>1. main' # "destroyed"
    BY <1>1
  <2> QED BY <2>1, Zenon DEF ExitUnmounts
<1> QED BY <1>1, <1>2, <1>3, <1>4 DEF ExitInv

\* The share is made available and not, and mounted.
LEMMA ExitShare ==
  ASSUME ExitInv, SetAvailable \/ MountEnds \/ SetUnavailable \/ DeviceNoLongerActive
  PROVE  ExitInv'
<1>1. UNCHANGED <<env, sync, created>> /\ (main' = main \/ main' = "terminated")
  BY DEF SetAvailable, MountEnds, SetUnavailable, DeviceNoLongerActive, start, change
<1>2. /\ pass' \in [Threads -> Stages]
      /\ \A x \in Threads : HasRead(x)' => HasRead(x)
  <2>1. ASSUME NEW s \in {"none", "mount", "mounted"}, pass' = [pass EXCEPT !["net"] = s]
        PROVE  <1>2
    BY <2>1 DEF ExitInv, Stages, HasRead
  <2>2. ASSUME UNCHANGED pass
        PROVE  <1>2
    BY <2>2 DEF ExitInv, HasRead
  <2>3. \/ \E s \in {"none", "mount", "mounted"} : pass' = [pass EXCEPT !["net"] = s]
        \/ UNCHANGED pass
    BY DEF SetAvailable, MountEnds, SetUnavailable, DeviceNoLongerActive, change
  <2> QED BY <2>1, <2>2, <2>3
<1>3. mounts' \in Nat /\ (stacked' = TRUE \/ mounts' \in {0, 1})
  <2>1. CASE MountEnds /\ mounts' = mounts + 1
    <3>1. CASE mounts > 0
      <4>1. mounts' # mounts
        BY <2>1, <3>1 DEF ExitInv
      <4>2. stacked' = (stacked \/ mounts > 0)
        BY <2>1, <4>1 DEF MountEnds
      <4>3. stacked' = TRUE
        BY <4>2, <3>1, Zenon
      <4> QED BY <2>1, <4>3 DEF ExitInv
    <3>2. CASE ~(mounts > 0)
      BY <2>1, <3>2 DEF ExitInv
    <3> QED BY <3>1, <3>2
  <2>2. CASE SetUnavailable
    <3>1. mounts' \in {mounts, IF mounts = 0 THEN 0 ELSE mounts - 1} /\ UNCHANGED stacked
      BY <2>2 DEF SetUnavailable, unmountfs
    <3> QED BY <3>1 DEF ExitInv
  <2>3. CASE UNCHANGED <<mounts, stacked>>
    BY <2>3 DEF ExitInv
  <2> QED BY <2>1, <2>2, <2>3 DEF SetAvailable, MountEnds, DeviceNoLongerActive
<1>4. /\ created' = "alone" => sync' = FALSE /\ \A x \in Threads : ~HasRead(x)'
      /\ sync' \in BOOLEAN /\ created' \in Waits
      /\ main' \in {"destroying", "destroyed"} /\ env'.unmount /\ env'.lazywrite
           => created' # "alone"
  BY <1>1, <1>2 DEF ExitInv
<1>5. ExitUnmounts'
  <2> SUFFICES ASSUME main' = "destroyed", env'.unmount, ~Busy', ~stacked',
                      pass'["net"] # "mounted"
               PROVE  mounts' = 0
    BY Zenon DEF ExitUnmounts
  <2>1. MountEnds /\ main = "destroyed"
    BY <1>1 DEF SetAvailable, SetUnavailable, DeviceNoLongerActive, Alive
  <2>2. "net" \in DOMAIN pass
    BY DEF ExitInv, Threads
  <2>3. mounts' = mounts /\ stacked' = stacked /\ fd' = fd /\ pass["net"] = "mount"
    BY <2>1, <2>2 DEF MountEnds, table, ExitInv
  <2>4. ~Busy /\ ~stacked /\ env.unmount
    BY <1>1, <2>3 DEF Busy
  <2> QED BY <2>1, <2>3, <2>4 DEF ExitInv, ExitUnmounts
<1> QED BY <1>2, <1>3, <1>4, <1>5 DEF ExitInv

LEMMA ExitDestroys ==
  ASSUME ExitInv, fuse_destroy
  PROVE  ExitInv'
<1>1. UNCHANGED <<mounts, stacked, sync, env>>
  BY DEF fuse_destroy, share
<1>2. \/ TakesList("exit") /\ main' = "destroying"
      \/ /\ UNCHANGED <<pass, created>>
         /\ main' \in {"destroying", "destroyed"} /\ env.unmount /\ env.lazywrite => sync
         /\ main' = "destroyed" => ~env.unmount
  BY DEF fuse_destroy, Throws
<1>3. /\ pass' \in [Threads -> Stages] /\ created' \in Waits
      /\ created' = "alone" => sync' = FALSE /\ \A x \in Threads : ~HasRead(x)'
      /\ main' \in {"destroying", "destroyed"} /\ env'.unmount /\ env'.lazywrite
           => created' # "alone"
  <2>1. CASE TakesList("exit")
    <3>1. "exit" \in Threads
      BY DEF Threads
    <3> QED BY <2>1, <3>1, ListTaken DEF Waits
  <2>2. CASE /\ UNCHANGED <<pass, created>>
             /\ main' \in {"destroying", "destroyed"} /\ env.unmount /\ env.lazywrite => sync
    <3>1. \A x \in Threads : HasRead(x)' <=> HasRead(x)
      BY <2>2 DEF HasRead
    <3> QED BY <1>1, <2>2, <3>1 DEF ExitInv
  <2> QED BY <1>2, <2>1, <2>2
<1>4. ExitUnmounts'
  BY <1>1, <1>2 DEF ExitUnmounts
<1> QED BY <1>1, <1>3, <1>4 DEF ExitInv

LEMMA ExitDestroyed ==
  ASSUME ExitInv, DestroyEnds
  PROVE  ExitInv'
<1>1. UNCHANGED <<env, created, stacked, fd>> /\ main = "destroying"
  BY DEF DestroyEnds, table
<1>2. mounts' \in Nat /\ (stacked' = TRUE \/ mounts' \in {0, 1})
  <2>1. mounts' \in {mounts, IF mounts = 0 THEN 0 ELSE mounts - 1}
    BY DEF DestroyEnds, unmountfs
  <2> QED BY <2>1, <1>1 DEF ExitInv
<1>3. /\ pass' \in [Threads -> Stages]
      /\ \A x \in Threads : HasRead(x)' => HasRead(x)
  <2>1. pass' = [pass EXCEPT !["exit"] = "none"]
    BY DEF DestroyEnds
  <2> QED BY <2>1 DEF ExitInv, HasRead, Stages
<1>4. sync' \in BOOLEAN
  BY Zenon DEF DestroyEnds
<1>5. created' = "alone" => sync' = FALSE
  <2> SUFFICES ASSUME created = "alone" PROVE sync' = FALSE
    BY <1>1
  <2>1. sync = FALSE /\ ~HasRead("exit")
    BY DEF ExitInv, Threads
  <2>2. pass["exit"] # "done"
    BY <2>1 DEF HasRead
  <2>3. sync' = (sync \/ pass["exit"] = "done")
    BY DEF DestroyEnds
  <2> QED BY <2>1, <2>2, <2>3, Zenon
<1>6. ExitUnmounts'
  <2> SUFFICES ASSUME ~Busy', ~stacked'
               PROVE  mounts' = 0
    BY Zenon DEF ExitUnmounts
  <2>1. ~Busy /\ unmountfs
    BY <1>1 DEF Busy, DestroyEnds
  <2> QED BY <2>1, <1>1 DEF unmountfs, ExitInv
<1> QED BY <1>1, <1>2, <1>3, <1>4, <1>5, <1>6 DEF ExitInv

LEMMA ExitSteps ==
  ASSUME ExitInv, [Next]_vars
  PROVE  ExitInv'
<1>1. CASE ReadCommandLine \/ MakeCachePath \/ AdoptIds \/ fuse_init
  <2>1. UNCHANGED <<mounts, stacked, sync, pass, created>>
    BY <1>1 DEF ReadCommandLine, MakeCachePath, AdoptIds, fuse_init, share, change
  <2>2. main' \notin {"destroying", "destroyed"}
    BY <1>1 DEF ReadCommandLine, MakeCachePath, AdoptIds, fuse_init
  <2> QED BY <2>1, <2>2, ExitSame
<1>2. CASE MountAtStart
  <2>1. /\ mounts' \in {0, 1} /\ UNCHANGED <<stacked, sync, pass, created>>
        /\ main' \notin {"destroying", "destroyed"}
    BY <1>2 DEF MountAtStart, change
  <2> QED BY <2>1 DEF ExitInv, ExitUnmounts, HasRead
<1>3. CASE SetOffline \/ op_getattr
  <2>1. /\ UNCHANGED <<mounts, stacked, sync, pass, created>>
        /\ main' \notin {"destroying", "destroyed"}
    BY <1>3 DEF SetOffline, op_getattr, Serving, start, share, change
  <2> QED BY <2>1, ExitSame
<1>4. CASE UNCHANGED vars
  BY <1>4 DEF vars, start, share, change, table, ExitInv, ExitUnmounts, Busy, HasRead
<1> QED BY <1>1, <1>2, <1>3, <1>4, ExitPass, ExitShare, ExitServed, ExitDestroys, ExitDestroyed
        DEF Next

\* A process that is told to unmount and ends in order leaves no mount, whatever its
\* threads do meanwhile, unless a file of the share is open, the share was mounted
\* over itself, or the mount command ends behind fuse_destroy's back.  (fuse_destroy
\* of ofs_fuse.cpp; mountfs and unmountfs of filesystemstatusmanager.cpp)
THEOREM ExitUnmountsAlways == Spec => []ExitUnmounts
<1>1. ExitInv => ExitUnmounts
  BY DEF ExitInv
<1> QED BY <1>1, ExitStarts, ExitSteps, PTL DEF Spec

\* With lazy write, a process that ends in order leaves no create waiting that was
\* logged while no pass was under way, however its three threads work off the log
\* beside each other.  (fuse_destroy; the flag of op_create and ReintegrateAll)
THEOREM ExitWritesBackAlways == Spec => []ExitWritesBack
<1>1. ExitInv => ExitWritesBack
  BY DEF ExitInv, ExitWritesBack
<1> QED BY <1>1, ExitStarts, ExitSteps, PTL DEF Spec

(****************************************************************************)
(* Kinds, and the command line.                                             *)
(****************************************************************************)
\* The rest of TypeOK; what init returns has its kind because every option that is
\* read leaves an environment.
Kinds ==
  /\ main \in Mains /\ line \in CommandLines /\ env \in Environments
  /\ work \in {"none", "pending", "server", "conflict", "dropped"} /\ torn \in BOOLEAN
  /\ stacked \in BOOLEAN /\ events \in Nat

TypeInv == SessionInv /\ ExitInv /\ Kinds

LEMMA KindsStart == Init => Kinds
<1>1. Defaults \in Environments
  BY DEF Defaults, Environments, Words, Ends, Unset
<1>2. Init => env \in Environments /\ line \in CommandLines /\ events \in Nat
  BY <1>1 DEF Init
<1>3. Init => main \in Mains /\ work \in {"none", "pending", "server", "conflict", "dropped"}
  BY DEF Init, Mains
<1>4. Init => torn \in BOOLEAN /\ stacked \in BOOLEAN
  BY Zenon DEF Init
<1> QED BY <1>2, <1>3, <1>4, Zenon DEF Kinds

LEMMA LineIsRead ==
  ASSUME NEW l \in CommandLines
  PROVE  init(l) \in Environments
<1>1. l \in Seq(Given)
  BY LinesAssumption DEF Given
<1> QED BY <1>1, CommandLineRead DEF Reads

\* Calls on an object log at most.
LEMMA ServedKinds ==
  ASSUME Kinds, NEW h \in Handles,
         \/ op_open(h) \/ op_opendir(h) \/ op_create(h) \/ op_write(h)
         \/ op_release(h) \/ op_releasedir(h)
  PROVE  Kinds'
<1>1. main' \in Mains /\ events' \in Nat /\ UNCHANGED <<line, env, stacked>>
  <2>1. CASE op_open(h)
    BY <2>1 DEF op_open, Serving, update_cacheFails, OpensNot, CallFails, ClosesZero, Holds,
                Kinds, Mains
  <2>2. CASE op_opendir(h)
    BY <2>2 DEF op_opendir, Serving, update_cacheFails, CallFails, Holds, Kinds, Mains
  <2>3. CASE op_create(h)
    <3>1. main' \in Mains /\ UNCHANGED <<line, env, stacked>>
      BY <2>3 DEF op_create, Serving, update_cacheFails, CallFails, ClosesZero, Holds,
                  CreatesInTree, Mains
    <3>2. events' \in Nat
      BY <2>3 DEF op_create, Event, Kinds
    <3> QED BY <3>1, <3>2
  <2>4. CASE op_write(h)
    BY <2>4 DEF op_write, Serving, Event, share, Kinds, Mains
  <2>5. CASE op_release(h) \/ op_releasedir(h)
    BY <2>5 DEF op_release, op_releasedir, Serving, Released, share, Kinds, Mains
  <2> QED BY <2>1, <2>2, <2>3, <2>4, <2>5
<1>2. work' \in {work, "pending"} /\ (torn' \in BOOLEAN \/ torn' = torn)
  <2>1. CASE op_open(h)
    BY <2>1 DEF op_open, update_cacheFails, OpensNot, CallFails, ClosesZero, Holds, change
  <2>2. CASE op_opendir(h)
    BY <2>2 DEF op_opendir, update_cacheFails, CallFails, Holds, change
  <2>3. CASE op_create(h)
    BY <2>3 DEF op_create, update_cacheFails, CallFails, ClosesZero, Holds, CreatesInTree,
                LogsCreate, Logged, change
  <2>4. CASE op_write(h)
    BY <2>4 DEF op_write, Logged
  <2>5. CASE op_release(h) \/ op_releasedir(h)
    BY <2>5 DEF op_release, op_releasedir, change
  <2> QED BY <2>1, <2>2, <2>3, <2>4, <2>5
<1> QED BY <1>1, <1>2 DEF Kinds

LEMMA KindsSteps ==
  ASSUME ExitInv, Kinds, [Next]_vars
  PROVE  Kinds'
<1>1. CASE ReadCommandLine
  <2>1. env' \in Environments
    BY <1>1, LineIsRead DEF ReadCommandLine, Kinds
  <2>2. main' \in Mains
    BY <1>1 DEF ReadCommandLine, Mains
  <2> QED BY <1>1, <2>1, <2>2 DEF ReadCommandLine, Kinds, share, change, table
<1>2. CASE MountAtStart \/ MakeCachePath \/ AdoptIds \/ fuse_init
  BY <1>2 DEF MountAtStart, MakeCachePath, AdoptIds, fuse_init, Kinds, Mains, share, change
<1>3. CASE LazyPass \/ ReconnectPass
  BY <1>3 DEF LazyPass, ReconnectPass, ReadsList, Throws, Kinds, Mains, share, table
<1>4. ASSUME NEW x \in Threads, Reintegrates(x) \/ PassEnds(x) PROVE Kinds'
  BY <1>4 DEF Reintegrates, PassEnds, Outcomes, Kinds, start, share, table
<1>5. CASE MountEnds
  <2>1. main' \in Mains /\ UNCHANGED <<line, env, work, torn, events>>
    BY <1>5 DEF MountEnds, Kinds, Mains
  <2>2. stacked' \in BOOLEAN
    BY <1>5, Zenon DEF MountEnds, Kinds
  <2> QED BY <2>1, <2>2 DEF Kinds
<1>6. CASE SetAvailable \/ SetUnavailable \/ DeviceNoLongerActive \/ SetOffline
  BY <1>6 DEF SetAvailable, SetUnavailable, DeviceNoLongerActive, SetOffline, Event, Kinds,
              start, change
<1>7. CASE op_getattr
  BY <1>7 DEF op_getattr, Kinds, Mains, share, change
<1>8. CASE fuse_destroy \/ DestroyEnds
  BY <1>8 DEF fuse_destroy, DestroyEnds, Throws, Kinds, Mains, share, table
<1>9. CASE UNCHANGED vars
  BY <1>9 DEF vars, start, share, change, table, Kinds
<1> QED BY <1>1, <1>2, <1>3, <1>4, <1>5, <1>6, <1>7, <1>8, <1>9, ServedKinds DEF Next

\* Every value is of its kind, for any command lines, objects and descriptors.  (The
\* fields of OFSEnvironment, FilesystemStatusManager and OFSFile that are modelled)
THEOREM SessionTypeCorrect == Spec => []TypeOK
<1>1. Init => TypeInv
  BY SessionStarts, ExitStarts, KindsStart DEF TypeInv
<1>2. TypeInv /\ [Next]_vars => TypeInv'
  BY SessionSteps, ExitSteps, KindsSteps DEF TypeInv
<1>3. TypeInv => TypeOK
  <2> SUFFICES ASSUME TypeInv PROVE TypeOK
    OBVIOUS
  <2>1. env.end \in Ends /\ env.unmount \in BOOLEAN /\ env.lazywrite \in BOOLEAN
    BY DEF TypeInv, Kinds, Environments
  <2> QED BY <2>1 DEF TypeInv, Kinds, SessionInv, DescriptorsInv, TableOK, ExitInv, TypeOK
<1> QED BY <1>1, <1>2, <1>3, PTL DEF Spec

\* However many options a command line has: it is read in every order of them or in
\* none, and gives the same process.  (OFSEnvironment::init of ofsenvironment.cpp)
THEOREM OrderNeverMatters == Spec => []OrderDoesNotMatter
<1>1. Init => Kinds /\ ExitInv
  BY KindsStart, ExitStarts
<1>2. Kinds /\ ExitInv /\ [Next]_vars => (Kinds /\ ExitInv)'
  BY KindsSteps, ExitSteps
<1>3. Kinds => OrderDoesNotMatter
  <2> SUFFICES ASSUME line \in CommandLines, NEW q \in Reordered(line)
               PROVE  Process(q) = Process(line)
    BY DEF Kinds, OrderDoesNotMatter
  <2>1. line \in Seq(Given)
    BY LinesAssumption DEF Given
  <2> QED BY <2>1, OrderFree
<1> QED BY <1>1, <1>2, <1>3, PTL DEF Spec
================================================================================
