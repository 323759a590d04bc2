----------------------------- MODULE Startup_proofs -----------------------------
(****************************************************************************)
(* What a command line gives, for every command line: the options that are  *)
(* read are described without their order (Accepted, Gives), and the fold   *)
(* of init is shown to compute that, position by position.                  *)
(****************************************************************************)
EXTENDS Startup, FiniteSetTheorems, WellFoundedInduction, TLAPS

\* A set of numbers has a least one.
LEMMA LeastNumber ==
  ASSUME NEW T, T \subseteq Nat, T # {}
  PROVE  \E m \in T : \A k \in T : m <= k
<1>1. IsWellFoundedOn(OpToRel(<, Nat), Nat)
  BY NatLessThanWellFounded
<1>2. PICK m \in T : \A k \in T : ~(<<k, m>> \in OpToRel(<, Nat))
  BY <1>1, WFMin
<1>3. \A k \in T : ~(k < m)
  BY <1>2 DEF OpToRel
<1> QED BY <1>3

LEMMA MaxProperties ==
  ASSUME NEW n \in Nat, NEW S, S \subseteq 1 .. n, S # {}
  PROVE  Max(S) \in S /\ \A k \in S : k <= Max(S)
<1> DEFINE T == {b \in Nat : \A k \in S : k <= b}
<1>1. n \in T
  OBVIOUS
<1>2. PICK b \in T : \A k \in T : b <= k
  BY <1>1, LeastNumber
<1>3. b \in S
  <2> SUFFICES ASSUME b \notin S PROVE FALSE
    OBVIOUS
  <2>1. PICK x \in S : TRUE
    OBVIOUS
  <2>2. b - 1 \in Nat /\ x <= b
    BY <1>2, <2>1
  <2>3. \A k \in S : k <= b - 1
    BY <1>2
  <2> QED BY <1>2, <2>2, <2>3
<1>4. \A k \in S : b >= k
  BY <1>2
<1> QED BY <1>3, <1>4 DEF Max

Step(env, o) == IF env.end = "read" THEN Option(env, o) ELSE env

\* The function that the fold of init defines over sets of positions of a line.
Folds(f, line, n) ==
  /\ DOMAIN f = SUBSET (1 .. n)
  /\ f[{}] = Defaults
  /\ \A s \in SUBSET (1 .. n) : s # {} => f[s] = Step(f[s \ {Max(s)}], line[Max(s)])

LEMMA FoldsGrow ==
  ASSUME NEW k \in Nat, NEW line, NEW f, Folds(f, line, k)
  PROVE  \E h : Folds(h, line, k + 1)
<1> DEFINE m == k + 1
           h == [s \in SUBSET (1 .. m) |->
                   IF m \in s THEN Step(f[s \ {m}], line[m]) ELSE f[s]]
<1>1. h[{}] = Defaults
  BY DEF Folds
<1>2. ASSUME NEW s \in SUBSET (1 .. m), s # {}
      PROVE  h[s] = Step(h[s \ {Max(s)}], line[Max(s)])
  <2>1. Max(s) \in s /\ (\A j \in s : j <= Max(s)) /\ m \in Nat
    <3>1. m \in Nat
      OBVIOUS
    <3> HIDE DEF m
    <3> QED BY <1>2, <3>1, MaxProperties
  <2>2. s \ {Max(s)} \in SUBSET (1 .. m)
    OBVIOUS
  <2>3. CASE m \in s
    <3>1. Max(s) = m
      <4> HIDE DEF m
      <4>1. Max(s) \in 1 .. m /\ m <= Max(s)
        BY <2>1, <2>3
      <4> QED BY <2>1, <4>1
    <3>2. h[s \ {m}] = f[s \ {m}]
      BY <3>1, <2>2
    <3> HIDE DEF m
    <3> QED BY <2>3, <3>1, <3>2
  <2>4. CASE m \notin s
    <3>1. s \in SUBSET (1 .. k)
      BY <2>4
    <3>2. f[s] = Step(f[s \ {Max(s)}], line[Max(s)])
      BY <1>2, <3>1 DEF Folds
    <3>3. h[s] = f[s] /\ h[s \ {Max(s)}] = f[s \ {Max(s)}]
      BY <2>2, <2>4
    <3> QED BY <3>2, <3>3
  <2> QED BY <2>3, <2>4
<1>3. Folds(h, line, m)
  <2>1. DOMAIN h = SUBSET (1 .. m)
    OBVIOUS
  <2> HIDE DEF h, m
  <2> QED BY <1>1, <1>2, <2>1 DEF Folds
<1> QED BY <1>3

LEMMA FoldsExist ==
  ASSUME NEW n \in Nat, NEW line
  PROVE  \E f : Folds(f, line, n)
<1> DEFINE T == {m \in Nat : ~ \E f : Folds(f, line, m)}
<1>1. 0 \notin T
  <2> DEFINE f == [s \in SUBSET (1 .. 0) |-> Defaults]
  <2>1. Folds(f, line, 0)
    <3>1. \A s \in SUBSET (1 .. 0) : s = {}
      OBVIOUS
    <3> QED BY <3>1 DEF Folds
  <2> QED BY <2>1
<1>2. T = {}
  <2> SUFFICES ASSUME T # {} PROVE FALSE
    OBVIOUS
  <2>1. PICK m \in T : \A k \in T : m <= k
    <3>1. T \subseteq Nat
      OBVIOUS
    <3> HIDE DEF T
    <3> QED BY <3>1, LeastNumber
  <2>2. m \in Nat /\ m # 0
    BY <1>1
  <2>3. m - 1 \in Nat /\ m - 1 \notin T /\ (m - 1) + 1 = m
    BY <2>1, <2>2
  <2>4. PICK f : Folds(f, line, m - 1)
    BY <2>3
  <2>5. \E h : Folds(h, line, (m - 1) + 1)
    BY <2>3, <2>4, FoldsGrow
  <2> QED BY <2>3, <2>5
<1> QED BY <1>2

\* The environment after the first k options.
Reading(f, line, n) ==
  /\ f[0] = Defaults
  /\ \A k \in 1 .. n : f[k] = Step(f[k - 1], line[k])
  /\ init(line) = f[n]

\* The fold of init, unrolled.
LEMMA InitReads ==
  ASSUME NEW n \in Nat, NEW line, DOMAIN line = 1 .. n
  PROVE  \E f : Reading(f, line, n)
<1> DEFINE S == 1 .. n
           Iter(h) == h = [s \in SUBSET S |->
                             IF s = {} THEN Defaults
                             ELSE Step(h[s \ {Max(s)}], line[Max(s)])]
           h == CHOOSE h : Iter(h)
           f == [k \in 0 .. n |-> h[1 .. k]]
<1>1. init(line) = h[S]
  BY DEF init, FoldLeft, MapThenFoldSet, Step
<1>2. PICK g : Folds(g, line, n)
  BY FoldsExist
<1>3. Iter([s \in SUBSET S |-> g[s]])
  <2> DEFINE gS == [s \in SUBSET S |-> g[s]]
  <2>1. ASSUME NEW s \in SUBSET S
        PROVE  gS[s] = IF s = {} THEN Defaults
                       ELSE Step(gS[s \ {Max(s)}], line[Max(s)])
    <3>1. CASE s = {}
      BY <3>1, <1>2 DEF Folds
    <3>2. CASE s # {}
      <4>1. g[s] = Step(g[s \ {Max(s)}], line[Max(s)])
        BY <3>2, <1>2 DEF Folds
      <4> QED BY <4>1, <3>2
    <3> QED BY <3>1, <3>2
  <2> QED BY <2>1
<1>4. Iter(h)
  <2> HIDE DEF Iter
  <2> QED BY <1>3
<1>5. \A s \in SUBSET S : h[s] = IF s = {} THEN Defaults
                                 ELSE Step(h[s \ {Max(s)}], line[Max(s)])
  <2> HIDE DEF h
  <2> QED BY <1>4
<1> HIDE DEF h
<1>6. f[0] = Defaults
  <2>1. 1 .. 0 = {} /\ 0 \in 0 .. n
    OBVIOUS
  <2> QED BY <2>1, <1>5
<1>7. ASSUME NEW k \in 1 .. n
      PROVE  f[k] = Step(f[k - 1], line[k])
  <2>1. /\ 1 .. k \in SUBSET S /\ 1 .. k # {} /\ k \in 1 .. k
        /\ k - 1 \in 0 .. n /\ k \in 0 .. n
        /\ (1 .. k) \ {k} = 1 .. k - 1
    <3>1. k \in Nat /\ 1 <= k /\ k <= n /\ k \in 1 .. k
      OBVIOUS
    <3>2. 1 .. k \in SUBSET S
      BY <3>1
    <3>3. k - 1 \in 0 .. n /\ k \in 0 .. n
      BY <3>1
    <3>4. (1 .. k) \ {k} = 1 .. k - 1
      BY <3>1
    <3> QED BY <3>1, <3>2, <3>3, <3>4
  <2>2. Max(1 .. k) \in 1 .. k /\ \A j \in 1 .. k : j <= Max(1 .. k)
    BY <2>1, MaxProperties
  <2>3. Max(1 .. k) = k
    BY <2>1, <2>2
  <2>4. h[1 .. k] = Step(h[1 .. k - 1], line[k])
    BY <1>5, <2>1, <2>3
  <2> QED BY <2>1, <2>4
<1>8. f[n] = h[S]
  OBVIOUS
<1>9. Reading(f, line, n)
  <2> HIDE DEF f, h
  <2> QED BY <1>1, <1>6, <1>7, <1>8 DEF Reading
<1> QED BY <1>9

(****************************************************************************)
(* What one option does.                                                    *)
(****************************************************************************)
\* The word that stands for no user is nobody's name.
Given == [name : STRING, value : STRING \ {Unset}]

\* The provers do not know that a word they read is a string.
Words == STRING \cup {Unset, "n"}

Environments ==
  [end : Ends, rw : BOOLEAN, ro : BOOLEAN, unmount : BOOLEAN, usefscache : BOOLEAN,
   lazywrite : BOOLEAN, lwoption : Words, uid : Words, gid : Words]

ForUid == {"lazywrite", "user", "uid"}
ForGid == {"group", "gid"}
Enders == {"-h", "-?", "-V"}

\* An option that does not end the reading of the command line.
Fits(env, o) ==
  /\ o.name \notin Enders
  /\ o.name = "rw" => env.ro = FALSE
  /\ o.name = "ro" => env.rw = FALSE
  /\ o.name \in ForUid => env.uid = Unset
  /\ o.name \in ForGid => env.gid = Unset
  /\ o.name \in {"lazywrite", "user"} => o.value \in Users
  /\ o.name = "group" => o.value \in Groups

Effect(env, o, new) ==
  /\ new.end = "read"
  /\ new.rw = TRUE <=> env.rw = TRUE \/ o.name = "rw"
  /\ new.ro = TRUE <=> env.ro = TRUE \/ o.name = "ro"
  /\ new.unmount = TRUE <=> env.unmount = TRUE /\ o.name \notin {"nounmount", "-n"}
  /\ new.usefscache = TRUE <=> env.usefscache = TRUE \/ o.name \in {"nounmount", "fsc"}
  /\ new.lazywrite = TRUE <=> env.lazywrite = TRUE \/ o.name \in {"lazywrite", "-z"}
  /\ new.uid = IF o.name \in ForUid THEN o.value ELSE env.uid
  /\ new.gid = IF o.name \in ForGid THEN o.value ELSE env.gid

Follows(env, o, new) ==
  /\ new \in Environments
  /\ IF Fits(env, o) THEN Effect(env, o, new) ELSE new.end # "read"

LEMMA EndsOfReading ==
  ASSUME NEW env \in Environments
  PROVE  /\ Throw(env) \in Environments /\ Throw(env).end # "read"
         /\ Exit(env) \in Environments /\ Exit(env).end # "read"
BY DEF Throw, Exit, Environments, Ends

LEMMA OptionFollows ==
  ASSUME NEW env \in Environments, env.end = "read", NEW o \in Given
  PROVE  Follows(env, o, Option(env, o))
<1> DEFINE new == Option(env, o)
<1>0. o.value \in Words /\ o.value # Unset
  BY DEF Given, Words
<1> USE EndsOfReading, <1>0
<1>1. CASE o.name \in {"rw", "ro"}
  BY <1>1 DEF Follows, Fits, Effect, Option, MountOption, Environments, Ends, Enders, ForUid,
              ForGid
<1>2. CASE o.name \in {"nounmount", "fsc"}
  BY <1>2 DEF Follows, Fits, Effect, Option, MountOption, Environments, Ends, Enders, ForUid,
              ForGid
<1>3. CASE o.name = "-n"
  BY <1>3 DEF Follows, Fits, Effect, Option, Environments, Ends, Enders, ForUid, ForGid
<1>4. CASE o.name = "-z"
  BY <1>4 DEF Follows, Fits, Effect, Option, LazyWrite, Environments, Ends, Enders, ForUid,
               ForGid
<1>5. CASE o.name \in {"lazywrite", "user"}
  BY <1>5 DEF Follows, Fits, Effect, Option, MountOption, LazyWrite, ByName, Exit, Environments,
              Ends, Enders, ForUid, ForGid
<1>6. CASE o.name = "uid"
  BY <1>6 DEF Follows, Fits, Effect, Option, MountOption, SetUid, Environments, Ends,
              Enders, ForUid, ForGid
<1>7. CASE o.name = "group"
  BY <1>7 DEF Follows, Fits, Effect, Option, MountOption, ByName, Environments, Ends,
              Enders, ForUid, ForGid
<1>8. CASE o.name = "gid"
  BY <1>8 DEF Follows, Fits, Effect, Option, MountOption, SetGid, Environments, Ends,
              Enders, ForUid, ForGid
<1>9. CASE o.name \in Enders
  BY <1>9 DEF Follows, Fits, Option, Enders
<1>10. CASE o.name \notin {"rw", "ro", "nounmount", "fsc", "-n", "-z"} \cup ForUid \cup ForGid
                         \cup Enders
  <2>1. Option(env, o) = env
    BY <1>10 DEF Option, MountOption, Enders, ForUid, ForGid
  <2> QED BY <2>1, <1>10 DEF Follows, Fits, Effect, Enders, ForUid, ForGid
<1> QED
  BY <1>1, <1>2, <1>3, <1>4, <1>5, <1>6, <1>7, <1>8, <1>9, <1>10 DEF ForUid, ForGid

(****************************************************************************)
(* What a set of positions gives, whatever their order.                     *)
(****************************************************************************)
Has(line, P, names) == \E i \in P : line[i].name \in names
Once(line, P, names) ==
  \A i, j \in P : line[i].name \in names /\ line[j].name \in names => i = j

\* The options at the positions P are read, in whatever order they come.
Accepted(line, P) ==
  /\ ~Has(line, P, Enders)
  /\ ~(Has(line, P, {"rw"}) /\ Has(line, P, {"ro"}))
  /\ Once(line, P, ForUid) /\ Once(line, P, ForGid)
  /\ \A i \in P : line[i].name \in {"lazywrite", "user"} => line[i].value \in Users
  /\ \A i \in P : line[i].name = "group" => line[i].value \in Groups

\* An id is the value of the option for it, if there is one.
GivesId(line, P, names, id) ==
  /\ \A i \in P : line[i].name \in names => id = line[i].value
  /\ ~Has(line, P, names) => id = Unset

Gives(line, P, env) ==
  /\ env.end = "read"
  /\ env.rw = TRUE <=> Has(line, P, {"rw"})
  /\ env.ro = TRUE <=> Has(line, P, {"ro"})
  /\ env.unmount = TRUE <=> ~Has(line, P, {"nounmount", "-n"})
  /\ env.usefscache = TRUE <=> Has(line, P, {"nounmount", "fsc"})
  /\ env.lazywrite = TRUE <=> Has(line, P, {"lazywrite", "-z"})
  /\ GivesId(line, P, ForUid, env.uid)
  /\ GivesId(line, P, ForGid, env.gid)

\* What reading the positions P has to end with.
Reads(line, P, env) ==
  /\ env \in Environments
  /\ IF Accepted(line, P) THEN Gives(line, P, env) ELSE env.end # "read"

LEMMA MoreNames ==
  ASSUME NEW line, NEW P, NEW m, NEW names
  PROVE  Has(line, P \cup {m}, names) <=> Has(line, P, names) \/ line[m].name \in names
BY DEF Has

LEMMA OnceMore ==
  ASSUME NEW line, NEW P, NEW m, m \notin P, NEW names
  PROVE  Once(line, P \cup {m}, names)
           <=> Once(line, P, names) /\ ~(line[m].name \in names /\ Has(line, P, names))
<1>1. ASSUME Once(line, P \cup {m}, names)
      PROVE  Once(line, P, names) /\ ~(line[m].name \in names /\ Has(line, P, names))
  BY <1>1 DEF Once, Has
<1>2. ASSUME Once(line, P, names), ~(line[m].name \in names /\ Has(line, P, names))
      PROVE  Once(line, P \cup {m}, names)
  BY <1>2 DEF Once, Has
<1> QED BY <1>1, <1>2

\* An id that is still unset has had no option.
LEMMA UnsetId ==
  ASSUME NEW line, NEW P, \A i \in P : line[i] \in Given, NEW names, NEW id,
         GivesId(line, P, names, id)
  PROVE  id = Unset <=> ~Has(line, P, names)
BY DEF GivesId, Has, Given

LEMMA AcceptedMore ==
  ASSUME NEW line, NEW P, NEW m, m \notin P, \A i \in P \cup {m} : line[i] \in Given,
         NEW env \in Environments, Gives(line, P, env), Accepted(line, P)
  PROVE  Accepted(line, P \cup {m}) <=> Fits(env, line[m])
<1> DEFINE o == line[m]
           Q == P \cup {m}
<1>1. Has(line, Q, Enders) <=> o.name \in Enders
  BY MoreNames DEF Accepted
<1>2. (Has(line, Q, {"rw"}) /\ Has(line, Q, {"ro"}))
        <=> (o.name = "rw" /\ env.ro = TRUE) \/ (o.name = "ro" /\ env.rw = TRUE)
  <2>1. /\ Has(line, Q, {"rw"}) <=> env.rw = TRUE \/ o.name = "rw"
        /\ Has(line, Q, {"ro"}) <=> env.ro = TRUE \/ o.name = "ro"
    BY MoreNames DEF Gives
  <2>2. ~(env.rw = TRUE /\ env.ro = TRUE)
    BY DEF Gives, Accepted
  <2> QED BY <2>1, <2>2
<1>3. Once(line, Q, ForUid) <=> (o.name \in ForUid => env.uid = Unset)
  <2>1. env.uid = Unset <=> ~Has(line, P, ForUid)
    BY UnsetId DEF Gives
  <2> QED BY <2>1, OnceMore DEF Accepted
<1>4. Once(line, Q, ForGid) <=> (o.name \in ForGid => env.gid = Unset)
  <2>1. env.gid = Unset <=> ~Has(line, P, ForGid)
    BY UnsetId DEF Gives
  <2> QED BY <2>1, OnceMore DEF Accepted
<1>5. /\ (\A i \in Q : line[i].name \in {"lazywrite", "user"} => line[i].value \in Users)
           <=> (o.name \in {"lazywrite", "user"} => o.value \in Users)
      /\ (\A i \in Q : line[i].name = "group" => line[i].value \in Groups)
           <=> (o.name = "group" => o.value \in Groups)
  BY DEF Accepted
<1>6. env.rw \in BOOLEAN /\ env.ro \in BOOLEAN
  BY DEF Environments
<1>7. ~((o.name = "rw" /\ env.ro = TRUE) \/ (o.name = "ro" /\ env.rw = TRUE))
        <=> (o.name = "rw" => env.ro = FALSE) /\ (o.name = "ro" => env.rw = FALSE)
  BY <1>6
<1> HIDE DEF Q, o
<1>8. Accepted(line, Q) <=> Fits(env, o)
  BY <1>1, <1>2, <1>3, <1>4, <1>5, <1>7, Zenon DEF Fits, Accepted
<1> QED BY <1>8 DEF Q, o

LEMMA IdMore ==
  ASSUME NEW line, NEW P, NEW m, NEW names, NEW old, GivesId(line, P, names, old),
         ~(line[m].name \in names /\ Has(line, P, names))
  PROVE  GivesId(line, P \cup {m}, names, IF line[m].name \in names THEN line[m].value ELSE old)
BY DEF GivesId, Has

LEMMA GivesMore ==
  ASSUME NEW line, NEW P, NEW m, m \notin P, Accepted(line, P \cup {m}),
         NEW env, NEW new, Gives(line, P, env), Effect(env, line[m], new)
  PROVE  Gives(line, P \cup {m}, new)
<1> DEFINE o == line[m]
           Q == P \cup {m}
<1>1. /\ new.rw = TRUE <=> Has(line, Q, {"rw"})
      /\ new.ro = TRUE <=> Has(line, Q, {"ro"})
      /\ new.unmount = TRUE <=> ~Has(line, Q, {"nounmount", "-n"})
      /\ new.usefscache = TRUE <=> Has(line, Q, {"nounmount", "fsc"})
      /\ new.lazywrite = TRUE <=> Has(line, Q, {"lazywrite", "-z"})
  BY MoreNames DEF Gives, Effect
<1>2. GivesId(line, Q, ForUid, new.uid)
  <2>1. ~(o.name \in ForUid /\ Has(line, P, ForUid))
    BY OnceMore DEF Accepted
  <2> QED BY <2>1, IdMore DEF Gives, Effect
<1>3. GivesId(line, Q, ForGid, new.gid)
  <2>1. ~(o.name \in ForGid /\ Has(line, P, ForGid))
    BY OnceMore DEF Accepted
  <2> QED BY <2>1, IdMore DEF Gives, Effect
<1> HIDE DEF Q
<1> QED BY <1>1, <1>2, <1>3 DEF Gives, Effect, Q

LEMMA NotAcceptedMore ==
  ASSUME NEW line, NEW P, NEW m, m \notin P, Accepted(line, P \cup {m})
  PROVE  Accepted(line, P)
BY MoreNames, OnceMore DEF Accepted

LEMMA ReadsMore ==
  ASSUME NEW line, NEW P, NEW m, m \notin P, \A i \in P \cup {m} : line[i] \in Given,
         NEW env, Reads(line, P, env)
  PROVE  Reads(line, P \cup {m}, Step(env, line[m]))
<1>1. CASE ~Accepted(line, P)
  <2>1. env.end # "read" /\ ~Accepted(line, P \cup {m})
    BY <1>1, NotAcceptedMore DEF Reads
  <2> QED BY <2>1 DEF Reads, Step
<1>2. CASE Accepted(line, P)
  <2>1. env \in Environments /\ Gives(line, P, env) /\ env.end = "read"
    BY <1>2 DEF Reads, Gives
  <2>2. Step(env, line[m]) = Option(env, line[m])
    BY <2>1 DEF Step
  <2>3. Follows(env, line[m], Option(env, line[m]))
    BY <2>1, OptionFollows
  <2>4. Accepted(line, P \cup {m}) <=> Fits(env, line[m])
    BY <1>2, <2>1, AcceptedMore
  <2>5. CASE Fits(env, line[m])
    <3>1. Effect(env, line[m], Option(env, line[m]))
      BY <2>3, <2>5 DEF Follows
    <3>2. Gives(line, P \cup {m}, Option(env, line[m]))
      BY <2>1, <2>4, <2>5, <3>1, GivesMore
    <3> QED BY <2>2, <2>3, <2>4, <2>5, <3>2 DEF Reads, Follows
  <2>6. CASE ~Fits(env, line[m])
    BY <2>2, <2>3, <2>4, <2>6 DEF Reads, Follows
  <2> QED BY <2>5, <2>6
<1> QED BY <1>1, <1>2

\* What the fold reads, position by position.
LEMMA PrefixesRead ==
  ASSUME NEW n \in Nat, NEW line, \A i \in 1 .. n : line[i] \in Given,
         NEW f, Reading(f, line, n)
  PROVE  \A k \in 0 .. n : Reads(line, 1 .. k, f[k])
<1> DEFINE T == {k \in 0 .. n : ~Reads(line, 1 .. k, f[k])}
<1>1. Reads(line, 1 .. 0, f[0])
  <2>1. 1 .. 0 = {} /\ f[0] = Defaults
    BY DEF Reading
  <2>2. Defaults \in Environments
    BY DEF Defaults, Environments, Words, Ends, Unset
  <2>3. \A names : ~Has(line, {}, names)
    BY DEF Has
  <2>4. Accepted(line, {})
    BY <2>3 DEF Accepted, Once
  <2>5. GivesId(line, {}, ForUid, Unset) /\ GivesId(line, {}, ForGid, Unset)
    BY DEF GivesId
  <2>6. Gives(line, {}, Defaults)
    BY <2>3, <2>5 DEF Gives, Defaults
  <2>7. Reads(line, {}, Defaults)
    BY <2>2, <2>4, <2>6 DEF Reads
  <2> QED BY <2>1, <2>7
<1>2. T = {}
  <2> SUFFICES ASSUME T # {} PROVE FALSE
    OBVIOUS
  <2>1. T \subseteq Nat
    OBVIOUS
  <2>2. PICK m \in T : \A k \in T : m <= k
    <3> HIDE DEF T
    <3> QED BY <2>1, LeastNumber
  <2>3. m \in 0 .. n /\ m # 0
    BY <1>1
  <2>4. /\ m - 1 \in 0 .. n /\ m \in 1 .. n /\ m - 1 \notin T
        /\ m \notin 1 .. m - 1 /\ 1 .. m = (1 .. m - 1) \cup {m}
        /\ 1 .. m \subseteq 1 .. n
    <3>1. m \in Nat /\ 1 <= m /\ m <= n
      BY <2>3
    <3>2. 1 .. m = (1 .. m - 1) \cup {m}
      BY <3>1
    <3>3. m - 1 \in Nat /\ ~(m <= m - 1)
      BY <3>1
    <3>4. m - 1 \notin T
      BY <2>2, <3>3
    <3> QED BY <3>1, <3>2, <3>3, <3>4
  <2>5. Reads(line, 1 .. m - 1, f[m - 1])
    BY <2>4
  <2>6. f[m] = Step(f[m - 1], line[m])
    BY <2>4 DEF Reading
  <2>7. \A i \in (1 .. m - 1) \cup {m} : line[i] \in Given
    BY <2>4
  <2>8. Reads(line, (1 .. m - 1) \cup {m}, Step(f[m - 1], line[m]))
    BY <2>4, <2>5, <2>7, ReadsMore
  <2>9. Reads(line, 1 .. m, f[m])
    BY <2>4, <2>6, <2>8
  <2> QED BY <2>2, <2>9
<1> QED BY <1>2

\* Every command line is read as Accepted and Gives say, which do not look at the
\* order of its options.  (OFSEnvironment::init of ofsenvironment.cpp)
THEOREM CommandLineRead ==
  ASSUME NEW line \in Seq(Given)
  PROVE  Reads(line, DOMAIN line, init(line))
<1>0. Len(line) \in Nat /\ DOMAIN line = 1 .. Len(line)
      /\ \A i \in 1 .. Len(line) : line[i] \in Given
  <2> HIDE DEF Given
  <2> QED OBVIOUS
<1>1. PICK f : Reading(f, line, Len(line))
  BY <1>0, InitReads
<1>2. Reads(line, 1 .. Len(line), f[Len(line)])
  BY <1>0, <1>1, PrefixesRead
<1> QED BY <1>0, <1>1, <1>2 DEF Reading

\* An order takes every position once.
LEMMA OrderIsOneToOne ==
  ASSUME NEW n \in Nat, NEW order \in Bijection(1 .. n, 1 .. n)
  PROVE  /\ \A i \in 1 .. n : order[i] \in 1 .. n
         /\ \A j \in 1 .. n : \E i \in 1 .. n : order[i] = j
         /\ \A i, j \in 1 .. n : order[i] = order[j] => i = j
BY DEF Bijection, Injection, IsInjective, Surjection

LEMMA ReorderedReadsAlike ==
  ASSUME NEW n \in Nat, NEW order \in Bijection(1 .. n, 1 .. n), NEW line, NEW q,
         \A i \in 1 .. n : q[i] = line[order[i]]
  PROVE  /\ Accepted(q, 1 .. n) <=> Accepted(line, 1 .. n)
         /\ \A env : Gives(q, 1 .. n, env) => Gives(line, 1 .. n, env)
<1> DEFINE P == 1 .. n
<1>1. /\ \A i \in P : order[i] \in P /\ q[i] = line[order[i]]
      /\ \A j \in P : \E i \in P : order[i] = j
      /\ \A i, j \in P : order[i] = order[j] => i = j
  BY OrderIsOneToOne
<1> HIDE DEF P
<1>2. \A j \in P : \E i \in P : order[i] = j /\ q[i] = line[j]
  BY <1>1
<1>3. ASSUME NEW names
      PROVE  Has(q, P, names) <=> Has(line, P, names)
  BY <1>1, <1>2 DEF Has
<1>4. ASSUME NEW names
      PROVE  Once(q, P, names) <=> Once(line, P, names)
  <2>1. ASSUME Once(q, P, names), NEW i \in P, NEW j \in P,
               line[i].name \in names, line[j].name \in names
        PROVE  i = j
    <3>1. PICK k \in P : order[k] = i /\ q[k] = line[i]
      BY <1>2
    <3>2. PICK l \in P : order[l] = j /\ q[l] = line[j]
      BY <1>2
    <3>3. k = l
      BY <2>1, <3>1, <3>2 DEF Once
    <3> QED BY <3>1, <3>2, <3>3
  <2>2. ASSUME Once(line, P, names), NEW i \in P, NEW j \in P,
               q[i].name \in names, q[j].name \in names
        PROVE  i = j
    <3>1. order[i] = order[j]
      BY <2>2, <1>1 DEF Once
    <3> QED BY <3>1, <1>1
  <2> QED BY <2>1, <2>2 DEF Once
<1>5. ASSUME NEW names, NEW known
      PROVE  (\A i \in P : q[i].name \in names => q[i].value \in known)
               <=> (\A i \in P : line[i].name \in names => line[i].value \in known)
  BY <1>1, <1>2
<1>6. Accepted(q, P) <=> Accepted(line, P)
  <2>1. (\A i \in P : q[i].name = "group" => q[i].value \in Groups)
          <=> (\A i \in P : line[i].name = "group" => line[i].value \in Groups)
    <3>1. \A i : (q[i].name = "group" <=> q[i].name \in {"group"})
                  /\ (line[i].name = "group" <=> line[i].name \in {"group"})
      OBVIOUS
    <3> QED BY <1>5, <3>1, Zenon
  <2>2. (\A i \in P : q[i].name \in {"lazywrite", "user"} => q[i].value \in Users)
          <=> (\A i \in P : line[i].name \in {"lazywrite", "user"} => line[i].value \in Users)
    BY <1>5
  <2> QED BY <1>3, <1>4, <2>1, <2>2, Zenon DEF Accepted
<1>7. ASSUME NEW names, NEW id, GivesId(q, P, names, id)
      PROVE  GivesId(line, P, names, id)
  BY <1>2, <1>3, <1>7 DEF GivesId
<1>8. ASSUME NEW env, Gives(q, P, env)
      PROVE  Gives(line, P, env)
  <2>1. GivesId(line, P, ForUid, env.uid) /\ GivesId(line, P, ForGid, env.gid)
    BY <1>7, <1>8 DEF Gives
  <2> QED BY <1>3, <1>8, <2>1, Zenon DEF Gives
<1> QED BY <1>6, <1>8 DEF P

\* What Gives says is everything but the option for lazy write.
LEMMA GivesOneProcess ==
  ASSUME NEW line, NEW P, NEW e \in Environments, NEW g \in Environments,
         Gives(line, P, e), Gives(line, P, g)
  PROVE  [e EXCEPT !.lwoption = Unset] = [g EXCEPT !.lwoption = Unset]
<1>1. e.rw = g.rw /\ e.ro = g.ro /\ e.unmount = g.unmount /\ e.usefscache = g.usefscache
      /\ e.lazywrite = g.lazywrite /\ e.end = g.end
  <2>1. \A x, y \in BOOLEAN : (x = TRUE <=> y = TRUE) => x = y
    OBVIOUS
  <2>2. /\ e.rw \in BOOLEAN /\ e.ro \in BOOLEAN /\ e.unmount \in BOOLEAN
        /\ e.usefscache \in BOOLEAN /\ e.lazywrite \in BOOLEAN
        /\ g.rw \in BOOLEAN /\ g.ro \in BOOLEAN /\ g.unmount \in BOOLEAN
        /\ g.usefscache \in BOOLEAN /\ g.lazywrite \in BOOLEAN
    BY DEF Environments
  <2>3. /\ e.rw = TRUE <=> g.rw = TRUE
        /\ e.ro = TRUE <=> g.ro = TRUE
        /\ e.unmount = TRUE <=> g.unmount = TRUE
        /\ e.usefscache = TRUE <=> g.usefscache = TRUE
        /\ e.lazywrite = TRUE <=> g.lazywrite = TRUE
        /\ e.end = g.end
    BY DEF Gives
  <2> QED BY <2>1, <2>2, <2>3, Zenon
<1>2. e.uid = g.uid /\ e.gid = g.gid
  <2>1. ASSUME NEW names, NEW x, NEW y, GivesId(line, P, names, x), GivesId(line, P, names, y)
        PROVE  x = y
    BY <2>1 DEF GivesId, Has
  <2> QED BY <2>1 DEF Gives
<1> QED BY <1>1, <1>2 DEF Environments

\* A command line is read in every order of its options or in none, and gives the
\* same process.  (OFSEnvironment::init: rw and ro, user and uid, group and gid)
THEOREM OrderFree ==
  ASSUME NEW line \in Seq(Given), NEW q \in Reordered(line)
  PROVE  Process(q) = Process(line)
<1> DEFINE n == Len(line)
<1>0. n \in Nat /\ DOMAIN line = 1 .. n /\ \A i \in 1 .. n : line[i] \in Given
  <2> HIDE DEF Given
  <2> QED OBVIOUS
<1> HIDE DEF n
<1>1. PICK order \in Bijection(1 .. n, 1 .. n) : q = [i \in 1 .. n |-> line[order[i]]]
  BY <1>0 DEF Reordered
<1>2. \A i \in 1 .. n : q[i] = line[order[i]] /\ q[i] \in Given
  BY <1>0, <1>1, OrderIsOneToOne
<1>3. q \in Seq(Given) /\ DOMAIN q = 1 .. n
  <2>1. q \in [1 .. n -> Given]
    BY <1>1, <1>2
  <2> HIDE DEF Given
  <2> QED BY <1>0, <2>1
<1>4. Reads(line, 1 .. n, init(line)) /\ Reads(q, 1 .. n, init(q))
  BY <1>0, <1>3, CommandLineRead
<1>5. Accepted(q, 1 .. n) <=> Accepted(line, 1 .. n)
  BY <1>0, <1>2, ReorderedReadsAlike
<1>6. CASE ~Accepted(line, 1 .. n)
  <2>1. init(line).end # "read" /\ init(q).end # "read"
    BY <1>4, <1>5, <1>6 DEF Reads
  <2> QED BY <2>1 DEF Process
<1>7. CASE Accepted(line, 1 .. n)
  <2>1. /\ init(line) \in Environments /\ Gives(line, 1 .. n, init(line))
        /\ init(q) \in Environments /\ Gives(q, 1 .. n, init(q))
    BY <1>4, <1>5, <1>7 DEF Reads
  <2>2. Gives(line, 1 .. n, init(q))
    BY <2>1, <1>0, <1>2, ReorderedReadsAlike
  <2>3. [init(q) EXCEPT !.lwoption = Unset] = [init(line) EXCEPT !.lwoption = Unset]
    BY <2>1, <2>2, GivesOneProcess
  <2>4. init(line).end = "read" /\ init(q).end = "read"
    BY <2>1 DEF Gives
  <2> QED BY <2>3, <2>4 DEF Process
<1> QED BY <1>6, <1>7
================================================================================
