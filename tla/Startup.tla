--------------------------------- MODULE Startup ---------------------------------
(****************************************************************************)
(* The command line: OFSEnvironment::init (src/src/ofsenvironment.cpp) as a *)
(* fold over the options.  An option is its name and its value; the mount   *)
(* options of every -o follow each other like separate ones.  Options that  *)
(* only set a path, a list of devices or mount's own options are "string".  *)
(****************************************************************************)
EXTENDS Integers, SequencesExt, TLC

CONSTANTS Users, Groups    \* the names that getpwnam and getgrnam find

Unset == "unset"

\* How reading the command line ends, apart from "read": init throws (main prints
\* the usage and returns 1) or the process exits at once.
Ends == {"read", "thrown", "exited"}

Defaults ==
  [end |-> "read", rw |-> FALSE, ro |-> FALSE, unmount |-> TRUE, usefscache |-> FALSE,
   lazywrite |-> FALSE, lwoption |-> "n", uid |-> Unset, gid |-> Unset]

Throw(env) == [env EXCEPT !.end = "thrown"]
Exit(env)  == [env EXCEPT !.end = "exited"]

SetUid(env, uid) == IF env.uid = Unset THEN [env EXCEPT !.uid = uid] ELSE Exit(env)
SetGid(env, gid) == IF env.gid = Unset THEN [env EXCEPT !.gid = gid] ELSE Exit(env)

\* A user or group that is looked up by its name: the id is set, or the process exits.
ByName(env, field, name, known) ==
  IF name \in known /\ env[field] = Unset
  THEN [env EXCEPT ![field] = name] ELSE Exit(env)

LazyWrite(env, option) == [env EXCEPT !.lazywrite = TRUE, !.lwoption = option]

\* Mutant of MountOption: ro does not look whether rw has been set.
MountOptionOneSided(env, o) ==
  CASE o.name = "rw"        -> IF env.ro THEN Throw(env) ELSE [env EXCEPT !.rw = TRUE]
    [] o.name = "ro"        -> [env EXCEPT !.ro = TRUE]
    [] o.name = "nounmount" -> [env EXCEPT !.unmount = FALSE, !.usefscache = TRUE]
    [] o.name = "lazywrite" -> ByName(LazyWrite(env, o.value), "uid", o.value, Users)
    [] OTHER                -> env

\* The options of -o.  Two cases lack their break: nounmount goes on into fsc, and
\* lazywrite into user, with its own value as the name of one.
MountOption(env, o) ==
  CASE o.name = "rw"        -> IF env.ro THEN Throw(env) ELSE [env EXCEPT !.rw = TRUE]
    [] o.name = "ro"        -> IF env.rw THEN Throw(env) ELSE [env EXCEPT !.ro = TRUE]
    [] o.name = "nounmount" -> [env EXCEPT !.unmount = FALSE, !.usefscache = TRUE]
    [] o.name = "fsc"       -> [env EXCEPT !.usefscache = TRUE]
    [] o.name = "lazywrite" -> ByName(LazyWrite(env, o.value), "uid", o.value, Users)
    [] o.name = "user"      -> ByName(env, "uid", o.value, Users)
    [] o.name = "uid"       -> SetUid(env, o.value)
    [] o.name = "group"     -> ByName(env, "gid", o.value, Groups)
    [] o.name = "gid"       -> SetGid(env, o.value)
    [] OTHER                -> env          \* a string, allowother or an unknown one

Option(env, o) ==
  CASE o.name = "-n"            -> [env EXCEPT !.unmount = FALSE]
    [] o.name = "-z"            -> LazyWrite(env, o.value)
    [] o.name \in {"-h", "-?"}  -> Throw(env)
    [] o.name = "-V"            -> Exit(env)
    [] OTHER                    -> MountOption(env, o)

\* Nothing is read after an option that ends it.
init(line) ==
  FoldLeft(LAMBDA env, o : IF env.end = "read" THEN Option(env, o) ELSE env,
           Defaults, line)

\* The process a command line gives, if any; lwoption is the option given last.
Process(line) ==
  {[env EXCEPT !.lwoption = Unset] : env \in {e \in {init(line)} : e.end = "read"}}

Reordered(line) ==
  {[i \in DOMAIN line |-> line[order[i]]] : order \in Bijection(DOMAIN line, DOMAIN line)}
================================================================================
