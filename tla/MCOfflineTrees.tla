----------------------------- MODULE MCOfflineTrees -----------------------------
(* OfflineTrees for TLC: a directory with a file in it and a link beside it;  *)
(* the directory may give way to a file.                                      *)
EXTENDS OfflineTrees, TLC

dirD  == <<"/", "d">>
fileF == <<"/", "d", "/", "f">>
linkL == <<"/", "l">>

MCAppPaths == {RootPath, dirD, fileF, linkL}
MCListed   == {dirD}
MCNames    == {<<"d">>, <<"f">>, <<"l">>}
MCKindsAt  == (Root :> {"dir"}) @@ (dirD :> {"dir", "file"}) @@ (fileF :> {"file"})
              @@ (linkL :> {"link"})

\* The same places where it is the file that may give way to a directory.
MCKindsBelow == [MCKindsAt EXCEPT ![dirD] = {"dir"}, ![fileF] = {"file", "dir"}, ![linkL] = {"link"}]

\* The hypothesis of the theorems about update and resolution.
ASSUME MCPathsArePlain == PlainPaths
================================================================================
