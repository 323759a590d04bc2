----------------------------- MODULE MCSyncLogger -----------------------------
(* SyncLogger for TLC: two paths, one of them two bytes longer than the      *)
(* other, which is the one difference of lengths that makes a rewrite keep   *)
(* a whole entry instead of a fragment, and one or two adders.               *)
EXTENDS SyncLogger, TLC

CONSTANTS p, q, one, two

MCPathLen == (p :> 4) @@ (q :> 6)

\* The threads that serve requests are alike.
AddersAlike == Permutations({one, two})
================================================================================
