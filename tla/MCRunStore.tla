----------------------------- MODULE MCRunStore -----------------------------
(***************************************************************************)
(* RunStore on small instances, for TLC.  Two recorders are enough for a   *)
(* writer and the other one it interferes with, two scopes for a build of  *)
(* a scope that another scope's builds push out.  A run that checks        *)
(* liveness takes no symmetry, though no definition tells one recorder     *)
(* from another.                                                           *)
(***************************************************************************)
EXTENDS RunStore

\* Without these no prune finds anything to delete.
ASSUME LimitsAreReached == Keep < MaxId /\ KeepGlobal < MaxId
=============================================================================
