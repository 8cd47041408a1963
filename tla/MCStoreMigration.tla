-------------------------- MODULE MCStoreMigration --------------------------
(***************************************************************************)
(* StoreMigration with interchangeable processes.                          *)
(***************************************************************************)
EXTENDS StoreMigration, TLC

AnyOpener == Permutations(Openers)
=============================================================================
