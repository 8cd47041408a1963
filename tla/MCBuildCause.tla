---------------------------- MODULE MCBuildCause ----------------------------
(***************************************************************************)
(* BuildCause, and BuildLog with it, with two hashes of each name: a       *)
(* package and its test variant, and the programs linked with them.  The   *)
(* programs depend on both and read the output of one.                     *)
(***************************************************************************)
EXTENDS BuildCause

CONSTANTS p, prog  \* "build p" and "link p"

MCDeps == [h \in Hashes |-> IF h[1] = prog THEN {p} \X (1..MaxInstances) ELSE {}]

MCImports ==
  [h \in Hashes |-> [i \in 1..MaxInputs |->
     IF h[1] = prog /\ h[2] = i THEN {<<p, i>>} ELSE {}]]

MCTried == [n \in Names |-> IF n = p THEN <<p, prog>> ELSE <<prog, p>>]
=============================================================================
