------------------------------ MODULE MCRunDiff ------------------------------
(* RunDiff on small instances, for TLC: one diff beside a recorder.         *)
EXTENDS RunDiff, TLC

\* Builds of one scope or command differ from those of another by the name
\* only: neither the code nor a property orders scopes or commands.
AnyName ==
  {f @@ g : f \in Permutations(Scopes), g \in Permutations(Commands)}
=============================================================================
