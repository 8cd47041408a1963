------------------------------ MODULE MCGoArgv ------------------------------
(***************************************************************************)
(* GoArgv on every command line of up to MaxArgs arguments.  Wrap.cfg has  *)
(* the Tokens on which the two readings agree, GoArgvChdir.cfg adds one on *)
(* which they do not.                                                      *)
(***************************************************************************)
EXTENDS GoArgv

ASSUME BoundsAreUseful == MaxArgs \in Nat /\ MaxArgs >= 3
=============================================================================
