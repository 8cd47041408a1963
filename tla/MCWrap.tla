------------------------------- MODULE MCWrap -------------------------------
(***************************************************************************)
(* GoArgv and WrapSession, the two halves of internal/wrap, in one run:    *)
(* the user types a command line, or longpole wraps a build.  They share   *)
(* no state; what a session needs to know of its command line is chosen    *)
(* when it begins (explain, graphArg and whether Check accepts it).        *)
(***************************************************************************)
EXTENDS WrapSession, MCGoArgv

WrapInit == Init /\ ArgvInit

\* The user types before longpole has begun, and does it once, not once for
\* each way a session can begin.
Typing ==
  /\ main = "check" /\ ~explain /\ graphArg = "none"
  /\ Type
  /\ UNCHANGED vars

NotTyped == argv = <<>>

WrapNext == Typing \/ (NotTyped /\ Next /\ UNCHANGED argv)

\* The fairness of FairSpec.
WrapSpec ==
  /\ WrapInit /\ [][WrapNext]_<<vars, argv>>
  /\ WF_vars(NotTyped /\ MainStep)
  /\ WF_vars(NotTyped /\ (Copy \/ CopyEnds))
  /\ WF_vars(NotTyped /\ Forward)
  /\ WF_vars(NotTyped /\ ProbeEnds)
=============================================================================
