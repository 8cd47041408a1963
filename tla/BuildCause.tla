----------------------------- MODULE BuildCause -----------------------------
(***************************************************************************)
(* Why a build rebuilt (internal/cause): from the blocks the collector     *)
(* made of the log, which may be cut short, ambiguous or of another        *)
(* action, Roots joins each rebuilt action to the rebuilt ones whose       *)
(* output it has read, and what is joined to none is a candidate root.     *)
(* Each hash of the log is of one action of the graph.                     *)
(***************************************************************************)
EXTENDS BuildLog

CONSTANTS
  Deps,     \* action.Deps
  Imports,  \* per action and input, the action whose output the input names
  Tried     \* per action's name, the names under which its block is looked for

ASSUME CauseAssumption ==
  /\ Deps \in [Hashes -> SUBSET Hashes]
  /\ \A h \in Hashes : Imports[h] \in [1..MaxInputs -> SUBSET Deps[h]]
  /\ \A h \in Hashes : \A i \in 1..MaxInputs : Imports[h][i] # {} => i \in Retained
  /\ \A n \in Names : Tried[n] \in Seq(Names) /\ Tried[n] # <<>> /\ Tried[n][1] = n
-----------------------------------------------------------------------------
\* What ran, at most: an action is hashed to the end before its command runs.
Ran == {h \in Hashes : printed[h] = DigestLine}

\* blockForAction: the first of the names that has a block.
BlockFor(h) ==
  LET names == Tried[h[1]]
      found == {i \in DOMAIN names : names[i] \in DOMAIN blocks}
  IN  IF found = {} THEN NoBlock ELSE blocks[names[Min(found)]]

\* Mutant of Matches: any block with a digest will do.
Matches_Any(h) == BlockFor(h).digest # {}

\* blockMatchesAction: the block's digest is the action's ActionID.
Matches(h) == BlockFor(h).digest = {h}

\* Mutant of Referenced: the first line of evidence only.
Referenced_First(h) ==
  LET read == SubSeq(BlockFor(h).inputs, 1, 1)
  IN  UNION {Imports[read[i].of][read[i].input] : i \in DOMAIN read}

\* referencedOutputs: the outputs named by the block's inputs.
Referenced(h) ==
  LET read == BlockFor(h).inputs
  IN  UNION {Imports[read[i].of][read[i].input] : i \in DOMAIN read}

\* candidateDependents: h is joined to its dependency d.
Joined(d, h) ==
  /\ {d, h} \subseteq Ran /\ d \in Deps[h]
  /\ Matches(h) /\ Matches(d) /\ d \in Referenced(h)

Roots == {h \in Ran : \A d \in Ran : ~Joined(d, h)}

\* What r reaches along edges in one step or more.
Reached(edges, r) ==
  LET up[k \in 1..Cardinality(Hashes)] ==
        IF k = 1 THEN {h \in Ran : <<r, h>> \in edges}
        ELSE up[k - 1] \cup {h \in Ran : \E d \in up[k - 1] : <<d, h>> \in edges}
  IN  up[Cardinality(Hashes)]

\* countDownstream: the actions said to have followed r.
Followed(r) ==
  Reached({e \in Ran \X Ran : Joined(e[1], e[2])}, r) \ {r}
-----------------------------------------------------------------------------
\* h has read the output of d.
Read(d, h) == \E i \in 1..MaxInputs : d \in Imports[h][i]

\* "Conservative candidate rebuild frontier" (Roots): whatever of the log is
\* lost to a failing stderr, cut or ambiguous, an action is left out of the
\* roots only if it read what another one built this time, and it is counted
\* as following a root only if it is built from that root's output.
RootsAreHonest ==
  phase = "flushed" =>
    /\ \A h \in Ran \ Roots : \E d \in Ran : Read(d, h)
    /\ \A r \in Roots : Followed(r) \subseteq
         Reached({e \in Ran \X Ran : Read(e[1], e[2])}, r)

\* Of a log that reached the collector, an action is named as a root although
\* it read what was built this time only where a name stands for two hashes:
\* the user is not sent after a mere follower.
RootsAreTight ==
  phase = "flushed" /\ ~writeErr =>
    \A h \in Roots, d \in Ran :
      Read(d, h) => {h[1], d[1]} \cap ambiguous # {}
=============================================================================
