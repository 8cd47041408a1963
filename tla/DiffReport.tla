----------------------------- MODULE DiffReport -----------------------------
(***************************************************************************)
(* The comparison of two recorded builds (internal/report): findChanges    *)
(* pairs the actions of one with those of the other by package, mode and   *)
(* identity, though a package and its test variant share the first two;    *)
(* writeIdentityNote names a candidate root; slowerActions pairs the       *)
(* actions that ran in both for the gate.  A variant is an action as the   *)
(* go command knows it, the truth the report has to guess at.              *)
(***************************************************************************)
EXTENDS Naturals, FiniteSets

CONSTANTS
  Variants,  \* actions that compile or link (isWorkAction)
  Package,   \* the package of each
  Mode,      \* its mode
  Deps       \* the variants it depends on directly

ASSUME VariantAssumption ==
  Deps \in [Variants -> SUBSET Variants] /\ Variants = DOMAIN Package /\
  Variants = DOMAIN Mode /\ IsFiniteSet(Variants)

VARIABLES
  edited,   \* what was edited between the builds
  version,  \* which ActionID a variant has by now
  before,   \* the actions of the earlier build
  after,    \* the actions of the later one
  made      \* builds made

diffVars == <<edited, version, before, after, made>>
-----------------------------------------------------------------------------
(* The go command, external to this repository, and its graph              *)

\* model.New, of an action whose ActionID is id, 0 for none, and whose Cmd is
\* not nil iff cmd.
New(id, cmd) == [id |-> id, ran |-> cmd, cached |-> ~cmd]

Empty == [v \in {} |-> New(0, FALSE)]

\* What needs v, directly or not.
Needing ==
  LET up[k \in 1..Cardinality(Variants)] ==
        IF k = 1 THEN [v \in Variants |-> {w \in Variants : v \in Deps[w]}]
        ELSE [v \in Variants |->
                up[k - 1][v] \cup
                {w \in Variants : Deps[w] \cap up[k - 1][v] # {}}]
  IN  up[Cardinality(Variants)]

\* A build makes vs and what they depend on.  Those of ran were not in the build
\* cache; one of these may fail, and what needs it is never reached, so has no
\* ActionID.
Build(build) ==
  \E vs \in SUBSET Variants : \E ran \in SUBSET vs :
    \E unreached \in {{}} \cup {Needing[v] : v \in ran} :
      /\ \A v \in vs : Deps[v] \subseteq vs
      /\ ran \cap unreached = {}
      /\ build = [v \in vs |->
                   New(IF v \in unreached THEN 0 ELSE version[v], v \in ran)]

NoBuilds ==
  /\ edited = {}
  /\ version = [v \in Variants |-> 1]
  /\ before = Empty /\ after = Empty

DiffInit == NoBuilds /\ made = 0

BuildBefore ==
  /\ made = 0
  /\ made' = 1
  /\ Build(before')
  /\ UNCHANGED <<edited, version, after>>

\* Sources or flags of some variants are edited.  An ActionID is a hash of them
\* and of the outputs of what the action depends on, of which some change: a new
\* ActionID does not always make a new output.
Edit ==
  /\ made = 1 /\ edited = {}
  /\ \E es \in (SUBSET Variants) \ {{}}, outputs \in SUBSET Variants :
       LET changed == es \cup {v \in Variants : Deps[v] \cap outputs # {}}
       IN  /\ outputs \subseteq changed
           /\ edited' = es
           /\ version' = [v \in Variants |-> IF v \in changed THEN 2 ELSE 1]
  /\ UNCHANGED <<before, after, made>>

BuildAfter ==
  /\ made = 1
  /\ made' = 2
  /\ Build(after')
  /\ UNCHANGED <<edited, version, before>>

DiffNext == BuildBefore \/ Edit \/ BuildAfter

DiffSpec == DiffInit /\ [][DiffNext]_diffVars
-----------------------------------------------------------------------------
(* findChanges                                                             *)

Key(v) == <<Package[v], Mode[v]>>

\* The actions of build with the key of v.
Alike(build, v) == {w \in DOMAIN build : Key(w) = Key(v)}

Has(build, v) == v \in DOMAIN build

\* v has one ActionID in both builds; no other variant has it.
SameId(v) == after[v].id # 0 /\ before[v].id = after[v].id

Matched(v) == Has(before, v) /\ Has(after, v) /\ SameId(v)
Unmatched(build, v) == {w \in Alike(build, v) : ~Matched(w)}

\* Mutant of OneToOne: the first of several is taken.
OneToOne_First(v) == Unmatched(before, v) # {} /\ Unmatched(after, v) # {}

\* A one-to-one remainder of the key of v.
OneToOne(v) ==
  Cardinality(Unmatched(before, v)) = 1 /\ Cardinality(Unmatched(after, v)) = 1

\* The action of before that v of after is paired with, if any.
Match(v) ==
  IF Matched(v) THEN {v}
  ELSE IF OneToOne(v) THEN {CHOOSE w \in Unmatched(before, v) : TRUE}
  ELSE {}

\* Mutant of Listed: what ran is listed, whether or not it ran before.
Listed_Ran(v) == after[v].ran

Listed(v) == after[v].ran /\ \A w \in Match(v) : ~before[w].ran

NewPackage(v) == \A w \in DOMAIN before : Package[w] # Package[v]
NewAction(v) == Alike(before, v) = {}

\* "ambiguous action variants"
VariantUnknown(v) == Match(v) = {} /\ ~NewPackage(v) /\ ~NewAction(v)
Confirmed(v) == Listed(v) /\ ~VariantUnknown(v)

(* writeIdentityNote                                                       *)

\* Mutant of DependenciesStable: of the dependencies, those that ran this time
\* and not last time.
DependenciesStable_New(v) == \A d \in Deps[v] : ~Listed(d)

\* dependenciesStable and actionStable
DependenciesStable(v) ==
  \A d \in Deps[v] :
    /\ after[d].id # 0
    /\ Has(before, d) /\ before[d].id = after[d].id

\* The confirmed changes it can name; it names the heaviest.
CandidateRoot(v) ==
  /\ Confirmed(v)
  /\ DependenciesStable(v)
  /\ \E w \in Match(v) :
       /\ before[w].id # 0 /\ after[v].id # 0
       /\ w # v \/ before[w].id # after[v].id

(* slowerActions                                                           *)

\* Those it pairs and that ran in both builds; it lists the ones that took
\* longer.
RanInBoth(v) ==
  /\ after[v].ran /\ Alike(after, v) = {v}
  /\ Cardinality(Alike(before, v)) = 1
  /\ \A w \in Alike(before, v) : before[w].ran
-----------------------------------------------------------------------------
\* The types; an action never is both cached and run, one that ran has an
\* identity.
DiffReportTypeOK ==
  /\ edited \subseteq Variants /\ version \in [Variants -> 1..2]
  /\ made \in 0..2
  /\ \A b \in {before, after} :
       /\ DOMAIN b \subseteq Variants
       /\ \A v \in DOMAIN b :
            b[v] \in [id : 0..2, ran : BOOLEAN, cached : BOOLEAN]
            /\ b[v].ran # b[v].cached /\ (b[v].ran => b[v].id # 0)

\* "actions that ran in the later build but did not in the earlier one"
\* (findChanges): an action listed as confirmed did not run in the earlier
\* build, whatever variants of it either build made and whichever of them were
\* edited, cached or never reached.  And slowerActions, which pairs the actions
\* in another way, lists none of those again ("newly run actions are already
\* listed by Diff").
ListsAreTrue ==
  \A v \in DOMAIN after :
    /\ Confirmed(v) => after[v].ran /\ (Has(before, v) => ~before[v].ran)
    /\ ~(Listed(v) /\ RanInBoth(v))

\* What ran and did not run before is listed, as confirmed or as ambiguous,
\* even if its identity changed.  A variant that is new to the build can be
\* missed only where another one of its key has left it.
NothingIsMissed ==
  \A v \in DOMAIN after :
    after[v].ran /\ (Has(before, v) => ~before[v].ran) =>
      \/ Listed(v)
      \/ ~Has(before, v) /\ ~(Alike(before, v) \subseteq DOMAIN after)

\* "action identity changed; direct work dependencies were unchanged": the
\* candidate root was itself edited and is not rebuilt because of something it
\* depends on, even if that ran in both builds and so is in no list.
CandidateRootIsEdited ==
  \A v \in DOMAIN after : CandidateRoot(v) /\ Has(before, v) => v \in edited
=============================================================================
