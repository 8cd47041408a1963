------------------------------- MODULE GoArgv -------------------------------
(***************************************************************************)
(* The command line longpole is given and the one it runs (internal/wrap): *)
(* Check, Inject, ExistingGraphPath, CommandDir and the search for the     *)
(* subcommand, beside the go command's own reading of its arguments, on    *)
(* which they rely.  argv is what follows the word "go"; its tokens stand  *)
(* for every argument the two readings tell apart.                         *)
(***************************************************************************)
EXTENDS Naturals, Sequences

CONSTANTS
  Tokens,   \* the arguments a user types
  MaxArgs   \* bound: how many of them

Chdir == {"-C=dir", "--C=dir", "-C=/abs"}  \* one argument
ChdirNext == {"-C", "--C"}              \* the directory is the next argument
Building == {"build", "test", "install", "vet", "run"}
UserGraph == "-debug-actiongraph=user"
GraphNext == "-debug-actiongraph"       \* the path is the next argument
OwnGraph == "-debug-actiongraph=longpole"
NotFlags == Building \cup {"env", "dir", "pkg"}

\* Every argument that either reader below knows.
Arguments ==
  NotFlags \cup Chdir \cup ChdirNext \cup {UserGraph, GraphNext, "/abs", "-v", "-args", "--"}

ASSUME ArgvAssumption == Tokens \subseteq Arguments /\ MaxArgs \in Nat

VARIABLE argv

\* A path is the names it is made of, from the directory longpole was started
\* in; longpole's own graph is in a directory of its own.
Absolute == {"/abs", "longpole"}
Join(dir, path) == IF path \in Absolute THEN <<path>> ELSE Append(dir, path)
ChdirTo(arg) == IF arg = "-C=/abs" THEN "/abs" ELSE "dir"
-----------------------------------------------------------------------------
(* internal/wrap                                                           *)

\* commandParts from each position on: where the subcommand is, 0 when there is
\* none or a flag has no directory, and the directories of the flags before it.
PartsFrom(args) ==
  LET n == Len(args)
      Named(dir, parts) == [index |-> parts.index, dirs |-> <<dir>> \o parts.dirs]
      at[i \in 1..(n + 2)] ==
        IF i > n \/ (i = n /\ args[i] \in ChdirNext) THEN [index |-> 0, dirs |-> <<>>]
        ELSE IF args[i] \in ChdirNext THEN Named(args[i + 1], at[i + 2])
        ELSE IF args[i] \in Chdir THEN Named(ChdirTo(args[i]), at[i + 1])
        ELSE [index |-> i, dirs |-> <<>>]
  IN  at

CommandParts(args) == PartsFrom(args)[1]

SubcommandIndex(args) == CommandParts(args).index

\* Mutant of CommandDir: of the two forms of the flag only one is known.
CommandDir_OneForm(args) ==
  IF SubcommandIndex(args) = 2 THEN Join(<<>>, ChdirTo(args[1])) ELSE <<>>

\* The directory one is in after the first k of dirs.
MovedTo(dirs) ==
  LET dir[k \in 0..Len(dirs)] == IF k = 0 THEN <<>> ELSE Join(dir[k - 1], dirs[k])
  IN  dir

\* commandDir: the directories one after the other, or where longpole is if they
\* do not lead to a subcommand.
CommandDir(args) ==
  LET dirs == CommandParts(args).dirs
  IN  IF SubcommandIndex(args) = 0 THEN <<>> ELSE MovedTo(dirs)[Len(dirs)]

\* Check accepts the command.
Checks(args) ==
  LET i == SubcommandIndex(args)
  IN  i # 0 /\ args[i] \in Building

\* Mutant of GraphArgs: the arguments of the program count as well.
GraphArgs_All(args) == (SubcommandIndex(args) + 1)..Len(args)

\* The positions ExistingGraphPath looks at: after the subcommand, up to -args
\* or --.
GraphArgs(args) ==
  {i \in (SubcommandIndex(args) + 1)..Len(args) :
     \A j \in (SubcommandIndex(args) + 1)..i : args[j] \notin {"-args", "--"}}

\* The path ExistingGraphPath finds, "" for none.
ExistingGraphPath(args) ==
  LET hits == {i \in GraphArgs(args) :
                 \/ args[i] = UserGraph
                 \/ args[i] = GraphNext /\ i < Len(args)}
      first == CHOOSE i \in hits : \A j \in hits : i <= j
  IN  IF SubcommandIndex(args) = 0 \/ hits = {} THEN ""
      ELSE IF args[first] = UserGraph THEN "user" ELSE args[first + 1]

\* Mutant of Place: the flag is appended to the command.
Place_Last(args) == Len(args)

\* The argument the injected flag follows.
Place(args) == SubcommandIndex(args)

\* Inject
Inject(args) ==
  LET i == Place(args)
  IN  IF ExistingGraphPath(args) # "" \/ i = 0 THEN args
      ELSE SubSeq(args, 1, i) \o <<OwnGraph>> \o SubSeq(args, i + 1, Len(args))

\* The file longpole reads when the build has ended: ResolvePath of the user's
\* path, or its own.
GraphPath(args) ==
  IF ExistingGraphPath(args) # ""
  THEN Join(CommandDir(args), ExistingGraphPath(args))
  ELSE <<"longpole">>

-----------------------------------------------------------------------------
(* The go command, external to this repository: its change-directory flag  *)
(* comes first and once, before the subcommand or right after it; the      *)
(* subcommand's flags follow, the last value counting.  graph is the path  *)
(* it is given for the action graph, "" for none, dir where it runs.       *)

Rejected == [ok |-> FALSE, graph |-> ""]
Accepted == [ok |-> TRUE, graph |-> ""]

GoDir(args) ==
  LET sub == SubcommandIndex(args)
      at == IF sub = 1 /\ Len(args) > 1 THEN 2 ELSE 1
  IN  IF args[at] \in Chdir THEN Join(<<>>, ChdirTo(args[at]))
      ELSE IF args[at] \in ChdirNext THEN Join(<<>>, args[at + 1])
      ELSE <<>>

\* A graph named before the rest counts if the rest names none.
WithGraph(rest, path) ==
  [ok |-> rest.ok, graph |-> IF rest.graph = "" THEN path ELSE rest.graph]

\* go test's list of packages: not begun, begun, or ended by a flag.  A package
\* behind a list that has ended is the test's first argument.
Lists == {"none", "begun", "ended"}
EndedByFlag(list) == IF list = "none" THEN "none" ELSE "ended"

\* The subcommand's flags from each position on, the list being what it is.
FlagsFrom(args) ==
  LET n == Len(args)
      sub == args[SubcommandIndex(args)]
      flags[i \in 1..(n + 3)] == [list \in Lists |->
        IF i > n THEN IF i = n + 1 THEN Accepted ELSE Rejected
        ELSE LET next == flags[i + 1][EndedByFlag(list)]
             IN  CASE args[i] = "-v" -> next
                   [] args[i] = UserGraph -> WithGraph(next, "user")
                   [] args[i] = OwnGraph -> WithGraph(next, "longpole")
                   [] args[i] = GraphNext ->
                        IF i = n THEN Rejected
                        ELSE WithGraph(flags[i + 2][EndedByFlag(list)], args[i + 1])
                   [] args[i] = "--" -> Accepted
                   [] args[i] = "-args" -> IF sub = "test" THEN Accepted ELSE Rejected
                   [] args[i] \in NotFlags ->
                        IF sub = "test"
                        THEN IF list = "ended" THEN Accepted ELSE flags[i + 1]["begun"]
                        ELSE IF sub = "run" \/ \A j \in i..n : args[j] \in NotFlags
                        THEN Accepted ELSE Rejected
                   [] OTHER -> Rejected]
  IN  flags

GoReads(args) ==
  LET sub == SubcommandIndex(args)
      onceBefore == sub <= 2 \/ (sub = 3 /\ args[1] \in ChdirNext)
      moved == IF sub # 1 \/ Len(args) = 1 THEN 0
               ELSE IF args[2] \in Chdir THEN 1
               ELSE IF args[2] \in ChdirNext THEN 2 ELSE 0
  IN  IF sub = 0 \/ args[sub] \notin Building \/ ~onceBefore THEN Rejected
      ELSE FlagsFrom(args)[sub + moved + 1]["none"]

\* The file the go command writes the graph to, <<>> for none.
GoWrites(args) ==
  IF GoReads(args).graph = "" THEN <<>>
  ELSE Join(GoDir(args), GoReads(args).graph)

-----------------------------------------------------------------------------
ArgvInit == argv = <<>>

\* The user types one more argument.
Type ==
  /\ Len(argv) < MaxArgs
  /\ \E t \in Tokens : argv' = Append(argv, t)

ArgvSpec == ArgvInit /\ [][Type]_argv

-----------------------------------------------------------------------------
Profiled == Checks(argv) /\ GoReads(argv).ok

\* The subcommand is followed by its change-directory flag.
ChdirAfterSubcommand ==
  \E i \in 1..Len(argv) :
    i > SubcommandIndex(argv) /\ argv[i] \in Chdir \cup ChdirNext

\* The user names a graph at most once: of several, longpole takes the first
\* and the go command the last.
NamedOnce ==
  \A i, j \in 1..Len(argv) :
    {argv[i], argv[j]} \subseteq {UserGraph, GraphNext} => i = j

\* The program's arguments begin: with the first package of go run, with the
\* first behind the packages and a flag of go test.
ProgramsBegin(j) ==
  LET sub == SubcommandIndex(argv)
  IN  /\ argv[j] \in NotFlags
      /\ \/ argv[sub] = "run"
         \/ /\ argv[sub] = "test"
            /\ \E h, i \in (sub + 1)..(j - 1) :
                 h < i /\ argv[h] \in NotFlags /\ argv[i] \notin NotFlags

\* One of them, not behind -args or --, reads like the graph flag.
ProgramUsesTheFlag ==
  \E j, k \in (SubcommandIndex(argv) + 1)..Len(argv) :
    /\ j < k /\ ProgramsBegin(j)
    /\ argv[k] \in {UserGraph, GraphNext}
    /\ \A m \in (SubcommandIndex(argv) + 1)..k : argv[m] \notin {"-args", "--"}

Plainly ==
  Profiled /\ ~ChdirAfterSubcommand /\ NamedOnce /\ ~ProgramUsesTheFlag

\* longpole is never the reason a build behaves differently (package comment
\* of internal/wrap): a command the go command takes is one it still takes
\* once Inject has added the flag.
NeverRejected == Profiled => GoReads(Inject(argv)).ok

\* The command that runs is still one the go command takes, and the graph is
\* written to the file longpole will read, whatever surrounds the packages:
\* leading change-directory flags, -args and --, a relative path of the user's.
GraphIsWritten ==
  Plainly =>
    GoReads(Inject(argv)).ok /\ GoWrites(Inject(argv)) = GraphPath(argv)

\* "CommandDir returns the directory in which a wrapped go command will run":
\* the build is recorded under the scope of the directory it was made in.
ScopeIsWhereGoRuns == Plainly => CommandDir(argv) = GoDir(Inject(argv))

\* A graph the user asked for is the graph longpole reads: an explicit choice
\* is not overridden (Inject's comment, and the design's transparency rules).
\* And what belongs to the program that is run is not taken for one: a path
\* ExistingGraphPath finds is one the go command writes.
HonorsUsersGraph == Plainly => ExistingGraphPath(argv) = GoReads(argv).graph
=============================================================================
