------------------------------ MODULE BuildLog ------------------------------
(***************************************************************************)
(* The stderr of a build under --explain: the go command's concurrent      *)
(* hashes and its messages reach longpole through one pipe, in chunks that *)
(* end anywhere; the tee (internal/wrap/stderr.go) puts the lines together *)
(* again, keeps those longpole caused and forwards the others, and the     *)
(* collector (internal/hashlog) groups the kept ones into blocks by the    *)
(* name of the hash, though several hashes may share one name.             *)
(***************************************************************************)
EXTENDS Naturals, FiniteSets, SequencesExt

CONSTANTS
  Message,       \* stands where a line is of no hash
  Names,         \* names of hashes, as "build example.com/lab/a"
  MaxInstances,  \* bound: hashes of one name in a build
  MaxInputs,     \* inputs of a hash
  Retained,      \* the inputs the collector keeps (NewRootsOnly)
  MaxMessages,   \* bound: lines of the go command's own messages
  PipeSize       \* bound: pieces of lines in the pipe

ASSUME LogAssumption ==
  /\ {MaxInstances, MaxInputs, MaxMessages, PipeSize} \subseteq Nat
  /\ Retained \subseteq 1..MaxInputs
  /\ PipeSize >= 2
  /\ IsFiniteSet(Names)
  /\ Message \notin Names \X (1..MaxInstances)

VARIABLES
  printed,    \* per hash, its lines printed: its name, its inputs, its digest
  messages,   \* messages printed
  trailing,   \* the go command ended within one more
  pipe,       \* pieces of lines written and not yet read
  buf,        \* StderrTee.buf
  writeErr,   \* StderrTee.writeErr
  out,        \* what has been written to longpole's own stderr
  blocks,     \* Collector.blocks
  ambiguous,  \* Collector.ambiguous
  phase       \* "building", "ended" (the pipe is at its end), "flushed"

vars ==
  <<printed, messages, trailing, pipe, buf, writeErr, out, blocks, ambiguous,
    phase>>
-----------------------------------------------------------------------------
Hashes == Names \X (1..MaxInstances)
DigestLine == MaxInputs + 2

\* A line is the at-th its writer prints; a chunk may end inside it, so it is
\* made of two pieces, of which the second has the newline.
Lines == [of : Hashes \cup {Message}, at : Nat]
Piece(line, ends) == [line |-> line, ends |-> ends]
Pieces(line) == <<Piece(line, FALSE), Piece(line, TRUE)>>

\* The first k pieces of the go command's messages, in the order of printing.
Said(k) ==
  [i \in 1..k |-> Piece([of |-> Message, at |-> (i + 1) \div 2], i % 2 = 0)]
MessagesSaid == Said(2 * messages + IF trailing THEN 1 ELSE 0)
-----------------------------------------------------------------------------
(* The tee                                                                 *)

\* Mutant of LineEnds: what is left of a chunk is a line.
LineEnds_Chunk(s, k) == s[k].ends \/ k = Len(s)

\* A line ends with the k-th of the buffered pieces.
LineEnds(s, k) == s[k].ends

\* Per length of a prefix, its complete lines and what is after the last.
Cut(s) ==
  LET cut[k \in 0..Len(s)] ==
        IF k = 0 THEN [lines |-> <<>>, rest |-> <<>>]
        ELSE LET t == cut[k - 1]
                 line == Append(t.rest, s[k])
             IN  IF LineEnds(s, k)
                 THEN [lines |-> Append(t.lines, line), rest |-> <<>>]
                 ELSE [lines |-> t.lines, rest |-> line]
  IN  cut

LinesOf(s) == Cut(s)[Len(s)].lines

\* Mutant of Rest: the buffer is not consumed.
Rest_All(s) == s

Rest(s) == Cut(s)[Len(s)].rest

\* A whole line of a hash, as IsHashLine tells it from any other.
IsHashLine(l) ==
  Len(l) = 2 /\ l[1].line = l[2].line /\ l[1].line.of # Message
-----------------------------------------------------------------------------
(* The collector                                                           *)

NoBlock == [inputs |-> <<>>, digest |-> {}]

With(bs, name, b) ==
  [n \in DOMAIN bs \cup {name} |-> IF n = name THEN b ELSE bs[n]]

\* Mutant of Open: a name met again starts its block again.
Open_Replaces(c, name) == [c EXCEPT !.blocks = With(c.blocks, name, NoBlock)]

\* open
Open(c, name) ==
  IF name \in c.ambiguous THEN c
  ELSE IF name \in DOMAIN c.blocks
  THEN [out |-> c.out,
        blocks |-> [n \in DOMAIN c.blocks \ {name} |-> c.blocks[n]],
        ambiguous |-> c.ambiguous \cup {name}]
  ELSE [c EXCEPT !.blocks = With(c.blocks, name, NoBlock)]

\* block: a line whose opening was not seen opens the block as well.
BlockOf(c, name) ==
  IF name \in DOMAIN c.blocks THEN c.blocks[name] ELSE NoBlock

Keeps(input) == input \in Retained

\* Line, for the line a hash prints at-th.
Line(c, line) ==
  LET name == line.of[1]
      b == BlockOf(c, name)
      input == line.at - 1
  IN  IF line.at = 1 THEN Open(c, name)
      ELSE IF name \in c.ambiguous THEN c
      ELSE [c EXCEPT !.blocks = With(c.blocks, name,
              IF line.at = DigestLine THEN [b EXCEPT !.digest = {line.of}]
              ELSE IF Keeps(input)
              THEN [b EXCEPT !.inputs = Append(@, [of |-> line.of, input |-> input])]
              ELSE b)]

\* OnLine, and the write of a line it does not take.
Handle(t, l) ==
  IF IsHashLine(l) THEN Line(t, l[1].line) ELSE [t EXCEPT !.out = t.out \o l]

\* What the first of the lines make of longpole's stderr and the collector.
After(ls) ==
  LET after[i \in 0..Len(ls)] ==
        IF i = 0 THEN [out |-> out, blocks |-> blocks, ambiguous |-> ambiguous]
        ELSE Handle(after[i - 1], ls[i])
  IN  after
-----------------------------------------------------------------------------
Init ==
  /\ printed = [h \in Hashes |-> 0]
  /\ messages = 0 /\ trailing = FALSE
  /\ pipe = <<>> /\ buf = <<>> /\ out = <<>>
  /\ writeErr = FALSE
  /\ blocks = [n \in {} |-> NoBlock]
  /\ ambiguous = {}
  /\ phase = "building"

Emit(line) ==
  /\ phase = "building"
  /\ Len(pipe) + 2 <= PipeSize
  /\ pipe' = pipe \o Pieces(line)
  /\ UNCHANGED <<trailing, buf, writeErr, out, blocks, ambiguous, phase>>

\* A hash prints its next line; hashes run concurrently.
HashPrints(h) ==
  /\ printed[h] < DigestLine
  /\ printed' = [printed EXCEPT ![h] = @ + 1]
  /\ Emit([of |-> h, at |-> printed'[h]])
  /\ UNCHANGED messages

MessagePrints ==
  /\ messages < MaxMessages
  /\ messages' = messages + 1
  /\ Emit([of |-> Message, at |-> messages'])
  /\ UNCHANGED printed

\* The go command ends, perhaps within a line: it does not always end its
\* output with a newline.
BuildEnds ==
  /\ phase = "building"
  /\ phase' = "ended"
  /\ \/ UNCHANGED <<pipe, trailing>>
     \/ /\ trailing' = TRUE
        /\ pipe' = Append(pipe, Piece([of |-> Message, at |-> messages + 1], FALSE))
  /\ UNCHANGED <<printed, messages, buf, writeErr, out, blocks, ambiguous>>

\* StderrTee.Write of the first n pieces in the pipe.  The bad-th line is the
\* first that longpole's stderr refuses, 0 for none: from then on the tee
\* drops everything, hash lines included.
Write(n, bad) ==
  LET all == buf \o SubSeq(pipe, 1, n)
      lines == LinesOf(all)
      after == After(lines)[IF bad = 0 THEN Len(lines) ELSE bad - 1]
  IN  /\ bad \in {0} \cup {i \in DOMAIN lines : ~IsHashLine(lines[i])}
      /\ out' = after.out
      /\ blocks' = after.blocks
      /\ ambiguous' = after.ambiguous
      /\ buf' = IF bad = 0 THEN Rest(all) ELSE <<>>
      /\ writeErr' = (bad # 0)

\* The copying goroutine reads a chunk and writes it to the tee.
Copy ==
  /\ \E n \in 1..Len(pipe) :
       /\ pipe' = SubSeq(pipe, n + 1, Len(pipe))
       /\ \/ /\ writeErr
             /\ UNCHANGED <<buf, writeErr, out, blocks, ambiguous>>
          \/ /\ ~writeErr
             /\ \E bad \in 0..n : Write(n, bad)
  /\ UNCHANGED <<printed, messages, trailing, phase>>

\* What Flush writes: the trailing line, unless it is a hash's.
Flushed == IF IsHashLine(buf) THEN <<>> ELSE buf

\* The pipe is at its end and wrapWith flushes the tee.
Flush ==
  /\ phase = "ended"
  /\ pipe = <<>>
  /\ phase' = "flushed"
  /\ buf' = <<>>
  /\ \/ /\ out' = out \o Flushed
        /\ UNCHANGED writeErr
     \/ /\ buf # <<>> /\ ~IsHashLine(buf)
        /\ writeErr' = TRUE
        /\ UNCHANGED out
  /\ UNCHANGED <<printed, messages, trailing, pipe, blocks, ambiguous>>

Next ==
  \/ \E h \in Hashes : HashPrints(h)
  \/ MessagePrints
  \/ BuildEnds
  \/ Copy
  \/ Flush

Spec == Init /\ [][Next]_vars
-----------------------------------------------------------------------------
Inputs == [of : Hashes, input : 1..MaxInputs]

\* The types; the tee holds back no more than a part of one line, and no name
\* has a block and is ambiguous.
LogTypeOK ==
  /\ printed \in [Hashes -> 0..DigestLine]
  /\ messages \in 0..MaxMessages /\ trailing \in BOOLEAN
  /\ \A s \in {pipe, buf, out} : \A i \in DOMAIN s :
       s[i].line \in Lines /\ s[i].ends \in BOOLEAN
  /\ Len(pipe) <= PipeSize + 1
  /\ Len(buf) <= 1 /\ \A i \in DOMAIN buf : ~buf[i].ends
  /\ writeErr \in BOOLEAN
  /\ ambiguous \subseteq Names
  /\ DOMAIN blocks \subseteq Names \ ambiguous
  /\ \A n \in DOMAIN blocks :
       blocks[n].digest \subseteq Hashes /\ blocks[n].inputs \in Seq(Inputs)
  /\ phase \in {"building", "ended", "flushed"}

\* "This is the only place longpole alters a child's output, and it only
\* removes output it caused" (StderrTee): however the chunks cut the lines, what
\* comes out are the messages, in order and nothing of the hashes ("the user did
\* not ask to see those"); once the tee is flushed all have come out, the
\* unfinished last line included, unless longpole's stderr failed.
OnlyRemovesItsOwn ==
  /\ IsPrefix(out, MessagesSaid)
  /\ phase = "flushed" /\ ~writeErr => out = MessagesSaid

\* Per number of lines after its name, the inputs of h among them that the
\* collector keeps, in their order.
KeptOf(h) ==
  LET kept[i \in 0..(MaxInputs + 1)] ==
        IF i = 0 THEN <<>>
        ELSE IF i \in Retained THEN Append(kept[i - 1], [of |-> h, input |-> i])
        ELSE kept[i - 1]
  IN  kept

\* The block of what h prints with its first k lines.
BlockAfter(h, k) ==
  [inputs |-> KeptOf(h)[k - 1], digest |-> IF k = DigestLine THEN {h} ELSE {}]

NeverMixes ==
  \A n \in DOMAIN blocks :
    \E h \in {n} \X (1..MaxInstances), k \in 1..DigestLine :
      blocks[n] = BlockAfter(h, k)

CollectsEverything ==
  phase = "flushed" /\ ~writeErr =>
    \A n \in Names :
      LET used == {h \in {n} \X (1..MaxInstances) : printed[h] > 0}
      IN  /\ n \in DOMAIN blocks <=> \E h \in used : used = {h}
          /\ \A h \in used : used = {h} => blocks[n] = BlockAfter(h, printed[h])

\* At any time a block is one hash's: its inputs in their order, and its digest
\* after all of them, are never mixed with those of another hash of the same
\* name (Collector.open).  Once the tee is flushed, a name printed by one hash
\* only has the block of all that hash printed, and a name of several has none;
\* a failing stderr is the one excuse.
BlocksAreTrue == NeverMixes /\ CollectsEverything
=============================================================================
