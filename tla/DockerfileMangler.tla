-------------------------- MODULE DockerfileMangler --------------------------
(***************************************************************************)
(* What `mangle` does to the lines of a Dockerfile, and what it is for: no *)
(* CMD and ENTRYPOINT instructions, and the service in the last stage.     *)
(*                                                                         *)
(* A line is the word it begins with, and whether a backslash at its end   *)
(* continues it. "alpine" is a FROM whose image is an alpine.              *)
(***************************************************************************)
EXTENDS Integers, Sequences, SequencesExt

CONSTANT Words  \* what a line can begin with

Lines == [word : Words, more : {"yes", "no"}]

Line(word) == [word |-> word, more |-> "no"]

From == {"from", "alpine"}
Main == {"cmd", "entrypoint"}

Copies == Line("copy service")
Apk    == Line("run apk add")

ASSUME WordsAssumption == From \cup Main \cup {Copies.word, Apk.word} \subseteq Words

\* What `filter` has collected of s when it has looked at the first n elements, for
\* every n: those whose index is in `at`, in their order.
Collected(s, at) ==
    LET c[n \in 0 .. Len(s)] ==
            IF n = 0 THEN <<>>
            ELSE IF n \in at THEN Append(c[n - 1], s[n]) ELSE c[n - 1]
    IN  c

Filter(s, at) == Collected(s, at)[Len(s)]

-----------------------------------------------------------------------------
(* The code.                                                               *)

\* Mutant of Kept: only CMD is dropped.
KeptEntrypoint(line) == line.word # "cmd"
Kept(line) == line.word \notin Main

Froms(lines) == {i \in 1 .. Len(lines) : lines[i].word \in From}

Valid(lines) == Froms(lines) # {}

\* rfind: the last line that begins with FROM.
LastFrom(lines) == Max(Froms(lines))

Mangle(lines) ==
    LET kept == Filter(lines, {i \in 1 .. Len(lines) : Kept(lines[i])})
        pos  == LastFrom(kept) + 1
        new  == InsertAt(kept, pos, Copies)
    IN  IF new[LastFrom(new)].word = "alpine" THEN InsertAt(new, pos + 1, Apk) ELSE new

-----------------------------------------------------------------------------
(* What docker reads: every line belongs to the instruction that began     *)
(* last, and one begins where the line before is not continued.            *)

Begins(lines, i) == i = 1 \/ lines[i - 1].more = "no"

Instruction(lines, i) == lines[Max({j \in 1 .. i : Begins(lines, j)})].word

Entry(lines, i) ==
    [line   |-> lines[i],
     of     |-> Instruction(lines, i),
     begins |-> IF Begins(lines, i) THEN "yes" ELSE "no"]

Read(lines) == [i \in 1 .. Len(lines) |-> Entry(lines, i)]

\* A line that is an instruction.
Alone(line) == [line |-> line, of |-> line.word, begins |-> "yes"]

\* Instruction by instruction: neither CMD nor ENTRYPOINT, and the service right at the
\* beginning of the last stage.
Wanted(lines) ==
    LET kept == Filter(Read(lines), {i \in 1 .. Len(lines) : Instruction(lines, i) \notin Main})
        last == Max({i \in 1 .. Len(kept) : kept[i].of \in From})
        new  == InsertAt(kept, last + 1, Alone(Copies))
    IN  IF kept[last].of = "alpine" THEN InsertAt(new, last + 2, Alone(Apk)) ELSE new

\* mangle looks at lines: it is right where a line is an instruction. A CMD or
\* ENTRYPOINT over several lines keeps its other lines, and a continuation line, or
\* one of a here-document, that begins with one of the words is taken for it.
Plain(lines) ==
    \A i \in 1 .. Len(lines) :
        lines[i].word \in From \cup Main =>
            /\ lines[i].more = "no"
            /\ i > 1 => lines[i - 1].more = "no"
=============================================================================
