----------------------- MODULE ImagePreparationProofs -----------------------
(***************************************************************************)
(* For any tree, with any changes during the walk, and any Dockerfile: the *)
(* mangled Dockerfile means what it should, the archive is what the walk   *)
(* found, and the container runs an image built after the start began.     *)
(***************************************************************************)
EXTENDS ImagePreparation, WellFoundedInduction, SequenceTheorems, TLAPS

\* What the archive has is what was found and looked at already.
SoFar ==
    /\ walk = "idle" => listed = {} /\ found = {} /\ tar = {}
    /\ walk = "done" => listed = {}
    /\ tar \cap listed = {}
    /\ walk # "failed" =>
           tar \cap Files = (found \ listed) \cap (Files \ (Ignored \ Git))

\* A build that has ended has set the tag, and nobody sets it back.
Built ==
    builds = "yes" =>
        /\ phase = "create" => tag \in {"own", "other"}
        /\ phase = "ok" => runs \in {"own", "other"}

\* What is mangled is one of the Dockerfiles, with a FROM.
Mangled ==
    /\ phase = "dockerfile" => dockerfile \in Dockerfiles
    /\ mangled # <<>> =>
           dockerfile \in Dockerfiles /\ Valid(dockerfile) /\ mangled = Mangle(dockerfile)

IInv == TypeOK /\ SoFar /\ Built /\ Mangled

-----------------------------------------------------------------------------
LEMMA InitInv == Init => IInv
BY TypesAssumption DEF Init, WalkInit, IInv, TypeOK, WalkTypeOK, SoFar, Built, Mangled

-----------------------------------------------------------------------------
(* The walk by itself.                                                     *)

WalkInv == WalkTypeOK /\ SoFar

LEMMA BeginWalkInv == ASSUME WalkInv, BeginWalk PROVE WalkInv'
BY DEF WalkInv, WalkTypeOK, SoFar, BeginWalk

LEMMA VisitInv == ASSUME WalkInv, Visit PROVE WalkInv'
<1>1. CASE EndWalk
  BY <1>1 DEF WalkInv, WalkTypeOK, SoFar, EndWalk
<1>2. ASSUME NEW e \in listed, VisitDir(e) PROVE WalkInv'
  BY <1>2, TypesAssumption DEF WalkInv, WalkTypeOK, SoFar, VisitDir, Leave
<1>3. ASSUME NEW e \in listed, Skip(e) PROVE WalkInv'
  BY <1>3 DEF WalkInv, WalkTypeOK, SoFar, Skip, Skips, Leave
<1>4. ASSUME NEW e \in listed, VisitLink(e) PROVE WalkInv'
  BY <1>4, TypesAssumption DEF WalkInv, WalkTypeOK, SoFar, VisitLink, Leave
<1>5. ASSUME NEW e \in listed, VisitFile(e) PROVE WalkInv'
  BY <1>5 DEF WalkInv, WalkTypeOK, SoFar, VisitFile, Skips, Leave
<1>6. ASSUME NEW e \in listed, VisitGone(e) PROVE WalkInv'
  BY <1>6 DEF WalkInv, WalkTypeOK, SoFar, VisitGone
<1> QED BY <1>1, <1>2, <1>3, <1>4, <1>5, <1>6 DEF Visit

LEMMA ChangeInv == ASSUME WalkInv, Change PROVE WalkInv'
<1>1. ASSUME NEW e \in Entries, Vanish(e) PROVE WalkInv'
  BY <1>1, TypesAssumption DEF WalkInv, WalkTypeOK, SoFar, Vanish
<1>2. ASSUME NEW e \in Entries, Appear(e) PROVE WalkInv'
  BY <1>2, TypesAssumption DEF WalkInv, WalkTypeOK, SoFar, Appear
<1> QED BY <1>1, <1>2 DEF Change

LEMMA WalkFrame == ASSUME WalkInv, UNCHANGED walkVars PROVE WalkInv'
BY DEF WalkInv, WalkTypeOK, SoFar, walkVars

-----------------------------------------------------------------------------
(* start.                                                                  *)

StartTypeOK ==
    /\ phase \in {"dockerfile", "context", "build", "create", "ok", "failed"}
    /\ name \in {"bare", "tagged"}
    /\ dockerfile \in Dockerfiles \cup {Unbuilt}
    /\ tmp \in {"none", "present"}
    /\ tmp = "present" <=> phase = "context"
    /\ builds \in {"yes", "no"}
    /\ tag \in {"none", "stale", "other", "own"}
    /\ runs \in {"none", "named", "stale", "other", "own"}

LEMMA Parts == IInv <=> WalkInv /\ StartTypeOK /\ Built /\ Mangled
BY DEF IInv, WalkInv, StartTypeOK, TypeOK

LEMMA StartInv ==
    ASSUME StartTypeOK, Built, Mangled, [Next]_vars
    PROVE  StartTypeOK' /\ Built' /\ Mangled'
<1>1. CASE PrepareDockerfile
  BY <1>1 DEF StartTypeOK, Built, Mangled, PrepareDockerfile
<1>2. CASE BeginContext
  BY <1>2 DEF StartTypeOK, Built, Mangled, BeginContext
<1>3. CASE Archive \/ Disturb \/ UNCHANGED vars
  BY <1>3 DEF StartTypeOK, Built, Mangled, Archive, Disturb, startVars, vars
<1>4. CASE StartBuild \/ BuildEnds
  BY <1>4 DEF StartTypeOK, Built, Mangled, StartBuild, BuildEnds
<1>5. CASE Fail
  BY <1>5 DEF StartTypeOK, Built, Mangled, Fail, Ends, Drop
<1>6. CASE Create
  BY <1>6 DEF StartTypeOK, Built, Mangled, Create
<1>7. CASE Retag
  BY <1>7 DEF StartTypeOK, Built, Mangled, Retag
<1> QED BY <1>1, <1>2, <1>3, <1>4, <1>5, <1>6, <1>7 DEF Next

LEMMA StepInv == IInv /\ [Next]_vars => IInv'
<1> SUFFICES ASSUME IInv, [Next]_vars PROVE IInv'
  OBVIOUS
<1>1. WalkInv'
  <2>1. CASE BeginContext \/ Archive \/ Disturb
    BY <2>1, Parts, BeginWalkInv, VisitInv, ChangeInv DEF BeginContext, Archive, Disturb
  <2>2. CASE PrepareDockerfile \/ StartBuild \/ BuildEnds \/ Fail \/ Create \/ Retag
             \/ UNCHANGED vars
    <3>1. UNCHANGED walkVars
      BY <2>2 DEF PrepareDockerfile, StartBuild, BuildEnds, Fail, Create, Retag, vars
    <3> QED BY <3>1, Parts, WalkFrame
  <2> QED BY <2>1, <2>2 DEF Next
<1>2. StartTypeOK' /\ Built' /\ Mangled'
  BY Parts, StartInv
<1>3. IInv' <=> WalkInv' /\ StartTypeOK' /\ Built' /\ Mangled'
  BY DEF IInv, WalkInv, StartTypeOK, TypeOK
<1> QED BY <1>1, <1>2, <1>3

LEMMA Invariance == Spec => []IInv
BY InitInv, StepInv, PTL DEF Spec

-----------------------------------------------------------------------------
(* Induction over the naturals, and what is collected from a sequence.      *)

\* Induction as a fact about sets, from the well-foundedness of the naturals.
LEMMA SetInduction ==
    ASSUME NEW S, 0 \in S, \A n \in Nat : n \in S => n + 1 \in S
    PROVE  Nat \subseteq S
<1> SUFFICES ASSUME Nat \ S # {} PROVE FALSE
  OBVIOUS
<1> DEFINE R == OpToRel(<, Nat)
<1>1. IsWellFoundedOn(R, Nat)
  BY NatLessThanWellFounded
<1>2. PICK x \in Nat \ S : \A y \in Nat \ S : ~(<<y, x>> \in R)
  <2> HIDE DEF R
  <2>1. Nat \ S \subseteq Nat
    OBVIOUS
  <2> QED BY <1>1, <2>1, WFMin
<1>3. x - 1 \in Nat \ S /\ <<x - 1, x>> \in R
  BY DEF OpToRel
<1> QED BY <1>2, <1>3

\* c has collected as Collected defines it, as far as m.
Recurrence(s, at, c, m) ==
    c = [n \in 0 .. m |->
            IF n = 0 THEN <<>>
            ELSE IF n \in at THEN Append(c[n - 1], s[n]) ELSE c[n - 1]]

\* The recursion in Collected has a solution.
LEMMA CollectedDef ==
    ASSUME NEW s, NEW at, Len(s) \in Nat
    PROVE  Recurrence(s, at, Collected(s, at), Len(s))
<1> DEFINE S == {m \in Nat : \E c : Recurrence(s, at, c, m)}
<1>1. 0 \in S
  <2>1. Recurrence(s, at, [n \in 0 .. 0 |-> <<>>], 0)
    BY DEF Recurrence
  <2> QED BY <2>1
<1>2. ASSUME NEW m \in Nat, m \in S PROVE m + 1 \in S
  <2>1. PICK c : Recurrence(s, at, c, m)
    BY <1>2
  <2> DEFINE d == [n \in 0 .. m + 1 |->
                     IF n <= m THEN c[n]
                     ELSE IF m + 1 \in at THEN Append(c[m], s[m + 1]) ELSE c[m]]
             e == [n \in 0 .. m + 1 |->
                     IF n = 0 THEN <<>>
                     ELSE IF n \in at THEN Append(d[n - 1], s[n]) ELSE d[n - 1]]
  <2>2. ASSUME NEW n \in 0 .. m + 1 PROVE d[n] = e[n]
    <3>1. CASE n = 0
      BY <2>1, <3>1 DEF Recurrence
    <3>2. CASE n \in 1 .. m
      <4>1. n \in 0 .. m /\ n # 0 /\ n - 1 \in 0 .. m
        BY <3>2
      <4>2. c[n] = IF n \in at THEN Append(c[n - 1], s[n]) ELSE c[n - 1]
        BY <2>1, <4>1 DEF Recurrence
      <4>3. d[n] = c[n] /\ d[n - 1] = c[n - 1]
        BY <4>1
      <4>4. e[n] = IF n \in at THEN Append(d[n - 1], s[n]) ELSE d[n - 1]
        BY <4>1
      <4> HIDE DEF d, e
      <4> QED BY <4>2, <4>3, <4>4
    <3>3. CASE n = m + 1
      <4>1. d[n] = IF n \in at THEN Append(c[m], s[n]) ELSE c[m]
        BY <3>3
      <4>2. e[n] = IF n \in at THEN Append(d[n - 1], s[n]) ELSE d[n - 1]
        BY <3>3
      <4>3. d[n - 1] = c[m]
        BY <3>3
      <4> HIDE DEF d, e
      <4> QED BY <4>1, <4>2, <4>3
    <3> QED BY <3>1, <3>2, <3>3
  <2>3. d = e
    <3>1. DOMAIN d = 0 .. m + 1 /\ DOMAIN e = 0 .. m + 1
      OBVIOUS
    <3>2. d = [n \in 0 .. m + 1 |-> d[n]] /\ e = [n \in 0 .. m + 1 |-> e[n]]
      OBVIOUS
    <3> HIDE DEF d, e
    <3> QED BY <2>2, <3>2
  <2>4. Recurrence(s, at, d, m + 1)
    BY <2>3 DEF Recurrence
  <2> QED BY <2>4
<1>3. Nat \subseteq S
  <2> HIDE DEF S
  <2> QED BY <1>1, <1>2, SetInduction
<1>4. \E c : Recurrence(s, at, c, Len(s))
  BY <1>3
<1> QED BY <1>4 DEF Collected, Recurrence

\* What is collected with one element more.
LEMMA CollectedStep ==
    ASSUME NEW s, NEW at, Len(s) \in Nat
    PROVE  /\ Collected(s, at)[0] = <<>>
           /\ \A n \in 1 .. Len(s) :
                 Collected(s, at)[n] =
                    IF n \in at THEN Append(Collected(s, at)[n - 1], s[n])
                                ELSE Collected(s, at)[n - 1]
<1> DEFINE c == Collected(s, at)
<1>1. Recurrence(s, at, c, Len(s))
  BY CollectedDef
<1> HIDE DEF c
<1>2. c[0] = <<>>
  BY <1>1 DEF Recurrence
<1>3. ASSUME NEW n \in 1 .. Len(s)
      PROVE  c[n] = IF n \in at THEN Append(c[n - 1], s[n]) ELSE c[n - 1]
  <2>1. n \in 0 .. Len(s) /\ n # 0
    OBVIOUS
  <2> QED BY <1>1, <2>1 DEF Recurrence
<1> QED BY <1>2, <1>3 DEF c

\* A set of numbers below n that is not empty has a maximum, and Max finds it.
LEMMA MaxExists ==
    ASSUME NEW n \in Nat, NEW S \in SUBSET (1 .. n), S # {}
    PROVE  Max(S) \in S /\ \A i \in S : i <= Max(S)
<1>1. \E i \in S : \A j \in S : j <= i
  <2> DEFINE T == {m \in Nat : \A U \in SUBSET (1 .. m) : U # {} => \E i \in U : \A j \in U : j <= i}
  <2>1. 0 \in T
    <3>1. 1 .. 0 = {}
      OBVIOUS
    <3> QED BY <3>1
  <2>2. ASSUME NEW m \in Nat, m \in T PROVE m + 1 \in T
    <3> SUFFICES ASSUME NEW U \in SUBSET (1 .. m + 1), U # {} PROVE \E i \in U : \A j \in U : j <= i
      OBVIOUS
    <3>1. CASE m + 1 \in U
      BY <3>1
    <3>2. CASE m + 1 \notin U
      <4>1. U \in SUBSET (1 .. m)
        BY <3>2
      <4> QED BY <2>2, <4>1
    <3> QED BY <3>1, <3>2
  <2>3. Nat \subseteq T
    <3> HIDE DEF T
    <3> QED BY <2>1, <2>2, SetInduction
  <2> QED BY <2>3
<1> QED BY <1>1 DEF Max

\* The greatest element of a set is its maximum.
LEMMA MaxIs ==
    ASSUME NEW S \in SUBSET Int, NEW m \in S, \A i \in S : i <= m
    PROVE  Max(S) = m
<1>1. Max(S) \in S /\ \A i \in S : Max(S) >= i
  BY DEF Max
<1>2. Max(S) \in Int /\ m \in Int /\ Max(S) <= m /\ m <= Max(S)
  BY <1>1
<1> QED BY <1>2

-----------------------------------------------------------------------------
(* What docker reads.                                                      *)

\* An instruction is where it begins, and otherwise that of the line before.
LEMMA InstructionStep ==
    ASSUME NEW s \in Seq(Lines), NEW i \in 1 .. Len(s)
    PROVE  /\ Begins(s, i) => Instruction(s, i) = s[i].word
           /\ ~Begins(s, i) => i - 1 \in 1 .. Len(s) /\ Instruction(s, i) = Instruction(s, i - 1)
<1>1. Len(s) \in Nat
  OBVIOUS
<1>2. CASE Begins(s, i)
  <2> DEFINE S == {j \in 1 .. i : Begins(s, j)}
  <2>1. S \in SUBSET Int /\ i \in S /\ \A j \in S : j <= i
    BY <1>1, <1>2
  <2>2. Max(S) = i
    <3> HIDE DEF S
    <3> QED BY <2>1, MaxIs
  <2> QED BY <1>2, <2>2 DEF Instruction
<1>3. CASE ~Begins(s, i)
  <2>1. i # 1
    BY <1>3 DEF Begins
  <2>2. i - 1 \in 1 .. Len(s)
    BY <1>1, <2>1
  <2>3. {j \in 1 .. i : Begins(s, j)} = {j \in 1 .. i - 1 : Begins(s, j)}
    BY <1>1, <1>3, <2>2
  <2> QED BY <1>3, <2>2, <2>3 DEF Instruction
<1> QED BY <1>2, <1>3

\* It depends on the lines up to it only.
LEMMA InstructionPrefix ==
    ASSUME NEW s \in Seq(Lines), NEW t \in Seq(Lines), NEW i \in 1 .. Len(s),
           i <= Len(t), \A j \in 1 .. i : s[j] = t[j]
    PROVE  /\ Begins(s, i) <=> Begins(t, i)
           /\ Instruction(s, i) = Instruction(t, i)
<1> DEFINE S == {j \in 1 .. i : Begins(s, j)}
           T == {j \in 1 .. i : Begins(t, j)}
<1>1. Len(s) \in Nat /\ i \in Nat
  OBVIOUS
<1>2. \A j \in 1 .. i : Begins(s, j) <=> Begins(t, j)
  BY <1>1 DEF Begins
<1>3. S = T /\ S \in SUBSET (1 .. i) /\ 1 \in S
  BY <1>1, <1>2 DEF Begins
<1>4. Max(S) \in 1 .. i
  <2> HIDE DEF S
  <2> QED BY <1>1, <1>3, MaxExists
<1>5. s[Max(S)].word = t[Max(S)].word
  BY <1>4
<1>6. Instruction(s, i) = s[Max(S)].word /\ Instruction(t, i) = t[Max(T)].word
  BY DEF Instruction
<1> HIDE DEF S, T
<1>7. Instruction(s, i) = Instruction(t, i)
  BY <1>3, <1>5, <1>6
<1>8. i \in 1 .. i
  BY <1>1
<1> QED BY <1>2, <1>7, <1>8

\* Where the words of mangle begin instructions of their own, a line that begins with
\* one is the only line of the instruction.
LEMMA PlainLines ==
    ASSUME NEW s \in Seq(Lines), Plain(s), NEW i \in 1 .. Len(s),
           NEW w \in From \cup Main
    PROVE  /\ s[i].word = w => Begins(s, i) /\ s[i].more = "no"
           /\ Instruction(s, i) = w <=> s[i].word = w
<1>1. Len(s) \in Nat /\ i \in Nat
  OBVIOUS
<1>2. s[i].word = w => Begins(s, i) /\ s[i].more = "no"
  BY <1>1 DEF Plain, Begins
<1>3. s[i].word = w => Instruction(s, i) = w
  BY <1>2, InstructionStep
<1>4. ASSUME Instruction(s, i) = w PROVE s[i].word = w
  <2> DEFINE S == {j \in 1 .. i : Begins(s, j)}
             m == Max(S)
  <2>1. S \in SUBSET (1 .. i) /\ 1 \in S
    BY <1>1 DEF Begins
  <2>2. m \in S /\ \A j \in S : j <= m
    <3> HIDE DEF S
    <3> QED BY <1>1, <2>1, MaxExists
  <2>3. s[m].word = w
    BY <1>4 DEF Instruction
  <2>4. m \in 1 .. i /\ m \in 1 .. Len(s)
    BY <1>1, <2>2
  <2>5. s[m].more = "no"
    BY <2>3, <2>4 DEF Plain
  <2>6. CASE m < i
    <3>1. m + 1 \in 1 .. i /\ Begins(s, m + 1)
      BY <1>1, <2>4, <2>5, <2>6 DEF Begins
    <3>2. m + 1 <= m
      BY <2>2, <3>1
    <3> QED BY <2>4, <3>2
  <2>7. CASE m = i
    BY <2>3, <2>7
  <2> QED BY <1>1, <2>4, <2>6, <2>7
<1> QED BY <1>2, <1>3, <1>4

\* The lines mangle keeps, and the lines to be kept.
Kepts(s) == {i \in 1 .. Len(s) : Kept(s[i])}
Others(s) == {i \in 1 .. Len(s) : Instruction(s, i) \notin Main}

\* They are the same ones.
LEMMA SameLines == ASSUME NEW s \in Seq(Lines), Plain(s) PROVE Kepts(s) = Others(s)
<1>1. ASSUME NEW i \in 1 .. Len(s) PROVE Instruction(s, i) \in Main <=> s[i].word \in Main
  <2>1. \A w \in Main : Instruction(s, i) = w <=> s[i].word = w
    BY PlainLines
  <2> QED BY <2>1
<1> QED BY <1>1 DEF Kepts, Others, Kept

\* A line at the end does not change how those before it are read.
LEMMA ReadAppend ==
    ASSUME NEW s \in Seq(Lines), NEW x \in Lines
    PROVE  Read(Append(s, x)) = Append(Read(s), Entry(Append(s, x), Len(s) + 1))
<1> DEFINE t == Append(s, x)
           r == Append(Read(s), Entry(t, Len(s) + 1))
<1>1. Len(s) \in Nat /\ t \in Seq(Lines) /\ Len(t) = Len(s) + 1
      /\ \A i \in 1 .. Len(s) : t[i] = s[i]
  OBVIOUS
<1>2. Len(Read(s)) = Len(s) /\ \A i \in 1 .. Len(s) : Read(s)[i] = Entry(s, i)
  BY <1>1 DEF Read
<1>3. r = [i \in 1 .. Len(s) + 1 |-> IF i <= Len(s) THEN Entry(s, i) ELSE Entry(t, Len(s) + 1)]
  BY <1>1, <1>2 DEF Read
<1> HIDE DEF t
<1>4. ASSUME NEW i \in 1 .. Len(s) PROVE Entry(s, i) = Entry(t, i)
  <2>1. i <= Len(t) /\ \A j \in 1 .. i : s[j] = t[j]
    BY <1>1
  <2>2. (Begins(s, i) <=> Begins(t, i)) /\ Instruction(s, i) = Instruction(t, i)
    BY <1>1, <2>1, InstructionPrefix
  <2> QED BY <1>1, <2>2 DEF Entry
<1>5. Read(t) = [i \in 1 .. Len(s) + 1 |-> IF i <= Len(s) THEN Entry(s, i) ELSE Entry(t, Len(s) + 1)]
  BY <1>1, <1>4 DEF Read
<1> HIDE DEF r
<1>6. Read(t) = r
  BY <1>3, <1>5
<1> QED BY <1>6 DEF t, r

\* What mangle has collected from the first n lines, c, is read as what is collected
\* from the lines as they are read.
Agrees(s, n, c) ==
    /\ c \in Seq(Lines) /\ Plain(c)
    /\ Collected(Read(s), Others(s))[n] = Read(c)
    /\ \A i \in 1 .. n : s[i].word \in From => Froms(c) # {}
    /\ n = 0 => c = <<>>
    /\ n > 0 /\ c # <<>> => c[Len(c)].more = s[n].more
    /\ n > 0 /\ s[n].more = "yes" => c # <<>> /\ Instruction(c, Len(c)) = Instruction(s, n)

\* A line that is kept is read among the kept ones as it was among all.
LEMMA CollectKept ==
    ASSUME NEW s \in Seq(Lines), Plain(s), NEW n \in Nat, n + 1 \in Kepts(s),
           NEW c, Agrees(s, n, c)
    PROVE  /\ Entry(Append(c, s[n + 1]), Len(c) + 1) = Entry(s, n + 1)
           /\ Plain(Append(c, s[n + 1]))
<1> DEFINE x == s[n + 1]
           t == Append(c, x)
           l == Len(c)
<1>1. Len(s) \in Nat /\ n + 1 \in 1 .. Len(s) /\ x \in Lines /\ c \in Seq(Lines) /\ l \in Nat
  BY DEF Kepts, Agrees
<1>2. t \in Seq(Lines) /\ Len(t) = l + 1 /\ t[l + 1] = x /\ \A i \in 1 .. l : t[i] = c[i]
  BY <1>1
<1>3. ASSUME n > 0 PROVE n \in 1 .. Len(s) /\ s[n].more \in {"yes", "no"} /\ s[n] \in Lines
  <2>1. n \in 1 .. Len(s) /\ s[n] \in Lines
    BY <1>1, <1>3
  <2> QED BY <2>1 DEF Lines
<1>4. c = <<>> <=> l = 0
  BY <1>1
<1> HIDE DEF t, l, x
<1>5. Begins(t, l + 1) <=> Begins(s, n + 1)
  <2>1. CASE n = 0
    <3>1. l = 0
      BY <1>4, <2>1 DEF Agrees
    <3> QED BY <2>1, <3>1 DEF Begins
  <2>2. CASE n > 0 /\ l = 0
    <3>1. s[n].more = "no"
      BY <1>3, <1>4, <2>2 DEF Agrees
    <3> QED BY <2>2, <3>1 DEF Begins
  <2>3. CASE n > 0 /\ l > 0
    <3>1. c[l].more = s[n].more /\ t[l] = c[l]
      BY <1>1, <1>2, <1>4, <2>3 DEF Agrees, l
    <3>2. l + 1 # 1 /\ n + 1 # 1 /\ l + 1 - 1 = l /\ n + 1 - 1 = n
      BY <1>1, <2>3
    <3>3. Begins(t, l + 1) <=> t[l].more = "no"
      BY <1>1, <3>2 DEF Begins
    <3>4. Begins(s, n + 1) <=> s[n].more = "no"
      BY <3>2 DEF Begins
    <3> QED BY <3>1, <3>3, <3>4
  <2> QED BY <1>1, <2>1, <2>2, <2>3
<1>6. l + 1 \in 1 .. Len(t)
  BY <1>1, <1>2
<1>7. Instruction(t, l + 1) = Instruction(s, n + 1)
  <2>1. CASE Begins(s, n + 1)
    <3>1. Instruction(s, n + 1) = s[n + 1].word
      BY <1>1, <2>1, InstructionStep
    <3>2. Instruction(t, l + 1) = t[l + 1].word
      BY <1>2, <1>5, <1>6, <2>1, InstructionStep
    <3> QED BY <1>2, <3>1, <3>2 DEF x
  <2>2. CASE ~Begins(s, n + 1)
    <3>1. n \in 1 .. Len(s) /\ Instruction(s, n + 1) = Instruction(s, n)
      <4>1. n + 1 - 1 = n
        OBVIOUS
      <4> QED BY <1>1, <2>2, <4>1, InstructionStep
    <3>2. l \in 1 .. Len(t) /\ Instruction(t, l + 1) = Instruction(t, l)
      <4>1. l + 1 - 1 = l
        BY <1>1
      <4>2. ~Begins(t, l + 1)
        BY <1>5, <2>2
      <4>3. l + 1 - 1 \in 1 .. Len(t) /\ Instruction(t, l + 1) = Instruction(t, l + 1 - 1)
        BY <1>1, <1>2, <1>6, <4>2, InstructionStep
      <4> QED BY <4>1, <4>3
    <3>3. s[n].more = "yes" /\ n > 0
      <4>1. n + 1 - 1 = n
        OBVIOUS
      <4> QED BY <1>3, <2>2, <3>1, <4>1 DEF Begins
    <3>4. Instruction(c, l) = Instruction(s, n) /\ l > 0
      BY <1>1, <1>4, <3>3 DEF Agrees, l
    <3>5. Instruction(c, l) = Instruction(t, l)
      <4>1. l \in 1 .. Len(c) /\ l <= Len(t) /\ \A j \in 1 .. l : c[j] = t[j]
        BY <1>1, <1>2, <3>4 DEF l
      <4> QED BY <1>1, <1>2, <4>1, InstructionPrefix
    <3> QED BY <3>1, <3>2, <3>4, <3>5
  <2> QED BY <2>1, <2>2
<1>8. Entry(t, l + 1) = Entry(s, n + 1)
  BY <1>2, <1>5, <1>7 DEF Entry, x
<1>9. Plain(t)
  <2> SUFFICES ASSUME NEW i \in 1 .. Len(t), t[i].word \in From \cup Main
               PROVE  t[i].more = "no" /\ (i > 1 => t[i - 1].more = "no")
    BY DEF Plain
  <2>1. CASE i \in 1 .. l
    <3>1. i \in 1 .. Len(c) /\ t[i] = c[i] /\ (i > 1 => t[i - 1] = c[i - 1])
      BY <1>1, <1>2, <2>1 DEF l
    <3> QED BY <3>1 DEF Agrees, Plain
  <2>2. CASE i = l + 1
    <3>1. s[n + 1].word \in From \cup Main
      BY <1>2, <2>2 DEF x
    <3>2. Begins(s, n + 1) /\ s[n + 1].more = "no"
      BY <1>1, <3>1, PlainLines
    <3>3. i > 1 => t[i - 1].more = "no"
      BY <1>5, <2>2, <3>2 DEF Begins
    <3> QED BY <1>2, <2>2, <3>2, <3>3 DEF x
  <2> QED BY <1>1, <1>2, <2>1, <2>2
<1> QED BY <1>8, <1>9 DEF t, l, x

\* One more line: kept, or a CMD or ENTRYPOINT.
LEMMA CollectStep ==
    ASSUME NEW s \in Seq(Lines), Plain(s), NEW n \in Nat, n + 1 \in 1 .. Len(s),
           NEW c, Agrees(s, n, c)
    PROVE  Agrees(s, n + 1, IF n + 1 \in Kepts(s) THEN Append(c, s[n + 1]) ELSE c)
<1> DEFINE x == s[n + 1]
           g == Collected(Read(s), Others(s))
<1>1. Len(s) \in Nat /\ Len(Read(s)) = Len(s) /\ x \in Lines /\ c \in Seq(Lines)
  <2>1. Len(s) \in Nat
    OBVIOUS
  <2> QED BY <2>1 DEF Read, Agrees
<1>2. Kepts(s) = Others(s) /\ Read(s)[n + 1] = Entry(s, n + 1)
  BY <1>1, SameLines DEF Read
<1>3. g[n + 1] = IF n + 1 \in Kepts(s) THEN Append(g[n], Entry(s, n + 1)) ELSE g[n]
  <2>1. g[n + 1] = IF n + 1 \in Others(s) THEN Append(g[n + 1 - 1], Read(s)[n + 1])
                                          ELSE g[n + 1 - 1]
    <3> HIDE DEF g
    <3>1. \A m \in 1 .. Len(Read(s)) :
             g[m] = IF m \in Others(s) THEN Append(g[m - 1], Read(s)[m]) ELSE g[m - 1]
      BY <1>1, CollectedStep DEF g
    <3> QED BY <1>1, <3>1
  <2>2. n + 1 - 1 = n
    OBVIOUS
  <2> QED BY <1>2, <2>1, <2>2
<1>4. g[n] = Read(c)
  BY DEF Agrees
<1> HIDE DEF g
<1>5. CASE n + 1 \in Kepts(s)
  <2> DEFINE t == Append(c, x)
             l == Len(c)
  <2>1. Entry(t, l + 1) = Entry(s, n + 1) /\ Plain(t)
    BY <1>5, CollectKept
  <2>2. Read(t) = Append(Read(c), Entry(t, l + 1))
    BY <1>1, ReadAppend
  <2>3. l \in Nat /\ t \in Seq(Lines) /\ Len(t) = l + 1 /\ t # <<>> /\ t[l + 1] = x
        /\ \A i \in 1 .. l : t[i] = c[i]
    BY <1>1
  <2> HIDE DEF t, l
  <2>4. g[n + 1] = Read(t)
    BY <1>3, <1>4, <1>5, <2>1, <2>2
  <2>5. ASSUME NEW i \in 1 .. n + 1, s[i].word \in From PROVE Froms(t) # {}
    <3>1. CASE i \in 1 .. n
      <4>1. PICK k \in 1 .. l : c[k].word \in From
        BY <2>5, <3>1 DEF Agrees, Froms, l
      <4>2. k \in 1 .. Len(t) /\ t[k].word \in From
        BY <2>3, <4>1
      <4> QED BY <4>2 DEF Froms
    <3>2. CASE i = n + 1
      <4>1. l + 1 \in 1 .. Len(t) /\ t[l + 1].word \in From
        BY <2>3, <2>5, <3>2
      <4> QED BY <4>1 DEF Froms
    <3> QED BY <3>1, <3>2
  <2>6. t[Len(t)].more = s[n + 1].more /\ Instruction(t, Len(t)) = Instruction(s, n + 1)
    BY <2>1, <2>3 DEF Entry
  <2>7. Agrees(s, n + 1, t)
    BY <2>1, <2>3, <2>4, <2>5, <2>6 DEF Agrees, g
  <2> QED BY <1>5, <2>7 DEF t
<1>6. CASE n + 1 \notin Kepts(s)
  <2>1. x.word \in Main
    BY <1>6 DEF Kepts, Kept
  <2>2. Begins(s, n + 1) /\ x.more = "no"
    BY <2>1, PlainLines
  <2>3. n > 0 => s[n].more = "no"
    <3>1. n + 1 - 1 = n
      OBVIOUS
    <3> QED BY <2>2, <3>1 DEF Begins
  <2>4. x.word \notin From
    BY <2>1 DEF Main, From
  <2>5. c # <<>> => n > 0
    BY DEF Agrees
  <2>6. ASSUME NEW i \in 1 .. n + 1, s[i].word \in From PROVE Froms(c) # {}
    <3>1. i \in 1 .. n
      BY <2>4, <2>6
    <3> QED BY <2>6, <3>1 DEF Agrees
  <2>7. c # <<>> => c[Len(c)].more = s[n + 1].more
    BY <2>2, <2>3, <2>5 DEF Agrees
  <2>8. g[n + 1] = Read(c)
    BY <1>3, <1>4, <1>6
  <2>9. Agrees(s, n + 1, c)
    BY <2>2, <2>6, <2>7, <2>8 DEF Agrees, g
  <2> QED BY <1>6, <2>9
<1> QED BY <1>5, <1>6

\* What mangle keeps of a Dockerfile is read as what is to be kept of it.
LEMMA FilterAgrees ==
    ASSUME NEW s \in Seq(Lines), Plain(s)
    PROVE  Agrees(s, Len(s), Filter(s, Kepts(s)))
<1> DEFINE c == Collected(s, Kepts(s))
           S == {n \in Nat : n <= Len(s) => Agrees(s, n, c[n])}
<1>1. Len(s) \in Nat /\ Len(Read(s)) = Len(s)
  <2>1. Len(s) \in Nat
    OBVIOUS
  <2> QED BY <2>1 DEF Read
<1>2. c[0] = <<>> /\ \A n \in 1 .. Len(s) :
                        c[n] = IF n \in Kepts(s) THEN Append(c[n - 1], s[n]) ELSE c[n - 1]
  BY <1>1, CollectedStep
<1>3. Collected(Read(s), Others(s))[0] = <<>>
  BY <1>1, CollectedStep
<1> HIDE DEF c
<1>4. 0 \in S
  <2>1. Read(<<>>) = <<>> /\ Plain(<<>>) /\ <<>> \in Seq(Lines)
    BY DEF Read, Plain
  <2>2. Agrees(s, 0, <<>>)
    BY <1>3, <2>1 DEF Agrees
  <2> QED BY <1>2, <2>2
<1>5. ASSUME NEW n \in Nat, n \in S PROVE n + 1 \in S
  <2> SUFFICES ASSUME n + 1 <= Len(s) PROVE Agrees(s, n + 1, c[n + 1])
    OBVIOUS
  <2>1. n + 1 \in 1 .. Len(s) /\ n + 1 - 1 = n /\ Agrees(s, n, c[n])
    BY <1>1, <1>5
  <2>2. c[n + 1] = IF n + 1 \in Kepts(s) THEN Append(c[n], s[n + 1]) ELSE c[n]
    BY <1>2, <2>1
  <2> QED BY <2>1, <2>2, CollectStep
<1>6. Nat \subseteq S
  <2> HIDE DEF S
  <2> QED BY <1>4, <1>5, SetInduction
<1> QED BY <1>1, <1>6 DEF Filter, c

-----------------------------------------------------------------------------
(* The two insertions.                                                     *)

\* InsertAt, element by element.
LEMMA InsertAtIs ==
    ASSUME NEW T, NEW s \in Seq(T), NEW x \in T, NEW p \in 1 .. Len(s) + 1
    PROVE  /\ InsertAt(s, p, x) \in Seq(T)
           /\ InsertAt(s, p, x) = [i \in 1 .. Len(s) + 1 |->
                                     IF i < p THEN s[i] ELSE IF i = p THEN x ELSE s[i - 1]]
<1> DEFINE a == SubSeq(s, 1, p - 1)
           b == SubSeq(s, p, Len(s))
           o == <<x>>
           t == a \o o \o b
<1>1. Len(s) \in Nat /\ p \in Nat
  OBVIOUS
<1>2. a \in Seq(T) /\ Len(a) = p - 1 /\ \A i \in 1 .. p - 1 : a[i] = s[i]
  BY <1>1, SubSeqProperties
<1>3. b \in Seq(T) /\ Len(b) = Len(s) - p + 1 /\ \A i \in 1 .. Len(b) : b[i] = s[p + i - 1]
  BY <1>1, SubSeqProperties
<1> HIDE DEF a, b
<1> DEFINE c == a \o o
<1>4. /\ c \in Seq(T) /\ Len(c) = p
      /\ \A i \in 1 .. p - 1 : c[i] = s[i]
      /\ c[p] = x
  <2>1. o \in Seq(T) /\ Len(o) = 1 /\ o[1] = x
    OBVIOUS
  <2> HIDE DEF o
  <2>2. /\ c \in Seq(T) /\ Len(c) = Len(a) + 1
        /\ \A i \in 1 .. Len(c) : c[i] = IF i <= Len(a) THEN a[i] ELSE o[i - Len(a)]
    <3>1. a \in Seq(T) /\ o \in Seq(T)
      BY <1>2, <2>1
    <3>2. /\ a \o o \in Seq(T) /\ Len(a \o o) = Len(a) + Len(o)
          /\ \A i \in 1 .. Len(a) + Len(o) :
                (a \o o)[i] = IF i <= Len(a) THEN a[i] ELSE o[i - Len(a)]
      BY <3>1, ConcatProperties
    <3> QED BY <2>1, <3>2
  <2> HIDE DEF c
  <2>3. Len(c) = p /\ c \in Seq(T)
    BY <1>1, <1>2, <2>1, <2>2
  <2>4. ASSUME NEW i \in 1 .. p - 1 PROVE c[i] = s[i]
    BY <1>1, <1>2, <2>2, <2>3
  <2>5. c[p] = x
    <3>1. p \in 1 .. Len(c) /\ ~(p <= Len(a)) /\ p - Len(a) = 1
      BY <1>1, <1>2, <2>3
    <3> QED BY <2>1, <2>2, <3>1
  <2> QED BY <2>3, <2>4, <2>5
<1>5. /\ t \in Seq(T) /\ Len(t) = Len(s) + 1
      /\ \A i \in 1 .. p : t[i] = c[i]
      /\ \A i \in p + 1 .. Len(s) + 1 : t[i] = b[i - p]
  <2> HIDE DEF c
  <2>1. t = c \o b
    BY DEF c
  <2> HIDE DEF t
  <2>2. /\ t \in Seq(T) /\ Len(t) = Len(c) + Len(b)
        /\ \A i \in 1 .. Len(t) : t[i] = IF i <= Len(c) THEN c[i] ELSE b[i - Len(c)]
    BY <1>3, <1>4, <2>1, ConcatProperties
  <2> QED BY <1>1, <1>3, <1>4, <2>2
<1> HIDE DEF c
<1>6. t = [i \in 1 .. Len(t) |-> t[i]]
  BY <1>5
<1> HIDE DEF t
<1>7. ASSUME NEW i \in 1 .. Len(s) + 1
      PROVE  t[i] = IF i < p THEN s[i] ELSE IF i = p THEN x ELSE s[i - 1]
  <2>1. CASE i < p
    BY <1>1, <1>4, <1>5, <2>1
  <2>2. CASE i = p
    BY <1>1, <1>4, <1>5, <2>2
  <2>3. CASE i > p
    <3>1. i - p \in 1 .. Len(b) /\ p + (i - p) - 1 = i - 1
      BY <1>1, <1>3, <2>3
    <3>2. t[i] = b[i - p] /\ b[i - p] = s[p + (i - p) - 1]
      BY <1>1, <1>3, <1>5, <2>3, <3>1
    <3> QED BY <1>1, <2>3, <3>1, <3>2
  <2> QED BY <1>1, <2>1, <2>2, <2>3
<1>8. InsertAt(s, p, x) = t
  BY DEF InsertAt, t, a, b, o
<1> QED BY <1>5, <1>6, <1>7, <1>8

\* An instruction of one line between two others leaves them as they are.
LEMMA ReadInsertAt ==
    ASSUME NEW s \in Seq(Lines), NEW x \in Lines, x.more = "no",
           NEW p \in 1 .. Len(s) + 1, p > 1 => s[p - 1].more = "no"
    PROVE  Read(InsertAt(s, p, x)) = InsertAt(Read(s), p, Alone(x))
<1> DEFINE t == InsertAt(s, p, x)
           Readings == {Entry(s, i) : i \in 1 .. Len(s)} \cup {Alone(x)}
           u == InsertAt(Read(s), p, Alone(x))
<1>1. Len(s) \in Nat /\ p \in Nat
  OBVIOUS
<1>2. t \in Seq(Lines) /\ t = [i \in 1 .. Len(s) + 1 |->
                                  IF i < p THEN s[i] ELSE IF i = p THEN x ELSE s[i - 1]]
  BY InsertAtIs
<1>3. Read(s) \in Seq(Readings) /\ Len(Read(s)) = Len(s)
  BY <1>1 DEF Read
<1>4. u = [i \in 1 .. Len(s) + 1 |->
             IF i < p THEN Read(s)[i] ELSE IF i = p THEN Alone(x) ELSE Read(s)[i - 1]]
  <2> HIDE DEF Readings
  <2>1. Alone(x) \in Readings
    BY DEF Readings
  <2> QED BY <1>3, <2>1, InsertAtIs
<1> HIDE DEF t, u
<1>5. /\ Len(t) = Len(s) + 1
      /\ \A i \in 1 .. p - 1 : t[i] = s[i]
      /\ t[p] = x
      /\ \A i \in p .. Len(s) : t[i + 1] = s[i]
  BY <1>1, <1>2
<1>6. ASSUME NEW i \in 1 .. p - 1 PROVE Entry(t, i) = Entry(s, i)
  <2>1. /\ i \in 1 .. Len(t) /\ i \in 1 .. Len(s) /\ i <= Len(s)
        /\ \A j \in 1 .. i : t[j] = s[j]
    BY <1>1, <1>5
  <2>2. (Begins(t, i) <=> Begins(s, i)) /\ Instruction(t, i) = Instruction(s, i)
    BY <1>2, <2>1, InstructionPrefix
  <2> QED BY <1>5, <2>2 DEF Entry
<1>7. Entry(t, p) = Alone(x)
  <2>1. p - 1 \in 1 .. p - 1 => t[p - 1] = s[p - 1]
    BY <1>5
  <2>2. Begins(t, p)
    BY <1>1, <2>1 DEF Begins
  <2>3. p \in 1 .. Len(t)
    BY <1>1, <1>5
  <2>4. Instruction(t, p) = x.word
    BY <1>2, <1>5, <2>2, <2>3, InstructionStep
  <2> QED BY <1>5, <2>2, <2>4 DEF Entry, Alone
<1>8. ASSUME NEW i \in p .. Len(s) PROVE Begins(t, i + 1) <=> Begins(s, i)
  <2>1. CASE i = p
    <3>1. Begins(s, i)
      BY <1>1, <2>1 DEF Begins
    <3>2. Begins(t, i + 1)
      BY <1>1, <1>5, <2>1 DEF Begins
    <3> QED BY <3>1, <3>2
  <2>2. CASE i # p
    <3>1. i - 1 \in p .. Len(s) /\ i # 1 /\ i + 1 # 1 /\ i + 1 - 1 = i /\ i - 1 + 1 = i
      BY <1>1, <2>2
    <3>2. t[i] = s[i - 1]
      BY <1>5, <3>1
    <3> QED BY <1>1, <3>1, <3>2 DEF Begins
  <2> QED BY <2>1, <2>2
<1>9. ASSUME NEW i \in p .. Len(s) PROVE Instruction(t, i + 1) = Instruction(s, i)
  <2> DEFINE S == {n \in Nat : p + n <= Len(s) => Instruction(t, p + n + 1) = Instruction(s, p + n)}
  <2>1. ASSUME NEW j \in p .. Len(s), Begins(s, j)
        PROVE  Instruction(t, j + 1) = Instruction(s, j)
    <3>1. j \in 1 .. Len(s) /\ j + 1 \in 1 .. Len(t) /\ Begins(t, j + 1)
      BY <1>1, <1>5, <1>8, <2>1
    <3>2. Instruction(s, j) = s[j].word
      BY <2>1, <3>1, InstructionStep
    <3>3. Instruction(t, j + 1) = t[j + 1].word
      BY <1>2, <3>1, InstructionStep
    <3> QED BY <1>5, <3>2, <3>3
  <2>2. 0 \in S
    <3>1. Begins(s, p)
      BY <1>1 DEF Begins
    <3> QED BY <1>1, <2>1, <3>1
  <2>3. ASSUME NEW n \in Nat, n \in S PROVE n + 1 \in S
    <3>1. CASE p + (n + 1) <= Len(s)
      <4>1. PICK j \in p .. Len(s) : j = p + (n + 1)
        BY <1>1, <3>1
      <4>2. /\ j \in 1 .. Len(s) /\ j + 1 \in 1 .. Len(t) /\ j \in Nat
            /\ j - 1 = p + n /\ j + 1 - 1 = j
        BY <1>1, <1>5, <4>1
      <4>3. CASE Begins(s, j)
        BY <1>1, <2>1, <4>1, <4>3
      <4>4. CASE ~Begins(s, j)
        <5>1. Instruction(s, j) = Instruction(s, p + n)
          BY <4>2, <4>4, InstructionStep
        <5>2. ~Begins(t, j + 1)
          BY <1>8, <4>4
        <5>3. Instruction(t, j + 1) = Instruction(t, j)
          <6>1. PICK k \in 1 .. Len(t) : k = j + 1
            BY <4>2
          <6>2. ~Begins(t, k)
            BY <5>2, <6>1
          <6>3. Instruction(t, k) = Instruction(t, k - 1)
            BY <1>2, <6>2, InstructionStep
          <6> QED BY <4>2, <6>1, <6>3
        <5>4. Instruction(t, p + n + 1) = Instruction(s, p + n) /\ j = p + n + 1
          BY <1>1, <2>3, <3>1, <4>1
        <5>5. Instruction(t, j + 1) = Instruction(s, j)
          BY <4>2, <5>1, <5>3, <5>4
        <5> QED BY <1>1, <4>1, <5>5
      <4> QED BY <4>3, <4>4
    <3>2. CASE ~(p + (n + 1) <= Len(s))
      BY <3>2
    <3> QED BY <3>1, <3>2
  <2>4. Nat \subseteq S
    <3> HIDE DEF S
    <3> QED BY <2>2, <2>3, SetInduction
  <2>5. PICK n \in Nat : p + n = i /\ i <= Len(s)
    <3>1. i - p \in Nat /\ p + (i - p) = i /\ i <= Len(s)
      BY <1>1
    <3> QED BY <3>1
  <2>6. Instruction(t, p + n + 1) = Instruction(s, p + n)
    BY <2>4, <2>5
  <2> HIDE DEF S
  <2> QED BY <2>5, <2>6
<1>10. ASSUME NEW i \in p .. Len(s) PROVE Entry(t, i + 1) = Entry(s, i)
  BY <1>5, <1>8, <1>9 DEF Entry
<1>11. ASSUME NEW i \in 1 .. Len(s) + 1 PROVE Entry(t, i) = u[i]
  <2>1. CASE i < p
    <3>1. i \in 1 .. p - 1 /\ i \in 1 .. Len(s)
      BY <1>1, <2>1
    <3> QED BY <1>4, <1>6, <2>1, <3>1 DEF Read
  <2>2. CASE i = p
    BY <1>4, <1>7, <2>2
  <2>3. CASE i > p
    <3>1. i - 1 \in p .. Len(s) /\ i - 1 \in 1 .. Len(s) /\ i - 1 + 1 = i
      BY <1>1, <2>3
    <3>2. Entry(t, i) = Entry(s, i - 1)
      BY <1>10, <3>1
    <3>3. u[i] = Read(s)[i - 1]
      BY <1>1, <1>4, <2>3
    <3> QED BY <3>1, <3>2, <3>3 DEF Read
  <2> QED BY <1>1, <2>1, <2>2, <2>3
<1>12. Read(t) = [i \in 1 .. Len(s) + 1 |-> u[i]]
  BY <1>5, <1>11 DEF Read
<1>13. u = [i \in 1 .. Len(s) + 1 |-> u[i]]
  BY <1>4
<1> QED BY <1>12, <1>13 DEF t, u

\* An insertion behind the last FROM of a line that is none leaves it the last.
LEMMA LastInsertAt ==
    ASSUME NEW s \in Seq(Lines), Valid(s), NEW x \in Lines, x.word \notin From
    PROVE  LET m == LastFrom(s)
               t == InsertAt(s, m + 1, x)
           IN  /\ m \in 1 .. Len(s) /\ s[m].word \in From
               /\ t \in Seq(Lines) /\ Len(t) = Len(s) + 1
               /\ LastFrom(t) = m /\ t[m] = s[m] /\ t[m + 1] = x
<1> DEFINE m == LastFrom(s)
           t == InsertAt(s, m + 1, x)
<1>1. Len(s) \in Nat /\ Froms(s) \in SUBSET (1 .. Len(s)) /\ Froms(s) # {}
  BY DEF Froms, Valid
<1>2. m \in Froms(s) /\ \A i \in Froms(s) : i <= m
  BY <1>1, MaxExists DEF LastFrom
<1>3. m \in 1 .. Len(s) /\ s[m].word \in From /\ m + 1 \in 1 .. Len(s) + 1 /\ m \in Nat
  BY <1>1, <1>2 DEF Froms
<1> HIDE DEF m
<1>4. /\ t \in Seq(Lines)
      /\ t = [i \in 1 .. Len(s) + 1 |->
                IF i < m + 1 THEN s[i] ELSE IF i = m + 1 THEN x ELSE s[i - 1]]
  <2>1. PICK p \in 1 .. Len(s) + 1 : p = m + 1
    BY <1>3
  <2>2. /\ InsertAt(s, p, x) \in Seq(Lines)
        /\ InsertAt(s, p, x) = [i \in 1 .. Len(s) + 1 |->
                                  IF i < p THEN s[i] ELSE IF i = p THEN x ELSE s[i - 1]]
    BY InsertAtIs
  <2> QED BY <2>1, <2>2
<1> HIDE DEF t
<1>5. Len(t) = Len(s) + 1 /\ t[m] = s[m] /\ t[m + 1] = x
  BY <1>1, <1>3, <1>4
<1>6. ASSUME NEW i \in Froms(t) PROVE i <= m
  <2>1. i \in 1 .. Len(s) + 1 /\ t[i].word \in From
    BY <1>5 DEF Froms
  <2>2. CASE i > m + 1
    <3>1. i - 1 \in 1 .. Len(s) /\ t[i] = s[i - 1]
      BY <1>1, <1>3, <1>4, <2>1, <2>2
    <3>2. i - 1 \in Froms(s)
      BY <2>1, <3>1 DEF Froms
    <3> QED BY <1>2, <1>3, <2>1, <2>2, <3>2
  <2>3. i # m + 1
    BY <1>5, <2>1
  <2> QED BY <1>1, <1>3, <2>1, <2>2, <2>3
<1>7. m \in Froms(t) /\ Froms(t) \in SUBSET Int
  BY <1>1, <1>3, <1>5 DEF Froms
<1>8. LastFrom(t) = m
  BY <1>6, <1>7, MaxIs DEF LastFrom
<1> QED BY <1>3, <1>4, <1>5, <1>8 DEF m, t

\* The two sides of MangleKeepsMeaning, for any Dockerfile.
LEMMA MangleMeans ==
    ASSUME NEW s \in Seq(Lines), Plain(s), Valid(s)
    PROVE  Read(Mangle(s)) = Wanted(s)
<1> DEFINE k == Filter(s, Kepts(s))
           r == Filter(Read(s), Others(s))
           m == LastFrom(k)
           c == InsertAt(k, m + 1, Copies)
           a == InsertAt(c, m + 2, Apk)
           d == InsertAt(r, m + 1, Alone(Copies))
           b == InsertAt(d, m + 2, Alone(Apk))
<1>1. Len(s) \in Nat /\ Len(Read(s)) = Len(s)
  <2>1. Len(s) \in Nat
    OBVIOUS
  <2> QED BY <2>1 DEF Read
<1>2. k \in Seq(Lines) /\ Plain(k) /\ r = Read(k) /\ Valid(k)
  <2>1. Agrees(s, Len(s), k)
    BY FilterAgrees
  <2>2. r = Collected(Read(s), Others(s))[Len(s)]
    BY <1>1 DEF Filter
  <2>3. PICK i \in 1 .. Len(s) : s[i].word \in From
    BY DEF Valid, Froms
  <2> QED BY <2>1, <2>2, <2>3 DEF Agrees, Valid
<1> HIDE DEF k, r
<1>3. Copies \in Lines /\ Copies.word \notin From /\ Copies.more = "no"
      /\ Apk \in Lines /\ Apk.more = "no"
  <2>1. ASSUME NEW w \in Words PROVE Line(w) \in Lines /\ Line(w).word = w /\ Line(w).more = "no"
    BY DEF Lines, Line
  <2>2. "copy service" \in Words /\ "run apk add" \in Words
    BY WordsAssumption DEF Copies, Apk, Line
  <2>3. "copy service" \notin From
    BY DEF From
  <2> HIDE DEF c, d
  <2> QED BY <2>1, <2>2, <2>3 DEF Copies, Apk
<1>4. /\ m \in 1 .. Len(k) /\ k[m].word \in From
      /\ c \in Seq(Lines) /\ Len(c) = Len(k) + 1
      /\ LastFrom(c) = m /\ c[m] = k[m] /\ c[m + 1] = Copies
  BY <1>2, <1>3, LastInsertAt
<1>5. Mangle(s) = IF k[m].word = "alpine" THEN a ELSE c
  <2>1. m + 1 + 1 = m + 2
    BY <1>4
  <2>2. Mangle(s) = IF c[LastFrom(c)].word = "alpine" THEN InsertAt(c, m + 1 + 1, Apk) ELSE c
    BY DEF Mangle, Kepts, k
  <2> QED BY <1>4, <2>1, <2>2
<1>6. Len(k) \in Nat /\ Len(r) = Len(k) /\ \A i \in 1 .. Len(k) : r[i].of = Instruction(k, i)
  <2>1. Len(k) \in Nat
    BY <1>2
  <2> QED BY <1>2, <2>1 DEF Read, Entry
<1>7. Max({i \in 1 .. Len(r) : r[i].of \in From}) = m
  <2>1. \A i \in 1 .. Len(k) : r[i].of \in From <=> k[i].word \in From
    <3>1. \A i \in 1 .. Len(k) : \A w \in From : Instruction(k, i) = w <=> k[i].word = w
      BY <1>2, PlainLines
    <3> QED BY <1>6, <3>1
  <2>2. {i \in 1 .. Len(r) : r[i].of \in From} = Froms(k)
    BY <1>6, <2>1 DEF Froms
  <2> QED BY <2>2 DEF LastFrom
<1>8. r[m].of = "alpine" <=> k[m].word = "alpine"
  <2>1. "alpine" \in From \cup Main
    BY DEF From
  <2> QED BY <1>2, <1>4, <1>6, <2>1, PlainLines
<1>9. Wanted(s) = IF k[m].word = "alpine" THEN b ELSE d
  <2>1. Wanted(s) = LET last == Max({i \in 1 .. Len(r) : r[i].of \in From})
                        new  == InsertAt(r, last + 1, Alone(Copies))
                    IN  IF r[last].of = "alpine" THEN InsertAt(new, last + 2, Alone(Apk)) ELSE new
    BY DEF Wanted, Others, r
  <2> QED BY <1>7, <1>8, <2>1
<1> HIDE DEF m
<1>10. Read(c) = d
  <2>1. m + 1 \in 1 .. Len(k) + 1 /\ m + 1 - 1 = m
    BY <1>4, <1>6
  <2>2. k[m].more = "no"
    BY <1>2, <1>4 DEF Plain
  <2>3. PICK p \in 1 .. Len(k) + 1 : p = m + 1
    BY <2>1
  <2>4. p > 1 => k[p - 1].more = "no"
    <3>1. p - 1 = m
      BY <1>4, <1>6, <2>3
    <3> QED BY <2>2, <3>1
  <2>5. Read(InsertAt(k, p, Copies)) = InsertAt(Read(k), p, Alone(Copies))
    BY <1>2, <1>3, <2>4, ReadInsertAt
  <2> QED BY <1>2, <2>3, <2>5
<1>11. Read(a) = b
  <2>1. m + 2 \in 1 .. Len(c) + 1 /\ m + 2 - 1 = m + 1
    BY <1>4, <1>6
  <2> HIDE DEF c, d
  <2>2. PICK p \in 1 .. Len(c) + 1 : p = m + 2
    BY <2>1
  <2>3. p > 1 => c[p - 1].more = "no"
    BY <1>3, <1>4, <2>1, <2>2
  <2>4. Read(InsertAt(c, p, Apk)) = InsertAt(Read(c), p, Alone(Apk))
    BY <1>3, <1>4, <2>3, ReadInsertAt
  <2> QED BY <1>10, <2>2, <2>4
<1> QED BY <1>5, <1>9, <1>10, <1>11

-----------------------------------------------------------------------------
\* Every variable keeps its type, and the temporary Dockerfile is on the host only while
\* the context is archived, whichever step of `start` fails.
THEOREM TypeCorrect == Spec => []TypeOK
<1>1. IInv => TypeOK
  BY DEF IInv
<1> QED BY <1>1, Invariance, PTL

\* `build_tar` never finishes an archive that misses a file the walk found, or has one
\* that the ignore files exclude, however the tree changes under it.
THEOREM ArchivesAreFaithful == Spec => []ArchiveIsFaithful
<1>1. IInv => ArchiveIsFaithful
  BY DEF IInv, SoFar, ArchiveIsFaithful
<1> QED BY <1>1, Invariance, PTL

\* `start` never creates a container from an image that was under its tag before, even
\* when the build fails or others build under the same tag.
THEOREM ImagesAreNew == Spec => []OwnImage
<1>1. IInv => OwnImage
  BY DEF IInv, Built, OwnImage
<1> QED BY <1>1, Invariance, PTL

\* For every Dockerfile whose FROM, CMD and ENTRYPOINT lines are instructions of their
\* own, of any length and with any number of stages: docker reads in what `mangle` writes
\* the instructions it read before, without CMD and ENTRYPOINT, and with the service at
\* the beginning of the last stage.
THEOREM MangledDockerfilesMeanTheSame == Spec => []MangleKeepsMeaning
<1>1. IInv => MangleKeepsMeaning
  <2> SUFFICES ASSUME IInv, mangled # <<>>, Plain(dockerfile)
               PROVE  Read(mangled) = Wanted(dockerfile)
    BY DEF MangleKeepsMeaning
  <2>1. dockerfile \in Seq(Lines) /\ Valid(dockerfile) /\ mangled = Mangle(dockerfile)
    BY DockerfilesAssumption DEF IInv, Mangled
  <2> QED BY <2>1, MangleMeans
<1> QED BY <1>1, Invariance, PTL
=============================================================================
