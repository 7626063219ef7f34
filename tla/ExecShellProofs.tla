--------------------------- MODULE ExecShellProofs ---------------------------
(***************************************************************************)
(* For any streams, pipes and amounts of output: an answer is complete,    *)
(* comes after the end of the direct child, and scripts live long enough.  *)
(***************************************************************************)
EXTENDS ExecShell, SequenceTheorems, TLAPS

\* Nothing exists before the spawn, nothing of the request after its end, and a
\* handler that collects has seen the child exit.
Stages ==
    /\ pc = "parse" => main = "none" /\ script = "none"
    /\ pc = "parse" => \A st \in Streams : reader[st] = "none"
    /\ reply # "none" => pc = "replied"
    /\ pc = "replied" /\ kind = "script" => main # "running"
    /\ pc \in {"draining", "collecting"} => main \in {"exited", "reaped"}
    /\ pc \in {"expired", "reaping", "draining"} => limit = "some"

\* A line that was written is collected or in the pipe, and a task that has seen
\* the end of its stream is right about it: who has let go of a pipe, or never had
\* it, cannot get it back.
Conserved(st) ==
    /\ reader[st] # "broken" => got[st] + Len(pipe[st]) = written[st]
    /\ reader[st] = "eof" => pipe[st] = <<>> /\ writers[st] = {}

Pipes == \A st \in Streams : Conserved(st)

IInv ==
    /\ TypeOK
    /\ Stages /\ Pipes
    /\ FullOutput /\ ScriptLifetime

-----------------------------------------------------------------------------
LEMMA EmptyPipe == <<>> \in Seq({"text", "bad"}) /\ Len(<<>>) = 0
BY EmptySeq

LEMMA InitInv == Init => IInv
<1> SUFFICES ASSUME Init PROVE IInv
  OBVIOUS
<1>1. TypeOK
  BY BoundsAssumption, EmptyPipe DEF Init, TypeOK
<1>2. Stages /\ FullOutput /\ ScriptLifetime
  BY DEF Init, Stages, FullOutput, ScriptLifetime, Answered
<1>3. Pipes
  <2> SUFFICES ASSUME NEW st \in Streams PROVE Conserved(st)
    BY DEF Pipes
  <2>1. pipe[st] = <<>> /\ got[st] = 0 /\ written[st] = 0 /\ reader[st] = "none"
    BY DEF Init
  <2> QED BY <2>1, EmptyPipe DEF Conserved
<1> QED BY <1>1, <1>2, <1>3 DEF IInv

-----------------------------------------------------------------------------
(* The handler.                                                            *)

LEMMA SpawnInv == ASSUME IInv, SpawnBackground \/ Spawn \/ SpawnFails PROVE IInv'
<1>1. TypeOK'
  BY DEF SpawnBackground, Spawn, SpawnFails, Respond, ReadersAtSpawn, ScriptAtSpawn,
     fixed, procVars, ioVars, IInv, TypeOK, Procs
<1>2. Stages' /\ ScriptLifetime'
  BY DEF SpawnBackground, Spawn, SpawnFails, Respond, ScriptAtSpawn, fixed, procVars,
     ioVars, IInv, TypeOK, Stages, ScriptLifetime, Answered
<1>3. Pipes'
  <2> SUFFICES ASSUME NEW st \in Streams PROVE Conserved(st)'
    BY DEF Pipes
  <2>1. Conserved(st) /\ Stages
    BY DEF IInv, Pipes
  <2>2. CASE SpawnBackground \/ SpawnFails
    BY <2>1, <2>2 DEF SpawnBackground, SpawnFails, ioVars, Conserved
  <2>3. CASE Spawn
    <3>1. reader'[st] = "reading" /\ UNCHANGED <<got, pipe, written>>
      BY <2>3 DEF Spawn, ReadersAtSpawn
    <3>2. reader[st] # "broken"
      BY <2>1, <2>3 DEF Spawn, Stages
    <3> QED BY <2>1, <3>1, <3>2 DEF Conserved
  <2> QED BY <2>2, <2>3
<1>4. FullOutput'
  BY DEF SpawnBackground, Spawn, SpawnFails, Respond, IInv, Stages, FullOutput, Answered
<1> QED BY <1>1, <1>2, <1>3, <1>4 DEF IInv

\* The steps of the handler between the spawn and the collection, and its end.
HandlerOnly == WaitDone \/ WaitFails \/ TimerFires \/ StartKill \/ Reap \/ Cancel

LEMMA HandlerInv == ASSUME IInv, HandlerOnly PROVE IInv'
<1> USE DEF HandlerOnly, WaitDone, WaitFails, TimerFires, StartKill, Reap, Cancel,
    Respond, RemoveScript, fixed, procVars, ioVars
<1>1. TypeOK'
  BY DEF IInv, TypeOK
<1>2. Stages' /\ ScriptLifetime'
  BY DEF IInv, TypeOK, Stages, ScriptLifetime, Answered
<1>3. Pipes'
  BY DEF IInv, Pipes, Conserved
<1>4. FullOutput'
  BY DEF IInv, Stages, FullOutput, Answered, ReaderDone
<1> QED BY <1>1, <1>2, <1>3, <1>4 DEF IInv

LEMMA CollectInv == ASSUME IInv, Collect PROVE IInv'
<1> USE DEF Collect, Respond, RemoveScript, fixed, procVars, ioVars
<1>1. TypeOK'
  BY DEF IInv, TypeOK
<1>2. Stages' /\ ScriptLifetime'
  BY DEF IInv, TypeOK, Stages, ScriptLifetime, Answered
<1>3. Pipes'
  BY DEF IInv, Pipes, Conserved
<1>4. FullOutput'
  <2>1. \A st \in Streams : ReaderDone(st)'
    BY DEF ReaderDone
  <2>2. \A st \in Streams : reader'[st] = "eof" =>
            got'[st] = written'[st] /\ writers'[st] = {}
    <3> SUFFICES ASSUME NEW st \in Streams, reader[st] = "eof"
                 PROVE  got[st] = written[st] /\ writers[st] = {}
      OBVIOUS
    <3>1. Conserved(st) /\ got[st] \in Nat
      BY DEF IInv, Pipes, TypeOK
    <3> QED BY <3>1, EmptyPipe DEF Conserved
  <2> QED BY <2>1, <2>2 DEF FullOutput
<1> QED BY <1>1, <1>2, <1>3, <1>4 DEF IInv

-----------------------------------------------------------------------------
(* The reading tasks.                                                      *)

LEMMA ReaderInv ==
    ASSUME IInv, NEW st \in Streams, ReadLine(st) \/ ReadEof(st)
    PROVE  IInv'
<1>1. UNCHANGED <<fixed, pc, procVars, writers, written, script, reply>>
  BY DEF ReadLine, ReadEof
<1>2. /\ \A x \in Streams : x # st => UNCHANGED <<pipe[x], got[x], reader[x]>>
      /\ reader'[st] \in {"reading", "eof", "broken"} /\ reader[st] = "reading"
  BY DEF ReadLine, ReadEof, IInv, TypeOK
<1>3. TypeOK' /\ Conserved(st)'
  <2>1. /\ pipe[st] \in Seq({"text", "bad"}) /\ got[st] \in Nat /\ written[st] \in Int
        /\ Len(pipe[st]) \in Nat /\ Len(pipe[st]) <= PipeCap
        /\ got[st] + Len(pipe[st]) = written[st]
    BY <1>2 DEF IInv, TypeOK, Pipes, Conserved
  <2>2. CASE ReadLine(st) /\ Head(pipe[st]) = "text"
    <3>1. /\ pipe' = [pipe EXCEPT ![st] = Tail(pipe[st])]
          /\ got' = [got EXCEPT ![st] = got[st] + 1]
          /\ reader' = reader /\ pipe[st] # <<>>
      BY <2>2 DEF ReadLine
    <3>2. /\ Tail(pipe[st]) \in Seq({"text", "bad"})
          /\ Len(Tail(pipe[st])) = Len(pipe[st]) - 1
      BY <2>1, <3>1, HeadTailProperties
    <3>3. TypeOK'
      BY <1>1, <2>1, <3>1, <3>2, BoundsAssumption DEF IInv, TypeOK, fixed, procVars
    <3>4. Conserved(st)'
      <4>1. pipe'[st] = Tail(pipe[st]) /\ got'[st] = got[st] + 1
        BY <3>1 DEF IInv, TypeOK
      <4>2. got'[st] + Len(pipe'[st]) = written'[st]
        BY <1>1, <2>1, <3>2, <4>1
      <4>3. reader'[st] = "reading"
        BY <1>2, <3>1
      <4> QED BY <4>2, <4>3 DEF Conserved
    <3> QED BY <3>3, <3>4
  <2>3. CASE ReadLine(st) /\ Head(pipe[st]) # "text"
    <3>1. /\ pipe' = [pipe EXCEPT ![st] = <<>>]
          /\ reader' = [reader EXCEPT ![st] = "broken"]
          /\ got' = got
      BY <2>3 DEF ReadLine
    <3>2. TypeOK'
      <4>1. /\ pipe' \in [Streams -> Seq({"text", "bad"})]
            /\ \A x \in Streams : Len(pipe'[x]) <= PipeCap
        BY <3>1, EmptyPipe, BoundsAssumption DEF IInv, TypeOK
      <4>2. reader' \in [Streams -> {"none", "reading", "eof", "broken"}]
        BY <3>1 DEF IInv, TypeOK
      <4> QED BY <1>1, <3>1, <4>1, <4>2 DEF IInv, TypeOK, fixed, procVars
    <3>3. reader'[st] = "broken"
      BY <3>1 DEF IInv, TypeOK
    <3> QED BY <3>2, <3>3 DEF Conserved
  <2>4. CASE ReadEof(st)
    <3>1. /\ reader' = [reader EXCEPT ![st] = "eof"]
          /\ UNCHANGED <<pipe, got, writers, written>>
          /\ pipe[st] = <<>> /\ writers[st] = {}
      BY <2>4 DEF ReadEof
    <3>2. TypeOK'
      <4>1. TypeOK
        BY DEF IInv
      <4>2. reader' \in [Streams -> {"none", "reading", "eof", "broken"}]
        BY <3>1, <4>1 DEF TypeOK
      <4>3. UNCHANGED <<kind, limit, plan, pc, main, signal, desc, script, reply>>
        BY <1>1 DEF fixed, procVars
      <4> QED BY <3>1, <4>1, <4>2, <4>3 DEF TypeOK
    <3>3. reader'[st] = "eof" /\ writers'[st] = {} /\ pipe'[st] = <<>>
      BY <1>1, <3>1 DEF IInv, TypeOK
    <3>4. got'[st] + Len(pipe'[st]) = written'[st]
      BY <1>1, <2>1, <3>1
    <3> QED BY <3>2, <3>3, <3>4 DEF Conserved
  <2> QED BY <2>2, <2>3, <2>4
<1>4. Stages' /\ ScriptLifetime'
  BY <1>1, <1>2, <1>3 DEF IInv, TypeOK, Stages, ScriptLifetime, Answered,
     fixed, procVars
<1>5. Pipes'
  BY <1>1, <1>2, <1>3 DEF IInv, Pipes, Conserved
<1>6. FullOutput'
  BY <1>1, <1>2 DEF IInv, FullOutput, Answered, ReaderDone
<1> QED BY <1>3, <1>4, <1>5, <1>6 DEF IInv

-----------------------------------------------------------------------------
(* The processes.                                                          *)

\* Whatever a process does besides writing: it ends, closes or shares pipes it has.
LEMMA ReleaseInv ==
    ASSUME IInv,
           UNCHANGED <<fixed, pc, pipe, written, reader, got, script, reply>>,
           main' = main \/ (main = "running" /\ main' = "exited"),
           signal' = signal,
           desc' \in {"none", "running", "ended"},
           writers' \in [Streams -> SUBSET Procs],
           \A st \in Streams : writers[st] = {} => writers'[st] = {}
    PROVE  IInv'
<1>1. TypeOK'
  BY DEF IInv, TypeOK, fixed
<1>2. Stages' /\ ScriptLifetime'
  BY DEF IInv, Stages, ScriptLifetime, Answered, fixed
<1>3. Pipes'
  BY DEF IInv, Pipes, Conserved
<1>4. FullOutput'
  BY DEF IInv, FullOutput, Answered, ReaderDone
<1> QED BY <1>1, <1>2, <1>3, <1>4 DEF IInv

LEMMA EndInv ==
    ASSUME IInv, NEW p \in Procs, Running(p), End(p)
    PROVE  IInv'
<1>1. UNCHANGED <<fixed, pc, pipe, written, reader, got, script, reply>>
  BY DEF End
<1>2. main' = main \/ (main = "running" /\ main' = "exited")
  BY DEF End, Running
<1>3. signal' = signal /\ desc' \in {"none", "running", "ended"}
  BY DEF End, IInv, TypeOK
<1>4. /\ writers' \in [Streams -> SUBSET Procs]
      /\ \A st \in Streams : writers[st] = {} => writers'[st] = {}
  BY DEF End, IInv, TypeOK
<1> QED BY <1>1, <1>2, <1>3, <1>4, ReleaseInv

LEMMA CloseInv ==
    ASSUME IInv, NEW p \in Procs, NEW st \in Streams, Close(p, st)
    PROVE  IInv'
<1>1. UNCHANGED <<fixed, pc, pipe, written, reader, got, script, reply>>
  BY DEF Close
<1>2. UNCHANGED <<main, signal, desc>>
  BY DEF Close, procVars
<1>3. /\ writers' \in [Streams -> SUBSET Procs]
      /\ \A x \in Streams : writers[x] = {} => writers'[x] = {}
  BY DEF Close, IInv, TypeOK
<1>4. desc \in {"none", "running", "ended"}
  BY DEF IInv, TypeOK
<1> QED BY <1>1, <1>2, <1>3, <1>4, ReleaseInv

LEMMA ForkInv == ASSUME IInv, Fork PROVE IInv'
<1>1. UNCHANGED <<fixed, pc, pipe, written, reader, got, script, reply>>
  BY DEF Fork
<1>2. UNCHANGED <<main, signal>> /\ desc' = "running"
  BY DEF Fork
<1>3. /\ writers' \in [Streams -> SUBSET Procs]
      /\ \A x \in Streams : writers[x] = {} => writers'[x] = {}
  BY DEF Fork, IInv, TypeOK, Procs
<1> QED BY <1>1, <1>2, <1>3, ReleaseInv

LEMMA WriteInv ==
    ASSUME IInv, NEW p \in Procs, NEW st \in Streams, Write(p, st)
    PROVE  IInv'
<1> USE DEF Write, fixed, procVars
<1>1. PICK line \in {"text", "bad"} : pipe' = [pipe EXCEPT ![st] = Append(@, line)]
  BY DEF Write
<1>2. /\ Append(pipe[st], line) \in Seq({"text", "bad"})
      /\ Len(pipe[st]) \in Nat
      /\ Len(Append(pipe[st], line)) = Len(pipe[st]) + 1
  BY DEF IInv, TypeOK
<1>3. TypeOK'
  BY <1>1, <1>2, BoundsAssumption DEF IInv, TypeOK
<1>4. Stages' /\ ScriptLifetime'
  BY DEF IInv, Stages, ScriptLifetime, Answered
<1>5. Pipes'
  <2> SUFFICES ASSUME NEW x \in Streams PROVE Conserved(x)'
    BY DEF Pipes
  <2>1. Conserved(x)
    BY DEF IInv, Pipes
  <2>2. CASE x # st
    BY <2>1, <2>2 DEF Conserved, IInv, TypeOK
  <2>3. CASE x = st
    BY <2>1, <2>3, <1>1, <1>2 DEF Conserved, IInv, TypeOK
  <2> QED BY <2>2, <2>3
<1>6. FullOutput'
  BY DEF IInv, TypeOK, Pipes, Conserved, FullOutput, Answered, ReaderDone
<1> QED BY <1>3, <1>4, <1>5, <1>6 DEF IInv

LEMMA ProgramInv == ASSUME IInv, Program PROVE IInv'
<1>1. CASE Finish \/ KillArrives \/ DescEnds
  BY <1>1, EndInv DEF Finish, KillArrives, DescEnds, Running, Procs
<1>2. CASE Fork
  BY <1>2, ForkInv
<1>3. CASE \E p \in Procs, st \in Streams : Write(p, st)
  BY <1>3, WriteInv
<1>4. CASE \E p \in Procs, st \in Streams : BrokenPipe(p, st)
  BY <1>4, EndInv DEF BrokenPipe
<1>5. CASE \E p \in Procs, st \in Streams : Close(p, st)
  BY <1>5, CloseInv
<1> QED BY <1>1, <1>2, <1>3, <1>4, <1>5 DEF Program

-----------------------------------------------------------------------------
LEMMA NextInv == IInv /\ [Next]_vars => IInv'
<1> SUFFICES ASSUME IInv, [Next]_vars PROVE IInv'
  OBVIOUS
<1>1. CASE SpawnBackground \/ Spawn \/ SpawnFails
  BY <1>1, SpawnInv
<1>2. CASE HandlerOnly
  BY <1>2, HandlerInv
<1>3. CASE Collect
  BY <1>3, CollectInv
<1>4. CASE \E st \in Streams : ReadLine(st) \/ ReadEof(st)
  BY <1>4, ReaderInv
<1>5. CASE Program
  BY <1>5, ProgramInv
<1>6. CASE UNCHANGED vars
  <2>1. UNCHANGED <<fixed, pc, pipe, written, reader, got, script, reply>>
    BY <1>6 DEF vars, ioVars
  <2>2. UNCHANGED <<main, signal, desc, writers>>
    BY <1>6 DEF vars, ioVars, procVars
  <2>3. desc \in {"none", "running", "ended"} /\ writers \in [Streams -> SUBSET Procs]
    BY DEF IInv, TypeOK
  <2> QED BY <2>1, <2>2, <2>3, ReleaseInv
<1> QED BY <1>1, <1>2, <1>3, <1>4, <1>5, <1>6 DEF Next, Handler, HandlerOnly

LEMMA Inductive == Spec => []IInv
<1>1. Init => IInv
  BY InitInv
<1>2. IInv /\ [Next]_vars => IInv'
  BY NextInv
<1> QED BY <1>1, <1>2, PTL DEF Spec

-----------------------------------------------------------------------------
\* The variables of a request, its processes and its pipes keep their types; a pipe
\* never holds more than its capacity.
THEOREM TypeCorrect == Spec => []TypeOK
<1>1. IInv => TypeOK
  BY DEF IInv
<1> QED BY <1>1, Inductive, PTL

\* collect_process_output returns, for a command that ended and for one that was
\* killed, everything that was written to each stream, unless a line was not UTF-8.
THEOREM OutputIsFull == Spec => []FullOutput
<1>1. IInv => FullOutput
  BY DEF IInv
<1> QED BY <1>1, Inductive, PTL

\* The script's temporary directory outlives the child that runs it, unless the
\* client went away, and never the request.
THEOREM ScriptsLiveLongEnough == Spec => []ScriptLifetime
<1>1. IInv => ScriptLifetime
  BY DEF IInv
<1> QED BY <1>1, Inductive, PTL

-----------------------------------------------------------------------------
(* The request the client sees.                                            *)

\* A step that answers nobody and starts nothing can only leave less to wait for.
LEMMA LessToWaitFor ==
    ASSUME UNCHANGED <<limit, pc, reply>>,
           main = "none" <=> main' = "none",
           Active' => Active
    PROVE  [Request!Next]_Seen
<1>1. Phase' = Phase
  BY DEF Phase
<1>2. CASE ProcsSeen' = ProcsSeen
  BY <1>1, <1>2 DEF Seen
<1>3. CASE ProcsSeen = "active" /\ ProcsSeen' = "quiet"
  BY <1>1, <1>3 DEF Seen, Request!Next, Request!Steps, Request!Settle,
     Request!Known
<1> QED BY <1>2, <1>3 DEF ProcsSeen

LEMMA SpawnSeen ==
    ASSUME IInv, SpawnBackground \/ Spawn \/ SpawnFails
    PROVE  Request!Next
<1>1. pc = "parse" /\ main = "none" /\ reply = "none"
  BY DEF SpawnBackground, Spawn, SpawnFails, IInv, Stages
<1>2. Phase = "new" /\ ProcsSeen = "none"
  BY <1>1 DEF Phase, ProcsSeen
<1>3. CASE SpawnBackground
  <2>1. Phase' = "answered" /\ ProcsSeen' = "active" /\ reply' = "started" /\ limit' = limit
    BY <1>3 DEF SpawnBackground, Respond, Phase, ProcsSeen, Active, fixed
  <2> QED BY <1>2, <2>1 DEF Seen, Request!Next, Request!Steps, Request!Detach, Request!Known
<1>4. CASE Spawn
  <2>1. Phase' = "running" /\ ProcsSeen' = "active" /\ reply' = reply /\ limit' = limit
    BY <1>4 DEF Spawn, Phase, ProcsSeen, Active, fixed
  <2> QED BY <1>1, <1>2, <2>1 DEF Seen, Request!Next, Request!Steps, Request!Start, Request!Known
<1>5. CASE SpawnFails
  <2>1. Phase' = "answered" /\ ProcsSeen' = "none" /\ reply' = "error" /\ limit' = limit
    BY <1>1, <1>5 DEF SpawnFails, Respond, Phase, ProcsSeen, fixed, procVars
  <2> QED BY <1>2, <2>1 DEF Seen, Request!Next, Request!Steps, Request!Refuse, Request!Reply, Request!Known
<1> QED BY <1>3, <1>4, <1>5

\* Steps between two awaits: the caller sees nothing.
LEMMA HandlerSeen ==
    ASSUME IInv, WaitDone \/ TimerFires \/ StartKill \/ Reap
    PROVE  UNCHANGED Seen
<1>1. Phase = "running" /\ Phase' = "running" /\ UNCHANGED <<limit, reply>>
  BY DEF WaitDone, TimerFires, StartKill, Reap, Phase, fixed
<1>2. UNCHANGED <<writers, reader>>
  BY DEF WaitDone, TimerFires, StartKill, Reap, ioVars
<1>3. main' = main \/ (main = "exited" /\ main' = "reaped")
  BY DEF WaitDone, TimerFires, StartKill, Reap, procVars
<1>4. ProcsSeen' = ProcsSeen
  BY <1>2, <1>3 DEF ProcsSeen, Active
<1> QED BY <1>1, <1>4 DEF Seen

LEMMA EndSeen == ASSUME IInv, WaitFails \/ Cancel PROVE Request!Next
<1>1. Phase = "running" /\ UNCHANGED <<limit, main, writers, reader>>
  BY DEF WaitFails, Cancel, Phase, fixed, procVars, ioVars
<1>2. ProcsSeen' = ProcsSeen
  BY <1>1 DEF ProcsSeen, Active
<1>3. CASE WaitFails
  <2>1. Phase' = "answered" /\ reply' = "error"
    BY <1>3 DEF WaitFails, Respond, Phase
  <2> QED BY <1>1, <1>2, <2>1 DEF Seen, Request!Next, Request!Steps, Request!Fail, Request!Reply, Request!Known
<1>4. CASE Cancel
  <2>1. Phase' = "abandoned" /\ reply' = reply
    BY <1>4 DEF Cancel, Phase
  <2> QED BY <1>1, <1>2, <2>1 DEF Seen, Request!Next, Request!Steps, Request!Abandon,
     Request!Known
<1> QED BY <1>3, <1>4

LEMMA CollectSeen == ASSUME IInv, Collect PROVE Request!Next
<1>1. Phase = "running" /\ Phase' = "answered" /\ UNCHANGED <<limit, main, writers, reader>>
  BY DEF Collect, Respond, Phase, fixed, procVars, ioVars
<1>2. main \in {"exited", "reaped"}
  BY DEF Collect, IInv, Stages
<1>3. ~Active
  BY <1>2 DEF Collect, Active, ReaderDone, IInv, Pipes, Conserved
<1>4. ProcsSeen = "quiet" /\ ProcsSeen' = "quiet"
  BY <1>1, <1>2, <1>3 DEF ProcsSeen, Active
<1>5. CASE reply' = "exit"
  BY <1>1, <1>4, <1>5
  DEF Seen, Request!Next, Request!Steps, Request!Exit, Request!Settled, Request!Reply, Request!Known
<1>6. CASE pc = "draining" /\ reply' = "timedout"
  <2>1. limit = "some"
    BY <1>6 DEF IInv, Stages
  <2> QED BY <1>1, <1>4, <1>6, <2>1
      DEF Seen, Request!Next, Request!Steps, Request!TimeOut, Request!Settled, Request!Reply, Request!Known
<1> QED BY <1>5, <1>6 DEF Collect, Respond

LEMMA ReaderSeen ==
    ASSUME IInv, NEW st \in Streams, ReadLine(st) \/ ReadEof(st)
    PROVE  [Request!Next]_Seen
<1>1. UNCHANGED <<limit, pc, reply, main, writers>>
  BY DEF ReadLine, ReadEof, fixed, procVars
<1>2. \A x \in Streams : reader[x] = "broken" => reader'[x] = "broken"
  BY DEF ReadLine, ReadEof, IInv, TypeOK
<1>3. Active' => Active
  BY <1>1, <1>2 DEF Active
<1> QED BY <1>1, <1>3, LessToWaitFor

LEMMA ProgramSeen == ASSUME IInv, Program PROVE [Request!Next]_Seen
<1>1. UNCHANGED <<limit, pc, reply, reader>>
  BY DEF Program, Finish, Fork, KillArrives, DescEnds, Write, BrokenPipe, Close, End, fixed
<1>2. CASE Fork
  <2>1. Active /\ UNCHANGED main
    BY <1>2 DEF Fork, Active
  <2> QED BY <1>1, <2>1, LessToWaitFor
<1>3. CASE ~Fork
  <2>1. main' = main \/ (main = "running" /\ main' = "exited")
    BY <1>3 DEF Program, Finish, KillArrives, DescEnds, Write, BrokenPipe, Close, End, Running,
       procVars
  <2>2. \A x \in Streams : writers'[x] \subseteq writers[x]
    <3>1. CASE Finish \/ KillArrives \/ DescEnds
      BY <3>1 DEF Finish, KillArrives, DescEnds, End
    <3>2. CASE \E p \in Procs, st \in Streams : Write(p, st)
      BY <3>2 DEF Write
    <3>3. CASE \E p \in Procs, st \in Streams : BrokenPipe(p, st)
      BY <3>3 DEF BrokenPipe, End
    <3>4. CASE \E p \in Procs, st \in Streams : Close(p, st)
      BY <3>4 DEF Close, IInv, TypeOK
    <3> QED BY <1>3, <3>1, <3>2, <3>3, <3>4 DEF Program
  <2>3. Active' => Active
    BY <1>1, <2>1, <2>2 DEF Active
  <2> QED BY <1>1, <2>1, <2>3, LessToWaitFor
<1> QED BY <1>2, <1>3

LEMMA NextSeen == IInv /\ [Next]_vars => [Request!Next]_Seen
<1> SUFFICES ASSUME IInv, [Next]_vars PROVE [Request!Next]_Seen
  OBVIOUS
<1>1. CASE SpawnBackground \/ Spawn \/ SpawnFails
  BY <1>1, SpawnSeen
<1>2. CASE WaitDone \/ TimerFires \/ StartKill \/ Reap
  BY <1>2, HandlerSeen
<1>3. CASE WaitFails \/ Cancel
  BY <1>3, EndSeen
<1>4. CASE Collect
  BY <1>4, CollectSeen
<1>5. CASE \E st \in Streams : ReadLine(st) \/ ReadEof(st)
  BY <1>5, ReaderSeen
<1>6. CASE Program
  BY <1>6, ProgramSeen
<1>7. CASE UNCHANGED vars
  BY <1>7 DEF vars, fixed, procVars, ioVars, Seen, Phase, ProcsSeen, Active
<1> QED BY <1>1, <1>2, <1>3, <1>4, <1>5, <1>6, <1>7 DEF Next, Handler

\* The handler, its tasks, pipes and processes implement the request of ShellRequest:
\* one answer, never before its child has ended and nobody it reads from is left,
\* and a time-out only for a request with a limit.
THEOREM RequestIsImplemented == Spec => ImplementsRequest
<1>1. Init => Request!Init
  BY DEF Init, Request!Init, Request!New, Request!Known, Seen, Phase, ProcsSeen
<1>2. IInv /\ [Next]_vars => [Request!Next]_Seen
  BY NextSeen
<1> QED BY <1>1, <1>2, Inductive, PTL DEF Spec, ImplementsRequest, Request!Spec
=============================================================================
