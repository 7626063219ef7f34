------------------------------ MODULE ExecShell ------------------------------
(***************************************************************************)
(* One `ExecShell` request inside the container: the handler of the gRPC   *)
(* service, the process it starts, a process that one may leave behind, a  *)
(* pipe per output stream and the two tasks that read them.                *)
(*                                                                         *)
(* The handler keeps nothing between requests, so requests meet only in    *)
(* the file system; one is modelled. A line of output is "text", or "bad"  *)
(* when it is not valid UTF-8.                                             *)
(***************************************************************************)
EXTENDS Integers, Sequences

CONSTANTS
    Streams,   \* stdout and stderr
    MaxLines,  \* bound: lines a command writes to a stream
    PipeCap    \* lines a pipe holds before its writer blocks

ASSUME BoundsAssumption == MaxLines \in Nat /\ PipeCap \in Nat \ {0}

Procs == {"main", "desc"}   \* the direct child; what it left running

VARIABLES
    kind,        \* what is_background and the first line make of the command
    limit,       \* whether timeout_ms is present
    plan,        \* lines the command writes to each stream if it is left alone
    pc,          \* where the handler is
    main,        \* the direct child
    signal,      \* what was sent to the direct child, or that it may not be signalled
    desc,        \* a process the direct child started
    writers,     \* who holds the write end of each pipe
    pipe,        \* what is in each pipe
    written,     \* lines written to each pipe so far
    reader,      \* the task reading each stream
    got,         \* lines each task has collected
    script,      \* the temporary directory of a shebang script
    reply        \* what the caller was answered

procVars == <<main, signal, desc>>
ioVars   == <<writers, pipe, written, reader, got>>
fixed    == <<kind, limit, plan>>
vars     == <<fixed, pc, procVars, ioVars, script, reply>>

TypeOK ==
    /\ kind \in {"background", "script", "command"}
    /\ limit \in {"none", "some"}
    /\ plan \in [Streams -> 0 .. MaxLines]
    /\ pc \in {"parse", "waiting", "expired", "reaping", "draining", "collecting",
               "replied", "gone"}
    /\ main \in {"none", "running", "exited", "reaped"}
    /\ signal \in {"none", "SIGKILL", "refused"}
    /\ desc \in {"none", "running", "ended"}
    /\ writers \in [Streams -> SUBSET Procs]
    /\ pipe \in [Streams -> Seq({"text", "bad"})]
    /\ \A st \in Streams : Len(pipe[st]) <= PipeCap
    /\ written \in [Streams -> 0 .. MaxLines]
    /\ reader \in [Streams -> {"none", "reading", "eof", "broken"}]
    /\ got \in [Streams -> Nat]
    /\ script \in {"none", "present", "removed"}
    /\ reply \in {"none", "started", "exit", "timedout", "error"}

Init ==
    /\ kind \in {"background", "script", "command"}
    /\ limit \in {"none", "some"}
    /\ plan \in [Streams -> 0 .. MaxLines]
    /\ pc = "parse"
    /\ main = "none"
    /\ signal = "none"
    /\ desc = "none"
    /\ writers = [st \in Streams |-> {}]
    /\ pipe = [st \in Streams |-> <<>>]
    /\ written = [st \in Streams |-> 0]
    /\ reader = [st \in Streams |-> "none"]
    /\ got = [st \in Streams |-> 0]
    /\ script = "none"
    /\ reply = "none"

-----------------------------------------------------------------------------
(* The handler.                                                            *)

Respond(r) ==
    /\ pc' = "replied"
    /\ reply' = r

\* The TempDir is removed when the value that owns it is dropped.
RemoveScript == script' = IF script = "present" THEN "removed" ELSE script

\* Background commands get no pipes, and their Child is not kept.
SpawnBackground ==
    /\ pc = "parse" /\ kind = "background"
    /\ main' = "running"
    /\ Respond("started")
    /\ UNCHANGED <<fixed, signal, desc, ioVars, script>>

\* Mutants of ReadersAtSpawn: the tasks are spawned after the wait; the second one
\* is handed the first stream again.
ReadersLate    == [st \in Streams |-> "none"]
ReaderOnce     == [st \in {CHOOSE x \in Streams : TRUE} |-> "reading"]
ReadersAtSpawn == [st \in Streams |-> "reading"]

\* Mutant of ScriptAtSpawn: the directory goes out of scope with its block.
ScriptOutOfScope == IF kind = "script" THEN "removed" ELSE "none"
ScriptAtSpawn == IF kind = "script" THEN "present" ELSE "none"

\* A shebang script is written to its directory first; both kinds then run with
\* two pipes, each read by a task from the start.
Spawn ==
    /\ pc = "parse" /\ kind # "background"
    /\ pc' = "waiting"
    /\ main' = "running"
    /\ writers' = [st \in Streams |-> {"main"}]
    /\ reader' = ReadersAtSpawn
    /\ script' = ScriptAtSpawn
    /\ UNCHANGED <<fixed, signal, desc, pipe, written, got, reply>>

\* No temporary directory, no interpreter, no such working directory, ...
SpawnFails ==
    /\ pc = "parse"
    /\ Respond("error")
    /\ script' \in IF kind = "script" THEN {"none", "removed"} ELSE {"none"}
    /\ UNCHANGED <<fixed, procVars, ioVars>>

WaitDone ==
    /\ pc = "waiting" /\ main = "exited"
    /\ main' = "reaped"
    /\ pc' = "collecting"
    /\ RemoveScript
    /\ UNCHANGED <<fixed, signal, desc, ioVars, reply>>

\* waitpid fails for a child that somebody else has reaped, not for one that runs.
WaitFails ==
    /\ pc = "waiting" /\ main = "exited"
    /\ Respond("error")
    /\ RemoveScript
    /\ UNCHANGED <<fixed, procVars, ioVars>>

\* The limit runs out before the handler has seen the child exit.
TimerFires ==
    /\ pc = "waiting" /\ limit = "some"
    /\ pc' = "expired"
    /\ UNCHANGED <<fixed, procVars, ioVars, script, reply>>

\* Mutant of StartKill: the error of start_kill is taken for the normal case.
KillForgotten ==
    /\ pc = "expired"
    /\ pc' = "reaping"
    /\ UNCHANGED <<fixed, procVars, ioVars, script, reply>>

\* start_kill signals the direct child only and does not wait for it. Its error (the
\* child runs as another user now, ...) is only logged: no signal is sent, and the
\* wait that follows has no limit.
StartKill ==
    /\ pc = "expired"
    /\ signal' \in IF main = "running" THEN {"SIGKILL", "refused"} ELSE {"none"}
    /\ pc' = "reaping"
    /\ UNCHANGED <<fixed, main, desc, ioVars, script, reply>>

\* Mutant of Reap: the child is not waited for after the kill.
ReapSkipped ==
    /\ pc = "reaping"
    /\ pc' = "draining"
    /\ UNCHANGED <<fixed, procVars, ioVars, script, reply>>

\* A wait that fails is only logged.
Reap ==
    /\ pc = "reaping" /\ main = "exited"
    /\ main' \in {"reaped", "exited"}
    /\ pc' = "draining"
    /\ UNCHANGED <<fixed, signal, desc, ioVars, script, reply>>

ReaderDone(st) == reader[st] \in {"eof", "broken"}

\* Mutant of Collect: what the tasks have so far is taken without awaiting them.
CollectEarly ==
    /\ \/ pc = "collecting" /\ Respond("exit")
       \/ pc = "draining" /\ Respond("timedout")
    /\ RemoveScript
    /\ UNCHANGED <<fixed, procVars, ioVars>>

\* collect_process_output awaits both tasks, with no limit of its own.
Collect ==
    /\ \A st \in Streams : ReaderDone(st)
    /\ \/ pc = "collecting" /\ Respond("exit")
       \/ pc = "draining" /\ Respond("timedout")
    /\ RemoveScript
    /\ UNCHANGED <<fixed, procVars, ioVars>>

\* The client goes away and the handler's future is dropped where it stands: the
\* script directory goes with it, the child and the reading tasks stay.
Cancel ==
    /\ pc \in {"waiting", "expired", "reaping", "draining", "collecting"}
    /\ pc' = "gone"
    /\ RemoveScript
    /\ UNCHANGED <<fixed, procVars, ioVars, reply>>

-----------------------------------------------------------------------------
(* The reading tasks.                                                      *)

\* Mutant of ReadLine: a line that is not UTF-8 is tried again.
BadLineRetried(st) ==
    /\ reader[st] = "reading" /\ pipe[st] # <<>>
    /\ Head(pipe[st]) = "text"
    /\ pipe' = [pipe EXCEPT ![st] = Tail(@)]
    /\ got' = [got EXCEPT ![st] = @ + 1]
    /\ UNCHANGED <<fixed, pc, procVars, writers, written, reader, script, reply>>

\* `while let Ok(Some(line))`: a line that is not UTF-8 ends the task, and with it
\* the read end of the pipe.
ReadLine(st) ==
    /\ reader[st] = "reading" /\ pipe[st] # <<>>
    /\ IF Head(pipe[st]) = "text"
       THEN /\ pipe' = [pipe EXCEPT ![st] = Tail(@)]
            /\ got' = [got EXCEPT ![st] = @ + 1]
            /\ UNCHANGED reader
       ELSE /\ pipe' = [pipe EXCEPT ![st] = <<>>]
            /\ reader' = [reader EXCEPT ![st] = "broken"]
            /\ UNCHANGED got
    /\ UNCHANGED <<fixed, pc, procVars, writers, written, script, reply>>

ReadEof(st) ==
    /\ reader[st] = "reading" /\ pipe[st] = <<>> /\ writers[st] = {}
    /\ reader' = [reader EXCEPT ![st] = "eof"]
    /\ UNCHANGED <<fixed, pc, procVars, writers, pipe, written, got, script, reply>>

-----------------------------------------------------------------------------
(* The processes.                                                          *)

Running(p) == IF p = "main" THEN main = "running" ELSE desc = "running"

End(p) ==
    /\ writers' = [st \in Streams |-> writers[st] \ {p}]
    /\ IF p = "main" THEN main' = "exited" /\ UNCHANGED desc
                     ELSE desc' = "ended" /\ UNCHANGED main
    /\ UNCHANGED <<fixed, pc, signal, pipe, written, reader, got, script, reply>>

Write(p, st) ==
    /\ Running(p) /\ p \in writers[st]
    /\ written[st] < plan[st]
    /\ reader[st] # "broken" /\ Len(pipe[st]) < PipeCap
    /\ written' = [written EXCEPT ![st] = @ + 1]
    /\ \E line \in {"text", "bad"} : pipe' = [pipe EXCEPT ![st] = Append(@, line)]
    /\ UNCHANGED <<fixed, pc, procVars, writers, reader, got, script, reply>>

\* Writing to a pipe nobody reads: SIGPIPE.
BrokenPipe(p, st) ==
    /\ Running(p) /\ p \in writers[st]
    /\ written[st] < plan[st]
    /\ reader[st] = "broken"
    /\ End(p)

Close(p, st) ==
    /\ Running(p) /\ p \in writers[st]
    /\ writers' = [writers EXCEPT ![st] = @ \ {p}]
    /\ UNCHANGED <<fixed, pc, procVars, pipe, written, reader, got, script, reply>>

\* The direct child starts a process that inherits some of its streams.
Fork ==
    /\ main = "running" /\ desc = "none"
    /\ desc' = "running"
    /\ \E held \in SUBSET {st \in Streams : "main" \in writers[st]} :
          writers' = [st \in Streams |->
                        IF st \in held THEN writers[st] \cup {"desc"} ELSE writers[st]]
    /\ UNCHANGED <<fixed, pc, main, signal, pipe, written, reader, got, script, reply>>

\* The child ends once its output is written or somebody else's business.
Finish ==
    /\ main = "running"
    /\ \A st \in Streams : written[st] = plan[st] \/ "main" \notin writers[st]
                                                  \/ desc = "running"
    /\ End("main")

KillArrives ==
    /\ main = "running" /\ signal = "SIGKILL"
    /\ End("main")

DescEnds ==
    /\ desc = "running"
    /\ End("desc")

Handler ==
    \/ SpawnBackground \/ Spawn \/ SpawnFails \/ WaitDone \/ WaitFails
    \/ StartKill \/ Reap \/ Collect

Program ==
    \/ Finish \/ Fork \/ KillArrives \/ DescEnds
    \/ \E p \in Procs, st \in Streams : Write(p, st) \/ BrokenPipe(p, st) \/ Close(p, st)

Next ==
    \/ Handler \/ TimerFires \/ Cancel
    \/ \E st \in Streams : ReadLine(st) \/ ReadEof(st)
    \/ Program

Spec == Init /\ [][Next]_vars

\* The service's own scheduling: the handler's task, the two reading tasks, the
\* timer and the kernel's delivery of SIGKILL. The command is not trusted to
\* end, to write or to close anything.
ServiceFairness ==
    /\ WF_vars(Handler) /\ WF_vars(TimerFires) /\ WF_vars(KillArrives)
    /\ \A st \in Streams : WF_vars(ReadLine(st)) /\ WF_vars(ReadEof(st))

ServiceSpec == Spec /\ ServiceFairness

\* Commands that leave nothing running for ever.
Tidy == WF_vars(DescEnds)

\* A child that cannot be killed ends by itself.
Killable == <>[](signal = "refused" => main # "running")

\* Commands that go on unless they are blocked.
Busy ==
    /\ WF_vars(Finish)
    /\ \A p \in Procs, st \in Streams : WF_vars(Write(p, st)) /\ WF_vars(BrokenPipe(p, st))

-----------------------------------------------------------------------------
(* Properties.                                                             *)

Answered == reply \in {"exit", "timedout"}

\* An answer carries everything the command and what it left behind wrote: the
\* tasks reached the end of both streams and nobody can write any more, unless
\* a line was not UTF-8. It holds for a timed-out command as well.
FullOutput ==
    Answered => \A st \in Streams :
        /\ ReaderDone(st)
        /\ reader[st] = "eof" => got[st] = written[st] /\ writers[st] = {}

\* A script file is there as long as the child that runs it, unless the caller gave
\* up, and never after the request.
ScriptLifetime ==
    /\ kind = "script" /\ main = "running" /\ pc # "gone" => script = "present"
    /\ pc \in {"replied", "gone"} => script # "present"

\* A command that writes more than a pipe holds is never stuck: the tasks read
\* while the handler waits.
NoPipeDeadlock ==
    Busy => (main = "running" /\ kind # "background" ~> main # "running")

\* With a limit, every request ends, whatever its child does that can be killed, as
\* long as what the child left behind ends. Without either premise it need not: the
\* wait for the child and the reading of its streams have no limit of their own.
TimeoutAnswers ==
    Tidy /\ Killable => (limit = "some" /\ pc = "waiting" ~> pc \in {"replied", "gone"})

\* README.md: "If a command exceeds its timeout the future resolves with
\* `CommandError::TimedOut`". The child can be killed; no condition is put on what it
\* started.
TimedOutResolves ==
    Killable => (pc = "expired" ~> pc \in {"replied", "gone"})

-----------------------------------------------------------------------------
(* What the client sees of it.                                             *)

Active == main = "running" \/ \E st \in Streams : writers[st] # {} /\ reader[st] # "broken"

Phase == IF pc = "parse" THEN "new" ELSE IF pc = "replied" THEN "answered"
         ELSE IF pc = "gone" THEN "abandoned" ELSE "running"

ProcsSeen == IF main = "none" THEN "none" ELSE IF Active THEN "active" ELSE "quiet"

Seen == [limit |-> limit, phase |-> Phase, procs |-> ProcsSeen, answer |-> reply]

Request == INSTANCE ShellRequest WITH request <- Seen

\* The request the client knows: answered or given up once, with an exit or a
\* time-out only after the child has ended and let go of its pipes, with
\* everybody else; timed out only if it had a limit.
ImplementsRequest == Request!Spec

\* When nobody is left to wait for, the handler answers, wherever it stands.
AnswersPromptly == Request!Prompt

=============================================================================
