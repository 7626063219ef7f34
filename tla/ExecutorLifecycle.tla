-------------------------- MODULE ExecutorLifecycle --------------------------
(***************************************************************************)
(* The life of a container started by `RunningDockerExecutor::start`, from *)
(* the first daemon call to its removal, and of the Rust values that own   *)
(* it: the executor, its clones, the copy a `Drop` hands to a blocking     *)
(* task, and the futures of explicit `shutdown()` calls.                   *)
(*                                                                         *)
(* The daemon is external: each call is answered by one element of a set   *)
(* of records [state, result], where "fault" says that the call failed      *)
(* for a reason outside the daemon's rules (socket closed, daemon          *)
(* restarted, answer lost after the effect).                               *)
(***************************************************************************)
EXTENDS Integers

CONSTANTS
    Starts,     \* calls of DockerExecutor::start
    MaxCopies   \* bound: values of the executor one start can give rise to

ASSUME MaxCopiesAssumption == MaxCopies \in Nat \ {0}

Handles == Starts \X (1 .. MaxCopies)
Runs    == Handles \X {"call", "job"}   \* runs of shutdown(), by who awaits it

Call(h)    == <<h, "call">>   \* the future of executor.shutdown().await
Job(h)     == <<h, "job">>    \* the blocking task Drop spawned for h
First(s)   == <<s, 1>>        \* the value `start` itself builds
StartOf(h) == h[1]

VARIABLES
    config,     \* what the builder asked for
    pc,         \* where start() is
    failedAt,   \* the stage at which start() returned an error or was dropped
    container,  \* the daemon's view of the container
    faulted,    \* the starts of which some daemon call failed by a fault
    cancelled,  \* the starts whose cancel_token, one for all clones, is set
    handle,     \* the Rust values of type RunningDockerExecutor
    sd,         \* the runs of shutdown()
    runtime     \* the tokio runtime the program runs on

vars == <<config, pc, failedAt, container, faulted, cancelled, handle, sd,
          runtime>>

Stages         == {"prepare", "create", "start", "wait", "inspect", "cleanup"}
ContainerState == {"none", "created", "running", "stopping", "removing", "exited",
                   "removed"}
Active         == {"running", "stopping"}
Pending        == {"queued", "kill", "remove", "removing"}
RunState       == Pending \cup {"idle", "ok", "failed", "lost", "abandoned"}

TypeOK ==
    /\ config \in [Starts -> [dockerfile : BOOLEAN, retain : BOOLEAN]]
    /\ pc \in [Starts -> Stages \cup {"ok", "failed"}]
    /\ failedAt \in [Starts -> Stages \cup {"none"}]
    /\ container \in [Starts -> ContainerState]
    /\ faulted \subseteq Starts
    /\ cancelled \subseteq Starts
    /\ handle \in [Handles -> {"free", "live", "dropped"}]
    /\ sd \in [Runs -> RunState]
    /\ runtime \in {"up", "down"}

Up == runtime = "up"

Init ==
    /\ config \in [Starts -> [dockerfile : BOOLEAN, retain : BOOLEAN]]
    /\ pc = [s \in Starts |-> IF config[s].dockerfile THEN "prepare" ELSE "create"]
    /\ failedAt = [s \in Starts |-> "none"]
    /\ container = [s \in Starts |-> "none"]
    /\ faulted = {}
    /\ cancelled = {}
    /\ handle = [h \in Handles |-> "free"]
    /\ sd = [r \in Runs |-> "idle"]
    /\ runtime = "up"

-----------------------------------------------------------------------------
(* The daemon.                                                             *)

AutoRemoveForgotten == [auto_remove |-> FALSE]   \* mutant of HostConfig
HostConfig          == [auto_remove |-> TRUE]

ForceForgotten == [force |-> FALSE]              \* mutant of RemoveOptions
RemoveOptions  == [force |-> TRUE]

Accept(new) == {[state |-> new, result |-> "ok"]}
Refuse(c)   == {[state |-> c, result |-> "refused"]}

\* A call can fail with or without having taken effect.
Faults(c, new) == {[state |-> x, result |-> "fault"] : x \in {c, new}}

Answers(c, admitted, new) ==
    IF c \in admitted THEN Accept(new) \cup Faults(c, new)
                      ELSE Refuse(c) \cup Faults(c, c)

\* Refused for a missing image, or for a name (image and container_uuid) that the
\* container of another start of the same builder still holds.
DaemonCreate(c) == Answers(c, {"none"}, "created") \cup Refuse(c)

\* A refused start (port, network, command) disposes of an auto_remove container.
DaemonStart(c) ==
    Answers(c, {"created"}, "running")
        \cup Refuse(IF HostConfig.auto_remove THEN "removed" ELSE c)

\* kill answers once the signal is sent: the container stops later, if at all. One
\* that is being removed may run still or not: the signal is sent or refused.
DaemonKill(c) ==
    IF c = "removing" THEN Accept(c) \cup Refuse(c) \cup Faults(c, c)
                      ELSE Answers(c, Active, "stopping")

\* A removal is only begun here: the daemon marks the container, sends SIGKILL to
\* one that runs, waits for its end and deletes what is left (EndRemoval), and the
\* call is answered after that. Without force a running container is refused, and
\* so is one whose removal has begun already, by another call or by auto_remove,
\* whether or not it still runs.
DaemonRemove(c) ==
    Answers(c, {"created", "exited"} \cup (IF RemoveOptions.force THEN Active ELSE {}),
            "removing")
        \cup (IF c = "exited" /\ HostConfig.auto_remove THEN Refuse(c) ELSE {})

Take(s, a) ==
    /\ container' = [container EXCEPT ![s] = a.state]
    /\ faulted' = IF a.result = "fault" THEN faulted \cup {s} ELSE faulted

-----------------------------------------------------------------------------
(* Drop and shutdown().                                                    *)

CopiedBeforeMark == [dropped |-> FALSE]          \* mutant of JobCopy

\* `self.dropped = true` comes before `self.clone()`: the copy the blocking task
\* owns is already marked, and dropping it does nothing.
JobCopy == [dropped |-> TRUE]

\* Mutant of DropEffect: the test of retain_on_drop is inverted.
RetainInverted(h) ==
    /\ handle' = [handle EXCEPT ![h] = "dropped"]
    /\ IF ~config[StartOf(h)].retain
       THEN UNCHANGED <<sd, cancelled>>
       ELSE /\ cancelled' = cancelled \cup {StartOf(h)}
            /\ sd' = [sd EXCEPT ![Job(h)] = IF Up THEN "queued" ELSE "lost"]

\* Mutant of DropEffect: the token is cancelled before the test of retain_on_drop.
TokenBeforeRetain(h) ==
    /\ handle' = [handle EXCEPT ![h] = "dropped"]
    /\ cancelled' = cancelled \cup {StartOf(h)}
    /\ IF config[StartOf(h)].retain
       THEN UNCHANGED sd
       ELSE sd' = [sd EXCEPT ![Job(h)] = IF Up THEN "queued" ELSE "lost"]

\* impl Drop. Without a runtime spawn_blocking panics and nothing is queued.
DropEffect(h) ==
    /\ handle' = [handle EXCEPT ![h] = "dropped"]
    /\ IF config[StartOf(h)].retain
       THEN UNCHANGED <<sd, cancelled>>
       ELSE /\ cancelled' = cancelled \cup {StartOf(h)}
            /\ sd' = [sd EXCEPT ![Job(h)] = IF Up THEN "queued" ELSE "lost"]

\* A job that is done drops its copy of the executor.
Settle(r, result) ==
    IF r[2] = "job" /\ ~JobCopy.dropped THEN "queued" ELSE result

Kill(r) ==
    /\ sd[r] = "kill"
    /\ \E a \in DaemonKill(container[StartOf(r[1])]) :
          /\ a.result = "fault" \/ Up
          /\ Take(StartOf(r[1]), a)
          /\ sd' = [sd EXCEPT ![r] = IF a.result = "ok" THEN "remove" ELSE Settle(r, "failed")]
    /\ UNCHANGED <<config, pc, failedAt, cancelled, handle, runtime>>

\* The DELETE is sent and accepted, or turned down.
Remove(r) ==
    /\ sd[r] = "remove"
    /\ \E a \in DaemonRemove(container[StartOf(r[1])]) :
          /\ a.result = "fault" \/ Up
          /\ Take(StartOf(r[1]), a)
          /\ sd' = [sd EXCEPT ![r] = IF a.result = "ok" THEN "removing" ELSE Settle(r, "failed")]
    /\ UNCHANGED <<config, pc, failedAt, cancelled, handle, runtime>>

\* The answer to a DELETE that was accepted, once the container is gone; or a fault.
Removed(r) ==
    /\ sd[r] = "removing"
    /\ \/ /\ Up
          /\ container[StartOf(r[1])] = "removed"
          /\ sd' = [sd EXCEPT ![r] = Settle(r, "ok")]
          /\ UNCHANGED faulted
       \/ /\ sd' = [sd EXCEPT ![r] = Settle(r, "failed")]
          /\ faulted' = faulted \cup {StartOf(r[1])}
    /\ UNCHANGED <<config, pc, failedAt, container, cancelled, handle, runtime>>

\* The head of shutdown(): the token is cancelled before any daemon call.
BeginShutdown(r) ==
    /\ sd' = [sd EXCEPT ![r] = "kill"]
    /\ cancelled' = cancelled \cup {StartOf(r[1])}
    /\ UNCHANGED <<config, pc, failedAt, container, faulted, handle, runtime>>

RunJob(h) ==
    /\ Up
    /\ sd[Job(h)] = "queued"
    /\ BeginShutdown(Job(h))

InUse(h) == Up /\ handle[h] = "live" /\ pc[StartOf(h)] = "ok"

CallShutdown(h) ==
    /\ InUse(h)
    /\ sd[Call(h)] \notin Pending
    /\ BeginShutdown(Call(h))

\* The caller drops the future while a daemon call is in flight. The daemon goes
\* on with a removal that it has begun.
AbandonShutdown(h) ==
    /\ Up
    /\ \/ /\ sd[Call(h)] = "kill"
          /\ \E a \in DaemonKill(container[StartOf(h)]) : Take(StartOf(h), a)
       \/ /\ sd[Call(h)] = "remove"
          /\ \E a \in DaemonRemove(container[StartOf(h)]) : Take(StartOf(h), a)
       \/ /\ sd[Call(h)] = "removing"
          /\ UNCHANGED <<container, faulted>>
    /\ sd' = [sd EXCEPT ![Call(h)] = "abandoned"]
    /\ UNCHANGED <<config, pc, failedAt, cancelled, handle, runtime>>

CloneHandle(h, c) ==
    /\ InUse(h)
    /\ StartOf(c) = StartOf(h)
    /\ handle[c] = "free"
    /\ handle' = [handle EXCEPT ![c] = "live"]
    /\ UNCHANGED <<config, pc, failedAt, container, faulted, cancelled, sd, runtime>>

\* A value cannot be dropped while a future borrows it.
DropHandle(h) ==
    /\ handle[h] = "live"
    /\ pc[StartOf(h)] = "ok"
    /\ sd[Call(h)] \notin Pending
    /\ DropEffect(h)
    /\ UNCHANGED <<config, pc, failedAt, container, faulted, runtime>>

-----------------------------------------------------------------------------
(* start().                                                                *)

At(s, stage) == Up /\ pc[s] = stage

Goto(s, stage) ==
    /\ pc' = [pc EXCEPT ![s] = stage]
    /\ UNCHANGED <<config, failedAt, runtime>>

\* Mutant of Fail: the stage is read after it was overwritten.
StageReadLate(s) ==
    /\ pc' = [pc EXCEPT ![s] = "failed"]
    /\ failedAt' = [failedAt EXCEPT ![s] = "failed"]
    /\ UNCHANGED <<config, runtime>>

Fail(s) ==
    /\ pc' = [pc EXCEPT ![s] = "failed"]
    /\ failedAt' = [failedAt EXCEPT ![s] = pc[s]]
    /\ UNCHANGED <<config, runtime>>

KeepHandles   == UNCHANGED <<handle, sd, cancelled>>
KeepContainer == UNCHANGED <<container, faulted>>

\* Temporary dockerfile, context archive and image build: none of them
\* touches a container.
Prepare(s) ==
    /\ At(s, "prepare")
    /\ Goto(s, "create") \/ Fail(s)
    /\ KeepHandles
    /\ KeepContainer

Create(s) ==
    /\ At(s, "create")
    /\ \E a \in DaemonCreate(container[s]) :
          /\ Take(s, a)
          /\ IF a.result = "ok" THEN Goto(s, "start") ELSE Fail(s)
    /\ KeepHandles

StartContainer(s) ==
    /\ At(s, "start")
    /\ \E a \in DaemonStart(container[s]) :
          /\ Take(s, a)
          /\ IF a.result = "ok" THEN Goto(s, "wait") ELSE Fail(s)
    /\ KeepHandles

\* wait_for_logs never returns an error: a failed log read counts as a line.
WaitForLogs(s) ==
    /\ At(s, "wait")
    /\ Goto(s, "inspect")
    /\ KeepHandles
    /\ KeepContainer

InspectFails(s) ==
    /\ At(s, "inspect")
    /\ Fail(s)
    /\ KeepHandles
    /\ KeepContainer

\* The address is known: only now is there a value whose Drop stops the container.
Construct(s) ==
    /\ At(s, "inspect")
    /\ Goto(s, IF config[s].dockerfile THEN "cleanup" ELSE "ok")
    /\ handle' = [handle EXCEPT ![First(s)] = "live"]
    /\ UNCHANGED <<sd, cancelled>>
    /\ KeepContainer

Cleanup(s) ==
    /\ At(s, "cleanup")
    /\ Goto(s, "ok")
    /\ KeepHandles
    /\ KeepContainer

\* The error, or the caller's drop of the future, drops the local `executor`.
LeaveCleanup(s) ==
    /\ At(s, "cleanup")
    /\ Fail(s)
    /\ DropEffect(First(s))
    /\ KeepContainer

\* The caller drops the future of start() before there is an executor. The
\* daemon call in flight may still take effect.
AbandonStart(s) ==
    /\ Up
    /\ \/ /\ pc[s] = "create"
          /\ \E a \in DaemonCreate(container[s]) : Take(s, a)
       \/ /\ pc[s] = "start"
          /\ \E a \in DaemonStart(container[s]) : Take(s, a)
       \/ /\ pc[s] \in {"prepare", "wait", "inspect"}
          /\ KeepContainer
    /\ Fail(s)
    /\ KeepHandles

-----------------------------------------------------------------------------
(* The surroundings.                                                       *)

ServiceExits(s) ==
    /\ container[s] \in Active
    /\ container' = [container EXCEPT ![s] = "exited"]
    /\ UNCHANGED <<config, pc, failedAt, faulted, cancelled, handle, sd, runtime>>

AutoRemove(s) ==
    /\ HostConfig.auto_remove
    /\ container[s] = "exited"
    /\ container' = [container EXCEPT ![s] = "removed"]
    /\ UNCHANGED <<config, pc, failedAt, faulted, cancelled, handle, sd, runtime>>

\* The daemon ends a removal it has begun. One that fails (the container cannot be
\* killed, its files cannot be deleted) leaves the container there, alive or dead.
EndRemoval(s) ==
    /\ container[s] = "removing"
    /\ \/ /\ container' = [container EXCEPT ![s] = "removed"]
          /\ UNCHANGED faulted
       \/ /\ \E c \in {"stopping", "exited"} : container' = [container EXCEPT ![s] = c]
          /\ faulted' = faulted \cup {s}
    /\ UNCHANGED <<config, pc, failedAt, cancelled, handle, sd, runtime>>

\* A blocking task that has not begun is discarded; one that has keeps its
\* thread, but the connections it uses are gone (the guards on Up of its calls).
StopRuntime ==
    /\ Up
    /\ runtime' = "down"
    /\ sd' = [r \in Runs |-> IF sd[r] = "queued" THEN "lost" ELSE sd[r]]
    /\ UNCHANGED <<config, pc, failedAt, container, faulted, cancelled, handle>>

StartStep(s) ==
    \/ Prepare(s) \/ Create(s) \/ StartContainer(s) \/ WaitForLogs(s)
    \/ InspectFails(s) \/ Construct(s) \/ Cleanup(s) \/ LeaveCleanup(s)
    \/ AbandonStart(s)

HandleStep(h) ==
    \/ RunJob(h) \/ CallShutdown(h) \/ AbandonShutdown(h) \/ DropHandle(h)
    \/ \E c \in Handles : CloneHandle(h, c)

Next ==
    \/ \E s \in Starts :
          StartStep(s) \/ ServiceExits(s) \/ AutoRemove(s) \/ EndRemoval(s)
    \/ \E h \in Handles : HandleStep(h)
    \/ \E r \in Runs : Kill(r) \/ Remove(r) \/ Removed(r)
    \/ StopRuntime

Spec == Init /\ [][Next]_vars

\* The blocking pool runs what is queued, every daemon call is answered or
\* fails, and the daemon carries out auto_remove and the removals it has begun.
\* Nothing makes a caller call shutdown() or drop a value; who calls it awaits the
\* future, or drops it (AbandonShutdown).
Fairness ==
    /\ \A h \in Handles : WF_vars(RunJob(h))
    /\ \A r \in Runs : WF_vars(Kill(r)) /\ WF_vars(Remove(r)) /\ WF_vars(Removed(r))
    /\ \A s \in Starts : WF_vars(AutoRemove(s)) /\ WF_vars(EndRemoval(s))

FairSpec == Spec /\ Fairness

-----------------------------------------------------------------------------
(* Properties.                                                             *)

Owned(s)     == \E h \in Handles : StartOf(h) = s /\ handle[h] = "live"
Reclaimed(s) == \E r \in Runs : StartOf(r[1]) = s /\ sd[r] \in Pending

\* What the code does not undertake to clean up: a retained container, one whose
\* daemon calls failed by a fault, one whose runtime is gone, and one whose
\* start() ended after the daemon had started it and before an executor existed.
Excused(s) ==
    \/ config[s].retain
    \/ s \in faulted
    \/ ~Up
    \/ pc[s] = "failed" /\ failedAt[s] \in {"start", "wait", "inspect"}

\* No orphans: a container that runs has a start() that is still working on it,
\* a live executor that can stop it, or a shutdown on its way, unless the daemon is
\* removing it already (start, Drop and shutdown of running_docker_executor.rs taken
\* together).
NoOrphan ==
    \A s \in Starts :
        container[s] \in Active =>
            pc[s] \in Stages \/ Owned(s) \/ Reclaimed(s) \/ Excused(s)

\* What a finished shutdown() means: Ok says that the container is gone. An error
\* that is no fault says that there was nothing left to do: the container had ended
\* by itself, or somebody else has removed it or is about to. In the last case it
\* may still run when the error is returned.
ShutdownOutcome ==
    \A r \in Runs :
        LET s == StartOf(r[1])
        IN  /\ sd[r] = "ok" => container[s] = "removed"
            /\ sd[r] = "failed" =>
                  container[s] \in {"removing", "exited", "removed"} \/ s \in faulted

\* The token of the log streams is set for the sake of a removal, and the removal
\* follows: once the streams of every clone are cut, the container goes, and no
\* executor keeps a container whose logs it can no longer read. Set aside: faults,
\* a runtime that is gone, a caller who dropped the future of shutdown().
CutStreamsMeanRemoval ==
    \A s \in Starts :
        s \in cancelled ~>
            \/ container[s] = "removed"
            \/ s \in faulted
            \/ ~Up
            \/ \E h \in Handles : StartOf(h) = s /\ sd[Call(h)] = "abandoned"

\* One drop, one shutdown: the copy the job owns never queues another job.
OneJobPerDrop ==
    [][\A h \in Handles :
          sd'[Job(h)] = "queued" => sd[Job(h)] \in {"idle", "queued"}]_vars

\* What asks for the end of a container: shutdown() was called on a value of its
\* executor, or a value was dropped whose builder did not set retain_on_drop.
Asked(s) ==
    \E h \in Handles :
        /\ StartOf(h) = s
        /\ \/ sd[Call(h)] # "idle"
           \/ handle[h] = "dropped" /\ ~config[s].retain

\* retain_on_drop: "Instead of killing the container on drop, retain it". No step
\* stops or removes a container that runs unless it was asked for, whatever drops,
\* fails or is abandoned; a service that exits by itself is no such step.
StopIsAsked ==
    [][\A s \in Starts :
          (/\ container[s] \in Active
           /\ container'[s] \in {"stopping", "removing", "removed"} \ {container[s]})
          => Asked(s)]_vars

\* Dropping an executor frees its container in the end, and with it the name a
\* restart of the same builder needs; when shutdown() finds the container stopped
\* it gives up at the kill, and the daemon's auto_remove does the rest.
DropFreesContainer ==
    \A h \in Handles :
        handle[h] = "dropped" ~>
            (container[StartOf(h)] = "removed" \/ Excused(StartOf(h)))

\* file_loader.rs: "If needed it is safe to clone the executor." As long as no
\* one calls shutdown(), no container with a live executor is told to stop.
CloneIsSafe ==
    \A s \in Starts :
        (container[s] = "stopping" /\ Owned(s)) =>
            \E h \in Handles : StartOf(h) = s /\ sd[Call(h)] # "idle"

\* docker_tool_executor.rs: "Note that on dropping the `RunningDockerExecutor`,
\* the container will be stopped." Faults and retained containers set aside.
DropStopsContainer ==
    \A h \in Handles :
        handle[h] = "dropped" ~>
            LET s == StartOf(h)
            IN  container[s] \notin Active \/ s \in faulted \/ config[s].retain
=============================================================================
