# A TLA+ model of swiftide-docker-executor

`swiftide-docker-executor` runs an agent's commands in a docker container. The host crate
(`src/swiftide-docker-executor`) builds an image, starts a container, waits for the gRPC service in
it, sends it commands, streams its logs and its files, and removes the container when the executor
is dropped. The service (`src/swiftide-docker-service`) runs inside the container.

Most of what can go wrong lies in the order of events that belong to different owners: Rust values
and the tasks their `Drop` spawns, the docker daemon, the service and the processes it starts, and
callers that drop a future or a stream half-way. These modules model those events.

Paths below are relative to the repository; E is `swiftide-docker-executor/src`, S is
`swiftide-docker-service/src`.

## Inventory

| Component | State | Operations | Talks to | What makes it correct |
|---|---|---|---|---|
| Executor lifecycle, E/running_docker_executor.rs, E/container_starter.rs | container id, `dropped`, `retain_on_drop`, one cancellation token for all clones | `start`, `clone`, `drop`, `shutdown` | daemon, tokio's blocking pool | no container without somebody responsible for it; `shutdown` tells the truth; one shutdown per drop; a drop frees the container's name |
| Shell service, S/executor.rs | per request: child, two reading tasks, script directory | `exec_shell` | processes through pipes and signals | complete output; no deadlock on a full pipe; an answer in spite of a hanging child; script file as long as it is needed |
| Docker client cell, E/client.rs | a mutex over a `Weak<Client>` | `lazy_client` | every `start` | one live client, never a dead one, no caller left waiting |
| Log stream, E/running_docker_executor.rs `logs_stream` | pump task, channel of 100 | stream, cancel, drop | daemon, `shutdown` | order, completeness, and letting go of the socket when cancelled |
| File loader, E/file_loader.rs, S/loader.rs | task, channel of 1000, owned or borrowed executor | `into_stream` | service, `Drop` of the executor | order, reported failures, a borrowed executor is left alone |
| Start-up handshake, E/container_starter.rs `wait_for_logs`, S/main.rs | counter, log stream | wait for "listening on" | daemon, service | bounded wait, which ends for its reason and no sooner |
| Command client, E/running_docker_executor.rs `exec_cmd` ff. | the default limit; in the container, the files the commands are about | shell, read and write file, error mapping | service | a write that says Ok has landed; nothing of an answered command goes on; a missing directory is made; a limit ends a call |
| Dockerfile mangler and manager, E/dockerfile_mangler.rs, E/dockerfile_manager.rs | a temporary Dockerfile on the host | filter and insert lines | `start` | the instructions mean what they should; the file does not stay |
| Context archive, E/context_builder.rs | the tree (not its own) | walk, archive | `start`, other processes | exactly the files found and not ignored, or an error |
| Image builder, E/image_builder.rs | the tag at the daemon | build | `start`, daemon, other starts | a failed build ends the start |
| Address discovery, queries, builder, errors | none | daemon inspections, setters, conversions | daemon | not modelled (see the end) |

## Modules

| Module | What it models |
|---|---|
| `ExecutorLifecycle` | `start()` from the first daemon call to the returned executor, the values that own a container (executor, clones, the copy `Drop` gives a blocking task, futures of `shutdown()`), and the runtime they run on |
| `ExecutorLifecycleProofs` | its inductive invariant and theorems |
| `ExecShell`, `ExecShellProofs` | one `ExecShell` request: handler, child, a descendant, two pipes, two reading tasks; the inductive invariant and theorems |
| `DockerClient`, `DockerClientProofs` | `Client::lazy_client` and the owners of its `Arc`s; the inductive invariant and theorems |
| `SharedClient` | what `lazy_client` promises its callers, each call at a single moment: the abstract specification `DockerClient` implements |
| `LogsStream`, `LogsStreamProofs` | the pump task of `logs_stream`; the inductive invariant and theorems |
| `FileLoading`, `FileLoadingProofs` | `FileLoader::into_stream`, the service's response, and the shutdown beside it; the inductive invariant and theorems |
| `ItemStream` | what the caller of a stream is promised, without tasks and channels: the abstract specification that `LogsStream` and `FileLoading` both implement |
| `StartupHandshake`, `StartupHandshakeProofs` | `main()` of the service and `wait_for_logs` of the host; the inductive invariant and theorems |
| `ShellRequest` | what the service promises of one request: the abstract specification that `ExecShell` implements and `ExecCommand` is built on |
| `ExecCommand`, `ExecCommandProofs` | concurrent calls of `exec_cmd` on the host, their requests, and the file their commands work on; the inductive invariant and theorems |
| `DockerfileMangler` | `mangle` as an operator on sequences of lines, and what it is for as a second one on the instructions docker reads |
| `ContextArchive` | `ContextBuilder::build_tar` walking a tree that changes |
| `ImagePreparation`, `ImagePreparationProofs` | the first half of `start()`: `DockerfileMangler`, `ContextArchive`, the temporary Dockerfile, the build and the tag; the inductive invariant and theorems |
| `MC...` | the instances the `.cfg` files give to TLC |

`ExecCommand` is composed with the service through `ShellRequest`: every request of a call is one
of its variables' values, and its steps are `ShellRequest`'s (`Shell!Start`, `Shell!Exit`, ...).
That the real handler is no worse is the refinement `ImplementsRequest` of `ExecShell`. `LogsStream`
and `FileLoading` share a promise instead, `ItemStream`, and each implements it with a mapping of its
own (`ImplementsStream`). `ImagePreparation`
extends `DockerfileMangler` and `ContextArchive`, and is the step `Prepare` of `ExecutorLifecycle`
in detail. The other modules meet in three places, each of which is an action in both modules: `shutdown()`
cancels the token (`BeginShutdown` in `ExecutorLifecycle`, `Cancel` in `LogsStream`), the drop of
an executor queues a shutdown (`DropEffect`, `QueueJob` in `FileLoading`), and `start()` waits for
the log (`WaitForLogs`, the whole of `StartupHandshake`).

### ExecutorLifecycle

`pc[s]` is the await at which the start s stands; `container[s]` is the daemon's view.
A value of type `RunningDockerExecutor` is a handle `<<s, i>>`, and a run of `shutdown()` is
`<<h, "call">>` (awaited by the user) or `<<h, "job">>` (spawned by `Drop`). Every daemon call is
answered by a record of a set (`DaemonKill` and the others): admitted, refused by the daemon's
rules, or failed by a fault with or without having taken effect. The set does not promise more than
docker does: a kill answers before the container has stopped, the container can stop by itself at
any time, `auto_remove` removes it some time later, a create can be refused for a name in use.
A forced removal takes two steps: the daemon marks the container and kills it (`Remove`), and answers
when it is gone (`EndRemoval`, `Removed`). In between, the removal can fail, the caller can drop the
future, and the removal of a second `shutdown()` is refused although the container may still run.
Futures of `start()` and `shutdown()` can be dropped with a call in flight (`AbandonStart`,
`AbandonShutdown`), and the runtime can stop (`StopRuntime`): what the blocking pool has not begun
is lost.

So `ShutdownOutcome` says of an error that is no fault that the container has ended, or that its
removal is already somebody else's, and no more. `CutStreamsMeanRemoval` ties the two effects of a
`shutdown()` together: the token cuts the log streams of every clone at once, and the container has to
follow, in spite of refused kills and a removal another clone has begun.

`NoOrphan` and `DropFreesContainer` name what the code does not undertake (`Excused`): retained
containers, faults of the daemon connection, a runtime that is gone, and a `start()` that ended
after the daemon started the container and before there was a value to drop.

### ExecShell

`pc` names the awaits of the handler. The child and one process it may leave behind (`desc`) hold
the write ends of the pipes (`writers`); a pipe holds `PipeCap` lines, a writer blocks on a full
one. Lines are "text" or "bad" (not UTF-8), which is all the reading tasks can tell apart.
Processes are free: they may fork, close, write or not, end or not. The kill after the limit may be
refused (`signal = "refused"`, the error of `start_kill` that the handler only logs, as of a child that
runs as another user); the wait behind it has no limit.

What the client sees of all this is `Seen`: the phase of the request, its answer, and whether there
is anybody left that the answer waits for (`Active`: the child runs, or a pipe that is still read
has a holder). `ImplementsRequest` says that `Seen` behaves as `ShellRequest` allows: one answer, an
exit or a time-out only when nobody is left, a time-out only with a limit. `AnswersPromptly` is its
liveness: when nobody is left, an answer comes. `TimeoutAnswers` is about the limit, and has two
premises: what the child leaves behind ends (`Tidy`), and a child that cannot be killed ends by itself
(`Killable`).

### ExecCommand

Each call of `exec_cmd` is one of `Calls`; its last command, request, process and result are
functions of it. A write is `cat > path`, and if that fails with a message that says the path is
missing, `mkdir -p` and the same again; the result is that of the last command (`ReceiveMissing`,
`ReceiveMade`, `ReceiveLast`). `Outcome` is the mapping of responses and statuses to results,
`Resolve` the choice between a command's limit and the default, `profile` what a login shell prints
besides the message (`Recognised`). The process opens and empties the file, then fills it; it can
fail or be killed in between, and a user's command can remove the file or the directory. `made` remembers whether the directory
was made by the call's own `mkdir` and removed after that, which is the only excuse
`MissingMeansRemoved` accepts. A caller
can give up at any time (`GiveUp`: a failed connection, a broken one, a dropped future), and its
request may still be begun or go on, as it does in the code.

### ImagePreparation

A line of a Dockerfile is the word it begins with and whether a backslash continues it, which is all
`mangle` and an instruction parser can tell apart. `Read` is what docker
reads, each line with the instruction it belongs to, `Wanted` says of that what is intended, and `Plain` is the condition under which the line-wise
code is right. Where it does not hold, the code is wrong as it stands: a CMD over several lines
leaves its other lines behind, and a continuation line that begins with "from" is taken for the
last stage. The archive is built entry by entry (`VisitDir`, `Skip`, `VisitLink`, `VisitFile`,
`VisitGone`), while other processes add and remove entries. The tag is that of the uuid, which
clones of a builder share: it may name an image of an earlier start, and another start may set it
at any time (`Retag`).

### DockerClient, LogsStream, FileLoading, StartupHandshake

`DockerClient` keeps, per client, the set of tasks that hold an `Arc`; an `Arc` can go at any
step of another caller. Its callers see the client that is alive, who holds it and what they were
answered: `ImplementsSharedClient` says that every call shares the client, opens one or fails at one
moment of it, and that a client is opened only when there is none. `LogsStream` and `FileLoading` number the entries, so that order and loss
are visible, and let the receiving end stop, go on or be dropped. For both, `ImplementsStream` says
what the caller sees: items one after the other from the first on, an error only as the last, an end
only after an error or all of a source that is finished. An end without either is allowed where the
code says nothing to its caller (`cut`): a cancelled log stream, and a request for files that the
service refused, which is only logged. `FileLoading` has both kinds of
loader; the owned executor is dropped when `into_stream` returns, because the spawned task captures
only the path and the extensions. `StartupHandshake` lets the image print anything before the
service, or instead of it, lines included that the wait takes for the service's (`claimed` remembers
that it did), and keeps the two steps "log the line" and "bind the port" of `main()`.

## Runs

| Run | Question | Result |
|---|---|---|
| `lifecycle` | Are containers always somebody's, are they only stopped when asked for, is `shutdown()` truthful, does the container go once its streams are cut or its executor is dropped? | holds |
| `lifecycle_clone_shared` | Is it safe to clone an executor? | no: the first clone dropped kills the container |
| `lifecycle_drop_race` | Does a drop stop the container? | not if the runtime stops before the blocking task began |
| `shell` | Complete output, no pipe deadlock, an answer after the limit if the child can be killed and its descendants end, script files; does the handler implement `ShellRequest`, and answer when nobody is left? | holds |
| `shell_timeout_stuck` | Does a command that exceeds its limit always resolve? | not if a descendant keeps a pipe |
| `command` | Is a write that returned Ok in the file, is a return final, is the directory made, does a limit end a call if what runs beyond it ends? | holds |
| `prepare` | Does the mangled Dockerfile mean what it should, is the archive what the walk found, is the image a new one? | holds |
| `client` | One live client, no dead one, calls that are atomic to their callers, no starvation | holds |
| `logs` | Does the pump implement `ItemStream` (order, completeness)? Cancellation, end of the stream | holds |
| `files` | Does the loader implement `ItemStream` (order, reported cuts)? A borrowed executor is left alone, end of the stream | holds |
| `files_owned` | Does an owned loader yield the files? | not if the shutdown overtakes the request |
| `startup` | Bounded number of items, no end without its reason, a booting or dying service ends the wait | holds |

Bounds, and why they are enough:

- `lifecycle`: one start and two copies of its executor. Starts share nothing but the daemon's
  names (a refused create, which `DaemonCreate` allows at any time); two copies are needed for
  clones that disagree and for two shutdowns of one container. The theorems hold for any number.
- `shell`: two streams, at most two lines in each, pipes of one line: a full pipe, a line behind
  a bad line and a blocked writer all occur. One descendant stands for all that hold a stream.
- `command`: two calls, one of which may also run a command of the user, and two settings (no
  default limit and a directory to be made; a default limit and a noisy profile). Two calls are
  needed for a write that is overtaken and for a directory that disappears between two commands;
  `foreign` messages are covered by the theorems, which hold for every setting and number of calls.
- `prepare`: all Dockerfiles of up to four lines over seven lines (several stages, both bases,
  continued lines), a tree with a file, an ignored one, an ignored one under .git, a directory and
  a link, and three changes: an entry can go and come back.
- `client`: three tasks (one in the cell, one waiting, one releasing) and three clients.
- `logs`: four entries and a channel of two; `files`: three files, a connection of one and a
  channel of one. The channels fill, drain and close with entries in them.
- `startup`: a limit of 3 and up to 6 lines of the image: both sides of the limit.

`CHECK_DEADLOCK FALSE` is set where the system really stops: everything dropped, the request
answered, the stream ended. `client` is checked for deadlock.

### Fairness

- `ExecutorLifecycle`: the blocking pool runs what is queued, a daemon call is answered or fails,
  the daemon carries out `auto_remove` and the removals it has begun, or they fail. Nothing makes a
  caller call `shutdown()` or drop a value; who has called it awaits the future, or drops it
  (`AbandonShutdown`, which `CutStreamsMeanRemoval` sets aside).
- `ExecShell` (`ServiceSpec`): the handler, the reading tasks, the timer and SIGKILL. The command
  is not trusted; where a property needs it to go on, or its descendants to end, it says so itself
  (`Busy => ...`, `Tidy => ...`, and `Killable => ...` for a child that cannot be killed).
- `ExecCommand` (`FairSpec`): the host polls the call, the service begins and answers
  (`AnswersPromptly` is checked of `ExecShell`). No command is trusted to end. That the processes
  of a command beyond its limit do is a premise of `LimitedCallReturns` (`Tidy => ...`) and no promise
  of the service, which signals the direct child only: `shell_timeout_stuck` shows a request it keeps
  open. What the property adds is the host's part, that the limit of a call or the default reaches every
  one of its requests and that an answer ends the call.
- `DockerClient`: strong fairness of the lock, since tokio's mutex serves its waiters in order.
- `LogsStream` (`PumpSpec`): the task is polled and `select!` does not pass over a ready branch for
  ever. That the caller polls is a premise of `StreamEnds` only (`Polled => ...`).
- `FileLoading`: the task, the service and the caller go on; the shutdown job need not.
- `StartupHandshake`: the host's task goes on (`WaiterSpec`) and the service boots or dies
  (`BootSpec`). A container that does neither is outside of `BootedEndsWait`.

## Proofs

The theorems hold for every value of the constants. None of the proof modules assumes anything but
the named assumptions on the constants.

`ExecutorLifecycleProofs`: `TypeCorrect`, `NothingOrphaned`, `ShutdownTellsTheTruth`,
`DropQueuesOnce`, `StopsAreAskedFor`. `NoOrphan` is not inductive: it has
to be known that no values or runs exist before `Construct`, and the container was started before it
(`EarlyStages`, `ValuesWhenBuilt`), that a run belongs to a value that exists or was dropped (`RunsHaveValues`), and what an ended shutdown
left behind (`ShutdownOutcome`). `IInv` is their conjunction with `TypeOK`; there is a lemma per action, `NextInv` puts them together, and the theorems follow. `StopsAreAskedFor` says
of every step that one which stops a running container comes after a call of `shutdown()` or the
drop of an unretained value: only the daemon's answer to a run of `shutdown()` stops one
(`OnlyShutdownStops`, which needs `EarlyStages` for the calls of `start()`), and a run that is a job
belongs to a dropped value without `retain_on_drop` (`RunsHaveValues`).

`LogsStreamProofs` proves of a log and a channel of any length that the pump, its channel and the
cancellation implement `ItemStream` (`StreamIsImplemented`), and, on the way, that what the caller
receives is the log in order (`LogInOrder`) and that an uncancelled end is an error or the end of
the whole log (`LogIsComplete`). `InOrder` is only about what was received; the invariant adds what
is still on its way: `Position` says that the received entries, the queued ones, the one in the
pump's hand and the one it reads next are consecutive, as long as there is no error, and that an
error is the last item that ever goes through the channel (`Closed`); `Behind` says what a pump that
is done has delivered. The refinement needs `Written` besides: nothing is on its way that the
container has not logged. The assumption used is that the capacity of the channel is positive.

`DockerClientProofs` proves, for any set of tasks, that one client is alive at most
(`AtMostOneClient`) and that a returned client is (`AnswersAreAlive`). The invariant says who may
be inside of `lazy_client` (`Exclusive`: exactly the holder of the mutex), where a live client can
be (`Reachable`: in the cell, or still with the caller that creates it and is about to store it),
and that the creator holds the client until it is stored (`Held`). `LazyClientIsAtomic` is the
linearizability of `lazy_client`, the refinement of `SharedClient`: a call takes effect at the
`Upgrade` that finds a client, at `Create`, or at `CreateFails`. The mapping chooses the living
client from a set; two lemmas (`NoneAlive`, `OneAlive`) say what it is when none or one is alive, and
by `Reachable` there are no other cases. The assumption used is that the model's names for "no client" and for an error are no clients and no tasks.

`ExecShellProofs` proves, for any streams, amounts of output and capacity of the pipes, that an
answer is complete (`OutputIsFull`), that script files live long enough (`ScriptsLiveLongEnough`), and
that the handler implements `ShellRequest` (`RequestIsImplemented`: the initial states map to its
initial states, and every step under the invariant to one of its steps or a stutter). The
invariant adds `Stages` (nothing exists before the spawn; a handler that collects has seen the
child exit) and `Pipes`: lines written are collected or still in the pipe, and a task that has seen
the end of its stream is right about it, because who has let go of a pipe cannot get it back. All
that processes do besides writing goes through one lemma (`ReleaseInv`) about a step that gives up
or shares pipes. The assumption used is that the numbers of lines and the capacity are naturals.

`StartupHandshakeProofs` proves, for any limit and any amount of other output, that the wait takes
at most `Limit + 2` items (`WaitHasABudget`) and that it ends for its reason and no sooner
(`EndsForItsReason`). `Counting` relates the counter to the items taken; `Banners` traces a banner
from `main()` or the image through the log into the hands of the wait; `Accounted` is the one that needs an
argument: the limit is a statement about lines printed before `main()`, so every other line counted, and
every such line still unread, has to be accounted for by one that was printed, and the single item
that is no line, an error, has to be the last one.

`ExecCommandProofs` proves, for any set of concurrent calls, that a write that returned Ok is in the
file unless somebody touched it afterwards (`WritesLand`), that nothing of an answered write goes on
(`ReturnsAreFinal`) and that a write only fails for want of its directory if its own `mkdir` had made it
and another command removed it after that (`MissingDirectoriesAreMade`). The invariant relates, call by call, the stage of the write, its
request and its process; a frame lemma says that a step of one call leaves those of the others
alone but for what `Touch` and a removal do to them. The assumptions are that the calls' names are
no contents of the file, and the types of the settings.

`FileLoadingProofs` proves, for any number of files and any capacities, that the connection, the
service, the shutdown beside it and the task implement `ItemStream` (`StreamIsImplemented`), that the
caller gets the files in their order (`FilesInOrder`), that a stream that ends after the request was
accepted is whole or ends in an error (`CutsAreReported`), and that a borrowed executor is left
alone (`BorrowedExecutorIsSafe`). The invariant numbers what is received, in the channel, in the task's
hand and on the wire consecutively (`InReceived`, `InChan`, `InHand`, `InWire`), counts them against
what the service sent (`Count`), and follows the error of a broken response until it has arrived
(`Reported`). It says nothing of a stream that was dropped but that what had been received stays.

`ImagePreparationProofs` proves, for any tree with any changes and any Dockerfiles, that a finished
archive has the files the walk found (`ArchivesAreFaithful`: `SoFar` says what is in the archive is
what was found and looked at), that the temporary Dockerfile is on the host only while the context
is archived (`TypeCorrect`), and that no image of an earlier build is run (`ImagesAreNew`). The walk
and the rest of `start()` are proved about separately. The assumption used for these is that no entry
has two types.

`MangledDockerfilesMeanTheSame` is about Dockerfiles of any length and any number of stages: docker
reads in the mangled one what `Wanted` says. `MangleMeans` is the statement about the two operators,
and the invariant adds only that what is mangled is one of the Dockerfiles (`Mangled`). The lines
`mangle` keeps are those of the instructions to be kept (`PlainLines`, `SameLines`), and what is
collected of them is read as it was among all the lines (`FilterAgrees`), by induction over the lines
looked at. The library's induction theorems take an operator, which the provers cannot instantiate;
`SetInduction` states induction of a set of numbers, from the well-foundedness of the naturals, and
`CollectedDef` shows with it that the recursion in `Collected` has a solution. `ReadInsertAt` and
`LastInsertAt` say what an insertion of one line between two instructions does. The assumptions are
that the words of the code are words (`WordsAssumption`) and that Dockerfiles are sequences of lines
(`DockerfilesAssumption`); `Plain` is a premise of the property itself, see above.

Each of the eight modules has one lemma per action (or per group of actions that disturb the same
parts), a lemma that puts them together, and theorems that follow from the invariant by `PTL`.

Only model-checked: the liveness properties (`DropFreesContainer`, `CutStreamsMeanRemoval`, `TimeoutAnswers`, `NoPipeDeadlock`,
`AnswersPromptly`, `EveryCallReturns`, `CancelFreesSocket`, `StreamEnds`, `BootedEndsWait`,
`LimitedCallReturns`), whose proofs need `ENABLED` and fairness, out of the prover's reach. The
refinements proved are of the specifications without fairness.

## Known limits of the code

What the models allow because the code does, and no property excludes:

- a line that is not UTF-8 ends a reading task, and the output behind it is missing from the answer
  (`FullOutput` says so);
- a second `shutdown()` of one container is refused while the first one's removal goes on, and returns
  an error although the container may still run (`ShutdownOutcome` says so);
- a child that cannot be signalled keeps a request with a limit open for as long as it runs, as a
  descendant that holds a pipe does (`TimeoutAnswers` and `LimitedCallReturns` name these premises);
- a line of the image that contains "listening on" ends the wait before the service has started
  (`ReasonsHold` says so);
- `wait_for_logs` counts items, not time: a container that logs nothing and does not stop is waited
  for without end;
- a command whose caller gave up goes on (`ReturnIsFinal` is about answered calls);
- the start of a clone of a builder can replace the image between a build and the container it was
  built for (`OwnImage` excludes images of earlier builds only);
- a build under a name that has a tag already (`with_existing_image`, then `with_dockerfile`) is
  refused by the daemon, since the uuid is added as a second tag;
- directories and links of a context that is not the current directory are missing from the
  archive, or somebody else's;
- instructions over several lines are beyond `mangle` (`Plain`).

## What could be added

Several starts of one builder in `ExecutorLifecycle`, whose containers compete for a name and whose
builds for a tag; an abstract specification of who owns a container, which it would implement.

## Not modelled

- Read-only daemon calls (`container_state`, `is_running`, `logs`), errors, the crate root, the
  protocol files and build scripts: no state of the program changes.
- Address and network discovery: which address is found depends on the environment only; that it
  can fail is `InspectFails`.
- The builder: plain setters, of which `retain_on_drop`, the image name and the dockerfile are inputs
  of `ExecutorLifecycle` and `ImagePreparation`.
- Contents: output, files, headers of the archive, environment and working directory are data the
  properties do not tell apart.
- Time: a limit may run out at any moment (a limit below a millisecond, which becomes 0, included);
  the sleeps of `wait_for_logs` are counted, not timed.
