-------------------------- MODULE StartupHandshake --------------------------
(***************************************************************************)
(* How the host learns that a started container is ready: the service logs *)
(* its "listening on" lines and then binds its port, `wait_for_logs` reads *)
(* the container's log until it sees such a line or gives up.              *)
(***************************************************************************)
EXTENDS Integers, Sequences

CONSTANTS
    Limit,    \* lines wait_for_logs lets pass: `count > 100`
    MaxLines  \* bound: lines the image itself prints before the service starts

ASSUME LimitAssumption == Limit \in Nat /\ MaxLines \in Nat

VARIABLES
    boot,     \* the container's command: what the image runs first, then main()
    log,      \* lines of the container's log not read yet
    printed,  \* lines printed before main()
    main,     \* history: whether main() was reached
    claimed,  \* history: whether the image itself printed a line that looks like a banner
    stream,   \* the daemon's answer to the log request
    wait,     \* wait_for_logs: for an item, in the sleep over one, or back
    line,     \* the item in its hands
    count,    \* its counter
    reads,    \* history: items it has taken
    why       \* history: what made it return

container == <<boot, printed, main, claimed>>
waiter    == <<wait, line, count, reads, why>>
vars      == <<container, log, stream, waiter>>

Lines == {"other", "banner"}   \* "banner": any line that contains "listening on"
Items == Lines \cup {"error"}

TypeOK ==
    /\ boot \in {"image", "shell", "loader", "bind", "serving", "exited"}
    /\ log \in Seq(Lines)
    /\ printed \in 0 .. MaxLines
    /\ main \in {"ahead", "reached"}
    /\ claimed \in BOOLEAN
    /\ stream \in {"open", "failed"}
    /\ wait \in {"next", "asleep", "returned"}
    /\ line \in Items
    /\ count \in Nat /\ reads \in Nat
    /\ why \in {"none", "banner", "limit", "end"}

Init ==
    /\ boot = "image" /\ log = <<>> /\ printed = 0 /\ main = "ahead"
    /\ claimed = FALSE
    /\ stream = "open"
    /\ wait = "next" /\ line = "other" /\ count = 0 /\ reads = 0 /\ why = "none"

-----------------------------------------------------------------------------
(* The container.                                                          *)

\* An entrypoint of an existing image may print anything before it runs the
\* service, lines that the wait takes for the service's own included, and may never
\* run it.
ImagePrints ==
    /\ boot = "image" /\ printed < MaxLines
    /\ printed' = printed + 1
    /\ \E text \in Lines :
          /\ log' = Append(log, text)
          /\ claimed' = (claimed \/ text = "banner")
    /\ UNCHANGED <<boot, main, stream, waiter>>

BootTo(stage) ==
    /\ boot' = stage
    /\ UNCHANGED <<printed, claimed, stream, waiter>>

ServiceStarts ==
    /\ boot = "image"
    /\ main' = "reached"
    /\ BootTo("shell")
    /\ UNCHANGED log

\* main() logs one line for each service it adds, the loader's only if it was built
\* with that feature, and binds the port after both.
LogShellBanner ==
    /\ boot = "shell"
    /\ log' = Append(log, "banner")
    /\ BootTo("loader") \/ BootTo("bind")
    /\ UNCHANGED main

LogLoaderBanner ==
    /\ boot = "loader"
    /\ log' = Append(log, "banner")
    /\ BootTo("bind")
    /\ UNCHANGED main

Bind == boot = "bind" /\ BootTo("serving") /\ UNCHANGED <<log, main>>

\* No such command, the port is taken, somebody stops the container, ...
Exit == boot # "exited" /\ BootTo("exited") /\ UNCHANGED <<log, main>>

-----------------------------------------------------------------------------
(* wait_for_logs.                                                          *)

Return(reason) == wait' = "returned" /\ why' = reason

\* Mutants of PastLimit: `>=` for `>`; no limit.
PastLimitEarly  == count >= Limit
PastLimitNever  == FALSE
PastLimit       == count > Limit

\* Past the limit an item ends the wait unseen; the others are slept over.
Take(item) ==
    /\ wait = "next"
    /\ line' = item
    /\ reads' = reads + 1
    /\ IF PastLimit THEN Return("limit") ELSE wait' = "asleep" /\ UNCHANGED why
    /\ UNCHANGED <<container, count>>

TakeLine ==
    /\ stream = "open" /\ log # <<>>
    /\ log' = Tail(log)
    /\ Take(Head(log))
    /\ UNCHANGED stream

TakeError ==
    /\ stream = "open"
    /\ stream' = "failed"
    /\ Take("error")
    /\ UNCHANGED log

\* Mutant of Look: the counter counts down.
CountsDown ==
    /\ wait = "asleep"
    /\ IF line = "banner"
       THEN Return("banner") /\ UNCHANGED count
       ELSE wait' = "next" /\ count' = count - 1 /\ UNCHANGED why
    /\ UNCHANGED <<container, log, stream, line, reads>>

\* 100 ms later the item is looked at: `contains("listening on")`, or one more.
Look ==
    /\ wait = "asleep"
    /\ IF line = "banner"
       THEN Return("banner") /\ UNCHANGED count
       ELSE wait' = "next" /\ count' = count + 1 /\ UNCHANGED why
    /\ UNCHANGED <<container, log, stream, line, reads>>

\* Mutant of StreamEnds: the loop waits for the stream to come back.
StreamReopened ==
    /\ wait = "next"
    /\ boot = "exited" /\ log = <<>>
    /\ stream = "open"
    /\ Return("end")
    /\ UNCHANGED <<container, log, stream, line, count, reads>>

\* The container stopped or the connection failed: taken for a start as well.
StreamEnds ==
    /\ wait = "next"
    /\ stream = "failed" \/ (boot = "exited" /\ log = <<>>)
    /\ Return("end")
    /\ UNCHANGED <<container, log, stream, line, count, reads>>

Service == ServiceStarts \/ LogShellBanner \/ LogLoaderBanner \/ Bind
Waiter  == TakeLine \/ Look \/ StreamEnds

Next ==
    \/ ImagePrints \/ Service \/ Exit
    \/ Waiter \/ TakeError

Spec == Init /\ [][Next]_vars

\* The host's task runs and the daemon delivers what the container logs. The image
\* is not trusted to log anything.
WaiterSpec == Spec /\ WF_vars(Waiter)

\* An image that gets to the service in the end.
BootSpec == WaiterSpec /\ WF_vars(Service)

-----------------------------------------------------------------------------
\* The wait takes at most two items more than the limit, so that the time it
\* sleeps is bounded, whatever mixture of lines and errors it is given.
ReadBudget == reads <= Limit + 2

\* The wait ends for the reason it gives, and no sooner: "Container started" only if
\* the service reached main() or the image itself said "listening on"; the end of
\* the log only of a container that stopped or whose log cannot be read; the limit
\* only if the image printed more lines than the limit.
ReasonsHold ==
    /\ why = "banner" => main = "reached" \/ claimed
    /\ why = "end" => boot = "exited" \/ stream = "failed"
    /\ why = "limit" => printed > Limit

\* A container that gets to the service, or dies on the way, ends the wait.
BootedEndsWait == wait # "returned" ~> wait = "returned"
=============================================================================
