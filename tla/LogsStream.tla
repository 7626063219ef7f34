----------------------------- MODULE LogsStream -----------------------------
(***************************************************************************)
(* `logs_stream`: a task pumps the daemon's log stream of the container    *)
(* into a bounded channel, racing every await against the executor's       *)
(* cancellation token; the caller polls the other end. The n-th entry of   *)
(* the log is the number n; an error of the docker connection is Err.      *)
(***************************************************************************)
EXTENDS Integers, Sequences

CONSTANTS
    MaxLog,  \* bound: entries the container logs
    Cap      \* capacity of the channel, 100 in the code

ASSUME CapAssumption == Cap \in Nat \ {0} /\ MaxLog \in Nat

Err  == 0   \* not the number of any entry
Item == Nat

VARIABLES
    logged,     \* entries the container has logged
    container,  \* following the log of a container that runs does not end
    link,       \* the daemon's answer to the log request
    next,       \* entry the pump reads next
    pump,       \* the task: awaiting an entry, or room for the one in `hand`
    hand,       \* the entry being sent
    chan,       \* the channel
    token,      \* cancel_token
    rx,         \* the caller's stream
    received    \* what the caller has been given

vars == <<logged, container, link, next, pump, hand, chan, token, rx, received>>

TypeOK ==
    /\ logged \in 0 .. MaxLog
    /\ container \in {"running", "exited"}
    /\ link \in {"open", "failed"}
    /\ next \in Nat \ {0}
    /\ pump \in {"reading", "sending", "done"}
    /\ hand \in Item
    /\ chan \in Seq(Item) /\ Len(chan) <= Cap
    /\ token \in {"live", "cancelled"}
    /\ rx \in {"open", "ended", "dropped"}
    /\ received \in Seq(Item)

Init ==
    /\ logged \in 0 .. MaxLog
    /\ container \in {"running", "exited"}
    /\ link = "open"
    /\ next = 1
    /\ pump = "reading"
    /\ hand = Err
    /\ chan = <<>>
    /\ token = "live"
    /\ rx = "open"
    /\ received = <<>>

-----------------------------------------------------------------------------
(* The container and the daemon.                                           *)

Log ==
    /\ container = "running" /\ logged < MaxLog
    /\ logged' = logged + 1
    /\ UNCHANGED <<container, link, next, pump, hand, chan, token, rx, received>>

ContainerStops ==
    /\ container = "running"
    /\ container' = "exited"
    /\ UNCHANGED <<logged, link, next, pump, hand, chan, token, rx, received>>

-----------------------------------------------------------------------------
(* The pump.                                                               *)

ReadEntry ==
    /\ pump = "reading" /\ link = "open" /\ next <= logged
    /\ hand' = next
    /\ next' = next + 1
    /\ pump' = "sending"
    /\ UNCHANGED <<logged, container, link, chan, token, rx, received>>

\* Mutant of ReadError: the loop ends on an error instead of passing it on.
ErrorSwallowed ==
    /\ pump = "reading" /\ link = "open"
    /\ link' = "failed"
    /\ pump' = "done"
    /\ UNCHANGED <<logged, container, next, hand, chan, token, rx, received>>

\* The connection fails: one last item, which is forwarded like the others.
ReadError ==
    /\ pump = "reading" /\ link = "open"
    /\ link' = "failed"
    /\ hand' = Err
    /\ pump' = "sending"
    /\ UNCHANGED <<logged, container, next, chan, token, rx, received>>

\* Mutant of ReadEnd: the stream is asked again after its error.
AskedAgain ==
    /\ pump = "reading" /\ link = "open"
    /\ container = "exited" /\ next > logged
    /\ pump' = "done"
    /\ UNCHANGED <<logged, container, link, next, hand, chan, token, rx, received>>

ReadEnd ==
    /\ pump = "reading"
    /\ link = "failed" \/ (container = "exited" /\ next > logged)
    /\ pump' = "done"
    /\ UNCHANGED <<logged, container, link, next, hand, chan, token, rx, received>>

\* Mutant of Send: a channel without a bound.
SendUnbounded ==
    /\ pump = "sending" /\ rx # "dropped"
    /\ chan' = Append(chan, hand)
    /\ pump' = "reading"
    /\ UNCHANGED <<logged, container, link, next, hand, token, rx, received>>

Send ==
    /\ pump = "sending" /\ rx # "dropped" /\ Len(chan) < Cap
    /\ chan' = Append(chan, hand)
    /\ pump' = "reading"
    /\ UNCHANGED <<logged, container, link, next, hand, token, rx, received>>

SendFails ==
    /\ pump = "sending" /\ rx = "dropped"
    /\ pump' = "done"
    /\ UNCHANGED <<logged, container, link, next, hand, chan, token, rx, received>>

\* Mutant of StopPump: the token is looked at between two entries only.
TokenBetweenEntries ==
    /\ pump = "reading" /\ token = "cancelled"
    /\ pump' = "done"
    /\ UNCHANGED <<logged, container, link, next, hand, chan, token, rx, received>>

\* select! drops the pumping branch at whichever await it stands, and with it the
\* entry in hand and the docker stream.
StopPump ==
    /\ pump # "done" /\ token = "cancelled"
    /\ pump' = "done"
    /\ UNCHANGED <<logged, container, link, next, hand, chan, token, rx, received>>

-----------------------------------------------------------------------------
(* The caller, and whoever shuts the executor down.                        *)

Cancel ==
    /\ token = "live"
    /\ token' = "cancelled"
    /\ UNCHANGED <<logged, container, link, next, pump, hand, chan, rx, received>>

Receive ==
    /\ rx = "open" /\ chan # <<>>
    /\ received' = Append(received, Head(chan))
    /\ chan' = Tail(chan)
    /\ UNCHANGED <<logged, container, link, next, pump, hand, token, rx>>

\* The sender is gone with the task; what it had queued is still delivered.
ReceiveEnd ==
    /\ rx = "open" /\ chan = <<>> /\ pump = "done"
    /\ rx' = "ended"
    /\ UNCHANGED <<logged, container, link, next, pump, hand, chan, token, received>>

DropStream ==
    /\ rx = "open"
    /\ rx' = "dropped"
    /\ chan' = <<>>
    /\ UNCHANGED <<logged, container, link, next, pump, hand, token, received>>

Pump == ReadEntry \/ ReadError \/ ReadEnd \/ Send \/ SendFails

Next ==
    \/ Log \/ ContainerStops \/ Cancel
    \/ Pump \/ StopPump
    \/ Receive \/ ReceiveEnd \/ DropStream

Spec == Init /\ [][Next]_vars

\* The task is polled, and select! does not pass over a branch that stays ready.
\* The caller is not assumed to poll.
PumpSpec == Spec /\ WF_vars(Pump) /\ WF_vars(StopPump)

\* A caller that polls until the stream ends.
Polled == WF_vars(Receive \/ ReceiveEnd)

-----------------------------------------------------------------------------
\* What the caller sees of it. The token's holder is not the caller.
Stream == INSTANCE ItemStream WITH
    total  <- logged,
    source <- IF container = "running" THEN "open" ELSE "finished",
    cut    <- IF token = "cancelled" THEN "yes" ELSE "no"

\* The task and its channel are a stream of the log: every step of theirs gives the
\* caller the next entry the container has written, or the error that ends it, or an end
\* that is true, or is none the caller sees.
ImplementsStream == Stream!Spec

\* No entry is lost, doubled or moved on its way: the caller has the log from its
\* first entry on, an error only at the end, and the channel goes on from there.
InOrder ==
    /\ \A i \in 1 .. Len(received) :
          received[i] = i \/ (received[i] = Err /\ i = Len(received))
    /\ rx = "open" => \A i \in 1 .. Len(chan) :
          chan[i] = Len(received) + i \/ (chan[i] = Err /\ i = Len(chan))

\* A stream that ends has given the whole log of a stopped container, unless it
\* was cancelled or says by an error that it is cut short.
EndIsComplete ==
    rx = "ended" =>
        \/ token = "cancelled"
        \/ received # <<>> /\ received[Len(received)] = Err
        \/ container = "exited" /\ Len(received) = logged

\* shutdown() relies on it ("Stop any jobs that might block the docker socket"):
\* once cancelled, the task lets go of the socket, although the channel may be
\* full and nobody reads it.
CancelFreesSocket == token = "cancelled" ~> pump = "done"

\* A caller that polls sees the end of a cancelled or stopped container's log.
StreamEnds ==
    Polled => ((token = "cancelled" \/ container = "exited") ~> rx \in {"ended", "dropped"})
=============================================================================
