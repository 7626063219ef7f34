----------------------------- MODULE FileLoading -----------------------------
(***************************************************************************)
(* `FileLoader::into_stream`: the caller's thread connects and returns, a  *)
(* task sends the LoadFiles request and moves the files into a channel,    *)
(* and the executor the loader owns is dropped when into_stream returns,   *)
(* so that the shutdown job of its Drop runs beside the task. The n-th     *)
(* file is the number n, an error item is Err.                             *)
(***************************************************************************)
EXTENDS Integers, Sequences

CONSTANTS
    Files,    \* files below the root path that have one of the extensions
    WireCap,  \* bound: what the connection buffers
    Cap       \* capacity of the channel, 1000 in the code

ASSUME BoundsAssumption == Files \in Nat /\ {WireCap, Cap} \subseteq Nat \ {0}

Err  == 0
Item == 0 .. Files

VARIABLES
    mode,      \* into_file_loader or as_file_loader
    retain,    \* retain_on_drop
    live,      \* the executor values: the loader's own, and the user's
    job,       \* shutdown() in the blocking task of the first value dropped
    svc,       \* the service in the container
    crashed,   \* it failed for a reason of its own
    call,      \* into_stream
    task,      \* the spawned task
    rpc,       \* the response stream of LoadFiles
    wire,      \* files on their way to the task
    sent,      \* files the service has sent
    hand,      \* the item the task is sending
    chan,      \* the channel
    rx,        \* the caller's stream
    received   \* what the caller has been given

config == <<mode, retain>>
host   == <<config, live, job, call>>
server == <<svc, crashed>>
link   == <<rpc, wire, sent>>
client == <<task, hand, chan, rx, received>>
vars   == <<host, server, link, client>>

TypeOK ==
    /\ mode \in {"owned", "borrowed"}
    /\ retain \in {"yes", "no"}
    /\ live \subseteq {"loader", "user"}
    /\ job \in {"idle", "queued", "killed", "done"}
    /\ svc \in {"up", "draining", "down"}
    /\ crashed \in {"yes", "no"}
    /\ call \in {"connecting", "returned", "panicked"}
    /\ task \in {"none", "requesting", "reading", "sending", "done"}
    /\ rpc \in {"none", "open", "ended", "broken", "closed"}
    /\ wire \in Seq(Item) /\ Len(wire) <= WireCap
    /\ sent \in 0 .. Files
    /\ hand \in Item
    /\ chan \in Seq(Item) /\ Len(chan) <= Cap
    /\ rx \in {"open", "ended", "dropped"}
    /\ received \in Seq(Item)

\* into_file_loader consumes the executor; the user may have cloned it before.
Init ==
    /\ \/ mode = "owned" /\ live \in {{"loader"}, {"loader", "user"}}
       \/ mode = "borrowed" /\ live = {"user"}
    /\ retain \in {"yes", "no"}
    /\ job = "idle" /\ svc = "up" /\ crashed = "no"
    /\ call = "connecting" /\ task = "none"
    /\ rpc = "none" /\ wire = <<>> /\ sent = 0
    /\ hand = Err /\ chan = <<>> /\ rx = "open" /\ received = <<>>

-----------------------------------------------------------------------------
(* The host program.                                                       *)

\* Every value that is dropped queues a job, unless the container is retained; the
\* container is gone after the first.
QueueJob == job' = IF job = "idle" /\ retain = "no" THEN "queued" ELSE job

\* Mutant of Returns: the borrowing loader works on a clone of its own.
ReturnsCloned ==
    /\ live' = live \ {"loader"}
    /\ QueueJob

\* What the loader owns is dropped with it; what it borrowed stays.
Returns ==
    /\ live' = live \ {"loader"}
    /\ IF mode = "owned" THEN QueueJob ELSE UNCHANGED job

Connect ==
    /\ call = "connecting" /\ svc = "up"
    /\ call' = "returned"
    /\ task' = "requesting"
    /\ Returns
    /\ UNCHANGED <<config, server, link, hand, chan, rx, received>>

\* `.expect("Failed to connect to service")`: unwinding drops the loader as well.
ConnectPanics ==
    /\ call = "connecting" /\ svc # "up"
    /\ call' = "panicked"
    /\ rx' = "dropped"
    /\ Returns
    /\ UNCHANGED <<config, server, link, task, hand, chan, received>>

\* The borrow ends with into_stream: the stream does not keep the executor.
DropExecutor ==
    /\ "user" \in live
    /\ mode = "borrowed" => call # "connecting"
    /\ live' = live \ {"user"}
    /\ QueueJob
    /\ UNCHANGED <<config, call, server, link, client>>

-----------------------------------------------------------------------------
(* Shutdown of the container, and the service's reaction.                  *)

\* What had not left the connection is lost with it.
CutOff ==
    /\ svc' = "down"
    /\ \E n \in 0 .. Len(wire) :
          /\ wire' = SubSeq(wire, 1, n)
          /\ rpc' = IF rpc = "open" \/ (rpc = "ended" /\ n < Len(wire))
                    THEN "broken" ELSE rpc
    /\ UNCHANGED sent

KillContainer ==
    /\ job = "queued"
    /\ job' = "killed"
    /\ svc' = IF svc = "up" THEN "draining" ELSE svc
    /\ UNCHANGED <<config, live, call, crashed, link, client>>

\* Forced: it does not wait for the service to drain.
RemoveContainer ==
    /\ job = "killed"
    /\ job' = "done"
    /\ CutOff
    /\ UNCHANGED <<config, live, call, crashed, client>>

\* serve_with_shutdown lets the responses it is streaming finish.
DrainEnds ==
    /\ svc = "draining" /\ rpc # "open"
    /\ svc' = "down"
    /\ UNCHANGED <<crashed, host, link, client>>

Crash ==
    /\ svc # "down" /\ crashed = "no"
    /\ crashed' = "yes"
    /\ CutOff
    /\ UNCHANGED <<host, client>>

-----------------------------------------------------------------------------
(* load_files of the service.                                              *)

Serve ==
    /\ rpc = "open" /\ sent < Files /\ Len(wire) < WireCap
    /\ wire' = Append(wire, sent + 1)
    /\ sent' = sent + 1
    /\ UNCHANGED <<host, server, client, rpc>>

\* A file that cannot be read ends the response with an error status.
ServeError ==
    /\ rpc = "open" /\ sent < Files
    /\ rpc' = "broken"
    /\ crashed' = "yes"
    /\ UNCHANGED <<host, svc, client, wire, sent>>

ServeEnd ==
    /\ rpc = "open" /\ sent = Files
    /\ rpc' = "ended"
    /\ UNCHANGED <<host, server, client, wire, sent>>

-----------------------------------------------------------------------------
(* The spawned task.                                                       *)

Request ==
    /\ task = "requesting" /\ svc = "up"
    /\ rpc' = "open"
    /\ task' = "reading"
    /\ UNCHANGED <<host, server, wire, sent, hand, chan, rx, received>>

\* Mutant of RequestFails: the request is repeated until the service is back.
RequestRepeated ==
    /\ task = "requesting" /\ svc # "up"
    /\ UNCHANGED vars

\* Only logged: the channel closes and the caller sees an empty stream end.
RequestFails ==
    /\ task = "requesting" /\ svc # "up"
    /\ task' = "done"
    /\ UNCHANGED <<host, server, link, hand, chan, rx, received>>

Read ==
    /\ task = "reading" /\ wire # <<>>
    /\ hand' = Head(wire)
    /\ wire' = Tail(wire)
    /\ task' = "sending"
    /\ UNCHANGED <<host, server, rpc, sent, chan, rx, received>>

\* The error is an item; the stream is over after it.
ReadError ==
    /\ task = "reading" /\ wire = <<>> /\ rpc = "broken"
    /\ hand' = Err
    /\ rpc' = "closed"
    /\ task' = "sending"
    /\ UNCHANGED <<host, server, wire, sent, chan, rx, received>>

ReadEnd ==
    /\ task = "reading" /\ wire = <<>> /\ rpc \in {"ended", "closed"}
    /\ task' = "done"
    /\ UNCHANGED <<host, server, link, hand, chan, rx, received>>

\* Mutants of Send: a file is given up when the channel is full; the channel has no
\* bound.
TrySend ==
    /\ task = "sending" /\ rx # "dropped"
    /\ chan' = IF Len(chan) < Cap THEN Append(chan, hand) ELSE chan
    /\ task' = "reading"
    /\ UNCHANGED <<host, server, link, hand, rx, received>>
SendUnbounded ==
    /\ task = "sending" /\ rx # "dropped"
    /\ chan' = Append(chan, hand)
    /\ task' = "reading"
    /\ UNCHANGED <<host, server, link, hand, rx, received>>

Send ==
    /\ task = "sending" /\ rx # "dropped" /\ Len(chan) < Cap
    /\ chan' = Append(chan, hand)
    /\ task' = "reading"
    /\ UNCHANGED <<host, server, link, hand, rx, received>>

SendFails ==
    /\ task = "sending" /\ rx = "dropped"
    /\ task' = "done"
    /\ UNCHANGED <<host, server, link, hand, chan, rx, received>>

-----------------------------------------------------------------------------
(* The caller's end of the stream.                                         *)

Receive ==
    /\ rx = "open" /\ chan # <<>>
    /\ received' = Append(received, Head(chan))
    /\ chan' = Tail(chan)
    /\ UNCHANGED <<host, server, link, task, hand, rx>>

ReceiveEnd ==
    /\ rx = "open" /\ chan = <<>> /\ task = "done"
    /\ rx' = "ended"
    /\ UNCHANGED <<host, server, link, task, hand, chan, received>>

DropStream ==
    /\ rx = "open" /\ call = "returned"
    /\ rx' = "dropped"
    /\ chan' = <<>>
    /\ UNCHANGED <<host, server, link, task, hand, received>>

Task    == Request \/ RequestFails \/ Read \/ ReadError \/ ReadEnd \/ Send \/ SendFails
Service == Serve \/ ServeError \/ ServeEnd \/ DrainEnds
Caller  == Receive \/ ReceiveEnd

Next ==
    \/ Connect \/ ConnectPanics \/ DropExecutor \/ KillContainer \/ RemoveContainer
    \/ Crash \/ Service \/ Task \/ Caller \/ DropStream

Spec == Init /\ [][Next]_vars

\* The task and the service are scheduled and the caller polls. Whether and when
\* the shutdown job runs is not needed for the stream to end.
FairSpec == Spec /\ WF_vars(Task) /\ WF_vars(Service) /\ WF_vars(Caller)

-----------------------------------------------------------------------------
Whole      == received = [i \in 1 .. Files |-> i]
EndsInErr  == received # <<>> /\ received[Len(received)] = Err

\* What the caller sees of it. A request that is refused is only logged.
Stream == INSTANCE ItemStream WITH
    total  <- Files,
    source <- "finished",
    cut    <- IF task = "done" /\ rpc = "none" THEN "yes" ELSE "no"

\* The service, the connection, the task and its channel are a stream of the files: no
\* step of theirs, and none of the shutdown beside them, makes the caller see a file out
\* of its place, anything after an error, or an end that hides missing files of a
\* request the service accepted.
ImplementsStream == Stream!Spec

\* No file is lost in the middle, doubled or moved; an error can only be last.
InOrder ==
    \A i \in 1 .. Len(received) :
        received[i] = i \/ (received[i] = Err /\ i = Len(received))

\* Once the service has accepted the request, a stream that is cut short says so.
CutIsReported ==
    rx = "ended" /\ rpc # "none" => Whole \/ EndsInErr

\* A borrowed executor that its user keeps keeps the container: whatever is short
\* then, is short because the service failed (CHANGELOG 0.11.0, "Avoid accidental
\* cleanup if executor is still used after file loader").
BorrowedIsSafe ==
    (mode = "borrowed" /\ "user" \in live) => job = "idle" /\ (svc = "up" \/ crashed = "yes")

\* A caller that polls reaches the end of the stream, also when the container is
\* removed under the task.
StreamEnds == call = "returned" ~> rx \in {"ended", "dropped"}

\* tests.rs, test_loading_files: an owned loader's stream yields the files, no
\* error, and is not empty. Nothing is asked of a service that fails by itself.
LoadsFiles ==
    (rx = "ended" /\ crashed = "no") => received # <<>> /\ ~EndsInErr
=============================================================================
