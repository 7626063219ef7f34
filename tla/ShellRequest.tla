---------------------------- MODULE ShellRequest ----------------------------
(***************************************************************************)
(* What the shell service promises of one request, whatever the command    *)
(* does: the interface of ExecShell towards the client (ExecCommand).      *)
(*                                                                         *)
(* `procs` are the processes of the command the answer waits for: the      *)
(* direct child, and whoever holds a pipe that is still read.              *)
(***************************************************************************)

VARIABLE request

Requests ==
    [limit  : {"none", "some"},
     phase  : {"new", "running", "answered", "abandoned"},
     procs  : {"none", "active", "quiet"},
     answer : {"none", "started", "exit", "timedout", "error"}]

Known(lim, ph, pr, a) == [limit |-> lim, phase |-> ph, procs |-> pr, answer |-> a]

New(lim) == Known(lim, "new", "none", "none")

-----------------------------------------------------------------------------
(* What request r may become, by each of the service's steps.              *)

Start(r) == {s \in {Known(r.limit, "running", "active", "none")} : r.phase = "new"}

\* A background command is answered at once, and goes on.
Detach(r) == {s \in {Known(r.limit, "answered", "active", "started")} : r.phase = "new"}

Reply(r, a) == Known(r.limit, "answered", r.procs, a)

Refuse(r) == {s \in {Reply(r, "error")} : r.phase = "new"}

Settle(r) ==
    {s \in {Known(r.limit, r.phase, "quiet", r.answer)} : r.procs = "active"}

\* Mutant of Settled: the answer does not wait for anybody.
Unsettled(r) == r.procs \in {"active", "quiet"}
Settled(r)   == r.procs = "quiet"

Exit(r) == {s \in {Reply(r, "exit")} : r.phase = "running" /\ Settled(r)}

TimeOut(r) ==
    {s \in {Reply(r, "timedout")} :
        r.phase = "running" /\ Settled(r) /\ r.limit = "some"}

\* Nothing is known about the command of a request that failed or was given up.
Fail(r) == {s \in {Reply(r, "error")} : r.phase = "running"}

Abandon(r) ==
    {s \in {Known(r.limit, "abandoned", r.procs, r.answer)} : r.phase = "running"}

Steps(r) ==
    Start(r) \cup Refuse(r) \cup Detach(r) \cup Settle(r)
        \cup Exit(r) \cup TimeOut(r) \cup Fail(r) \cup Abandon(r)

-----------------------------------------------------------------------------
Init == request \in {New("none"), New("some")}
Next == request' \in Steps(request)
Spec == Init /\ [][Next]_request

\* Once the processes are quiet, an answer comes.
Prompt ==
    (request.phase = "running" /\ request.procs = "quiet") ~> request.phase # "running"
=============================================================================
