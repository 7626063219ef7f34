----------------------------- MODULE ExecCommand -----------------------------
(***************************************************************************)
(* Commands of one executor, called concurrently: `exec_cmd` on the host,  *)
(* up to three requests per call, each as ShellRequest has it, and the     *)
(* file in the container that the commands are about.                      *)
(*                                                                         *)
(* All calls use the same path. Reading a file is a shell command like any *)
(* other (`cat`).                                                          *)
(***************************************************************************)

CONSTANTS
    Calls,
    Users,     \* the calls that may run a command of the user; all may write files
    Settings   \* a default_timeout, a profile, and whether the directory exists

ASSUME CallsAssumption ==
    /\ Calls \cap {"absent", "empty", "garbled"} = {}
    /\ Settings \subseteq {"none", "some"} \X {"plain", "noisy", "foreign"} \X {"absent", "present"}

VARIABLES
    default,   \* the executor's default_timeout
    profile,   \* what a command prints besides its own message: another language, noise
    kind,      \* the Command of a call
    limit,     \* the time-out of a call: its Command's, or the default
    cmd,       \* the command the call has sent last
    req,       \* its request
    proc,      \* its process
    result,    \* what the call returned
    dir,       \* the parent directory of the path
    file,      \* the file: whose content it has
    clean,     \* whether the others left it alone since the call last opened it
    made       \* history: what became of the directory a call's mkdir made

callVars == <<kind, limit, cmd, req, proc, result>>
fileVars == <<dir, file, clean, made>>
vars     == <<default, profile, callVars, fileVars>>

Shell == INSTANCE ShellRequest WITH request <- req

Active == {"begun", "opened", "unlinked"}
Over   == {"done", "missing", "failed"}

Kinds  == {"write", "shell", "background"}

TypeOK ==
    /\ default \in {"none", "some"}
    /\ profile \in {"plain", "noisy", "foreign"}
    /\ kind \in [Calls -> {"none"} \cup Kinds]
    /\ limit \in [Calls -> {"none", "some"}]
    /\ cmd \in [Calls -> {"none", "cat", "mkdir", "again", "user"}]
    /\ req \in [Calls -> Shell!Requests]
    /\ proc \in [Calls -> {"none"} \cup Active \cup Over]
    /\ result \in [Calls -> {"none", "Ok", "NonZeroExit", "TimedOut", "ExecutorError",
                             "unanswered"}]
    /\ dir \in {"absent", "present"}
    /\ file \in {"absent", "empty", "garbled"} \cup Calls
    /\ clean \in [Calls -> {"yes", "no"}]
    /\ made \in [Calls -> {"no", "there", "removed"}]

Init ==
    /\ \E set \in Settings : default = set[1] /\ profile = set[2] /\ dir = set[3]
    /\ kind = [c \in Calls |-> "none"]
    /\ limit = [c \in Calls |-> "none"]
    /\ cmd = [c \in Calls |-> "none"]
    /\ req = [c \in Calls |-> Shell!New("none")]
    /\ proc = [c \in Calls |-> "none"]
    /\ result = [c \in Calls |-> "none"]
    /\ file = "absent"
    /\ clean = [c \in Calls |-> "yes"]
    /\ made = [c \in Calls |-> "no"]

-----------------------------------------------------------------------------
(* The host.                                                               *)

Waits(c) == cmd[c] # "none" /\ result[c] = "none"

\* Mutant of Resolve: the default is forgotten.
OwnOnly(t) == t
Resolve(t) == IF t = "some" THEN "some" ELSE default

Ask(c, command, t) ==
    /\ cmd' = [cmd EXCEPT ![c] = command]
    /\ req' = [req EXCEPT ![c] = Shell!New(t)]
    /\ proc' = [proc EXCEPT ![c] = "none"]

Call(c) ==
    /\ cmd[c] = "none"
    /\ \E k \in IF c \in Users THEN Kinds ELSE {"write"}, t \in {"none", "some"} :
          /\ kind' = [kind EXCEPT ![c] = k]
          /\ limit' = [limit EXCEPT ![c] = Resolve(t)]
          /\ Ask(c, IF k = "write" THEN "cat" ELSE "user", Resolve(t))
    /\ UNCHANGED <<default, profile, result, fileVars>>

Return(c, r) ==
    /\ result' = [result EXCEPT ![c] = r]
    /\ UNCHANGED <<default, profile, kind, limit, cmd, req, proc, fileVars>>

\* Mutant of Outcome: a status that is not DeadlineExceeded is handed on as it is.
OutcomeRaw(c) ==
    CASE req[c].answer = "started"  -> "Ok"
      [] req[c].answer = "exit"     -> IF proc[c] = "done" THEN "Ok" ELSE "NonZeroExit"
      [] req[c].answer = "timedout" -> "TimedOut"
      [] OTHER                      -> "error"

\* The mapping of a response or a status to the result of exec_shell.
Outcome(c) ==
    CASE req[c].answer = "started"  -> "Ok"
      [] req[c].answer = "exit"     -> IF proc[c] = "done" THEN "Ok" ELSE "NonZeroExit"
      [] req[c].answer = "timedout" /\ req[c].limit = "some" -> "TimedOut"
      [] OTHER                      -> "ExecutorError"

\* Mutant of Recognised: standard error, where the message is, is not looked at.
RecognisedInStdout(c) == profile = "noisy"

\* Whether the output of a failed command says that the path is missing: in its own
\* message, if that is in English, or in what a login profile prints.
Recognised(c) == profile = "noisy" \/ (profile = "plain" /\ proc[c] = "missing")

Answered(c) == Waits(c) /\ req[c].phase = "answered"

Missing(c) == cmd[c] = "cat" /\ Outcome(c) = "NonZeroExit" /\ Recognised(c)

ReceiveMissing(c) ==
    /\ Answered(c) /\ Missing(c)
    /\ Ask(c, "mkdir", limit[c])
    /\ UNCHANGED <<default, profile, kind, limit, result, fileVars>>

\* Mutant of ReceiveMade: the directory's result is returned for the file's.
MadeReturned(c) ==
    /\ Answered(c) /\ cmd[c] = "mkdir" /\ Outcome(c) = "Ok"
    /\ Return(c, Outcome(c))

ReceiveMade(c) ==
    /\ Answered(c) /\ cmd[c] = "mkdir" /\ Outcome(c) = "Ok"
    /\ Ask(c, "again", limit[c])
    /\ UNCHANGED <<default, profile, kind, limit, result, fileVars>>

ReceiveLast(c) ==
    /\ Answered(c) /\ ~Missing(c)
    /\ cmd[c] = "mkdir" => Outcome(c) # "Ok"
    /\ Return(c, Outcome(c))

\* connect() fails, the connection breaks before the answer has come, or the caller
\* drops the future: an ExecutorError, or nothing at all. The service may still get
\* the request, or be working on it.
GiveUp(c) == Waits(c) /\ Return(c, "unanswered")

Receive(c) == ReceiveMissing(c) \/ ReceiveMade(c) \/ ReceiveLast(c)

-----------------------------------------------------------------------------
(* The service: ShellRequest, which ExecShell implements.                  *)

Begin(c) ==
    /\ cmd[c] # "none"
    /\ \E s \in IF kind[c] = "background" THEN Shell!Detach(req[c]) ELSE Shell!Start(req[c]) :
          req' = [req EXCEPT ![c] = s]
    /\ proc' = [proc EXCEPT ![c] = "begun"]
    /\ UNCHANGED <<default, profile, kind, limit, cmd, result, fileVars>>

Gone(c) == result[c] = "unanswered"

Becomes(c, s) ==
    /\ req' = [req EXCEPT ![c] = s]
    /\ UNCHANGED <<default, profile, kind, limit, cmd, proc, result, fileVars>>

Refuse(c) ==
    /\ cmd[c] # "none"
    /\ \E s \in Shell!Refuse(req[c]) : Becomes(c, s)

\* To a caller that is gone, an answer is an abandonment.
Conclude(c) ==
    /\ result[c] = "none"
    /\ \E s \in Shell!Exit(req[c]) \cup Shell!TimeOut(req[c]) : Becomes(c, s)

Fail(c) == result[c] = "none" /\ \E s \in Shell!Fail(req[c]) : Becomes(c, s)

\* tonic drops the handler of a caller that is gone.
Abandon(c) ==
    /\ Gone(c)
    /\ \E s \in Shell!Abandon(req[c]) : Becomes(c, s)

-----------------------------------------------------------------------------
(* The processes.                                                          *)

\* How the process of a caller that is gone ended is not kept.
End(c, how) ==
    /\ proc' = [proc EXCEPT ![c] = IF Gone(c) THEN "done" ELSE how]
    /\ \E s \in Shell!Settle(req[c]) : req' = [req EXCEPT ![c] = s]
    /\ UNCHANGED <<default, profile, kind, limit, cmd, result>>

\* Who has opened the file, and has not failed, cannot rely on it any more, but for x.
Relies(c) ==
    /\ cmd[c] \in {"cat", "again"} /\ proc[c] \in {"opened", "unlinked", "done"}
    /\ result[c] \in {"none", "Ok"}

Touch(x) == clean' = [c \in Calls |-> IF c # x /\ Relies(c) THEN "no" ELSE clean[c]]

\* `cat << 'EOF' > path`: the shell opens and empties the file, then cat fills it.
Open(c) ==
    /\ cmd[c] \in {"cat", "again"} /\ proc[c] = "begun"
    /\ dir = "present"
    /\ file' = "empty"
    /\ clean' = [x \in Calls |-> IF x = c THEN "yes" ELSE IF Relies(x) THEN "no" ELSE clean[x]]
    /\ proc' = [proc EXCEPT ![c] = "opened"]
    /\ UNCHANGED <<default, profile, kind, limit, cmd, req, result, dir, made>>

OpenMissing(c) ==
    /\ cmd[c] \in {"cat", "again"} /\ proc[c] = "begun"
    /\ dir = "absent"
    /\ End(c, "missing")
    /\ UNCHANGED fileVars

Fill(c) ==
    /\ proc[c] = "opened"
    /\ file' \in IF file = "empty" THEN {c} ELSE {c, "garbled"}
    /\ Touch(c)
    /\ End(c, "done")
    /\ UNCHANGED <<dir, made>>

FillUnlinked(c) == proc[c] = "unlinked" /\ End(c, "done") /\ UNCHANGED fileVars

Mkdir(c) ==
    /\ cmd[c] = "mkdir" /\ proc[c] = "begun"
    /\ dir' = "present"
    /\ End(c, "done")
    /\ made' = [made EXCEPT ![c] = "there"]
    /\ UNCHANGED <<file, clean>>

\* A user's command may remove the file, or its directory with it.
Remove(c) ==
    /\ cmd[c] = "user" /\ proc[c] = "begun"
    /\ file' = "absent"
    /\ \/ UNCHANGED <<dir, made>>
       \/ /\ dir' = "absent"
          /\ made' = [x \in Calls |-> IF made[x] = "there" THEN "removed" ELSE made[x]]
    /\ Touch(c)
    /\ proc' = [x \in Calls |-> IF proc[x] = "opened" THEN "unlinked" ELSE proc[x]]
    /\ UNCHANGED <<default, profile, kind, limit, cmd, req, result>>

UserEnds(c) ==
    /\ cmd[c] = "user" /\ proc[c] = "begun"
    /\ End(c, "done")
    /\ UNCHANGED fileVars

\* It may fail, or be killed, at any point: what cat has written so far stays.
Fails(c) ==
    /\ proc[c] \in Active
    /\ End(c, "failed")
    /\ \/ UNCHANGED fileVars
       \/ /\ proc[c] = "opened" /\ file' = "garbled"
          /\ Touch(c)
          /\ UNCHANGED <<dir, made>>

Process(c) ==
    \/ Open(c) \/ OpenMissing(c) \/ Fill(c) \/ FillUnlinked(c) \/ Mkdir(c)
    \/ Remove(c) \/ UserEnds(c) \/ Fails(c)

Next ==
    \E c \in Calls :
        \/ Call(c) \/ Receive(c) \/ GiveUp(c)
        \/ Begin(c) \/ Refuse(c) \/ Conclude(c) \/ Fail(c) \/ Abandon(c)
        \/ Process(c)

Spec == Init /\ [][Next]_vars

\* The host polls the call, and the service serves the request and answers once its
\* processes are quiet (AnswersPromptly of ExecShell). No command is trusted to end.
Fairness ==
    \A c \in Calls : WF_vars(Receive(c)) /\ WF_vars(Begin(c)) /\ WF_vars(Conclude(c))

FairSpec == Spec /\ Fairness

\* A premise, and no promise of the service: what a request that runs beyond its
\* limit waits for ends. The service sends SIGKILL to the direct child only, and then
\* waits for it and for whoever holds its pipes (TimeoutAnswers of ExecShell).
DiesAtLimit(c) == req[c].limit = "some" /\ req[c].phase = "running" /\ Fails(c)

Tidy == \A c \in Calls : WF_vars(DiesAtLimit(c))

-----------------------------------------------------------------------------
(* Properties.                                                             *)

\* A write that returned Ok is in the file, unless a later command of another call
\* changed the file, however often the first attempts failed.
WriteLands ==
    \A c \in Calls :
        kind[c] = "write" /\ result[c] = "Ok" /\ clean[c] = "yes" => file = c

\* When a write returns with an answer of the service, Ok, failed or timed out, no
\* process of it goes on: what the caller does next cannot be overtaken by it. It
\* is not so for a call that was given up.
ReturnIsFinal ==
    \A c \in Calls :
        kind[c] = "write" /\ result[c] \in {"Ok", "NonZeroExit", "TimedOut"}
            => proc[c] \in Over

\* With messages in English, a write fails for want of a directory only if another
\* command removed the directory after the write had made it.
MissingMeansRemoved ==
    \A c \in Calls :
        /\ kind[c] = "write" /\ result[c] = "NonZeroExit"
        /\ proc[c] = "missing" /\ profile # "foreign"
        => made[c] = "removed"

\* A call with a time-out of its own, or an executor's default, returns if the
\* processes of a command beyond its limit end, however long they would have run
\* without it: the limit of the call reaches each of its requests.
LimitedCallReturns ==
    Tidy => \A c \in Calls :
        (cmd[c] # "none" /\ (limit[c] = "some" \/ default = "some")) ~> result[c] # "none"
=============================================================================
