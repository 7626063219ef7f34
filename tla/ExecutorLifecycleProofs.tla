----------------------- MODULE ExecutorLifecycleProofs -----------------------
(***************************************************************************)
(* What ExecutorLifecycle guarantees for every number of starts and of     *)
(* copies. None of the safety properties is inductive by itself: each one  *)
(* needs to know which stage of start() goes with which container state    *)
(* and that a run of shutdown() belongs to a value that exists.            *)
(***************************************************************************)
EXTENDS ExecutorLifecycle, TLAPS

\* start() past the point where the executor value exists.
Built(s) == \/ pc[s] \in {"cleanup", "ok"}
            \/ pc[s] = "failed" /\ failedAt[s] = "cleanup"

\* The container has not been started as long as start() has not asked for it, and
\* has been from then on.
EarlyStages ==
    \A s \in Starts :
        /\ pc[s] \in {"prepare", "create"} => container[s] = "none"
        /\ pc[s] = "start" => container[s] = "created"
        /\ (pc[s] = "failed" /\ failedAt[s] \in {"prepare", "create"})
              => container[s] \in {"none", "created"}
        /\ pc[s] = "failed" => failedAt[s] # "none"
        /\ pc[s] \in {"wait", "inspect"} \/ Built(s)
              => container[s] \notin {"none", "created"}

\* Values exist exactly from the construction on, the first one included.
ValuesWhenBuilt ==
    /\ \A h \in Handles : handle[h] # "free" => Built(StartOf(h))
    /\ \A s \in Starts : Built(s) => handle[First(s)] # "free"
    /\ \A s \in Starts : pc[s] = "cleanup" => handle[First(s)] = "live"

\* A run of shutdown() belongs to a value that exists; the values that have a job
\* are exactly the unretained ones that were dropped.
RunsHaveValues ==
    /\ \A r \in Runs : sd[r] # "idle" => handle[r[1]] # "free"
    /\ \A h \in Handles :
          handle[h] = "dropped" /\ ~config[StartOf(h)].retain => sd[Job(h)] # "idle"
    /\ \A h \in Handles : handle[h] = "live" => sd[Job(h)] = "idle"
    /\ \A h \in Handles : sd[Job(h)] # "idle" => ~config[StartOf(h)].retain
    /\ \A h \in Handles : sd[Job(h)] # "abandoned"
    /\ \A r \in Runs : sd[r] = "lost" => runtime = "down"

IInv ==
    /\ TypeOK
    /\ EarlyStages
    /\ ValuesWhenBuilt
    /\ RunsHaveValues
    /\ ShutdownOutcome

-----------------------------------------------------------------------------
LEMMA RunTypes ==
    /\ \A h \in Handles : Call(h) \in Runs /\ Job(h) \in Runs /\ StartOf(h) \in Starts
    /\ \A r \in Runs : r[1] \in Handles /\ StartOf(r[1]) \in Starts
                       /\ r \in {Call(r[1]), Job(r[1])}
    /\ \A s \in Starts : First(s) \in Handles /\ StartOf(First(s)) = s
    /\ \A h \in Handles : Call(h)[1] = h /\ Job(h)[1] = h /\ Call(h) # Job(h)
BY MaxCopiesAssumption DEF Handles, Runs, Call, Job, First, StartOf

LEMMA InitInv == Init => IInv
BY RunTypes DEF Init, IInv, TypeOK, Stages, RunState, Pending, ContainerState,
    EarlyStages, ValuesWhenBuilt, RunsHaveValues, ShutdownOutcome, Built

\* How the daemon answers a call: "ok" means that it was admitted and took effect,
\* "refused" that it was not admitted and changed nothing.
LEMMA AnswerFacts ==
    ASSUME NEW c, NEW admitted, NEW new, NEW a \in Answers(c, admitted, new)
    PROVE  /\ a.result \in {"ok", "refused", "fault"}
           /\ a.state = c \/ (a.state = new /\ c \in admitted)
           /\ a.result = "ok" => a.state = new /\ c \in admitted
           /\ a.result = "refused" => a.state = c /\ c \notin admitted
BY DEF Answers, Accept, Refuse, Faults

LEMMA KillInv ==
    ASSUME IInv, NEW r \in Runs, Kill(r)
    PROVE  IInv'
<1> DEFINE s == StartOf(r[1])
<1>1. PICK a \in DaemonKill(container[s]) :
          /\ Take(s, a)
          /\ sd' = [sd EXCEPT ![r] = IF a.result = "ok" THEN "remove" ELSE Settle(r, "failed")]
  BY DEF Kill
<1>2. /\ s \in Starts /\ r[1] \in Handles
      /\ container[s] \in ContainerState
  BY RunTypes DEF IInv, TypeOK
<1>3. /\ a.result \in {"ok", "refused", "fault"}
      /\ a.state = container[s] \/ (a.state = "stopping" /\ container[s] \in Active)
      /\ a.result = "refused" => container[s] \notin Active /\ a.state = container[s]
  BY AnswerFacts DEF DaemonKill, Active, Accept, Refuse, Faults
<1>4. Settle(r, "failed") = "failed"
  BY DEF Settle, JobCopy
<1>10. Built(s)
  BY <1>2 DEF IInv, ValuesWhenBuilt, RunsHaveValues, Kill
<1>5. TypeOK'
  BY <1>1, <1>2, <1>3, <1>4 DEF Kill, IInv, TypeOK, Take, RunState, Pending,
     ContainerState, Active
<1>6. EarlyStages'
  BY <1>1, <1>2, <1>3, <1>10 DEF Kill, IInv, TypeOK, Take, EarlyStages, Active, Built
<1>7. ValuesWhenBuilt'
  BY DEF Kill, IInv, ValuesWhenBuilt, Built
<1>8. RunsHaveValues'
  BY <1>1, <1>2, <1>4, RunTypes DEF Kill, IInv, TypeOK, RunsHaveValues
<1>11. container[s] \notin {"none", "created"}
  BY <1>2, <1>10 DEF IInv, EarlyStages
<1>9. ShutdownOutcome'
  <2> SUFFICES ASSUME NEW q \in Runs
               PROVE  /\ sd'[q] = "ok" => container'[StartOf(q[1])] = "removed"
                      /\ sd'[q] = "failed" =>
                            \/ container'[StartOf(q[1])] \in {"removing", "exited", "removed"}
                            \/ StartOf(q[1]) \in faulted'
    BY DEF ShutdownOutcome
  <2>1. CASE q = r
    BY <1>1, <1>2, <1>3, <1>4, <1>11, <2>1 DEF IInv, TypeOK, ContainerState, Active,
       Take
  <2>2. CASE q # r
    BY <1>1, <1>2, <1>3, <2>2, RunTypes DEF IInv, TypeOK, ShutdownOutcome, Take, Active
  <2> QED BY <2>1, <2>2
<1> QED BY <1>5, <1>6, <1>7, <1>8, <1>9 DEF IInv

LEMMA RunJobInv ==
    ASSUME IInv, NEW h \in Handles, RunJob(h)
    PROVE  IInv'
<1>1. TypeOK'
  BY RunTypes DEF IInv, RunJob, BeginShutdown, Job, Up, TypeOK, RunState, Pending,
     Stages, ContainerState
<1>2. EarlyStages'
  BY RunTypes DEF IInv, RunJob, BeginShutdown, Job, Up, TypeOK, EarlyStages, Built, Stages
<1>3. ValuesWhenBuilt'
  BY RunTypes DEF IInv, RunJob, BeginShutdown, Job, Up, TypeOK, ValuesWhenBuilt,
     Built, Stages
<1>4. RunsHaveValues'
  BY RunTypes DEF IInv, RunJob, BeginShutdown, Job, Up, TypeOK, RunsHaveValues
<1>5. ShutdownOutcome'
  BY RunTypes DEF IInv, RunJob, BeginShutdown, Job, Up, TypeOK, ShutdownOutcome,
     Active
<1> QED BY <1>1, <1>2, <1>3, <1>4, <1>5 DEF IInv

LEMMA CallShutdownInv ==
    ASSUME IInv, NEW h \in Handles, CallShutdown(h)
    PROVE  IInv'
<1>1. TypeOK'
  BY RunTypes DEF IInv, CallShutdown, BeginShutdown, InUse, Pending, TypeOK,
     RunState, Pending, Stages, ContainerState
<1>2. EarlyStages'
  BY RunTypes DEF IInv, CallShutdown, BeginShutdown, InUse, Pending, TypeOK,
     EarlyStages, Built, Stages
<1>3. ValuesWhenBuilt'
  BY RunTypes DEF IInv, CallShutdown, BeginShutdown, InUse, Pending, TypeOK,
     ValuesWhenBuilt, Built, Stages
<1>4. RunsHaveValues'
  BY RunTypes DEF IInv, CallShutdown, BeginShutdown, InUse, Pending, TypeOK,
     RunsHaveValues
<1>5. ShutdownOutcome'
  BY RunTypes DEF IInv, CallShutdown, BeginShutdown, InUse, Pending, TypeOK,
     ShutdownOutcome, Active
<1> QED BY <1>1, <1>2, <1>3, <1>4, <1>5 DEF IInv

LEMMA CloneHandleInv ==
    ASSUME IInv, NEW h \in Handles, NEW c \in Handles, CloneHandle(h, c)
    PROVE  IInv'
<1>1. TypeOK'
  BY RunTypes DEF IInv, CloneHandle, InUse, TypeOK, RunState, Pending, Stages,
     ContainerState
<1>2. EarlyStages'
  BY RunTypes DEF IInv, CloneHandle, InUse, TypeOK, EarlyStages, Built, Stages
<1>3. ValuesWhenBuilt'
  BY RunTypes DEF IInv, CloneHandle, InUse, TypeOK, ValuesWhenBuilt, Built, Stages
<1>4. RunsHaveValues'
  <2>1. sd[Job(c)] = "idle"
    BY RunTypes DEF IInv, CloneHandle, RunsHaveValues
  <2> QED BY <2>1, RunTypes DEF IInv, CloneHandle, TypeOK, RunsHaveValues
<1>5. ShutdownOutcome'
  BY RunTypes DEF IInv, CloneHandle, InUse, TypeOK, ShutdownOutcome, Active
<1> QED BY <1>1, <1>2, <1>3, <1>4, <1>5 DEF IInv

\* What a drop does to the values and their runs, as far as the types go.
LEMMA DropEffectTypes ==
    ASSUME TypeOK, NEW h \in Handles, DropEffect(h)
    PROVE  /\ handle' \in [Handles -> {"free", "live", "dropped"}]
           /\ sd' \in [Runs -> RunState]
           /\ cancelled' \subseteq Starts
<1>1. CASE config[StartOf(h)].retain
  BY <1>1 DEF DropEffect, TypeOK
<1>2. CASE ~config[StartOf(h)].retain
  <2>1. PICK q \in {"queued", "lost"} : sd' = [sd EXCEPT ![Job(h)] = q]
    BY <1>2 DEF DropEffect
  <2> QED BY <1>2, <2>1, RunTypes DEF DropEffect, TypeOK, RunState, Pending
<1> QED BY <1>1, <1>2

LEMMA DropHandleInv ==
    ASSUME IInv, NEW h \in Handles, DropHandle(h)
    PROVE  IInv'
<1>1. TypeOK'
  BY DropEffectTypes DEF IInv, DropHandle, TypeOK
<1>2. EarlyStages'
  BY RunTypes DEF IInv, DropHandle, DropEffect, Up, TypeOK, EarlyStages, Built, Stages
<1>3. ValuesWhenBuilt'
  BY RunTypes DEF IInv, DropHandle, DropEffect, Up, TypeOK, ValuesWhenBuilt,
     Built, Stages
<1>4. RunsHaveValues'
  <2>1. /\ handle' = [handle EXCEPT ![h] = "dropped"] /\ handle[h] = "live"
        /\ UNCHANGED <<config, runtime>>
    BY DEF DropHandle, DropEffect
  <2>2. CASE config[StartOf(h)].retain
    BY <2>1, <2>2, RunTypes DEF IInv, DropHandle, DropEffect, TypeOK, RunsHaveValues
  <2>3. CASE ~config[StartOf(h)].retain
    <3>1. PICK q \in {"queued", "lost"} :
              sd' = [sd EXCEPT ![Job(h)] = q] /\ (q = "lost" => runtime = "down")
      BY <2>3 DEF DropHandle, DropEffect, Up, IInv, TypeOK
    <3>2. \A r \in Runs : sd'[r] = IF r = Job(h) THEN q ELSE sd[r]
      BY <3>1 DEF IInv, TypeOK
    <3>3. \A g \in Handles : handle'[g] = IF g = h THEN "dropped" ELSE handle[g]
      BY <2>1 DEF IInv, TypeOK
    <3>4. \A g \in Handles : Job(g) = Job(h) => g = h
      BY RunTypes
    <3> QED BY <2>1, <2>3, <3>1, <3>2, <3>3, <3>4, RunTypes DEF IInv, RunsHaveValues
  <2> QED BY <2>2, <2>3
<1>5. ShutdownOutcome'
  BY RunTypes DEF IInv, DropHandle, DropEffect, Up, TypeOK, ShutdownOutcome, Active
<1> QED BY <1>1, <1>2, <1>3, <1>4, <1>5 DEF IInv

LEMMA ConstructInv ==
    ASSUME IInv, NEW s \in Starts, Construct(s)
    PROVE  IInv'
<1>1. TypeOK'
  BY RunTypes DEF IInv, Construct, At, Goto, KeepContainer, TypeOK, RunState,
     Pending, Stages, ContainerState
<1>2. EarlyStages'
  BY RunTypes DEF IInv, Construct, At, Goto, KeepContainer, TypeOK, EarlyStages, Built,
     Stages
<1>3. ValuesWhenBuilt'
  BY RunTypes DEF IInv, Construct, At, Goto, KeepContainer, TypeOK,
     ValuesWhenBuilt, Built, Stages
<1>4. RunsHaveValues'
  <2>1. handle[First(s)] = "free"
    BY RunTypes DEF IInv, Construct, At, ValuesWhenBuilt, Built
  <2>2. sd[Job(First(s))] = "idle"
    BY <2>1, RunTypes DEF IInv, RunsHaveValues
  <2> QED BY <2>2, RunTypes DEF IInv, Construct, Goto, TypeOK, RunsHaveValues
<1>5. ShutdownOutcome'
  BY RunTypes DEF IInv, Construct, At, Goto, KeepContainer, TypeOK,
     ShutdownOutcome, Active
<1> QED BY <1>1, <1>2, <1>3, <1>4, <1>5 DEF IInv

LEMMA CleanupInv ==
    ASSUME IInv, NEW s \in Starts, Cleanup(s)
    PROVE  IInv'
<1>1. TypeOK'
  BY RunTypes DEF IInv, Cleanup, At, Goto, KeepHandles, KeepContainer, TypeOK,
     RunState, Pending, Stages, ContainerState
<1>2. EarlyStages'
  BY RunTypes DEF IInv, Cleanup, At, Goto, KeepHandles, KeepContainer, TypeOK,
     EarlyStages, Built, Stages
<1>3. ValuesWhenBuilt'
  BY RunTypes DEF IInv, Cleanup, At, Goto, KeepHandles, KeepContainer, TypeOK,
     ValuesWhenBuilt, Built, Stages
<1>4. RunsHaveValues'
  BY RunTypes DEF IInv, Cleanup, At, Goto, KeepHandles, KeepContainer, TypeOK,
     RunsHaveValues
<1>5. ShutdownOutcome'
  BY RunTypes DEF IInv, Cleanup, At, Goto, KeepHandles, KeepContainer, TypeOK,
     ShutdownOutcome, Active
<1> QED BY <1>1, <1>2, <1>3, <1>4, <1>5 DEF IInv

LEMMA LeaveCleanupInv ==
    ASSUME IInv, NEW s \in Starts, LeaveCleanup(s)
    PROVE  IInv'
<1>1. TypeOK'
  BY DropEffectTypes, RunTypes DEF IInv, LeaveCleanup, At, Fail, KeepContainer,
     TypeOK, Stages
<1>2. EarlyStages'
  BY RunTypes DEF IInv, LeaveCleanup, At, Fail, DropEffect, KeepContainer, Up,
     TypeOK, EarlyStages, Built, Stages
<1>3. ValuesWhenBuilt'
  BY RunTypes DEF IInv, LeaveCleanup, At, Fail, DropEffect, KeepContainer, Up,
     TypeOK, ValuesWhenBuilt, Built, Stages
<1>4. RunsHaveValues'
  BY RunTypes DEF IInv, LeaveCleanup, At, Fail, DropEffect, KeepContainer, Up,
     TypeOK, RunsHaveValues
<1>5. ShutdownOutcome'
  BY RunTypes DEF IInv, LeaveCleanup, At, Fail, DropEffect, KeepContainer, Up,
     TypeOK, ShutdownOutcome, Active
<1> QED BY <1>1, <1>2, <1>3, <1>4, <1>5 DEF IInv

LEMMA ServiceExitsInv ==
    ASSUME IInv, NEW s \in Starts, ServiceExits(s)
    PROVE  IInv'
<1>1. TypeOK'
  BY RunTypes DEF IInv, ServiceExits, Active, TypeOK, RunState, Pending, Stages,
     ContainerState
<1>2. EarlyStages'
  BY RunTypes DEF IInv, ServiceExits, Active, TypeOK, EarlyStages, Built, Stages
<1>3. ValuesWhenBuilt'
  BY RunTypes DEF IInv, ServiceExits, Active, TypeOK, ValuesWhenBuilt, Built, Stages
<1>4. RunsHaveValues'
  BY RunTypes DEF IInv, ServiceExits, Active, TypeOK, RunsHaveValues
<1>5. ShutdownOutcome'
  BY RunTypes DEF IInv, ServiceExits, Active, TypeOK, ShutdownOutcome, Active
<1> QED BY <1>1, <1>2, <1>3, <1>4, <1>5 DEF IInv

LEMMA AutoRemoveInv ==
    ASSUME IInv, NEW s \in Starts, AutoRemove(s)
    PROVE  IInv'
<1>1. TypeOK'
  BY RunTypes DEF IInv, AutoRemove, TypeOK, RunState, Pending, Stages,
     ContainerState
<1>2. EarlyStages'
  BY RunTypes DEF IInv, AutoRemove, TypeOK, EarlyStages, Built, Stages
<1>3. ValuesWhenBuilt'
  BY RunTypes DEF IInv, AutoRemove, TypeOK, ValuesWhenBuilt, Built, Stages
<1>4. RunsHaveValues'
  BY RunTypes DEF IInv, AutoRemove, TypeOK, RunsHaveValues
<1>5. ShutdownOutcome'
  BY RunTypes DEF IInv, AutoRemove, TypeOK, ShutdownOutcome, Active
<1> QED BY <1>1, <1>2, <1>3, <1>4, <1>5 DEF IInv

LEMMA RemoveInv ==
    ASSUME IInv, NEW r \in Runs, Remove(r)
    PROVE  IInv'
<1> DEFINE s == StartOf(r[1])
<1>1. PICK a \in DaemonRemove(container[s]) :
          /\ Take(s, a)
          /\ sd' = [sd EXCEPT ![r] = IF a.result = "ok" THEN "removing" ELSE Settle(r, "failed")]
  BY DEF Remove
<1>2. s \in Starts /\ r[1] \in Handles /\ container[s] \in ContainerState
  BY RunTypes DEF IInv, TypeOK
<1>3. /\ a.result \in {"ok", "refused", "fault"}
      /\ a.state = container[s]
            \/ (a.state = "removing" /\ container[s] \in {"created", "exited"} \cup Active)
      /\ a.result = "refused" => container[s] \notin Active /\ a.state = container[s]
  BY AnswerFacts DEF DaemonRemove, Active, RemoveOptions, Refuse
<1>4. Settle(r, "failed") = "failed"
  BY DEF Settle, JobCopy
<1>5. Built(s)
  BY <1>2 DEF IInv, ValuesWhenBuilt, RunsHaveValues, Remove
<1>6. container[s] \notin {"none", "created"}
  BY <1>2, <1>5 DEF IInv, EarlyStages
<1>11. TypeOK'
  BY <1>1, <1>2, <1>3, <1>4, RunTypes DEF IInv, Remove, Take, TypeOK, RunState,
     Pending, Stages, ContainerState, Active
<1>12. EarlyStages'
  BY <1>1, <1>2, <1>3, <1>5 DEF IInv, Remove, Take, TypeOK, EarlyStages, Built, Active
<1>13. ValuesWhenBuilt'
  BY <1>1, <1>2, <1>3, <1>4, RunTypes DEF IInv, Remove, Take, TypeOK,
     ValuesWhenBuilt, Built, Stages
<1>14. RunsHaveValues'
  BY <1>1, <1>2, <1>3, <1>4, RunTypes DEF IInv, Remove, Take, TypeOK, RunsHaveValues
<1>15. ShutdownOutcome'
  <2> SUFFICES ASSUME NEW q \in Runs
               PROVE  /\ sd'[q] = "ok" => container'[StartOf(q[1])] = "removed"
                      /\ sd'[q] = "failed" =>
                            \/ container'[StartOf(q[1])] \in {"removing", "exited", "removed"}
                            \/ StartOf(q[1]) \in faulted'
    BY DEF ShutdownOutcome
  <2>1. CASE q = r
    BY <1>1, <1>2, <1>3, <1>4, <1>6, <2>1 DEF IInv, TypeOK, ContainerState, Active,
       Take
  <2>2. CASE q # r
    BY <1>1, <1>2, <1>3, <2>2, RunTypes DEF IInv, TypeOK, ShutdownOutcome, Take, Active
  <2> QED BY <2>1, <2>2
<1> QED BY <1>11, <1>12, <1>13, <1>14, <1>15 DEF IInv

LEMMA RemovedInv ==
    ASSUME IInv, NEW r \in Runs, Removed(r)
    PROVE  IInv'
<1> DEFINE s == StartOf(r[1])
<1>1. PICK q \in {"ok", "failed"} :
          /\ sd' = [sd EXCEPT ![r] = q]
          /\ q = "ok" => container[s] = "removed" /\ faulted' = faulted
          /\ q = "failed" => faulted' = faulted \cup {s}
  BY DEF Removed, Settle, JobCopy
<1>2. s \in Starts /\ r[1] \in Handles
  BY RunTypes
<1>3. TypeOK'
  BY <1>1, <1>2 DEF IInv, Removed, TypeOK, RunState
<1>4. EarlyStages' /\ ValuesWhenBuilt'
  BY DEF IInv, Removed, EarlyStages, ValuesWhenBuilt, Built
<1>5. RunsHaveValues'
  BY <1>1, <1>2, RunTypes DEF IInv, Removed, TypeOK, RunsHaveValues
<1>6. ShutdownOutcome'
  BY <1>1, <1>2, RunTypes DEF IInv, Removed, TypeOK, ShutdownOutcome
<1> QED BY <1>3, <1>4, <1>5, <1>6 DEF IInv

LEMMA EndRemovalInv ==
    ASSUME IInv, NEW s \in Starts, EndRemoval(s)
    PROVE  IInv'
<1>1. PICK c \in {"removed", "stopping", "exited"} :
          /\ container' = [container EXCEPT ![s] = c]
          /\ \/ c = "removed" /\ faulted' = faulted
             \/ faulted' = faulted \cup {s}
  BY DEF EndRemoval
<1>2. container[s] = "removing" /\ container \in [Starts -> ContainerState]
  BY DEF EndRemoval, IInv, TypeOK
<1>3. TypeOK'
  BY <1>1 DEF IInv, EndRemoval, TypeOK, ContainerState
<1>4. EarlyStages'
  BY <1>1, <1>2 DEF IInv, EndRemoval, EarlyStages, Built
<1>5. ValuesWhenBuilt' /\ RunsHaveValues'
  BY DEF IInv, EndRemoval, ValuesWhenBuilt, RunsHaveValues, Built
<1>6. ShutdownOutcome'
  BY <1>1, <1>2, RunTypes DEF IInv, EndRemoval, ShutdownOutcome
<1> QED BY <1>3, <1>4, <1>5, <1>6 DEF IInv

LEMMA AbandonShutdownInv ==
    ASSUME IInv, NEW h \in Handles, AbandonShutdown(h)
    PROVE  IInv'
<1> DEFINE s == StartOf(h)
<1>2. s \in Starts /\ container[s] \in ContainerState
  BY RunTypes DEF IInv, TypeOK
<1>1. PICK c \in ContainerState :
          /\ container' = [container EXCEPT ![s] = c]
          /\ \/ c = container[s]
             \/ c = "stopping" /\ container[s] \in Active
             \/ c = "removing" /\ container[s] \in {"created", "exited"} \cup Active
          /\ faulted \subseteq faulted' /\ faulted' \subseteq Starts
  <2>1. ASSUME NEW a \in DaemonKill(container[s]) \cup DaemonRemove(container[s])
        PROVE  \/ a.state = container[s]
               \/ a.state = "stopping" /\ container[s] \in Active
               \/ a.state = "removing" /\ container[s] \in {"created", "exited"} \cup Active
    BY AnswerFacts DEF DaemonKill, DaemonRemove, Active, RemoveOptions, Accept,
       Refuse, Faults
  <2>2. CASE UNCHANGED <<container, faulted>>
    BY <1>2, <2>2 DEF IInv, TypeOK
  <2>3. CASE \E a \in DaemonKill(container[s]) \cup DaemonRemove(container[s]) : Take(s, a)
    BY <1>2, <2>1, <2>3 DEF Take, ContainerState, IInv, TypeOK
  <2> QED BY <2>2, <2>3 DEF AbandonShutdown
<1>4. sd[Call(h)] # "idle" /\ sd' = [sd EXCEPT ![Call(h)] = "abandoned"]
  BY DEF AbandonShutdown
<1>5. Built(s)
  BY <1>4, RunTypes DEF IInv, ValuesWhenBuilt, RunsHaveValues
<1>11. TypeOK'
  BY <1>1, <1>4, RunTypes DEF IInv, AbandonShutdown, TypeOK, RunState
<1>12. EarlyStages'
  BY <1>1, <1>2, <1>5 DEF IInv, AbandonShutdown, TypeOK, EarlyStages, Built, Active
<1>13. ValuesWhenBuilt'
  BY DEF IInv, AbandonShutdown, ValuesWhenBuilt, Built
<1>14. RunsHaveValues'
  <2>1. UNCHANGED <<config, handle, runtime>>
    BY DEF AbandonShutdown
  <2>2. \A g \in Handles : sd'[Job(g)] = sd[Job(g)]
    BY <1>4, RunTypes DEF IInv, TypeOK
  <2>3. handle[h] # "free"
    BY <1>4, RunTypes DEF IInv, RunsHaveValues
  <2> QED BY <1>4, <2>1, <2>2, <2>3, RunTypes DEF IInv, TypeOK, RunsHaveValues
<1>15. ShutdownOutcome'
  BY <1>1, <1>2, <1>4, RunTypes DEF IInv, TypeOK, ShutdownOutcome, Active
<1> QED BY <1>11, <1>12, <1>13, <1>14, <1>15 DEF IInv

\* The steps of start() that neither build the executor nor drop it: they leave
\* the values alone, and no run of shutdown() looks at this container yet.
LEMMA EarlyStepInv ==
    ASSUME IInv, NEW s \in Starts, NEW c \in ContainerState,
           NEW g \in {"create", "start", "wait", "inspect"},
           pc[s] \in {"prepare", "create", "start", "wait", "inspect"},
           \/ /\ Goto(s, g)
              /\ g = "create" => c = "none"
              /\ g = "start" => c = "created"
              /\ g \in {"wait", "inspect"} => c \notin {"none", "created"}
           \/ /\ Fail(s)
              /\ pc[s] \in {"prepare", "create"} => c \in {"none", "created"},
           container' = [container EXCEPT ![s] = c],
           faulted' \subseteq Starts, faulted \subseteq faulted',
           UNCHANGED <<handle, sd, cancelled>>
    PROVE  IInv'
<1>1. /\ pc' \in [Starts -> Stages \cup {"ok", "failed"}]
      /\ failedAt' \in [Starts -> Stages \cup {"none"}]
      /\ config' = config /\ runtime' = runtime
      /\ \A t \in Starts : Built(t)' <=> Built(t)
  BY DEF IInv, TypeOK, Goto, Fail, Stages, Built
<1>2. ~Built(s) /\ \A r \in Runs : StartOf(r[1]) = s => sd[r] = "idle"
  BY RunTypes DEF IInv, Built, ValuesWhenBuilt, RunsHaveValues
<1>3. TypeOK'
  BY <1>1 DEF IInv, TypeOK, ContainerState
<1>4. EarlyStages'
  <2> SUFFICES ASSUME NEW t \in Starts
               PROVE  /\ pc'[t] \in {"prepare", "create"} => container'[t] = "none"
                      /\ pc'[t] = "start" => container'[t] = "created"
                      /\ (pc'[t] = "failed" /\ failedAt'[t] \in {"prepare", "create"})
                            => container'[t] \in {"none", "created"}
                      /\ pc'[t] = "failed" => failedAt'[t] # "none"
                      /\ pc'[t] \in {"wait", "inspect"} \/ Built(t)'
                            => container'[t] \notin {"none", "created"}
    BY DEF EarlyStages
  <2>1. CASE t = s
    BY <1>1, <1>2, <2>1 DEF IInv, TypeOK, Goto, Fail
  <2>2. CASE t # s
    BY <1>1, <2>2 DEF IInv, TypeOK, EarlyStages, Goto, Fail
  <2> QED BY <2>1, <2>2
<1>5. ValuesWhenBuilt'
  <2>1. \A t \in Starts : pc'[t] = "cleanup" => pc[t] = "cleanup"
    BY DEF IInv, TypeOK, Goto, Fail
  <2> QED BY <1>1, <2>1, RunTypes DEF IInv, ValuesWhenBuilt
<1>6. RunsHaveValues'
  BY <1>1, RunTypes DEF IInv, RunsHaveValues
<1>7. ShutdownOutcome'
  BY <1>2, RunTypes DEF IInv, TypeOK, ShutdownOutcome
<1> QED BY <1>3, <1>4, <1>5, <1>6, <1>7 DEF IInv

\* The three that make no daemon call, or one that changes nothing.
LEMMA QuietStepInv ==
    ASSUME IInv, NEW s \in Starts, Prepare(s) \/ WaitForLogs(s) \/ InspectFails(s)
    PROVE  IInv'
<1>1. /\ container' = [container EXCEPT ![s] = container[s]]
      /\ container[s] \in ContainerState
      /\ UNCHANGED <<faulted, handle, sd, cancelled>>
  BY DEF Prepare, WaitForLogs, InspectFails, KeepContainer, KeepHandles, IInv,
     TypeOK
<1>2. CASE Prepare(s) \/ InspectFails(s)
  <2>1. container[s] = "none" \/ pc[s] = "inspect"
    BY <1>2 DEF Prepare, InspectFails, At, IInv, EarlyStages
  <2> QED BY <1>1, <1>2, <2>1, EarlyStepInv DEF Prepare, InspectFails, At, IInv, TypeOK
<1>3. CASE WaitForLogs(s)
  <2>1. container[s] \notin {"none", "created"}
    BY <1>3 DEF WaitForLogs, At, IInv, EarlyStages
  <2> QED BY <1>1, <1>3, <2>1, EarlyStepInv DEF WaitForLogs, At, IInv, TypeOK
<1> QED BY <1>2, <1>3

LEMMA CreateInv ==
    ASSUME IInv, NEW s \in Starts, Create(s)
    PROVE  IInv'
<1>1. PICK a \in DaemonCreate(container[s]) :
          Take(s, a) /\ IF a.result = "ok" THEN Goto(s, "start") ELSE Fail(s)
  BY DEF Create
<1>2. /\ a.state \in {"none", "created"} /\ a.state \in ContainerState
      /\ a.result = "ok" => a.state = "created"
  BY AnswerFacts DEF DaemonCreate, Refuse, IInv, EarlyStages, Create, At,
     ContainerState
<1> QED BY <1>1, <1>2, EarlyStepInv DEF Create, At, KeepHandles, Take, IInv, TypeOK

LEMMA StartContainerInv ==
    ASSUME IInv, NEW s \in Starts, StartContainer(s)
    PROVE  IInv'
<1>1. PICK a \in DaemonStart(container[s]) :
          Take(s, a) /\ IF a.result = "ok" THEN Goto(s, "wait") ELSE Fail(s)
  BY DEF StartContainer
<1>2. a.state \in ContainerState /\ (a.result = "ok" => a.state = "running")
  BY AnswerFacts DEF DaemonStart, Refuse, IInv, TypeOK, ContainerState
<1> QED BY <1>1, <1>2, EarlyStepInv DEF StartContainer, At, KeepHandles, Take, IInv, TypeOK

LEMMA AbandonStartInv ==
    ASSUME IInv, NEW s \in Starts, AbandonStart(s)
    PROVE  IInv'
<1>1. Fail(s) /\ UNCHANGED <<handle, sd, cancelled>>
  BY DEF AbandonStart, KeepHandles
<1>2. ASSUME NEW a \in DaemonCreate(container[s]), pc[s] = "create", Take(s, a)
      PROVE  IInv'
  <2>1. a.state \in {"none", "created"} /\ a.state \in ContainerState
    BY <1>2, AnswerFacts DEF DaemonCreate, Refuse, IInv, EarlyStages, ContainerState
  <2> QED BY <1>1, <1>2, <2>1, EarlyStepInv DEF Take, IInv, TypeOK
<1>3. ASSUME NEW a \in DaemonStart(container[s]), pc[s] = "start", Take(s, a)
      PROVE  IInv'
  <2>1. a.state \in ContainerState
    BY <1>3, AnswerFacts DEF DaemonStart, Refuse, IInv, TypeOK, ContainerState
  <2> QED BY <1>1, <1>3, <2>1, EarlyStepInv DEF Take, IInv, TypeOK
<1>4. CASE pc[s] \in {"prepare", "wait", "inspect"} /\ UNCHANGED <<container, faulted>>
  <2>1. /\ container' = [container EXCEPT ![s] = container[s]]
        /\ container[s] \in ContainerState
        /\ pc[s] = "prepare" => container[s] = "none"
    BY <1>4 DEF IInv, TypeOK, EarlyStages
  <2> QED BY <1>1, <1>4, <2>1, EarlyStepInv DEF IInv, TypeOK
<1> QED BY <1>2, <1>3, <1>4 DEF AbandonStart, KeepContainer

LEMMA StopRuntimeInv ==
    ASSUME IInv, StopRuntime
    PROVE  IInv'
<1>11. TypeOK'
  BY RunTypes DEF IInv, StopRuntime, Up, TypeOK, RunState, Pending, Stages,
     ContainerState, Active
<1>12. EarlyStages'
  BY RunTypes DEF IInv, StopRuntime, Up, TypeOK, EarlyStages, Built, Stages, Active
<1>13. ValuesWhenBuilt'
  BY RunTypes DEF IInv, StopRuntime, Up, TypeOK, ValuesWhenBuilt, Built, Stages
<1>14. RunsHaveValues'
  BY RunTypes DEF IInv, StopRuntime, Up, TypeOK, RunsHaveValues
<1>15. ShutdownOutcome'
  BY RunTypes DEF IInv, StopRuntime, Up, TypeOK, ShutdownOutcome, Active
<1> QED BY <1>11, <1>12, <1>13, <1>14, <1>15 DEF IInv

-----------------------------------------------------------------------------
LEMMA NextInv == IInv /\ [Next]_vars => IInv'
<1> SUFFICES ASSUME IInv, [Next]_vars
             PROVE  IInv'
  OBVIOUS
<1>1. ASSUME NEW s \in Starts,
             StartStep(s) \/ ServiceExits(s) \/ AutoRemove(s) \/ EndRemoval(s)
      PROVE  IInv'
  BY <1>1, EndRemovalInv, QuietStepInv, CreateInv, StartContainerInv, ConstructInv, CleanupInv,
     LeaveCleanupInv, AbandonStartInv, ServiceExitsInv, AutoRemoveInv DEF StartStep
<1>2. ASSUME NEW h \in Handles, HandleStep(h)
      PROVE  IInv'
  BY <1>2, RunJobInv, CallShutdownInv, AbandonShutdownInv, DropHandleInv,
     CloneHandleInv DEF HandleStep
<1>3. ASSUME NEW r \in Runs, Kill(r) \/ Remove(r) \/ Removed(r)
      PROVE  IInv'
  BY <1>3, KillInv, RemoveInv, RemovedInv
<1>4. CASE StopRuntime
  BY <1>4, StopRuntimeInv
<1>5. CASE UNCHANGED vars
  BY <1>5 DEF vars, IInv, TypeOK, EarlyStages, ValuesWhenBuilt, Built,
     RunsHaveValues, ShutdownOutcome
<1> QED BY <1>1, <1>2, <1>3, <1>4, <1>5 DEF Next

LEMMA Invariance == Spec => []IInv
<1> QED BY InitInv, NextInv, PTL DEF Spec

\* The records of the model keep their types: the stages of start(), the states
\* of a container and of a shutdown() are the ones the code and the daemon have.
THEOREM TypeCorrect == Spec => []TypeOK
<1>1. IInv => TypeOK
  BY DEF IInv
<1> QED BY <1>1, Invariance, PTL

\* However many copies there are and whatever interleaves, a shutdown() that
\* returns Ok has removed the container, and after one that is refused the container
\* has ended or is being removed.
THEOREM ShutdownTellsTheTruth == Spec => []ShutdownOutcome
<1>1. IInv => ShutdownOutcome
  BY DEF IInv
<1> QED BY <1>1, Invariance, PTL

\* No container is orphaned: once the executor exists, either it or a copy can
\* still be dropped, or the job of one that was is on its way, or that job ended,
\* and then ShutdownOutcome says that the container does not run.
THEOREM NothingOrphaned == Spec => []NoOrphan
<1>1. IInv => NoOrphan
  <2> SUFFICES ASSUME IInv, NEW s \in Starts, container[s] \in Active,
                      ~(pc[s] \in Stages), ~Excused(s), ~Owned(s)
               PROVE  Reclaimed(s)
    BY DEF NoOrphan
  <2> DEFINE h == First(s)
  <2>1. h \in Handles /\ StartOf(h) = s /\ Job(h) \in Runs /\ Job(h)[1] = h
    BY RunTypes
  <2>2. Built(s)
    BY DEF IInv, TypeOK, EarlyStages, Excused, Active, Built, Stages
  <2>3. handle[h] = "dropped"
    BY <2>1, <2>2 DEF IInv, TypeOK, ValuesWhenBuilt, Owned
  <2>4. sd[Job(h)] \in RunState \ {"idle", "abandoned"}
    BY <2>1, <2>3 DEF IInv, TypeOK, RunsHaveValues, Excused
  <2>5. sd[Job(h)] \notin {"ok", "failed", "lost"}
    BY <2>1 DEF IInv, ShutdownOutcome, RunsHaveValues, Excused, Active, Up
  <2>6. sd[Job(h)] \in Pending
    BY <2>4, <2>5 DEF RunState
  <2> QED BY <2>1, <2>6 DEF Reclaimed
<1> QED BY <1>1, Invariance, PTL

\* One drop queues one job: no step puts a job that has begun back in the queue.
THEOREM DropQueuesOnce == Spec => OneJobPerDrop
<1>1. ASSUME IInv, [Next]_vars, NEW h \in Handles, sd'[Job(h)] = "queued"
      PROVE  sd[Job(h)] \in {"idle", "queued"}
  <2>1. Job(h) \in Runs /\ \A g \in Handles : Job(h) = Job(g) => h = g
    BY RunTypes
  <2>2. ASSUME NEW g \in Handles, handle[g] = "live", DropEffect(g)
        PROVE  sd[Job(h)] \in {"idle", "queued"}
    <3>1. CASE g = h
      BY <1>1, <2>2, <3>1 DEF IInv, RunsHaveValues
    <3>2. CASE g # h
      BY <1>1, <2>1, <2>2, <3>2 DEF DropEffect, IInv, TypeOK
    <3> QED BY <3>1, <3>2
  <2>3. ASSUME NEW r \in Runs, NEW q \in RunState \ {"queued"},
               sd' = [sd EXCEPT ![r] = q]
        PROVE  sd[Job(h)] = "queued"
    BY <1>1, <2>1, <2>3 DEF IInv, TypeOK
  <2>4. ASSUME NEW r \in Runs, Kill(r) \/ Remove(r) \/ Removed(r)
        PROVE  sd[Job(h)] = "queued"
    <3>1. \E q \in {"remove", "removing", "ok", "failed"} : sd' = [sd EXCEPT ![r] = q]
      BY <2>4 DEF Kill, Remove, Removed, Settle, JobCopy
    <3> QED BY <2>3, <3>1 DEF RunState, Pending
  <2>5. ASSUME NEW g \in Handles, HandleStep(g)
        PROVE  sd[Job(h)] \in {"idle", "queued"}
    <3>1. CASE DropHandle(g)
      BY <2>2, <3>1 DEF DropHandle
    <3>2. CASE \E c \in Handles : CloneHandle(g, c)
      BY <1>1, <3>2 DEF CloneHandle
    <3>3. CASE RunJob(g) \/ CallShutdown(g) \/ AbandonShutdown(g)
      <4>1. \E q \in {"kill", "abandoned"} :
                sd' = [sd EXCEPT ![Job(g)] = q] \/ sd' = [sd EXCEPT ![Call(g)] = q]
        BY <3>3 DEF RunJob, CallShutdown, AbandonShutdown, BeginShutdown
      <4> QED BY <2>3, <4>1, RunTypes DEF RunState, Pending
    <3> QED BY <2>5, <3>1, <3>2, <3>3 DEF HandleStep
  <2>6. ASSUME NEW s \in Starts,
               StartStep(s) \/ ServiceExits(s) \/ AutoRemove(s) \/ EndRemoval(s)
        PROVE  sd[Job(h)] \in {"idle", "queued"}
    <3>1. CASE LeaveCleanup(s)
      <4>1. handle[First(s)] = "live" /\ First(s) \in Handles
        BY <1>1, <3>1, RunTypes DEF LeaveCleanup, At, IInv, ValuesWhenBuilt
      <4> QED BY <2>2, <3>1, <4>1 DEF LeaveCleanup
    <3>2. CASE UNCHANGED sd
      BY <1>1, <3>2
    <3> QED BY <2>6, <3>1, <3>2 DEF StartStep, Prepare, Create, StartContainer,
           WaitForLogs, InspectFails, Construct, Cleanup, AbandonStart, KeepHandles,
           ServiceExits, AutoRemove, EndRemoval
  <2>7. CASE StopRuntime
    BY <1>1, <2>1, <2>7 DEF StopRuntime, IInv, TypeOK
  <2>8. CASE UNCHANGED vars
    BY <1>1, <2>8 DEF vars
  <2> QED BY <1>1, <2>4, <2>5, <2>6, <2>7, <2>8 DEF Next
<1>2. IInv /\ [Next]_vars =>
         [\A h \in Handles :
             sd'[Job(h)] = "queued" => sd[Job(h)] \in {"idle", "queued"}]_vars
  BY <1>1
<1> QED BY <1>2, Invariance, PTL DEF Spec, OneJobPerDrop

\* The daemon stops a container that runs only in the answer to a call of shutdown().
LEMMA OnlyShutdownStops ==
    ASSUME IInv, [Next]_vars, NEW s \in Starts,
           container[s] \in Active,
           container'[s] \in {"stopping", "removing", "removed"} \ {container[s]}
    PROVE  \E r \in Runs : StartOf(r[1]) = s /\ sd[r] # "idle"
<1>1. container[s] \in ContainerState /\ container \in [Starts -> ContainerState]
  BY DEF IInv, TypeOK
<1>2. ASSUME NEW r \in Runs, Kill(r) \/ Remove(r) \/ Removed(r)
      PROVE  StartOf(r[1]) = s /\ sd[r] # "idle"
  <2>1. Kill(r) \/ Remove(r)
    BY <1>2 DEF Removed
  <2>2. PICK c : container' = [container EXCEPT ![StartOf(r[1])] = c]
    BY <2>1 DEF Kill, Remove, Take
  <2> QED BY <1>1, <2>1, <2>2 DEF Kill, Remove
<1>3. ASSUME NEW h \in Handles, HandleStep(h)
      PROVE  Call(h) \in Runs /\ StartOf(Call(h)[1]) = s /\ sd[Call(h)] # "idle"
  <2>1. AbandonShutdown(h)
    BY <1>3, RunTypes DEF HandleStep, RunJob, CallShutdown, BeginShutdown,
       DropHandle, CloneHandle
  <2>2. PICK c : container' = [container EXCEPT ![StartOf(h)] = c]
    BY <1>1, <2>1 DEF AbandonShutdown, Take
  <2>3. StartOf(h) = s
    BY <1>1, <2>2
  <2> QED BY <2>1, <2>3, RunTypes DEF AbandonShutdown
<1>4. ASSUME NEW t \in Starts, StartStep(t)
      PROVE  FALSE
  <2>1. CASE UNCHANGED container
    BY <2>1
  <2>2. CASE pc[t] \in {"create", "start"}
    <3>1. container[t] \notin Active
      BY <2>2 DEF IInv, EarlyStages, Active
    <3>2. \E c : container' = [container EXCEPT ![t] = c]
      BY <1>4, <2>2 DEF StartStep, Prepare, Create, StartContainer, WaitForLogs,
         InspectFails, Construct, Cleanup, LeaveCleanup, AbandonStart, At, Take
    <3> QED BY <1>1, <3>1, <3>2
  <2> QED BY <1>4, <2>1, <2>2 DEF StartStep, Prepare, Create, StartContainer,
         WaitForLogs, InspectFails, Construct, Cleanup, LeaveCleanup, AbandonStart,
         At, KeepContainer
<1>5. ASSUME NEW t \in Starts, ServiceExits(t) \/ AutoRemove(t) \/ EndRemoval(t)
      PROVE  FALSE
  <2>1. CASE ServiceExits(t)
    BY <1>1, <2>1 DEF ServiceExits
  <2>2. CASE AutoRemove(t)
    BY <1>1, <2>2 DEF AutoRemove, Active
  <2>3. CASE EndRemoval(t)
    BY <1>1, <2>3 DEF EndRemoval, Active
  <2> QED BY <1>5, <2>1, <2>2, <2>3
<1>6. CASE StopRuntime \/ UNCHANGED vars
  BY <1>6 DEF StopRuntime, vars
<1> QED BY <1>2, <1>3, <1>4, <1>5, <1>6 DEF Next

\* A container that runs is stopped only after shutdown() was called on one of its
\* values, or after a value without retain_on_drop was dropped: a retained
\* container outlives its executor, and no failure or abandoned future stops one.
THEOREM StopsAreAskedFor == Spec => StopIsAsked
<1>1. ASSUME IInv, [Next]_vars, NEW s \in Starts,
             container[s] \in Active,
             container'[s] \in {"stopping", "removing", "removed"} \ {container[s]}
      PROVE  Asked(s)
  <2>1. PICK r \in Runs : StartOf(r[1]) = s /\ sd[r] # "idle"
    BY <1>1, OnlyShutdownStops
  <2>2. r[1] \in Handles /\ r \in {Call(r[1]), Job(r[1])}
    BY RunTypes
  <2>3. CASE r = Job(r[1])
    <3>1. handle[r[1]] = "dropped" /\ ~config[s].retain
      BY <1>1, <2>1, <2>2, <2>3 DEF IInv, TypeOK, RunsHaveValues
    <3> QED BY <2>1, <2>2, <3>1 DEF Asked
  <2> QED BY <2>1, <2>2, <2>3 DEF Asked
<1>2. IInv /\ [Next]_vars =>
         [\A s \in Starts :
             (/\ container[s] \in Active
              /\ container'[s] \in {"stopping", "removing", "removed"} \ {container[s]})
             => Asked(s)]_vars
  BY <1>1
<1> QED BY <1>2, Invariance, PTL DEF Spec, StopIsAsked
=============================================================================
