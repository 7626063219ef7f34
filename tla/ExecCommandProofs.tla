-------------------------- MODULE ExecCommandProofs --------------------------
(***************************************************************************)
(* For any number of calls: an Ok write is in the file, a returned write   *)
(* is over, and a missing directory is made.                               *)
(***************************************************************************)
EXTENDS ExecCommand, TLAPS

\* What the client knows of a request agrees with its process.
Request(c) ==
    /\ cmd[c] = "none" => kind[c] = "none" /\ result[c] = "none"
    /\ kind[c] = "write" <=> cmd[c] \in {"cat", "mkdir", "again"}
    /\ req[c].phase = "new" => proc[c] = "none" /\ req[c].procs = "none"
    /\ req[c].procs = "active" <=> proc[c] \in Active
    /\ req[c].procs = "quiet" <=> proc[c] \in Over
    /\ req[c].phase # "answered" => req[c].answer = "none"
    /\ req[c].answer \in {"exit", "timedout"} => req[c].procs = "quiet"
    /\ req[c].answer = "started" => kind[c] = "background"
    /\ proc[c] \in {"opened", "unlinked", "missing"} => cmd[c] \in {"cat", "again"}

\* What a call returned agrees with the last answer it got.
Returned(c) ==
    /\ result[c] \in {"Ok", "NonZeroExit", "TimedOut"} => req[c].answer # "none"
    /\ result[c] \in {"Ok", "NonZeroExit", "TimedOut"} /\ kind[c] = "write"
        => req[c].answer \in {"exit", "timedout"}
    /\ result[c] = "Ok" /\ kind[c] = "write" => proc[c] = "done" /\ cmd[c] # "mkdir"
    /\ /\ kind[c] = "write" /\ result[c] = "NonZeroExit"
       /\ proc[c] = "missing" /\ profile # "foreign"
       => cmd[c] = "again"

\* What a write can rely on, while it is waited for and after it returned Ok.
Content(c) ==
    cmd[c] \in {"cat", "again"} /\ result[c] \in {"none", "Ok"} =>
        /\ proc[c] = "opened" /\ clean[c] = "yes" => file = "empty"
        /\ proc[c] = "unlinked" => clean[c] = "no"
        /\ proc[c] = "done" /\ clean[c] = "yes" => file = c

\* The directory is there once the call's mkdir has made it, until it is removed.
Directory(c) ==
    /\ made[c] = "there" => dir = "present"
    /\ cmd[c] = "mkdir" /\ proc[c] = "done" /\ result[c] = "none" => made[c] # "no"
    /\ cmd[c] = "again" => made[c] # "no"
    /\ cmd[c] = "again" /\ proc[c] = "missing" => made[c] = "removed"

CInv(c) == Request(c) /\ Returned(c) /\ Content(c) /\ Directory(c)

IInv == TypeOK /\ \A c \in Calls : CInv(c)

-----------------------------------------------------------------------------
LEMMA InitInv == Init => IInv
<1> SUFFICES ASSUME Init PROVE IInv
  OBVIOUS
<1>1. Shell!New("none") \in Shell!Requests
  BY DEF Shell!New, Shell!Known, Shell!Requests
<1>2. TypeOK
  BY <1>1, CallsAssumption DEF Init, TypeOK
<1>3. ASSUME NEW c \in Calls PROVE CInv(c)
  <2>1. /\ cmd[c] = "none" /\ kind[c] = "none" /\ result[c] = "none" /\ proc[c] = "none"
        /\ req[c].phase = "new" /\ req[c].procs = "none" /\ req[c].answer = "none"
        /\ made[c] = "no"
    BY DEF Init, Shell!New, Shell!Known
  <2> QED BY <2>1 DEF CInv, Request, Returned, Content, Directory, Active, Over
<1> QED BY <1>2, <1>3 DEF IInv

\* A step of call c that leaves the file and the directory alone.
LEMMA Frame ==
    ASSUME IInv, NEW c \in Calls, TypeOK',
           UNCHANGED <<profile, dir, file, made, clean>>,
           \A x \in Calls : x # c =>
               UNCHANGED <<kind[x], cmd[x], req[x], proc[x], result[x]>>,
           CInv(c)'
    PROVE  IInv'
<1>1. ASSUME NEW x \in Calls, x # c PROVE CInv(x)'
  <2>1. CInv(x) /\ UNCHANGED <<kind[x], cmd[x], req[x], proc[x], result[x]>>
    BY <1>1 DEF IInv
  <2> QED BY <2>1 DEF CInv, Request, Returned, Content, Directory
<1> QED BY <1>1 DEF IInv

-----------------------------------------------------------------------------
(* The host.                                                               *)

LEMMA AskType ==
    ASSUME IInv, NEW c \in Calls, NEW k \in {"cat", "mkdir", "again", "user"},
           NEW t \in {"none", "some"}, Ask(c, k, t)
    PROVE  /\ cmd' \in [Calls -> {"none", "cat", "mkdir", "again", "user"}]
           /\ req' \in [Calls -> Shell!Requests]
           /\ proc' \in [Calls -> {"none"} \cup Active \cup Over]
           /\ cmd'[c] = k /\ proc'[c] = "none"
           /\ req'[c].phase = "new" /\ req'[c].procs = "none" /\ req'[c].answer = "none"
           /\ \A x \in Calls : x # c => UNCHANGED <<cmd[x], req[x], proc[x]>>
<1>1. Shell!New(t) \in Shell!Requests
  BY DEF Shell!New, Shell!Known, Shell!Requests
<1>2. req' \in [Calls -> Shell!Requests] /\ req'[c] = Shell!New(t)
  BY <1>1 DEF Ask, IInv, TypeOK
<1>3. /\ cmd' \in [Calls -> {"none", "cat", "mkdir", "again", "user"}]
      /\ proc' \in [Calls -> {"none"} \cup Active \cup Over]
      /\ cmd'[c] = k /\ proc'[c] = "none"
  BY DEF Ask, IInv, TypeOK
<1>4. \A x \in Calls : x # c => UNCHANGED <<cmd[x], req[x], proc[x]>>
  BY DEF Ask, IInv, TypeOK
<1> QED BY <1>2, <1>3, <1>4 DEF Shell!New, Shell!Known

LEMMA CallInv == ASSUME IInv, NEW c \in Calls, Call(c) PROVE IInv'
<1>1. PICK k \in Kinds, t \in {"none", "some"} :
        /\ kind' = [kind EXCEPT ![c] = k]
        /\ limit' = [limit EXCEPT ![c] = Resolve(t)]
        /\ Ask(c, IF k = "write" THEN "cat" ELSE "user", Resolve(t))
  BY DEF Call, Kinds
<1>2. Resolve(t) \in {"none", "some"}
  BY DEF Resolve, IInv, TypeOK
<1> DEFINE new == IF k = "write" THEN "cat" ELSE "user"
<1>3. /\ cmd' \in [Calls -> {"none", "cat", "mkdir", "again", "user"}]
      /\ req' \in [Calls -> Shell!Requests]
      /\ proc' \in [Calls -> {"none"} \cup Active \cup Over]
      /\ cmd'[c] = new /\ proc'[c] = "none"
      /\ req'[c].phase = "new" /\ req'[c].procs = "none" /\ req'[c].answer = "none"
      /\ \A x \in Calls : x # c => UNCHANGED <<cmd[x], req[x], proc[x]>>
  BY <1>1, <1>2, AskType
<1>4. /\ UNCHANGED <<default, profile, result, dir, file, clean, made>>
      /\ result[c] = "none" /\ kind'[c] = k
      /\ \A x \in Calls : x # c => UNCHANGED kind[x]
  BY <1>1 DEF Call, fileVars, IInv, TypeOK, CInv, Request
<1>5. TypeOK'
  BY <1>1, <1>2, <1>3, <1>4 DEF IInv, TypeOK, Kinds
<1>7. made[c] = "there" => dir = "present"
  BY DEF IInv, CInv, Directory
<1>6. CInv(c)'
  BY <1>3, <1>4, <1>7
  DEF CInv, Request, Returned, Content, Directory, Active, Over, Kinds
<1> QED BY <1>3, <1>4, <1>5, <1>6, Frame

LEMMA AskAgainInv ==
    ASSUME IInv, NEW c \in Calls, ReceiveMissing(c) \/ ReceiveMade(c)
    PROVE  IInv'
<1> DEFINE new == IF ReceiveMissing(c) THEN "mkdir" ELSE "again"
<1>1. Ask(c, new, limit[c]) /\ limit[c] \in {"none", "some"}
  BY DEF ReceiveMissing, ReceiveMade, IInv, TypeOK
<1>2. /\ cmd' \in [Calls -> {"none", "cat", "mkdir", "again", "user"}]
      /\ req' \in [Calls -> Shell!Requests]
      /\ proc' \in [Calls -> {"none"} \cup Active \cup Over]
      /\ cmd'[c] = new /\ proc'[c] = "none"
      /\ req'[c].phase = "new" /\ req'[c].procs = "none" /\ req'[c].answer = "none"
      /\ \A x \in Calls : x # c => UNCHANGED <<cmd[x], req[x], proc[x]>>
  BY <1>1, AskType
<1>3. /\ UNCHANGED <<default, profile, kind, limit, result, dir, file, clean, made>>
      /\ cmd[c] \in {"cat", "mkdir"} /\ result[c] = "none"
  BY DEF ReceiveMissing, ReceiveMade, Answered, Waits, Missing, fileVars
<1>4. TypeOK'
  BY <1>2, <1>3 DEF IInv, TypeOK
<1>5. kind[c] = "write" /\ CInv(c)
  BY <1>3 DEF IInv, CInv, Request
<1>6. new = "again" => made[c] # "no"
  <2>1. ASSUME ReceiveMade(c) PROVE cmd[c] = "mkdir" /\ proc[c] = "done"
    BY <2>1, <1>5 DEF ReceiveMade, Outcome, CInv, Request
  <2> QED BY <1>3, <1>5, <2>1 DEF CInv, Directory
<1>7. CInv(c)'
  BY <1>2, <1>3, <1>5, <1>6 DEF CInv, Request, Returned, Content, Directory, Active, Over
<1> QED BY <1>2, <1>3, <1>4, <1>7, Frame

LEMMA ReturnInv ==
    ASSUME IInv, NEW c \in Calls, ReceiveLast(c) \/ GiveUp(c)
    PROVE  IInv'
<1>1. PICK r \in {"Ok", "NonZeroExit", "TimedOut", "ExecutorError", "unanswered"} :
        /\ Return(c, r)
        /\ (ReceiveLast(c) /\ r = Outcome(c)) \/ r = "unanswered"
  BY DEF ReceiveLast, GiveUp, Outcome
<1>2. /\ UNCHANGED <<default, profile, kind, limit, cmd, req, proc, dir, file, clean, made>>
      /\ result' = [result EXCEPT ![c] = r] /\ result[c] = "none" /\ cmd[c] # "none"
  BY <1>1 DEF Return, ReceiveLast, GiveUp, Answered, Waits, fileVars
<1>3. result'[c] = r /\ \A x \in Calls : x # c => UNCHANGED result[x]
  BY <1>2 DEF IInv, TypeOK
<1>4. TypeOK'
  BY <1>2 DEF IInv, TypeOK
<1>5. CInv(c) /\ proc[c] \in {"none"} \cup Active \cup Over
  BY DEF IInv, TypeOK
<1>6. Returned(c)'
  <2>1. CASE r \in {"unanswered", "ExecutorError"}
    BY <2>1, <1>3 DEF Returned
  <2>2. CASE r \notin {"unanswered", "ExecutorError"}
    <3>1. ReceiveLast(c) /\ r = Outcome(c)
      BY <1>1, <2>2
    <3>2. r \in {"Ok", "NonZeroExit", "TimedOut"}
      BY <2>2
    <3>3. req[c].answer \in {"started", "exit", "timedout"}
      BY <3>1, <3>2 DEF Outcome
    <3>4. kind[c] = "write" => req[c].answer \in {"exit", "timedout"}
      BY <3>3, <1>5 DEF CInv, Request
    <3>5. kind[c] = "write" /\ r = "Ok" => proc[c] = "done" /\ cmd[c] # "mkdir"
      BY <3>1, <3>4 DEF Outcome, ReceiveLast
    <3>6. kind[c] = "write" /\ r = "NonZeroExit" /\ proc[c] = "missing" /\ profile # "foreign"
            => cmd[c] = "again"
      <4>1. profile \in {"plain", "noisy", "foreign"}
        BY DEF IInv, TypeOK
      <4> QED BY <3>1, <1>5, <4>1 DEF ReceiveLast, Missing, Recognised, CInv, Request
    <3> QED BY <1>2, <1>3, <3>3, <3>4, <3>5, <3>6 DEF Returned
  <2> QED BY <2>1, <2>2
<1>7. CInv(c)'
  BY <1>2, <1>3, <1>5, <1>6 DEF CInv, Request, Content, Directory
<1> QED BY <1>2, <1>3, <1>4, <1>7, Frame

-----------------------------------------------------------------------------
(* The service.                                                            *)

LEMMA BeginInv == ASSUME IInv, NEW c \in Calls, Begin(c) PROVE IInv'
<1>1. PICK s : /\ s \in IF kind[c] = "background" THEN Shell!Detach(req[c])
                                                  ELSE Shell!Start(req[c])
               /\ req' = [req EXCEPT ![c] = s]
  BY DEF Begin
<1>2. req[c] \in Shell!Requests /\ CInv(c)
  BY DEF IInv, TypeOK
<1>3. /\ s \in Shell!Requests /\ s.procs = "active" /\ req[c].phase = "new"
      /\ \/ s.phase = "running" /\ s.answer = "none"
         \/ s.phase = "answered" /\ s.answer = "started" /\ kind[c] = "background"
  BY <1>1, <1>2 DEF Shell!Start, Shell!Detach, Shell!Known, Shell!Requests
<1>4. /\ UNCHANGED <<default, profile, kind, limit, cmd, result, dir, file, clean, made>>
      /\ proc' = [proc EXCEPT ![c] = "begun"] /\ cmd[c] # "none"
  BY DEF Begin, fileVars
<1>5. TypeOK'
  BY <1>1, <1>3, <1>4 DEF IInv, TypeOK, Active
<1>6. /\ proc'[c] = "begun" /\ req'[c] = s
      /\ \A x \in Calls : x # c => UNCHANGED <<proc[x], req[x]>>
  BY <1>1, <1>4 DEF IInv, TypeOK
<1>7. req[c].answer = "none" /\ proc[c] = "none"
  BY <1>2, <1>3 DEF CInv, Request
<1>8. CInv(c)'
  BY <1>2, <1>3, <1>4, <1>6, <1>7
  DEF CInv, Request, Returned, Content, Directory, Active, Over
<1> QED BY <1>4, <1>5, <1>6, <1>8, Frame

LEMMA AnswerInv ==
    ASSUME IInv, NEW c \in Calls, Refuse(c) \/ Conclude(c) \/ Fail(c) \/ Abandon(c)
    PROVE  IInv'
<1>1. PICK s : /\ s \in Shell!Refuse(req[c]) \cup Shell!Exit(req[c]) \cup Shell!TimeOut(req[c])
                      \cup Shell!Fail(req[c]) \cup Shell!Abandon(req[c])
               /\ Becomes(c, s)
  BY DEF Refuse, Conclude, Fail, Abandon
<1>2. req[c] \in Shell!Requests /\ CInv(c)
  BY DEF IInv, TypeOK
<1>3. /\ s \in Shell!Requests /\ s.procs = req[c].procs /\ req[c].phase \in {"new", "running"}
      /\ \/ s.phase = "answered" /\ s.answer = "error"
         \/ s.phase = "answered" /\ s.answer \in {"exit", "timedout"} /\ s.procs = "quiet"
         \/ s.phase = "abandoned" /\ s.answer = req[c].answer
  BY <1>1, <1>2 DEF Shell!Refuse, Shell!Exit, Shell!TimeOut, Shell!Fail, Shell!Abandon,
     Shell!Reply, Shell!Settled, Shell!Known, Shell!Requests
<1>4. /\ UNCHANGED <<default, profile, kind, limit, cmd, proc, result, dir, file, clean, made>>
      /\ req' = [req EXCEPT ![c] = s]
  BY <1>1 DEF Becomes, fileVars
<1>5. TypeOK'
  BY <1>3, <1>4 DEF IInv, TypeOK
<1>6. req'[c] = s /\ \A x \in Calls : x # c => UNCHANGED req[x]
  BY <1>4 DEF IInv, TypeOK
<1>7. req[c].answer = "none"
  BY <1>2, <1>3 DEF CInv, Request
<1>8. Request(c)' /\ Returned(c)'
  BY <1>2, <1>3, <1>4, <1>6, <1>7 DEF CInv, Request, Returned
<1>9. CInv(c)'
  BY <1>2, <1>4, <1>8 DEF CInv, Content, Directory
<1> QED BY <1>4, <1>5, <1>6, <1>9, Frame

-----------------------------------------------------------------------------
(* The processes.                                                          *)

LEMMA EndFacts ==
    ASSUME IInv, NEW c \in Calls, NEW how \in Over, End(c, how)
    PROVE  /\ UNCHANGED <<default, profile, kind, limit, cmd, result>>
           /\ req' \in [Calls -> Shell!Requests]
           /\ proc' \in [Calls -> {"none"} \cup Active \cup Over]
           /\ req[c].procs = "active" /\ req'[c].procs = "quiet"
           /\ req'[c].phase = req[c].phase /\ req'[c].answer = req[c].answer
           /\ proc'[c] \in Over /\ (result[c] # "unanswered" => proc'[c] = how)
           /\ \A x \in Calls : x # c => UNCHANGED <<kind[x], cmd[x], req[x], proc[x], result[x]>>
<1>1. PICK s \in Shell!Settle(req[c]) : req' = [req EXCEPT ![c] = s]
  BY DEF End
<1>2. req[c] \in Shell!Requests
  BY DEF IInv, TypeOK
<1>3. /\ s \in Shell!Requests /\ req[c].procs = "active"
      /\ s.procs = "quiet" /\ s.phase = req[c].phase /\ s.answer = req[c].answer
  BY <1>1, <1>2 DEF Shell!Settle, Shell!Known, Shell!Requests
<1>4. req' \in [Calls -> Shell!Requests] /\ req'[c] = s
  BY <1>1, <1>3 DEF IInv, TypeOK
<1>5. /\ proc' \in [Calls -> {"none"} \cup Active \cup Over]
      /\ proc'[c] \in Over /\ (result[c] # "unanswered" => proc'[c] = how)
  BY DEF End, Gone, Over, IInv, TypeOK
<1>6. \A x \in Calls : x # c => UNCHANGED <<kind[x], cmd[x], req[x], proc[x], result[x]>>
  BY <1>1 DEF End, IInv, TypeOK
<1>7. UNCHANGED <<default, profile, kind, limit, cmd, result>>
  BY DEF End
<1> QED BY <1>3, <1>4, <1>5, <1>6, <1>7

\* A process that ends keeps what is known of its call.
LEMMA EndKeeps ==
    ASSUME IInv, NEW c \in Calls, NEW how \in Over, End(c, how),
           how = "missing" => cmd[c] \in {"cat", "again"}
    PROVE  Request(c)' /\ Returned(c)'
<1>1. /\ UNCHANGED <<profile, kind, cmd, result>>
      /\ req[c].procs = "active" /\ req'[c].procs = "quiet"
      /\ req'[c].phase = req[c].phase /\ req'[c].answer = req[c].answer
      /\ proc'[c] \in Over /\ (result[c] # "unanswered" => proc'[c] = how)
  BY EndFacts
<1>2. CInv(c)
  BY DEF IInv
<1>3. proc'[c] = "missing" => cmd[c] \in {"cat", "again"}
  BY <1>1 DEF End, Gone, IInv, TypeOK
<1>4. Request(c)'
  BY <1>1, <1>2, <1>3 DEF CInv, Request, Active, Over
<1>5. Returned(c)'
  BY <1>1, <1>2 DEF CInv, Request, Returned
<1> QED BY <1>4, <1>5

LEMMA QuietEndInv ==
    ASSUME IInv, NEW c \in Calls,
           \/ OpenMissing(c) \/ FillUnlinked(c) \/ UserEnds(c)
           \/ Fails(c) /\ UNCHANGED fileVars
    PROVE  IInv'
<1>1. PICK how \in Over :
        /\ End(c, how)
        /\ \/ how = "missing" /\ cmd[c] \in {"cat", "again"} /\ dir = "absent"
           \/ how = "done" /\ proc[c] = "unlinked"
           \/ how = "done" /\ cmd[c] = "user"
           \/ how = "failed"
  BY DEF OpenMissing, FillUnlinked, UserEnds, Fails, Over
<1>2. UNCHANGED <<dir, file, clean, made>>
  BY DEF OpenMissing, FillUnlinked, UserEnds, Fails, fileVars
<1>3. /\ UNCHANGED <<default, profile, kind, limit, cmd, result>>
      /\ req' \in [Calls -> Shell!Requests]
      /\ proc' \in [Calls -> {"none"} \cup Active \cup Over]
      /\ proc'[c] \in Over /\ (result[c] # "unanswered" => proc'[c] = how)
      /\ \A x \in Calls : x # c => UNCHANGED <<kind[x], cmd[x], req[x], proc[x], result[x]>>
  BY <1>1, EndFacts
<1>4. TypeOK'
  BY <1>2, <1>3 DEF IInv, TypeOK
<1>5. Request(c)' /\ Returned(c)'
  BY <1>1, EndKeeps
<1>6. CInv(c)
  BY DEF IInv
<1>7. Content(c)'
  BY <1>1, <1>2, <1>3, <1>6 DEF CInv, Content, Request, Over
<1>8. proc'[c] = "missing" => how = "missing"
  BY <1>1 DEF End, Gone, IInv, TypeOK
<1>9. Directory(c)'
  <2>1. made[c] \in {"no", "there", "removed"}
    BY DEF IInv, TypeOK
  <2>2. Directory(c) /\ UNCHANGED <<dir, made[c], cmd[c], result[c]>>
    BY <1>2, <1>3, <1>6 DEF CInv
  <2>3. cmd[c] = "again" /\ proc'[c] = "missing" => made[c] = "removed"
    BY <1>1, <1>8, <2>1, <2>2 DEF Directory
  <2>4. cmd[c] = "mkdir" /\ proc'[c] = "done" /\ result[c] = "none" => made[c] # "no"
    BY <1>1, <1>3, <1>6 DEF CInv, Request
  <2> QED BY <2>2, <2>3, <2>4 DEF Directory
<1>10. CInv(c)'
  BY <1>5, <1>7, <1>9 DEF CInv
<1> QED BY <1>2, <1>3, <1>4, <1>10, Frame

LEMMA MkdirInv == ASSUME IInv, NEW c \in Calls, Mkdir(c) PROVE IInv'
<1>1. /\ End(c, "done") /\ cmd[c] = "mkdir" /\ "done" \in Over
      /\ dir' = "present" /\ UNCHANGED <<file, clean>>
      /\ made' = [made EXCEPT ![c] = "there"]
  BY DEF Mkdir, Over
<1>2. /\ UNCHANGED <<default, profile, kind, limit, cmd, result>>
      /\ req' \in [Calls -> Shell!Requests]
      /\ proc' \in [Calls -> {"none"} \cup Active \cup Over]
      /\ proc'[c] \in Over
      /\ \A x \in Calls : x # c => UNCHANGED <<kind[x], cmd[x], req[x], proc[x], result[x]>>
  BY <1>1, EndFacts
<1>3. TypeOK'
  BY <1>1, <1>2 DEF IInv, TypeOK
<1>4. Request(c)' /\ Returned(c)'
  BY <1>1, EndKeeps
<1>7. made'[c] = "there" /\ \A x \in Calls : x # c => UNCHANGED made[x]
  BY <1>1 DEF IInv, TypeOK
<1>5. CInv(c)'
  BY <1>1, <1>2, <1>4, <1>7 DEF CInv, Content, Directory
<1>6. ASSUME NEW x \in Calls, x # c PROVE CInv(x)'
  <2>1. /\ CInv(x)
        /\ UNCHANGED <<kind[x], cmd[x], req[x], proc[x], result[x], made[x]>>
    BY <1>2, <1>6, <1>7 DEF IInv
  <2> QED BY <1>1, <1>2, <2>1 DEF CInv, Request, Returned, Content, Directory
<1> QED BY <1>3, <1>5, <1>6 DEF IInv

\* Who does not rely on the file, or may not any more, does not mind a change.
LEMMA TouchedContent ==
    ASSUME IInv, NEW x \in Calls,
           UNCHANGED <<cmd[x], result[x]>>,
           \/ UNCHANGED proc[x]
           \/ proc[x] = "opened" /\ proc'[x] = "unlinked",
           Relies(x) => clean'[x] = "no"
    PROVE  Content(x)'
<1>1. proc[x] \in {"none"} \cup Active \cup Over
  BY DEF IInv, TypeOK
<1> QED BY <1>1 DEF Content, Relies, Active, Over

\* A write of call c changes the file.
LEMMA WriterInv ==
    ASSUME IInv, NEW c \in Calls, NEW how \in Over, End(c, how),
           proc[c] = "opened", Touch(c), how # "missing",
           file' \in {c, "garbled"},
           how = "done" /\ file = "empty" => file' = c,
           how \in {"done", "failed"},
           UNCHANGED <<dir, made>>
    PROVE  IInv'
<1>1. /\ UNCHANGED <<default, profile, kind, limit, cmd, result>>
      /\ req' \in [Calls -> Shell!Requests]
      /\ proc' \in [Calls -> {"none"} \cup Active \cup Over]
      /\ proc'[c] \in Over /\ (result[c] # "unanswered" => proc'[c] = how)
      /\ \A x \in Calls : x # c => UNCHANGED <<kind[x], cmd[x], req[x], proc[x], result[x]>>
  BY EndFacts
<1>2. /\ clean' \in [Calls -> {"yes", "no"}] /\ clean'[c] = clean[c]
      /\ \A x \in Calls : x # c /\ Relies(x) => clean'[x] = "no"
  BY DEF Touch, IInv, TypeOK
<1>3. TypeOK'
  BY <1>1, <1>2 DEF IInv, TypeOK
<1>4. Request(c)' /\ Returned(c)'
  BY EndKeeps
<1>5. CInv(c) /\ cmd[c] \in {"cat", "again"}
  BY DEF IInv, CInv, Request
<1>6. Content(c)'
  BY <1>1, <1>2, <1>5 DEF CInv, Content, Over
<1>7. proc'[c] # "missing"
  BY DEF End, Gone, IInv, TypeOK
<1>8. CInv(c)'
  BY <1>1, <1>4, <1>5, <1>6, <1>7 DEF CInv, Directory
<1>9. ASSUME NEW x \in Calls, x # c PROVE CInv(x)'
  <2>1. CInv(x) /\ UNCHANGED <<kind[x], cmd[x], req[x], proc[x], result[x]>>
    BY <1>1, <1>9 DEF IInv
  <2>2. Content(x)'
    BY <1>2, <1>9, <2>1, TouchedContent
  <2> QED BY <1>1, <2>1, <2>2 DEF CInv, Request, Returned, Directory
<1> QED BY <1>3, <1>8, <1>9 DEF IInv

LEMMA OpenInv == ASSUME IInv, NEW c \in Calls, Open(c) PROVE IInv'
<1>1. /\ UNCHANGED <<default, profile, kind, limit, cmd, req, result, dir, made>>
      /\ file' = "empty" /\ dir = "present" /\ cmd[c] \in {"cat", "again"}
      /\ proc[c] = "begun" /\ proc' = [proc EXCEPT ![c] = "opened"]
  BY DEF Open
<1>2. /\ clean' \in [Calls -> {"yes", "no"}]
      /\ \A x \in Calls : x # c /\ Relies(x) => clean'[x] = "no"
  BY DEF Open, IInv, TypeOK
<1>3. proc'[c] = "opened" /\ \A x \in Calls : x # c => UNCHANGED proc[x]
  BY <1>1 DEF IInv, TypeOK
<1>4. TypeOK'
  BY <1>1, <1>2 DEF IInv, TypeOK, Active
<1>5. CInv(c)
  BY DEF IInv
<1>6. Request(c)' /\ Returned(c)'
  BY <1>1, <1>3, <1>5 DEF CInv, Request, Returned, Active, Over
<1>7. Content(c)' /\ Directory(c)'
  BY <1>1, <1>3, <1>5 DEF CInv, Content, Directory
<1>8. ASSUME NEW x \in Calls, x # c PROVE CInv(x)'
  <2>1. CInv(x) /\ UNCHANGED proc[x]
    BY <1>3, <1>8 DEF IInv
  <2>2. Content(x)'
    BY <1>1, <1>2, <1>8, <2>1, TouchedContent
  <2> QED BY <1>1, <2>1, <2>2 DEF CInv, Request, Returned, Directory
<1> QED BY <1>4, <1>6, <1>7, <1>8 DEF IInv, CInv

LEMMA RemoveInv == ASSUME IInv, NEW c \in Calls, Remove(c) PROVE IInv'
<1>1. /\ UNCHANGED <<default, profile, kind, limit, cmd, req, result>>
      /\ file' = "absent" /\ cmd[c] = "user" /\ proc[c] = "begun"
      /\ \/ UNCHANGED <<dir, made>>
         \/ /\ dir' = "absent"
            /\ made' = [x \in Calls |-> IF made[x] = "there" THEN "removed" ELSE made[x]]
      /\ proc' = [x \in Calls |-> IF proc[x] = "opened" THEN "unlinked" ELSE proc[x]]
  BY DEF Remove
<1>2. /\ clean' \in [Calls -> {"yes", "no"}]
      /\ \A x \in Calls : x # c /\ Relies(x) => clean'[x] = "no"
  BY DEF Remove, Touch, IInv, TypeOK
<1>3. TypeOK'
  BY <1>1, <1>2 DEF IInv, TypeOK, Active
<1>4. ASSUME NEW x \in Calls PROVE CInv(x)'
  <2>1. CInv(x) /\ UNCHANGED <<kind[x], cmd[x], req[x], result[x]>>
    BY <1>1 DEF IInv
  <2>2. UNCHANGED proc[x] \/ (proc[x] = "opened" /\ proc'[x] = "unlinked")
    BY <1>1
  <2>3. ~Relies(c)
    BY <1>1 DEF Relies
  <2>4. Content(x)'
    BY <1>2, <2>1, <2>2, <2>3, TouchedContent
  <2>5. Request(x)' /\ Returned(x)'
    BY <1>1, <2>1, <2>2 DEF CInv, Request, Returned, Active, Over
  <2>6. Directory(x)'
    BY <1>1, <2>1, <2>2 DEF CInv, Directory
  <2> QED BY <2>4, <2>5, <2>6 DEF CInv
<1> QED BY <1>3, <1>4 DEF IInv

-----------------------------------------------------------------------------
LEMMA ProcessInv == ASSUME IInv, NEW c \in Calls, Process(c) PROVE IInv'
<1>1. CASE OpenMissing(c) \/ FillUnlinked(c) \/ UserEnds(c) \/ (Fails(c) /\ UNCHANGED fileVars)
  BY <1>1, QuietEndInv
<1>2. CASE Fails(c) /\ ~UNCHANGED fileVars
  <2>1. /\ End(c, "failed") /\ proc[c] = "opened" /\ Touch(c) /\ file' = "garbled"
        /\ UNCHANGED <<dir, made>> /\ "failed" \in Over
    BY <1>2 DEF Fails, Over
  <2> QED BY <2>1, WriterInv
<1>3. CASE Fill(c)
  <2>1. /\ End(c, "done") /\ proc[c] = "opened" /\ Touch(c) /\ file' \in {c, "garbled"}
        /\ file = "empty" => file' = c
        /\ UNCHANGED <<dir, made>> /\ "done" \in Over
    BY <1>3 DEF Fill, Over
  <2> QED BY <2>1, WriterInv
<1>4. CASE Open(c)
  BY <1>4, OpenInv
<1>5. CASE Mkdir(c)
  BY <1>5, MkdirInv
<1>6. CASE Remove(c)
  BY <1>6, RemoveInv
<1> QED BY <1>1, <1>2, <1>3, <1>4, <1>5, <1>6 DEF Process

LEMMA NextInv == IInv /\ [Next]_vars => IInv'
<1> SUFFICES ASSUME IInv, [Next]_vars PROVE IInv'
  OBVIOUS
<1>1. CASE \E c \in Calls : Call(c)
  BY <1>1, CallInv
<1>2. CASE \E c \in Calls : ReceiveMissing(c) \/ ReceiveMade(c)
  BY <1>2, AskAgainInv
<1>3. CASE \E c \in Calls : ReceiveLast(c) \/ GiveUp(c)
  BY <1>3, ReturnInv
<1>4. CASE \E c \in Calls : Begin(c)
  BY <1>4, BeginInv
<1>5. CASE \E c \in Calls : Refuse(c) \/ Conclude(c) \/ Fail(c) \/ Abandon(c)
  BY <1>5, AnswerInv
<1>6. CASE \E c \in Calls : Process(c)
  BY <1>6, ProcessInv
<1>7. CASE UNCHANGED vars
  BY <1>7 DEF vars, callVars, fileVars, IInv, TypeOK, CInv, Request, Returned, Content, Directory
<1> QED BY <1>1, <1>2, <1>3, <1>4, <1>5, <1>6, <1>7 DEF Next, Receive

LEMMA Inductive == Spec => []IInv
<1>1. Init => IInv
  BY InitInv
<1>2. IInv /\ [Next]_vars => IInv'
  BY NextInv
<1> QED BY <1>1, <1>2, PTL DEF Spec

-----------------------------------------------------------------------------
\* The calls, their requests and processes, and the file keep their types.
THEOREM TypeCorrect == Spec => []TypeOK
<1>1. IInv => TypeOK
  BY DEF IInv
<1> QED BY <1>1, Inductive, PTL

\* exec_write_file answers Ok only if its content is in the file, whether it took one
\* command or three, as long as no other call touched the file after it had opened it.
THEOREM WritesLand == Spec => []WriteLands
<1>1. IInv => WriteLands
  <2> SUFFICES ASSUME IInv, NEW c \in Calls,
                      kind[c] = "write", result[c] = "Ok", clean[c] = "yes"
               PROVE  file = c
    BY DEF WriteLands
  <2>1. CInv(c)
    BY DEF IInv
  <2>2. proc[c] = "done" /\ cmd[c] \in {"cat", "again"}
    BY <2>1 DEF CInv, Returned, Request
  <2> QED BY <2>1, <2>2 DEF CInv, Content
<1> QED BY <1>1, Inductive, PTL

\* No process of exec_write_file goes on after it returned with the service's answer.
THEOREM ReturnsAreFinal == Spec => []ReturnIsFinal
<1>1. IInv => ReturnIsFinal
  <2> SUFFICES ASSUME IInv, NEW c \in Calls, kind[c] = "write",
                      result[c] \in {"Ok", "NonZeroExit", "TimedOut"}
               PROVE  proc[c] \in Over
    BY DEF ReturnIsFinal
  <2>1. CInv(c)
    BY DEF IInv
  <2> QED BY <2>1 DEF CInv, Returned, Request
<1> QED BY <1>1, Inductive, PTL

\* The repetition after `mkdir -p` of exec_write_file meets a missing directory only
\* if somebody removed it in between.
THEOREM MissingDirectoriesAreMade == Spec => []MissingMeansRemoved
<1>1. IInv => MissingMeansRemoved
  <2> SUFFICES ASSUME IInv, NEW c \in Calls,
                      kind[c] = "write", result[c] = "NonZeroExit",
                      proc[c] = "missing", profile # "foreign"
               PROVE  made[c] = "removed"
    BY DEF MissingMeansRemoved
  <2>1. CInv(c)
    BY DEF IInv
  <2> QED BY <2>1 DEF CInv, Returned, Directory
<1> QED BY <1>1, Inductive, PTL
=============================================================================
