----------------------- MODULE StartupHandshakeProofs -----------------------
(***************************************************************************)
(* For any limit and any amount of other output: the wait is bounded in    *)
(* items, and it ends early for none of its three reasons.                 *)
(***************************************************************************)
EXTENDS StartupHandshake, SequenceTheorems, TLAPS

\* The counter trails the items taken by the one in hand.
Counting ==
    /\ wait = "next" => reads = count /\ count <= Limit + 1
    /\ wait = "asleep" => reads = count + 1 /\ count <= Limit
    /\ wait = "returned" => reads <= Limit + 2

\* A banner, wherever it is, was logged by main() or by the image itself.
Banners ==
    /\ boot \in {"shell", "loader", "bind", "serving"} => main = "reached"
    /\ \A i \in 1 .. Len(log) : log[i] = "banner" => main = "reached" \/ claimed
    /\ line = "banner" => main = "reached" \/ claimed

\* Lines the wait saw, or is about to count, which are no banner.
Seen == IF wait = "asleep" /\ line = "other" THEN count + 1 ELSE count

\* As long as the log can be read, what the wait counted and the other lines
\* still unread were printed by the image, one by one.
Accounted ==
    stream = "open" =>
        /\ line # "error"
        /\ wait # "returned" =>
              /\ Seen <= printed
              /\ boot = "image" => Seen + Len(log) <= printed
              /\ \A i \in 1 .. Len(log) : log[i] = "other" => Seen + i <= printed

Undecided == wait # "returned" => why = "none"

IInv == TypeOK /\ Counting /\ Banners /\ Accounted /\ Undecided /\ ReasonsHold

-----------------------------------------------------------------------------
LEMMA InitInv == Init => IInv
<1> SUFFICES ASSUME Init PROVE IInv
  OBVIOUS
<1>1. claimed \in BOOLEAN
  BY DEF Init
<1>2. log = <<>> /\ Len(log) = 0 /\ log \in Seq(Lines)
  BY DEF Init
<1>3. TypeOK
  BY <1>1, <1>2, LimitAssumption DEF Init, TypeOK, Lines, Items
<1>4. Banners
  BY <1>2 DEF Init, Banners
<1>5. Counting /\ Accounted /\ Undecided
  BY <1>2, LimitAssumption DEF Init, Counting, Seen, Accounted, Undecided
<1>6. ReasonsHold
  BY DEF Init, ReasonsHold
<1> QED BY <1>3, <1>4, <1>5, <1>6 DEF IInv

\* A line is appended: what the container does to the log.
LEMMA AppendFacts ==
    ASSUME log \in Seq(Lines), NEW text \in Lines
    PROVE  /\ Append(log, text) \in Seq(Lines)
           /\ Len(log) \in Nat
           /\ Len(Append(log, text)) = Len(log) + 1
           /\ \A i \in 1 .. Len(log) + 1 :
                 Append(log, text)[i] = IF i = Len(log) + 1 THEN text ELSE log[i]
OBVIOUS

LEMMA PrintInv == ASSUME IInv, ImagePrints PROVE IInv'
<1>1. PICK text \in Lines :
          log' = Append(log, text) /\ claimed' = (claimed \/ text = "banner")
  BY DEF ImagePrints
<1>2. /\ log' \in Seq(Lines) /\ Len(log) \in Nat /\ Len(log') = Len(log) + 1
      /\ \A i \in 1 .. Len(log) + 1 :
            log'[i] = IF i = Len(log) + 1 THEN text ELSE log[i]
  BY <1>1, AppendFacts DEF IInv, TypeOK
<1>3. claimed' \in BOOLEAN
  BY <1>1
<1>4. TypeOK'
  BY <1>2, <1>3, LimitAssumption DEF ImagePrints, IInv, TypeOK, waiter
<1>5. Counting' /\ Undecided'
  BY LimitAssumption DEF ImagePrints, IInv, TypeOK, waiter, Counting, Undecided
<1>6. claimed => claimed'
  BY <1>1
<1>7. ReasonsHold'
  BY <1>6, LimitAssumption DEF ImagePrints, IInv, TypeOK, waiter, ReasonsHold
<1>8. Banners'
  <2>1. text = "banner" => claimed'
    BY <1>1
  <2> QED BY <1>2, <1>6, <2>1 DEF ImagePrints, IInv, waiter, Banners
<1>9. Accounted'
  BY <1>2 DEF ImagePrints, IInv, TypeOK, waiter, Accounted, Seen
<1> QED BY <1>4, <1>5, <1>7, <1>8, <1>9 DEF IInv

\* The service only appends banners, once main() was reached.
LEMMA ServiceInv == ASSUME IInv, Service \/ Exit PROVE IInv'
<1>1. CASE ServiceStarts \/ Bind \/ Exit
  <2>1. TypeOK' /\ Counting' /\ Undecided' /\ ReasonsHold'
    BY <1>1 DEF ServiceStarts, Bind, Exit, BootTo, waiter, IInv, TypeOK, Counting,
       Undecided, ReasonsHold
  <2>2. Banners' /\ Accounted'
    BY <1>1 DEF ServiceStarts, Bind, Exit, BootTo, waiter, IInv, TypeOK, Banners,
       Accounted, Seen
  <2> QED BY <2>1, <2>2 DEF IInv
<1>2. CASE LogShellBanner \/ LogLoaderBanner
  <2>1. /\ log' \in Seq(Lines) /\ Len(log) \in Nat /\ Len(log') = Len(log) + 1
        /\ \A i \in 1 .. Len(log) + 1 :
              log'[i] = IF i = Len(log) + 1 THEN "banner" ELSE log[i]
    <3>1. log \in Seq(Lines) /\ "banner" \in Lines
      BY DEF IInv, TypeOK, Lines
    <3> QED BY <1>2, <3>1, AppendFacts DEF LogShellBanner, LogLoaderBanner
  <2>2. TypeOK' /\ Counting' /\ Undecided' /\ ReasonsHold'
    BY <1>2, <2>1 DEF LogShellBanner, LogLoaderBanner, BootTo, waiter, IInv, TypeOK,
       Counting, Undecided, ReasonsHold
  <2>3. Banners'
    BY <1>2, <2>1 DEF LogShellBanner, LogLoaderBanner, BootTo, waiter, IInv, Banners
  <2>4. Accounted'
    BY <1>2, <2>1 DEF LogShellBanner, LogLoaderBanner, BootTo, waiter, IInv, TypeOK,
       Accounted, Seen
  <2> QED BY <2>2, <2>3, <2>4 DEF IInv
<1> QED BY <1>1, <1>2 DEF Service

LEMMA TakeLineInv == ASSUME IInv, TakeLine PROVE IInv'
<1>1. /\ log \in Seq(Lines) /\ log # <<>>
      /\ log' \in Seq(Lines) /\ Head(log) \in Lines
      /\ Len(log) \in Nat /\ Len(log) >= 1 /\ Len(log') = Len(log) - 1
      /\ 1 \in 1 .. Len(log) /\ Head(log) = log[1]
      /\ \A i \in 1 .. Len(log') : i + 1 \in 1 .. Len(log) /\ log'[i] = log[i + 1]
  BY HeadTailProperties DEF TakeLine, IInv, TypeOK
<1>2. TypeOK'
  BY <1>1 DEF TakeLine, Take, Return, container, IInv, TypeOK, Items
<1>3. Counting'
  BY LimitAssumption DEF TakeLine, Take, Return, PastLimit, container, IInv, TypeOK,
     Counting
<1>4. Banners'
  BY <1>1 DEF TakeLine, Take, container, IInv, Banners
<1>5. Accounted'
  <2>1. line' = Head(log) /\ Head(log) \in {"other", "banner"}
    BY <1>1 DEF TakeLine, Take, Lines
  <2>2. stream = "open" /\ Seen = count /\ wait = "next"
    BY DEF TakeLine, Take, Seen
  <2>3. CASE line' = "other"
    BY <1>1, <2>1, <2>2, <2>3 DEF TakeLine, Take, Return, container, IInv, TypeOK,
       Accounted, Seen
  <2>4. CASE line' = "banner"
    BY <1>1, <2>1, <2>2, <2>4 DEF TakeLine, Take, Return, container, IInv, TypeOK,
       Accounted, Seen
  <2> QED BY <2>1, <2>3, <2>4
<1>6. Undecided' /\ ReasonsHold'
  BY LimitAssumption DEF TakeLine, Take, Return, PastLimit, container, IInv, TypeOK,
     Accounted, Seen, Undecided, ReasonsHold
<1> QED BY <1>2, <1>3, <1>4, <1>5, <1>6 DEF IInv

LEMMA TakeErrorInv == ASSUME IInv, TakeError PROVE IInv'
<1>1. TypeOK' /\ Banners' /\ Accounted'
  BY DEF TakeError, Take, Return, container, IInv, TypeOK, Items, Banners, Accounted
<1>2. Counting'
  BY LimitAssumption DEF TakeError, Take, Return, PastLimit, container, IInv, TypeOK,
     Counting
<1>3. Undecided' /\ ReasonsHold'
  BY LimitAssumption DEF TakeError, Take, Return, PastLimit, container, IInv, TypeOK,
     Accounted, Seen, Undecided, ReasonsHold
<1> QED BY <1>1, <1>2, <1>3 DEF IInv

LEMMA LookInv == ASSUME IInv, Look PROVE IInv'
<1>1. TypeOK' /\ Banners'
  BY DEF Look, Return, container, IInv, TypeOK, Banners
<1>2. Counting'
  BY LimitAssumption DEF Look, Return, container, IInv, TypeOK, Counting
<1>3. Accounted'
  BY DEF Look, Return, container, IInv, TypeOK, Items, Lines, Accounted, Seen
<1>4. Undecided' /\ ReasonsHold'
  BY DEF Look, Return, container, IInv, Banners, Undecided, ReasonsHold
<1> QED BY <1>1, <1>2, <1>3, <1>4 DEF IInv

LEMMA StreamEndsInv == ASSUME IInv, StreamEnds PROVE IInv'
BY LimitAssumption DEF StreamEnds, Return, container, IInv, TypeOK, Counting, Banners,
   Accounted, Seen, Undecided, ReasonsHold

LEMMA NextInv == IInv /\ [Next]_vars => IInv'
<1> SUFFICES ASSUME IInv, [Next]_vars PROVE IInv'
  OBVIOUS
<1>1. CASE ImagePrints
  BY <1>1, PrintInv
<1>2. CASE Service \/ Exit
  BY <1>2, ServiceInv
<1>3. CASE Waiter
  BY <1>3, TakeLineInv, LookInv, StreamEndsInv DEF Waiter
<1>4. CASE TakeError
  BY <1>4, TakeErrorInv
<1>5. CASE UNCHANGED vars
  BY <1>5 DEF vars, container, waiter, IInv, TypeOK, Counting, Banners, Accounted,
     Seen, Undecided, ReasonsHold
<1> QED BY <1>1, <1>2, <1>3, <1>4, <1>5 DEF Next

LEMMA Inductive == Spec => []IInv
<1>1. Init => IInv
  BY InitInv
<1>2. IInv /\ [Next]_vars => IInv'
  BY NextInv
<1> QED BY <1>1, <1>2, PTL DEF Spec

-----------------------------------------------------------------------------
\* The variables of the container, of its log and of the wait keep their types.
THEOREM TypeCorrect == Spec => []TypeOK
<1>1. IInv => TypeOK
  BY DEF IInv
<1> QED BY <1>1, Inductive, PTL

\* `wait_for_logs` takes at most Limit + 2 items, each of which it sleeps over once,
\* so that its time is bounded by what it is given, for every limit and every log.
THEOREM WaitHasABudget == Spec => []ReadBudget
<1>1. IInv => ReadBudget
  BY LimitAssumption DEF IInv, TypeOK, Counting, ReadBudget
<1> QED BY <1>1, Inductive, PTL

\* `wait_for_logs` returns on a matching line only if main() ran or the image printed
\* such a line itself, on the end of the log only if the container stopped or its log
\* cannot be read, and on the limit only after that many lines of the image.
THEOREM EndsForItsReason == Spec => []ReasonsHold
<1>1. IInv => ReasonsHold
  BY DEF IInv
<1> QED BY <1>1, Inductive, PTL
=============================================================================
