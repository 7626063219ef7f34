-------------------------- MODULE LogsStreamProofs --------------------------
(***************************************************************************)
(* For a log and a channel of any length: what the caller has, what is     *)
(* queued, and what the pump holds or reads next are consecutive pieces of *)
(* the log, and an error closes the sequence for good.                     *)
(***************************************************************************)
EXTENDS LogsStream, SequenceTheorems, TLAPS

Passed == Len(received) + Len(chan)   \* items that went through the channel

\* Neither the caller nor the channel has an error: entries 1 .. Passed.
Clean ==
    /\ \A i \in 1 .. Len(received) : received[i] = i
    /\ \A i \in 1 .. Len(chan) : chan[i] = Len(received) + i

\* The last item that went through the channel is an error.
Closed ==
    IF chan # <<>> THEN chan[Len(chan)] = Err
                   ELSE received # <<>> /\ received[Len(received)] = Err

\* Where the pump stands in the log, as long as there is a caller.
Position ==
    rx = "open" =>
        /\ pump = "reading" /\ link = "open" => Clean /\ next = Passed + 1
        /\ pump = "sending" => Clean
        /\ pump = "sending" /\ hand # Err =>
              link = "open" /\ hand = Passed + 1 /\ next = Passed + 2
        /\ pump = "sending" /\ hand = Err => link = "failed"
        /\ pump = "reading" /\ link = "failed" => Closed
        /\ chan # <<>> => \A i \in 1 .. Len(received) : received[i] = i

\* The pump is never ahead of the log, and what it left behind is complete.
Behind ==
    /\ next <= logged + 1
    /\ rx = "open" /\ pump = "done" =>
          token = "cancelled" \/ Closed \/ (container = "exited" /\ Passed = logged)
    /\ rx = "ended" => chan = <<>> /\ pump = "done"

IInv == TypeOK /\ InOrder /\ Position /\ Behind /\ EndIsComplete

-----------------------------------------------------------------------------
LEMMA InitInv == Init => IInv
BY CapAssumption DEF Init, IInv, TypeOK, InOrder, Position, Behind, EndIsComplete,
   Clean, Closed, Passed, Item, Err

\* What happens outside of the task and the channel.
LEMMA SurroundingsInv ==
    ASSUME IInv, Log \/ ContainerStops \/ Cancel
    PROVE  IInv'
<1>1. CASE Log
  <2>1. TypeOK'
    BY <1>1, CapAssumption DEF Log, IInv, TypeOK
  <2>2. InOrder' /\ Position'
    BY <1>1 DEF Log, IInv, InOrder, Position, Clean, Closed, Passed
  <2>3. Behind' /\ EndIsComplete'
    BY <1>1 DEF Log, IInv, TypeOK, Behind, EndIsComplete, Closed, Passed
  <2> QED BY <2>1, <2>2, <2>3 DEF IInv
<1>2. CASE ContainerStops
  BY <1>2 DEF ContainerStops, IInv, TypeOK, InOrder, Position, Behind,
     EndIsComplete, Clean, Closed, Passed
<1>3. CASE Cancel
  BY <1>3 DEF Cancel, IInv, TypeOK, InOrder, Position, Behind, EndIsComplete, Clean,
     Closed, Passed
<1> QED BY <1>1, <1>2, <1>3

LEMMA ReadInv ==
    ASSUME IInv, ReadEntry \/ ReadError \/ ReadEnd
    PROVE  IInv'
<1>1. CASE ReadEntry
  <2>1. TypeOK'
    BY <1>1 DEF ReadEntry, IInv, TypeOK, Item
  <2>2. InOrder' /\ Behind' /\ EndIsComplete'
    BY <1>1 DEF ReadEntry, IInv, TypeOK, InOrder, Behind, EndIsComplete
  <2>3. Position'
    BY <1>1 DEF ReadEntry, IInv, TypeOK, Position, Clean, Passed, Err
  <2> QED BY <2>1, <2>2, <2>3 DEF IInv
<1>2. CASE ReadError
  BY <1>2 DEF ReadError, IInv, TypeOK, InOrder, Position, Behind, EndIsComplete,
     Clean, Closed, Passed, Item, Err
<1>3. CASE ReadEnd
  BY <1>3 DEF ReadEnd, IInv, TypeOK, InOrder, Position, Behind, EndIsComplete,
     Clean, Closed, Passed
<1> QED BY <1>1, <1>2, <1>3

LEMMA SendInv ==
    ASSUME IInv, Send
    PROVE  IInv'
<1>1. /\ pump = "sending" /\ rx = "open" /\ Len(chan) < Cap
      /\ chan' = Append(chan, hand) /\ pump' = "reading"
      /\ UNCHANGED <<logged, container, link, next, hand, token, rx, received>>
  BY DEF Send, IInv, TypeOK, Behind
<1>2. /\ Len(chan') = Len(chan) + 1
      /\ chan'[Len(chan) + 1] = hand
      /\ \A i \in 1 .. Len(chan) : chan'[i] = chan[i]
  BY <1>1 DEF IInv, TypeOK
<1>3. Clean
  BY <1>1 DEF IInv, Position
<1>4. TypeOK'
  BY <1>1, <1>2, CapAssumption DEF IInv, TypeOK
<1>5. CASE hand = Err
  <2>1. Closed' /\ link = "failed"
    BY <1>1, <1>2, <1>5 DEF IInv, TypeOK, Position, Closed
  <2>2. InOrder'
    BY <1>1, <1>2, <1>3, <1>5 DEF IInv, TypeOK, InOrder, Clean
  <2>3. Position'
    BY <1>1, <1>3, <2>1 DEF Position, Clean
  <2>4. Behind' /\ EndIsComplete'
    BY <1>1 DEF IInv, Behind, EndIsComplete
  <2> QED BY <1>4, <2>2, <2>3, <2>4 DEF IInv
<1>6. CASE hand # Err
  <2>1. hand = Passed + 1 /\ next = Passed + 2 /\ link = "open"
    BY <1>1, <1>6 DEF IInv, Position
  <2>2. Clean' /\ Passed' = Passed + 1
    <3>1. Len(received) \in Nat /\ Len(chan) \in Nat
      BY DEF IInv, TypeOK
    <3>2. ASSUME NEW i \in 1 .. Len(chan')
          PROVE  chan'[i] = Len(received) + i
      BY <1>2, <1>3, <2>1, <3>1, <3>2 DEF Clean, Passed
    <3>3. Passed' = Passed + 1
      BY <1>1, <1>2, <3>1 DEF Passed
    <3> QED BY <1>1, <1>3, <3>2, <3>3 DEF Clean
  <2>3. InOrder'
    BY <2>2 DEF InOrder, Clean
  <2>4. Position'
    BY <1>1, <2>1, <2>2 DEF IInv, TypeOK, Position, Clean, Passed
  <2>5. Behind' /\ EndIsComplete'
    BY <1>1 DEF IInv, Behind, EndIsComplete
  <2> QED BY <1>4, <2>3, <2>4, <2>5 DEF IInv
<1> QED BY <1>5, <1>6

LEMMA StopInv ==
    ASSUME IInv, SendFails \/ StopPump
    PROVE  IInv'
<1>1. CASE SendFails
  BY <1>1 DEF SendFails, IInv, TypeOK, InOrder, Position, Behind, EndIsComplete
<1>2. CASE StopPump
  BY <1>2 DEF StopPump, IInv, TypeOK, InOrder, Position, Behind, EndIsComplete
<1> QED BY <1>1, <1>2

LEMMA ReceiveInv ==
    ASSUME IInv, Receive
    PROVE  IInv'
<1>1. /\ rx = "open" /\ chan # <<>>
      /\ received' = Append(received, Head(chan)) /\ chan' = Tail(chan)
      /\ UNCHANGED <<logged, container, link, next, pump, hand, token, rx>>
  BY DEF Receive
<1>2. /\ Len(received') = Len(received) + 1
      /\ received'[Len(received) + 1] = chan[1]
      /\ \A i \in 1 .. Len(received) : received'[i] = received[i]
      /\ Len(chan') = Len(chan) - 1 /\ Len(chan) >= 1
      /\ \A i \in 1 .. Len(chan') : chan'[i] = chan[i + 1]
      /\ chan' = <<>> <=> Len(chan) = 1
  <2>1. received \in Seq(Item) /\ chan \in Seq(Item)
    BY DEF IInv, TypeOK
  <2>2. Len(chan) \in Nat \ {0} /\ Head(chan) = chan[1] /\ Head(chan) \in Item
    BY <1>1, <2>1, EmptySeq, HeadTailProperties
  <2>3. /\ chan' \in Seq(Item) /\ Len(chan') = Len(chan) - 1
        /\ \A i \in 1 .. Len(chan') : chan'[i] = chan[i + 1]
    BY <1>1, <2>1, HeadTailProperties
  <2>4. chan' = <<>> <=> Len(chan) = 1
    BY <2>2, <2>3, EmptySeq
  <2>5. /\ Len(received') = Len(received) + 1
        /\ received'[Len(received) + 1] = chan[1]
        /\ \A i \in 1 .. Len(received) : received'[i] = received[i]
    BY <1>1, <2>1, <2>2
  <2> QED BY <2>2, <2>3, <2>4, <2>5
<1>3. Len(received) \in Nat /\ Len(chan) \in Nat
  BY DEF IInv, TypeOK
<1>4. TypeOK'
  <2>1. chan' \in Seq(Item) /\ received' \in Seq(Item)
    BY <1>1, HeadTailProperties DEF IInv, TypeOK
  <2> QED BY <1>1, <1>2, <2>1, <1>3, CapAssumption DEF IInv, TypeOK
<1>5. Passed' = Passed
  BY <1>2 DEF IInv, TypeOK, Passed
<1>6. \A i \in 1 .. Len(received) : received[i] = i
  BY <1>1 DEF IInv, Position
<1>7. chan[1] = Len(received) + 1 \/ (chan[1] = Err /\ Len(chan) = 1)
  <2>1. 1 \in 1 .. Len(chan)
    BY <1>2, <1>3
  <2>2. \A i \in 1 .. Len(chan) : chan[i] = Len(received) + i \/ (chan[i] = Err /\ i = Len(chan))
    BY <1>1 DEF IInv, InOrder
  <2> QED BY <2>1, <2>2
<1>8. InOrder'
  <2>1. ASSUME NEW i \in 1 .. Len(received')
        PROVE  received'[i] = i \/ (received'[i] = Err /\ i = Len(received'))
    <3>1. CASE i \in 1 .. Len(received)
      BY <1>2, <1>6, <3>1
    <3>2. CASE i = Len(received) + 1
      BY <1>2, <1>7, <3>2
    <3> QED BY <1>2, <1>3, <3>1, <3>2
  <2>2. ASSUME NEW i \in 1 .. Len(chan')
        PROVE  chan'[i] = Len(received') + i \/ (chan'[i] = Err /\ i = Len(chan'))
    <3>1. i + 1 \in 1 .. Len(chan) /\ chan'[i] = chan[i + 1]
      BY <1>2, <1>3, <2>2
    <3>2. chan[i + 1] = Len(received) + (i + 1) \/ (chan[i + 1] = Err /\ i + 1 = Len(chan))
      BY <1>1, <3>1 DEF IInv, InOrder
    <3> QED BY <1>2, <1>3, <2>2, <3>1, <3>2
  <2> QED BY <2>1, <2>2 DEF InOrder
<1>9. Clean => Clean'
  BY <1>2 DEF IInv, TypeOK, Clean
<1>10. Closed => Closed'
  BY <1>1, <1>2 DEF IInv, TypeOK, Closed
<1>11. chan' # <<>> => \A i \in 1 .. Len(received') : received'[i] = i
  <2> SUFFICES ASSUME chan' # <<>> PROVE chan[1] = Len(received) + 1
    BY <1>2, <1>6 DEF IInv, TypeOK
  <2> QED BY <1>2, <1>7
<1>12. Position'
  BY <1>1, <1>5, <1>9, <1>10, <1>11 DEF IInv, Position
<1>13. Behind' /\ EndIsComplete'
  BY <1>1, <1>5, <1>10 DEF IInv, Behind, EndIsComplete
<1> QED BY <1>4, <1>8, <1>12, <1>13 DEF IInv

LEMMA ReceiverEndsInv ==
    ASSUME IInv, ReceiveEnd \/ DropStream
    PROVE  IInv'
<1>1. CASE ReceiveEnd
  BY <1>1 DEF ReceiveEnd, IInv, TypeOK, InOrder, Position, Behind, EndIsComplete,
     Closed, Passed
<1>2. CASE DropStream
  BY <1>2, CapAssumption DEF DropStream, IInv, TypeOK, InOrder, Position, Behind,
     EndIsComplete
<1> QED BY <1>1, <1>2

LEMMA NextInv == IInv /\ [Next]_vars => IInv'
<1> SUFFICES ASSUME IInv, [Next]_vars PROVE IInv'
  OBVIOUS
<1>1. CASE UNCHANGED vars
  BY <1>1 DEF IInv, TypeOK, InOrder, Position, Behind, EndIsComplete, Clean, Closed,
     Passed, vars
<1>2. CASE Next
  BY <1>2, SurroundingsInv, ReadInv, SendInv, StopInv, ReceiveInv, ReceiverEndsInv
     DEF Next, Pump
<1> QED BY <1>1, <1>2

LEMMA Invariance == Spec => []IInv
BY InitInv, NextInv, PTL DEF Spec

-----------------------------------------------------------------------------
\* Type correctness; in particular the channel never exceeds its capacity.
THEOREM TypeCorrect == Spec => []TypeOK
<1>1. IInv => TypeOK
  BY DEF IInv
<1> QED BY Invariance, <1>1, PTL

\* logs_stream gives its caller the log from the first entry on, without a gap, a
\* duplicate or a move, and nothing after an error.
THEOREM LogInOrder == Spec => []InOrder
<1>1. IInv => InOrder
  BY DEF IInv
<1> QED BY Invariance, <1>1, PTL

\* A stream that ends without having been cancelled ends with an error or has
\* delivered the whole log of a stopped container.
THEOREM LogIsComplete == Spec => []EndIsComplete
<1>1. IInv => EndIsComplete
  BY DEF IInv
<1> QED BY Invariance, <1>1, PTL

-----------------------------------------------------------------------------
(* The caller's view.                                                      *)

\* Nothing is on its way that the container has not logged.
Written == hand <= logged /\ \A i \in 1 .. Len(chan) : chan[i] <= logged

LEMMA WrittenInv == IInv /\ Written /\ [Next]_vars => Written'
<1> SUFFICES ASSUME IInv, Written, [Next]_vars PROVE Written'
  OBVIOUS
<1>1. /\ logged \in Nat /\ hand \in Nat /\ chan \in Seq(Nat) /\ Len(chan) \in Nat
      /\ \A i \in 1 .. Len(chan) : chan[i] \in Nat
  BY CapAssumption DEF IInv, TypeOK, Item
<1>2. CASE Log
  BY <1>1, <1>2 DEF Log, Written
<1>3. CASE ContainerStops \/ Cancel \/ ReadEnd \/ SendFails \/ StopPump \/ ReceiveEnd
           \/ UNCHANGED vars
  BY <1>3 DEF ContainerStops, Cancel, ReadEnd, SendFails, StopPump, ReceiveEnd, vars, Written
<1>4. CASE ReadEntry \/ ReadError
  BY <1>1, <1>4 DEF ReadEntry, ReadError, Written, Err
<1>5. CASE Send
  <2>1. chan' = Append(chan, hand) /\ UNCHANGED <<hand, logged>>
    BY <1>5 DEF Send
  <2>2. /\ Len(chan') = Len(chan) + 1
        /\ \A i \in 1 .. Len(chan') : chan'[i] = IF i <= Len(chan) THEN chan[i] ELSE hand
    BY <1>1, <2>1
  <2> QED BY <1>1, <2>1, <2>2 DEF Written
<1>6. CASE Receive
  <2>1. chan # <<>> /\ chan' = Tail(chan) /\ UNCHANGED <<hand, logged>>
    BY <1>6 DEF Receive
  <2>2. /\ Len(chan') = Len(chan) - 1
        /\ \A i \in 1 .. Len(chan') : chan'[i] = chan[i + 1]
    BY <1>1, <2>1, HeadTailProperties
  <2> QED BY <1>1, <2>1, <2>2 DEF Written
<1>7. CASE DropStream
  BY <1>7 DEF DropStream, Written
<1> QED BY <1>2, <1>3, <1>4, <1>5, <1>6, <1>7 DEF Next, Pump

\* The caller is given the next entry, which the container has written, or an error.
LEMMA ReceiveSeen == ASSUME IInv, Written, Receive PROVE Stream!Give
<1>1. /\ rx = "open" /\ chan # <<>> /\ received' = Append(received, Head(chan))
      /\ UNCHANGED <<logged, container, token, rx>>
  BY DEF Receive
<1>2. Len(received) \in Nat /\ Len(chan) \in Nat /\ logged \in Nat
  BY CapAssumption DEF IInv, TypeOK
<1>3. Head(chan) = chan[1] /\ 1 \in 1 .. Len(chan)
  BY <1>1, <1>2, EmptySeq, HeadTailProperties DEF IInv, TypeOK
<1>4. ~Stream!Failed
  <2> SUFFICES ASSUME received # <<>> PROVE received[Len(received)] # 0
    BY DEF Stream!Failed, Stream!Err
  <2>1. Len(received) \in 1 .. Len(received)
    BY <1>2, EmptySeq DEF IInv, TypeOK
  <2>2. received[Len(received)] = Len(received)
    BY <1>1, <2>1 DEF IInv, Position
  <2> QED BY <2>1, <2>2
<1>5. \/ chan[1] = Len(received) + 1 /\ Len(received) < logged
      \/ chan[1] = Err
  <2>1. chan[1] = Len(received) + 1 \/ chan[1] = Err
    BY <1>1, <1>3 DEF IInv, InOrder
  <2>2. chan[1] <= logged
    BY <1>3 DEF Written
  <2> QED BY <1>2, <2>1, <2>2
<1> QED BY <1>1, <1>3, <1>4, <1>5 DEF Stream!Give, Stream!Err, Err

\* The end the caller sees is one it may see.
LEMMA EndSeen == ASSUME IInv, ReceiveEnd PROVE Stream!End
<1>1. /\ rx = "open" /\ chan = <<>> /\ pump = "done" /\ rx' = "ended"
      /\ UNCHANGED <<logged, container, token, received>>
  BY DEF ReceiveEnd
<1>2. token = "cancelled" \/ Closed \/ (container = "exited" /\ Passed = logged)
  BY <1>1 DEF IInv, Behind
<1>3. Closed => Stream!Failed
  BY <1>1 DEF Closed, Stream!Failed, Stream!Err, Err
<1>4. Passed = Len(received)
  BY <1>1 DEF Passed, IInv, TypeOK
<1> QED BY <1>1, <1>2, <1>3, <1>4 DEF Stream!End

LEMMA NextSeen == IInv /\ Written /\ [Next]_vars => [Stream!Next]_(Stream!vars)
<1> SUFFICES ASSUME IInv, Written, [Next]_vars PROVE [Stream!Next]_(Stream!vars)
  OBVIOUS
<1>1. CASE Log
  BY <1>1 DEF Log, Stream!Next, Stream!Grow
<1>2. CASE ContainerStops
  BY <1>2 DEF ContainerStops, Stream!Next, Stream!Finish
<1>3. CASE Cancel
  BY <1>3 DEF Cancel, Stream!Next, Stream!Cut
<1>4. CASE Receive
  BY <1>4, ReceiveSeen DEF Stream!Next
<1>5. CASE ReceiveEnd
  BY <1>5, EndSeen DEF Stream!Next
<1>6. CASE DropStream
  BY <1>6 DEF DropStream, Stream!Next, Stream!Drop
<1>7. CASE Pump \/ StopPump \/ UNCHANGED vars
  BY <1>7 DEF Pump, ReadEntry, ReadError, ReadEnd, Send, SendFails, StopPump, vars, Stream!vars
<1> QED BY <1>1, <1>2, <1>3, <1>4, <1>5, <1>6, <1>7 DEF Next

\* For a log and a channel of any length, what a caller of logs_stream sees of the pump,
\* the channel and the cancellation is a behaviour of ItemStream.
THEOREM StreamIsImplemented == Spec => ImplementsStream
<1>1. Init => Stream!Init /\ Written
  BY CapAssumption DEF Init, Stream!Init, Written, Err
<1>2. IInv /\ Written /\ [Next]_vars => [Stream!Next]_(Stream!vars)
  BY NextSeen
<1> QED BY <1>1, <1>2, WrittenInv, Invariance, PTL DEF Spec, ImplementsStream, Stream!Spec
=============================================================================
