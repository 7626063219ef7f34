-------------------------- MODULE FileLoadingProofs --------------------------
(***************************************************************************)
(* For any number of files and any capacities: the stream has the files in *)
(* their order, and one that is cut short says so.                         *)
(***************************************************************************)
EXTENDS FileLoading, SequenceTheorems, TLAPS

-----------------------------------------------------------------------------
(* The inductive invariant: the file n, or an error that ends it all, is   *)
(* the n-th in received, chan, hand and wire, read one after the other.    *)

Out  == Len(received) + Len(chan)   \* items that went through the channel
Held == IF task = "sending" THEN 1 ELSE 0

\* The error of a response that broke is the last thing the task sends.
Over == rpc = "closed" /\ task # "sending"

InReceived ==
    \A i \in 1 .. Len(received) :
        received[i] = i \/ (received[i] = Err /\ i = Len(received) /\ chan = <<>> /\ Over)

InChan ==
    \A i \in 1 .. Len(chan) :
        chan[i] = Len(received) + i \/ (chan[i] = Err /\ i = Len(chan) /\ Over)

InHand ==
    task = "sending" /\ rx # "dropped" =>
        hand = IF rpc = "closed" THEN Err ELSE Out + 1

InWire ==
    rx # "dropped" => \A i \in 1 .. Len(wire) : wire[i] = Out + Held + i

Count ==
    rx # "dropped" /\ rpc \in {"open", "ended"} => Out + Held + Len(wire) = sent

\* The error is on its way, or has arrived.
Reported ==
    rx # "dropped" /\ Over =>
        \/ chan # <<>> /\ chan[Len(chan)] = Err
        \/ chan = <<>> /\ EndsInErr

Phases ==
    /\ call = "connecting" => task = "none"
    /\ task \in {"none", "requesting"} => rpc = "none"
    /\ task \in {"reading", "sending"} => rpc # "none"
    /\ rpc = "none" => wire = <<>> /\ chan = <<>> /\ received = <<>> /\ sent = 0
    /\ rpc = "closed" => wire = <<>>
    /\ rpc = "ended" => sent = Files
    /\ task = "done" /\ rpc # "none" /\ rx # "dropped" =>
           wire = <<>> /\ rpc \in {"ended", "closed"}
    /\ rx = "ended" => task = "done" /\ chan = <<>>

IInv ==
    /\ TypeOK /\ Phases
    /\ InReceived /\ InChan /\ InHand /\ InWire
    /\ Count /\ Reported

\* All of IInv but the types is about these.
flow == <<call, task, rpc, wire, sent, hand, chan, rx, received>>

LEMMA FlowFrame ==
    ASSUME IInv, UNCHANGED flow, TypeOK'
    PROVE  IInv'
BY DEF IInv, flow, Phases, InReceived, InChan, InHand, InWire, Count, Reported,
   Over, Out, Held, EndsInErr

-----------------------------------------------------------------------------
LEMMA InitInv == Init => IInv
<1> SUFFICES ASSUME Init PROVE IInv
  OBVIOUS
<1>1. TypeOK
  BY BoundsAssumption DEF Init, TypeOK, Item, Err
<1>2. Phases /\ InReceived /\ InChan /\ InHand /\ InWire /\ Count /\ Reported
  BY DEF Init, Phases, InReceived, InChan, InHand, InWire, Count, Reported, Over
<1> QED BY <1>1, <1>2 DEF IInv

\* The steps of the executors' owners, but for the connection.
LEMMA OwnersInv ==
    ASSUME IInv, DropExecutor \/ KillContainer \/ DrainEnds
    PROVE  IInv'
<1>1. TypeOK'
  <2>1. CASE DropExecutor
    BY <2>1 DEF IInv, TypeOK, DropExecutor, QueueJob, config, server, link, client
  <2>2. CASE KillContainer
    BY <2>2 DEF IInv, TypeOK, KillContainer, config, link, client
  <2>3. CASE DrainEnds
    BY <2>3 DEF IInv, TypeOK, DrainEnds, config, host, link, client
  <2> QED BY <2>1, <2>2, <2>3
<1>2. UNCHANGED flow
  BY DEF DropExecutor, KillContainer, DrainEnds, flow,
     config, host, server, link, client
<1> QED BY <1>1, <1>2, FlowFrame

\* What the loader owns is dropped, whatever its mode.
LEMMA ReturnsTypes ==
    ASSUME TypeOK, Returns
    PROVE  /\ live' \subseteq {"loader", "user"}
           /\ job' \in {"idle", "queued", "killed", "done"}
<1>1. CASE mode = "owned"
  BY <1>1 DEF Returns, TypeOK, QueueJob
<1>2. CASE mode # "owned"
  BY <1>2 DEF Returns, TypeOK
<1> QED BY <1>1, <1>2

LEMMA ConnectInv ==
    ASSUME IInv, Connect \/ ConnectPanics
    PROVE  IInv'
<1>0. TypeOK /\ Phases
  BY DEF IInv
<1>1. CASE Connect
  <2>1. /\ UNCHANGED <<mode, retain, svc, crashed, rpc, wire, sent, hand, chan, rx, received>>
        /\ task = "none" /\ rpc = "none"
        /\ call' = "returned" /\ task' = "requesting" /\ Returns
    BY <1>0, <1>1 DEF Connect, config, server, link, Phases
  <2>2. TypeOK'
    BY <1>0, <2>1, ReturnsTypes DEF TypeOK
  <2>3. Phases' /\ InReceived' /\ InChan' /\ InHand' /\ InWire' /\ Count' /\ Reported'
    BY <1>0, <2>1 DEF IInv, Phases, InReceived, InChan, InHand, InWire, Count, Reported,
       Over, Out, Held, EndsInErr
  <2> QED BY <2>2, <2>3 DEF IInv
<1>2. CASE ConnectPanics
  <2>1. /\ UNCHANGED <<mode, retain, svc, crashed, task, rpc, wire, sent, hand, chan, received>>
        /\ call' = "panicked" /\ rx' = "dropped" /\ task = "none" /\ Returns
    BY <1>0, <1>2 DEF ConnectPanics, config, server, link, Phases
  <2>2. TypeOK'
    BY <1>0, <2>1, ReturnsTypes DEF TypeOK
  <2>3. Phases' /\ InReceived' /\ InChan' /\ InHand' /\ InWire' /\ Count' /\ Reported'
    BY <1>0, <2>1 DEF IInv, Phases, InReceived, InChan, InHand, InWire, Count, Reported,
       Over, Out, Held, EndsInErr
  <2> QED BY <2>2, <2>3 DEF IInv
<1> QED BY <1>1, <1>2

\* What is on the wire is cut somewhere, or not at all.
LEMMA CutOffInv ==
    ASSUME IInv, CutOff, crashed' \in {"yes", "no"},
           job' \in {"idle", "queued", "killed", "done"},
           UNCHANGED <<mode, retain, live, call, client>>
    PROVE  IInv'
<1>0. TypeOK /\ Phases /\ UNCHANGED <<task, hand, chan, rx, received, sent>>
  BY DEF IInv, client, CutOff
<1>1. PICK n \in 0 .. Len(wire) :
        /\ wire' = SubSeq(wire, 1, n)
        /\ rpc' = IF rpc = "open" \/ (rpc = "ended" /\ n < Len(wire)) THEN "broken" ELSE rpc
  BY DEF CutOff
<1>2. Len(wire) \in Nat
  BY <1>0 DEF TypeOK
<1>3. wire' \in Seq(Item) /\ Len(wire') = n /\ \A i \in 1 .. n : wire'[i] = wire[i]
  BY <1>0, <1>1, <1>2 DEF TypeOK
<1>4. TypeOK'
  BY <1>0, <1>1, <1>2, <1>3, BoundsAssumption DEF TypeOK, CutOff, Item
<1>5. wire = <<>> => wire' = <<>>
  BY <1>1, <1>2, <1>3, EmptySeq, <1>0 DEF TypeOK
<1>6. /\ rpc' = "closed" <=> rpc = "closed"
      /\ rpc' = "none" <=> rpc = "none"
      /\ rpc' # "open"
      /\ rpc' = "ended" => rpc = "ended" /\ n = Len(wire)
      /\ rpc = "ended" /\ wire = <<>> => rpc' = "ended"
  BY <1>1, <1>2
<1>7. Phases'
  BY <1>0, <1>5, <1>6 DEF Phases
<1>8. InReceived' /\ InChan' /\ InHand' /\ Reported'
  BY <1>0, <1>6 DEF IInv, InReceived, InChan, InHand, Reported, Over, Out, EndsInErr
<1>9. InWire' /\ Count'
  BY <1>0, <1>2, <1>3, <1>6 DEF IInv, InWire, Count, Out, Held
<1> QED BY <1>4, <1>7, <1>8, <1>9 DEF IInv

LEMMA RemoveInv ==
    ASSUME IInv, RemoveContainer \/ Crash
    PROVE  IInv'
<1>1. CutOff
  BY DEF RemoveContainer, Crash
<1>2. crashed' \in {"yes", "no"} /\ job' \in {"idle", "queued", "killed", "done"}
  BY DEF RemoveContainer, Crash, IInv, TypeOK, host, config
<1>3. UNCHANGED <<mode, retain, live, call, client>>
  BY DEF RemoveContainer, Crash, host, config
<1> QED BY <1>1, <1>2, <1>3, CutOffInv

-----------------------------------------------------------------------------
LEMMA ServeInv ==
    ASSUME IInv, Serve
    PROVE  IInv'
<1>0. TypeOK /\ Phases /\ rpc = "open" /\ sent < Files /\ Len(wire) < WireCap
  BY DEF IInv, Serve
<1>1. /\ UNCHANGED <<mode, retain, live, job, call, svc, crashed>>
      /\ UNCHANGED <<task, hand, chan, rx, received, rpc>>
      /\ wire' = Append(wire, sent + 1) /\ sent' = sent + 1
  BY DEF Serve, host, config, server, client
<1>2. Len(wire) \in Nat /\ Len(chan) \in Nat /\ Len(received) \in Nat /\ sent \in Nat
  BY <1>0, BoundsAssumption DEF TypeOK
<1>3. /\ wire' \in Seq(Item) /\ Len(wire') = Len(wire) + 1
      /\ \A i \in 1 .. Len(wire') :
            wire'[i] = IF i <= Len(wire) THEN wire[i] ELSE sent + 1
  BY <1>0, <1>1, <1>2, BoundsAssumption DEF TypeOK, Item
<1>4. TypeOK'
  BY <1>0, <1>1, <1>2, <1>3, BoundsAssumption DEF TypeOK
<1>5. Phases' /\ InReceived' /\ InChan' /\ InHand' /\ Reported'
  BY <1>0, <1>1 DEF IInv, Phases, InReceived, InChan, InHand, Reported, Over, Out,
     EndsInErr
<1>6. InWire' /\ Count'
  BY <1>0, <1>1, <1>2, <1>3 DEF IInv, InWire, Count, Out, Held
<1> QED BY <1>4, <1>5, <1>6 DEF IInv

LEMMA ServiceInv ==
    ASSUME IInv, ServeError \/ ServeEnd
    PROVE  IInv'
<1>0. TypeOK /\ Phases
  BY DEF IInv
<1>1. CASE ServeError
  <2>1. TypeOK'
    BY <1>0, <1>1 DEF ServeError, TypeOK, host, config, client
  <2>2. Phases' /\ InReceived' /\ InChan' /\ InHand' /\ InWire' /\ Count' /\ Reported'
    BY <1>0, <1>1 DEF IInv, ServeError, host, client, Phases, InReceived, InChan, InHand,
       InWire, Count, Reported, Over, Out, Held, EndsInErr
  <2> QED BY <2>1, <2>2 DEF IInv
<1>2. CASE ServeEnd
  <2>1. TypeOK'
    BY <1>0, <1>2 DEF ServeEnd, TypeOK, host, config, server, client
  <2>2. Phases' /\ InReceived' /\ InChan' /\ InHand' /\ InWire' /\ Count' /\ Reported'
    BY <1>0, <1>2 DEF IInv, ServeEnd, host, client, Phases, InReceived, InChan, InHand,
       InWire, Count, Reported, Over, Out, Held, EndsInErr
  <2> QED BY <2>1, <2>2 DEF IInv
<1> QED BY <1>1, <1>2

-----------------------------------------------------------------------------
LEMMA RequestInv ==
    ASSUME IInv, Request \/ RequestFails
    PROVE  IInv'
<1>0. TypeOK /\ Phases
  BY DEF IInv
<1>1. CASE Request
  <2>1. TypeOK'
    BY <1>0, <1>1 DEF Request, TypeOK, host, config, server
  <2>2. Phases' /\ InReceived' /\ InChan' /\ InHand' /\ InWire' /\ Count' /\ Reported'
    BY <1>0, <1>1 DEF IInv, Request, host, Phases, InReceived, InChan, InHand,
       InWire, Count, Reported, Over, Out, Held, EndsInErr
  <2> QED BY <2>1, <2>2 DEF IInv
<1>2. CASE RequestFails
  <2>1. TypeOK'
    BY <1>0, <1>2 DEF RequestFails, TypeOK, host, config, server, link
  <2>2. Phases' /\ InReceived' /\ InChan' /\ InHand' /\ InWire' /\ Count' /\ Reported'
    BY <1>0, <1>2 DEF IInv, RequestFails, host, link, Phases, InReceived, InChan, InHand,
       InWire, Count, Reported, Over, Out, Held, EndsInErr
  <2> QED BY <2>1, <2>2 DEF IInv
<1> QED BY <1>1, <1>2

\* The file is the next one, since nothing was held.
LEMMA ReadInv ==
    ASSUME IInv, Read
    PROVE  IInv'
<1>0. TypeOK /\ Phases /\ task = "reading" /\ wire # <<>> /\ wire \in Seq(Item)
  BY DEF IInv, Read, TypeOK
<1>1. /\ UNCHANGED <<mode, retain, live, job, call, svc, crashed>>
      /\ UNCHANGED <<rpc, sent, chan, rx, received>>
      /\ hand' = Head(wire) /\ wire' = Tail(wire) /\ task' = "sending"
  BY DEF Read, host, config, server
<1>2. Len(wire) \in Nat /\ Len(chan) \in Nat /\ Len(received) \in Nat
  BY <1>0 DEF TypeOK
<1>3. /\ Len(wire) > 0 /\ hand' = wire[1] /\ hand' \in Item
      /\ wire' \in Seq(Item) /\ Len(wire') = Len(wire) - 1
      /\ \A i \in 1 .. Len(wire') : wire'[i] = wire[i + 1]
  BY <1>0, <1>1, <1>2, EmptySeq, HeadTailProperties
<1>4. TypeOK'
  BY <1>0, <1>1, <1>2, <1>3, BoundsAssumption DEF TypeOK
<1>5. rpc # "closed"
  BY <1>0 DEF Phases
<1>6. Phases' /\ InReceived' /\ InChan' /\ Reported'
  BY <1>0, <1>1, <1>5 DEF IInv, Phases, InReceived, InChan, Reported, Over
<1>7. InHand' /\ InWire' /\ Count'
  BY <1>0, <1>1, <1>2, <1>3, <1>5 DEF IInv, InHand, InWire, Count, Out, Held
<1> QED BY <1>4, <1>6, <1>7 DEF IInv

LEMMA ReadEndInv ==
    ASSUME IInv, ReadError \/ ReadEnd
    PROVE  IInv'
<1>0. TypeOK /\ Phases
  BY DEF IInv
<1>1. CASE ReadError
  <2>1. TypeOK'
    BY <1>0, <1>1, BoundsAssumption DEF ReadError, TypeOK, host, config, server, Item, Err
  <2>2. Phases' /\ InReceived' /\ InChan' /\ InHand' /\ InWire' /\ Count' /\ Reported'
    BY <1>0, <1>1 DEF IInv, ReadError, host, Phases, InReceived, InChan, InHand,
       InWire, Count, Reported, Over, Out, Held, EndsInErr
  <2> QED BY <2>1, <2>2 DEF IInv
<1>2. CASE ReadEnd
  <2>1. TypeOK'
    BY <1>0, <1>2 DEF ReadEnd, TypeOK, host, config, server, link
  <2>2. Phases' /\ InReceived' /\ InChan' /\ InHand' /\ InWire' /\ Count' /\ Reported'
    BY <1>0, <1>2 DEF IInv, ReadEnd, host, link, Phases, InReceived, InChan, InHand,
       InWire, Count, Reported, Over, Out, Held, EndsInErr
  <2> QED BY <2>1, <2>2 DEF IInv
<1> QED BY <1>1, <1>2

\* The item takes its place behind those in the channel; an error closes it.
LEMMA SendInv ==
    ASSUME IInv, Send
    PROVE  IInv'
<1>0. /\ TypeOK /\ Phases
      /\ task = "sending" /\ rx # "dropped" /\ Len(chan) < Cap /\ chan \in Seq(Item)
  BY DEF IInv, Send, TypeOK
<1>1. /\ UNCHANGED <<mode, retain, live, job, call, svc, crashed>>
      /\ UNCHANGED <<rpc, wire, sent, hand, rx, received>>
      /\ chan' = Append(chan, hand) /\ task' = "reading"
  BY DEF Send, host, config, server, link
<1>2. Len(wire) \in Nat /\ Len(chan) \in Nat /\ Len(received) \in Nat /\ hand \in Item
  BY <1>0 DEF TypeOK
<1>3. /\ chan' \in Seq(Item) /\ Len(chan') = Len(chan) + 1
      /\ \A i \in 1 .. Len(chan') : chan'[i] = IF i <= Len(chan) THEN chan[i] ELSE hand
  BY <1>0, <1>1, <1>2
<1>4. chan' # <<>>
  BY <1>2, <1>3, EmptySeq
<1>5. TypeOK'
  BY <1>0, <1>1, <1>2, <1>3, BoundsAssumption DEF TypeOK
<1>6. Phases'
  BY <1>0, <1>1 DEF Phases
<1>7. /\ \A i \in 1 .. Len(received) : received[i] = i
      /\ \A i \in 1 .. Len(chan) : chan[i] = Len(received) + i
  BY <1>0 DEF IInv, InReceived, InChan, Over
<1>8. hand = IF rpc = "closed" THEN Err ELSE Len(received) + Len(chan) + 1
  BY <1>0 DEF IInv, InHand, Out
<1>9. InReceived' /\ InHand'
  BY <1>1, <1>7 DEF InReceived, InHand
<1>10. InChan'
  <2> SUFFICES ASSUME NEW i \in 1 .. Len(chan')
               PROVE  \/ chan'[i] = Len(received') + i
                      \/ chan'[i] = Err /\ i = Len(chan') /\ Over'
    BY DEF InChan
  <2>1. CASE i <= Len(chan)
    <3>1. i \in 1 .. Len(chan) /\ chan'[i] = chan[i]
      BY <1>2, <1>3, <2>1
    <3>2. chan[i] = Len(received) + i
      BY <1>7, <3>1
    <3> QED BY <1>1, <3>1, <3>2
  <2>2. CASE i > Len(chan)
    <3>1. i = Len(chan') /\ chan'[i] = hand
      BY <1>2, <1>3, <2>2
    <3> QED BY <1>1, <1>2, <1>3, <1>8, <3>1 DEF Over
  <2> QED BY <1>2, <1>3, <2>1, <2>2
<1>11. Reported'
  BY <1>0, <1>1, <1>2, <1>3, <1>4, <1>8 DEF Reported, Over
<1>12. InWire' /\ Count'
  BY <1>0, <1>1, <1>2, <1>3 DEF IInv, InWire, Count, Out, Held
<1> QED BY <1>5, <1>6, <1>9, <1>10, <1>11, <1>12 DEF IInv

LEMMA SendFailsInv ==
    ASSUME IInv, SendFails
    PROVE  IInv'
<1>1. TypeOK /\ Phases
  BY DEF IInv
<1>2. TypeOK'
  BY <1>1 DEF SendFails, TypeOK, host, config, server, link
<1>3. Phases' /\ InReceived' /\ InChan' /\ InHand' /\ InWire' /\ Count' /\ Reported'
  BY <1>1 DEF IInv, SendFails, host, link, Phases, InReceived, InChan, InHand,
     InWire, Count, Reported, Over, Out, Held, EndsInErr
<1> QED BY <1>2, <1>3 DEF IInv

-----------------------------------------------------------------------------
\* The first item of the channel takes its place behind what was received.
LEMMA ReceiveInv ==
    ASSUME IInv, Receive
    PROVE  IInv'
<1>0. TypeOK /\ Phases /\ rx = "open" /\ chan # <<>> /\ chan \in Seq(Item)
  BY DEF IInv, Receive, TypeOK
<1>1. /\ UNCHANGED <<mode, retain, live, job, call, svc, crashed>>
      /\ UNCHANGED <<rpc, wire, sent, task, hand, rx>>
      /\ received' = Append(received, Head(chan)) /\ chan' = Tail(chan)
  BY DEF Receive, host, config, server, link
<1>2. Len(wire) \in Nat /\ Len(chan) \in Nat /\ Len(received) \in Nat
  BY <1>0 DEF TypeOK
<1>3. /\ Len(chan) > 0 /\ Head(chan) = chan[1] /\ chan[1] \in Item
      /\ chan' \in Seq(Item) /\ Len(chan') = Len(chan) - 1
      /\ \A i \in 1 .. Len(chan') : chan'[i] = chan[i + 1]
  BY <1>0, <1>1, <1>2, EmptySeq, HeadTailProperties
<1>4. /\ received' \in Seq(Item) /\ Len(received') = Len(received) + 1
      /\ \A i \in 1 .. Len(received') :
            received'[i] = IF i <= Len(received) THEN received[i] ELSE chan[1]
  BY <1>0, <1>1, <1>2, <1>3 DEF TypeOK
<1>5. chan' = <<>> <=> Len(chan) = 1
  BY <1>2, <1>3, EmptySeq
<1>6. received' # <<>>
  BY <1>2, <1>4, EmptySeq
<1>7. TypeOK'
  BY <1>0, <1>1, <1>2, <1>3, <1>4, BoundsAssumption DEF TypeOK
<1>8. Phases'
  BY <1>0, <1>1 DEF Phases
<1>9. \A i \in 1 .. Len(received) : received[i] = i
  BY <1>0 DEF IInv, InReceived
<1>10. \/ chan[1] = Len(received) + 1
       \/ chan[1] = Err /\ Len(chan) = 1 /\ Over
  BY <1>2, <1>3 DEF IInv, InChan
<1>11. InReceived'
  BY <1>1, <1>2, <1>4, <1>5, <1>9, <1>10 DEF InReceived, Over
<1>12. InChan'
  <2> SUFFICES ASSUME NEW i \in 1 .. Len(chan')
               PROVE  \/ chan'[i] = Len(received') + i
                      \/ chan'[i] = Err /\ i = Len(chan') /\ Over'
    BY DEF InChan
  <2>1. i + 1 \in 1 .. Len(chan) /\ chan'[i] = chan[i + 1]
    BY <1>2, <1>3
  <2>2. \/ chan[i + 1] = Len(received) + (i + 1)
        \/ chan[i + 1] = Err /\ i + 1 = Len(chan) /\ Over
    BY <2>1 DEF IInv, InChan
  <2>3. CASE chan[i + 1] = Len(received) + (i + 1)
    <3>1. i \in Int /\ Len(received) \in Int /\ Len(received') = Len(received) + 1
      BY <1>2, <1>3, <1>4
    <3>2. Len(received) + (i + 1) = Len(received') + i
      BY <3>1
    <3>3. chan'[i] = Len(received') + i
      BY <2>1, <2>3, <3>2
    <3> QED BY <3>3 DEF Over
  <2>4. CASE chan[i + 1] = Err /\ i + 1 = Len(chan) /\ Over
    <3>1. i = Len(chan')
      BY <1>2, <1>3, <2>4
    <3>2. chan'[i] = Err
      BY <2>1, <2>4
    <3>3. Over'
      BY <1>1, <2>4 DEF Over
    <3> QED BY <3>1, <3>2, <3>3
  <2> QED BY <2>2, <2>3, <2>4
<1>13. InHand' /\ InWire' /\ Count'
  BY <1>0, <1>1, <1>2, <1>3, <1>4 DEF IInv, InHand, InWire, Count, Out, Held
<1>14. Reported'
  BY <1>0, <1>1, <1>2, <1>3, <1>4, <1>5, <1>6 DEF IInv, Reported, Over, EndsInErr
<1> QED BY <1>7, <1>8, <1>11, <1>12, <1>13, <1>14 DEF IInv

LEMMA CallerInv ==
    ASSUME IInv, ReceiveEnd \/ DropStream
    PROVE  IInv'
<1>0. TypeOK /\ Phases
  BY DEF IInv
<1>1. CASE ReceiveEnd
  <2>1. TypeOK'
    BY <1>0, <1>1 DEF ReceiveEnd, TypeOK, host, config, server, link
  <2>2. Phases' /\ InReceived' /\ InChan' /\ InHand' /\ InWire' /\ Count' /\ Reported'
    BY <1>0, <1>1 DEF IInv, ReceiveEnd, host, link, Phases, InReceived, InChan, InHand,
       InWire, Count, Reported, Over, Out, Held, EndsInErr
  <2> QED BY <2>1, <2>2 DEF IInv
<1>2. CASE DropStream
  <2>1. TypeOK'
    BY <1>0, <1>2, BoundsAssumption DEF DropStream, TypeOK, host, config, server, link
  <2>2. Phases' /\ InReceived' /\ InChan' /\ InHand' /\ InWire' /\ Count' /\ Reported'
    BY <1>0, <1>2 DEF IInv, DropStream, host, link, Phases, InReceived, InChan, InHand,
       InWire, Count, Reported, Over, Out, Held, EndsInErr
  <2> QED BY <2>1, <2>2 DEF IInv
<1> QED BY <1>1, <1>2

LEMMA StutterInv == IInv /\ UNCHANGED vars => IInv'
<1> SUFFICES ASSUME IInv, UNCHANGED vars PROVE IInv'
  OBVIOUS
<1>1. TypeOK' /\ UNCHANGED flow
  BY DEF IInv, TypeOK, vars, host, config, server, link, client, flow
<1> QED BY <1>1, FlowFrame

LEMMA Invariance == Spec => []IInv
<1>1. IInv /\ [Next]_vars => IInv'
  BY OwnersInv, ConnectInv, RemoveInv, ServeInv, ServiceInv, RequestInv, ReadInv,
     ReadEndInv, SendInv, SendFailsInv, ReceiveInv, CallerInv, StutterInv
     DEF Next, Service, Task, Caller
<1> QED BY InitInv, <1>1, PTL DEF Spec

-----------------------------------------------------------------------------
\* Every variable keeps its type, and the wire and the channel their bounds: the task
\* of the file loader waits for room instead of queueing without end.
THEOREM TypeCorrect == Spec => []TypeOK
<1>1. IInv => TypeOK
  BY DEF IInv
<1> QED BY <1>1, Invariance, PTL

\* What the caller of a file stream gets are the files in their order, none missing,
\* none twice, and an error is the last item, however the connection, the container and
\* the shutdown job of the dropped executor interfere.
THEOREM FilesInOrder == Spec => []InOrder
<1>1. IInv => InOrder
  BY DEF IInv, InReceived, InOrder
<1> QED BY <1>1, Invariance, PTL

\* A stream that ends after the service has accepted the request had every file, or an
\* error at its end: `while let Some(entry) = stream.message().await.transpose()` passes
\* the error on.
THEOREM CutsAreReported == Spec => []CutIsReported
<1>1. IInv => CutIsReported
  <2> SUFFICES ASSUME IInv, rx = "ended", rpc # "none" PROVE Whole \/ EndsInErr
    BY DEF CutIsReported
  <2>1. /\ task = "done" /\ chan = <<>> /\ wire = <<>>
        /\ rpc \in {"ended", "closed"}
        /\ rpc = "ended" => sent = Files
    <3>1. Phases
      BY DEF IInv
    <3> QED BY <3>1 DEF Phases
  <2>2. CASE rpc = "closed"
    BY <2>1, <2>2 DEF IInv, Reported, Over
  <2>3. CASE rpc = "ended"
    <3>1. Len(received) = Files /\ received \in Seq(Item)
      BY <2>1, <2>3 DEF IInv, TypeOK, Count, Out, Held
    <3>2. \A i \in 1 .. Files : received[i] = i
      BY <2>3, <3>1 DEF IInv, InReceived, Over
    <3> QED BY <3>1, <3>2 DEF Whole
  <2> QED BY <2>1, <2>2, <2>3
<1> QED BY <1>1, Invariance, PTL

\* As long as its user keeps a borrowed executor, no shutdown job is queued for its
\* container, whatever becomes of the file loader and its stream.
THEOREM BorrowedExecutorIsSafe == Spec => []BorrowedIsSafe
<1>1. Init => BorrowedIsSafe
  BY DEF Init, BorrowedIsSafe
<1>2. IInv /\ BorrowedIsSafe /\ [Next]_vars => BorrowedIsSafe'
  <2> SUFFICES ASSUME IInv, BorrowedIsSafe, [Next]_vars, mode' = "borrowed", "user" \in live'
               PROVE  job' = "idle" /\ (svc' = "up" \/ crashed' = "yes")
    BY DEF BorrowedIsSafe
  <2>1. UNCHANGED <<mode, retain>>
    BY DEF Next, Service, Task, Caller, Connect, ConnectPanics, DropExecutor, KillContainer,
       RemoveContainer, Crash, Serve, ServeError, ServeEnd, DrainEnds, Request, RequestFails,
       Read, ReadError, ReadEnd, Send, SendFails, Receive, ReceiveEnd, DropStream,
       vars, host, config, server, link, client
  <2>2. CASE Connect \/ ConnectPanics
    BY <2>1, <2>2 DEF Connect, ConnectPanics, Returns, BorrowedIsSafe, config, server
  <2>3. CASE DropExecutor \/ KillContainer \/ RemoveContainer
    BY <2>1, <2>3 DEF IInv, TypeOK, DropExecutor, KillContainer, RemoveContainer,
       BorrowedIsSafe, config
  <2>4. CASE Crash \/ DrainEnds
    BY <2>1, <2>4 DEF Crash, DrainEnds, BorrowedIsSafe, host, config
  <2>5. CASE Serve \/ ServeError \/ ServeEnd
    BY <2>1, <2>5 DEF Serve, ServeError, ServeEnd, BorrowedIsSafe, host, server
  <2>6. CASE Task \/ Caller \/ DropStream \/ UNCHANGED vars
    <3>1. UNCHANGED <<host, server>>
      BY <2>6 DEF Task, Caller, Request, RequestFails, Read, ReadError, ReadEnd, Send,
         SendFails, Receive, ReceiveEnd, DropStream, vars
    <3> QED BY <2>1, <3>1 DEF BorrowedIsSafe, host, server
  <2> QED BY <2>2, <2>3, <2>4, <2>5, <2>6 DEF Next, Service
<1> QED BY <1>1, <1>2, Invariance, PTL DEF Spec

-----------------------------------------------------------------------------
(* The caller's view.                                                      *)

Refused == task = "done" /\ rpc = "none"

LEMMA SameView ==
    ASSUME UNCHANGED <<rx, received>>, Refused' <=> Refused
    PROVE  UNCHANGED Stream!vars
BY DEF Refused, Stream!vars

\* Whoever the executors belong to, the container and the service.
LEMMA OthersSeen ==
    ASSUME IInv, \/ Connect \/ DropExecutor \/ KillContainer \/ RemoveContainer \/ Crash
                 \/ Service
    PROVE  UNCHANGED Stream!vars
<1>1. CASE Connect
  BY <1>1, SameView DEF Connect, Refused, link, IInv, Phases
<1>2. CASE DropExecutor \/ KillContainer \/ DrainEnds
  BY <1>2, SameView DEF DropExecutor, KillContainer, DrainEnds, Refused, link, client
<1>3. CASE RemoveContainer \/ Crash
  <2>1. UNCHANGED client /\ CutOff
    BY <1>3 DEF RemoveContainer, Crash
  <2>2. rpc' = "none" <=> rpc = "none"
    BY <2>1 DEF CutOff
  <2> QED BY <2>1, <2>2, SameView DEF Refused, client
<1>4. CASE Serve \/ ServeError \/ ServeEnd
  BY <1>4, SameView DEF Serve, ServeError, ServeEnd, Refused, client
<1> QED BY <1>1, <1>2, <1>3, <1>4 DEF Service

\* The task, but for a request that is refused.
LEMMA TaskSeen ==
    ASSUME IInv, Request \/ Read \/ ReadError \/ ReadEnd \/ Send \/ SendFails
    PROVE  UNCHANGED Stream!vars
<1>1. task \in {"requesting", "reading", "sending"}
  BY DEF Request, Read, ReadError, ReadEnd, Send, SendFails
<1>2. task \in {"reading", "sending"} => rpc # "none"
  BY DEF IInv, Phases
<1>3. CASE Request
  BY <1>3, SameView DEF Request, Refused
<1>4. CASE Read \/ ReadError \/ ReadEnd \/ Send \/ SendFails
  <2>1. rpc' # "none" /\ UNCHANGED <<rx, received>>
    BY <1>2, <1>4 DEF Read, ReadError, ReadEnd, Send, SendFails, link
  <2>2. rpc # "none"
    BY <1>2, <1>4 DEF Read, ReadError, ReadEnd, Send, SendFails
  <2> QED BY <2>1, <2>2, SameView DEF Refused
<1> QED BY <1>3, <1>4

\* The caller is given the next file, or an error.
LEMMA ReceiveSeen == ASSUME IInv, Receive PROVE Stream!Give
<1>1. /\ rx = "open" /\ chan # <<>> /\ received' = Append(received, Head(chan))
      /\ UNCHANGED <<task, rpc, rx>>
  BY DEF Receive, link
<1>2. Len(received) \in Nat /\ Len(chan) \in Nat /\ Files \in Nat
  BY BoundsAssumption DEF IInv, TypeOK
<1>3. Head(chan) = chan[1] /\ 1 \in 1 .. Len(chan) /\ chan[1] \in Item
  BY <1>1, <1>2, EmptySeq, HeadTailProperties DEF IInv, TypeOK
<1>4. ~Stream!Failed
  <2> SUFFICES ASSUME received # <<>> PROVE received[Len(received)] # 0
    BY DEF Stream!Failed, Stream!Err
  <2>1. Len(received) \in 1 .. Len(received)
    BY <1>2, EmptySeq DEF IInv, TypeOK
  <2>2. received[Len(received)] = Len(received)
    BY <1>1, <2>1 DEF IInv, InReceived
  <2> QED BY <2>1, <2>2
<1>5. \/ chan[1] = Len(received) + 1 /\ Len(received) < Files
      \/ chan[1] = Err
  <2>1. chan[1] = Len(received) + 1 \/ chan[1] = Err
    BY <1>3 DEF IInv, InChan
  <2> QED BY <1>2, <1>3, <2>1 DEF Item
<1> QED BY <1>1, <1>3, <1>4, <1>5 DEF Stream!Give, Stream!Err, Err

\* An end without a refusal comes after an error or the last file.
LEMMA EndSeen == ASSUME IInv, ReceiveEnd PROVE Stream!End
<1>1. /\ rx = "open" /\ chan = <<>> /\ task = "done" /\ rx' = "ended"
      /\ UNCHANGED <<task, rpc, received>>
  BY DEF ReceiveEnd, link
<1>2. CASE rpc = "none"
  BY <1>1, <1>2 DEF Stream!End
<1>3. CASE rpc # "none"
  <2>1. wire = <<>> /\ rpc \in {"ended", "closed"} /\ (rpc = "ended" => sent = Files)
    <3>1. Phases
      BY DEF IInv
    <3> QED BY <1>1, <1>3, <3>1 DEF Phases
  <2>2. rpc = "closed" => Stream!Failed
    BY <1>1 DEF IInv, Reported, Over, EndsInErr, Stream!Failed, Stream!Err, Err
  <2>3. rpc = "ended" => Len(received) = Files
    BY <1>1, <2>1 DEF IInv, TypeOK, Count, Out, Held
  <2> QED BY <1>1, <2>1, <2>2, <2>3 DEF Stream!End
<1> QED BY <1>2, <1>3

LEMMA NextSeen == IInv /\ [Next]_vars => [Stream!Next]_(Stream!vars)
<1> SUFFICES ASSUME IInv, [Next]_vars PROVE [Stream!Next]_(Stream!vars)
  OBVIOUS
<1>1. CASE \/ Connect \/ DropExecutor \/ KillContainer \/ RemoveContainer \/ Crash
           \/ Service
  BY <1>1, OthersSeen
<1>2. CASE ConnectPanics
  <2>1. rx' = "dropped" /\ UNCHANGED <<task, rpc, received>> /\ rx # "ended"
    BY <1>2 DEF ConnectPanics, link, IInv, Phases
  <2>2. rx \in {"open", "dropped"}
    BY <2>1 DEF IInv, TypeOK
  <2>3. CASE rx = "open"
    BY <2>1, <2>3 DEF Stream!Next, Stream!Drop
  <2>4. CASE rx = "dropped"
    BY <2>1, <2>4, SameView DEF Refused
  <2> QED BY <2>2, <2>3, <2>4
<1>3. CASE RequestFails
  <2>1. UNCHANGED <<rx, received, rpc>> /\ task = "requesting" /\ task' = "done" /\ rpc = "none"
    BY <1>3 DEF RequestFails, link, IInv, Phases
  <2> QED BY <2>1 DEF Stream!Next, Stream!Cut
<1>4. CASE Request \/ Read \/ ReadError \/ ReadEnd \/ Send \/ SendFails
  BY <1>4, TaskSeen
<1>5. CASE Receive \/ ReceiveEnd
  BY <1>5, ReceiveSeen, EndSeen DEF Stream!Next
<1>6. CASE DropStream
  BY <1>6 DEF DropStream, link, Stream!Next, Stream!Drop
<1>7. CASE UNCHANGED vars
  BY <1>7, SameView DEF vars, link, client, Refused
<1> QED BY <1>1, <1>2, <1>3, <1>4, <1>5, <1>6, <1>7 DEF Next, Task, Caller

\* For any number of files and any capacities, what the caller of into_stream sees of the
\* connection, the service, the shutdown beside it and the task is a behaviour of
\* ItemStream.
THEOREM StreamIsImplemented == Spec => ImplementsStream
<1>1. Init => Stream!Init
  BY BoundsAssumption DEF Init, Stream!Init
<1>2. IInv /\ [Next]_vars => [Stream!Next]_(Stream!vars)
  BY NextSeen
<1> QED BY <1>1, <1>2, Invariance, PTL DEF Spec, ImplementsStream, Stream!Spec
=============================================================================
