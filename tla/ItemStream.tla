----------------------------- MODULE ItemStream -----------------------------
(***************************************************************************)
(* What the caller of a stream is promised, without the task and the       *)
(* channel behind it: `logs_stream` (LogsStream) and the file loader's     *)
(* `into_stream` (FileLoading) implement it. The n-th item of the source   *)
(* is the number n.                                                        *)
(***************************************************************************)
EXTENDS Naturals, Sequences

VARIABLES
    total,    \* items of the source, so far
    source,   \* whether there will be more
    cut,      \* whether the stream was given up for a reason its caller is not told
    rx,       \* the caller's stream
    received  \* what the caller has been given

vars == <<total, source, cut, rx, received>>

Err == 0

Failed == received # <<>> /\ received[Len(received)] = Err

Init ==
    /\ total \in Nat
    /\ source \in {"open", "finished"}
    /\ cut = "no" /\ rx = "open" /\ received = <<>>

-----------------------------------------------------------------------------
Grow ==
    /\ source = "open"
    /\ total' = total + 1
    /\ UNCHANGED <<source, cut, rx, received>>

Finish ==
    /\ source = "open"
    /\ source' = "finished"
    /\ UNCHANGED <<total, cut, rx, received>>

Cut ==
    /\ cut = "no"
    /\ cut' = "yes"
    /\ UNCHANGED <<total, source, rx, received>>

\* The next item and no other, if the source has it; or an error, and nothing after it.
Give ==
    /\ rx = "open" /\ ~Failed
    /\ \/ /\ Len(received) < total
          /\ received' = Append(received, Len(received) + 1)
       \/ received' = Append(received, Err)
    /\ UNCHANGED <<total, source, cut, rx>>

\* The end says that this was all, unless an error said otherwise, or it was cut.
End ==
    /\ rx = "open"
    /\ Failed \/ cut = "yes" \/ (source = "finished" /\ Len(received) = total)
    /\ rx' = "ended"
    /\ UNCHANGED <<total, source, cut, received>>

Drop ==
    /\ rx = "open"
    /\ rx' = "dropped"
    /\ UNCHANGED <<total, source, cut, received>>

Next == Grow \/ Finish \/ Cut \/ Give \/ End \/ Drop

Spec == Init /\ [][Next]_vars
=============================================================================
