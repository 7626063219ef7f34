---------------------------- MODULE SharedClient ----------------------------
(***************************************************************************)
(* What `lazy_client` promises its callers: a client that all who hold one *)
(* share, as if every call took effect at a single moment. DockerClient    *)
(* implements it.                                                          *)
(***************************************************************************)

CONSTANTS
    Tasks,    \* tasks that may ask for the client
    Clients,  \* clients that may come to exist
    None      \* no client

VARIABLES
    client,   \* the client that is alive
    holders,  \* the tasks that keep it alive
    used,     \* clients there have been
    answer    \* what each task was given last

vars == <<client, holders, used, answer>>

Init ==
    /\ client = None /\ holders = {} /\ used = {}
    /\ answer = [t \in Tasks |-> "none"]

-----------------------------------------------------------------------------
Ask(t) ==
    /\ answer' = [answer EXCEPT ![t] = "none"]
    /\ UNCHANGED <<client, holders, used>>

Answer(t, a) ==
    /\ answer[t] = "none"
    /\ answer' = [answer EXCEPT ![t] = a]

\* Whoever asks while there is a client gets that one.
Share(t) ==
    /\ holders # {}
    /\ holders' = holders \cup {t}
    /\ Answer(t, client)
    /\ UNCHANGED <<client, used>>

\* A client is made, or the attempt fails, only when there is none.
Open(t) ==
    /\ holders = {}
    /\ client' \in Clients \ used
    /\ holders' = {t}
    /\ used' = used \cup {client'}
    /\ Answer(t, client')

Refuse(t) ==
    /\ holders = {}
    /\ Answer(t, "error")
    /\ UNCHANGED <<client, holders, used>>

\* The client goes with the last of its holders.
Release(t) ==
    /\ t \in holders
    /\ holders' = holders \ {t}
    /\ client' = IF holders' = {} THEN None ELSE client
    /\ UNCHANGED <<used, answer>>

Next == \E t \in Tasks : Ask(t) \/ Share(t) \/ Open(t) \/ Refuse(t) \/ Release(t)

Spec == Init /\ [][Next]_vars
=============================================================================
