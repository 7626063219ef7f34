---------------------------- MODULE DockerClient ----------------------------
(***************************************************************************)
(* The process-wide docker client: `Client::lazy_client` behind a mutex    *)
(* that holds a weak reference, and the owners of the `Arc`s it hands out. *)
(* The mutex keeps callers of lazy_client apart, but not the owners: the   *)
(* last `Arc` may go at any moment between the steps of a caller.          *)
(***************************************************************************)
EXTENDS Integers, FiniteSets

CONSTANTS
    Tasks,    \* tasks that may call lazy_client
    Clients,  \* bound: clients a program may come to create
    None      \* no task, no client

ASSUME NoneAssumption ==
    None \notin Tasks /\ Clients \cap {None, "none", "error"} = {}

VARIABLES
    pc,      \* where each task is in lazy_client
    lock,    \* the task that holds DOCKER_CLIENT's mutex
    slot,    \* the client the Weak points to, alive or not
    owners,  \* per client: the tasks with an Arc, themselves or in what they keep
    used,    \* clients created so far
    answer   \* what the last call of each task returned

vars == <<pc, lock, slot, owners, used, answer>>

TypeOK ==
    /\ pc \in [Tasks -> {"idle", "locking", "upgrade", "create", "store"}]
    /\ lock \in Tasks \cup {None}
    /\ slot \in Clients \cup {None}
    /\ owners \in [Clients -> SUBSET Tasks]
    /\ used \subseteq Clients
    /\ answer \in [Tasks -> Clients \cup {"none", "error"}]

Init ==
    /\ pc = [t \in Tasks |-> "idle"]
    /\ lock = None
    /\ slot = None
    /\ owners = [c \in Clients |-> {}]
    /\ used = {}
    /\ answer = [t \in Tasks |-> "none"]

Alive(c) == owners[c] # {}

Goto(t, l)   == pc' = [pc EXCEPT ![t] = l]
Return(t, a) == Goto(t, "idle") /\ answer' = [answer EXCEPT ![t] = a]

CallLazyClient(t) ==
    /\ pc[t] = "idle"
    /\ Goto(t, "locking")
    /\ answer' = [answer EXCEPT ![t] = "none"]
    /\ UNCHANGED <<lock, slot, owners, used>>

\* Mutant of Lock: the cell is read without the mutex.
LockForgotten(t) ==
    /\ pc[t] = "locking"
    /\ Goto(t, "upgrade")
    /\ UNCHANGED <<lock, slot, owners, used, answer>>

Lock(t) ==
    /\ pc[t] = "locking" /\ lock = None
    /\ lock' = t
    /\ Goto(t, "upgrade")
    /\ UNCHANGED <<slot, owners, used, answer>>

Unlock(t) == lock' = IF lock = t THEN None ELSE lock

\* Mutant of Upgrade: the reference is used without asking if it is alive.
UpgradeUnchecked(t) ==
    /\ pc[t] = "upgrade"
    /\ IF slot # None
       THEN Return(t, slot) /\ Unlock(t) /\ UNCHANGED owners
       ELSE Goto(t, "create") /\ UNCHANGED <<lock, owners, answer>>
    /\ UNCHANGED <<slot, used>>

\* Weak::upgrade succeeds as long as one Arc is left.
Upgrade(t) ==
    /\ pc[t] = "upgrade"
    /\ IF slot # None /\ Alive(slot)
       THEN /\ owners' = [owners EXCEPT ![slot] = @ \cup {t}]
            /\ Return(t, slot) /\ Unlock(t)
       ELSE Goto(t, "create") /\ UNCHANGED <<lock, owners, answer>>
    /\ UNCHANGED <<slot, used>>

Create(t) ==
    /\ pc[t] = "create"
    /\ \E c \in Clients \ used :
          /\ used' = used \cup {c}
          /\ owners' = [owners EXCEPT ![c] = {t}]
          /\ answer' = [answer EXCEPT ![t] = c]
    /\ Goto(t, "store")
    /\ UNCHANGED <<lock, slot>>

\* Mutant of CreateFails: the error returns without giving up the mutex.
GuardLeaked(t) ==
    /\ pc[t] = "create"
    /\ Return(t, "error")
    /\ UNCHANGED <<lock, slot, owners, used>>

\* `Client::new()?`: the guard is dropped on the way out, the cell is untouched.
CreateFails(t) ==
    /\ pc[t] = "create"
    /\ Return(t, "error") /\ Unlock(t)
    /\ UNCHANGED <<slot, owners, used>>

\* Mutant of Store: the handle is moved out before the cell is written.
StoreAfterMove(t) ==
    /\ pc[t] = "store"
    /\ slot' = "none"
    /\ Goto(t, "idle") /\ Unlock(t)
    /\ UNCHANGED <<owners, used, answer>>

Store(t) ==
    /\ pc[t] = "store"
    /\ slot' = answer[t]
    /\ Goto(t, "idle") /\ Unlock(t)
    /\ UNCHANGED <<owners, used, answer>>

\* An executor, a clone, a builder's future or a log task that held the Arc is gone.
Release(t) ==
    /\ pc[t] \in {"idle", "locking"}
    /\ \E c \in Clients :
          /\ t \in owners[c]
          /\ owners' = [owners EXCEPT ![c] = @ \ {t}]
    /\ UNCHANGED <<pc, lock, slot, used, answer>>

Step(t) == Upgrade(t) \/ Create(t) \/ CreateFails(t) \/ Store(t)

Next == \E t \in Tasks : CallLazyClient(t) \/ Lock(t) \/ Step(t) \/ Release(t)

Spec == Init /\ [][Next]_vars

\* tokio's Mutex is fair: it serves its waiters in the order they came.
Fairness == \A t \in Tasks : SF_vars(Lock(t)) /\ WF_vars(Step(t))

FairSpec == Spec /\ Fairness

-----------------------------------------------------------------------------
\* At most one client is alive, whoever drops what while a caller is between the
\* failed upgrade and the store ("avoid unnecessary instantiation", client.rs).
OneLiveClient ==
    \A c, d \in Clients : Alive(c) /\ Alive(d) => c = d

\* What a call returns is an Arc the caller now holds, never a client that was
\* dropped while the caller looked at the cell.
ReturnsLiveClient ==
    [][\A t \in Tasks :
          (pc[t] # "idle" /\ pc'[t] = "idle" /\ answer'[t] \in Clients)
              => t \in owners'[answer'[t]]]_vars

\* What the callers see: the one client that is alive, and the tasks that keep it so.
Living == {c \in Clients : Alive(c)}
Shared == INSTANCE SharedClient WITH
    client  <- IF Living = {} THEN None ELSE CHOOSE c \in Living : TRUE,
    holders <- UNION {owners[c] : c \in Living}

\* lazy_client is atomic to its callers, although it looks, creates and stores in three
\* steps beside which Arcs come and go: a call shares the client that is alive at one
\* moment of it, and creates one, or reports that it cannot, only if none is.
ImplementsSharedClient == Shared!Spec

\* A caller that waits is served, even if every attempt of the others fails.
EveryCallReturns ==
    \A t \in Tasks : pc[t] = "locking" ~> pc[t] = "idle"
=============================================================================
