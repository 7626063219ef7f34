------------------------- MODULE DockerClientProofs -------------------------
(***************************************************************************)
(* For any number of tasks and clients: the mutex makes the three steps    *)
(* "look, create, store" of a caller exclusive, and what may happen beside *)
(* them, the loss of the last Arc, can only make the cell more outdated    *)
(* than its holder believes, never less.                                   *)
(***************************************************************************)
EXTENDS DockerClient, TLAPS

\* Whoever is inside lazy_client past the lock is the holder of the mutex.
Exclusive ==
    \A t \in Tasks : pc[t] \in {"upgrade", "create", "store"} <=> lock = t

\* A client that is alive is the one the cell points to, or the one its creator is
\* about to store.
Reachable ==
    \A c \in Clients : Alive(c) =>
        \/ slot = c /\ \A t \in Tasks : pc[t] \notin {"create", "store"}
        \/ \E t \in Tasks : pc[t] = "store" /\ answer[t] = c

\* The creator keeps the client it is about to store; only created clients are owned.
Held ==
    /\ \A t \in Tasks : pc[t] = "store" => answer[t] \in Clients /\ t \in owners[answer[t]]
    /\ \A c \in Clients : Alive(c) => c \in used

IInv == TypeOK /\ Exclusive /\ Reachable /\ Held

-----------------------------------------------------------------------------
LEMMA InitInv == Init => IInv
BY NoneAssumption DEF Init, IInv, TypeOK, Exclusive, Reachable, Held, Alive

LEMMA LockInv ==
    ASSUME IInv, NEW t \in Tasks, CallLazyClient(t) \/ Lock(t)
    PROVE  IInv'
<1>1. TypeOK'
  BY DEF IInv, TypeOK, CallLazyClient, Lock, Goto
<1>2. Exclusive'
  BY NoneAssumption DEF IInv, TypeOK, Exclusive, CallLazyClient, Lock, Goto
<1>3. Reachable'
  BY DEF IInv, TypeOK, Reachable, Exclusive, Alive, CallLazyClient, Lock, Goto
<1>4. Held'
  BY DEF IInv, TypeOK, Held, Alive, CallLazyClient, Lock, Goto
<1> QED BY <1>1, <1>2, <1>3, <1>4 DEF IInv

LEMMA UpgradeInv ==
    ASSUME IInv, NEW t \in Tasks, Upgrade(t)
    PROVE  IInv'
<1>1. lock = t /\ pc[t] = "upgrade"
  BY DEF IInv, Exclusive, Upgrade
<1>2. CASE slot # None /\ Alive(slot)
  <2>1. /\ slot \in Clients
        /\ owners' = [owners EXCEPT ![slot] = @ \cup {t}]
        /\ pc' = [pc EXCEPT ![t] = "idle"]
        /\ answer' = [answer EXCEPT ![t] = slot]
        /\ lock' = None
        /\ UNCHANGED <<slot, used>>
    BY <1>1, <1>2 DEF Upgrade, Return, Goto, Unlock, IInv, TypeOK
  <2>2. TypeOK'
    BY <2>1 DEF IInv, TypeOK
  <2>3. Exclusive'
    BY <1>1, <2>1, NoneAssumption DEF IInv, TypeOK, Exclusive
  <2>4. Reachable'
    BY <1>1, <1>2, <2>1 DEF IInv, TypeOK, Exclusive, Reachable, Alive
  <2>5. Held'
    BY <1>1, <1>2, <2>1 DEF IInv, TypeOK, Exclusive, Held, Alive
  <2> QED BY <2>2, <2>3, <2>4, <2>5 DEF IInv
<1>3. CASE ~(slot # None /\ Alive(slot))
  <2>1. /\ pc' = [pc EXCEPT ![t] = "create"]
        /\ UNCHANGED <<lock, owners, answer, slot, used>>
    BY <1>3 DEF Upgrade, Goto
  <2>2. \A c \in Clients : ~Alive(c)
    BY <1>1, <1>3, NoneAssumption DEF IInv, Exclusive, Reachable
  <2>3. TypeOK'
    BY <2>1 DEF IInv, TypeOK
  <2>4. Exclusive'
    BY <1>1, <2>1 DEF IInv, TypeOK, Exclusive
  <2>5. Reachable' /\ Held'
    BY <1>1, <2>1, <2>2 DEF IInv, TypeOK, Reachable, Held, Alive
  <2> QED BY <2>3, <2>4, <2>5 DEF IInv
<1> QED BY <1>2, <1>3

LEMMA CreateInv ==
    ASSUME IInv, NEW t \in Tasks, Create(t)
    PROVE  IInv'
<1>1. lock = t /\ pc[t] = "create"
  BY DEF IInv, Exclusive, Create
<1>2. PICK c \in Clients \ used :
          /\ used' = used \cup {c}
          /\ owners' = [owners EXCEPT ![c] = {t}]
          /\ answer' = [answer EXCEPT ![t] = c]
  BY DEF Create
<1>3. pc' = [pc EXCEPT ![t] = "store"] /\ UNCHANGED <<lock, slot>>
  BY DEF Create, Goto
\* Somebody is creating a client: the cell is outdated, and nobody is storing.
<1>4. \A d \in Clients : ~Alive(d)
  BY <1>1 DEF IInv, Exclusive, Reachable
<1>5. TypeOK'
  BY <1>2, <1>3 DEF IInv, TypeOK
<1>6. Exclusive'
  BY <1>1, <1>3 DEF IInv, TypeOK, Exclusive
<1>7. Reachable'
  BY <1>2, <1>3, <1>4 DEF IInv, TypeOK, Reachable, Alive
<1>8. Held'
  BY <1>1, <1>2, <1>3, <1>4 DEF IInv, TypeOK, Exclusive, Held, Alive
<1> QED BY <1>5, <1>6, <1>7, <1>8 DEF IInv

LEMMA CreateFailsInv ==
    ASSUME IInv, NEW t \in Tasks, CreateFails(t)
    PROVE  IInv'
<1>1. lock = t /\ pc[t] = "create"
  BY DEF IInv, Exclusive, CreateFails
<1>2. /\ pc' = [pc EXCEPT ![t] = "idle"]
      /\ answer' = [answer EXCEPT ![t] = "error"]
      /\ lock' = None
      /\ UNCHANGED <<slot, owners, used>>
  BY <1>1 DEF CreateFails, Return, Goto, Unlock
<1>3. \A d \in Clients : ~Alive(d)
  BY <1>1 DEF IInv, Exclusive, Reachable
<1>4. TypeOK'
  BY <1>2 DEF IInv, TypeOK
<1>5. Exclusive'
  BY <1>1, <1>2, NoneAssumption DEF IInv, TypeOK, Exclusive
<1>6. Reachable' /\ Held'
  BY <1>1, <1>2, <1>3 DEF IInv, TypeOK, Reachable, Held, Alive
<1> QED BY <1>4, <1>5, <1>6 DEF IInv

LEMMA StoreInv ==
    ASSUME IInv, NEW t \in Tasks, Store(t)
    PROVE  IInv'
<1>1. lock = t /\ pc[t] = "store" /\ answer[t] \in Clients
  BY DEF IInv, Exclusive, Held, Store
<1>2. /\ slot' = answer[t]
      /\ pc' = [pc EXCEPT ![t] = "idle"]
      /\ lock' = None
      /\ UNCHANGED <<owners, used, answer>>
  BY <1>1 DEF Store, Goto, Unlock
<1>3. TypeOK'
  BY <1>1, <1>2 DEF IInv, TypeOK
<1>4. Exclusive'
  BY <1>1, <1>2, NoneAssumption DEF IInv, TypeOK, Exclusive
<1>5. \A u \in Tasks : u # t => pc[u] \notin {"upgrade", "create", "store"}
  BY <1>1 DEF IInv, Exclusive
<1>6. Reachable'
  BY <1>1, <1>2, <1>5 DEF IInv, TypeOK, Reachable, Alive
<1>7. Held'
  BY <1>1, <1>2 DEF IInv, TypeOK, Held, Alive
<1> QED BY <1>3, <1>4, <1>6, <1>7 DEF IInv

LEMMA ReleaseInv ==
    ASSUME IInv, NEW t \in Tasks, Release(t)
    PROVE  IInv'
<1>1. PICK c \in Clients : owners' = [owners EXCEPT ![c] = @ \ {t}]
  BY DEF Release
<1>2. UNCHANGED <<pc, lock, slot, used, answer>> /\ pc[t] \in {"idle", "locking"}
  BY DEF Release
<1>3. \A d \in Clients : Alive(d)' => Alive(d)
  BY <1>1 DEF IInv, TypeOK, Alive
<1>4. TypeOK' /\ Exclusive'
  BY <1>1, <1>2 DEF IInv, TypeOK, Exclusive
<1>5. Reachable'
  BY <1>2, <1>3 DEF IInv, Reachable
<1>6. Held'
  BY <1>1, <1>2, <1>3 DEF IInv, TypeOK, Held
<1> QED BY <1>4, <1>5, <1>6 DEF IInv

LEMMA NextInv == IInv /\ [Next]_vars => IInv'
<1> SUFFICES ASSUME IInv, [Next]_vars PROVE IInv'
  OBVIOUS
<1>1. CASE UNCHANGED vars
  BY <1>1 DEF IInv, TypeOK, Exclusive, Reachable, Held, Alive, vars
<1>2. ASSUME NEW t \in Tasks, CallLazyClient(t) \/ Lock(t) \/ Step(t) \/ Release(t)
      PROVE  IInv'
  BY <1>2, LockInv, UpgradeInv, CreateInv, CreateFailsInv, StoreInv, ReleaseInv DEF Step
<1> QED BY <1>1, <1>2 DEF Next

LEMMA Invariance == Spec => []IInv
BY InitInv, NextInv, PTL DEF Spec

-----------------------------------------------------------------------------
\* Type correctness of the cell and its callers.
THEOREM TypeCorrect == Spec => []TypeOK
<1>1. IInv => TypeOK
  BY DEF IInv
<1> QED BY Invariance, <1>1, PTL

\* The process has at most one docker client alive (lazy_client): a client that is
\* alive is in the cell, or alone with the caller that created it.
THEOREM AtMostOneClient == Spec => []OneLiveClient
<1>1. IInv => OneLiveClient
  BY DEF IInv, Exclusive, Reachable, OneLiveClient
<1> QED BY Invariance, <1>1, PTL

\* A client that lazy_client returns is held by its caller when it is returned.
THEOREM AnswersAreAlive == Spec => ReturnsLiveClient
<1>1. ASSUME IInv, [Next]_vars, NEW t \in Tasks, pc[t] # "idle", pc'[t] = "idle",
             answer'[t] \in Clients
      PROVE  t \in owners'[answer'[t]]
  <2>1. ~UNCHANGED vars
    BY <1>1 DEF vars
  <2>2. PICK u \in Tasks : CallLazyClient(u) \/ Lock(u) \/ Step(u) \/ Release(u)
    BY <1>1, <2>1 DEF Next
  <2>3. CASE CallLazyClient(u) \/ Lock(u) \/ Create(u) \/ Release(u)
    BY <1>1, <2>3 DEF IInv, TypeOK, CallLazyClient, Lock, Create, Release, Goto
  <2>4. CASE Upgrade(u)
    BY <1>1, <2>4 DEF IInv, TypeOK, Upgrade, Return, Goto
  \* An error is no client.
  <2>5. CASE CreateFails(u)
    BY <1>1, <2>5, NoneAssumption DEF IInv, TypeOK, CreateFails, Return, Goto
  <2>6. CASE Store(u)
    BY <1>1, <2>6 DEF IInv, TypeOK, Held, Store, Goto
  <2> QED BY <2>2, <2>3, <2>4, <2>5, <2>6 DEF Step
<1>2. IInv /\ [Next]_vars =>
        [\A t \in Tasks : (pc[t] # "idle" /\ pc'[t] = "idle" /\ answer'[t] \in Clients)
              => t \in owners'[answer'[t]]]_vars
  BY <1>1
<1> QED BY Invariance, <1>2, PTL DEF Spec, ReturnsLiveClient

-----------------------------------------------------------------------------
(* The callers' view: lazy_client takes effect at one step of its caller.  *)

\* The client that is alive when the Arcs are spread as o says, and who has one.
Current(o) ==
    IF {c \in Clients : o[c] # {}} = {} THEN None
    ELSE CHOOSE c \in {c \in Clients : o[c] # {}} : TRUE
Holders(o) == UNION {o[c] : c \in {c \in Clients : o[c] # {}}}

LEMMA NoneAlive ==
    ASSUME NEW o, \A c \in Clients : o[c] = {}
    PROVE  Current(o) = None /\ Holders(o) = {}
BY DEF Current, Holders

LEMMA OneAlive ==
    ASSUME NEW o, NEW c \in Clients, o[c] # {}, \A d \in Clients : o[d] # {} => d = c
    PROVE  Current(o) = c /\ Holders(o) = o[c]
<1>1. {d \in Clients : o[d] # {}} = {c}
  OBVIOUS
<1> QED BY <1>1 DEF Current, Holders

\* What a caller was given last is forgotten when it asks again.
Waiting == \A t \in Tasks : pc[t] \in {"locking", "upgrade", "create"} => answer[t] = "none"

LEMMA WaitingInv == IInv /\ Waiting /\ [Next]_vars => Waiting'
<1> SUFFICES ASSUME IInv, Waiting, [Next]_vars PROVE Waiting'
  OBVIOUS
<1>1. CASE UNCHANGED vars
  BY <1>1 DEF Waiting, vars
<1>2. ASSUME NEW t \in Tasks, CallLazyClient(t) \/ Lock(t) \/ Step(t) \/ Release(t)
      PROVE  Waiting'
  BY <1>2 DEF IInv, TypeOK, Waiting, CallLazyClient, Lock, Step, Upgrade, Create, CreateFails,
     Store, Release, Goto, Return
<1> QED BY <1>1, <1>2 DEF Next

LEMMA SameView == UNCHANGED <<owners, used, answer>> => UNCHANGED Shared!vars
BY DEF Shared!vars, Living, Alive

\* The actions of SharedClient, by what the Arcs are.
LEMMA SharedIs ==
    \A t \in Tasks :
       /\ Shared!Ask(t) <=>
             /\ answer' = [answer EXCEPT ![t] = "none"]
             /\ UNCHANGED <<Current(owners), Holders(owners), used>>
       /\ Shared!Share(t) <=>
             /\ Holders(owners) # {}
             /\ Holders(owners') = Holders(owners) \cup {t}
             /\ answer[t] = "none" /\ answer' = [answer EXCEPT ![t] = Current(owners)]
             /\ UNCHANGED <<Current(owners), used>>
       /\ Shared!Open(t) <=>
             /\ Holders(owners) = {}
             /\ Current(owners') \in Clients \ used
             /\ Holders(owners') = {t}
             /\ used' = used \cup {Current(owners')}
             /\ answer[t] = "none" /\ answer' = [answer EXCEPT ![t] = Current(owners')]
       /\ Shared!Refuse(t) <=>
             /\ Holders(owners) = {}
             /\ answer[t] = "none" /\ answer' = [answer EXCEPT ![t] = "error"]
             /\ UNCHANGED <<Current(owners), Holders(owners), used>>
       /\ Shared!Release(t) <=>
             /\ t \in Holders(owners)
             /\ Holders(owners') = Holders(owners) \ {t}
             /\ Current(owners') = IF Holders(owners') = {} THEN None ELSE Current(owners)
             /\ UNCHANGED <<used, answer>>
BY DEF Shared!Ask, Shared!Share, Shared!Open, Shared!Refuse, Shared!Release,
   Shared!Answer, Living, Alive, Current, Holders

\* A call takes effect when it finds the client, creates it, or fails to.
LEMMA CallSeen ==
    ASSUME IInv, Waiting, NEW t \in Tasks, Upgrade(t) \/ Create(t) \/ CreateFails(t)
    PROVE  Shared!Share(t) \/ Shared!Open(t) \/ Shared!Refuse(t) \/ UNCHANGED Shared!vars
<1>1. lock = t /\ answer[t] = "none"
  BY DEF IInv, Exclusive, Waiting, Upgrade, Create, CreateFails
<1>2. owners \in [Clients -> SUBSET Tasks] /\ answer \in [Tasks -> Clients \cup {"none", "error"}]
  BY DEF IInv, TypeOK
<1>3. CASE Upgrade(t) /\ slot # None /\ Alive(slot)
  <2>1. /\ slot \in Clients /\ owners[slot] # {}
        /\ owners' = [owners EXCEPT ![slot] = @ \cup {t}]
        /\ answer' = [answer EXCEPT ![t] = slot] /\ UNCHANGED used
    BY <1>3 DEF Upgrade, Return, IInv, TypeOK, Alive
  <2>2. \A d \in Clients : owners[d] # {} => d = slot
    BY <1>1, <1>3 DEF IInv, Exclusive, Reachable, Alive, Upgrade
  <2>3. /\ owners'[slot] = owners[slot] \cup {t}
        /\ \A d \in Clients : owners'[d] # {} => d = slot
    BY <1>2, <2>1, <2>2
  <2>4. /\ Current(owners) = slot /\ Holders(owners) = owners[slot]
        /\ Current(owners') = slot /\ Holders(owners') = owners[slot] \cup {t}
    BY <2>1, <2>2, <2>3, OneAlive
  <2>5. Shared!Share(t)
    BY <1>1, <2>1, <2>4, SharedIs
  <2> QED BY <2>5
<1>4. CASE Upgrade(t) /\ ~(slot # None /\ Alive(slot))
  BY <1>4, SameView DEF Upgrade
<1>5. CASE Create(t) \/ CreateFails(t)
  <2>1. \A d \in Clients : owners[d] = {}
    BY <1>1, <1>5 DEF IInv, Exclusive, Reachable, Alive, Create, CreateFails
  <2>2. Current(owners) = None /\ Holders(owners) = {}
    BY <2>1, NoneAlive
  <2>3. CASE Create(t)
    <3>1. PICK c \in Clients \ used : /\ used' = used \cup {c}
                                      /\ owners' = [owners EXCEPT ![c] = {t}]
                                      /\ answer' = [answer EXCEPT ![t] = c]
      BY <2>3 DEF Create
    <3>2. owners'[c] = {t} /\ \A d \in Clients : owners'[d] # {} => d = c
      BY <1>2, <2>1, <3>1
    <3>3. Current(owners') = c /\ Holders(owners') = {t}
      BY <3>2, OneAlive
    <3>4. Shared!Open(t)
      BY <1>1, <2>2, <3>1, <3>3, SharedIs
    <3> QED BY <3>4
  <2>4. CASE CreateFails(t)
    <3>1. answer' = [answer EXCEPT ![t] = "error"] /\ UNCHANGED <<owners, used>>
      BY <2>4 DEF CreateFails, Return
    <3>2. Shared!Refuse(t)
      BY <1>1, <2>2, <3>1, SharedIs
    <3> QED BY <3>2
  <2> QED BY <1>5, <2>3, <2>4
<1> QED BY <1>3, <1>4, <1>5

LEMMA ReleaseSeen == ASSUME IInv, NEW t \in Tasks, Release(t) PROVE Shared!Release(t)
<1>1. PICK c \in Clients : t \in owners[c] /\ owners' = [owners EXCEPT ![c] = @ \ {t}]
  BY DEF Release
<1>2. owners \in [Clients -> SUBSET Tasks] /\ UNCHANGED <<used, answer>>
  BY DEF IInv, TypeOK, Release
<1>3. \A d \in Clients : owners[d] # {} => d = c
  BY <1>1 DEF IInv, Exclusive, Reachable, Alive
<1>4. Current(owners) = c /\ Holders(owners) = owners[c]
  BY <1>1, <1>3, OneAlive
<1>5. owners'[c] = owners[c] \ {t} /\ \A d \in Clients : owners'[d] # {} => d = c
  BY <1>1, <1>2, <1>3
<1>6. CASE owners'[c] = {}
  <2>1. \A d \in Clients : owners'[d] = {}
    BY <1>5, <1>6
  <2>2. Current(owners') = None /\ Holders(owners') = {}
    BY <2>1, NoneAlive
  <2> QED BY <1>1, <1>2, <1>4, <1>5, <1>6, <2>2, SharedIs
<1>7. CASE owners'[c] # {}
  <2>1. Current(owners') = c /\ Holders(owners') = owners[c] \ {t}
    BY <1>5, <1>7, OneAlive
  <2>2. /\ t \in Holders(owners) /\ Holders(owners') = Holders(owners) \ {t}
        /\ Holders(owners') # {} /\ Current(owners') = Current(owners)
    BY <1>1, <1>4, <1>5, <1>7, <2>1
  <2> QED BY <1>2, <2>2, SharedIs
<1> QED BY <1>6, <1>7

LEMMA NextSeen == IInv /\ Waiting /\ [Next]_vars => [Shared!Next]_(Shared!vars)
<1> SUFFICES ASSUME IInv, Waiting, [Next]_vars PROVE [Shared!Next]_(Shared!vars)
  OBVIOUS
<1>1. CASE UNCHANGED vars
  BY <1>1, SameView DEF vars
<1>2. ASSUME NEW t \in Tasks, CallLazyClient(t) PROVE Shared!Ask(t)
  BY <1>2, SharedIs DEF CallLazyClient
<1>3. ASSUME NEW t \in Tasks, Lock(t) \/ Store(t) PROVE UNCHANGED Shared!vars
  BY <1>3, SameView DEF Lock, Store
<1>4. ASSUME NEW t \in Tasks, CallLazyClient(t) \/ Lock(t) \/ Step(t) \/ Release(t)
      PROVE  [Shared!Next]_(Shared!vars)
  BY <1>2, <1>3, <1>4, CallSeen, ReleaseSeen DEF Step, Shared!Next
<1> QED BY <1>1, <1>4 DEF Next

\* For any number of tasks, however their calls interleave and whenever their Arcs go:
\* lazy_client is linearizable to the single shared client of SharedClient.
THEOREM LazyClientIsAtomic == Spec => ImplementsSharedClient
<1>1. Init => Shared!Init /\ Waiting
  <2> SUFFICES ASSUME Init PROVE Shared!Init /\ Waiting
    OBVIOUS
  <2>1. \A c \in Clients : owners[c] = {}
    BY DEF Init
  <2>2. Living = {}
    BY <2>1 DEF Living, Alive
  <2> QED BY <2>2 DEF Init, Shared!Init, Waiting
<1>2. IInv /\ Waiting /\ [Next]_vars => [Shared!Next]_(Shared!vars)
  BY NextSeen
<1> QED BY <1>1, <1>2, WaitingInv, Invariance, PTL DEF Spec, ImplementsSharedClient, Shared!Spec
=============================================================================
