-------------------------- MODULE HsdrHelperProofs --------------------------
(***************************************************************************)
(* Proofs about HsdrHelper, for any threads, requests and bounds: which    *)
(* mutexes a thread can have where, and that threads never wait for each   *)
(* other in a circle; the type invariant; that each request has at most    *)
(* one outcome; and that a subscription is not forgotten.                  *)
(***************************************************************************)
EXTENDS HsdrHelper, TLAPS

Labels == {"idle", "connect", "isAlive", "getProxy", "invoke", "sync", "answer",
           "disconnect", "clear", "close"}

\* Where a thread works for a request, and where it has or may have connectionMutex_.
Working == {"connect", "isAlive", "getProxy", "invoke", "sync", "answer"}
InConnection == {"isAlive", "getProxy", "clear", "close"}
UsesConnection == InConnection \cup {"invoke", "sync", "answer"}

ThreadType ==
    /\ pc \in [Threads -> Labels]
    /\ job \in [Threads -> Requests \cup {None}]
    /\ connection \in Requests \cup {None}
    /\ connHolder \subseteq Threads
    /\ subHolder \subseteq Threads
    /\ proxyHolder \in [Requests -> SUBSET Threads]

\* Who has a mutex is where it can wait only for those after it.
MutexOrder ==
    /\ \A t \in connHolder : pc[t] \in UsesConnection
    /\ \A t \in subHolder : pc[t] = "close"
    /\ \A c \in Requests : \A t \in proxyHolder[c] : pc[t] \in {"invoke", "sync", "answer"}

\* connection_ changes only under connectionMutex_.
ConnectionMutex ==
    /\ \A t, u \in connHolder : t = u
    /\ \A t \in Threads : pc[t] \in InConnection => t \in connHolder
    /\ \A t \in Threads : pc[t] = "getProxy" => connection # None

Employed == \A t \in Threads : pc[t] \in Working => job[t] \in Requests

ThreadInv == ThreadType /\ MutexOrder /\ ConnectionMutex /\ Employed

LEMMA ThreadInit == Init => ThreadInv
  BY DEF Init, ThreadInv, ThreadType, MutexOrder, ConnectionMutex, Employed, Labels,
         InConnection, Working

\* A thread that leaves the helper has no mutex.
LEMMA LeaveInv ==
  ASSUME ThreadInv, NEW t \in Threads, Leave(t),
         \/ connection' = connection
         \/ pc[t] \in InConnection /\ connection' \in Requests \cup {None}
  PROVE  ThreadInv'
<1>1. ThreadType'
  BY DEF Leave, GoTo, ThreadInv, ThreadType, Labels
<1>2. pc' = [pc EXCEPT ![t] = "idle"] /\ pc \in [Threads -> Labels]
  BY DEF Leave, GoTo, ThreadInv, ThreadType
<1>3. MutexOrder'
  BY <1>2 DEF Leave, ThreadInv, ThreadType, MutexOrder
<1>4. \A u \in Threads : u # t => pc'[u] = pc[u] /\ job'[u] = job[u]
  BY <1>2 DEF Leave, ThreadInv, ThreadType
<1>5. ConnectionMutex'
  BY <1>2, <1>4 DEF Leave, ThreadInv, ConnectionMutex, InConnection
<1>6. Employed'
  BY <1>2, <1>4 DEF ThreadInv, Employed, Working
<1> QED
  BY <1>1, <1>3, <1>5, <1>6 DEF ThreadInv

\* A thread goes on with the mutexes it has, and stays where they are allowed.
LEMMA MoveInv ==
  ASSUME ThreadInv, NEW t \in Threads, NEW label \in Labels,
         GoTo(t, label), UNCHANGED <<locks, connection>>,
         job' \in [Threads -> Requests \cup {None}],
         \A u \in Threads : u # t => job'[u] = job[u],
         label \in Working => job'[t] \in Requests,
         \/ pc[t] = "idle" /\ label \notin InConnection
         \/ pc[t] = "isAlive" /\ label = "getProxy" /\ connection # None
         \/ pc[t] = "getProxy" /\ label = "invoke"
         \/ pc[t] \in {"invoke", "sync"} /\ label \in {"sync", "answer"}
  PROVE  ThreadInv'
<1>1. ThreadType'
  BY DEF GoTo, locks, ThreadInv, ThreadType
<1>2. pc' = [pc EXCEPT ![t] = label] /\ pc \in [Threads -> Labels]
  BY DEF GoTo, ThreadInv, ThreadType
<1>3. pc'[t] = label /\ \A u \in Threads : u # t => pc'[u] = pc[u]
  BY <1>2
<1>4. MutexOrder'
  BY <1>3 DEF locks, ThreadInv, ThreadType, MutexOrder, InConnection, UsesConnection
<1>5. ConnectionMutex'
  BY <1>3 DEF locks, ThreadInv, ThreadType, ConnectionMutex, InConnection
<1>6. Employed'
  BY <1>3 DEF ThreadInv, Employed
<1> QED
  BY <1>1, <1>4, <1>5, <1>6 DEF ThreadInv

LEMMA StillInv ==
  ASSUME ThreadInv, UNCHANGED <<locks, connection, pc, job>>
  PROVE  ThreadInv'
  BY DEF locks, ThreadInv, ThreadType, MutexOrder, ConnectionMutex, Employed

LEMMA LockConnectionInv ==
  ASSUME ThreadInv, NEW t \in Threads, LockConnection(t)
  PROVE  ThreadInv'
<1>1. PICK label \in {"isAlive", "clear"} : pc' = [pc EXCEPT ![t] = label]
  BY DEF LockConnection, GoTo
<1>2. /\ pc'[t] = label /\ pc[t] \in {"connect", "disconnect"}
      /\ label = "isAlive" => pc[t] = "connect"
      /\ \A u \in Threads : u # t => pc'[u] = pc[u]
      /\ connHolder' = {t} /\ UNCHANGED <<subHolder, proxyHolder, job, connection>>
  BY <1>1 DEF LockConnection, GoTo, manager, ThreadInv, ThreadType
<1>3. connHolder \subseteq {t}
  BY <1>2 DEF LockConnection, WaitsFor
<1>4. ThreadType'
  BY <1>1, <1>2 DEF ThreadInv, ThreadType, Labels
<1>5. MutexOrder'
  BY <1>2, <1>3 DEF ThreadInv, ThreadType, MutexOrder, UsesConnection, InConnection
<1>6. ConnectionMutex'
  BY <1>2, <1>3 DEF ThreadInv, ConnectionMutex, InConnection
<1>7. Employed'
  BY <1>2 DEF ThreadInv, Employed, Working
<1> QED
  BY <1>4, <1>5, <1>6, <1>7 DEF ThreadInv

LEMMA ConnectDoneInv ==
  ASSUME ThreadInv, NEW t \in Threads, NEW c \in Requests, OnAbilityConnectDone(t, c)
  PROVE  ThreadInv'
<1>1. CASE UNCHANGED <<proxyHolder, threads>>
  BY <1>1, StillInv DEF OnAbilityConnectDone, threads, locks
<1>2. CASE GoTo(t, "invoke") /\ job' = [job EXCEPT ![t] = c]
                           /\ proxyHolder' = [proxyHolder EXCEPT ![c] = {t}]
  <2>1. /\ pc[t] = "idle" /\ pc'[t] = "invoke" /\ job'[t] = c
        /\ \A u \in Threads : u # t => pc'[u] = pc[u] /\ job'[u] = job[u]
        /\ UNCHANGED <<connHolder, subHolder, connection>>
    BY <1>2 DEF OnAbilityConnectDone, GoTo, ThreadInv, ThreadType
  <2>2. ThreadType'
    BY <1>2, <2>1 DEF GoTo, ThreadInv, ThreadType, Labels
  <2>3. MutexOrder'
    BY <1>2, <2>1 DEF ThreadInv, ThreadType, MutexOrder, UsesConnection, InConnection
  <2>4. ConnectionMutex' /\ Employed'
    BY <2>1 DEF ThreadInv, ConnectionMutex, InConnection, Employed
  <2> QED
    BY <2>2, <2>3, <2>4 DEF ThreadInv
<1> QED
  BY <1>1, <1>2 DEF OnAbilityConnectDone

LEMMA ClearInv ==
  ASSUME ThreadInv, NEW t \in Threads, ClearSubscriptions(t)
  PROVE  ThreadInv'
<1>1. /\ pc[t] = "clear" /\ pc'[t] = "close" /\ subHolder' = {t}
      /\ \A u \in Threads : u # t => pc'[u] = pc[u]
      /\ UNCHANGED <<connHolder, proxyHolder, job, connection>>
  BY DEF ClearSubscriptions, GoTo, manager, ThreadInv, ThreadType
<1>2. ThreadType'
  BY <1>1 DEF ClearSubscriptions, GoTo, ThreadInv, ThreadType, Labels
<1>3. MutexOrder'
  BY <1>1 DEF ThreadInv, ThreadType, MutexOrder, UsesConnection, InConnection
<1>4. ConnectionMutex' /\ Employed'
  BY <1>1 DEF ThreadInv, ConnectionMutex, InConnection, Employed, Working
<1> QED
  BY <1>2, <1>3, <1>4 DEF ThreadInv

LEMMA ThreadStep == ThreadInv /\ [Next]_vars => ThreadInv'
<1> SUFFICES ASSUME ThreadInv, [Next]_vars PROVE ThreadInv'
  OBVIOUS
<1>0. pc \in [Threads -> Labels] /\ job \in [Threads -> Requests \cup {None}]
  BY DEF ThreadInv, ThreadType
<1> USE DEF Labels, Working, InConnection
<1>1. ASSUME NEW t \in Threads, Continue(t)
      PROVE  ThreadInv'
  <2>1. CASE LockConnection(t)
    BY <2>1, LockConnectionInv
  <2>2. CASE ReuseConnection(t)
    <3>1. job[t] \in Requests /\ connection # None
      BY <2>2 DEF ReuseConnection, IsAlive, ThreadInv, Employed
    <3> QED
      BY <1>0, <2>2, <3>1, MoveInv DEF ReuseConnection, manager
  <2>3. CASE GetAbilityProxy(t)
    <3>1. job[t] \in Requests
      BY <2>3 DEF GetAbilityProxy, ThreadInv, Employed
    <3> QED
      BY <1>0, <2>3, <3>1, MoveInv DEF GetAbilityProxy, manager
  <2>4. CASE ConnectServiceExtensionAbility(t)
    <3>1. job[t] \in Requests
      BY <2>4 DEF ConnectServiceExtensionAbility, ThreadInv, Employed
    <3> QED
      BY <2>4, <3>1, LeaveInv DEF ConnectServiceExtensionAbility
  <2>5. CASE InvokeFails(t) \/ InvokeHsdrSync(t) \/ SyncReply(t)
    <3>1. job[t] \in Requests
      BY <2>5 DEF InvokeFails, InvokeHsdrSync, SyncReply, ThreadInv, Employed
    <3> QED
      BY <1>0, <2>5, <3>1, MoveInv DEF InvokeFails, InvokeHsdrSync, SyncReply, manager
  <2>6. CASE InvokeHsdrAsync(t)
    <3>1. job[t] \in Requests
      BY <2>6 DEF InvokeHsdrAsync, ThreadInv, Employed
    <3>2. CASE Leave(t)
      BY <2>6, <3>2, LeaveInv DEF InvokeHsdrAsync, manager
    <3>3. CASE GoTo(t, "answer") /\ UNCHANGED <<locks, job, remote>>
      BY <1>0, <2>6, <3>1, <3>3, MoveInv DEF InvokeHsdrAsync, manager
    <3> QED
      BY <2>6, <3>2, <3>3 DEF InvokeHsdrAsync
  <2>7. CASE Answer(t)
    BY <2>7, LeaveInv DEF Answer, manager
  <2>8. CASE ClearSubscriptions(t)
    BY <2>8, ClearInv
  <2>9. CASE DisconnectAbility(t)
    BY <2>9, LeaveInv DEF DisconnectAbility
  <2> QED
    BY <1>1, <2>1, <2>2, <2>3, <2>4, <2>5, <2>6, <2>7, <2>8, <2>9 DEF Continue
<1>2. ASSUME NEW t \in Threads, Disconnect(t)
      PROVE  ThreadInv'
  BY <1>0, <1>2, MoveInv DEF Disconnect, manager
<1>3. ASSUME NEW t \in Threads, NEW r \in Requests, Subscribe(t, r)
      PROVE  ThreadInv'
  <2>1. job' \in [Threads -> Requests \cup {None}] /\ job'[t] \in Requests
        /\ \A u \in Threads : u # t => job'[u] = job[u]
    BY <1>0, <1>3 DEF Subscribe
  <2> QED
    BY <1>3, <2>1, MoveInv DEF Subscribe, manager
<1>4. ASSUME NEW t \in Threads, NEW r \in Requests, OnRemoteRequest(t, r)
      PROVE  ThreadInv'
  <2>1. job' \in [Threads -> Requests \cup {None}] /\ job'[t] \in Requests
        /\ \A u \in Threads : u # t => job'[u] = job[u]
    BY <1>0, <1>4 DEF OnRemoteRequest
  <2> QED
    BY <1>4, <2>1, MoveInv DEF OnRemoteRequest, manager
<1>5. ASSUME NEW t \in Threads, NEW c \in Requests,
             OnAbilityConnectDone(t, c) \/ OnAbilityDisconnectDone(t, c)
      PROVE  ThreadInv'
  BY <1>5, ConnectDoneInv, StillInv DEF OnAbilityDisconnectDone, threads
<1>6. CASE ServiceCrash \/ UNCHANGED vars
  BY <1>6, StillInv DEF ServiceCrash, vars, manager, threads
<1> QED
  BY <1>1, <1>2, <1>3, <1>4, <1>5, <1>6 DEF Next, OnConnect, OnReply

LEMMA ThreadAlways == Spec => []ThreadInv
  BY ThreadInit, ThreadStep, PTL DEF Spec

-----------------------------------------------------------------------------
(* Mutual exclusion without deadlock. *)

\* DisconnectHsdr, ConnectHsdr, the ability manager's callbacks and the answers of the
\* service never wait for each other's mutexes in a circle, however many threads there are.
THEOREM DeadlockFree == Spec => []NoDeadlock
<1>1. ASSUME ThreadInv, NEW S \in SUBSET Threads, S # {},
             \A t \in S : WaitsFor(t) \cap S # {}
      PROVE  FALSE
  <2>0. \A t \in S : t \in Threads
    OBVIOUS
  \* Who has subscriptionMutex_ waits for nobody.
  <2>1. \A t \in S : pc[t] \notin {"answer", "clear"}
    <3>1. \A u \in subHolder : WaitsFor(u) = {}
      BY <1>1 DEF ThreadInv, MutexOrder, WaitsFor
    <3>2. \A t \in S : pc[t] \in {"answer", "clear"} => WaitsFor(t) \subseteq subHolder
      BY DEF WaitsFor
    <3> QED
      BY <1>1, <3>1, <3>2
  \* Who has the mutex of a connection waits for subscriptionMutex_ at most.
  <2>2. \A t \in S : pc[t] \notin {"isAlive", "getProxy"}
    <3>1. \A u \in ProxyHolder : u \notin S
      <4>1. ASSUME NEW u \in ProxyHolder, u \in S PROVE FALSE
        <5>1. pc[u] \in {"invoke", "sync", "answer"}
          BY <1>1 DEF ProxyHolder, ThreadInv, MutexOrder
        <5>2. pc[u] # "answer"
          BY <2>1, <4>1
        <5>3. WaitsFor(u) = {}
          BY <5>1, <5>2 DEF WaitsFor
        <5> QED
          BY <1>1, <4>1, <5>3
      <4> QED
        BY <4>1
    <3>2. \A t \in S : pc[t] \in {"isAlive", "getProxy"} => WaitsFor(t) \subseteq ProxyHolder
      BY DEF WaitsFor
    <3> QED
      BY <1>1, <3>1, <3>2
  \* Who has connectionMutex_ waits for one of the others at most.
  <2>3. \A u \in connHolder : u \notin S
    <3>1. ASSUME NEW u \in connHolder, u \in S PROVE FALSE
      <4>1. pc[u] \in UsesConnection
        BY <1>1 DEF ThreadInv, MutexOrder
      <4>2. WaitsFor(u) = {}
        BY <2>1, <2>2, <3>1, <4>1 DEF UsesConnection, InConnection, WaitsFor
      <4> QED
        BY <1>1, <3>1, <4>2
    <3> QED
      BY <3>1
  <2>4. \A t \in S : WaitsFor(t) \subseteq connHolder
    BY <2>1, <2>2 DEF WaitsFor
  <2> QED
    BY <1>1, <2>3, <2>4
<1>2. ThreadInv => NoDeadlock
  BY <1>1 DEF NoDeadlock
<1> QED
  BY <1>2, ThreadAlways, PTL

-----------------------------------------------------------------------------
(* Outcomes. *)

\* A request that has not been made has no outcome yet.
Fresh == \A r \in Requests : kind[r] = "new" => r \notin subs /\ r \notin dropped /\ answers[r] = 0

OutcomeInv ==
    /\ kind \in [Requests -> {"new", "sync", "async"}]
    /\ subs \subseteq Requests
    /\ dropped \subseteq Requests
    /\ answers \in [Requests -> 0..1]
    /\ OneOutcome
    /\ Fresh

LEMMA OutcomeInit == Init => OutcomeInv
  BY DEF Init, OutcomeInv, OneOutcome, Fresh

LEMMA OutcomeStep == ThreadInv /\ OutcomeInv /\ [Next]_vars => OutcomeInv'
<1> SUFFICES ASSUME ThreadInv, OutcomeInv, [Next]_vars PROVE OutcomeInv'
  OBVIOUS
<1> USE DEF OutcomeInv, OneOutcome, Fresh
<1>1. CASE UNCHANGED <<kind, subs, answers, dropped>>
  BY <1>1
<1>2. ASSUME NEW t \in Threads, NEW r \in Requests, Subscribe(t, r)
      PROVE  OutcomeInv'
  <2>1. kind' \in [Requests -> {"new", "sync", "async"}] /\ kind'[r] # "new"
        /\ \A q \in Requests : q # r => kind'[q] = kind[q]
    BY <1>2 DEF Subscribe
  <2>2. subs' = subs \cup {r} /\ kind[r] = "new" /\ UNCHANGED <<answers, dropped>>
    BY <1>2 DEF Subscribe, history
  <2> QED
    BY <2>1, <2>2
<1>3. ASSUME NEW t \in Threads, Answer(t)
      PROVE  OutcomeInv'
  <2>1. job[t] \in Requests
    BY <1>3 DEF Answer, ThreadInv, Employed, Working
  <2>2. /\ subs' = subs \ {job[t]} /\ UNCHANGED <<kind, dropped>>
        /\ answers' = [answers EXCEPT ![job[t]] = IF job[t] \in subs THEN @ + 1 ELSE @]
    BY <1>3 DEF Answer
  <2>3. CASE job[t] \in subs
    <3>1. answers[job[t]] = 0 /\ job[t] \notin dropped /\ kind[job[t]] # "new"
      BY <2>1, <2>3
    <3>2. answers' = [answers EXCEPT ![job[t]] = 1]
      BY <2>1, <2>2, <2>3, <3>1
    <3> QED
      BY <2>1, <2>2, <3>1, <3>2
  <2>4. CASE job[t] \notin subs
    <3>1. answers' = answers /\ subs' = subs
      BY <2>1, <2>2, <2>4
    <3> QED
      BY <2>2, <3>1
  <2> QED
    BY <2>3, <2>4
<1>4. ASSUME NEW t \in Threads, ClearSubscriptions(t)
      PROVE  OutcomeInv'
  BY <1>4 DEF ClearSubscriptions
<1>5. ASSUME NEW t \in Threads, Continue(t)
      PROVE  OutcomeInv'
  BY <1>1, <1>3, <1>4, <1>5 DEF Continue, LockConnection, ReuseConnection, GetAbilityProxy,
     ConnectServiceExtensionAbility, InvokeFails, InvokeHsdrAsync, InvokeHsdrSync, SyncReply,
     DisconnectAbility, history
<1>6. ASSUME NEW t \in Threads, NEW r \in Requests,
             Disconnect(t) \/ OnAbilityDisconnectDone(t, r) \/ OnAbilityConnectDone(t, r)
                \/ OnRemoteRequest(t, r)
      PROVE  OutcomeInv'
  BY <1>1, <1>6 DEF Disconnect, OnAbilityDisconnectDone, OnAbilityConnectDone, OnRemoteRequest,
     history
<1>7. CASE ServiceCrash \/ UNCHANGED vars
  BY <1>1, <1>7 DEF ServiceCrash, vars, history
<1>8. ASSUME NEW t \in Threads, Disconnect(t)
      PROVE  OutcomeInv'
  BY <1>1, <1>8 DEF Disconnect, history
<1> QED
  BY <1>2, <1>5, <1>6, <1>7, <1>8 DEF Next, OnConnect, OnReply

\* However late or often the service answers, and whatever fails, a request is answered
\* once at most, and never after DisconnectHsdr.
THEOREM AnsweredOnce == Spec => []OneOutcome
<1>1. OutcomeInv => OneOutcome
  BY DEF OutcomeInv
<1> QED
  BY <1>1, OutcomeInit, OutcomeStep, ThreadAlways, PTL DEF Spec

-----------------------------------------------------------------------------
(* Type correctness: what is left beside the threads and the outcomes. *)

WorldType ==
    /\ proxy \in [Requests -> {None, "alive", "dead"}]
    /\ attempt \in [Requests -> {"none", "pending", "connected", "closing", "closed"}]
    /\ remote \in [Threads -> {None, "alive", "dead"}]
    /\ replies \in [Requests -> 0..MaxReplies]
    /\ disconnects \in 0..MaxDisconnects
    /\ crashed \in BOOLEAN
    /\ lost \subseteq Requests

LEMMA Bounds ==
  MaxDisconnects \in Nat /\ 0 \in 0..MaxDisconnects
  /\ MaxReplies \in Nat /\ 0 \in 0..MaxReplies /\ 1..MaxReplies \subseteq 0..MaxReplies
  BY HsdrAssumption

LEMMA WorldInit == Init => WorldType
<1> SUFFICES ASSUME Init PROVE WorldType
  OBVIOUS
<1>1. /\ proxy \in [Requests -> {None, "alive", "dead"}]
      /\ attempt \in [Requests -> {"none", "pending", "connected", "closing", "closed"}]
      /\ remote \in [Threads -> {None, "alive", "dead"}]
  BY DEF Init
<1>2. disconnects \in 0..MaxDisconnects /\ replies \in [Requests -> 0..MaxReplies]
  BY Bounds DEF Init
<1>3. crashed \in BOOLEAN /\ lost \subseteq Requests
  BY DEF Init
<1> QED
  BY <1>1, <1>2, <1>3 DEF WorldType

LEMMA LeaveWorld ==
  ASSUME WorldType, NEW t \in Threads, Leave(t)
  PROVE  remote' \in [Threads -> {None, "alive", "dead"}]
  BY DEF WorldType, Leave

LEMMA WorldStep == ThreadInv /\ WorldType /\ [Next]_vars => WorldType'
<1> SUFFICES ASSUME ThreadInv, WorldType, [Next]_vars PROVE WorldType'
  OBVIOUS
<1> USE DEF WorldType
<1>1. ASSUME NEW t \in Threads, Continue(t)
      PROVE  WorldType'
  <2>1. CASE LockConnection(t) \/ ReuseConnection(t) \/ InvokeFails(t) \/ InvokeHsdrSync(t)
             \/ SyncReply(t) \/ ClearSubscriptions(t)
    BY <2>1 DEF LockConnection, ReuseConnection, InvokeFails, InvokeHsdrSync, SyncReply,
                ClearSubscriptions, manager, service, history
  <2>2. CASE GetAbilityProxy(t)
    <3>1. connection \in Requests
      BY <2>2 DEF GetAbilityProxy, ThreadInv, ThreadType, ConnectionMutex
    <3> QED
      BY <2>2, <3>1 DEF GetAbilityProxy, manager, service, history
  <2>3. CASE ConnectServiceExtensionAbility(t)
    <3>1. job[t] \in Requests
      BY <2>3 DEF ConnectServiceExtensionAbility, ThreadInv, Employed, Working
    <3> QED
      BY <2>3, <3>1, LeaveWorld DEF ConnectServiceExtensionAbility, service
  <2>4. CASE InvokeHsdrAsync(t)
    <3>1. remote' \in [Threads -> {None, "alive", "dead"}]
      BY <2>4, LeaveWorld DEF InvokeHsdrAsync
    <3>2. replies' \in [Requests -> 0..MaxReplies]
      BY <2>4, Bounds DEF InvokeHsdrAsync
    <3> QED
      BY <2>4, <3>1, <3>2 DEF InvokeHsdrAsync, manager, history
  <2>5. CASE Answer(t) \/ DisconnectAbility(t)
    <3>1. remote' \in [Threads -> {None, "alive", "dead"}]
      BY <2>5, LeaveWorld DEF Answer, DisconnectAbility
    <3>2. CASE Answer(t)
      BY <3>1, <3>2 DEF Answer, manager, service
    <3>3. CASE DisconnectAbility(t)
      BY <3>1, <3>3 DEF DisconnectAbility, service, history
    <3> QED
      BY <2>5, <3>2, <3>3
  <2> QED
    BY <1>1, <2>1, <2>2, <2>3, <2>4, <2>5 DEF Continue
<1>2. ASSUME NEW t \in Threads, Disconnect(t)
      PROVE  WorldType'
  BY <1>2, Bounds DEF Disconnect, manager, history
<1>3. ASSUME NEW t \in Threads, NEW r \in Requests, Subscribe(t, r)
      PROVE  WorldType'
  BY <1>3 DEF Subscribe, manager, service, history
<1>4. ASSUME NEW t \in Threads, NEW r \in Requests, OnRemoteRequest(t, r)
      PROVE  WorldType'
  <2>1. replies[r] - 1 \in 0..MaxReplies
    BY <1>4, Bounds DEF OnRemoteRequest
  <2> QED
    BY <1>4, <2>1 DEF OnRemoteRequest, manager, history
<1>5. ASSUME NEW t \in Threads, NEW c \in Requests,
             OnAbilityConnectDone(t, c) \/ OnAbilityDisconnectDone(t, c)
      PROVE  WorldType'
  BY <1>5 DEF OnAbilityConnectDone, OnAbilityDisconnectDone, threads, service, history
<1>6. CASE ServiceCrash
  BY <1>6, Bounds DEF ServiceCrash
<1>7. CASE UNCHANGED vars
  BY <1>7 DEF vars, manager, threads, service, history
<1> QED
  BY <1>1, <1>2, <1>3, <1>4, <1>5, <1>6, <1>7 DEF Next, OnConnect, OnReply

\* Threads, connections and requests always have their types; nobody answers a request
\* twice or looks for the proxy of a connection that is gone.
THEOREM TypeCorrect == Spec => []TypeOK
<1>1. ThreadInv /\ OutcomeInv /\ WorldType => TypeOK
  BY DEF ThreadInv, ThreadType, Labels, OutcomeInv, WorldType, TypeOK
<1>2. Spec => []OutcomeInv
  BY OutcomeInit, OutcomeStep, ThreadAlways, PTL DEF Spec
<1>3. Spec => []WorldType
  BY WorldInit, WorldStep, ThreadAlways, PTL DEF Spec
<1> QED
  BY <1>1, <1>2, <1>3, ThreadAlways, PTL

-----------------------------------------------------------------------------
(* Nobody forgets a subscription. *)

\* While DisconnectHsdr closes the connection there is no subscription to forget.
Emptied == \A t \in Threads : pc[t] = "close" => t \in subHolder /\ subs = {}

Owned(r) ==
    \/ r \in lost
    \/ attempt[r] = "pending" \/ replies[r] > 0
    \/ \E t \in Threads : job[t] = r

LEMMA EmptiedStep == ThreadInv /\ Emptied /\ [Next]_vars => Emptied'
<1> SUFFICES ASSUME ThreadInv, Emptied, [Next]_vars PROVE Emptied'
  OBVIOUS
<1>0. pc \in [Threads -> Labels]
  BY DEF ThreadInv, ThreadType
<1>1. ASSUME NEW t \in Threads, NEW label \in Labels \ {"close"}, GoTo(t, label),
             subs' \subseteq subs, subHolder' = subHolder \/ subHolder' = subHolder \ {t}
      PROVE  Emptied'
  BY <1>0, <1>1 DEF Emptied, GoTo
<1>2. ASSUME NEW t \in Threads, Continue(t)
      PROVE  Emptied'
  <2>1. CASE ClearSubscriptions(t)
    <3>1. \A u \in Threads : u # t => pc'[u] = pc[u] /\ u \notin subHolder
      BY <1>0, <2>1 DEF ClearSubscriptions, GoTo, WaitsFor
    <3> QED
      BY <2>1, <3>1 DEF ClearSubscriptions, Emptied
  <2>2. CASE LockConnection(t) \/ ReuseConnection(t) \/ GetAbilityProxy(t) \/ InvokeFails(t)
             \/ InvokeHsdrSync(t) \/ SyncReply(t)
    <3>1. subs' = subs /\ subHolder' = subHolder
      BY <2>2 DEF LockConnection, ReuseConnection, GetAbilityProxy, InvokeFails,
                  InvokeHsdrSync, SyncReply, locks
    <3>2. PICK label \in Labels \ {"close"} : GoTo(t, label)
      BY <2>2 DEF LockConnection, ReuseConnection, GetAbilityProxy, InvokeFails,
                  InvokeHsdrSync, SyncReply, Labels
    <3> QED
      BY <1>1, <3>1, <3>2
  <2>3. CASE ConnectServiceExtensionAbility(t) \/ Answer(t) \/ DisconnectAbility(t)
             \/ InvokeHsdrAsync(t)
    <3>1. subs' \subseteq subs
      BY <2>3 DEF ConnectServiceExtensionAbility, Answer, DisconnectAbility, InvokeHsdrAsync
    <3>2. CASE Leave(t)
      BY <1>1, <3>1, <3>2 DEF Leave, Labels
    <3>3. CASE GoTo(t, "answer") /\ UNCHANGED <<locks, job, remote>>
      BY <1>1, <3>1, <3>3 DEF locks, Labels
    <3> QED
      BY <2>3, <3>2, <3>3 DEF ConnectServiceExtensionAbility, Answer, DisconnectAbility,
                              InvokeHsdrAsync
  <2> QED
    BY <1>2, <2>1, <2>2, <2>3 DEF Continue
<1>3. ASSUME NEW t \in Threads, NEW r \in Requests, Subscribe(t, r)
      PROVE  Emptied'
  BY <1>0, <1>3 DEF Subscribe, GoTo, Emptied
<1>4. ASSUME NEW t \in Threads, NEW r \in Requests,
             Disconnect(t) \/ OnRemoteRequest(t, r)
      PROVE  Emptied'
  BY <1>1, <1>4 DEF Disconnect, OnRemoteRequest, locks, Labels
<1>5. ASSUME NEW t \in Threads, NEW r \in Requests, OnAbilityConnectDone(t, r)
      PROVE  Emptied'
  BY <1>0, <1>5 DEF OnAbilityConnectDone, GoTo, threads, Emptied
<1>6. ASSUME NEW t \in Threads, NEW r \in Requests, OnAbilityDisconnectDone(t, r)
      PROVE  Emptied'
  BY <1>6 DEF OnAbilityDisconnectDone, threads, locks, Emptied
<1>7. CASE ServiceCrash \/ UNCHANGED vars
  BY <1>7 DEF ServiceCrash, vars, threads, locks, Emptied
<1>8. ASSUME NEW t \in Threads, Disconnect(t)
      PROVE  Emptied'
  BY <1>1, <1>8 DEF Disconnect, locks, Labels
<1> QED
  BY <1>2, <1>3, <1>4, <1>5, <1>6, <1>7, <1>8 DEF Next, OnConnect, OnReply

\* A thread that is not in a request has none.
Unemployed == \A t \in Threads : pc[t] \notin Working => job[t] = None

LEMMA UnemployedStep == ThreadInv /\ Unemployed /\ [Next]_vars => Unemployed'
<1> SUFFICES ASSUME ThreadInv, Unemployed, [Next]_vars PROVE Unemployed'
  OBVIOUS
<1>0. pc \in [Threads -> Labels] /\ job \in [Threads -> Requests \cup {None}]
  BY DEF ThreadInv, ThreadType
<1> USE DEF Unemployed
<1>1. ASSUME NEW t \in Threads, NEW label \in Labels, GoTo(t, label),
             \A u \in Threads : u # t => job'[u] = job[u],
             label \notin Working => job'[t] = None
      PROVE  Unemployed'
  BY <1>0, <1>1 DEF GoTo
<1>2. ASSUME NEW t \in Threads, Continue(t)
      PROVE  Unemployed'
  <2>1. CASE Leave(t)
    BY <1>0, <1>1, <2>1 DEF Leave, Labels
  <2>2. CASE LockConnection(t) \/ ReuseConnection(t) \/ GetAbilityProxy(t) \/ InvokeFails(t)
             \/ InvokeHsdrSync(t) \/ SyncReply(t) \/ ClearSubscriptions(t)
    <3>1. job' = job
      BY <2>2 DEF LockConnection, ReuseConnection, GetAbilityProxy, InvokeFails,
                  InvokeHsdrSync, SyncReply, ClearSubscriptions
    <3>2. PICK label \in Labels : GoTo(t, label) /\ (label \notin Working => pc[t] \notin Working)
      BY <2>2 DEF LockConnection, ReuseConnection, GetAbilityProxy, InvokeFails,
                  InvokeHsdrSync, SyncReply, ClearSubscriptions, Labels, Working
    <3> QED
      BY <1>1, <3>1, <3>2
  <2>3. CASE InvokeHsdrAsync(t) /\ GoTo(t, "answer") /\ UNCHANGED job
    BY <1>1, <2>3 DEF Labels, Working
  <2> QED
    BY <1>2, <2>1, <2>2, <2>3 DEF Continue, ConnectServiceExtensionAbility, InvokeHsdrAsync,
                                  Answer, DisconnectAbility
<1>3. ASSUME NEW t \in Threads, NEW r \in Requests,
             Subscribe(t, r) \/ OnRemoteRequest(t, r)
      PROVE  Unemployed'
  BY <1>0, <1>1, <1>3 DEF Subscribe, OnRemoteRequest, Labels, Working
<1>4. ASSUME NEW t \in Threads, Disconnect(t)
      PROVE  Unemployed'
  BY <1>1, <1>4 DEF Disconnect, Labels, Working
<1>5. ASSUME NEW t \in Threads, NEW r \in Requests, OnAbilityConnectDone(t, r)
      PROVE  Unemployed'
  BY <1>0, <1>1, <1>5 DEF OnAbilityConnectDone, threads, Labels, Working
<1>6. ASSUME NEW t \in Threads, NEW r \in Requests, OnAbilityDisconnectDone(t, r)
      PROVE  Unemployed'
  BY <1>6 DEF OnAbilityDisconnectDone, threads
<1>7. CASE ServiceCrash \/ UNCHANGED vars
  BY <1>7 DEF ServiceCrash, vars, threads
<1> QED
  BY <1>2, <1>3, <1>4, <1>5, <1>6, <1>7 DEF Next, OnConnect, OnReply

OwnedInv == \A r \in Requests : r \in subs => Owned(r)

LEMMA OwnedStep ==
  ThreadInv /\ WorldType /\ Unemployed /\ Emptied /\ OwnedInv /\ [Next]_vars => OwnedInv'
<1> SUFFICES ASSUME ThreadInv, WorldType, Unemployed, Emptied, OwnedInv, [Next]_vars,
                    NEW r \in Requests, r \in subs'
             PROVE  Owned(r)'
  BY DEF OwnedInv
<1>0. job \in [Threads -> Requests \cup {None}]
  BY DEF ThreadInv, ThreadType
<1>1. ASSUME UNCHANGED <<subs, attempt, replies, job, lost>>
      PROVE  Owned(r)'
  BY <1>1 DEF OwnedInv, Owned
<1>2. ASSUME NEW t \in Threads, Continue(t)
      PROVE  Owned(r)'
  <2>1. CASE LockConnection(t) \/ ReuseConnection(t) \/ GetAbilityProxy(t) \/ InvokeFails(t)
             \/ InvokeHsdrSync(t) \/ SyncReply(t)
    BY <1>1, <2>1 DEF LockConnection, ReuseConnection, GetAbilityProxy, InvokeFails,
                      InvokeHsdrSync, SyncReply, manager, service, history
  <2>2. CASE ConnectServiceExtensionAbility(t)
    <3>1. Owned(r) /\ UNCHANGED replies /\ lost \subseteq lost'
      BY <2>2 DEF ConnectServiceExtensionAbility, OwnedInv, service
    <3>2. \A u \in Threads : u # t => job'[u] = job[u]
      BY <1>0, <2>2 DEF ConnectServiceExtensionAbility, Leave
    <3>3. attempt[r] = "pending" => attempt'[r] = "pending"
      BY <2>2 DEF ConnectServiceExtensionAbility, WorldType
    <3>4. job[t] = r => attempt'[r] = "pending" \/ r \in lost'
      BY <2>2 DEF ConnectServiceExtensionAbility, WorldType
    <3> QED
      BY <3>1, <3>2, <3>3, <3>4 DEF Owned
  <2>3. CASE InvokeHsdrAsync(t)
    <3>1. Owned(r) /\ UNCHANGED <<attempt, lost>>
      BY <2>3 DEF InvokeHsdrAsync, OwnedInv, manager, history
    <3>2. \A u \in Threads : u # t => job'[u] = job[u]
      BY <1>0, <2>3 DEF InvokeHsdrAsync, Leave
    <3>3. PICK n \in 1..MaxReplies : replies' = [replies EXCEPT ![job[t]] = n]
      BY <2>3 DEF InvokeHsdrAsync
    <3>4. n \in Nat /\ n > 0
      BY <3>3, Bounds
    <3>5. /\ replies[r] > 0 => replies'[r] > 0
          /\ job[t] = r => replies'[r] > 0
      BY <3>3, <3>4 DEF WorldType
    <3> QED
      BY <3>1, <3>2, <3>5 DEF Owned
  <2>4. CASE Answer(t)
    <3>1. Owned(r) /\ UNCHANGED <<attempt, lost, replies>> /\ job[t] # r
      BY <2>4 DEF Answer, OwnedInv, manager, service
    <3>2. \A u \in Threads : u # t => job'[u] = job[u]
      BY <1>0, <2>4 DEF Answer, Leave
    <3> QED
      BY <3>1, <3>2 DEF Owned
  <2>5. CASE ClearSubscriptions(t) \/ DisconnectAbility(t)
    BY <2>5 DEF ClearSubscriptions, DisconnectAbility, Emptied
  <2> QED
    BY <1>2, <2>1, <2>2, <2>3, <2>4, <2>5 DEF Continue
<1>3. ASSUME NEW t \in Threads, NEW q \in Requests, Subscribe(t, q)
      PROVE  Owned(r)'
  <2>1. job'[t] = q /\ job[t] = None /\ \A u \in Threads : u # t => job'[u] = job[u]
    BY <1>0, <1>3 DEF Subscribe, Unemployed, Working
  <2>2. CASE r = q
    BY <2>1, <2>2 DEF Owned
  <2>3. CASE r # q
    <3>1. Owned(r) /\ UNCHANGED <<attempt, lost, replies>>
      BY <1>3, <2>3 DEF Subscribe, OwnedInv, manager, service, history
    <3> QED
      BY <2>1, <3>1, HsdrAssumption DEF Owned
  <2> QED
    BY <2>2, <2>3
<1>4. ASSUME NEW t \in Threads, NEW q \in Requests, OnRemoteRequest(t, q)
      PROVE  Owned(r)'
  <2>1. Owned(r) /\ UNCHANGED <<attempt, lost>>
    BY <1>4 DEF OnRemoteRequest, OwnedInv, manager, history
  <2>2. job'[t] = q /\ job[t] = None /\ \A u \in Threads : u # t => job'[u] = job[u]
    BY <1>0, <1>4 DEF OnRemoteRequest, Unemployed, Working
  <2>3. r # q => replies'[r] = replies[r]
    BY <1>4 DEF OnRemoteRequest, WorldType
  <2> QED
    BY <2>1, <2>2, <2>3, HsdrAssumption DEF Owned
<1>5. ASSUME NEW t \in Threads, NEW c \in Requests, OnAbilityConnectDone(t, c)
      PROVE  Owned(r)'
  <2>1. Owned(r) /\ UNCHANGED replies /\ lost \subseteq lost'
    BY <1>5 DEF OnAbilityConnectDone, OwnedInv, service
  <2>2. job[t] = None /\ \A u \in Threads : u # t => job'[u] = job[u]
    BY <1>0, <1>5 DEF OnAbilityConnectDone, Unemployed, Working, threads
  <2>3. attempt[r] = "pending" /\ r # c => attempt'[r] = "pending"
    BY <1>5 DEF OnAbilityConnectDone, WorldType
  <2>4. job'[t] = c \/ c \in lost'
    BY <1>0, <1>5 DEF OnAbilityConnectDone
  <2> QED
    BY <2>1, <2>2, <2>3, <2>4, HsdrAssumption DEF Owned
<1>6. ASSUME NEW t \in Threads, NEW c \in Requests, OnAbilityDisconnectDone(t, c)
      PROVE  Owned(r)'
  <2>1. Owned(r) /\ UNCHANGED <<replies, lost, job>>
    BY <1>6 DEF OnAbilityDisconnectDone, OwnedInv, service, threads, history
  <2>2. attempt[r] = "pending" => attempt'[r] = "pending"
    BY <1>6 DEF OnAbilityDisconnectDone, WorldType
  <2> QED
    BY <2>1, <2>2 DEF Owned
<1>7. CASE ServiceCrash
  <2>1. Owned(r) /\ UNCHANGED <<attempt, job>> /\ lost \subseteq lost'
    BY <1>7 DEF ServiceCrash, OwnedInv
  <2>2. replies[r] > 0 => r \in lost'
    BY <1>7 DEF ServiceCrash
  <2> QED
    BY <2>1, <2>2 DEF Owned
<1>8. ASSUME NEW t \in Threads, Disconnect(t)
      PROVE  Owned(r)'
  BY <1>1, <1>8 DEF Disconnect, manager, history
<1>9. CASE UNCHANGED vars
  BY <1>1, <1>9 DEF vars, manager, threads, service, history
<1> QED
  BY <1>2, <1>3, <1>4, <1>5, <1>6, <1>7, <1>8, <1>9 DEF Next, OnConnect, OnReply

\* As long as a callback is subscribed, a thread works for its request, the ability manager
\* has still to report its connection, or the service has still to answer it, unless a
\* failed connection or a crash of the service has lost it.
THEOREM SubscriptionOwned == Spec => []SubscriptionHasOwner
<1>1. Init => Unemployed /\ Emptied /\ OwnedInv
  BY DEF Init, Unemployed, Emptied, OwnedInv
<1>2. OwnedInv /\ OutcomeInv => SubscriptionHasOwner
  BY DEF OwnedInv, OutcomeInv, Owned, SubscriptionHasOwner
<1>3. Spec => []OutcomeInv
  BY OutcomeInit, OutcomeStep, ThreadAlways, PTL DEF Spec
<1>4. Spec => []WorldType
  BY WorldInit, WorldStep, ThreadAlways, PTL DEF Spec
<1>5. Spec => []Emptied
  BY <1>1, EmptiedStep, ThreadAlways, PTL DEF Spec
<1>6. Spec => []Unemployed
  BY <1>1, UnemployedStep, ThreadAlways, PTL DEF Spec
<1> QED
  BY <1>1, <1>2, <1>3, <1>4, <1>5, <1>6, OwnedStep, ThreadAlways, PTL DEF Spec
=============================================================================
