----------------------------- MODULE HsdrHelper -----------------------------
(***************************************************************************)
(* HsdrHelper: requests to a cloud service over a connection that the      *)
(* ability manager makes.  RequestHsdrAsync subscribes the callbacks under *)
(* a fresh request ID, connects if no connection is alive, and sends the   *)
(* request, on the caller's thread or on that of OnAbilityConnectDone.     *)
(* The answer comes back in the reply, or later on a callback stub.        *)
(* NumberIdentityServiceExtensionClient repeats Connect and Disconnect.    *)
(*                                                                         *)
(* A request is identified with its ID, and the HsdrConnection that was    *)
(* made for a request with that request.  The callbacks of the client do   *)
(* not call the helper.  Threads are those of callers and of IPC.          *)
(***************************************************************************)
EXTENDS Integers, FiniteSets

CONSTANTS
    Threads, Requests,
    None,         \* no request, no connection, no remote object
    MaxReplies,   \* how often the service may answer one request
    MaxDisconnects,  \* bounds the calls of DisconnectHsdr
    Faults        \* may connections, messages and the service fail

ASSUME HsdrAssumption ==
    /\ None \notin Requests
    /\ MaxReplies \in Nat \ {0}
    /\ MaxDisconnects \in Nat
    /\ Faults \in BOOLEAN

VARIABLES
    kind,         \* kind[r]: "new", or how r wants its answer: "sync", "async"
    subs,         \* subscriptions_
    connection,   \* connection_, or None
    proxy,        \* proxy[c]: remoteObject_ of c: None, "alive" or "dead"
    attempt,      \* attempt[c]: how far the ability manager is with c
    connHolder, subHolder, proxyHolder,    \* the threads that have the mutexes
    pc, job,      \* where each thread is, and for which request
    remote,       \* remote[t]: the remote object t is about to use
    replies,      \* replies[r]: answers the service has still to send
    disconnects,  \* calls of DisconnectHsdr so far
    crashed,      \* has the service crashed (once at most)
    answers,      \* history: calls of onResponse and onError of r
    dropped,      \* history: requests whose subscription DisconnectHsdr cleared
    lost          \* history: requests that failed without a callback

locks == <<connHolder, subHolder, proxyHolder>>
manager == <<connection, proxy, attempt>>
threads == <<pc, job, remote>>
service == <<replies, disconnects, crashed>>
history == <<answers, dropped, lost>>
vars == <<kind, subs, manager, locks, threads, service, history>>

TypeOK ==
    /\ kind \in [Requests -> {"new", "sync", "async"}]
    /\ subs \subseteq Requests
    /\ connection \in Requests \cup {None}
    /\ proxy \in [Requests -> {None, "alive", "dead"}]
    /\ attempt \in [Requests -> {"none", "pending", "connected", "closing", "closed"}]
    /\ connHolder \subseteq Threads
    /\ subHolder \subseteq Threads
    /\ proxyHolder \in [Requests -> SUBSET Threads]
    /\ pc \in [Threads -> {"idle", "connect", "isAlive", "getProxy", "invoke", "sync",
                           "answer", "disconnect", "clear", "close"}]
    /\ job \in [Threads -> Requests \cup {None}]
    /\ remote \in [Threads -> {None, "alive", "dead"}]
    /\ replies \in [Requests -> 0..MaxReplies]
    /\ disconnects \in 0..MaxDisconnects
    /\ crashed \in BOOLEAN
    /\ answers \in [Requests -> 0..1]
    /\ dropped \subseteq Requests
    /\ lost \subseteq Requests

Init ==
    /\ kind = [r \in Requests |-> "new"]
    /\ subs = {}
    /\ connection = None
    /\ proxy = [c \in Requests |-> None]
    /\ attempt = [c \in Requests |-> "none"]
    /\ connHolder = {} /\ subHolder = {}
    /\ proxyHolder = [c \in Requests |-> {}]
    /\ pc = [t \in Threads |-> "idle"]
    /\ job = [t \in Threads |-> None]
    /\ remote = [t \in Threads |-> None]
    /\ replies = [r \in Requests |-> 0]
    /\ disconnects = 0 /\ crashed = FALSE
    /\ answers = [r \in Requests |-> 0]
    /\ dropped = {} /\ lost = {}

-----------------------------------------------------------------------------
GoTo(t, label) == pc' = [pc EXCEPT ![t] = label]

\* The thread leaves the helper, and with it every mutex it has.
Leave(t) ==
    /\ GoTo(t, "idle")
    /\ job' = [job EXCEPT ![t] = None]
    /\ remote' = [remote EXCEPT ![t] = None]
    /\ connHolder' = connHolder \ {t}
    /\ subHolder' = subHolder \ {t}
    /\ proxyHolder' = [c \in Requests |-> proxyHolder[c] \ {t}]

\* The threads that have the mutex of the connection that t asks.
ProxyHolder == {u \in Threads : \E c \in Requests : c = connection /\ u \in proxyHolder[c]}

\* Mutant: the connection is looked at, under its mutex, before an answer.
WaitsForBoth(t) ==
    CASE pc[t] \in {"connect", "disconnect"} -> connHolder \ {t}
      [] pc[t] \in {"isAlive", "getProxy"} -> ProxyHolder \ {t}
      [] pc[t] \in {"answer", "clear"} -> (subHolder \cup connHolder) \ {t}
      [] OTHER -> {}

\* The other threads that have the mutex t locks next; the mutexes are recursive.
WaitsFor(t) ==
    CASE pc[t] \in {"connect", "disconnect"} -> connHolder \ {t}
      [] pc[t] \in {"isAlive", "getProxy"} -> ProxyHolder \ {t}
      [] pc[t] \in {"answer", "clear"} -> subHolder \ {t}
      [] OTHER -> {}

(* RequestHsdrAsync and ConnectHsdr *)

Subscribe(t, r) ==
    /\ pc[t] = "idle" /\ kind[r] = "new" /\ subHolder = {}
    /\ \E k \in {"sync", "async"} : kind' = [kind EXCEPT ![r] = k]
    /\ subs' = subs \cup {r}
    /\ GoTo(t, "connect")
    /\ job' = [job EXCEPT ![t] = r]
    /\ UNCHANGED <<manager, locks, remote, service, history>>

LockConnection(t) ==
    /\ WaitsFor(t) = {}
    /\ connHolder' = {t}
    /\ \/ pc[t] = "connect" /\ GoTo(t, "isAlive")
       \/ pc[t] = "disconnect" /\ GoTo(t, "clear")
    /\ UNCHANGED <<kind, subs, manager, subHolder, proxyHolder, job, remote, service, history>>

\* IsAlive and GetAbilityProxy take the mutex of the connection one after the other.
IsAlive == connection # None /\ proxy[connection] = "alive"

ReuseConnection(t) ==
    /\ pc[t] = "isAlive" /\ WaitsFor(t) = {} /\ IsAlive
    /\ GoTo(t, "getProxy")
    /\ UNCHANGED <<kind, subs, manager, locks, job, remote, service, history>>

GetAbilityProxy(t) ==
    /\ pc[t] = "getProxy" /\ WaitsFor(t) = {}
    /\ remote' = [remote EXCEPT ![t] = proxy[connection]]
    /\ GoTo(t, "invoke")
    /\ UNCHANGED <<kind, subs, manager, locks, job, service, history>>

\* The error of ConnectServiceExtensionAbility is returned, the subscription stays.
ConnectServiceExtensionAbility(t) ==
    /\ pc[t] = "isAlive" /\ WaitsFor(t) = {} /\ ~IsAlive
    /\ \/ /\ connection' = job[t]
          /\ attempt' = [attempt EXCEPT ![job[t]] = "pending"]
          /\ UNCHANGED lost
       \/ /\ Faults
          /\ connection' = None
          /\ lost' = lost \cup {job[t]}
          /\ UNCHANGED attempt
    /\ Leave(t)
    /\ UNCHANGED <<kind, subs, proxy, service, answers, dropped>>

(* The ability manager *)

OnAbilityConnectDone(t, c) ==
    /\ pc[t] = "idle" /\ attempt[c] = "pending" /\ proxyHolder[c] = {}
    /\ \/ /\ attempt' = [attempt EXCEPT ![c] = "connected"]
          /\ proxy' = [proxy EXCEPT ![c] = "alive"]
          /\ proxyHolder' = [proxyHolder EXCEPT ![c] = {t}]
          /\ remote' = [remote EXCEPT ![t] = "alive"]
          /\ job' = [job EXCEPT ![t] = c]
          /\ GoTo(t, "invoke")
          /\ UNCHANGED lost
       \/ /\ Faults
          /\ attempt' = [attempt EXCEPT ![c] = "closed"]
          /\ lost' = lost \cup {c}
          /\ UNCHANGED <<proxy, proxyHolder, threads>>
    /\ UNCHANGED <<kind, subs, connection, connHolder, subHolder, service, answers, dropped>>

OnAbilityDisconnectDone(t, c) ==
    /\ pc[t] = "idle" /\ proxyHolder[c] = {}
    /\ \/ attempt[c] = "closing"
       \/ attempt[c] = "connected" /\ proxy[c] = "dead"
    /\ attempt' = [attempt EXCEPT ![c] = "closed"]
    /\ proxy' = [proxy EXCEPT ![c] = None]
    /\ UNCHANGED <<kind, subs, connection, locks, threads, service, history>>

(* The callback of a connection *)

\* Mutant: without a remote object it just returns.
InvokeNullReturns(t) ==
    /\ pc[t] = "invoke" /\ remote[t] # "alive"
    /\ Leave(t)
    /\ UNCHANGED <<kind, subs, manager, service, history>>

\* No remote object, no memory, or the message could not be written.
InvokeFails(t) ==
    /\ pc[t] = "invoke"
    /\ Faults \/ remote[t] # "alive"
    /\ GoTo(t, "answer")
    /\ UNCHANGED <<kind, subs, manager, locks, job, remote, service, history>>

\* The service may have got the request although SendRequest fails.
InvokeHsdrAsync(t) ==
    /\ pc[t] = "invoke" /\ remote[t] = "alive" /\ kind[job[t]] = "async"
    /\ \E n \in 1..MaxReplies : replies' = [replies EXCEPT ![job[t]] = n]
    /\ \/ Leave(t)
       \/ Faults /\ GoTo(t, "answer") /\ UNCHANGED <<locks, job, remote>>
    /\ UNCHANGED <<kind, subs, manager, disconnects, crashed, history>>

InvokeHsdrSync(t) ==
    /\ pc[t] = "invoke" /\ remote[t] = "alive" /\ kind[job[t]] = "sync"
    /\ GoTo(t, "sync")
    /\ UNCHANGED <<kind, subs, manager, locks, job, remote, service, history>>

\* The reply, or the error of SendRequest.
SyncReply(t) ==
    /\ pc[t] = "sync"
    /\ GoTo(t, "answer")
    /\ UNCHANGED <<kind, subs, manager, locks, job, remote, service, history>>

(* HandleResponse and HandleError *)

\* Mutant: a message that cannot be read is dropped.
OnRemoteRequestReads(t, r) ==
    /\ pc[t] = "idle" /\ replies[r] > 0
    /\ replies' = [replies EXCEPT ![r] = @ - 1]
    /\ \/ job' = [job EXCEPT ![t] = r] /\ GoTo(t, "answer")
       \/ Faults /\ UNCHANGED <<pc, job>>
    /\ UNCHANGED <<kind, subs, manager, locks, remote, disconnects, crashed, history>>

\* The answer, or the error that it cannot be read; its own requestId is only logged.
OnRemoteRequest(t, r) ==
    /\ pc[t] = "idle" /\ replies[r] > 0
    /\ replies' = [replies EXCEPT ![r] = @ - 1]
    /\ job' = [job EXCEPT ![t] = r]
    /\ GoTo(t, "answer")
    /\ UNCHANGED <<kind, subs, manager, locks, remote, disconnects, crashed, history>>

\* Mutant: the subscription is found but not removed.
AnswerKeeps(t) ==
    /\ pc[t] = "answer" /\ WaitsFor(t) = {}
    /\ answers' = [answers EXCEPT ![job[t]] = IF job[t] \in subs THEN @ + 1 ELSE @]
    /\ Leave(t)
    /\ UNCHANGED <<kind, subs, manager, service, dropped, lost>>

\* Mutant: the callbacks are called without a look at the subscriptions.
AnswerAnyway(t) ==
    /\ pc[t] = "answer" /\ WaitsFor(t) = {}
    /\ subs' = subs \ {job[t]}
    /\ answers' = [answers EXCEPT ![job[t]] = 1]
    /\ Leave(t)
    /\ UNCHANGED <<kind, manager, service, dropped, lost>>

\* onResponse or onError is called under the mutex, and the subscription is removed.
Answer(t) ==
    /\ pc[t] = "answer" /\ WaitsFor(t) = {}
    /\ subs' = subs \ {job[t]}
    /\ answers' = [answers EXCEPT ![job[t]] = IF job[t] \in subs THEN @ + 1 ELSE @]
    /\ Leave(t)
    /\ UNCHANGED <<kind, manager, service, dropped, lost>>

(* DisconnectHsdr *)

Disconnect(t) ==
    /\ pc[t] = "idle" /\ disconnects < MaxDisconnects
    /\ disconnects' = disconnects + 1
    /\ GoTo(t, "disconnect")
    /\ UNCHANGED <<kind, subs, manager, locks, job, remote, replies, crashed, history>>

ClearSubscriptions(t) ==
    /\ pc[t] = "clear" /\ WaitsFor(t) = {}
    /\ subHolder' = {t}
    /\ dropped' = dropped \cup subs
    /\ subs' = {}
    /\ GoTo(t, "close")
    /\ UNCHANGED <<kind, manager, connHolder, proxyHolder, job, remote, service, answers, lost>>

\* A connection that is pending may still be reported as done.
DisconnectAbility(t) ==
    /\ pc[t] = "close"
    /\ connection' = None
    /\ \/ /\ connection # None /\ attempt[connection] = "connected"
          /\ attempt' = [attempt EXCEPT ![connection] = "closing"]
       \/ /\ connection # None /\ attempt[connection] = "pending"
          /\ attempt' = [attempt EXCEPT ![connection] = "closed"]
       \/ /\ Faults \/ \A c \in Requests : c = connection => attempt[c] # "connected"
          /\ UNCHANGED attempt
    /\ Leave(t)
    /\ UNCHANGED <<kind, subs, proxy, service, history>>

\* The process of the service ends: its remote objects are dead, its answers are lost.
ServiceCrash ==
    /\ Faults /\ ~crashed
    /\ crashed' = TRUE
    /\ proxy' = [c \in Requests |-> IF proxy[c] = "alive" THEN "dead" ELSE proxy[c]]
    /\ remote' = [t \in Threads |-> IF remote[t] = "alive" THEN "dead" ELSE remote[t]]
    /\ replies' = [r \in Requests |-> 0]
    /\ lost' = lost \cup {r \in Requests : replies[r] > 0}
    /\ UNCHANGED <<kind, subs, connection, attempt, locks, pc, job, disconnects, answers, dropped>>

\* What a thread in the helper does next.
Continue(t) ==
    \/ LockConnection(t) \/ ReuseConnection(t) \/ GetAbilityProxy(t)
    \/ ConnectServiceExtensionAbility(t)
    \/ InvokeFails(t) \/ InvokeHsdrAsync(t) \/ InvokeHsdrSync(t) \/ SyncReply(t)
    \/ Answer(t) \/ ClearSubscriptions(t) \/ DisconnectAbility(t)

\* What a thread begins that was idle.
OnConnect(c) == \E t \in Threads : OnAbilityConnectDone(t, c)
OnReply(r) == \E t \in Threads : OnRemoteRequest(t, r)

Next ==
    \/ \E t \in Threads : Continue(t) \/ Disconnect(t)
    \/ \E t \in Threads, r \in Requests : Subscribe(t, r) \/ OnAbilityDisconnectDone(t, r)
    \/ \E r \in Requests : OnConnect(r) \/ OnReply(r)
    \/ ServiceCrash

Spec == Init /\ [][Next]_vars

\* Threads run, a synchronous SendRequest returns, the ability manager reports every
\* connection and the service answers what it got.  Nothing makes a client call.
FairSpec ==
    /\ Spec
    /\ \A t \in Threads : WF_vars(Continue(t))
    /\ WF_vars(\E c \in Requests : OnConnect(c))
    /\ WF_vars(\E r \in Requests : OnReply(r))

-----------------------------------------------------------------------------
(* Properties. *)

\* A request is answered once at most, with onResponse or onError, and never after
\* DisconnectHsdr has cleared its subscription, however late or often the service answers.
OneOutcome ==
    \A r \in Requests : answers[r] + (IF r \in subs THEN 1 ELSE 0)
                                   + (IF r \in dropped THEN 1 ELSE 0) <= 1

\* No subscription is forgotten: somebody is still to answer it, unless the connection
\* failed or the service crashed (then it stays for ever, which is not reported).
SubscriptionHasOwner ==
    \A r \in subs :
        \/ r \in lost
        \/ attempt[r] = "pending" \/ replies[r] > 0
        \/ \E t \in Threads : job[t] = r

\* No threads wait for each other in a circle: a mutex is locked only by who has none
\* that comes after it in the order connection, proxy, subscription.
NoDeadlock ==
    ~ \E S \in SUBSET Threads : S # {} /\ \A t \in S : WaitsFor(t) \cap S # {}

\* Nobody waits for ever in RequestHsdrAsync, DisconnectHsdr or a callback, for a
\* mutex or because a connection goes down under a request.
EveryCallReturns == \A t \in Threads : (pc[t] # "idle") ~> (pc[t] = "idle")

\* Every request is answered or dropped, unless it is lost.
EveryRequestSettles == \A r \in Requests : (r \in subs) ~> (r \notin subs \/ r \in lost)
=============================================================================
