----------------------------- MODULE HttpClient -----------------------------
(* cc::network::HttpClient and the functions that other threads post to      *)
(* cc::Scheduler.  The main thread owns the singleton and sends requests; a  *)
(* detached thread serves them one by one, sendImmediate() takes a thread of *)
(* a pool; answers come back as posted functions, a batch of which the main  *)
(* thread runs every frame.  The object is deleted by the last of its users. *)
EXTENDS Naturals, Sequences, FiniteSets

CONSTANTS MaxRequests,  \* bound: requests sent in a run
          MaxClients,   \* bound: the singletons made, one after another
          EarlyDestroy  \* may destroyInstance() come before the thread has begun?

ASSUME HttpClientAssumption ==
    MaxRequests \in Nat /\ MaxClients \in Nat /\ EarlyDestroy \in BOOLEAN

Requests == 1..MaxRequests  \* numbered as they are sent
Clients == 1..MaxClients
None == 0
Sentinel == 0   \* _requestSentinel, in a request queue
Dispatch == 0   \* a posted dispatchResponseCallbacks(), which names no request

VARIABLES
  httpClient,      \* the singleton, or None
  life,            \* of a client: "unborn", "alive" or "deleted"
  threadCount,     \* _threadCount
  scheduler,       \* may _scheduler still be locked?
  requestQueue, responseQueue,
  network,         \* where networkThread() is
  request,         \* its local, Sentinel when it is out of scope
  sent, sentTo,    \* the number of requests sent, and each one's client
  alone,           \* where networkThreadAlone() of a request is
  functions,       \* Scheduler::_functionsToPerform
  batch,           \* temp, in runFunctionsToBePerformedInCocosThread
  main,            \* where the main thread is
  thiz,            \* the client that destroyInstance() works on
  calls,           \* how often the callback of a request was called
  posted, ran      \* history: numbers of the last function posted, and run

clientVars == <<life, threadCount, scheduler>>
queueVars == <<requestQueue, responseQueue>>
networkVars == <<network, request>>
sendVars == <<sent, sentTo, alone>>
functionVars == <<functions, batch, posted, ran>>
mainVars == <<httpClient, main, thiz>>
vars == <<clientVars, queueVars, networkVars, sendVars, functionVars, mainVars, calls>>

Init ==
    /\ httpClient = None /\ main = "idle" /\ thiz = None
    /\ life = [c \in Clients |-> "unborn"]
    /\ threadCount = [c \in Clients |-> 0] /\ scheduler = [c \in Clients |-> FALSE]
    /\ requestQueue = [c \in Clients |-> <<>>] /\ responseQueue = [c \in Clients |-> <<>>]
    /\ network = [c \in Clients |-> "none"] /\ request = [c \in Clients |-> Sentinel]
    /\ sent = 0 /\ sentTo = [r \in Requests |-> None] /\ alone = [r \in Requests |-> "no"]
    /\ functions = <<>> /\ batch = <<>> /\ posted = 0 /\ ran = 0
    /\ calls = [r \in Requests |-> 0]

-----------------------------------------------------------------------------
(* What the operations share. *)

\* notify_one() on _sleepCondition, of which the network thread is the only waiter.
NotifyLost(state) == state
Notified(state) == IF state = "asleep" THEN "looking" ELSE state

\* The first send() makes the thread.
Inited(state) == IF state = "none" THEN "starting" ELSE state

\* performFunctionInCocosThread(), for a client whose scheduler is still there.
PostAlways(c, what) ==
    /\ posted' = posted + 1
    /\ functions' = Append(functions, [number |-> posted + 1, client |-> c, request |-> what])
PostIfNone(c, what) ==
    IF scheduler[c] /\ functions = <<>> THEN PostAlways(c, what) ELSE UNCHANGED <<posted, functions>>
Post(c, what) ==
    IF scheduler[c] THEN PostAlways(c, what) ELSE UNCHANGED <<posted, functions>>

\* decreaseThreadCountAndMayDeleteThis()
LeaveKept(c) ==
    /\ threadCount' = [threadCount EXCEPT ![c] = IF @ = 0 THEN 0 ELSE @ - 1]
    /\ UNCHANGED life
Leave(c) ==
    /\ threadCount' = [threadCount EXCEPT ![c] = IF @ = 0 THEN 0 ELSE @ - 1]
    /\ life' = [life EXCEPT ![c] = IF threadCount[c] = 1 THEN "deleted" ELSE @]

-----------------------------------------------------------------------------
(* The main thread: the game's calls, between frames or from a callback. *)

Playing == main \in {"idle", "running"}

GetInstance ==
    /\ Playing /\ httpClient = None
    /\ \E c \in Clients :
         /\ life[c] = "unborn" /\ \A d \in 1..(c - 1) : life[d] # "unborn"
         /\ httpClient' = c
         /\ life' = [life EXCEPT ![c] = "alive"]
         /\ threadCount' = [threadCount EXCEPT ![c] = 1]
         /\ scheduler' = [scheduler EXCEPT ![c] = TRUE]
    /\ UNCHANGED <<queueVars, networkVars, sendVars, functionVars, main, thiz, calls>>

\* The next request goes to the singleton.
Sending(r) ==
    /\ Playing /\ httpClient # None
    /\ r = sent + 1 /\ sent' = r
    /\ sentTo' = [sentTo EXCEPT ![r] = httpClient]

Send(r) ==
    /\ Sending(r)
    /\ requestQueue' = [requestQueue EXCEPT ![httpClient] = Append(@, r)]
    /\ network' = [network EXCEPT ![httpClient] = Notified(Inited(@))]
    /\ UNCHANGED <<clientVars, responseQueue, request, alone, functionVars, mainVars, calls>>

CountedLate(c) == threadCount
Counted(c) == [threadCount EXCEPT ![c] = @ + 1]

SendImmediate(r) ==
    /\ Sending(r)
    /\ threadCount' = Counted(httpClient)
    /\ alone' = [alone EXCEPT ![r] = "working"]
    /\ UNCHANGED <<life, scheduler, queueVars, networkVars, functionVars, mainVars, calls>>

(* The functions of a frame.  Their number is read without the mutex: a       *)
(* function that is being posted is run now or in the next frame.             *)
TakeFunctions ==
    /\ main = "idle" /\ functions # <<>>
    /\ main' = "running" /\ batch' = functions /\ functions' = <<>>
    /\ UNCHANGED <<clientVars, queueVars, networkVars, sendVars, posted, ran, httpClient, thiz, calls>>

\* The response that dispatchResponseCallbacks() takes.
NewestResponse(c) == responseQueue[c][Len(responseQueue[c])]
OldestResponse(c) == Head(responseQueue[c])

\* A posted function calls the callback of one request, or finds no response.
CallFunction ==
    /\ main = "running" /\ batch # <<>>
    /\ batch' = Tail(batch) /\ ran' = Head(batch).number
    /\ LET f == Head(batch) IN
         \/ /\ f.request # Dispatch
            /\ calls' = [calls EXCEPT ![f.request] = @ + 1]
            /\ UNCHANGED responseQueue
         \/ /\ f.request = Dispatch /\ responseQueue[f.client] # <<>>
            /\ calls' = [calls EXCEPT ![OldestResponse(f.client)] = @ + 1]
            /\ responseQueue' = [responseQueue EXCEPT ![f.client] = Tail(@)]
         \/ /\ f.request = Dispatch /\ responseQueue[f.client] = <<>>
            /\ UNCHANGED <<calls, responseQueue>>
    /\ UNCHANGED <<clientVars, requestQueue, networkVars, sendVars, functions, posted, mainVars>>

\* What more than 16 ms leave over goes before what came in the meantime.
PutBackLast == functions \o batch
PutBack == batch \o functions

EndFunctions ==
    /\ main = "running"
    /\ main' = "idle" /\ functions' = PutBack /\ batch' = <<>>
    /\ UNCHANGED <<clientVars, queueVars, networkVars, sendVars, posted, ran, httpClient, thiz, calls>>

-----------------------------------------------------------------------------
(* Engine::destroy(), between frames: destroyInstance(), whose steps that     *)
(* other threads see are apart, and with the last of them                     *)
(* removeAllFunctionsToBePerformedInCocosThread().                            *)

SchedulerKept(c) == scheduler
SchedulerReset(c) == [scheduler EXCEPT ![c] = FALSE]

DestroyInstance ==
    /\ main = "idle" /\ httpClient # None
    /\ EarlyDestroy \/ network[httpClient] # "starting"
    /\ thiz' = httpClient /\ httpClient' = None /\ main' = "stopping"
    /\ scheduler' = SchedulerReset(httpClient)
    /\ UNCHANGED <<life, threadCount, queueVars, networkVars, sendVars, functionVars, calls>>

StopNetwork ==
    /\ main = "stopping" /\ main' = "leaving"
    /\ requestQueue' = [requestQueue EXCEPT ![thiz] = Append(@, Sentinel)]
    /\ network' = [network EXCEPT ![thiz] = Notified(@)]
    /\ UNCHANGED <<clientVars, responseQueue, request, sendVars, functionVars, httpClient, thiz, calls>>

LeaveInstance ==
    /\ main = "leaving" /\ main' = "idle"
    /\ Leave(thiz) /\ thiz' = None
    /\ functions' = <<>> /\ ran' = posted
    /\ UNCHANGED <<scheduler, queueVars, networkVars, sendVars, batch, posted, httpClient, calls>>

-----------------------------------------------------------------------------
(* networkThread() *)

Move(c, from, to) == network[c] = from /\ network' = [network EXCEPT ![c] = to]

NetworkStarts(c) ==
    /\ Move(c, "starting", "looking")
    /\ threadCount' = Counted(c)
    /\ UNCHANGED <<life, scheduler, queueVars, request, sendVars, functionVars, mainVars, calls>>

Sleep(c) ==
    /\ requestQueue[c] = <<>> /\ Move(c, "looking", "asleep")
    /\ UNCHANGED <<clientVars, queueVars, request, sendVars, functionVars, mainVars, calls>>

SpuriousWakeup(c) ==
    /\ Move(c, "asleep", "looking")
    /\ UNCHANGED <<clientVars, queueVars, request, sendVars, functionVars, mainVars, calls>>

SentinelServed(what) == "serving"
AfterTaking(what) == IF what = Sentinel THEN "quitting" ELSE "serving"
TakeRequest(c) ==
    /\ requestQueue[c] # <<>>
    /\ Move(c, "looking", AfterTaking(Head(requestQueue[c])))
    /\ request' = [request EXCEPT ![c] = Head(requestQueue[c])]
    /\ requestQueue' = [requestQueue EXCEPT ![c] = Tail(@)]
    /\ UNCHANGED <<clientVars, responseQueue, sendVars, functionVars, mainVars, calls>>

\* processResponse(), which comes to an end by its time limits, and the response.
Serve(c) ==
    /\ Move(c, "serving", "answering")
    /\ responseQueue' = [responseQueue EXCEPT ![c] = Append(@, request[c])]
    /\ request' = [request EXCEPT ![c] = Sentinel]
    /\ UNCHANGED <<clientVars, requestQueue, sendVars, functionVars, mainVars, calls>>

PostAnswer(c) ==
    /\ Move(c, "answering", "looking")
    /\ Post(c, Dispatch)
    /\ UNCHANGED <<clientVars, queueVars, request, sendVars, batch, ran, mainVars, calls>>

DropRequests(c) ==
    /\ Move(c, "quitting", "quit")
    /\ requestQueue' = [requestQueue EXCEPT ![c] = <<>>]
    /\ UNCHANGED <<clientVars, responseQueue, request, sendVars, functionVars, mainVars, calls>>

DropResponses(c) ==
    /\ Move(c, "quit", "leaving")
    /\ responseQueue' = [responseQueue EXCEPT ![c] = <<>>]
    /\ UNCHANGED <<clientVars, requestQueue, request, sendVars, functionVars, mainVars, calls>>

NetworkLeaves(c) ==
    /\ Move(c, "leaving", "done")
    /\ Leave(c)
    /\ UNCHANGED <<scheduler, queueVars, request, sendVars, functionVars, mainVars, calls>>

-----------------------------------------------------------------------------
(* networkThreadAlone() *)

AnswerAlone(r) ==
    /\ alone[r] = "working" /\ alone' = [alone EXCEPT ![r] = "leaving"]
    /\ Post(sentTo[r], r)
    /\ UNCHANGED <<clientVars, queueVars, networkVars, sent, sentTo, batch, ran, mainVars, calls>>

LeaveAlone(r) ==
    /\ alone[r] = "leaving" /\ alone' = [alone EXCEPT ![r] = "left"]
    /\ Leave(sentTo[r])
    /\ UNCHANGED <<scheduler, queueVars, networkVars, sent, sentTo, functionVars, mainVars, calls>>

-----------------------------------------------------------------------------
Destroying == StopNetwork \/ LeaveInstance
Calling == GetInstance \/ DestroyInstance \/ \E r \in Requests : Send(r) \/ SendImmediate(r)
Frame == TakeFunctions \/ EndFunctions
NetworkStep(c) ==
    \/ NetworkStarts(c) \/ Sleep(c) \/ TakeRequest(c) \/ Serve(c) \/ PostAnswer(c)
    \/ DropRequests(c) \/ DropResponses(c) \/ NetworkLeaves(c)
AloneStep(r) == AnswerAlone(r) \/ LeaveAlone(r)

Next ==
    \/ Calling \/ Frame \/ CallFunction \/ Destroying
    \/ \E c \in Clients : NetworkStep(c) \/ SpuriousWakeup(c)
    \/ \E r \in Requests : AloneStep(r)

Spec == Init /\ [][Next]_vars

\* Threads run, the main thread ends what it began and goes on to the next
\* frame.  The 16 ms do not pass in every frame before its first function.
FairSpec ==
    /\ Spec /\ WF_vars(Frame) /\ SF_vars(CallFunction) /\ WF_vars(Destroying)
    /\ \A c \in Clients : WF_vars(NetworkStep(c))
    /\ \A r \in Requests : WF_vars(AloneStep(r))

-----------------------------------------------------------------------------
(* Properties *)

NetworkStates == {"none", "starting", "looking", "asleep", "serving", "answering",
                  "quitting", "quit", "leaving", "done"}
MainStates == {"idle", "running", "stopping", "leaving"}
Functions == [number : Nat, client : Clients, request : Requests \cup {Dispatch}]

\* The variables keep their types; a response is one of a request (HttpClient.h:149-173).
TypeOK ==
    /\ httpClient \in Clients \cup {None} /\ thiz \in Clients \cup {None} /\ main \in MainStates
    /\ life \in [Clients -> {"unborn", "alive", "deleted"}]
    /\ threadCount \in [Clients -> Nat] /\ scheduler \in [Clients -> BOOLEAN]
    /\ requestQueue \in [Clients -> Seq(Requests \cup {Sentinel})]
    /\ responseQueue \in [Clients -> Seq(Requests)]
    /\ network \in [Clients -> NetworkStates] /\ request \in [Clients -> Requests \cup {Sentinel}]
    /\ sent \in 0..MaxRequests /\ sentTo \in [Requests -> Clients \cup {None}]
    /\ alone \in [Requests -> {"no", "working", "leaving", "left"}]
    /\ functions \in Seq(Functions) /\ batch \in Seq(Functions)
    /\ posted \in Nat /\ ran \in Nat /\ calls \in [Requests -> Nat]

\* The main thread holds the client until the end of destroyInstance(), the
\* network thread from its first step to its last, a pool's thread from
\* sendImmediate() on.
MainHolds(c) == httpClient = c \/ thiz = c
NetworkHolds(c) == network[c] \notin {"none", "starting", "done"}
AloneHolding(c) == {r \in Requests : sentTo[r] = c /\ alone[r] \in {"working", "leaving"}}

\* _threadCount is the number of those who hold the client, so that it is 0,
\* and the client deleted, by the last of them and not before.
CountsHolders ==
    \A c \in Clients :
      /\ threadCount[c] = Cardinality(AloneHolding(c)) + (IF MainHolds(c) THEN 1 ELSE 0)
                                                       + (IF NetworkHolds(c) THEN 1 ELSE 0)
      /\ life[c] = "alive" <=> threadCount[c] > 0

\* No thread is in a member of a client that is deleted (line 555: a count of
\* 0 "means that this HttpClient object is not used anymore"),
UsersAlive ==
    \A c \in Clients :
      MainHolds(c) \/ network[c] \notin {"none", "done"} \/ AloneHolding(c) # {} => life[c] = "alive"

\* nor is a function that is still to run bound to one (this, line 118).
FunctionsUsable ==
    \A i \in DOMAIN (batch \o functions) : life[(batch \o functions)[i].client] = "alive"

\* Nobody comes to a deleted client, at once or by a function of a later frame.
UsedAlive == UsersAlive /\ FunctionsUsable

\* Functions run in the order they were posted, each once; those that a long
\* frame leaves over too (Scheduler.cpp:363).
RunInOrder ==
    LET waiting == batch \o functions IN
      /\ posted = ran + Len(waiting)
      /\ \A i \in DOMAIN waiting : waiting[i].number = ran + i

\* As long as answers may be posted there is a dispatch for every response:
\* none stays in the queue, and no dispatch comes in vain.
Dispatches(c, fs) == Cardinality({i \in DOMAIN fs : fs[i].client = c /\ fs[i].request = Dispatch})
ResponsesDispatched ==
    \A c \in Clients : scheduler[c] =>
      Len(responseQueue[c]) = Dispatches(c, batch) + Dispatches(c, functions)
                                 + (IF network[c] = "answering" THEN 1 ELSE 0)

\* A request is answered at most once, and those of send() in the order they
\* were sent to the client.
AnsweredInOrder ==
    /\ \A r \in Requests : calls[r] <= 1
    /\ \A r, s \in Requests :
         r < s /\ sentTo[r] = sentTo[s] /\ alone[r] = "no" /\ alone[s] = "no" /\ calls[s] = 1 => calls[r] = 1

\* Every request is answered if its client is not destroyed before.
EveryRequestAnswered ==
    \A r \in Requests : r <= sent ~> calls[r] = 1 \/ httpClient # sentTo[r]

\* Once destroyInstance() was called all threads leave and the client is deleted.
ClientDeleted ==
    \A c \in Clients : life[c] # "unborn" /\ httpClient # c ~> life[c] = "deleted"
=============================================================================
