-------------------------- MODULE HttpClientProofs --------------------------
(* That HttpClient keeps its types, that its count is the number of its       *)
(* users, so that none of them outlives it, that posted functions run in      *)
(* order, that every response is dispatched, and that requests are answered   *)
(* once and in order, for any number of requests and clients.                 *)
EXTENDS HttpClient, FiniteSetTheorems, FunctionTheorems, TLAPS

\* What the places the threads are at say of the rest of the state.
Shape ==
    /\ main \in {"idle", "running"} => thiz = None
    /\ main \in {"stopping", "leaving"} => httpClient = None /\ thiz \in Clients
    /\ main # "running" => batch = <<>>
    /\ \A c \in Clients : network[c] = "serving" => request[c] \in Requests
    /\ \A c \in Clients : ~EarlyDestroy /\ network[c] = "starting" => httpClient = c
    /\ \A r \in Requests : alone[r] # "no" => sentTo[r] \in Clients
    /\ \A r \in Requests : r > sent => alone[r] = "no"

-----------------------------------------------------------------------------
(* Types and shape. *)

\* 0 is neither a client nor a request.
LEMMA Zero ==
    /\ None \notin Clients /\ Sentinel \notin Requests
    /\ Requests \subseteq Nat /\ \A r \in Requests : r \in 0..MaxRequests
BY HttpClientAssumption DEF None, Clients, Sentinel, Requests

\* A posted function has the type of one.
LEMMA PostType ==
    ASSUME TypeOK, NEW c \in Clients, NEW what \in Requests \cup {Dispatch}, Post(c, what)
    PROVE  functions' \in Seq(Functions) /\ posted' \in Nat
<1>1. functions \in Seq(Functions) /\ posted \in Nat
  BY DEF TypeOK
<1>2. [number |-> posted + 1, client |-> c, request |-> what] \in Functions
  BY <1>1 DEF Functions
<1>3. CASE scheduler[c]
  BY <1>1, <1>2, <1>3 DEF Post, PostAlways
<1>4. CASE ~scheduler[c]
  BY <1>1, <1>4 DEF Post
<1> QED
  BY <1>3, <1>4

\* The callback of a request is called.
LEMMA CallsType ==
    ASSUME calls \in [Requests -> Nat], NEW r \in Requests, calls' = [calls EXCEPT ![r] = @ + 1]
    PROVE  calls' \in [Requests -> Nat]
OBVIOUS

\* A response leaves its queue.
LEMMA ResponsesType ==
    ASSUME responseQueue \in [Clients -> Seq(Requests)], NEW c \in Clients, responseQueue[c] # <<>>,
           responseQueue' = [responseQueue EXCEPT ![c] = Tail(@)]
    PROVE  responseQueue' \in [Clients -> Seq(Requests)]
OBVIOUS

\* The initial state has the types and the shape.
LEMMA InitTypes == Init => TypeOK /\ Shape
BY HttpClientAssumption DEF Init, TypeOK, Shape, None, Sentinel, Dispatch, MainStates, NetworkStates, Functions, Requests, Clients

\* A step keeps the types and the shape.
LEMMA NextTypes == TypeOK /\ Shape /\ [Next]_vars => TypeOK' /\ Shape'
<1> SUFFICES ASSUME TypeOK, Shape, [Next]_vars PROVE TypeOK' /\ Shape'
  OBVIOUS
<1> USE Zero
<1> USE DEF MainStates, NetworkStates,
            clientVars, queueVars, networkVars, sendVars, functionVars, mainVars
<1>1. CASE GetInstance
  <2> PICK c \in Clients :
         /\ httpClient = None /\ httpClient' = c
         /\ life' = [life EXCEPT ![c] = "alive"]
         /\ threadCount' = [threadCount EXCEPT ![c] = 1]
         /\ scheduler' = [scheduler EXCEPT ![c] = TRUE]
    BY <1>1 DEF GetInstance
  <2>1. TypeOK'
    BY <1>1 DEF GetInstance, TypeOK
  <2>2. Shape'
    BY <1>1 DEF GetInstance, Playing, Shape
  <2> QED
    BY <2>1, <2>2
<1>2. CASE DestroyInstance
  BY <1>2 DEF DestroyInstance, SchedulerReset, TypeOK, Shape
<1>3. ASSUME NEW r \in Requests, Send(r) PROVE TypeOK' /\ Shape'
  <2>1. sent' \in 0..MaxRequests /\ sentTo' \in [Requests -> Clients \cup {None}]
    BY <1>3 DEF Send, Sending, TypeOK
  <2>2. requestQueue' \in [Clients -> Seq(Requests \cup {Sentinel})]
    <3>1. httpClient \in Clients /\ requestQueue[httpClient] \in Seq(Requests \cup {Sentinel})
      BY <1>3 DEF Send, Sending, TypeOK
    <3>2. Append(requestQueue[httpClient], r) \in Seq(Requests \cup {Sentinel})
      BY <3>1
    <3> QED
      BY <1>3, <3>1, <3>2 DEF Send, TypeOK
  <2>3. network' \in [Clients -> NetworkStates]
    BY <1>3 DEF Send, Sending, TypeOK, Notified, Inited
  <2>4. TypeOK'
    BY <1>3, <2>1, <2>2, <2>3 DEF Send, Sending, TypeOK
  <2>5. Shape'
    <3>1. httpClient \in Clients /\ sent' = r /\ r = sent + 1
      BY <1>3 DEF Send, Sending, TypeOK
    <3>2. \A c \in Clients : network'[c] = "serving" => network[c] = "serving"
      BY <1>3, <3>1 DEF Send, TypeOK, Notified, Inited
    <3>3. \A c \in Clients : network'[c] = "starting" => network[c] = "starting" \/ c = httpClient
      BY <1>3, <3>1 DEF Send, TypeOK, Notified, Inited
    <3>4. \A q \in Requests : (alone'[q] # "no" => sentTo'[q] \in Clients) /\ (q > sent' => alone'[q] = "no")
      BY <1>3, <3>1 DEF Send, Sending, TypeOK, Shape
    <3> QED
      BY <1>3, <3>2, <3>3, <3>4 DEF Send, Shape
  <2> QED
    BY <2>4, <2>5
<1>4. ASSUME NEW r \in Requests, SendImmediate(r) PROVE TypeOK' /\ Shape'
  <2>1. httpClient \in Clients /\ sent' = r /\ r = sent + 1 /\ sent' \in 0..MaxRequests
    BY <1>4 DEF SendImmediate, Sending, TypeOK
  <2>5. threadCount' \in [Clients -> Nat]
    BY <1>4, <2>1 DEF SendImmediate, Counted, TypeOK
  <2>6. sentTo' \in [Requests -> Clients \cup {None}]
    BY <1>4, <2>1 DEF SendImmediate, Sending, TypeOK
  <2>7. alone' \in [Requests -> {"no", "working", "leaving", "left"}]
    BY <1>4 DEF SendImmediate, TypeOK
  <2>2. TypeOK'
    BY <1>4, <2>1, <2>5, <2>6, <2>7 DEF SendImmediate, TypeOK
  <2>3. \A q \in Requests : (alone'[q] # "no" => sentTo'[q] \in Clients) /\ (q > sent' => alone'[q] = "no")
    BY <1>4, <2>1 DEF SendImmediate, Sending, TypeOK, Shape
  <2>4. Shape'
    BY <1>4, <2>3 DEF SendImmediate, Shape
  <2> QED
    BY <2>2, <2>4
<1>5. CASE TakeFunctions
  BY <1>5 DEF TakeFunctions, TypeOK, Shape
<1>6. CASE EndFunctions
  BY <1>6 DEF EndFunctions, PutBack, TypeOK, Shape
<1>7. CASE CallFunction
  <2>1. Head(batch) \in Functions /\ Tail(batch) \in Seq(Functions)
    BY <1>7 DEF CallFunction, TypeOK
  <2>2. calls' \in [Requests -> Nat] /\ responseQueue' \in [Clients -> Seq(Requests)]
    <3> DEFINE f == Head(batch)
    <3>1. f.client \in Clients /\ f.request \in Requests \cup {Dispatch}
      BY <2>1 DEF Functions
    <3>5. calls \in [Requests -> Nat] /\ responseQueue \in [Clients -> Seq(Requests)]
      BY DEF TypeOK
    <3>2. CASE f.request # Dispatch
      <4>1. f.request \in Requests
        BY <3>1, <3>2
      <4>2. calls' = [calls EXCEPT ![f.request] = @ + 1] /\ responseQueue' = responseQueue
        BY <1>7, <3>2 DEF CallFunction
      <4>3. calls' \in [Requests -> Nat]
        BY <3>5, <4>1, <4>2, CallsType
      <4> QED
        BY <3>5, <4>2, <4>3
    <3>3. CASE f.request = Dispatch /\ responseQueue[f.client] # <<>>
      <4>1. OldestResponse(f.client) \in Requests /\ Tail(responseQueue[f.client]) \in Seq(Requests)
        BY <3>1, <3>3 DEF TypeOK, OldestResponse
      <4>2. calls' = [calls EXCEPT ![OldestResponse(f.client)] = @ + 1]
        BY <1>7, <3>3 DEF CallFunction
      <4>3. responseQueue' = [responseQueue EXCEPT ![f.client] = Tail(@)]
        BY <1>7, <3>3 DEF CallFunction
      <4>4. calls' \in [Requests -> Nat]
        BY <3>5, <4>1, <4>2, CallsType
      <4>5. responseQueue' \in [Clients -> Seq(Requests)]
        BY <3>1, <3>3, <3>5, <4>3, ResponsesType
      <4> QED
        BY <4>4, <4>5
    <3>4. CASE f.request = Dispatch /\ responseQueue[f.client] = <<>>
      BY <1>7, <3>1, <3>4 DEF CallFunction, TypeOK
    <3> QED
      BY <3>2, <3>3, <3>4
  <2> QED
    BY <1>7, <2>1, <2>2 DEF CallFunction, TypeOK, Shape, Functions
<1>8. CASE StopNetwork
  <2>1. network' \in [Clients -> NetworkStates]
    BY <1>8 DEF StopNetwork, TypeOK, Notified
  <2>2. requestQueue' \in [Clients -> Seq(Requests \cup {Sentinel})]
    BY <1>8 DEF StopNetwork, TypeOK, Shape
  <2> QED
    BY <1>8, <2>1, <2>2 DEF StopNetwork, TypeOK, Shape, Notified
<1>9. CASE LeaveInstance
  BY <1>9 DEF LeaveInstance, Leave, TypeOK, Shape
<1>10. ASSUME NEW c \in Clients, NetworkStep(c) \/ SpuriousWakeup(c) PROVE TypeOK' /\ Shape'
  <2>1. CASE NetworkStarts(c)
    BY <2>1 DEF NetworkStarts, Move, Counted, TypeOK, Shape
  <2>2. CASE Sleep(c)
    BY <2>2 DEF Sleep, Move, TypeOK, Shape
  <2>9. CASE SpuriousWakeup(c)
    BY <2>9 DEF SpuriousWakeup, Move, TypeOK, Shape
  <2>3. CASE TakeRequest(c)
    <3>1. Head(requestQueue[c]) \in Requests \cup {Sentinel} /\ Tail(requestQueue[c]) \in Seq(Requests \cup {Sentinel})
      BY <2>3 DEF TakeRequest, TypeOK
    <3> QED
      BY <2>3, <3>1 DEF TakeRequest, Move, AfterTaking, TypeOK, Shape
  <2>4. CASE Serve(c)
    BY <2>4 DEF Serve, Move, TypeOK, Shape
  <2>5. CASE PostAnswer(c)
    BY <2>5, PostType DEF PostAnswer, Move, TypeOK, Shape
  <2>6. CASE DropRequests(c)
    BY <2>6 DEF DropRequests, Move, TypeOK, Shape
  <2>7. CASE DropResponses(c)
    BY <2>7 DEF DropResponses, Move, TypeOK, Shape
  <2>8. CASE NetworkLeaves(c)
    BY <2>8 DEF NetworkLeaves, Move, Leave, TypeOK, Shape
  <2> QED
    BY <1>10, <2>1, <2>2, <2>3, <2>4, <2>5, <2>6, <2>7, <2>8, <2>9 DEF NetworkStep
<1>11. ASSUME NEW r \in Requests, AloneStep(r) PROVE TypeOK' /\ Shape'
  <2>1. CASE AnswerAlone(r)
    <3>1. sentTo[r] \in Clients
      BY <2>1 DEF AnswerAlone, Shape
    <3> QED
      BY <2>1, <3>1, PostType DEF AnswerAlone, TypeOK, Shape
  <2>2. CASE LeaveAlone(r)
    BY SMTT(30), <2>2 DEF LeaveAlone, Leave, TypeOK, Shape
  <2> QED
    BY <1>11, <2>1, <2>2 DEF AloneStep
<1>12. CASE UNCHANGED vars
  BY <1>12 DEF vars, TypeOK, Shape
<1> QED
  BY <1>1, <1>2, <1>3, <1>4, <1>5, <1>6, <1>7, <1>8, <1>9, <1>10, <1>11, <1>12
  DEF Next, Calling, Frame, Destroying

-----------------------------------------------------------------------------
(* Posted functions run in order. *)

\* Posting puts one more function at the end.
LEMMA PostKeepsOrder ==
    ASSUME TypeOK, RunInOrder, NEW c \in Clients, NEW what \in Requests \cup {Dispatch},
           Post(c, what), batch' = batch, ran' = ran
    PROVE  RunInOrder'
<1> DEFINE waiting == batch \o functions
<1>1. batch \in Seq(Functions) /\ functions \in Seq(Functions) /\ posted \in Nat /\ ran \in Nat
  BY DEF TypeOK
<1>2. waiting \in Seq(Functions)
  BY <1>1
<1>3. posted = ran + Len(waiting) /\ \A i \in DOMAIN waiting : waiting[i].number = ran + i
  BY DEF RunInOrder
<1>4. CASE scheduler[c]
  <2> DEFINE new == [number |-> posted + 1, client |-> c, request |-> what]
  <2>1. functions' = Append(functions, new) /\ posted' = posted + 1
    BY <1>4 DEF Post, PostAlways
  <2>2. new \in Functions /\ new.number = posted + 1
    BY <1>1 DEF Functions
  <2> HIDE DEF new
  <2>3. (batch \o functions)' = Append(waiting, new)
    BY <1>1, <2>1, <2>2
  <2> HIDE DEF waiting
  <2>4. Len(Append(waiting, new)) = Len(waiting) + 1
    BY <1>2, <2>2
  <2>5. \A i \in DOMAIN Append(waiting, new) : Append(waiting, new)[i].number = ran + i
    <3> TAKE i \in DOMAIN Append(waiting, new)
    <3>1. CASE i \in DOMAIN waiting
      BY <1>2, <1>3, <2>2, <3>1
    <3>2. CASE i = Len(waiting) + 1
      BY <1>1, <1>2, <1>3, <2>2, <3>2
    <3> QED
      BY <1>2, <2>2, <3>1, <3>2
  <2> QED
    BY SMTT(30), <1>1, <1>2, <1>3, <2>1, <2>3, <2>4, <2>5 DEF RunInOrder
<1>5. CASE ~scheduler[c]
  BY <1>5 DEF Post, RunInOrder
<1> QED
  BY <1>4, <1>5

\* A step keeps what waits in the order it was posted.
LEMMA NextKeepsOrder == TypeOK /\ Shape /\ RunInOrder /\ [Next]_vars => RunInOrder'
<1> SUFFICES ASSUME TypeOK, Shape, RunInOrder, [Next]_vars PROVE RunInOrder'
  OBVIOUS
<1> DEFINE waiting == batch \o functions
<1>1. batch \in Seq(Functions) /\ functions \in Seq(Functions) /\ posted \in Nat /\ ran \in Nat
  BY DEF TypeOK
<1>2. waiting \in Seq(Functions)
  BY <1>1
<1>3. posted = ran + Len(waiting) /\ \A i \in DOMAIN waiting : waiting[i].number = ran + i
  BY DEF RunInOrder
<1>4. CASE TakeFunctions
  <2>1. waiting = functions /\ (batch \o functions)' = functions
    BY <1>1, <1>4 DEF TakeFunctions, Shape
  <2> QED
    BY <1>3, <1>4, <2>1 DEF TakeFunctions, RunInOrder
<1>5. CASE EndFunctions
  <2>1. (batch \o functions)' = waiting
    BY <1>1, <1>2, <1>5 DEF EndFunctions, PutBack
  <2> QED
    BY <1>3, <1>5, <2>1 DEF EndFunctions, RunInOrder
<1>6. CASE CallFunction
  <2>1. batch # <<>> /\ batch' = Tail(batch) /\ functions' = functions /\ ran' = Head(batch).number /\ posted' = posted
    BY <1>6 DEF CallFunction
  <2>2. waiting # <<>> /\ Head(waiting) = Head(batch) /\ (batch \o functions)' = Tail(waiting)
    BY <1>1, <2>1
  <2> HIDE DEF waiting
  <2>3. waiting[1].number = ran + 1 /\ Head(waiting) = waiting[1] /\ Len(waiting) \in Nat \ {0}
    BY <1>2, <1>3, <2>2
  <2>4. Len(Tail(waiting)) = Len(waiting) - 1
    BY <1>2, <2>2
  <2>5. ran' = ran + 1
    BY <2>1, <2>2, <2>3
  <2>6. \A i \in DOMAIN Tail(waiting) : Tail(waiting)[i].number = (ran + 1) + i
    <3> TAKE i \in DOMAIN Tail(waiting)
    <3>1. i \in Nat /\ i + 1 \in DOMAIN waiting /\ Tail(waiting)[i] = waiting[i + 1]
      BY <1>2, <2>2
    <3> QED
      BY <1>1, <1>3, <3>1
  <2>7. posted' = ran' + Len(Tail(waiting))
    BY <1>1, <1>3, <2>1, <2>3, <2>4, <2>5
  <2>8. \A i \in DOMAIN Tail(waiting) : Tail(waiting)[i].number = ran' + i
    BY <2>5, <2>6
  <2> QED
    BY <2>2, <2>7, <2>8 DEF RunInOrder
<1>7. CASE LeaveInstance
  <2>1. (batch \o functions)' = <<>> /\ ran' = posted /\ posted' = posted
    BY <1>7 DEF LeaveInstance, Shape
  <2> QED
    BY <1>1, <2>1 DEF RunInOrder
<1>8. ASSUME NEW c \in Clients, PostAnswer(c) PROVE RunInOrder'
  BY <1>8, PostKeepsOrder DEF PostAnswer
<1>9. ASSUME NEW r \in Requests, AnswerAlone(r) PROVE RunInOrder'
  <2>1. sentTo[r] \in Clients
    BY <1>9 DEF AnswerAlone, Shape
  <2> QED
    BY <1>9, <2>1, PostKeepsOrder DEF AnswerAlone
<1>10. CASE UNCHANGED functionVars
  BY <1>10 DEF functionVars, RunInOrder
<1>11. CASE GetInstance \/ DestroyInstance \/ StopNetwork \/ UNCHANGED vars
  BY <1>10, <1>11 DEF GetInstance, DestroyInstance, StopNetwork, vars
<1>12. ASSUME NEW r \in Requests, Send(r) \/ SendImmediate(r) \/ LeaveAlone(r) PROVE RunInOrder'
  BY <1>10, <1>12 DEF Send, SendImmediate, LeaveAlone
<1>13. ASSUME NEW c \in Clients,
              NetworkStarts(c) \/ Sleep(c) \/ TakeRequest(c) \/ Serve(c) \/ DropRequests(c)
              \/ DropResponses(c) \/ NetworkLeaves(c) \/ SpuriousWakeup(c)
       PROVE  RunInOrder'
  BY <1>10, <1>13 DEF NetworkStarts, Sleep, TakeRequest, Serve, DropRequests, DropResponses, NetworkLeaves, SpuriousWakeup
<1> QED
  BY <1>4, <1>5, <1>6, <1>7, <1>8, <1>9, <1>11, <1>12, <1>13
  DEF Next, Calling, Frame, Destroying, NetworkStep, AloneStep
-----------------------------------------------------------------------------
(* The count is the number of users. *)

Users(c) == Cardinality(AloneHolding(c)) + (IF MainHolds(c) THEN 1 ELSE 0) + (IF NetworkHolds(c) THEN 1 ELSE 0)

\* Only so many requests can hold a client.
LEMMA UsersCounted ==
    ASSUME NEW c \in Clients
    PROVE  /\ IsFiniteSet(AloneHolding(c)) /\ Cardinality(AloneHolding(c)) \in Nat /\ Users(c) \in Nat
           /\ IsFiniteSet(AloneHolding(c)') /\ Cardinality(AloneHolding(c)') \in Nat /\ Users(c)' \in Nat
<1>1. IsFiniteSet(Requests)
  BY HttpClientAssumption, FS_Interval DEF Requests
<1>2. AloneHolding(c) \subseteq Requests /\ AloneHolding(c)' \subseteq Requests
  BY DEF AloneHolding
<1>3. IsFiniteSet(AloneHolding(c)) /\ IsFiniteSet(AloneHolding(c)')
  BY <1>1, <1>2, FS_Subset
<1>4. Cardinality(AloneHolding(c)) \in Nat /\ Cardinality(AloneHolding(c)') \in Nat
  BY <1>3, FS_CardinalityType
<1> QED
  BY <1>3, <1>4 DEF Users

\* A step that nobody comes or goes in.
LEMMA UsersStay ==
    ASSUME CountsHolders, threadCount' = threadCount, life' = life,
           \A c \in Clients : Users(c)' = Users(c)
    PROVE  CountsHolders'
BY DEF CountsHolders, Users

\* A user comes, who finds the client alive.
LEMMA UserComes ==
    ASSUME TypeOK, CountsHolders, NEW c \in Clients, life[c] = "alive",
           threadCount' = Counted(c), life' = life,
           Users(c)' = Users(c) + 1, \A d \in Clients \ {c} : Users(d)' = Users(d)
    PROVE  CountsHolders'
<1> SUFFICES ASSUME NEW d \in Clients
             PROVE  threadCount'[d] = Users(d)' /\ (life'[d] = "alive" <=> threadCount'[d] > 0)
  BY DEF CountsHolders, Users
<1>1. threadCount[d] = Users(d) /\ (life[d] = "alive" <=> threadCount[d] > 0)
  BY DEF CountsHolders, Users
<1>2. Users(d) \in Nat
  BY UsersCounted
<1> QED
  BY <1>1, <1>2 DEF TypeOK, Counted

\* A user leaves, and the last one deletes the client.
LEMMA UserLeaves ==
    ASSUME TypeOK, CountsHolders, NEW c \in Clients, Leave(c),
           Users(c)' = Users(c) - 1, \A d \in Clients \ {c} : Users(d)' = Users(d)
    PROVE  CountsHolders'
<1> SUFFICES ASSUME NEW d \in Clients
             PROVE  threadCount'[d] = Users(d)' /\ (life'[d] = "alive" <=> threadCount'[d] > 0)
  BY DEF CountsHolders, Users
<1>1. threadCount[d] = Users(d) /\ (life[d] = "alive" <=> threadCount[d] > 0)
  BY DEF CountsHolders, Users
<1>2. Users(d) \in Nat /\ Users(d)' \in Nat
  BY UsersCounted
<1>3. threadCount' = [threadCount EXCEPT ![c] = IF @ = 0 THEN 0 ELSE @ - 1]
  BY DEF Leave
<1>4. life' = [life EXCEPT ![c] = IF threadCount[c] = 1 THEN "deleted" ELSE @]
  BY DEF Leave
<1>5. CASE d = c
  <2>1. threadCount[c] >= 1 /\ threadCount'[c] = threadCount[c] - 1
    BY <1>1, <1>2, <1>3, <1>5 DEF TypeOK
  <2> QED
    BY <1>1, <1>2, <1>4, <1>5, <2>1 DEF TypeOK
<1>6. CASE d # c
  BY <1>1, <1>3, <1>4, <1>6 DEF TypeOK
<1> QED
  BY <1>5, <1>6

\* A step keeps the count the number of users.
LEMMA NextCounts ==
    ASSUME ~EarlyDestroy, TypeOK, Shape, CountsHolders, [Next]_vars
    PROVE  CountsHolders'
<1> USE DEF clientVars, queueVars, networkVars, sendVars, functionVars, mainVars
<1>0. None \notin Clients
  BY Zero
<1>1. CASE GetInstance
  <2> PICK c \in Clients :
         /\ httpClient = None /\ httpClient' = c /\ life[c] = "unborn"
         /\ life' = [life EXCEPT ![c] = "alive"]
         /\ threadCount' = [threadCount EXCEPT ![c] = 1]
    BY <1>1 DEF GetInstance
  <2>1. main' = main /\ thiz' = None /\ thiz = None /\ network' = network /\ sentTo' = sentTo /\ alone' = alone
    BY <1>1 DEF GetInstance, Playing, Shape
  <2>2. threadCount[c] = 0
    BY DEF CountsHolders, TypeOK
  <2>3. Users(c) = 0
    BY <2>2 DEF CountsHolders, Users
  <2>4. ASSUME NEW d \in Clients
        PROVE  /\ AloneHolding(d)' = AloneHolding(d) /\ NetworkHolds(d)' = NetworkHolds(d)
               /\ MainHolds(d)' <=> d = c
               /\ ~MainHolds(d)
    BY <1>0, <2>1 DEF AloneHolding, NetworkHolds, MainHolds
  <2>5. Users(c)' = 1
    BY <2>3, <2>4, UsersCounted DEF Users
  <2>6. \A d \in Clients \ {c} : Users(d)' = Users(d)
    BY <2>4 DEF Users
  <2>7. ASSUME NEW d \in Clients
        PROVE  threadCount'[d] = Users(d)' /\ (life'[d] = "alive" <=> threadCount'[d] > 0)
    BY <2>5, <2>6 DEF CountsHolders, Users, TypeOK
  <2> QED
    BY <2>7 DEF CountsHolders, Users
<1>2. CASE DestroyInstance
  <2>1. thiz = None /\ thiz' = httpClient /\ httpClient' = None
    BY <1>2 DEF DestroyInstance, Shape
  <2>2. ASSUME NEW c \in Clients PROVE Users(c)' = Users(c)
    BY <1>0, <1>2, <2>1 DEF DestroyInstance, Users, AloneHolding, NetworkHolds, MainHolds
  <2> QED
    BY <1>2, <2>2, UsersStay DEF DestroyInstance
<1>3. ASSUME NEW r \in Requests, Send(r) PROVE CountsHolders'
  <2>1. alone[r] = "no" /\ alone' = alone /\ httpClient \in Clients
    BY <1>3 DEF Send, Sending, Shape, TypeOK
  <2>2. ASSUME NEW c \in Clients PROVE AloneHolding(c)' = AloneHolding(c)
    BY <1>3, <2>1 DEF Send, Sending, AloneHolding, TypeOK
  <2>3. ASSUME NEW c \in Clients PROVE NetworkHolds(c)' = NetworkHolds(c)
    BY <1>3, <2>1 DEF Send, NetworkHolds, Notified, Inited, TypeOK
  <2>4. ASSUME NEW c \in Clients PROVE Users(c)' = Users(c)
    BY <1>3, <2>2, <2>3 DEF Send, Users, MainHolds
  <2> QED
    BY <1>3, <2>4, UsersStay DEF Send
<1>4. ASSUME NEW r \in Requests, SendImmediate(r) PROVE CountsHolders'
  <2> DEFINE c == httpClient
  <2>1. c \in Clients /\ alone[r] = "no" /\ MainHolds(c)
    BY <1>4 DEF SendImmediate, Sending, Shape, TypeOK, MainHolds
  <2>2. life[c] = "alive"
    BY <2>1, UsersCounted DEF CountsHolders
  <2>3. r \notin AloneHolding(c) /\ AloneHolding(c)' = AloneHolding(c) \cup {r}
    BY <1>4, <2>1 DEF SendImmediate, Sending, AloneHolding, TypeOK
  <2>4. Cardinality(AloneHolding(c)') = Cardinality(AloneHolding(c)) + 1
    BY <2>1, <2>3, UsersCounted, FS_AddElement
  <2>5. Users(c)' = Users(c) + 1
    BY <1>4, <2>1, <2>4, UsersCounted DEF SendImmediate, Users, MainHolds, NetworkHolds
  <2>6. ASSUME NEW d \in Clients \ {c} PROVE Users(d)' = Users(d)
    <3>1. AloneHolding(d)' = AloneHolding(d)
      BY <1>4, <2>1 DEF SendImmediate, Sending, AloneHolding, TypeOK
    <3> QED
      BY <1>4, <3>1 DEF SendImmediate, Users, MainHolds, NetworkHolds
  <2> QED
    BY <1>4, <2>1, <2>2, <2>5, <2>6, UserComes DEF SendImmediate
<1>5. CASE UNCHANGED <<threadCount, life, network, sentTo, alone, httpClient, thiz>>
  BY <1>5 DEF CountsHolders, AloneHolding, MainHolds, NetworkHolds
<1>6. CASE Frame \/ CallFunction \/ UNCHANGED vars
  BY <1>5, <1>6 DEF Frame, TakeFunctions, EndFunctions, CallFunction, vars
<1>7. CASE StopNetwork
  <2>1. ASSUME NEW c \in Clients PROVE NetworkHolds(c)' = NetworkHolds(c)
    BY <1>7 DEF StopNetwork, NetworkHolds, Notified, TypeOK
  <2>2. ASSUME NEW c \in Clients PROVE Users(c)' = Users(c)
    BY <1>7, <2>1 DEF StopNetwork, Users, MainHolds, AloneHolding
  <2> QED
    BY <1>7, <2>2, UsersStay DEF StopNetwork
<1>8. CASE LeaveInstance
  <2> PICK c \in Clients : c = thiz
    BY <1>8 DEF LeaveInstance, Shape
  <2>1. httpClient = None /\ thiz' = None /\ httpClient' = None
    BY <1>8 DEF LeaveInstance, Shape
  <2>2. ASSUME NEW d \in Clients
        PROVE  /\ AloneHolding(d)' = AloneHolding(d) /\ NetworkHolds(d)' = NetworkHolds(d)
               /\ ~MainHolds(d)' /\ (MainHolds(d) <=> d = c)
    BY <1>0, <1>8, <2>1 DEF LeaveInstance, AloneHolding, NetworkHolds, MainHolds
  <2>3. Users(c)' = Users(c) - 1 /\ \A d \in Clients \ {c} : Users(d)' = Users(d)
    BY <2>1, <2>2, UsersCounted DEF Users
  <2> QED
    BY <1>8, <2>1, <2>3, UserLeaves DEF LeaveInstance
<1>9. ASSUME NEW c \in Clients, NetworkStep(c) \/ SpuriousWakeup(c) PROVE CountsHolders'
  <2>1. CASE NetworkStarts(c)
    <3>1. MainHolds(c)
      BY <2>1 DEF NetworkStarts, Move, Shape, MainHolds
    <3>2. life[c] = "alive"
      BY <3>1, UsersCounted DEF CountsHolders
    <3>3. ~NetworkHolds(c) /\ NetworkHolds(c)' /\ \A d \in Clients \ {c} : NetworkHolds(d)' = NetworkHolds(d)
      BY <2>1 DEF NetworkStarts, Move, NetworkHolds, TypeOK
    <3>4. \A d \in Clients : AloneHolding(d)' = AloneHolding(d) /\ MainHolds(d)' = MainHolds(d)
      BY <2>1 DEF NetworkStarts, MainHolds, AloneHolding
    <3>5. Users(c)' = Users(c) + 1
      BY <3>3, <3>4, UsersCounted DEF Users
    <3>6. \A d \in Clients \ {c} : Users(d)' = Users(d)
      BY <3>3, <3>4 DEF Users
    <3> QED
      BY <2>1, <3>2, <3>5, <3>6, UserComes DEF NetworkStarts
  <2>2. CASE NetworkLeaves(c)
    <3>1. NetworkHolds(c) /\ ~NetworkHolds(c)' /\ \A d \in Clients \ {c} : NetworkHolds(d)' = NetworkHolds(d)
      BY <2>2 DEF NetworkLeaves, Move, NetworkHolds, TypeOK
    <3>2. Users(c)' = Users(c) - 1 /\ \A d \in Clients \ {c} : Users(d)' = Users(d)
      BY <2>2, <3>1, UsersCounted DEF NetworkLeaves, Users, MainHolds, AloneHolding
    <3> QED
      BY <2>2, <3>2, UserLeaves DEF NetworkLeaves
  <2>3. CASE \/ Sleep(c) \/ SpuriousWakeup(c) \/ TakeRequest(c) \/ Serve(c) \/ PostAnswer(c)
             \/ DropRequests(c) \/ DropResponses(c)
    <3>1. UNCHANGED <<threadCount, life, sentTo, alone, httpClient, thiz>>
      BY <2>3 DEF Sleep, SpuriousWakeup, TakeRequest, Serve, PostAnswer, DropRequests, DropResponses
    <3>2. \E from, to \in NetworkStates \ {"none", "starting", "done"} : Move(c, from, to)
      BY <2>3 DEF Sleep, SpuriousWakeup, TakeRequest, AfterTaking, Serve, PostAnswer, DropRequests, DropResponses, NetworkStates
    <3>3. ASSUME NEW d \in Clients PROVE NetworkHolds(d)' = NetworkHolds(d)
      BY <3>2 DEF Move, NetworkHolds, TypeOK
    <3>4. ASSUME NEW d \in Clients PROVE Users(d)' = Users(d)
      BY <3>1, <3>3 DEF Users, MainHolds, AloneHolding
    <3> QED
      BY <3>1, <3>4, UsersStay
  <2> QED
    BY <1>9, <2>1, <2>2, <2>3 DEF NetworkStep
<1>10. ASSUME NEW r \in Requests, AloneStep(r) PROVE CountsHolders'
  <2> DEFINE c == sentTo[r]
  <2>1. CASE AnswerAlone(r)
    <3>1. ASSUME NEW d \in Clients PROVE AloneHolding(d)' = AloneHolding(d)
      BY <2>1 DEF AnswerAlone, AloneHolding, TypeOK
    <3>2. ASSUME NEW d \in Clients PROVE Users(d)' = Users(d)
      BY <2>1, <3>1 DEF AnswerAlone, Users, MainHolds, NetworkHolds
    <3> QED
      BY <2>1, <3>2, UsersStay DEF AnswerAlone
  <2>2. CASE LeaveAlone(r)
    <3>1. c \in Clients /\ r \in AloneHolding(c)
      BY <2>2 DEF LeaveAlone, Shape, AloneHolding
    <3>2. AloneHolding(c)' = AloneHolding(c) \ {r}
      BY <2>2, <3>1 DEF LeaveAlone, AloneHolding, TypeOK
    <3>3. Cardinality(AloneHolding(c)') = Cardinality(AloneHolding(c)) - 1
      BY <3>1, <3>2, UsersCounted, FS_RemoveElement
    <3>4. Users(c)' = Users(c) - 1
      BY <2>2, <3>1, <3>3, UsersCounted DEF LeaveAlone, Users, MainHolds, NetworkHolds
    <3>5. ASSUME NEW d \in Clients \ {c} PROVE Users(d)' = Users(d)
      <4>1. AloneHolding(d)' = AloneHolding(d)
        BY <2>2 DEF LeaveAlone, AloneHolding, TypeOK
      <4> QED
        BY <2>2, <4>1 DEF LeaveAlone, Users, MainHolds, NetworkHolds
    <3> QED
      BY <2>2, <3>1, <3>4, <3>5, UserLeaves DEF LeaveAlone
  <2> QED
    BY <1>10, <2>1, <2>2 DEF AloneStep
<1> QED
  BY <1>1, <1>2, <1>3, <1>4, <1>6, <1>7, <1>8, <1>9, <1>10 DEF Next, Calling, Destroying

-----------------------------------------------------------------------------
(* Posted functions are bound to the client that the main thread holds. *)

Bound ==
    /\ \A c \in Clients : scheduler[c] => httpClient = c
    /\ \A i \in DOMAIN (batch \o functions) : MainHolds((batch \o functions)[i].client)

\* Posting binds a function to the client only while it is the singleton.
LEMMA PostBinds ==
    ASSUME TypeOK, Bound, NEW c \in Clients, NEW what \in Requests \cup {Dispatch},
           Post(c, what), UNCHANGED <<batch, scheduler, httpClient, thiz>>
    PROVE  Bound'
<1>1. batch \in Seq(Functions) /\ functions \in Seq(Functions) /\ posted \in Nat
  BY DEF TypeOK
<1> DEFINE waiting == batch \o functions
<1>2. waiting \in Seq(Functions)
  BY <1>1
<1>3. \A i \in DOMAIN waiting : MainHolds(waiting[i].client)
  BY DEF Bound
<1>4. CASE scheduler[c]
  <2> DEFINE new == [number |-> posted + 1, client |-> c, request |-> what]
  <2>1. functions' = Append(functions, new)
    BY <1>4 DEF Post, PostAlways
  <2>2. new \in Functions /\ new.client = c
    BY <1>1 DEF Functions
  <2>3. MainHolds(new.client)
    BY <1>4, <2>2 DEF Bound, MainHolds
  <2> HIDE DEF new
  <2>4. (batch \o functions)' = Append(waiting, new)
    BY <1>1, <2>1, <2>2
  <2> HIDE DEF waiting
  <2>5. \A i \in DOMAIN Append(waiting, new) : MainHolds(Append(waiting, new)[i].client)
    <3> TAKE i \in DOMAIN Append(waiting, new)
    <3>1. CASE i \in DOMAIN waiting
      BY <1>2, <1>3, <2>2, <3>1
    <3>2. CASE i = Len(waiting) + 1
      BY <1>2, <2>2, <2>3, <3>2
    <3> QED
      BY <1>2, <2>2, <3>1, <3>2
  <2> QED
    BY <2>4, <2>5 DEF Bound, MainHolds
<1>5. CASE ~scheduler[c]
  BY <1>5 DEF Post, Bound, MainHolds
<1> QED
  BY <1>4, <1>5

\* A step keeps functions bound to the client that is held.
LEMMA NextBinds == TypeOK /\ Shape /\ Bound /\ [Next]_vars => Bound'
<1> SUFFICES ASSUME TypeOK, Shape, Bound, [Next]_vars PROVE Bound'
  OBVIOUS
<1> USE DEF clientVars, functionVars, mainVars
<1> DEFINE waiting == batch \o functions
<1>0. None \notin Clients
  BY Zero
<1>1. batch \in Seq(Functions) /\ functions \in Seq(Functions) /\ waiting \in Seq(Functions)
  BY DEF TypeOK
<1>2. \A i \in DOMAIN waiting : MainHolds(waiting[i].client) /\ waiting[i].client \in Clients
  <2>1. ASSUME NEW i \in DOMAIN waiting PROVE waiting[i] \in Functions
    <3> HIDE DEF waiting
    <3> QED
      BY <1>1
  <2> QED
    BY <2>1 DEF Bound, Functions
<1>3. CASE GetInstance
  <2> PICK c \in Clients : httpClient = None /\ httpClient' = c /\ scheduler' = [scheduler EXCEPT ![c] = TRUE]
    BY <1>3 DEF GetInstance
  <2>1. thiz = None /\ batch' = batch /\ functions' = functions
    BY <1>3 DEF GetInstance, Playing, Shape
  <2>2. DOMAIN waiting = {}
    BY <1>0, <1>2, <2>1 DEF MainHolds
  <2>3. \A d \in Clients : ~scheduler[d]
    BY <1>0 DEF Bound
  <2> QED
    BY <2>1, <2>2, <2>3 DEF Bound, TypeOK
<1>4. CASE DestroyInstance
  <2>1. thiz = None /\ thiz' = httpClient /\ batch' = batch /\ functions' = functions
    BY <1>4 DEF DestroyInstance, Shape
  <2>2. \A d \in Clients : ~scheduler'[d]
    BY <1>0, <1>4 DEF DestroyInstance, SchedulerReset, Bound, TypeOK
  <2>3. \A i \in DOMAIN waiting : MainHolds(waiting[i].client)'
    BY <1>0, <1>2, <2>1 DEF MainHolds
  <2> QED
    BY <2>1, <2>2, <2>3 DEF Bound
<1>5. CASE LeaveInstance
  <2>1. (batch \o functions)' = <<>> /\ scheduler' = scheduler /\ httpClient' = httpClient
    BY <1>5 DEF LeaveInstance, Shape
  <2> QED
    BY <2>1 DEF Bound
<1>6. CASE TakeFunctions \/ EndFunctions
  <2>1. (batch \o functions)' = waiting
    <3>1. CASE TakeFunctions
      BY <1>1, <3>1 DEF TakeFunctions, Shape
    <3>2. CASE EndFunctions
      BY <1>1, <3>2 DEF EndFunctions, PutBack
    <3> QED
      BY <1>6, <3>1, <3>2
  <2> QED
    BY <1>6, <2>1 DEF TakeFunctions, EndFunctions, Bound, MainHolds
<1>7. CASE CallFunction
  <2>1. batch # <<>> /\ batch' = Tail(batch) /\ functions' = functions
    BY <1>7 DEF CallFunction
  <2>2. waiting # <<>> /\ (batch \o functions)' = Tail(waiting)
    BY <1>1, <2>1
  <2> HIDE DEF waiting
  <2>3. \A i \in DOMAIN Tail(waiting) : MainHolds(Tail(waiting)[i].client)
    <3> TAKE i \in DOMAIN Tail(waiting)
    <3>1. i + 1 \in DOMAIN waiting /\ Tail(waiting)[i] = waiting[i + 1]
      BY <1>1, <2>2
    <3> QED
      BY <1>2, <3>1
  <2> QED
    BY <1>7, <2>2, <2>3 DEF CallFunction, Bound, MainHolds
<1>8. ASSUME NEW c \in Clients, PostAnswer(c) PROVE Bound'
  BY <1>8, PostBinds DEF PostAnswer
<1>9. ASSUME NEW r \in Requests, AnswerAlone(r) PROVE Bound'
  <2>1. sentTo[r] \in Clients
    BY <1>9 DEF AnswerAlone, Shape
  <2> QED
    BY <1>9, <2>1, PostBinds DEF AnswerAlone
<1>10. CASE UNCHANGED <<scheduler, batch, functions, httpClient, thiz>>
  BY <1>10 DEF Bound, MainHolds
<1>11. CASE StopNetwork \/ UNCHANGED vars
  BY <1>10, <1>11 DEF StopNetwork, vars
<1>12. ASSUME NEW r \in Requests, Send(r) \/ SendImmediate(r) \/ LeaveAlone(r) PROVE Bound'
  BY <1>10, <1>12 DEF Send, Sending, SendImmediate, LeaveAlone
<1>13. ASSUME NEW c \in Clients,
              NetworkStarts(c) \/ Sleep(c) \/ TakeRequest(c) \/ Serve(c) \/ DropRequests(c)
              \/ DropResponses(c) \/ NetworkLeaves(c) \/ SpuriousWakeup(c)
       PROVE  Bound'
  BY <1>10, <1>13 DEF NetworkStarts, Sleep, TakeRequest, Serve, DropRequests, DropResponses, NetworkLeaves, SpuriousWakeup
<1> QED
  BY <1>3, <1>4, <1>5, <1>6, <1>7, <1>8, <1>9, <1>11, <1>12, <1>13
  DEF Next, Calling, Frame, Destroying, NetworkStep, AloneStep

-----------------------------------------------------------------------------
(* The functions that wait. *)

Waiting == batch \o functions

\* The places of the dispatches for a client in a sequence of functions.
DispatchesAt(c, fs) == {i \in DOMAIN fs : fs[i].client = c /\ fs[i].request = Dispatch}

\* A set of numbers and the same set moved up are equally large.
LEMMA MovedSet ==
    ASSUME NEW S \in SUBSET Nat, NEW n \in Nat, IsFiniteSet(S)
    PROVE  IsFiniteSet({i + n : i \in S}) /\ Cardinality({i + n : i \in S}) = Cardinality(S)
<1> DEFINE T == {i + n : i \in S}
           f == [i \in S |-> i + n]
<1>1. f \in [S -> T] /\ (\A i, j \in S : f[i] = f[j] => i = j) /\ \A t \in T : \E i \in S : f[i] = t
  OBVIOUS
<1> HIDE DEF f, T
<1>2. ExistsBijection(S, T)
  BY <1>1, Fun_IsBij, Fun_ExistsBij
<1>3. IsFiniteSet(T) /\ Cardinality(T) = Cardinality(S)
  BY <1>2, FS_Bijection
<1> QED
  BY <1>3 DEF T

\* The dispatches of two sequences are those of the sequence they make.
LEMMA DispatchesConcat ==
    ASSUME NEW a \in Seq(Functions), NEW b \in Seq(Functions), NEW c
    PROVE  /\ Dispatches(c, a) \in Nat /\ Dispatches(c, b) \in Nat
           /\ Dispatches(c, a \o b) = Dispatches(c, a) + Dispatches(c, b)
<1> DEFINE A == DispatchesAt(c, a)
           B == DispatchesAt(c, b)
           M == {i + Len(a) : i \in B}
           n == Len(a)
<1>1. A \subseteq 1..Len(a) /\ B \subseteq 1..Len(b) /\ n \in Nat /\ B \in SUBSET Nat
  BY DEF DispatchesAt
<1>2. IsFiniteSet(A) /\ IsFiniteSet(B)
  <2>1. Len(a) \in Int /\ Len(b) \in Int /\ 1 \in Int
    OBVIOUS
  <2>2. IsFiniteSet(1..Len(a)) /\ IsFiniteSet(1..Len(b))
    BY <2>1, FS_Interval
  <2> HIDE DEF A, B
  <2> QED
    BY <1>1, <2>2, FS_Subset
<1>3. DispatchesAt(c, a \o b) = A \cup M
  <2>1. DOMAIN (a \o b) = 1..(Len(a) + Len(b)) /\ \A i \in 1..Len(a) : (a \o b)[i] = a[i]
    OBVIOUS
  <2>2. \A i \in 1..Len(b) : (a \o b)[i + Len(a)] = b[i]
    OBVIOUS
  <2> DEFINE s == a \o b
  <2>3. \A i \in DOMAIN s : i \in 1..Len(a) \/ \E j \in 1..Len(b) : i = j + Len(a)
    <3> SUFFICES ASSUME NEW i \in DOMAIN s, i \notin 1..Len(a) PROVE \E j \in 1..Len(b) : i = j + Len(a)
      OBVIOUS
    <3>1. i - Len(a) \in 1..Len(b) /\ i = (i - Len(a)) + Len(a)
      BY <2>1
    <3> QED
      BY <3>1
  <2> HIDE DEF s
  <2>4. ASSUME NEW i PROVE i \in DispatchesAt(c, s) <=> i \in A \cup M
    <3>1. ASSUME i \in DispatchesAt(c, s) PROVE i \in A \cup M
      <4>1. i \in DOMAIN s /\ s[i].client = c /\ s[i].request = Dispatch
        BY <3>1 DEF DispatchesAt
      <4>2. CASE i \in 1..Len(a)
        BY <2>1, <4>1, <4>2 DEF DispatchesAt, s
      <4>3. CASE \E j \in 1..Len(b) : i = j + Len(a)
        <5> PICK j \in 1..Len(b) : i = j + Len(a)
          BY <4>3
        <5>1. j \in B
          BY <2>2, <4>1 DEF DispatchesAt, s
        <5> QED
          BY <5>1
      <4> QED
        BY <2>3, <4>1, <4>2, <4>3
    <3>2. ASSUME i \in A PROVE i \in DispatchesAt(c, s)
      BY <2>1, <3>2 DEF DispatchesAt, s
    <3>3. ASSUME i \in M PROVE i \in DispatchesAt(c, s)
      <4> PICK j \in B : i = j + Len(a)
        BY <3>3
      <4>1. j \in 1..Len(b) /\ b[j].client = c /\ b[j].request = Dispatch
        BY DEF DispatchesAt
      <4>2. i \in DOMAIN s /\ s[i] = b[j]
        BY <2>1, <2>2, <4>1 DEF s
      <4> QED
        BY <4>1, <4>2 DEF DispatchesAt
    <3> QED
      BY <3>1, <3>2, <3>3
  <2> QED
    BY <2>4 DEF s
<1>4. A \cap M = {}
  BY <1>1
<1> HIDE DEF A, B
<1>5. IsFiniteSet(M) /\ Cardinality(M) = Cardinality(B)
  BY <1>1, <1>2, MovedSet
<1> HIDE DEF M
<1>6. Cardinality(A \cup M) = Cardinality(A) + Cardinality(M) - Cardinality(A \cap M)
  BY <1>2, <1>5, FS_Union
<1>7. Cardinality(A) \in Nat /\ Cardinality(B) \in Nat /\ Cardinality(A \cap M) = 0
  BY <1>2, <1>4, FS_CardinalityType, FS_EmptySet
<1>8. Dispatches(c, a \o b) = Cardinality(A \cup M)
  BY <1>3 DEF Dispatches, DispatchesAt
<1>9. Dispatches(c, a) = Cardinality(A) /\ Dispatches(c, b) = Cardinality(B)
  BY DEF Dispatches, DispatchesAt, A, B
<1> QED
  BY <1>5, <1>6, <1>7, <1>8, <1>9

\* One function is a dispatch for the client or not.
LEMMA DispatchesOne ==
    ASSUME NEW f \in Functions, NEW c
    PROVE  Dispatches(c, <<f>>) = IF f.client = c /\ f.request = Dispatch THEN 1 ELSE 0
<1>1. DOMAIN <<f>> = {1} /\ <<f>>[1] = f
  OBVIOUS
<1>2. CASE f.client = c /\ f.request = Dispatch
  <2>1. {i \in DOMAIN <<f>> : <<f>>[i].client = c /\ <<f>>[i].request = Dispatch} = {1}
    BY <1>1, <1>2
  <2> QED
    BY <1>2, <2>1, FS_Singleton DEF Dispatches
<1>3. CASE ~(f.client = c /\ f.request = Dispatch)
  <2>1. {i \in DOMAIN <<f>> : <<f>>[i].client = c /\ <<f>>[i].request = Dispatch} = {}
    BY <1>1, <1>3
  <2> QED
    BY <1>3, <2>1, FS_EmptySet DEF Dispatches
<1> QED
  BY <1>2, <1>3

LEMMA DispatchesAppend ==
    ASSUME NEW fs \in Seq(Functions), NEW f \in Functions, NEW c
    PROVE  Dispatches(c, Append(fs, f)) =
             Dispatches(c, fs) + (IF f.client = c /\ f.request = Dispatch THEN 1 ELSE 0)
<1>1. Append(fs, f) = fs \o <<f>> /\ <<f>> \in Seq(Functions)
  OBVIOUS
<1>2. Dispatches(c, Append(fs, f)) = Dispatches(c, fs \o <<f>>)
  BY <1>1, Zenon
<1>3. Dispatches(c, fs \o <<f>>) = Dispatches(c, fs) + Dispatches(c, <<f>>)
  BY <1>1, DispatchesConcat
<1>4. Dispatches(c, <<f>>) = IF f.client = c /\ f.request = Dispatch THEN 1 ELSE 0
  BY DispatchesOne
<1> QED
  BY <1>2, <1>3, <1>4, Zenon

LEMMA DispatchesTail ==
    ASSUME NEW fs \in Seq(Functions), fs # <<>>, NEW c
    PROVE  /\ Dispatches(c, Tail(fs)) \in Nat
           /\ Dispatches(c, fs) =
                Dispatches(c, Tail(fs)) + (IF Head(fs).client = c /\ Head(fs).request = Dispatch THEN 1 ELSE 0)
<1>1. fs = <<Head(fs)>> \o Tail(fs) /\ <<Head(fs)>> \in Seq(Functions) /\ Tail(fs) \in Seq(Functions) /\ Head(fs) \in Functions
  OBVIOUS
<1>2. Dispatches(c, <<Head(fs)>> \o Tail(fs)) = Dispatches(c, <<Head(fs)>>) + Dispatches(c, Tail(fs))
      /\ Dispatches(c, Tail(fs)) \in Nat
  BY <1>1, DispatchesConcat
<1>3. Dispatches(c, <<Head(fs)>>) = IF Head(fs).client = c /\ Head(fs).request = Dispatch THEN 1 ELSE 0
  BY <1>1, DispatchesOne
<1>4. Dispatches(c, fs) = Dispatches(c, <<Head(fs)>> \o Tail(fs))
  BY <1>1, Zenon
<1> DEFINE x == Dispatches(c, <<Head(fs)>>)
           y == Dispatches(c, Tail(fs))
<1>5. x \in Nat /\ y \in Nat /\ Dispatches(c, fs) = x + y
  BY <1>2, <1>3, <1>4
<1>6. x = IF Head(fs).client = c /\ Head(fs).request = Dispatch THEN 1 ELSE 0
  BY <1>3
<1> HIDE DEF x
<1> QED
  BY <1>5, <1>6

\* What the steps do to the functions that wait.
LEMMA WaitingType == TypeOK => Waiting \in Seq(Functions)
BY DEF TypeOK, Waiting

LEMMA PostWaits ==
    ASSUME TypeOK, NEW c \in Clients, NEW what \in Requests \cup {Dispatch}, Post(c, what), batch' = batch
    PROVE  IF scheduler[c]
           THEN \E f \in Functions : f.client = c /\ f.request = what /\ Waiting' = Append(Waiting, f)
           ELSE Waiting' = Waiting
<1>1. batch \in Seq(Functions) /\ functions \in Seq(Functions) /\ posted \in Nat
  BY DEF TypeOK
<1>2. CASE scheduler[c]
  <2> DEFINE new == [number |-> posted + 1, client |-> c, request |-> what]
  <2>1. functions' = Append(functions, new)
    BY <1>2 DEF Post, PostAlways
  <2>2. new \in Functions /\ new.client = c /\ new.request = what
    BY <1>1 DEF Functions
  <2> HIDE DEF new
  <2>3. Waiting' = Append(Waiting, new)
    BY <1>1, <2>1, <2>2 DEF Waiting
  <2> QED
    BY <1>2, <2>2, <2>3
<1>3. CASE ~scheduler[c]
  BY <1>3 DEF Post, Waiting
<1> QED
  BY <1>2, <1>3

LEMMA CallWaits ==
    ASSUME TypeOK, CallFunction
    PROVE  Waiting # <<>> /\ Head(Waiting) = Head(batch) /\ Head(batch) \in Functions /\ Waiting' = Tail(Waiting)
<1>1. batch \in Seq(Functions) /\ functions \in Seq(Functions)
  BY DEF TypeOK
<1>2. batch # <<>> /\ batch' = Tail(batch) /\ functions' = functions
  BY DEF CallFunction
<1> QED
  BY <1>1, <1>2 DEF Waiting

LEMMA FrameWaits ==
    ASSUME TypeOK, Shape, Frame
    PROVE  Waiting' = Waiting
<1>1. batch \in Seq(Functions) /\ functions \in Seq(Functions)
  BY DEF TypeOK
<1>2. CASE TakeFunctions
  BY <1>1, <1>2 DEF TakeFunctions, Shape, Waiting
<1>3. CASE EndFunctions
  BY <1>1, <1>3 DEF EndFunctions, PutBack, Waiting
<1> QED
  BY <1>2, <1>3 DEF Frame

-----------------------------------------------------------------------------
(* Nobody tells the network thread of the singleton to quit, a thread that     *)
(* quits leaves no request behind, and a client that is unborn has nothing.   *)

Stopped == {"quitting", "quit", "leaving", "done"}

Stops(c) ==
    /\ httpClient = c => network[c] \notin Stopped /\ \A i \in DOMAIN requestQueue[c] : requestQueue[c][i] # Sentinel
    /\ network[c] \in {"quit", "leaving", "done"} => \A i \in DOMAIN requestQueue[c] : requestQueue[c][i] = Sentinel
    /\ life[c] = "unborn" => /\ ~MainHolds(c) /\ network[c] = "none"
                             /\ requestQueue[c] = <<>> /\ responseQueue[c] = <<>>
                             /\ \A r \in Requests : sentTo[r] # c

\* A client that a step does not touch.
LEMMA OtherStops ==
    ASSUME NEW c \in Clients, Stops(c),
           httpClient' = c => httpClient = c, thiz' = c => MainHolds(c),
           network'[c] = network[c], requestQueue'[c] = requestQueue[c], responseQueue'[c] = responseQueue[c],
           life'[c] = "unborn" => life[c] = "unborn",
           \A r \in Requests : sentTo'[r] = c => sentTo[r] = c \/ MainHolds(c)
    PROVE  Stops(c)'
BY DEF Stops, MainHolds

\* A step keeps this of every client.
LEMMA NextStops ==
    ASSUME TypeOK, Shape, \A c \in Clients : Stops(c), [Next]_vars
    PROVE  \A c \in Clients : Stops(c)'
<1> USE Zero
<1> USE DEF clientVars, queueVars, networkVars, sendVars, functionVars, mainVars
<1>1. CASE GetInstance
  <2> PICK c \in Clients : httpClient = None /\ httpClient' = c /\ life[c] = "unborn" /\ life' = [life EXCEPT ![c] = "alive"]
    BY <1>1 DEF GetInstance
  <2>1. UNCHANGED <<queueVars, networkVars, sendVars, thiz>>
    BY <1>1 DEF GetInstance
  <2>2. Stops(c)'
    BY <2>1 DEF Stops, Stopped, TypeOK
  <2>3. ASSUME NEW d \in Clients \ {c} PROVE Stops(d)'
    BY <2>1, OtherStops DEF MainHolds, TypeOK
  <2> QED
    BY <2>2, <2>3
<1>2. ASSUME NEW r \in Requests, Send(r) PROVE \A c \in Clients : Stops(c)'
  <2> PICK c \in Clients : c = httpClient
    BY <1>2 DEF Send, Sending, TypeOK
  <2>1. /\ sentTo' = [sentTo EXCEPT ![r] = c]
        /\ requestQueue' = [requestQueue EXCEPT ![c] = Append(@, r)]
        /\ network' = [network EXCEPT ![c] = Notified(Inited(@))]
        /\ UNCHANGED <<life, responseQueue, httpClient, thiz>>
    BY <1>2 DEF Send, Sending, TypeOK
  <2>2. Stops(c)'
    <3>1. network[c] \notin Stopped /\ \A i \in DOMAIN requestQueue[c] : requestQueue[c][i] # Sentinel
      BY <2>1 DEF Stops
    <3>2. network'[c] \notin Stopped
      BY <2>1, <3>1 DEF TypeOK, Notified, Inited, Stopped
    <3>3. requestQueue[c] \in Seq(Requests \cup {Sentinel}) /\ requestQueue'[c] = Append(requestQueue[c], r)
      BY <2>1 DEF TypeOK
    <3>4. \A i \in DOMAIN requestQueue'[c] : requestQueue'[c][i] # Sentinel
      BY <3>1, <3>3
    <3>5. life[c] # "unborn"
      BY <2>1 DEF Stops, MainHolds
    <3> QED
      BY <2>1, <3>2, <3>4, <3>5 DEF Stops, Stopped
  <2>3. ASSUME NEW d \in Clients \ {c} PROVE Stops(d)'
    BY <2>1, OtherStops DEF TypeOK, MainHolds
  <2> QED
    BY <2>2, <2>3
<1>3. ASSUME NEW r \in Requests, SendImmediate(r) PROVE \A c \in Clients : Stops(c)'
  <2>1. httpClient \in Clients /\ sentTo' = [sentTo EXCEPT ![r] = httpClient]
        /\ UNCHANGED <<life, queueVars, networkVars, httpClient, thiz>>
    BY <1>3 DEF SendImmediate, Sending, TypeOK
  <2> SUFFICES ASSUME NEW d \in Clients PROVE Stops(d)'
    OBVIOUS
  <2> QED
    BY <2>1, OtherStops DEF TypeOK, MainHolds
<1>4. CASE DestroyInstance
  <2>1. thiz' = httpClient /\ httpClient' = None /\ thiz = None /\ UNCHANGED <<life, queueVars, networkVars, sendVars>>
    BY <1>4 DEF DestroyInstance, Shape
  <2> SUFFICES ASSUME NEW d \in Clients PROVE Stops(d)'
    OBVIOUS
  <2> QED
    BY <2>1, OtherStops DEF TypeOK, MainHolds
<1>5. CASE StopNetwork
  <2> PICK c \in Clients : c = thiz
    BY <1>5 DEF StopNetwork, Shape
  <2>1. /\ httpClient = None /\ UNCHANGED <<life, responseQueue, sentTo, httpClient, thiz>>
        /\ requestQueue' = [requestQueue EXCEPT ![c] = Append(@, Sentinel)]
        /\ network' = [network EXCEPT ![c] = Notified(@)]
    BY <1>5 DEF StopNetwork, Shape
  <2>2. Stops(c)'
    <3>1. life[c] # "unborn"
      BY <2>1 DEF Stops, MainHolds
    <3>2. requestQueue[c] \in Seq(Requests \cup {Sentinel}) /\ requestQueue'[c] = Append(requestQueue[c], Sentinel)
      BY <2>1 DEF TypeOK
    <3>3. network'[c] \in {"quit", "leaving", "done"} => network[c] \in {"quit", "leaving", "done"}
      BY <2>1 DEF TypeOK, Notified
    <3>4. network'[c] \in {"quit", "leaving", "done"} => \A i \in DOMAIN requestQueue'[c] : requestQueue'[c][i] = Sentinel
      BY <3>2, <3>3 DEF Stops
    <3> QED
      BY <2>1, <3>1, <3>4 DEF Stops
  <2>3. ASSUME NEW d \in Clients \ {c} PROVE Stops(d)'
    BY <2>1, OtherStops DEF TypeOK, MainHolds
  <2> QED
    BY <2>2, <2>3
<1>6. CASE LeaveInstance
  <2>1. thiz' = None /\ httpClient' = httpClient /\ UNCHANGED <<queueVars, networkVars, sendVars>>
    BY <1>6 DEF LeaveInstance
  <2>2. \A d \in Clients : life'[d] = "unborn" => life[d] = "unborn"
    BY <1>6 DEF LeaveInstance, Leave, Shape, TypeOK
  <2> SUFFICES ASSUME NEW d \in Clients PROVE Stops(d)'
    OBVIOUS
  <2> QED
    BY <2>1, <2>2, OtherStops DEF TypeOK, MainHolds
<1>7. CASE CallFunction
  <2>1. UNCHANGED <<life, requestQueue, networkVars, sendVars, httpClient, thiz>>
    BY <1>7 DEF CallFunction
  <2>2. Head(batch) \in Functions
    BY <1>7, CallWaits
  <2>3. \A d \in Clients : responseQueue[d] = <<>> => responseQueue'[d] = <<>>
    BY <1>7, <2>2 DEF CallFunction, TypeOK, Functions
  <2> SUFFICES ASSUME NEW d \in Clients PROVE Stops(d)'
    OBVIOUS
  <2> QED
    BY <2>1, <2>3 DEF Stops, MainHolds
<1>8. ASSUME NEW c \in Clients, NetworkStep(c) \/ SpuriousWakeup(c) PROVE \A d \in Clients : Stops(d)'
  <2>1. UNCHANGED <<httpClient, thiz, sentTo>> /\ network[c] # "none"
    BY <1>8 DEF NetworkStep, SpuriousWakeup, NetworkStarts, Sleep, TakeRequest, Serve, PostAnswer, DropRequests,
                DropResponses, NetworkLeaves, Move
  <2>2. \A d \in Clients \ {c} : network'[d] = network[d] /\ requestQueue'[d] = requestQueue[d] /\ responseQueue'[d] = responseQueue[d]
    BY <1>8 DEF NetworkStep, SpuriousWakeup, NetworkStarts, Sleep, TakeRequest, Serve, PostAnswer, DropRequests,
                DropResponses, NetworkLeaves, Move, TypeOK
  <2>3. \A d \in Clients : life'[d] = "unborn" => life[d] = "unborn"
    BY <1>8 DEF NetworkStep, SpuriousWakeup, NetworkStarts, Sleep, TakeRequest, Serve, PostAnswer, DropRequests,
                DropResponses, NetworkLeaves, Leave, TypeOK
  <2>4. ASSUME NEW d \in Clients \ {c} PROVE Stops(d)'
    BY <2>1, <2>2, <2>3, OtherStops DEF MainHolds
  <2>5. life'[c] # "unborn"
    BY <2>1, <2>3 DEF Stops
  <2>6. CASE NetworkStarts(c) \/ Sleep(c) \/ SpuriousWakeup(c) \/ Serve(c) \/ PostAnswer(c)
    <3>1. requestQueue' = requestQueue /\ network'[c] \in {"looking", "asleep", "answering"}
      BY <2>6 DEF NetworkStarts, Sleep, SpuriousWakeup, Serve, PostAnswer, Move, TypeOK
    <3> QED
      BY <2>1, <2>4, <2>5, <3>1 DEF Stops, Stopped
  <2>7. CASE TakeRequest(c)
    <3>1. /\ requestQueue[c] # <<>> /\ network'[c] = AfterTaking(Head(requestQueue[c]))
          /\ requestQueue'[c] = Tail(requestQueue[c]) /\ requestQueue[c] \in Seq(Requests \cup {Sentinel})
      BY <2>7 DEF TakeRequest, Move, TypeOK
    <3>2. httpClient = c => /\ network'[c] \notin Stopped
                            /\ \A i \in DOMAIN requestQueue'[c] : requestQueue'[c][i] # Sentinel
      BY <3>1 DEF Stops, AfterTaking, Stopped
    <3>3. network'[c] \notin {"quit", "leaving", "done"}
      BY <3>1 DEF AfterTaking
    <3> QED
      BY <2>1, <2>4, <2>5, <3>2, <3>3 DEF Stops
  <2>8. CASE DropRequests(c) \/ DropResponses(c) \/ NetworkLeaves(c)
    <3>1. network[c] \in Stopped /\ (requestQueue'[c] = <<>> \/ (requestQueue' = requestQueue /\ network[c] \in {"quit", "leaving"}))
      BY <2>8 DEF DropRequests, DropResponses, NetworkLeaves, Move, TypeOK, Stopped
    <3> QED
      BY <2>1, <2>4, <2>5, <3>1 DEF Stops, Stopped
  <2> QED
    BY <1>8, <2>6, <2>7, <2>8 DEF NetworkStep
<1>9. ASSUME NEW r \in Requests, AloneStep(r) PROVE \A c \in Clients : Stops(c)'
  <2>1. UNCHANGED <<queueVars, networkVars, sentTo, httpClient, thiz>>
    BY <1>9 DEF AloneStep, AnswerAlone, LeaveAlone
  <2>2. \A d \in Clients : life'[d] = "unborn" => life[d] = "unborn"
    BY <1>9 DEF AloneStep, AnswerAlone, LeaveAlone, Leave, TypeOK, Shape
  <2> SUFFICES ASSUME NEW d \in Clients PROVE Stops(d)'
    OBVIOUS
  <2> QED
    BY <2>1, <2>2, OtherStops DEF MainHolds
<1>10. CASE UNCHANGED <<life, queueVars, networkVars, sentTo, httpClient, thiz>>
  <2> SUFFICES ASSUME NEW d \in Clients PROVE Stops(d)'
    OBVIOUS
  <2> QED
    BY <1>10 DEF Stops, MainHolds
<1>11. CASE Frame \/ UNCHANGED vars
  BY <1>10, <1>11 DEF Frame, TakeFunctions, EndFunctions, vars
<1> QED
  BY <1>1, <1>2, <1>3, <1>4, <1>5, <1>6, <1>7, <1>8, <1>9, <1>11 DEF Next, Calling, Destroying

-----------------------------------------------------------------------------
(* A dispatch waits for every response. *)

Balance(c) ==
    scheduler[c] =>
      Len(responseQueue[c]) = Dispatches(c, Waiting) + (IF network[c] = "answering" THEN 1 ELSE 0)

LEMMA OtherBalance ==
    ASSUME NEW c \in Clients, Balance(c), scheduler'[c] => scheduler[c],
           responseQueue'[c] = responseQueue[c], Dispatches(c, Waiting') = Dispatches(c, Waiting),
           network'[c] = "answering" <=> network[c] = "answering"
    PROVE  Balance(c)'
<1>1. Dispatches(c, Waiting)' = Dispatches(c, Waiting')
  BY DEF Dispatches
<1> QED
  BY <1>1 DEF Balance

\* A step keeps the balance of every client.
LEMMA NextBalance ==
    ASSUME TypeOK, Shape, Bound, \A c \in Clients : Stops(c) /\ Balance(c), [Next]_vars
    PROVE  \A c \in Clients : Balance(c)'
<1> USE Zero
<1> USE DEF clientVars, queueVars, networkVars, sendVars, functionVars, mainVars
<1>0. Waiting \in Seq(Functions) /\ \A c \in Clients : scheduler[c] => httpClient = c
  BY WaitingType DEF Bound
<1>1. CASE GetInstance
  <2> PICK c \in Clients : /\ httpClient = None /\ httpClient' = c /\ life[c] = "unborn"
                           /\ scheduler' = [scheduler EXCEPT ![c] = TRUE]
    BY <1>1 DEF GetInstance
  <2>1. UNCHANGED <<queueVars, networkVars, Waiting>> /\ thiz = None
    BY <1>1 DEF GetInstance, Waiting, Playing, Shape
  <2>2. ASSUME NEW d \in Clients \ {c} PROVE Balance(d)'
    BY <2>1, OtherBalance DEF TypeOK
  <2>3. DOMAIN Waiting = {}
    <3> SUFFICES ASSUME NEW i \in DOMAIN Waiting PROVE FALSE
      OBVIOUS
    <3>1. Waiting[i] \in Functions /\ MainHolds(Waiting[i].client)
      BY <1>0 DEF Bound, Waiting
    <3> QED
      BY <2>1, <3>1 DEF MainHolds, Functions
  <2>4. Dispatches(c, Waiting) = 0
    <3>1. {i \in DOMAIN Waiting : Waiting[i].client = c /\ Waiting[i].request = Dispatch} = {}
      BY <2>3
    <3> QED
      BY <3>1, FS_EmptySet DEF Dispatches
  <2>5. Dispatches(c, Waiting)' = 0
    BY <2>1, <2>4 DEF Dispatches
  <2>6. responseQueue[c] = <<>> /\ network[c] = "none"
    BY DEF Stops
  <2>7. Balance(c)'
    BY <2>1, <2>5, <2>6 DEF Balance
  <2> QED
    BY <2>2, <2>7
<1>2. ASSUME UNCHANGED <<responseQueue, Waiting>>, NEW d \in Clients, scheduler'[d] => scheduler[d],
             network'[d] = "answering" <=> network[d] = "answering"
      PROVE  Balance(d)'
  BY <1>2, OtherBalance
<1>3. ASSUME NEW r \in Requests, Send(r) \/ SendImmediate(r), NEW d \in Clients PROVE Balance(d)'
  <2>1. UNCHANGED <<scheduler, responseQueue, Waiting>>
    BY <1>3 DEF Send, SendImmediate, Waiting
  <2>2. network'[d] = "answering" <=> network[d] = "answering"
    BY <1>3 DEF Send, Sending, SendImmediate, Notified, Inited, TypeOK
  <2> QED
    BY <1>2, <2>1, <2>2
<1>4. ASSUME DestroyInstance \/ StopNetwork, NEW d \in Clients PROVE Balance(d)'
  <2>1. UNCHANGED <<responseQueue, Waiting>>
    BY <1>4 DEF DestroyInstance, StopNetwork, Waiting
  <2>2. (scheduler'[d] => scheduler[d]) /\ (network'[d] = "answering" <=> network[d] = "answering")
    BY <1>4 DEF DestroyInstance, SchedulerReset, StopNetwork, Notified, TypeOK
  <2> QED
    BY <1>2, <2>1, <2>2
<1>5. ASSUME LeaveInstance, NEW d \in Clients PROVE Balance(d)'
  <2>1. ~scheduler'[d]
    BY <1>0, <1>5 DEF LeaveInstance, Shape
  <2> QED
    BY <2>1 DEF Balance
<1>6. ASSUME Frame, NEW d \in Clients PROVE Balance(d)'
  <2>1. UNCHANGED <<responseQueue, Waiting, scheduler, network>>
    BY <1>6, FrameWaits DEF Frame, TakeFunctions, EndFunctions
  <2> QED
    BY <1>2, <2>1
<1>7. ASSUME CallFunction, NEW d \in Clients PROVE Balance(d)'
  <2> DEFINE f == Head(batch)
  <2>1. Waiting # <<>> /\ Head(Waiting) = f /\ f \in Functions /\ Waiting' = Tail(Waiting)
    BY <1>7, CallWaits
  <2>2. UNCHANGED <<scheduler, network>>
    BY <1>7 DEF CallFunction
  <2>3. /\ Dispatches(d, Tail(Waiting)) \in Nat
        /\ Dispatches(d, Waiting) =
             Dispatches(d, Tail(Waiting)) + (IF f.client = d /\ f.request = Dispatch THEN 1 ELSE 0)
    BY <1>0, <2>1, DispatchesTail
  <2>4. Dispatches(d, Waiting)' = Dispatches(d, Tail(Waiting))
    BY <2>1 DEF Dispatches
  <2>5. CASE f.request = Dispatch /\ f.client = d
    <3> DEFINE n == Dispatches(d, Tail(Waiting))
    <3>1. n \in Nat /\ Dispatches(d, Waiting) = n + 1 /\ Dispatches(d, Waiting)' = n
      BY <2>3, <2>4, <2>5
    <3> HIDE DEF n
    <3>2. CASE responseQueue[d] # <<>>
      <4>1. responseQueue'[d] = Tail(responseQueue[d]) /\ responseQueue[d] \in Seq(Requests)
        BY <1>7, <2>5, <3>2 DEF CallFunction, TypeOK
      <4>2. Len(responseQueue'[d]) = Len(responseQueue[d]) - 1 /\ Len(responseQueue[d]) \in Nat
        BY <3>2, <4>1
      <4> QED
        BY <2>2, <3>1, <4>2 DEF Balance
    <3>3. CASE responseQueue[d] = <<>>
      BY <2>2, <3>1, <3>3 DEF Balance
    <3> QED
      BY <3>2, <3>3
  <2>6. CASE ~(f.request = Dispatch /\ f.client = d)
    <3>1. responseQueue'[d] = responseQueue[d]
      BY <1>7, <2>1, <2>6 DEF CallFunction, TypeOK, Functions
    <3>2. Dispatches(d, Waiting)' = Dispatches(d, Waiting)
      BY <2>3, <2>4, <2>6
    <3> QED
      BY <2>2, <3>1, <3>2 DEF Balance
  <2> QED
    BY <2>5, <2>6
<1>8. ASSUME NEW c \in Clients, PostAnswer(c), NEW d \in Clients PROVE Balance(d)'
  <2>1. /\ network[c] = "answering" /\ network'[c] = "looking" /\ UNCHANGED <<scheduler, responseQueue, batch>>
        /\ d # c => network'[d] = network[d]
    BY <1>8 DEF PostAnswer, Move, TypeOK
  <2>2. Post(c, Dispatch) /\ Dispatch \in Requests \cup {Dispatch}
    BY <1>8 DEF PostAnswer
  <2>3. CASE scheduler[c]
    <3> PICK f \in Functions : f.client = c /\ f.request = Dispatch /\ Waiting' = Append(Waiting, f)
      BY <2>1, <2>2, <2>3, PostWaits
    <3>1. Dispatches(d, Append(Waiting, f)) = Dispatches(d, Waiting) + (IF d = c THEN 1 ELSE 0)
      BY <1>0, DispatchesAppend
    <3>2. Dispatches(d, Waiting)' = Dispatches(d, Waiting) + (IF d = c THEN 1 ELSE 0)
      BY <3>1 DEF Dispatches
    <3>3. Dispatches(d, Waiting) \in Nat
      BY <1>0, DispatchesConcat
    <3> QED
      BY <2>1, <3>2, <3>3 DEF Balance
  <2>4. CASE ~scheduler[c]
    <3>1. Waiting' = Waiting
      BY <2>1, <2>2, <2>4, PostWaits
    <3>2. CASE d = c
      BY <2>1, <2>4, <3>2 DEF Balance
    <3>3. CASE d # c
      BY <1>2, <2>1, <3>1, <3>3
    <3> QED
      BY <3>2, <3>3
  <2> QED
    BY <2>3, <2>4
<1>9. ASSUME NEW r \in Requests, AloneStep(r), NEW d \in Clients PROVE Balance(d)'
  <2>1. UNCHANGED <<responseQueue, scheduler, network, batch>>
    BY <1>9 DEF AloneStep, AnswerAlone, LeaveAlone
  <2>2. Dispatches(d, Waiting') = Dispatches(d, Waiting)
    <3>1. CASE AnswerAlone(r)
      <4> DEFINE c == sentTo[r]
      <4>1. c \in Clients /\ Post(c, r) /\ r # Dispatch
        BY <3>1 DEF AnswerAlone, Shape, Dispatch, Sentinel
      <4>2. CASE scheduler[c]
        <5> PICK f \in Functions : f.client = c /\ f.request = r /\ Waiting' = Append(Waiting, f)
          BY <2>1, <4>1, <4>2, PostWaits
        <5>1. Dispatches(d, Append(Waiting, f)) = Dispatches(d, Waiting) + (IF f.client = d /\ f.request = Dispatch THEN 1 ELSE 0)
          BY <1>0, DispatchesAppend
        <5>2. Dispatches(d, Waiting) \in Nat
          BY <1>0, DispatchesConcat
        <5> QED
          BY <4>1, <5>1, <5>2
      <4>3. CASE ~scheduler[c]
        BY <2>1, <4>1, <4>3, PostWaits
      <4> QED
        BY <4>2, <4>3
    <3>2. CASE LeaveAlone(r)
      BY <3>2 DEF LeaveAlone, Waiting
    <3> QED
      BY <1>9, <3>1, <3>2 DEF AloneStep
  <2> QED
    BY <2>1, <2>2, OtherBalance
<1>10. ASSUME NEW c \in Clients, NEW d \in Clients,
              \/ NetworkStarts(c) \/ Sleep(c) \/ SpuriousWakeup(c) \/ TakeRequest(c) \/ DropRequests(c) \/ NetworkLeaves(c)
       PROVE  Balance(d)'
  <2>1. UNCHANGED <<responseQueue, scheduler, Waiting>>
    BY <1>10 DEF NetworkStarts, Sleep, SpuriousWakeup, TakeRequest, DropRequests, NetworkLeaves, Waiting
  <2>2. network'[d] = "answering" <=> network[d] = "answering"
    BY <1>10 DEF NetworkStarts, Sleep, SpuriousWakeup, TakeRequest, AfterTaking, DropRequests, NetworkLeaves, Move, TypeOK
  <2> QED
    BY <1>2, <2>1, <2>2
<1>11. ASSUME NEW c \in Clients, Serve(c), NEW d \in Clients PROVE Balance(d)'
  <2>1. /\ network[c] = "serving" /\ network'[c] = "answering" /\ request[c] \in Requests
        /\ responseQueue'[c] = Append(responseQueue[c], request[c]) /\ responseQueue[c] \in Seq(Requests)
        /\ UNCHANGED <<scheduler, Waiting>>
        /\ d # c => network'[d] = network[d] /\ responseQueue'[d] = responseQueue[d]
    BY <1>11 DEF Serve, Move, TypeOK, Shape, Waiting
  <2>2. Dispatches(d, Waiting)' = Dispatches(d, Waiting)
    BY <2>1 DEF Dispatches
  <2>3. Dispatches(d, Waiting) \in Nat
    BY <1>0, DispatchesConcat
  <2>4. Len(responseQueue'[c]) = Len(responseQueue[c]) + 1
    BY <2>1
  <2> QED
    BY <2>1, <2>2, <2>3, <2>4 DEF Balance
<1>12. ASSUME NEW c \in Clients, DropResponses(c), NEW d \in Clients PROVE Balance(d)'
  <2>1. network[c] = "quit" /\ UNCHANGED <<scheduler, Waiting>>
        /\ (d # c => network'[d] = network[d] /\ responseQueue'[d] = responseQueue[d])
    BY <1>12 DEF DropResponses, Move, TypeOK, Waiting
  <2>2. ~scheduler[c]
    BY <1>0, <2>1 DEF Stops, Stopped
  <2>3. CASE d = c
    BY <2>1, <2>2, <2>3 DEF Balance
  <2>4. CASE d # c
    BY <2>1, <2>4, OtherBalance
  <2> QED
    BY <2>3, <2>4
<1>13. ASSUME UNCHANGED vars, NEW d \in Clients PROVE Balance(d)'
  <2>1. UNCHANGED <<responseQueue, scheduler, network, Waiting>>
    BY <1>13 DEF vars, Waiting
  <2> QED
    BY <1>2, <2>1
<1> QED
  BY <1>1, <1>3, <1>4, <1>5, <1>6, <1>7, <1>8, <1>9, <1>10, <1>11, <1>12, <1>13
  DEF Next, Calling, Destroying, NetworkStep

-----------------------------------------------------------------------------
(* The requests of send() under way to a client are in the order they were     *)
(* sent, from its responses over the one that is served to its queue; none     *)
(* has been answered, and one that was dropped was sent after them.            *)

InQueue(c, r) == \E i \in DOMAIN requestQueue[c] : requestQueue[c][i] = r
InService(c, r) == network[c] = "serving" /\ request[c] = r
InResponses(c, r) == \E i \in DOMAIN responseQueue[c] : responseQueue[c][i] = r
UnderWay(c, r) == InQueue(c, r) \/ InService(c, r) \/ InResponses(c, r)
OfSend(c, r) == sentTo[r] = c /\ alone[r] = "no"

QueueSorted(c) ==
    \A i, j \in DOMAIN requestQueue[c] :
        i < j /\ requestQueue[c][i] # Sentinel /\ requestQueue[c][j] # Sentinel => requestQueue[c][i] < requestQueue[c][j]
ResponsesSorted(c) ==
    \A i, j \in DOMAIN responseQueue[c] : i < j => responseQueue[c][i] < responseQueue[c][j]

Ordered(c) ==
    /\ QueueSorted(c) /\ ResponsesSorted(c)
    /\ \A r, s \in Requests : InService(c, r) /\ InQueue(c, s) => r < s
    /\ \A r, s \in Requests : InResponses(c, r) /\ (InQueue(c, s) \/ InService(c, s)) => r < s
    /\ \A r \in Requests : UnderWay(c, r) => OfSend(c, r) /\ calls[r] = 0
    /\ \A r \in Requests : OfSend(c, r) /\ calls[r] = 0 /\ ~UnderWay(c, r) =>
         httpClient # c /\ \A s \in Requests : UnderWay(c, s) => s < r
    /\ \A r, s \in Requests : r < s /\ OfSend(c, r) /\ OfSend(c, s) /\ calls[s] = 1 => calls[r] = 1

NotSent(r) ==
    /\ r > sent => sentTo[r] = None
    /\ sentTo[r] = None => alone[r] = "no" /\ calls[r] = 0

\* The requests under way stay where they are.
LEMMA StayOrdered ==
    ASSUME NEW c \in Clients, Ordered(c),
           requestQueue'[c] = requestQueue[c], responseQueue'[c] = responseQueue[c],
           \A r \in Requests : InService(c, r)' <=> InService(c, r),
           \A r \in Requests : OfSend(c, r)' <=> OfSend(c, r),
           \A r \in Requests : OfSend(c, r) => calls'[r] = calls[r],
           httpClient # c => httpClient' # c
    PROVE  Ordered(c)'
<1>1. QueueSorted(c)' /\ ResponsesSorted(c)'
  BY DEF Ordered, QueueSorted, ResponsesSorted
<1>2. \A r \in Requests : (InQueue(c, r)' <=> InQueue(c, r)) /\ (InResponses(c, r)' <=> InResponses(c, r))
  BY DEF InQueue, InResponses
<1>3. \A r \in Requests : UnderWay(c, r)' <=> UnderWay(c, r)
  BY <1>2 DEF UnderWay
<1>4. /\ \A r, s \in Requests : InService(c, r) /\ InQueue(c, s) => r < s
      /\ \A r, s \in Requests : InResponses(c, r) /\ (InQueue(c, s) \/ InService(c, s)) => r < s
  BY DEF Ordered
<1>5. \A r, s \in Requests : InService(c, r)' /\ InQueue(c, s)' => r < s
  BY <1>2, <1>4
<1>6. \A r, s \in Requests : InResponses(c, r)' /\ (InQueue(c, s)' \/ InService(c, s)') => r < s
  BY <1>2, <1>4
<1>7. \A r \in Requests : UnderWay(c, r)' => OfSend(c, r)' /\ calls'[r] = 0
  BY <1>3 DEF Ordered
<1>8. \A r \in Requests : OfSend(c, r)' /\ calls'[r] = 0 /\ ~UnderWay(c, r)' =>
         httpClient' # c /\ \A s \in Requests : UnderWay(c, s)' => s < r
  BY <1>3 DEF Ordered
<1>9. \A r, s \in Requests : r < s /\ OfSend(c, r)' /\ OfSend(c, s)' /\ calls'[s] = 1 => calls'[r] = 1
  BY DEF Ordered
<1> QED
  BY <1>1, <1>5, <1>6, <1>7, <1>8, <1>9 DEF Ordered

\* Membership of a queue that grows and of one that shrinks.
LEMMA MemberAppend ==
    ASSUME NEW S, NEW q \in Seq(S), NEW e \in S
    PROVE  \A x : (\E i \in DOMAIN Append(q, e) : Append(q, e)[i] = x) <=> (\E i \in DOMAIN q : q[i] = x) \/ x = e
<1>1. /\ DOMAIN Append(q, e) = 1..Len(q) + 1 /\ DOMAIN q = 1..Len(q) /\ Append(q, e)[Len(q) + 1] = e
      /\ \A i \in 1..Len(q) : Append(q, e)[i] = q[i]
  OBVIOUS
<1>2. Len(q) \in Nat
  OBVIOUS
<1> DEFINE t == Append(q, e)
<1> HIDE DEF t
<1>3. \A i \in DOMAIN t : i \in 1..Len(q) \/ i = Len(q) + 1
  BY <1>1, <1>2 DEF t
<1>4. Len(q) + 1 \in DOMAIN t /\ \A i \in 1..Len(q) : i \in DOMAIN t
  BY <1>1, <1>2 DEF t
<1>5. ASSUME NEW x PROVE (\E i \in DOMAIN t : t[i] = x) <=> (\E i \in DOMAIN q : q[i] = x) \/ x = e
  <2>1. ASSUME NEW i \in DOMAIN t, t[i] = x PROVE (\E j \in DOMAIN q : q[j] = x) \/ x = e
    BY <1>1, <1>3, <2>1 DEF t
  <2>2. ASSUME NEW i \in DOMAIN q, q[i] = x PROVE \E j \in DOMAIN t : t[j] = x
    BY <1>1, <1>4, <2>2 DEF t
  <2>3. ASSUME x = e PROVE \E j \in DOMAIN t : t[j] = x
    BY <1>1, <1>4, <2>3 DEF t
  <2> QED
    BY <2>1, <2>2, <2>3
<1> QED
  BY <1>5 DEF t

LEMMA MemberTail ==
    ASSUME NEW S, NEW q \in Seq(S), q # <<>>
    PROVE  \A x : (\E i \in DOMAIN q : q[i] = x) <=> (\E i \in DOMAIN Tail(q) : Tail(q)[i] = x) \/ x = Head(q)
<1>1. /\ Len(q) \in Nat \ {0} /\ DOMAIN q = 1..Len(q) /\ DOMAIN Tail(q) = 1..Len(q) - 1 /\ Head(q) = q[1]
      /\ \A i \in 1..Len(q) - 1 : Tail(q)[i] = q[i + 1]
  OBVIOUS
<1> DEFINE t == Tail(q)
<1> HIDE DEF t
<1>2. \A i \in DOMAIN q : i = 1 \/ (i - 1 \in DOMAIN t /\ t[i - 1] = q[i])
  <2> TAKE i \in DOMAIN q
  <2>1. CASE i # 1
    <3>1. i - 1 \in 1..Len(q) - 1 /\ (i - 1) + 1 = i
      BY <1>1, <2>1
    <3> QED
      BY <1>1, <3>1 DEF t
  <2> QED
    BY <2>1
<1>3. \A i \in DOMAIN t : i + 1 \in DOMAIN q /\ t[i] = q[i + 1]
  BY <1>1 DEF t
<1>4. 1 \in DOMAIN q
  BY <1>1
<1>5. ASSUME NEW x PROVE (\E i \in DOMAIN q : q[i] = x) <=> (\E i \in DOMAIN t : t[i] = x) \/ x = Head(q)
  <2>1. ASSUME NEW i \in DOMAIN q, q[i] = x PROVE (\E j \in DOMAIN t : t[j] = x) \/ x = Head(q)
    BY <1>1, <1>2, <2>1
  <2>2. ASSUME NEW i \in DOMAIN t, t[i] = x PROVE \E j \in DOMAIN q : q[j] = x
    BY <1>3, <2>2
  <2>3. ASSUME x = Head(q) PROVE \E j \in DOMAIN q : q[j] = x
    BY <1>1, <1>4, <2>3
  <2> QED
    BY <2>1, <2>2, <2>3
<1> QED
  BY <1>5 DEF t

\* send(): the request is the last one.
LEMMA SendOrdered ==
    ASSUME TypeOK, Shape, \A c \in Clients : Ordered(c), \A r \in Requests : NotSent(r), NEW q \in Requests, Send(q)
    PROVE  \A c \in Clients : Ordered(c)'
<1> USE Zero
<1>0. PICK c \in Clients : c = httpClient
  BY DEF Send, Sending, TypeOK
<1>1. /\ q = sent + 1 /\ sentTo' = [sentTo EXCEPT ![q] = c]
      /\ requestQueue' = [requestQueue EXCEPT ![c] = Append(@, q)]
      /\ network' = [network EXCEPT ![c] = Notified(Inited(@))]
      /\ UNCHANGED <<responseQueue, request, alone, calls, httpClient>>
  BY <1>0 DEF Send, Sending, mainVars
<1>2. sentTo[q] = None /\ alone[q] = "no" /\ calls[q] = 0 /\ sent \in Nat
  BY <1>1 DEF NotSent, TypeOK
<1>3. \A r \in Requests : r # q => sentTo'[r] = sentTo[r]
  BY <1>1 DEF TypeOK
<1>4. sentTo'[q] = c
  BY <1>1 DEF TypeOK
<1>5. ASSUME NEW d \in Clients, NEW r \in Requests PROVE InService(d, r)' <=> InService(d, r)
  BY <1>1 DEF InService, TypeOK, Notified, Inited
<1>6. ASSUME NEW d \in Clients, d # c PROVE Ordered(d)'
  <2>1. \A r \in Requests : OfSend(d, r)' <=> OfSend(d, r)
    BY <1>1, <1>2, <1>3, <1>4, <1>6 DEF OfSend
  <2>2. requestQueue'[d] = requestQueue[d] /\ responseQueue'[d] = responseQueue[d]
    BY <1>1, <1>6 DEF TypeOK
  <2> QED
    BY <1>1, <1>5, <2>1, <2>2, StayOrdered
<1>7. requestQueue[c] \in Seq(Requests \cup {Sentinel}) /\ requestQueue'[c] = Append(requestQueue[c], q)
  BY <1>1 DEF TypeOK
<1>22. \A x : (\E i \in DOMAIN Append(requestQueue[c], q) : Append(requestQueue[c], q)[i] = x)
                 <=> (\E i \in DOMAIN requestQueue[c] : requestQueue[c][i] = x) \/ x = q
  <2> DEFINE s == requestQueue[c]
             Items == Requests \cup {Sentinel}
  <2>1. s \in Seq(Items) /\ q \in Items
    BY <1>7
  <2> HIDE DEF s, Items
  <2>2. \A x : (\E i \in DOMAIN Append(s, q) : Append(s, q)[i] = x) <=> (\E i \in DOMAIN s : s[i] = x) \/ x = q
    BY <2>1, MemberAppend
  <2> QED
    BY <2>2 DEF s
<1>8. \A r \in Requests : InQueue(c, r)' <=> InQueue(c, r) \/ r = q
  BY <1>7, <1>22, Zenon DEF InQueue
<1>9. \A r \in Requests : (InService(c, r)' <=> InService(c, r)) /\ (InResponses(c, r)' <=> InResponses(c, r))
  BY <1>1, <1>5 DEF InResponses
<1>10. \A r \in Requests : UnderWay(c, r)' <=> UnderWay(c, r) \/ r = q
  BY <1>8, <1>9 DEF UnderWay
<1>11. \A r \in Requests : OfSend(c, r)' <=> OfSend(c, r) \/ r = q
  BY <1>1, <1>2, <1>3, <1>4 DEF OfSend
<1>12. \A r \in Requests : OfSend(c, r) => r < q
  BY <1>1, <1>2 DEF OfSend, NotSent
<1>13. \A r \in Requests : UnderWay(c, r) => r < q
  BY <1>12 DEF Ordered
<1>14. QueueSorted(c)'
  <2> DEFINE s == requestQueue[c]
             t == Append(s, q)
  <2>1. \A i \in DOMAIN s : s[i] # Sentinel => s[i] < q
    <3> TAKE i \in DOMAIN s
    <3>1. s[i] # Sentinel => s[i] \in Requests /\ InQueue(c, s[i])
      BY <1>7 DEF InQueue
    <3> QED
      BY <1>13, <3>1 DEF UnderWay
  <2>2. \A i, j \in DOMAIN s : i < j /\ s[i] # Sentinel /\ s[j] # Sentinel => s[i] < s[j]
    BY DEF Ordered, QueueSorted
  <2>3. s \in Seq(Requests \cup {Sentinel}) /\ q \in Nat
    BY <1>7
  <2> HIDE DEF s
  <2>4. DOMAIN t = 1..Len(s) + 1 /\ DOMAIN s = 1..Len(s) /\ t[Len(s) + 1] = q /\ \A i \in 1..Len(s) : t[i] = s[i]
    BY <2>3
  <2>5. Len(s) \in Nat
    BY <2>3
  <2> HIDE DEF t
  <2>6. \A i, j \in DOMAIN t : i < j /\ t[i] # Sentinel /\ t[j] # Sentinel => t[i] < t[j]
    <3> SUFFICES ASSUME NEW i \in DOMAIN t, NEW j \in DOMAIN t, i < j, t[i] # Sentinel, t[j] # Sentinel
                 PROVE  t[i] < t[j]
      OBVIOUS
    <3>1. i \in 1..Len(s) /\ (j \in 1..Len(s) \/ j = Len(s) + 1)
      BY <2>4, <2>5
    <3> QED
      BY <2>1, <2>2, <2>4, <3>1
  <2> QED
    BY <1>7, <2>6 DEF QueueSorted, s, t
<1>15. ResponsesSorted(c)'
  BY <1>1 DEF Ordered, ResponsesSorted
<1>16. \A r, s \in Requests : InService(c, r)' /\ InQueue(c, s)' => r < s
  BY <1>8, <1>9, <1>13 DEF Ordered, UnderWay
<1>17. \A r, s \in Requests : InResponses(c, r)' /\ (InQueue(c, s)' \/ InService(c, s)') => r < s
  BY <1>8, <1>9, <1>13 DEF Ordered, UnderWay
<1>18. \A r \in Requests : UnderWay(c, r)' => OfSend(c, r)' /\ calls'[r] = 0
  BY <1>1, <1>2, <1>10, <1>11 DEF Ordered
<1>19. \A r \in Requests : ~(OfSend(c, r)' /\ calls'[r] = 0 /\ ~UnderWay(c, r)')
  BY <1>0, <1>1, <1>10, <1>11 DEF Ordered
<1>20. \A r, s \in Requests : r < s /\ OfSend(c, r)' /\ OfSend(c, s)' /\ calls'[s] = 1 => calls'[r] = 1
  <2> SUFFICES ASSUME NEW r \in Requests, NEW s \in Requests, r < s, OfSend(c, r)', OfSend(c, s)', calls[s] = 1
               PROVE  calls[r] = 1
    BY <1>1
  <2>1. s # q
    BY <1>2
  <2>2. r # q
    BY <1>11, <1>12, <2>1
  <2> QED
    BY <1>11, <2>1, <2>2 DEF Ordered
<1>21. Ordered(c)'
  BY <1>14, <1>15, <1>16, <1>17, <1>18, <1>19, <1>20 DEF Ordered
<1> QED
  BY <1>6, <1>21

\* sendImmediate() is not in this order.
LEMMA SendImmediateOrdered ==
    ASSUME TypeOK, Shape, \A c \in Clients : Ordered(c), \A r \in Requests : NotSent(r), NEW q \in Requests, SendImmediate(q)
    PROVE  \A c \in Clients : Ordered(c)'
<1> USE Zero
<1>1. /\ q = sent + 1 /\ sentTo' = [sentTo EXCEPT ![q] = httpClient] /\ alone' = [alone EXCEPT ![q] = "working"]
      /\ UNCHANGED <<requestQueue, responseQueue, network, request, calls, httpClient>>
  BY DEF SendImmediate, Sending, mainVars, queueVars, networkVars
<1>2. sentTo[q] = None
  BY <1>1 DEF NotSent, TypeOK
<1> SUFFICES ASSUME NEW d \in Clients PROVE Ordered(d)'
  OBVIOUS
<1>3. \A r \in Requests : OfSend(d, r)' <=> OfSend(d, r)
  BY <1>1, <1>2 DEF OfSend, TypeOK
<1>4. \A r \in Requests : InService(d, r)' <=> InService(d, r)
  BY <1>1 DEF InService
<1> QED
  BY <1>1, <1>3, <1>4, StayOrdered

\* What a sorted queue is without its head, and where the head was.
LEMMA TailSorted ==
    ASSUME NEW c \in Clients, TypeOK, requestQueue[c] # <<>>, QueueSorted(c),
           requestQueue'[c] = Tail(requestQueue[c])
    PROVE  /\ QueueSorted(c)'
           /\ \A r \in Requests : InQueue(c, r) <=> InQueue(c, r)' \/ r = Head(requestQueue[c])
           /\ Head(requestQueue[c]) # Sentinel => \A r \in Requests : InQueue(c, r)' => Head(requestQueue[c]) < r
<1> USE Zero
<1> DEFINE q == requestQueue[c]
           t == Tail(q)
<1>1. q \in Seq(Requests \cup {Sentinel}) /\ q # <<>>
  BY DEF TypeOK
<1>2. /\ Len(q) \in Nat \ {0} /\ DOMAIN q = 1..Len(q) /\ DOMAIN t = 1..Len(q) - 1 /\ Head(q) = q[1]
      /\ \A i \in 1..Len(q) - 1 : t[i] = q[i + 1]
  BY <1>1
<1>3. \A i, j \in DOMAIN q : i < j /\ q[i] # Sentinel /\ q[j] # Sentinel => q[i] < q[j]
  BY DEF QueueSorted
<1>11. \A x : (\E i \in DOMAIN q : q[i] = x) <=> (\E i \in DOMAIN t : t[i] = x) \/ x = Head(q)
  <2> HIDE DEF q
  <2> QED
    BY <1>1, MemberTail
<1>12. requestQueue[c] = q /\ requestQueue'[c] = t
  OBVIOUS
<1> HIDE DEF q, t
<1>4. \A r \in Requests : InQueue(c, r) <=> InQueue(c, r)' \/ r = Head(q)
  BY <1>11, <1>12 DEF InQueue
<1>5. \A i \in DOMAIN t : i \in Nat /\ i + 1 \in DOMAIN q /\ 1 < i + 1 /\ t[i] = q[i + 1]
  BY <1>2
<1>6. \A i, j \in DOMAIN t : i < j /\ t[i] # Sentinel /\ t[j] # Sentinel => t[i] < t[j]
  <2> SUFFICES ASSUME NEW i \in DOMAIN t, NEW j \in DOMAIN t, i < j, t[i] # Sentinel, t[j] # Sentinel PROVE t[i] < t[j]
    OBVIOUS
  <2>1. i + 1 < j + 1
    BY <1>5
  <2> QED
    BY <1>3, <1>5, <2>1
<1>7. ASSUME Head(q) # Sentinel, NEW i \in DOMAIN t, t[i] # Sentinel PROVE Head(q) < t[i]
  <2>1. 1 \in DOMAIN q
    BY <1>2
  <2> QED
    BY <1>2, <1>3, <1>5, <1>7, <2>1
<1>8. requestQueue'[c] = t
  BY DEF t, q
<1>9. QueueSorted(c)'
  BY <1>6, <1>8 DEF QueueSorted
<1>10. Head(q) # Sentinel => \A r \in Requests : InQueue(c, r)' => Head(q) < r
  BY <1>7, <1>8 DEF InQueue
<1> QED
  BY <1>4, <1>9, <1>10 DEF q

\* The network thread takes the oldest request, or the sentinel.
LEMMA TakeOrdered ==
    ASSUME TypeOK, NEW c \in Clients, Ordered(c), TakeRequest(c)
    PROVE  Ordered(c)'
<1> USE Zero
<1> DEFINE h == Head(requestQueue[c])
<1>1. /\ requestQueue[c] # <<>> /\ requestQueue'[c] = Tail(requestQueue[c])
      /\ network[c] = "looking" /\ network'[c] = AfterTaking(h) /\ request'[c] = h
      /\ UNCHANGED <<responseQueue, sentTo, alone, calls, httpClient>>
  BY DEF TakeRequest, Move, TypeOK, sendVars, mainVars
<1>2. QueueSorted(c)
  BY DEF Ordered
<1>3. /\ QueueSorted(c)'
      /\ \A r \in Requests : InQueue(c, r) <=> InQueue(c, r)' \/ r = h
      /\ h # Sentinel => \A r \in Requests : InQueue(c, r)' => h < r
  BY <1>1, <1>2, TailSorted
<1> HIDE DEF h
<1>4. \A r \in Requests : ~InService(c, r) /\ (InService(c, r)' <=> r = h)
  BY <1>1 DEF InService, AfterTaking
<1>5. \A r \in Requests : (InResponses(c, r)' <=> InResponses(c, r)) /\ (OfSend(c, r)' <=> OfSend(c, r))
  BY <1>1 DEF InResponses, OfSend
<1>6. \A r \in Requests : UnderWay(c, r)' <=> UnderWay(c, r)
  BY <1>3, <1>4, <1>5 DEF UnderWay
<1>7. ResponsesSorted(c)'
  BY <1>1 DEF Ordered, ResponsesSorted
<1>8. \A r, s \in Requests : InService(c, r)' /\ InQueue(c, s)' => r < s
  BY <1>3, <1>4
<1>9. \A r, s \in Requests : InResponses(c, r)' /\ (InQueue(c, s)' \/ InService(c, s)') => r < s
  BY <1>3, <1>4, <1>5 DEF Ordered
<1>10. /\ \A r \in Requests : UnderWay(c, r)' => OfSend(c, r)' /\ calls'[r] = 0
       /\ \A r \in Requests : OfSend(c, r)' /\ calls'[r] = 0 /\ ~UnderWay(c, r)' =>
            httpClient' # c /\ \A s \in Requests : UnderWay(c, s)' => s < r
       /\ \A r, s \in Requests : r < s /\ OfSend(c, r)' /\ OfSend(c, s)' /\ calls'[s] = 1 => calls'[r] = 1
  BY <1>1, <1>5, <1>6 DEF Ordered
<1> QED
  BY <1>3, <1>7, <1>8, <1>9, <1>10 DEF Ordered

\* What it served becomes the last response.
LEMMA ServeOrdered ==
    ASSUME TypeOK, Shape, NEW c \in Clients, Ordered(c), Serve(c)
    PROVE  Ordered(c)'
<1> USE Zero
<1>0. PICK q \in Requests : q = request[c]
  BY DEF Serve, Move, Shape
<1>1. /\ responseQueue'[c] = Append(responseQueue[c], q) /\ responseQueue[c] \in Seq(Requests)
      /\ network[c] = "serving" /\ network'[c] = "answering"
      /\ UNCHANGED <<requestQueue, sentTo, alone, calls, httpClient>>
  BY <1>0 DEF Serve, Move, TypeOK, sendVars, mainVars
<1>2. \A r \in Requests : InResponses(c, r)' <=> InResponses(c, r) \/ r = q
  BY <1>1, MemberAppend DEF InResponses
<1>3. \A r \in Requests : (InService(c, r) <=> r = q) /\ ~InService(c, r)'
  BY <1>0, <1>1 DEF InService
<1>4. \A r \in Requests : (InQueue(c, r)' <=> InQueue(c, r)) /\ (OfSend(c, r)' <=> OfSend(c, r))
  BY <1>1 DEF InQueue, OfSend
<1>5. \A r \in Requests : UnderWay(c, r)' <=> UnderWay(c, r)
  BY <1>2, <1>3, <1>4 DEF UnderWay
<1>6. QueueSorted(c)'
  BY <1>1 DEF Ordered, QueueSorted
<1>7. ResponsesSorted(c)'
  <2> DEFINE s == responseQueue[c]
             t == Append(s, q)
  <2>1. \A i \in DOMAIN s : s[i] < q
    <3> TAKE i \in DOMAIN s
    <3>1. s[i] \in Requests /\ InResponses(c, s[i])
      BY <1>1 DEF InResponses
    <3> QED
      BY <1>3, <3>1 DEF Ordered
  <2>2. \A i, j \in DOMAIN s : i < j => s[i] < s[j]
    BY DEF Ordered, ResponsesSorted
  <2>3. s \in Seq(Requests)
    BY <1>1
  <2> HIDE DEF s
  <2>4. DOMAIN t = 1..Len(s) + 1 /\ DOMAIN s = 1..Len(s) /\ t[Len(s) + 1] = q /\ \A i \in 1..Len(s) : t[i] = s[i]
    BY <2>3
  <2>5. Len(s) \in Nat
    BY <2>3
  <2> HIDE DEF t
  <2>6. \A i, j \in DOMAIN t : i < j => t[i] < t[j]
    <3> SUFFICES ASSUME NEW i \in DOMAIN t, NEW j \in DOMAIN t, i < j PROVE t[i] < t[j]
      OBVIOUS
    <3>1. i \in 1..Len(s) /\ (j \in 1..Len(s) \/ j = Len(s) + 1)
      BY <2>4, <2>5
    <3> QED
      BY <2>1, <2>2, <2>4, <3>1
  <2> QED
    BY <1>1, <2>6 DEF ResponsesSorted, s, t
<1>8. \A r, s \in Requests : InService(c, r)' /\ InQueue(c, s)' => r < s
  BY <1>3
<1>9. \A r, s \in Requests : InResponses(c, r)' /\ (InQueue(c, s)' \/ InService(c, s)') => r < s
  BY <1>2, <1>3, <1>4 DEF Ordered
<1>10. /\ \A r \in Requests : UnderWay(c, r)' => OfSend(c, r)' /\ calls'[r] = 0
       /\ \A r \in Requests : OfSend(c, r)' /\ calls'[r] = 0 /\ ~UnderWay(c, r)' =>
            httpClient' # c /\ \A s \in Requests : UnderWay(c, s)' => s < r
       /\ \A r, s \in Requests : r < s /\ OfSend(c, r)' /\ OfSend(c, s)' /\ calls'[s] = 1 => calls'[r] = 1
  BY <1>1, <1>4, <1>5 DEF Ordered
<1> QED
  BY <1>6, <1>7, <1>8, <1>9, <1>10 DEF Ordered

\* A thread that quits drops its requests, which were sent after its responses,
\* and then these.
LEMMA DropOrdered ==
    ASSUME TypeOK, NEW c \in Clients, Ordered(c), Stops(c), DropRequests(c) \/ DropResponses(c)
    PROVE  Ordered(c)'
<1> USE Zero
<1>1. UNCHANGED <<sentTo, alone, calls, httpClient>>
  BY DEF DropRequests, DropResponses, sendVars, mainVars
<1>2. httpClient # c /\ \A r \in Requests : ~InService(c, r) /\ ~InService(c, r)'
  BY DEF DropRequests, DropResponses, Move, Stops, Stopped, InService, TypeOK
<1>3. \A r \in Requests : OfSend(c, r)' <=> OfSend(c, r)
  BY <1>1 DEF OfSend
<1>4. CASE DropRequests(c)
  <2>1. requestQueue'[c] = <<>> /\ responseQueue'[c] = responseQueue[c]
    BY <1>4 DEF DropRequests, TypeOK
  <2>2. \A r \in Requests : ~InQueue(c, r)' /\ (InResponses(c, r)' <=> InResponses(c, r))
    BY <2>1 DEF InQueue, InResponses
  <2>3. QueueSorted(c)' /\ ResponsesSorted(c)'
    BY <2>1 DEF Ordered, QueueSorted, ResponsesSorted
  <2>4. \A r \in Requests : UnderWay(c, r)' <=> InResponses(c, r)
    BY <1>2, <2>2 DEF UnderWay
  <2>5. \A r \in Requests : UnderWay(c, r)' => OfSend(c, r)' /\ calls'[r] = 0
    BY <1>1, <1>3, <2>4 DEF Ordered, UnderWay
  <2>6. ASSUME NEW r \in Requests, OfSend(c, r), calls[r] = 0, NEW s \in Requests, ~InResponses(c, r), InResponses(c, s)
        PROVE  s < r
    <3>1. CASE InQueue(c, r)
      BY <2>6, <3>1 DEF Ordered
    <3>2. CASE ~InQueue(c, r)
      <4>1. ~UnderWay(c, r) /\ UnderWay(c, s)
        BY <1>2, <2>6, <3>2 DEF UnderWay
      <4> QED
        BY <2>6, <4>1 DEF Ordered
    <3> QED
      BY <3>1, <3>2
  <2>7. \A r \in Requests : OfSend(c, r)' /\ calls'[r] = 0 /\ ~UnderWay(c, r)' =>
            httpClient' # c /\ \A s \in Requests : UnderWay(c, s)' => s < r
    BY <1>1, <1>2, <1>3, <2>4, <2>6
  <2>8. \A r, s \in Requests : r < s /\ OfSend(c, r)' /\ OfSend(c, s)' /\ calls'[s] = 1 => calls'[r] = 1
    BY <1>1, <1>3 DEF Ordered
  <2> QED
    BY <1>2, <2>2, <2>3, <2>5, <2>7, <2>8 DEF Ordered
<1>5. CASE DropResponses(c)
  <2>1. requestQueue'[c] = requestQueue[c] /\ responseQueue'[c] = <<>> /\ network[c] = "quit"
    BY <1>5 DEF DropResponses, Move, TypeOK
  <2>2. \A r \in Requests : ~InQueue(c, r)' /\ ~InResponses(c, r)'
    BY <2>1 DEF Stops, InQueue, InResponses
  <2>3. QueueSorted(c)' /\ ResponsesSorted(c)'
    BY <2>1 DEF Ordered, QueueSorted, ResponsesSorted
  <2>4. \A r \in Requests : ~UnderWay(c, r)'
    BY <1>2, <2>2 DEF UnderWay
  <2>5. \A r, s \in Requests : r < s /\ OfSend(c, r)' /\ OfSend(c, s)' /\ calls'[s] = 1 => calls'[r] = 1
    BY <1>1, <1>3 DEF Ordered
  <2> QED
    BY <1>1, <1>2, <2>2, <2>3, <2>4, <2>5 DEF Ordered
<1> QED
  BY <1>4, <1>5

\* destroyInstance() puts the sentinel after the requests.
LEMMA StopOrdered ==
    ASSUME TypeOK, Shape, \A c \in Clients : Ordered(c), StopNetwork
    PROVE  \A c \in Clients : Ordered(c)'
<1> USE Zero
<1>0. PICK c \in Clients : c = thiz
  BY DEF StopNetwork, Shape
<1>1. /\ requestQueue' = [requestQueue EXCEPT ![c] = Append(@, Sentinel)]
      /\ network' = [network EXCEPT ![c] = Notified(@)]
      /\ UNCHANGED <<responseQueue, request, sentTo, alone, calls, httpClient>>
  BY <1>0 DEF StopNetwork, sendVars
<1>2. \A d \in Clients, r \in Requests : (InService(d, r)' <=> InService(d, r)) /\ (OfSend(d, r)' <=> OfSend(d, r))
  BY <1>1 DEF InService, OfSend, Notified, TypeOK
<1>3. ASSUME NEW d \in Clients, d # c PROVE Ordered(d)'
  <2>1. requestQueue'[d] = requestQueue[d]
    BY <1>1, <1>3 DEF TypeOK
  <2> QED
    BY <1>1, <1>2, <2>1, StayOrdered
<1>4. requestQueue[c] \in Seq(Requests \cup {Sentinel}) /\ requestQueue'[c] = Append(requestQueue[c], Sentinel)
  BY <1>1 DEF TypeOK
<1>5. \A r \in Requests : InQueue(c, r)' <=> InQueue(c, r)
  BY <1>4, MemberAppend DEF InQueue
<1>6. \A r \in Requests : InResponses(c, r)' <=> InResponses(c, r)
  BY <1>1 DEF InResponses
<1>7. \A r \in Requests : UnderWay(c, r)' <=> UnderWay(c, r)
  BY <1>2, <1>5, <1>6 DEF UnderWay
<1>8. QueueSorted(c)'
  <2> DEFINE s == requestQueue[c]
             t == Append(s, Sentinel)
  <2>1. \A i, j \in DOMAIN s : i < j /\ s[i] # Sentinel /\ s[j] # Sentinel => s[i] < s[j]
    BY DEF Ordered, QueueSorted
  <2>2. s \in Seq(Requests \cup {Sentinel})
    BY <1>4
  <2> HIDE DEF s
  <2>3. DOMAIN t = 1..Len(s) + 1 /\ DOMAIN s = 1..Len(s) /\ t[Len(s) + 1] = Sentinel /\ \A i \in 1..Len(s) : t[i] = s[i]
    BY <2>2
  <2>4. Len(s) \in Nat
    BY <2>2
  <2> HIDE DEF t
  <2>5. \A i \in DOMAIN t : t[i] # Sentinel => i \in 1..Len(s)
    BY <2>3, <2>4
  <2>6. \A i, j \in DOMAIN t : i < j /\ t[i] # Sentinel /\ t[j] # Sentinel => t[i] < t[j]
    BY <2>1, <2>3, <2>5
  <2> QED
    BY <1>4, <2>6 DEF QueueSorted, s, t
<1>9. ResponsesSorted(c)'
  BY <1>1 DEF Ordered, ResponsesSorted
<1>10. \A r, s \in Requests : InService(c, r)' /\ InQueue(c, s)' => r < s
  BY <1>2, <1>5 DEF Ordered
<1>11. \A r, s \in Requests : InResponses(c, r)' /\ (InQueue(c, s)' \/ InService(c, s)') => r < s
  BY <1>2, <1>5, <1>6 DEF Ordered
<1>12. /\ \A r \in Requests : UnderWay(c, r)' => OfSend(c, r)' /\ calls'[r] = 0
       /\ \A r \in Requests : OfSend(c, r)' /\ calls'[r] = 0 /\ ~UnderWay(c, r)' =>
            httpClient' # c /\ \A s \in Requests : UnderWay(c, s)' => s < r
       /\ \A r, s \in Requests : r < s /\ OfSend(c, r)' /\ OfSend(c, s)' /\ calls'[s] = 1 => calls'[r] = 1
  BY <1>1, <1>2, <1>7 DEF Ordered
<1>13. Ordered(c)'
  BY <1>8, <1>9, <1>10, <1>11, <1>12 DEF Ordered
<1> QED
  BY <1>3, <1>13

-----------------------------------------------------------------------------
(* A callback is called once: by a dispatch, for the oldest response, or by    *)
(* the one function that its own thread posted.                               *)

AnsweredOnce(r) ==
    /\ calls[r] \in {0, 1} /\ (alone[r] = "working" => calls[r] = 0)
    /\ \A i \in DOMAIN Waiting : Waiting[i].request = r => alone[r] \in {"leaving", "left"} /\ calls[r] = 0
    /\ \A i, j \in DOMAIN Waiting : Waiting[i].request = r /\ Waiting[j].request = r => i = j

\* A dispatch calls the callback of the oldest request that has none.
LEMMA DispatchOrdered ==
    ASSUME TypeOK, NEW c \in Clients, Ordered(c), \A r \in Requests : calls[r] \in {0, 1},
           responseQueue[c] # <<>>, responseQueue'[c] = Tail(responseQueue[c]),
           calls' = [calls EXCEPT ![Head(responseQueue[c])] = @ + 1],
           UNCHANGED <<requestQueue, networkVars, sendVars, httpClient>>
    PROVE  /\ Ordered(c)'
           /\ OfSend(c, Head(responseQueue[c])) /\ calls[Head(responseQueue[c])] = 0
<1> USE Zero
<1> DEFINE q == responseQueue[c]
           t == Tail(q)
<1>1. q \in Seq(Requests) /\ q # <<>>
  BY DEF TypeOK
<1>2. /\ Len(q) \in Nat \ {0} /\ DOMAIN q = 1..Len(q) /\ DOMAIN t = 1..Len(q) - 1 /\ Head(q) = q[1]
      /\ \A i \in 1..Len(q) - 1 : t[i] = q[i + 1]
  BY <1>1
<1>3. \A i, j \in DOMAIN q : i < j => q[i] < q[j]
  BY DEF Ordered, ResponsesSorted
<1>23. \A x : (\E i \in DOMAIN q : q[i] = x) <=> (\E i \in DOMAIN t : t[i] = x) \/ x = Head(q)
  <2> HIDE DEF q
  <2> QED
    BY <1>1, MemberTail
<1>24. responseQueue[c] = q /\ responseQueue'[c] = t
  OBVIOUS
<1>25. Head(q) \in Requests
  <2> HIDE DEF q
  <2> QED
    BY <1>1
<1>5. PICK h \in Requests : h = Head(q)
  BY <1>25, Zenon
<1>6. responseQueue'[c] = t /\ calls' = [calls EXCEPT ![h] = @ + 1]
      /\ UNCHANGED <<requestQueue, network, request, sentTo, alone, httpClient>>
  BY <1>5 DEF networkVars, sendVars
<1> HIDE DEF q, t
<1>4. \A r \in Requests : InResponses(c, r) <=> InResponses(c, r)' \/ r = Head(q)
  BY <1>23, <1>24 DEF InResponses
<1>7. \A i \in DOMAIN t : i \in Nat /\ i + 1 \in DOMAIN q /\ 1 < i + 1 /\ t[i] = q[i + 1]
  BY <1>2
<1>8. \A i, j \in DOMAIN t : i < j => t[i] < t[j]
  <2> SUFFICES ASSUME NEW i \in DOMAIN t, NEW j \in DOMAIN t, i < j PROVE t[i] < t[j]
    OBVIOUS
  <2>1. i + 1 < j + 1
    BY <1>7
  <2> QED
    BY <1>3, <1>7, <2>1
<1>9. \A r \in Requests : InResponses(c, r)' => h < r
  <2>1. 1 \in DOMAIN q
    BY <1>2
  <2>2. \A i \in DOMAIN t : h < t[i]
    BY <1>2, <1>3, <1>5, <1>7, <2>1
  <2> QED
    BY <1>6, <2>2 DEF InResponses
<1>10. UnderWay(c, h) /\ InResponses(c, h)
  BY <1>4, <1>5 DEF UnderWay
<1>11. OfSend(c, h) /\ calls[h] = 0
  BY <1>10 DEF Ordered
<1>12. \A r \in Requests : /\ InQueue(c, r)' <=> InQueue(c, r)
                           /\ InService(c, r)' <=> InService(c, r)
                           /\ OfSend(c, r)' <=> OfSend(c, r)
  BY <1>6 DEF InQueue, InService, OfSend
<1>13. \A r \in Requests : InQueue(c, r) \/ InService(c, r) => h < r
  BY <1>10 DEF Ordered
<1>14. \A r \in Requests : /\ UnderWay(c, r) <=> UnderWay(c, r)' \/ r = h
                           /\ UnderWay(c, r)' => h < r
  BY <1>4, <1>5, <1>9, <1>12, <1>13 DEF UnderWay
<1>15. calls'[h] = 1 /\ \A r \in Requests : r # h => calls'[r] = calls[r]
  <2>1. calls \in [Requests -> Nat]
    BY DEF TypeOK
  <2> QED
    BY ONLY <1>6, <1>11, <2>1
<1>16. QueueSorted(c)' /\ ResponsesSorted(c)'
  BY <1>6, <1>8 DEF Ordered, QueueSorted, ResponsesSorted
<1>17. \A r, s \in Requests : InService(c, r)' /\ InQueue(c, s)' => r < s
  BY <1>12 DEF Ordered
<1>18. \A r, s \in Requests : InResponses(c, r)' /\ (InQueue(c, s)' \/ InService(c, s)') => r < s
  BY <1>4, <1>5, <1>12 DEF Ordered
<1>19. \A r \in Requests : UnderWay(c, r)' => OfSend(c, r)' /\ calls'[r] = 0
  <2> SUFFICES ASSUME NEW r \in Requests, UnderWay(c, r)' PROVE OfSend(c, r)' /\ calls'[r] = 0
    OBVIOUS
  <2>1. UnderWay(c, r) /\ h < r
    BY <1>14
  <2>2. OfSend(c, r) /\ calls[r] = 0
    BY <2>1 DEF Ordered
  <2>3. r # h
    BY <2>1
  <2>4. OfSend(c, r)'
    BY <1>12, <2>2, Zenon
  <2> QED
    BY <1>15, <2>2, <2>3, <2>4, Zenon
<1>20. \A r \in Requests : OfSend(c, r)' /\ calls'[r] = 0 /\ ~UnderWay(c, r)' =>
            httpClient' # c /\ \A s \in Requests : UnderWay(c, s)' => s < r
  <2> SUFFICES ASSUME NEW r \in Requests, OfSend(c, r)', calls'[r] = 0, ~UnderWay(c, r)'
               PROVE  httpClient' # c /\ \A s \in Requests : UnderWay(c, s)' => s < r
    OBVIOUS
  <2>1. r # h /\ calls[r] = 0 /\ OfSend(c, r) /\ ~UnderWay(c, r)
    BY <1>12, <1>14, <1>15
  <2>2. httpClient # c /\ \A s \in Requests : UnderWay(c, s) => s < r
    BY <2>1 DEF Ordered
  <2> QED
    BY <1>6, <1>14, <2>2
<1>21. \A r, s \in Requests : r < s /\ OfSend(c, r)' /\ OfSend(c, s)' /\ calls'[s] = 1 => calls'[r] = 1
  <2> SUFFICES ASSUME NEW r \in Requests, NEW s \in Requests, r < s, OfSend(c, r)', OfSend(c, s)', calls'[s] = 1
               PROVE  calls'[r] = 1
    OBVIOUS
  <2>1. CASE r = h
    BY <1>15, <2>1
  <2>2. CASE r # h /\ s # h
    <3>1. calls[s] = 1 /\ OfSend(c, r) /\ OfSend(c, s)
      BY <1>12, <1>15, <2>2
    <3>2. calls[r] = 1
      BY <3>1 DEF Ordered
    <3> QED
      BY <1>15, <2>2, <3>2
  <2>3. CASE s = h
    <3>1. r # h /\ ~(h < r) /\ OfSend(c, r)
      BY <1>12, <2>3
    <3>2. ~UnderWay(c, r)
      BY <1>14, <3>1
    <3>3. calls[r] # 0
      BY <1>10, <3>1, <3>2 DEF Ordered
    <3> QED
      BY <1>15, <3>1, <3>3
  <2> QED
    BY <2>1, <2>2, <2>3
<1>22. Ordered(c)'
  BY <1>16, <1>17, <1>18, <1>19, <1>20, <1>21 DEF Ordered
<1> QED
  BY <1>5, <1>11, <1>22 DEF q

\* The function that is called is the answer to one request, or to none.
LEMMA CallAnswers ==
    ASSUME TypeOK, \A c \in Clients : Ordered(c), \A r \in Requests : AnsweredOnce(r), CallFunction
    PROVE  /\ \A c \in Clients : Ordered(c)'
           /\ \/ \E r \in Requests : /\ calls[r] = 0 /\ calls' = [calls EXCEPT ![r] = @ + 1]
                                     /\ alone[r] = "no" /\ sentTo[r] # None
              \/ \E r \in Requests : /\ calls[r] = 0 /\ calls' = [calls EXCEPT ![r] = @ + 1]
                                     /\ alone[r] \in {"leaving", "left"} /\ Head(Waiting).request = r
              \/ calls' = calls
<1> USE Zero
<1> DEFINE f == Head(batch)
<1>1. f \in Functions /\ Waiting # <<>> /\ Head(Waiting) = f /\ Waiting \in Seq(Functions)
  BY CallWaits, WaitingType
<1>2. UNCHANGED <<requestQueue, networkVars, sendVars, network, request, sentTo, alone, httpClient>>
  BY DEF CallFunction, networkVars, sendVars, mainVars
<1>3. CASE f.request # Dispatch
  <2>1. PICK r \in Requests : r = f.request
    BY <1>1, <1>3 DEF Functions
  <2>2. calls' = [calls EXCEPT ![r] = @ + 1] /\ responseQueue' = responseQueue
    BY <1>3, <2>1 DEF CallFunction
  <2>3. 1 \in DOMAIN Waiting /\ Waiting[1].request = r
    BY <1>1, <2>1
  <2>4. alone[r] \in {"leaving", "left"} /\ calls[r] = 0
    BY <2>3 DEF AnsweredOnce
  <2>5. ASSUME NEW c \in Clients PROVE Ordered(c)'
    <3>1. \A s \in Requests : (InService(c, s)' <=> InService(c, s)) /\ (OfSend(c, s)' <=> OfSend(c, s))
      BY <1>2 DEF InService, OfSend
    <3>2. \A s \in Requests : OfSend(c, s) => calls'[s] = calls[s]
      BY <2>2, <2>4 DEF OfSend, TypeOK
    <3> QED
      BY <1>2, <2>2, <3>1, <3>2, StayOrdered
  <2> QED
    BY <1>1, <2>1, <2>2, <2>4, <2>5
<1>4. CASE f.request = Dispatch /\ responseQueue[f.client] # <<>>
  <2>1. PICK c \in Clients : c = f.client
    BY <1>1 DEF Functions
  <2>2. responseQueue[c] # <<>> /\ responseQueue' = [responseQueue EXCEPT ![c] = Tail(@)]
        /\ calls' = [calls EXCEPT ![Head(responseQueue[c])] = @ + 1]
    BY <1>4, <2>1 DEF CallFunction, OldestResponse
  <2>3. responseQueue'[c] = Tail(responseQueue[c])
    BY <2>2 DEF TypeOK
  <2>4. \A r \in Requests : calls[r] \in {0, 1}
    BY DEF AnsweredOnce
  <2>5. Ordered(c)
    OBVIOUS
  <2>6. /\ Ordered(c)'
        /\ OfSend(c, Head(responseQueue[c])) /\ calls[Head(responseQueue[c])] = 0
    BY <1>2, <2>2, <2>3, <2>4, <2>5, DispatchOrdered
  <2>12. responseQueue[c] \in Seq(Requests)
    BY DEF TypeOK
  <2>7. PICK h \in Requests : h = Head(responseQueue[c])
    BY ONLY <2>2, <2>12
  <2>8. OfSend(c, h) /\ calls[h] = 0 /\ calls' = [calls EXCEPT ![h] = @ + 1]
    BY <2>2, <2>6, <2>7
  <2>9. ASSUME NEW d \in Clients, d # c PROVE Ordered(d)'
    <3>1. \A s \in Requests : (InService(d, s)' <=> InService(d, s)) /\ (OfSend(d, s)' <=> OfSend(d, s))
      BY <1>2 DEF InService, OfSend
    <3>2. \A s \in Requests : OfSend(d, s) => calls'[s] = calls[s]
      BY <2>8, <2>9 DEF OfSend, TypeOK
    <3>3. responseQueue'[d] = responseQueue[d]
      BY <2>2, <2>9 DEF TypeOK
    <3>4. Ordered(d)
      OBVIOUS
    <3> QED
      BY <1>2, <3>1, <3>2, <3>3, <3>4, StayOrdered
  <2>10. \A d \in Clients : Ordered(d)'
    BY <2>6, <2>9
  <2>11. alone[h] = "no" /\ sentTo[h] # None
    BY <2>8 DEF OfSend
  <2> QED
    BY <2>8, <2>10, <2>11
<1>5. CASE f.request = Dispatch /\ responseQueue[f.client] = <<>>
  <2>1. calls' = calls /\ responseQueue' = responseQueue
    BY <1>5 DEF CallFunction
  <2>2. ASSUME NEW c \in Clients PROVE Ordered(c)'
    <3>1. \A s \in Requests : (InService(c, s)' <=> InService(c, s)) /\ (OfSend(c, s)' <=> OfSend(c, s))
      BY <1>2 DEF InService, OfSend
    <3> QED
      BY <1>2, <2>1, <3>1, StayOrdered
  <2> QED
    BY <2>1, <2>2
<1> QED
  BY <1>3, <1>4, <1>5

\* A step keeps the order of every client.
LEMMA NextOrdered ==
    ASSUME TypeOK, Shape, \A c \in Clients : Stops(c) /\ Ordered(c),
           \A r \in Requests : NotSent(r) /\ AnsweredOnce(r), [Next]_vars
    PROVE  \A c \in Clients : Ordered(c)'
<1> USE Zero
<1>0. /\ \A c \in Clients : Ordered(c)
      /\ \A r \in Requests : NotSent(r)
      /\ \A r \in Requests : AnsweredOnce(r)
  OBVIOUS
<1>1. ASSUME UNCHANGED <<requestQueue, responseQueue, sentTo, calls, httpClient>>,
             \A c \in Clients, r \in Requests : InService(c, r)' <=> InService(c, r),
             \A r \in Requests : alone'[r] = "no" <=> alone[r] = "no"
      PROVE  \A c \in Clients : Ordered(c)'
  <2> SUFFICES ASSUME NEW c \in Clients PROVE Ordered(c)'
    OBVIOUS
  <2>1. \A r \in Requests : OfSend(c, r)' <=> OfSend(c, r)
    BY <1>1 DEF OfSend
  <2> QED
    BY <1>0, <1>1, <2>1, StayOrdered
<1>2. CASE GetInstance
  <2> PICK c \in Clients : httpClient = None /\ httpClient' = c /\ life[c] = "unborn"
    BY <1>2 DEF GetInstance
  <2>1. UNCHANGED <<requestQueue, responseQueue, network, request, sentTo, alone, calls>>
    BY <1>2 DEF GetInstance, queueVars, networkVars, sendVars
  <2>2. \A d \in Clients, r \in Requests : (InService(d, r)' <=> InService(d, r)) /\ (OfSend(d, r)' <=> OfSend(d, r))
    BY <2>1 DEF InService, OfSend
  <2>3. ASSUME NEW d \in Clients, d # c PROVE Ordered(d)'
    BY <1>0, <2>1, <2>2, <2>3, StayOrdered
  <2>4. Ordered(c)'
    <3>1. requestQueue[c] = <<>> /\ responseQueue[c] = <<>> /\ network[c] = "none" /\ \A r \in Requests : ~OfSend(c, r)
      BY DEF Stops, OfSend
    <3>2. QueueSorted(c)' /\ ResponsesSorted(c)'
      BY <2>1, <3>1 DEF QueueSorted, ResponsesSorted
    <3>3. \A r \in Requests : ~InQueue(c, r)' /\ ~InService(c, r)' /\ ~InResponses(c, r)' /\ ~OfSend(c, r)'
      BY <2>1, <2>2, <3>1 DEF InQueue, InService, InResponses
    <3>4. \A r \in Requests : ~UnderWay(c, r)'
      BY <3>3 DEF UnderWay
    <3> QED
      BY <3>2, <3>3, <3>4 DEF Ordered
  <2> QED
    BY <2>3, <2>4
<1>3. CASE DestroyInstance
  <2>1. UNCHANGED <<requestQueue, responseQueue, network, request, sentTo, alone, calls>> /\ httpClient' = None
    BY <1>3 DEF DestroyInstance, queueVars, networkVars, sendVars
  <2>2. \A d \in Clients, r \in Requests : (InService(d, r)' <=> InService(d, r)) /\ (OfSend(d, r)' <=> OfSend(d, r))
    BY <2>1 DEF InService, OfSend
  <2> SUFFICES ASSUME NEW d \in Clients PROVE Ordered(d)'
    OBVIOUS
  <2> QED
    BY <1>0, <2>1, <2>2, StayOrdered
<1>4. CASE CallFunction
  BY <1>0, <1>4, CallAnswers
<1>5. ASSUME NEW c \in Clients, TakeRequest(c) \/ Serve(c) \/ DropRequests(c) \/ DropResponses(c)
      PROVE  \A d \in Clients : Ordered(d)'
  <2>1. Ordered(c)'
    BY <1>0, <1>5, TakeOrdered, ServeOrdered, DropOrdered
  <2>2. /\ UNCHANGED <<sentTo, alone, calls, httpClient>>
        /\ \A d \in Clients : d # c => UNCHANGED <<requestQueue[d], responseQueue[d], network[d], request[d]>>
    BY <1>5 DEF TakeRequest, Serve, DropRequests, DropResponses, Move, TypeOK, sendVars, mainVars
  <2>3. ASSUME NEW d \in Clients, d # c PROVE Ordered(d)'
    <3>1. \A r \in Requests : (InService(d, r)' <=> InService(d, r)) /\ (OfSend(d, r)' <=> OfSend(d, r))
      BY <2>2, <2>3 DEF InService, OfSend
    <3> QED
      BY <1>0, <2>2, <2>3, <3>1, StayOrdered
  <2> QED
    BY <2>1, <2>3
<1>6. ASSUME NEW c \in Clients,
             NetworkStarts(c) \/ Sleep(c) \/ SpuriousWakeup(c) \/ PostAnswer(c) \/ NetworkLeaves(c)
      PROVE  \A d \in Clients : Ordered(d)'
  <2>1. UNCHANGED <<requestQueue, responseQueue, request, sentTo, alone, calls, httpClient>>
    BY <1>6 DEF NetworkStarts, Sleep, SpuriousWakeup, PostAnswer, NetworkLeaves, queueVars, sendVars, mainVars
  <2>2. \A d \in Clients : network'[d] = "serving" <=> network[d] = "serving"
    BY <1>6 DEF NetworkStarts, Sleep, SpuriousWakeup, PostAnswer, NetworkLeaves, Move, TypeOK
  <2>3. \A d \in Clients, r \in Requests : InService(d, r)' <=> InService(d, r)
    BY <2>1, <2>2 DEF InService
  <2> QED
    BY <1>1, <2>1, <2>3
<1>7. ASSUME NEW r \in Requests, AloneStep(r) PROVE \A d \in Clients : Ordered(d)'
  <2>1. UNCHANGED <<requestQueue, responseQueue, network, request, sentTo, calls, httpClient>>
    BY <1>7 DEF AloneStep, AnswerAlone, LeaveAlone, queueVars, networkVars, mainVars
  <2>2. \A s \in Requests : alone'[s] = "no" <=> alone[s] = "no"
    BY <1>7 DEF AloneStep, AnswerAlone, LeaveAlone, TypeOK
  <2>3. \A d \in Clients, s \in Requests : InService(d, s)' <=> InService(d, s)
    BY <2>1 DEF InService
  <2> QED
    BY <1>1, <2>1, <2>2, <2>3
<1>8. CASE Frame \/ LeaveInstance \/ UNCHANGED vars
  <2>1. UNCHANGED <<requestQueue, responseQueue, network, request, sentTo, alone, calls, httpClient>>
    BY <1>8 DEF Frame, TakeFunctions, EndFunctions, LeaveInstance, vars, queueVars, networkVars, sendVars, mainVars
  <2>2. \A d \in Clients, s \in Requests : InService(d, s)' <=> InService(d, s)
    BY <2>1 DEF InService
  <2> QED
    BY <1>1, <2>1, <2>2
<1>9. ASSUME NEW r \in Requests, Send(r) \/ SendImmediate(r) PROVE \A d \in Clients : Ordered(d)'
  BY <1>0, <1>9, SendOrdered, SendImmediateOrdered
<1>10. CASE StopNetwork
  BY <1>0, <1>10, StopOrdered
<1> QED
  BY <1>2, <1>3, <1>4, <1>5, <1>6, <1>7, <1>8, <1>9, <1>10 DEF Next, Calling, Destroying, NetworkStep

\* Nothing happens to a request before it is sent.
LEMMA NextNotSent ==
    ASSUME TypeOK, Shape, \A c \in Clients : Ordered(c),
           \A r \in Requests : NotSent(r) /\ AnsweredOnce(r), [Next]_vars
    PROVE  \A r \in Requests : NotSent(r)'
<1> USE Zero
<1>0. /\ \A r \in Requests : NotSent(r)
      /\ \A r \in Requests : AnsweredOnce(r)
      /\ sent \in Nat
  BY DEF TypeOK
<1>1. ASSUME NEW q \in Requests, Send(q) \/ SendImmediate(q) PROVE \A r \in Requests : NotSent(r)'
  <2>1. /\ sent' = q /\ q = sent + 1 /\ calls' = calls /\ sentTo'[q] # None
        /\ \A r \in Requests : r # q => sentTo'[r] = sentTo[r] /\ alone'[r] = alone[r]
    BY <1>1 DEF Send, SendImmediate, Sending, TypeOK
  <2> SUFFICES ASSUME NEW r \in Requests PROVE NotSent(r)'
    OBVIOUS
  <2>2. r \in Nat /\ q \in Nat /\ sent \in Nat
    BY <1>0
  <2>3. CASE r = q
    BY <2>1, <2>2, <2>3 DEF NotSent
  <2>4. CASE r # q
    <3>1. r > sent' => r > sent
      BY <2>1, <2>2
    <3>2. NotSent(r) /\ sentTo'[r] = sentTo[r] /\ alone'[r] = alone[r] /\ calls'[r] = calls[r]
      BY <1>0, <2>1, <2>4
    <3> QED
      BY <3>1, <3>2 DEF NotSent
  <2> QED
    BY <2>3, <2>4
<1>2. CASE CallFunction
  <2>1. UNCHANGED <<sent, sentTo, alone>>
    BY <1>2 DEF CallFunction, sendVars
  <2>2. \A r \in Requests : calls'[r] = calls[r] \/ sentTo[r] # None \/ alone[r] # "no"
    BY <1>0, <1>2, CallAnswers DEF TypeOK
  <2> QED
    BY <1>0, <2>1, <2>2 DEF NotSent
<1>3. ASSUME NEW q \in Requests, AloneStep(q) PROVE \A r \in Requests : NotSent(r)'
  <2>1. UNCHANGED <<sent, sentTo, calls>> /\ alone[q] # "no" /\ \A r \in Requests : r # q => alone'[r] = alone[r]
    BY <1>3 DEF AloneStep, AnswerAlone, LeaveAlone, TypeOK
  <2> QED
    BY <1>0, <2>1 DEF NotSent
<1>4. CASE UNCHANGED <<sent, sentTo, alone, calls>>
  BY <1>0, <1>4 DEF NotSent
<1>5. CASE GetInstance \/ DestroyInstance \/ Frame \/ Destroying \/ UNCHANGED vars
  BY <1>4, <1>5 DEF GetInstance, DestroyInstance, Frame, TakeFunctions, EndFunctions, Destroying, StopNetwork, LeaveInstance,
                    vars, sendVars
<1>6. ASSUME NEW c \in Clients, NetworkStep(c) \/ SpuriousWakeup(c) PROVE \A r \in Requests : NotSent(r)'
  BY <1>4, <1>6 DEF NetworkStep, SpuriousWakeup, NetworkStarts, Sleep, TakeRequest, Serve, PostAnswer, DropRequests,
                    DropResponses, NetworkLeaves, sendVars
<1> QED
  BY <1>1, <1>2, <1>3, <1>5, <1>6 DEF Next, Calling

\* A step that the functions that wait for a request do not see.
LEMMA StayAnswered ==
    ASSUME NEW r \in Requests, AnsweredOnce(r), Waiting' = Waiting, calls'[r] = calls[r],
           alone[r] \in {"leaving", "left"} => alone'[r] \in {"leaving", "left"},
           alone'[r] = "working" => calls[r] = 0
    PROVE  AnsweredOnce(r)'
BY DEF AnsweredOnce

\* A function that does not answer the request is posted.
LEMMA PostAnswered ==
    ASSUME TypeOK, NEW r \in Requests, AnsweredOnce(r), NEW f \in Functions, f.request # r,
           Waiting' = Append(Waiting, f), calls'[r] = calls[r], alone'[r] = alone[r]
    PROVE  AnsweredOnce(r)'
<1>1. Waiting \in Seq(Functions)
  BY WaitingType
<1>2. \A i \in DOMAIN Waiting' : Waiting'[i].request = r => i \in DOMAIN Waiting /\ Waiting[i].request = r
  BY <1>1
<1> QED
  BY <1>2 DEF AnsweredOnce

\* A step keeps to one answer.
LEMMA NextAnsweredOnce ==
    ASSUME TypeOK, Shape, \A c \in Clients : Ordered(c),
           \A r \in Requests : NotSent(r) /\ AnsweredOnce(r), [Next]_vars
    PROVE  \A r \in Requests : AnsweredOnce(r)'
<1> USE Zero
<1>0. /\ \A r \in Requests : NotSent(r)
      /\ \A r \in Requests : AnsweredOnce(r)
      /\ Waiting \in Seq(Functions) /\ sent \in Nat
  BY WaitingType DEF TypeOK
<1>1. ASSUME NEW q \in Requests, SendImmediate(q) PROVE \A r \in Requests : AnsweredOnce(r)'
  <2>1. Waiting' = Waiting /\ calls' = calls /\ q > sent /\ \A r \in Requests : r # q => alone'[r] = alone[r]
    BY <1>1 DEF SendImmediate, Sending, functionVars, Waiting, TypeOK
  <2>2. alone[q] = "no" /\ calls[q] = 0
    BY <1>0, <2>1 DEF NotSent
  <2> SUFFICES ASSUME NEW r \in Requests PROVE AnsweredOnce(r)'
    OBVIOUS
  <2>3. alone'[r] = "working" => calls[r] = 0
    BY <1>0, <2>1, <2>2 DEF AnsweredOnce
  <2> QED
    BY <1>0, <2>1, <2>2, <2>3, StayAnswered
<1>2. CASE UNCHANGED <<calls, alone, Waiting>>
  <2> SUFFICES ASSUME NEW r \in Requests PROVE AnsweredOnce(r)'
    OBVIOUS
  <2> QED
    BY <1>0, <1>2 DEF AnsweredOnce
<1>3. CASE CallFunction
  <2>1. Waiting # <<>> /\ Waiting' = Tail(Waiting) /\ UNCHANGED alone
    BY <1>3, CallWaits DEF CallFunction, sendVars
  <2>2. Head(Waiting) = Waiting[1] /\ 1 \in DOMAIN Waiting
    BY <1>0, <2>1
  <2>3. \A i \in DOMAIN Waiting' : i + 1 \in DOMAIN Waiting /\ i + 1 # 1 /\ Waiting'[i] = Waiting[i + 1] /\ i \in Nat
    BY <1>0, <2>1
  <2> SUFFICES ASSUME NEW r \in Requests PROVE AnsweredOnce(r)'
    OBVIOUS
  <2>4. \A i, j \in DOMAIN Waiting' : Waiting'[i].request = r /\ Waiting'[j].request = r => i = j
    <3> SUFFICES ASSUME NEW i \in DOMAIN Waiting', NEW j \in DOMAIN Waiting',
                        Waiting'[i].request = r, Waiting'[j].request = r
                 PROVE  i = j
      OBVIOUS
    <3>1. i + 1 = j + 1
      BY <1>0, <2>3 DEF AnsweredOnce
    <3> QED
      BY <2>3, <3>1
  <2>5. CASE calls'[r] = calls[r]
    BY <1>0, <2>1, <2>3, <2>4, <2>5 DEF AnsweredOnce
  <2>6. CASE calls'[r] # calls[r]
    <3>1. calls[r] = 0 /\ calls'[r] = 1 /\ (alone[r] = "no" \/ (alone[r] \in {"leaving", "left"} /\ Head(Waiting).request = r))
      BY <1>0, <1>3, <2>6, CallAnswers DEF TypeOK
    <3>2. \A i \in DOMAIN Waiting' : Waiting'[i].request # r
      <4> SUFFICES ASSUME NEW i \in DOMAIN Waiting', Waiting'[i].request = r PROVE FALSE
        OBVIOUS
      <4>1. alone[r] \in {"leaving", "left"}
        BY <1>0, <2>3 DEF AnsweredOnce
      <4>2. Waiting[1].request = r
        BY <2>2, <3>1, <4>1
      <4>3. i + 1 = 1
        BY <1>0, <2>2, <2>3, <4>2 DEF AnsweredOnce
      <4> QED
        BY <2>3, <4>3
    <3> QED
      BY <2>1, <2>4, <3>1, <3>2 DEF AnsweredOnce
  <2> QED
    BY <2>5, <2>6
<1>4. ASSUME NEW c \in Clients, PostAnswer(c) PROVE \A r \in Requests : AnsweredOnce(r)'
  <2>1. Post(c, Dispatch) /\ UNCHANGED <<calls, alone, batch>>
    BY <1>4 DEF PostAnswer, sendVars
  <2>2. CASE scheduler[c]
    <3> PICK f \in Functions : f.client = c /\ f.request = Dispatch /\ Waiting' = Append(Waiting, f)
      BY <2>1, <2>2, PostWaits
    <3> SUFFICES ASSUME NEW r \in Requests PROVE AnsweredOnce(r)'
      OBVIOUS
    <3>1. f.request # r
      BY DEF Dispatch, Sentinel
    <3> QED
      BY <1>0, <2>1, <3>1, PostAnswered
  <2>3. CASE ~scheduler[c]
    BY <1>2, <2>1, <2>3, PostWaits
  <2> QED
    BY <2>2, <2>3
<1>5. ASSUME NEW q \in Requests, AnswerAlone(q) PROVE \A r \in Requests : AnsweredOnce(r)'
  <2>1. /\ alone[q] = "working" /\ alone' = [alone EXCEPT ![q] = "leaving"]
        /\ sentTo[q] \in Clients /\ Post(sentTo[q], q) /\ UNCHANGED <<calls, batch>>
    BY <1>5 DEF AnswerAlone, Shape
  <2>2. calls[q] = 0 /\ \A i \in DOMAIN Waiting : Waiting[i].request # q
    BY <1>0, <2>1 DEF AnsweredOnce
  <2>3. alone'[q] = "leaving" /\ \A r \in Requests : r # q => alone'[r] = alone[r]
    BY <2>1 DEF TypeOK
  <2>4. CASE scheduler[sentTo[q]]
    <3> PICK f \in Functions : f.request = q /\ Waiting' = Append(Waiting, f)
      BY <2>1, <2>4, PostWaits
    <3>1. \A i \in DOMAIN Waiting' : Waiting'[i].request = q => i = Len(Waiting) + 1
      BY <1>0, <2>2
    <3>2. AnsweredOnce(q)'
      BY <2>1, <2>2, <2>3, <3>1 DEF AnsweredOnce
    <3>3. ASSUME NEW r \in Requests, r # q PROVE AnsweredOnce(r)'
      BY <1>0, <2>1, <2>3, <3>3, PostAnswered
    <3> QED
      BY <3>2, <3>3
  <2>5. CASE ~scheduler[sentTo[q]]
    <3>1. Waiting' = Waiting
      BY <2>1, <2>5, PostWaits
    <3> SUFFICES ASSUME NEW r \in Requests PROVE AnsweredOnce(r)'
      OBVIOUS
    <3>2. alone'[r] = "working" => calls[r] = 0
      BY <1>0, <2>3 DEF AnsweredOnce
    <3> QED
      BY <1>0, <2>1, <2>3, <3>1, <3>2, StayAnswered
  <2> QED
    BY <2>4, <2>5
<1>6. ASSUME NEW q \in Requests, LeaveAlone(q) PROVE \A r \in Requests : AnsweredOnce(r)'
  <2>1. Waiting' = Waiting /\ calls' = calls /\ alone[q] = "leaving" /\ alone'[q] = "left"
        /\ \A r \in Requests : r # q => alone'[r] = alone[r]
    BY <1>6 DEF LeaveAlone, functionVars, Waiting, TypeOK
  <2> SUFFICES ASSUME NEW r \in Requests PROVE AnsweredOnce(r)'
    OBVIOUS
  <2>2. alone'[r] = "working" => calls[r] = 0
    BY <1>0, <2>1 DEF AnsweredOnce
  <2> QED
    BY <1>0, <2>1, <2>2, StayAnswered
<1>7. CASE LeaveInstance
  <2>1. Waiting' = <<>> /\ UNCHANGED <<calls, alone>>
    BY <1>7 DEF LeaveInstance, Shape, Waiting, sendVars
  <2>2. DOMAIN Waiting' = {}
    BY <2>1
  <2> SUFFICES ASSUME NEW r \in Requests PROVE AnsweredOnce(r)'
    OBVIOUS
  <2> QED
    BY <1>0, <2>1, <2>2 DEF AnsweredOnce
<1>8. CASE Frame
  <2>1. UNCHANGED <<calls, alone, Waiting>>
    BY <1>8, FrameWaits DEF Frame, TakeFunctions, EndFunctions, sendVars
  <2> QED
    BY <1>2, <2>1
<1>9. CASE GetInstance \/ DestroyInstance \/ StopNetwork \/ UNCHANGED vars
  <2>1. UNCHANGED <<calls, alone, Waiting>>
    BY <1>9 DEF GetInstance, DestroyInstance, StopNetwork, vars, sendVars, functionVars, Waiting
  <2> QED
    BY <1>2, <2>1
<1>10. ASSUME NEW q \in Requests, Send(q) PROVE \A r \in Requests : AnsweredOnce(r)'
  <2>1. UNCHANGED <<calls, alone, Waiting>>
    BY <1>10 DEF Send, functionVars, Waiting
  <2> QED
    BY <1>2, <2>1
<1>11. ASSUME NEW c \in Clients,
              \/ NetworkStarts(c) \/ Sleep(c) \/ SpuriousWakeup(c) \/ TakeRequest(c) \/ Serve(c)
              \/ DropRequests(c) \/ DropResponses(c) \/ NetworkLeaves(c)
       PROVE  \A r \in Requests : AnsweredOnce(r)'
  <2>1. UNCHANGED <<calls, alone, Waiting>>
    BY <1>11 DEF NetworkStarts, Sleep, SpuriousWakeup, TakeRequest, Serve, DropRequests, DropResponses, NetworkLeaves,
                 sendVars, functionVars, Waiting
  <2> QED
    BY <1>2, <2>1
<1> QED
  BY <1>1, <1>3, <1>4, <1>5, <1>6, <1>7, <1>8, <1>9, <1>10, <1>11
  DEF Next, Calling, Destroying, NetworkStep, AloneStep

-----------------------------------------------------------------------------
IInv ==
    /\ TypeOK /\ Shape /\ RunInOrder /\ Bound
    /\ \A c \in Clients : Stops(c) /\ Balance(c) /\ Ordered(c)
    /\ \A r \in Requests : NotSent(r) /\ AnsweredOnce(r)
    /\ ~EarlyDestroy => CountsHolders

\* The initial state has the invariant.
LEMMA InitIInv == Init => IInv
<1> SUFFICES ASSUME Init PROVE IInv
  OBVIOUS
<1>1. TypeOK /\ Shape
  BY InitTypes
<1>2. RunInOrder
  BY DEF Init, RunInOrder
<1>3. CountsHolders
  <2>1. \A c \in Clients : AloneHolding(c) = {} /\ ~MainHolds(c) /\ ~NetworkHolds(c)
    BY Zero DEF Init, AloneHolding, MainHolds, NetworkHolds
  <2>2. \A c \in Clients : Cardinality(AloneHolding(c)) = 0
    BY <2>1, FS_EmptySet
  <2>3. \A c \in Clients : threadCount[c] = 0 /\ life[c] = "unborn"
    BY DEF Init
  <2> QED
    BY <2>1, <2>2, <2>3 DEF CountsHolders
<1>4. Bound
  BY DEF Init, Bound
<1>5. ASSUME NEW c \in Clients PROVE Stops(c) /\ Balance(c) /\ Ordered(c)
  <2>1. /\ httpClient = None /\ thiz = None /\ network[c] = "none" /\ ~scheduler[c]
        /\ requestQueue[c] = <<>> /\ responseQueue[c] = <<>>
        /\ \A r \in Requests : sentTo[r] = None /\ alone[r] = "no"
    BY DEF Init
  <2>2. Stops(c) /\ Balance(c)
    BY <2>1, Zero DEF Stops, Stopped, MainHolds, Balance
  <2>3. QueueSorted(c) /\ ResponsesSorted(c)
    BY <2>1 DEF QueueSorted, ResponsesSorted
  <2>4. \A r \in Requests : ~InQueue(c, r) /\ ~InService(c, r) /\ ~InResponses(c, r) /\ ~OfSend(c, r)
    BY <2>1, Zero DEF InQueue, InService, InResponses, OfSend
  <2>5. \A r \in Requests : ~UnderWay(c, r)
    BY <2>4 DEF UnderWay
  <2> QED
    BY <2>2, <2>3, <2>4, <2>5 DEF Ordered
<1>6. ASSUME NEW r \in Requests PROVE NotSent(r) /\ AnsweredOnce(r)
  <2>1. Waiting = <<>> /\ calls[r] = 0 /\ alone[r] = "no" /\ sentTo[r] = None
    BY DEF Init, Waiting
  <2>2. DOMAIN Waiting = {}
    BY <2>1
  <2> QED
    BY <2>1, <2>2 DEF NotSent, AnsweredOnce
<1> QED
  BY <1>1, <1>2, <1>3, <1>4, <1>5, <1>6 DEF IInv

\* IInv is inductive.
LEMMA NextIInv == IInv /\ [Next]_vars => IInv'
BY NextTypes, NextKeepsOrder, NextBinds, NextCounts, NextStops, NextBalance, NextOrdered, NextNotSent, NextAnsweredOnce
DEF IInv

\* HttpClient keeps its types.
THEOREM TypeCorrect == Spec => []TypeOK
<1>1. IInv => TypeOK
  BY DEF IInv
<1> QED
  BY <1>1, InitIInv, NextIInv, PTL DEF Spec

\* Posted functions run once each and in order, whatever a frame leaves over.
THEOREM FunctionsRunInOrder == Spec => []RunInOrder
<1>1. IInv => RunInOrder
  BY DEF IInv
<1> QED
  BY <1>1, InitIInv, NextIInv, PTL DEF Spec

\* As long as answers may be posted a dispatch is posted, or about to be, for
\* every response, and none more.
THEOREM ResponsesDispatchedAlways == Spec => []ResponsesDispatched
<1>1. IInv => ResponsesDispatched
  <2> SUFFICES ASSUME IInv, NEW c \in Clients, scheduler[c]
               PROVE  Len(responseQueue[c]) = Dispatches(c, batch) + Dispatches(c, functions)
                                                + (IF network[c] = "answering" THEN 1 ELSE 0)
    BY DEF ResponsesDispatched
  <2>1. batch \in Seq(Functions) /\ functions \in Seq(Functions) /\ Balance(c)
    BY DEF IInv, TypeOK
  <2>2. Dispatches(c, batch \o functions) = Dispatches(c, batch) + Dispatches(c, functions)
    BY <2>1, DispatchesConcat
  <2>3. Len(responseQueue[c]) = Dispatches(c, Waiting) + (IF network[c] = "answering" THEN 1 ELSE 0)
    BY <2>1 DEF Balance
  <2>4. Dispatches(c, Waiting) = Dispatches(c, batch \o functions)
    BY DEF Waiting
  <2> QED
    BY <2>2, <2>3, <2>4
<1> QED
  BY <1>1, InitIInv, NextIInv, PTL DEF Spec

\* A callback is called at most once, and those of the requests that were sent
\* to a client in the order they were sent, whatever threads and frames do.
THEOREM AnsweredInOrderAlways == Spec => []AnsweredInOrder
<1>1. IInv => AnsweredInOrder
  <2> SUFFICES ASSUME IInv PROVE AnsweredInOrder
    OBVIOUS
  <2>1. \A r \in Requests : calls[r] \in {0, 1}
    BY DEF IInv, AnsweredOnce
  <2>2. ASSUME NEW r \in Requests, NEW s \in Requests,
               r < s, sentTo[r] = sentTo[s], alone[r] = "no", alone[s] = "no", calls[s] = 1
        PROVE  calls[r] = 1
    <3>1. sentTo[s] \in Clients
      <4>1. sentTo[s] # None
        BY <2>2 DEF IInv, NotSent
      <4> QED
        BY <4>1 DEF IInv, TypeOK
    <3>2. OfSend(sentTo[s], r) /\ OfSend(sentTo[s], s)
      BY <2>2 DEF OfSend
    <3> QED
      BY <2>2, <3>1, <3>2 DEF IInv, Ordered
  <2> QED
    BY <2>1, <2>2, Zero DEF AnsweredInOrder
<1> QED
  BY <1>1, InitIInv, NextIInv, PTL DEF Spec

\* When the thread has begun before its client is destroyed, the count of a
\* client is the number of its users.
THEOREM CountIsHolders == ASSUME ~EarlyDestroy PROVE Spec => []CountsHolders
<1>1. IInv => CountsHolders
  BY DEF IInv
<1> QED
  BY <1>1, InitIInv, NextIInv, PTL DEF Spec

\* Under the same condition neither a thread nor a posted function comes to a
\* client that is deleted.
THEOREM NoUseAfterDelete == ASSUME ~EarlyDestroy PROVE Spec => []UsedAlive
<1>1. IInv => UsersAlive
  <2> SUFFICES ASSUME IInv, NEW c \in Clients,
                      MainHolds(c) \/ network[c] \notin {"none", "done"} \/ AloneHolding(c) # {}
               PROVE  life[c] = "alive"
    BY DEF UsersAlive
  <2>1. threadCount[c] = Users(c) /\ (life[c] = "alive" <=> threadCount[c] > 0)
    BY DEF IInv, CountsHolders, Users
  <2>2. network[c] = "starting" => MainHolds(c)
    BY DEF IInv, Shape, MainHolds
  <2>3. AloneHolding(c) # {} => Cardinality(AloneHolding(c)) > 0
    BY UsersCounted, FS_EmptySet
  <2> QED
    BY <2>1, <2>2, <2>3, UsersCounted DEF Users, NetworkHolds
<1>2. IInv => FunctionsUsable
  <2> SUFFICES ASSUME IInv, NEW i \in DOMAIN (batch \o functions)
               PROVE  life[(batch \o functions)[i].client] = "alive"
    BY DEF FunctionsUsable
  <2> DEFINE c == (batch \o functions)[i].client
  <2>1. c \in Clients
    <3> DEFINE waiting == batch \o functions
    <3>1. waiting \in Seq(Functions)
      BY DEF IInv, TypeOK
    <3> HIDE DEF waiting
    <3>2. ASSUME NEW j \in DOMAIN waiting PROVE waiting[j] \in Functions
      BY <3>1
    <3> QED
      BY <3>2 DEF waiting, Functions
  <2>2. MainHolds(c)
    BY DEF IInv, Bound
  <2>3. threadCount[c] = Users(c) /\ (life[c] = "alive" <=> threadCount[c] > 0)
    BY <2>1 DEF IInv, CountsHolders, Users
  <2> HIDE DEF c
  <2>4. life[c] = "alive"
    BY <2>1, <2>2, <2>3, UsersCounted DEF Users
  <2> QED
    BY <2>4 DEF c
<1>3. IInv => UsedAlive
  BY <1>1, <1>2 DEF UsedAlive
<1> QED
  BY <1>3, InitIInv, NextIInv, PTL DEF Spec
=============================================================================
