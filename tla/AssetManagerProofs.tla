-------------------------- MODULE AssetManagerProofs --------------------------
(* Theorems about AssetManager, for every value of its constants.  OneInstance   *)
(* and InFlightDeduplicated also assume which optional operations are not used. *)
EXTENDS AssetManager, Functions, TLAPS

-----------------------------------------------------------------------------
(* Sequences used as queues. *)

\* What an element of a sequence is after the operations the queues undergo.
LEMMA QueueRanges ==
    ASSUME NEW S, NEW q \in Seq(S)
    PROVE  /\ Range(<<>>) = {}
           /\ Range(q) \subseteq S
           /\ \A x \in S : Range(Append(q, x)) = Range(q) \cup {x}
           /\ q # <<>> => /\ Head(q) \in S /\ Tail(q) \in Seq(S)
                          /\ Range(q) = {Head(q)} \cup Range(Tail(q))
<1>1. Range(<<>>) = {}
  BY DEF Range
<1>2. Range(q) \subseteq S
  BY DEF Range
<1>3. ASSUME NEW x \in S
      PROVE  Range(Append(q, x)) = Range(q) \cup {x}
  <2>1. /\ DOMAIN Append(q, x) = 1..(Len(q) + 1)
        /\ DOMAIN q = 1..Len(q)
        /\ \A i \in 1..Len(q) : Append(q, x)[i] = q[i]
        /\ Append(q, x)[Len(q) + 1] = x
    OBVIOUS
  <2>2. Range(Append(q, x)) \subseteq Range(q) \cup {x}
    BY <2>1 DEF Range
  <2>3. Range(q) \cup {x} \subseteq Range(Append(q, x))
    BY <2>1 DEF Range
  <2>. QED BY <2>2, <2>3
<1>4. ASSUME q # <<>>
      PROVE  /\ Head(q) \in S /\ Tail(q) \in Seq(S)
             /\ Range(q) = {Head(q)} \cup Range(Tail(q))
  <2>1. /\ Len(q) \in Nat \ {0}
        /\ DOMAIN q = 1..Len(q)
        /\ Tail(q) \in Seq(S) /\ DOMAIN Tail(q) = 1..(Len(q) - 1)
        /\ \A i \in 1..(Len(q) - 1) : Tail(q)[i] = q[i + 1]
        /\ Head(q) = q[1] /\ q[1] \in S
    BY <1>4
  <2>2. Range(q) \subseteq {Head(q)} \cup Range(Tail(q))
    <3>1. ASSUME NEW i \in 1..Len(q), i # 1
          PROVE  q[i] \in Range(Tail(q))
      <4>1. i - 1 \in 1..(Len(q) - 1) /\ Tail(q)[i - 1] = q[i]
        BY <2>1, <3>1
      <4>. QED BY <2>1, <4>1 DEF Range
    <3>. QED BY <2>1, <3>1 DEF Range
  <2>3. {Head(q)} \cup Range(Tail(q)) \subseteq Range(q)
    <3>1. \A i \in 1..(Len(q) - 1) : i + 1 \in 1..Len(q)
      BY <2>1
    <3>. QED BY <2>1, <3>1 DEF Range
  <2>. QED BY <2>1, <2>2, <2>3
<1>. QED BY <1>1, <1>2, <1>3, <1>4

USE DEF asyncVars, callVars, Notify, Start, Join, Emplace, Erase, Take

-----------------------------------------------------------------------------
(* Type correctness.                                                       *)

\* A PendingLoad built for a request is a PendingLoad.
LEMMA NewEntryType ==
    ASSUME NEW u \in Uuids, NEW a \in 0..MaxAssets, NEW need \in BOOLEAN,
           NEW r \in Nat
    PROVE  NewEntry(u, a, need, r) \in PendingLoad
BY DEF NewEntry, PendingLoad

\* The worker's verdict on the file keeps it one.
LEMMA IoOkType ==
    ASSUME NEW x \in PendingLoad, NEW ok \in BOOLEAN
    PROVE  [x EXCEPT !.ioOk = ok] \in PendingLoad
BY DEF PendingLoad

\* The asset every caller of a uuid gets is an asset or null.
LEMMA SharedType ==
    ASSUME TypeOK, NEW u \in Uuids, NEW a \in 0..MaxAssets
    PROVE  /\ Shared(u, a) \in 0..MaxAssets
           /\ a # 0 => Shared(u, a) # 0
           /\ Publish(u, a) => cache' \in [Uuids -> 0..MaxAssets]
BY DEF TypeOK, Shared, Publish

LEMMA TypeInit == Init => TypeOK
<1> SUFFICES ASSUME Init PROVE TypeOK
  OBVIOUS
<1> DEFINE unused == NewEntry(CHOOSE u \in Uuids : TRUE, 0, FALSE, 0)
<1>1. unused \in PendingLoad
  <2>1. (CHOOSE u \in Uuids : TRUE) \in Uuids /\ 0 \in 0..MaxAssets
    BY ConstantsAssumption
  <2>. QED BY <2>1, NewEntryType
<1>2. entry \in [Requests -> PendingLoad]
  <2>1. entry = [r \in Requests |-> unused]
    BY DEF Init
  <2> HIDE DEF unused
  <2>. QED BY <1>1, <2>1
<1> HIDE DEF unused
<1>3. /\ cache \in [Uuids -> 0..MaxAssets] /\ pending \in [Uuids -> 0..MaxRequests]
      /\ handed \in [Uuids -> SUBSET Assets]
      /\ result \in 0..MaxAssets /\ made \in 0..MaxAssets
      /\ issued \in 0..MaxRequests /\ job \in 0..MaxRequests
  BY ConstantsAssumption DEF Init
<1>4. /\ ioQueue \in Seq(Requests) /\ ioDone \in Seq(Requests)
      /\ loads \in Seq(Uuids) /\ done \in Seq(Requests)
  BY DEF Init
<1>. QED BY <1>2, <1>3, <1>4 DEF Init, TypeOK, WorkerPCs, OpPCs, Modes

LEMMA TypeLoadAsync ==
    ASSUME TypeOK, NEW u \in Uuids,
           LoadAsyncHit(u) \/ LoadAsyncRide(u) \/ LoadAsyncMiss(u)
    PROVE  TypeOK'
<1> USE ConstantsAssumption
<1>0. issued' = issued + 1 /\ issued < MaxRequests
  BY DEF LoadAsyncHit, LoadAsyncRide, LoadAsyncMiss
<1>1. /\ issued' \in Requests /\ issued' \in 0..MaxRequests /\ issued' \in Nat
      /\ entry \in [Requests -> PendingLoad] /\ cache[u] \in 0..MaxAssets
      /\ pending[u] \in 0..MaxRequests /\ 0 \in 0..MaxAssets
  BY <1>0 DEF TypeOK, Requests
<1>2. CASE LoadAsyncHit(u)
  <2>1. entry' \in [Requests -> PendingLoad]
    BY <1>1, <1>2, NewEntryType DEF LoadAsyncHit
  <2>2. ioDone' \in Seq(Requests)
    BY <1>1, <1>2 DEF LoadAsyncHit, TypeOK
  <2>. QED BY <1>1, <1>2, <2>1, <2>2
           DEF LoadAsyncHit, TypeOK, tables, workerVars, updateVars, history
<1>3. CASE LoadAsyncRide(u)
  <2>1. entry' \in [Requests -> PendingLoad]
    <3>1. pending[u] \in Requests
      BY <1>1, <1>3 DEF LoadAsyncRide, Requests
    <3>. QED BY <1>1, <1>3, <3>1 DEF LoadAsyncRide, PendingLoad
  <2>. QED BY <1>1, <1>3, <2>1
           DEF LoadAsyncRide, TypeOK, queues, tables, workerVars, updateVars, history
<1>4. CASE LoadAsyncMiss(u)
  <2>1. Loadable(u) \in BOOLEAN
    BY DEF Loadable
  <2>2. entry' \in [Requests -> PendingLoad]
    BY <1>1, <1>4, <2>1, NewEntryType DEF LoadAsyncMiss
  <2>. QED BY <1>1, <1>4, <2>2
           DEF LoadAsyncMiss, TypeOK, OpPCs, queues, tables, workerVars,
               updateVars, history
<1>. QED BY <1>2, <1>3, <1>4

LEMMA TypeApp == TypeOK /\ AppStep => TypeOK'
<1> SUFFICES ASSUME TypeOK, AppStep PROVE TypeOK'
  OBVIOUS
<1> USE ConstantsAssumption DEF TypeOK, Requests, Assets, queues, tables,
                                workerVars, updateVars, history
<1>1. ASSUME NEW u \in Uuids,
             LoadAsyncHit(u) \/ LoadAsyncRide(u) \/ LoadAsyncMiss(u)
      PROVE  TypeOK'
  BY <1>1, TypeLoadAsync
<1>2. ASSUME NEW u \in Uuids, LoadAssetHit(u) PROVE TypeOK'
  BY SMTT(30), <1>2 DEF LoadAssetHit
<1>3. ASSUME NEW u \in Uuids, LoadAssetMiss(u) PROVE TypeOK'
  BY SMTT(30), <1>3 DEF LoadAssetMiss
<1>4. ASSUME NEW u \in Uuids, Evict(u) PROVE TypeOK'
  BY SMTT(30), <1>4 DEF Evict
<1>5. CASE Shutdown
  BY <1>5 DEF Shutdown, OpPCs
<1>6. CASE ClearCache
  BY <1>6 DEF ClearCache
<1>7. CASE EvictUnused
  BY <1>7 DEF EvictUnused
<1>8. ASSUME NEW b \in BOOLEAN, SetCacheEnabled(b) PROVE TypeOK'
  BY <1>8 DEF SetCacheEnabled
<1>9. ASSUME NEW u \in Uuids, NEW p \in Paths, RegisterUuid(u, p) PROVE TypeOK'
  BY <1>9 DEF RegisterUuid
<1>10. ASSUME NEW p \in Paths, RegisterLoader(p) PROVE TypeOK'
  BY <1>10 DEF RegisterLoader
<1>. QED BY <1>1, <1>2, <1>3, <1>4, <1>5, <1>6, <1>7, <1>8, <1>9, <1>10
         DEF AppStep

LEMMA TypeLoaders == TypeOK /\ LoaderReturns => TypeOK'
<1> SUFFICES ASSUME TypeOK, LoaderReturns PROVE TypeOK'
  OBVIOUS
<1> USE ConstantsAssumption DEF Requests, Assets
<1>1. loads \in Seq(Uuids) /\ handed \in [Uuids -> SUBSET Assets]
      /\ cache \in [Uuids -> 0..MaxAssets]
  BY DEF TypeOK
<1>2. CASE LoadAssetFails
  BY <1>2, <1>1, QueueRanges
     DEF TypeOK, LoadAssetFails, queues, tables, workerVars, updateVars, history
<1>3. CASE LoadAssetReturns
  <2>1. Head(loads) \in Uuids /\ loads' \in Seq(Uuids)
    BY <1>1, <1>3, QueueRanges DEF LoadAssetReturns
  <2>2. made' \in 1..MaxAssets /\ made' \in 0..MaxAssets /\ made' # 0
    BY <1>3 DEF LoadAssetReturns, TypeOK
  <2>3. /\ Shared(Head(loads), made') \in Assets
        /\ cache' \in [Uuids -> 0..MaxAssets]
    <3>1. /\ Shared(Head(loads), made') \in 0..MaxAssets
          /\ Shared(Head(loads), made') # 0
          /\ Publish(Head(loads), made') => cache' \in [Uuids -> 0..MaxAssets]
      BY <2>1, <2>2, SharedType
    <3>. QED BY <1>3, <3>1 DEF LoadAssetReturns
  <2>4. handed' \in [Uuids -> SUBSET Assets]
    BY <1>1, <1>3, <2>1, <2>3 DEF LoadAssetReturns
  <2>. QED BY <1>3, <2>1, <2>2, <2>3, <2>4
           DEF TypeOK, LoadAssetReturns, queues, tables, workerVars, updateVars
<1>. QED BY <1>2, <1>3 DEF LoaderReturns

\* What shutdown() drops are requests.
LEMMA DroppedType == TypeOK /\ ShutdownClear => dropped' \subseteq Requests
<1> SUFFICES ASSUME TypeOK, ShutdownClear PROVE dropped' \subseteq Requests
  OBVIOUS
<1>1. /\ ioQueue \in Seq(Requests) /\ dropped \subseteq Requests
      /\ entry \in [Requests -> PendingLoad]
  BY DEF TypeOK
<1>2. Range(ioQueue) \subseteq Requests
  BY <1>1, QueueRanges
<1>3. \A e \in Range(ioQueue) : entry[e].callbacks \subseteq Requests
  BY <1>1, <1>2 DEF PendingLoad
<1>4. dropped' = dropped \cup Range(ioQueue)
                  \cup UNION {entry[e].callbacks : e \in Range(ioQueue)}
  BY DEF ShutdownClear
<1>. QED BY <1>1, <1>2, <1>3, <1>4

LEMMA TypeCalls == TypeOK /\ ControlOK /\ CallStep => TypeOK'
<1> SUFFICES ASSUME TypeOK, ControlOK, CallStep PROVE TypeOK'
  OBVIOUS
<1> USE ConstantsAssumption
    DEF TypeOK, Requests, queues, tables, workerVars, updateVars, history
<1>1. ASSUME SubmitLoad PROVE TypeOK'
  <2>1. issued \in Requests
    BY <1>1 DEF SubmitLoad, ControlOK
  <2>2. ioQueue' \in Seq(Requests)
    BY <1>1, <2>1 DEF SubmitLoad
  <2>3. pending' \in [Uuids -> 0..MaxRequests]
    BY <1>1, <2>1 DEF SubmitLoad, PendingLoad
  <2>. QED BY <1>1, <2>2, <2>3 DEF SubmitLoad, EnsureWorker, OpPCs, WorkerPCs
<1>2. ASSUME SubmitFailure PROVE TypeOK'
  <2>1. issued \in Requests
    BY <1>2 DEF SubmitFailure, ControlOK
  <2>. QED BY SMTT(30), <1>2, <2>1 DEF SubmitFailure, OpPCs
<1>3. ASSUME ShutdownNotify PROVE TypeOK'
  BY <1>3 DEF ShutdownNotify, OpPCs, WorkerPCs
<1>4. ASSUME ShutdownJoin PROVE TypeOK'
  BY <1>4 DEF ShutdownJoin, OpPCs, WorkerPCs
<1>5. ASSUME ShutdownClear PROVE TypeOK'
  <2>1. dropped' \subseteq Requests
    BY <1>5, DroppedType
  <2>2. /\ op' = "none" /\ ioQueue' = <<>>
        /\ UNCHANGED <<cache, pending, ioDone, entry, workerVars, tables, loads,
                       updateVars, issued, made, answered, handed>>
    BY <1>5 DEF ShutdownClear
  <2>. QED BY SMTT(30), <2>1, <2>2 DEF OpPCs
<1>. QED BY <1>1, <1>2, <1>3, <1>4, <1>5 DEF CallStep

LEMMA TypeUpdate == TypeOK /\ ControlOK /\ UpdateStep => TypeOK'
<1> SUFFICES ASSUME TypeOK, ControlOK, UpdateStep PROVE TypeOK'
  OBVIOUS
<1> USE DEF queues, tables, workerVars, updateVars, history, Modes
<1>1. CASE UpdateNothing
  BY <1>1 DEF UpdateNothing, TypeOK, vars
<1>2. CASE UpdateSwap
  BY <1>2 DEF UpdateSwap, TypeOK
<1>3. CASE UpdateReturn
  BY <1>3 DEF UpdateReturn, TypeOK
<1>4. CASE UpdateEntry
  <2>1. done \in Seq(Requests) /\ entry \in [Requests -> PendingLoad]
    BY DEF TypeOK
  <2>2. Head(done) \in Requests
    BY <1>4, <2>1, QueueRanges DEF UpdateEntry
  <2>3. entry[Head(done)] \in PendingLoad
    BY <2>1, <2>2
  <2>4. result' \in 0..MaxAssets
    BY <1>4, <2>3 DEF UpdateEntry, TypeOK, PendingLoad
  <2>5. entry' \in [Requests -> PendingLoad]
    BY <1>4, <2>1, <2>2, <2>3 DEF UpdateEntry, PendingLoad
  <2>6. mode' \in Modes
    BY <1>4 DEF UpdateEntry
  <2>. QED BY <1>4, <2>4, <2>5, <2>6 DEF UpdateEntry, TypeOK
<1>5. CASE UpdateLoaderFails
  BY <1>5, ConstantsAssumption DEF UpdateLoaderFails, TypeOK
<1>6. CASE UpdateLoaderReturns
  BY <1>6, ConstantsAssumption DEF UpdateLoaderReturns, TypeOK
<1>7. CASE UpdatePublish
  <2>1. done \in Seq(Requests) /\ entry \in [Requests -> PendingLoad]
        /\ result \in 0..MaxAssets
    BY DEF TypeOK
  <2>2. done # <<>>
    BY <1>7 DEF UpdatePublish, ControlOK
  <2>3. Head(done) \in Requests /\ entry[Head(done)] \in PendingLoad
    BY <2>1, <2>2, QueueRanges
  <2>4. entry[Head(done)].uuid \in Uuids
        /\ entry[Head(done)].callbacks \subseteq Requests
    BY <2>3 DEF PendingLoad
  <2>5. result' \in 0..MaxAssets /\ cache' \in [Uuids -> 0..MaxAssets]
    <3>1. /\ result' = Shared(entry[Head(done)].uuid, result)
          /\ Publish(entry[Head(done)].uuid, result)
      BY <1>7 DEF UpdatePublish
    <3>. QED BY <2>1, <2>4, <3>1, SharedType
  <2>6. pending' \in [Uuids -> 0..MaxRequests]
    BY <1>7, <2>4, ConstantsAssumption DEF UpdatePublish, TypeOK
  <2>7. entry' \in [Requests -> PendingLoad]
    BY <1>7, <2>1, <2>3 DEF UpdatePublish, PendingLoad
  <2>8. firing' \subseteq Requests
    BY <1>7, <2>4 DEF UpdatePublish
  <2>. QED BY <1>7, <2>5, <2>6, <2>7, <2>8 DEF UpdatePublish, TypeOK
<1>8. CASE UpdateFire
  <2>1. done \in Seq(Requests) /\ entry \in [Requests -> PendingLoad]
        /\ result \in 0..MaxAssets /\ handed \in [Uuids -> SUBSET Assets]
    BY DEF TypeOK
  <2>2. {result} \ {0} \subseteq Assets
    BY <2>1, ConstantsAssumption DEF Assets
  <2>3. handed' = [handed EXCEPT ![entry[Head(done)].uuid] = @ \cup ({result} \ {0})]
    BY <1>8 DEF UpdateFire
  <2>4. handed' \in [Uuids -> SUBSET Assets]
    BY <2>1, <2>2, <2>3
  <2>. QED BY <1>8, <2>4 DEF UpdateFire, TypeOK
<1>9. CASE CallbackReturns
  BY <1>9 DEF CallbackReturns, TypeOK
<1>10. CASE UpdateEntryDone
  <2>1. Tail(done) \in Seq(Requests)
    BY <1>10, QueueRanges DEF UpdateEntryDone, ControlOK, TypeOK
  <2>. QED BY <1>10, <2>1, ConstantsAssumption DEF UpdateEntryDone, TypeOK
<1>. QED BY <1>1, <1>2, <1>3, <1>4, <1>5, <1>6, <1>7, <1>8, <1>9, <1>10
         DEF UpdateStep

LEMMA TypeWorker == TypeOK /\ ControlOK /\ (WorkerStep \/ SpuriousWakeup) => TypeOK'
<1> SUFFICES ASSUME TypeOK, ControlOK, WorkerStep \/ SpuriousWakeup PROVE TypeOK'
  OBVIOUS
<1> USE DEF queues, tables, updateVars, history, WorkerPCs
<1>1. CASE WorkerQuits
  BY <1>1 DEF WorkerQuits, TypeOK
<1>2. CASE WorkerTakes
  <2>1. ioQueue \in Seq(Requests)
    BY DEF TypeOK
  <2>2. Head(ioQueue) \in Requests /\ Tail(ioQueue) \in Seq(Requests)
    BY <1>2, <2>1, QueueRanges DEF WorkerTakes
  <2>3. job' \in 0..MaxRequests
    BY <1>2, <2>2 DEF WorkerTakes, Requests
  <2>. QED BY <1>2, <2>2, <2>3 DEF WorkerTakes, TypeOK
<1>3. CASE WorkerWaits
  BY <1>3 DEF WorkerWaits, TypeOK
<1>4. CASE WorkerRead
  <2>1. job \in Requests /\ entry \in [Requests -> PendingLoad]
        /\ ioDone \in Seq(Requests)
    BY <1>4 DEF WorkerRead, TypeOK, ControlOK, Requests
  <2>2. ASSUME NEW ok \in BOOLEAN
        PROVE  [entry EXCEPT ![job].ioOk = ok] \in [Requests -> PendingLoad]
    <3>1. [entry[job] EXCEPT !.ioOk = ok] \in PendingLoad
      BY <2>1, IoOkType
    <3>. QED BY <2>1, <3>1
  <2>3. entry' \in [Requests -> PendingLoad]
    BY <1>4, <2>2, Zenon DEF WorkerRead
  <2>4. ioDone' \in Seq(Requests) /\ job' \in 0..MaxRequests
    BY <1>4, <2>1, ConstantsAssumption DEF WorkerRead
  <2>. QED BY <1>4, <2>3, <2>4 DEF WorkerRead, TypeOK
<1>5. CASE SpuriousWakeup
  BY <1>5 DEF SpuriousWakeup, TypeOK, workerVars
<1>. QED BY <1>1, <1>2, <1>3, <1>4, <1>5 DEF WorkerStep

LEMMA Control == TypeOK /\ ControlOK /\ WorkerOK /\ [Next]_vars => ControlOK'
<1> SUFFICES ASSUME TypeOK, ControlOK, WorkerOK, [Next]_vars PROVE ControlOK'
  OBVIOUS
<1> USE DEF ControlOK, vars, queues, tables, workerVars, updateVars, history
<1>1. CASE AppStep
  <2>1. issued \in 0..MaxRequests
    BY DEF TypeOK
  <2>2. ASSUME NEW u \in Uuids,
               LoadAsyncHit(u) \/ LoadAsyncRide(u) \/ LoadAsyncMiss(u)
        PROVE  ControlOK'
    <3>1. issued' = issued + 1 /\ UNCHANGED <<mode, done, firing, worker, job>>
      BY <2>2 DEF LoadAsyncHit, LoadAsyncRide, LoadAsyncMiss
    <3>2. issued' # 0
      BY <2>1, <3>1
    <3>. QED BY <3>1, <3>2
  <2>3. CASE UNCHANGED <<issued, op, mode, done, firing, worker, job>>
    BY <2>3
  <2>4. CASE Shutdown
    BY <2>4 DEF Shutdown
  <2>. QED BY <1>1, <2>2, <2>3, <2>4
       DEF AppStep, LoadAssetHit, LoadAssetMiss, Evict, ClearCache,
           EvictUnused, SetCacheEnabled, RegisterUuid, RegisterLoader
<1>2. CASE LoaderReturns
  BY <1>2 DEF LoaderReturns, LoadAssetFails, LoadAssetReturns
<1>3. CASE SubmitLoad \/ SubmitFailure
  BY <1>3 DEF SubmitLoad, SubmitFailure, EnsureWorker, WorkerOK
<1>4. CASE ShutdownNotify \/ ShutdownJoin \/ ShutdownClear
  BY <1>4 DEF ShutdownNotify, ShutdownJoin, ShutdownClear, WorkerOK
<1>5. CASE UpdateStep
  BY <1>5 DEF UpdateStep, UpdateNothing, UpdateSwap, UpdateReturn, UpdateEntry,
              UpdateLoaderFails, UpdateLoaderReturns, UpdatePublish, UpdateFire,
              CallbackReturns, UpdateEntryDone
<1>6. CASE WorkerQuits \/ WorkerWaits \/ WorkerRead \/ SpuriousWakeup
  BY <1>6 DEF WorkerQuits, WorkerWaits, WorkerRead, SpuriousWakeup
<1>7. CASE WorkerTakes
  <2>1. Head(ioQueue) \in Requests
    BY <1>7, QueueRanges DEF WorkerTakes, TypeOK
  <2>. QED BY <1>7, <2>1 DEF WorkerTakes, Requests
<1>8. CASE UNCHANGED vars
  BY <1>8
<1>. QED BY <1>1, <1>2, <1>3, <1>4, <1>5, <1>6, <1>7, <1>8
         DEF Next, CallStep, WorkerStep

LEMMA Worker == TypeOK /\ ControlOK /\ WorkerOK /\ [Next]_vars => WorkerOK'
<1> SUFFICES ASSUME TypeOK, ControlOK, WorkerOK, [Next]_vars PROVE WorkerOK'
  OBVIOUS
<1> USE DEF WorkerOK, vars, queues, tables, workerVars, updateVars, history
<1>1. CASE AppStep
  <2>1. CASE UNCHANGED <<op, ioQueue, workerVars>>
    BY <2>1
  <2>2. ASSUME NEW u \in Uuids, LoadAsyncMiss(u) PROVE WorkerOK'
    BY <2>2 DEF LoadAsyncMiss, AppRuns
  <2>3. CASE Shutdown
    BY <2>3 DEF Shutdown, AppRuns
  <2>. QED BY <1>1, <2>1, <2>2, <2>3
       DEF AppStep, LoadAsyncHit, LoadAsyncRide, LoadAssetHit, LoadAssetMiss,
           Evict, ClearCache, EvictUnused, SetCacheEnabled, RegisterUuid,
           RegisterLoader
<1>2. CASE LoaderReturns
  BY <1>2 DEF LoaderReturns, LoadAssetFails, LoadAssetReturns
<1>3. CASE SubmitLoad \/ SubmitFailure
  BY <1>3 DEF SubmitLoad, SubmitFailure, EnsureWorker, TypeOK, WorkerPCs
<1>4. CASE ShutdownNotify \/ ShutdownJoin
  BY <1>4 DEF ShutdownNotify, ShutdownJoin
<1>5. CASE ShutdownClear
  <2>1. op = "clear" /\ op' = "none" /\ ioQueue' = <<>> /\ UNCHANGED workerVars
    BY <1>5 DEF ShutdownClear
  <2>. QED BY <2>1
<1>6. CASE UpdateStep
  BY <1>6 DEF UpdateStep, UpdateNothing, UpdateSwap, UpdateReturn, UpdateEntry,
              UpdateLoaderFails, UpdateLoaderReturns, UpdatePublish, UpdateFire,
              CallbackReturns, UpdateEntryDone
<1>7. CASE WorkerQuits \/ WorkerWaits \/ SpuriousWakeup \/ WorkerTakes
  BY <1>7 DEF WorkerQuits, WorkerWaits, SpuriousWakeup, WorkerTakes
<1>8. CASE WorkerRead
  BY <1>8 DEF WorkerRead
<1>9. CASE UNCHANGED vars
  BY <1>9
<1>. QED BY <1>1, <1>2, <1>3, <1>4, <1>5, <1>6, <1>7, <1>8, <1>9
         DEF Next, CallStep, WorkerStep

\* The state keeps its types and each thread holds, at each point of its code,
\* what the code there relies on: a current entry, a job, an issued request.
THEOREM TypeCorrect == Spec => [](TypeOK /\ ControlOK /\ WorkerOK)
<1>1. Init => TypeOK /\ ControlOK /\ WorkerOK
  BY TypeInit DEF Init, ControlOK, WorkerOK
<1>2. TypeOK /\ ControlOK /\ WorkerOK /\ [Next]_vars
        => (TypeOK /\ ControlOK /\ WorkerOK)'
  <2> SUFFICES ASSUME TypeOK, ControlOK, WorkerOK, [Next]_vars PROVE TypeOK'
    BY Control, Worker
  <2>1. CASE UNCHANGED vars
    BY <2>1 DEF TypeOK, vars, queues, tables, workerVars, updateVars, history
  <2>. QED BY <2>1, TypeApp, TypeLoaders, TypeCalls, TypeUpdate, TypeWorker
           DEF Next
<1>. QED BY <1>1, <1>2, PTL DEF Spec

\* Queued work always has a worker awake to take it, so the condition
\* variable loses no wakeup and no quit flag outlives its shutdown().
THEOREM QueuedWorkHasWorkerAlways == Spec => []QueuedWorkHasWorker
<1>1. TypeOK /\ WorkerOK => QueuedWorkHasWorker
  BY DEF TypeOK, WorkerPCs, WorkerOK, QueuedWorkHasWorker
<1>. QED BY <1>1, TypeCorrect, PTL

\* ensureWorkerLocked() never replaces a thread that was not joined.
THEOREM NoThreadLeftAlways == Spec => []NoThreadLeft
<1>1. TypeOK /\ WorkerOK => NoThreadLeft
  BY DEF TypeOK, WorkerPCs, WorkerOK, NoThreadLeft
<1>. QED BY <1>1, TypeCorrect, PTL

-----------------------------------------------------------------------------
(* No callback is lost and none is called twice.                           *)

\* The queues' elements are requests.
LEMMA QueueTypes ==
    ASSUME TypeOK
    PROVE  /\ ioQueue \in Seq(Requests) /\ ioDone \in Seq(Requests)
           /\ done \in Seq(Requests)
           /\ Range(ioQueue) \subseteq Requests /\ Range(ioDone) \subseteq Requests
           /\ Range(done) \subseteq Requests
<1>1. /\ ioQueue \in Seq(Requests) /\ ioDone \in Seq(Requests)
      /\ done \in Seq(Requests)
  BY DEF TypeOK
<1>. QED BY <1>1, QueueRanges

Quiet == /\ UNCHANGED <<issued, answered, firing, pending>>
         /\ \A e \in Requests : /\ entry'[e].callbacks = entry[e].callbacks
                                /\ entry'[e].uuid = entry[e].uuid

\* A step that only moves entries along the pipeline keeps the ledger.
LEMMA MoveKeepsLedger ==
    ASSUME TypeOK, LedgerOK, NoLostCallback, CalledOnce, Quiet,
           Pipeline \cup dropped \subseteq (Pipeline \cup dropped)',
           Placed \subseteq Placed', Placed' \subseteq 1..issued
    PROVE  (LedgerOK /\ NoLostCallback /\ CalledOnce)'
<1>1. Placed \subseteq Requests /\ 1..issued \subseteq Requests
  <2>1. issued \in 0..MaxRequests
    BY DEF TypeOK
  <2>2. 1..issued \subseteq Requests
    BY <2>1, ConstantsAssumption DEF Requests
  <2>. QED BY <2>2 DEF LedgerOK
<1>2. LedgerOK'
  <2>1. ASSUME NEW u \in Uuids, pending'[u] # 0
        PROVE  /\ entry'[pending'[u]].uuid = u
               /\ pending'[u] \in (Pipeline \cup dropped)'
    <3>1. pending'[u] = pending[u] /\ pending[u] \in Requests
      BY <2>1 DEF Quiet, TypeOK, Requests
    <3>. QED BY <2>1, <3>1 DEF Quiet, LedgerOK
  <2>. QED BY <2>1 DEF LedgerOK, Quiet
<1>3. NoLostCallback'
  BY <1>1 DEF NoLostCallback, Quiet
<1>4. CalledOnce'
  BY DEF CalledOnce, Quiet
<1>. QED BY <1>2, <1>3, <1>4

LEMMA StillKeepsLedger ==
    ASSUME TypeOK, LedgerOK, NoLostCallback, CalledOnce, Quiet,
           ioQueue' = ioQueue, ioDone' = ioDone, job' = job, Undone' = Undone,
           Making' = Making, dropped' = dropped
    PROVE  (LedgerOK /\ NoLostCallback /\ CalledOnce)'
<1>1. Pipeline' = Pipeline /\ Placed' = Placed
  BY DEF Pipeline, Placed
<1>. QED BY <1>1, MoveKeepsLedger DEF LedgerOK

\* Steps of the application, the loaders and shutdown() other than the requests.
LEMMA LedgerApp ==
    ASSUME TypeOK, LedgerOK, NoLostCallback, CalledOnce,
           \/ \E u \in Uuids : LoadAssetHit(u) \/ LoadAssetMiss(u) \/ Evict(u)
           \/ Shutdown \/ ClearCache \/ EvictUnused
           \/ \E b \in BOOLEAN : SetCacheEnabled(b)
           \/ \E u \in Uuids, p \in Paths : RegisterUuid(u, p)
           \/ \E p \in Paths : RegisterLoader(p)
           \/ LoaderReturns \/ ShutdownNotify \/ ShutdownJoin
           \/ UNCHANGED vars
    PROVE  (LedgerOK /\ NoLostCallback /\ CalledOnce)'
<1>1. /\ UNCHANGED <<issued, answered, firing, queues, entry, job, done, mode,
                     dropped>>
      /\ op' = "submit" <=> op = "submit"
  <2> USE DEF vars, queues, tables, workerVars, updateVars, history
  <2>1. CASE \E u \in Uuids : LoadAssetHit(u) \/ LoadAssetMiss(u) \/ Evict(u)
    BY <2>1 DEF LoadAssetHit, LoadAssetMiss, Evict
  <2>2. CASE Shutdown \/ ClearCache \/ EvictUnused
    BY <2>2 DEF Shutdown, ClearCache, EvictUnused, AppRuns
  <2>3. CASE \E b \in BOOLEAN : SetCacheEnabled(b)
    BY <2>3 DEF SetCacheEnabled
  <2>4. CASE \E u \in Uuids, p \in Paths : RegisterUuid(u, p) \/ RegisterLoader(p)
    BY <2>4 DEF RegisterUuid, RegisterLoader
  <2>5. CASE LoaderReturns
    BY <2>5 DEF LoaderReturns, LoadAssetFails, LoadAssetReturns
  <2>6. CASE ShutdownNotify \/ ShutdownJoin
    BY <2>6 DEF ShutdownNotify, ShutdownJoin
  <2>7. CASE UNCHANGED vars
    BY <2>7
  <2>8. ASSUME NEW p \in Paths, RegisterLoader(p)
        PROVE  UNCHANGED <<issued, answered, firing, queues, entry, job, done,
                           mode, dropped, op>>
    BY <2>8 DEF RegisterLoader
  <2>. QED BY <2>1, <2>2, <2>3, <2>4, <2>5, <2>6, <2>7, <2>8
<1>2. Quiet /\ Undone' = Undone /\ Making' = Making
  BY <1>1 DEF Quiet, Undone, Making, queues
<1>. QED BY <1>1, <1>2, StillKeepsLedger DEF queues

\* shutdown() turns what it clears into dropped entries.
LEMMA LedgerClear ==
    ASSUME TypeOK, LedgerOK, NoLostCallback, CalledOnce, ShutdownClear
    PROVE  (LedgerOK /\ NoLostCallback /\ CalledOnce)'
<1>1. /\ UNCHANGED <<issued, answered, firing, pending, entry, job, ioDone,
                     mode, done>>
      /\ op = "clear" /\ op' = "none" /\ ioQueue' = <<>>
      /\ dropped' = dropped \cup Range(ioQueue)
                      \cup UNION {entry[e].callbacks : e \in Range(ioQueue)}
  BY DEF ShutdownClear, workerVars, updateVars
<1>2. Quiet /\ Undone' = Undone /\ Making' = Making
  BY <1>1 DEF Quiet, Undone, Making
<1>3. UNION {entry[e].callbacks : e \in Range(ioQueue)} \subseteq 1..issued
  <2>1. \A e \in Range(ioQueue) : entry[e].callbacks \subseteq 1..issued
    BY QueueTypes DEF LedgerOK
  <2>. QED BY <2>1
<1>4. /\ Pipeline \cup dropped \subseteq (Pipeline \cup dropped)'
      /\ Placed \subseteq Placed'
      /\ Placed' \subseteq Placed
            \cup UNION {entry[e].callbacks : e \in Range(ioQueue)}
  <2>1. Range(ioQueue') = {}
    BY <1>1, QueueTypes, QueueRanges
  <2>. QED BY <1>1, <1>2, <2>1 DEF Pipeline, Placed
<1>. QED BY <1>2, <1>3, <1>4, MoveKeepsLedger DEF LedgerOK

\* The worker moves an entry from _ioQueue to _ioDone.
LEMMA LedgerWorker ==
    ASSUME TypeOK, ControlOK, LedgerOK, NoLostCallback, CalledOnce,
           WorkerStep \/ SpuriousWakeup
    PROVE  (LedgerOK /\ NoLostCallback /\ CalledOnce)'
<1> USE DEF vars, queues, tables, workerVars, updateVars, history
<1>1. CASE WorkerQuits \/ WorkerWaits \/ SpuriousWakeup
  <2>1. UNCHANGED <<issued, answered, firing, queues, entry, job, done, mode,
                    dropped, op>>
    BY <1>1 DEF WorkerQuits, WorkerWaits, SpuriousWakeup
  <2>2. Quiet /\ Undone' = Undone /\ Making' = Making
    BY <2>1 DEF Quiet, Undone, Making
  <2>. QED BY <2>1, <2>2, StillKeepsLedger
<1>2. CASE WorkerTakes
  <2>1. /\ UNCHANGED <<issued, answered, firing, pending, ioDone, entry, done,
                       mode, dropped, op>>
        /\ job' = Head(ioQueue) /\ ioQueue' = Tail(ioQueue)
        /\ worker = "loop" /\ ioQueue # <<>>
    BY <1>2 DEF WorkerTakes
  <2>2. Quiet /\ Undone' = Undone /\ Making' = Making
    BY <2>1 DEF Quiet, Undone, Making
  <2>3. Range(ioQueue) = {job'} \cup Range(ioQueue') /\ job' \in Requests
    BY <2>1, QueueTypes, QueueRanges
  <2>4. job = 0 /\ job' # 0
    BY <2>1, <2>3 DEF ControlOK, Requests
  <2>5. Pipeline' = Pipeline
    BY <2>1, <2>2, <2>3, <2>4 DEF Pipeline
  <2>. QED BY <2>1, <2>2, <2>5, MoveKeepsLedger DEF Placed, LedgerOK
<1>3. CASE WorkerRead
  <2>1. /\ UNCHANGED <<issued, answered, firing, pending, ioQueue, done, mode,
                       dropped, op>>
        /\ job' = 0 /\ ioDone' = Append(ioDone, job)
        /\ worker = "read"
    BY <1>3 DEF WorkerRead
  <2>2. PICK ok \in BOOLEAN : entry' = [entry EXCEPT ![job].ioOk = ok]
    BY <1>3 DEF WorkerRead
  <2>3. \A e \in Requests : /\ entry'[e].callbacks = entry[e].callbacks
                            /\ entry'[e].uuid = entry[e].uuid
    BY <2>2 DEF TypeOK, PendingLoad
  <2>4. Quiet /\ Undone' = Undone /\ Making' = Making
    BY <2>1, <2>3 DEF Quiet, Undone, Making
  <2>5. job \in Requests /\ job # 0
    BY <2>1 DEF ControlOK, TypeOK, Requests
  <2>6. Range(ioDone') = Range(ioDone) \cup {job}
    BY <2>1, <2>5, QueueTypes, QueueRanges
  <2>7. Pipeline' = Pipeline
    BY <2>1, <2>4, <2>5, <2>6 DEF Pipeline
  <2>. QED BY <2>1, <2>4, <2>7, MoveKeepsLedger DEF Placed, LedgerOK
<1>. QED BY <1>1, <1>2, <1>3 DEF WorkerStep

\* update() takes the completed entries over and works through them.
LEMMA LedgerUpdateMoves ==
    ASSUME TypeOK, ControlOK, LedgerOK, NoLostCallback, CalledOnce,
           \/ UpdateSwap \/ UpdateReturn \/ UpdateEntry \/ UpdateLoaderFails
           \/ UpdateLoaderReturns \/ CallbackReturns \/ UpdateEntryDone
    PROVE  (LedgerOK /\ NoLostCallback /\ CalledOnce)'
<1> USE DEF vars, queues, tables, workerVars, updateVars, history
<1>1. CASE UpdateSwap
  <2>1. /\ UNCHANGED <<issued, answered, firing, pending, ioQueue, entry, job,
                       dropped, op>>
        /\ mode = "idle" /\ mode' = "entry" /\ done' = ioDone /\ ioDone' = <<>>
    BY <1>1 DEF UpdateSwap
  <2>2. done = <<>> /\ Range(ioDone') = {} /\ Range(done) = {}
    BY <2>1, QueueTypes, QueueRanges DEF ControlOK
  <2>3. Undone = {} /\ Undone' = Range(ioDone) /\ Making' = Making
    BY <2>1, <2>2 DEF Undone, Making
  <2>4. Pipeline' = Pipeline
    BY <2>1, <2>2, <2>3 DEF Pipeline
  <2>5. Quiet
    BY <2>1 DEF Quiet
  <2>. QED BY <2>1, <2>3, <2>4, <2>5, MoveKeepsLedger DEF Placed, LedgerOK
<1>2. CASE UpdateReturn \/ UpdateLoaderFails \/ UpdateLoaderReturns
           \/ CallbackReturns
  <2>1. /\ UNCHANGED <<issued, answered, firing, queues, entry, job, done,
                       dropped, op>>
        /\ mode' \in {"fire", "callback"} <=> mode \in {"fire", "callback"}
    BY <1>2 DEF UpdateReturn, UpdateLoaderFails, UpdateLoaderReturns,
                CallbackReturns
  <2>2. Quiet /\ Undone' = Undone /\ Making' = Making
    BY <2>1 DEF Quiet, Undone, Making
  <2>. QED BY <2>1, <2>2, StillKeepsLedger
<1>3. CASE UpdateEntry
  <2>1. /\ UNCHANGED <<issued, answered, firing, queues, job, done, dropped, op>>
        /\ mode = "entry" /\ mode' \in {"loader", "publish"}
    BY <1>3 DEF UpdateEntry
  <2>2. \A e \in Requests : /\ entry'[e].callbacks = entry[e].callbacks
                            /\ entry'[e].uuid = entry[e].uuid
    BY <1>3 DEF UpdateEntry, TypeOK, PendingLoad
  <2>3. Quiet /\ Undone' = Undone /\ Making' = Making
    BY <2>1, <2>2 DEF Quiet, Undone, Making
  <2>. QED BY <2>1, <2>3, StillKeepsLedger
<1>4. CASE UpdateEntryDone
  <2>1. /\ UNCHANGED <<issued, answered, firing, queues, entry, job, dropped, op>>
        /\ mode = "fire" /\ mode' = "entry" /\ done' = Tail(done)
    BY <1>4 DEF UpdateEntryDone
  <2>2. Quiet /\ Undone' = Undone /\ Making' = Making
    BY <2>1 DEF Quiet, Undone, Making
  <2>. QED BY <2>1, <2>2, StillKeepsLedger
<1>. QED BY <1>1, <1>2, <1>3, <1>4

\* Retiring an entry moves its callbacks to the batch and frees its uuid.
LEMMA LedgerPublish ==
    ASSUME TypeOK, ControlOK, LedgerOK, NoLostCallback, CalledOnce, UpdatePublish
    PROVE  (LedgerOK /\ NoLostCallback /\ CalledOnce)'
<1> DEFINE cur == Head(done)
<1>1. /\ UNCHANGED <<issued, answered, ioQueue, ioDone, job, done, dropped, op>>
      /\ mode = "publish" /\ mode' = "fire"
      /\ firing' = entry[cur].callbacks
      /\ entry' = [entry EXCEPT ![cur].callbacks = {}]
      /\ pending' = [pending EXCEPT ![entry[cur].uuid] = 0]
  BY DEF UpdatePublish, workerVars, history
<1>2. done # <<>> /\ firing = {}
  BY <1>1 DEF ControlOK
<1>3. cur \in Requests /\ Range(done) = {cur} \cup Range(Tail(done))
  BY <1>2, QueueTypes, QueueRanges
<1> HIDE DEF cur
<1>4. /\ entry'[cur].callbacks = {} /\ entry'[cur].uuid = entry[cur].uuid
      /\ \A e \in Requests : e # cur =>
            entry'[e].callbacks = entry[e].callbacks /\ entry'[e].uuid = entry[e].uuid
  BY <1>1, <1>3 DEF TypeOK, PendingLoad
<1>5. Making' = Making /\ Undone = {cur} \cup Undone'
  BY <1>1, <1>3 DEF Making, Undone
<1>6. Pipeline = {cur} \cup Pipeline' /\ Placed = {cur} \cup Placed'
  BY <1>1, <1>5 DEF Pipeline, Placed
<1>7. LedgerOK'
  <2>1. ASSUME NEW u \in Uuids, pending'[u] # 0
        PROVE  /\ entry'[pending'[u]].uuid = u
               /\ pending'[u] \in (Pipeline \cup dropped)'
    <3>1. pending'[u] = pending[u] /\ u # entry[cur].uuid
      BY <1>1, <2>1 DEF TypeOK
    <3>2. pending[u] \in Requests /\ entry[pending[u]].uuid = u
      BY <2>1, <3>1 DEF LedgerOK, TypeOK, Requests
    <3>3. pending[u] # cur /\ pending[u] \in Pipeline \cup dropped
      BY <2>1, <3>1, <3>2 DEF LedgerOK
    <3>. QED BY <1>1, <1>4, <1>6, <3>1, <3>2, <3>3
  <2>2. \A e \in Requests : entry'[e].callbacks \subseteq entry[e].callbacks
    BY <1>4
  <2>. QED BY <1>1, <1>3, <1>6, <2>1, <2>2 DEF LedgerOK
<1>8. NoLostCallback'
  <2>1. ASSUME NEW r \in 1..issued, r \notin (answered \cup firing)'
        PROVE  \E e \in Placed' : r \in entry'[e].callbacks
    <3>1. r \notin answered \cup firing /\ r \notin entry[cur].callbacks
      BY <1>1, <1>2, <2>1
    <3>2. PICK e \in Placed : r \in entry[e].callbacks
      BY <3>1 DEF NoLostCallback
    <3>3. e # cur /\ e \in Placed'
      BY <1>6, <3>1, <3>2
    <3>4. e \in Requests
      <4>1. issued \in 0..MaxRequests /\ e \in 1..issued
        BY DEF TypeOK, LedgerOK
      <4>. QED BY <4>1, ConstantsAssumption DEF Requests
    <3>. QED BY <1>4, <3>2, <3>3, <3>4
  <2>. QED BY <1>1, <2>1 DEF NoLostCallback
<1>9. CalledOnce'
  BY <1>1, <1>2, <1>3, <1>4 DEF CalledOnce
<1>. QED BY <1>7, <1>8, <1>9

\* Calling a callback takes it out of the batch.
LEMMA LedgerFire ==
    ASSUME TypeOK, ControlOK, LedgerOK, NoLostCallback, CalledOnce, UpdateFire
    PROVE  (LedgerOK /\ NoLostCallback /\ CalledOnce)'
<1>1. /\ UNCHANGED <<issued, queues, entry, job, done, dropped, op>>
      /\ mode = "fire" /\ mode' = "callback"
  BY DEF UpdateFire, workerVars
<1>2. PICK r \in firing : firing' = firing \ {r} /\ answered' = answered \cup {r}
  BY DEF UpdateFire
<1>3. Making' = Making /\ Undone' = Undone
  BY <1>1 DEF Making, Undone
<1>4. Pipeline' = Pipeline /\ Placed' = Placed
  BY <1>1, <1>3 DEF Pipeline, Placed, queues
<1>5. answered' \cup firing' = answered \cup firing
  BY <1>2
<1>6. LedgerOK'
  BY <1>1, <1>4, <1>5 DEF LedgerOK, queues
<1>7. NoLostCallback'
  BY <1>1, <1>4, <1>5 DEF NoLostCallback
<1>8. CalledOnce'
  BY <1>1, <1>2, <1>5 DEF CalledOnce
<1>. QED BY <1>6, <1>7, <1>8

\* A new request's callback goes to its own entry, or to one under way.
LEMMA LedgerRequest ==
    ASSUME TypeOK, ControlOK, LedgerOK, NoLostCallback, CalledOnce,
           NEW u \in Uuids,
           LoadAsyncHit(u) \/ LoadAsyncRide(u) \/ LoadAsyncMiss(u)
    PROVE  (LedgerOK /\ NoLostCallback /\ CalledOnce)'
<1> DEFINE r == issued + 1
<1>1. /\ UNCHANGED <<pending, ioQueue, job, done, mode, dropped, answered, firing>>
      /\ issued' = r /\ issued < MaxRequests /\ op # "submit"
      /\ ioDone' \in {ioDone, Append(ioDone, r)}
  BY DEF LoadAsyncHit, LoadAsyncRide, LoadAsyncMiss, AppRuns, queues, workerVars,
         updateVars, history
<1>2. r \in Requests /\ issued \in Nat /\ issued' = r
      /\ 1..r = (1..issued) \cup {r} /\ 1..issued \subseteq Requests
      /\ r \notin 1..issued
  <2>1. issued \in 0..MaxRequests
    BY DEF TypeOK
  <2>. QED BY <1>1, <2>1, ConstantsAssumption DEF Requests
<1>3. PICK h \in Requests :
         /\ h = r \/ (h = pending[u] /\ h \in Pipeline \cup dropped)
         /\ h = r => entry'[h].callbacks = {r}
         /\ h # r => entry'[h].callbacks = entry[h].callbacks \cup {r}
                     /\ entry'[h].uuid = entry[h].uuid
         /\ h \in Placed'
         /\ \A e \in Requests : e # h => entry'[e] = entry[e]
  <2>1. CASE LoadAsyncHit(u)
    <3>1. entry' = [entry EXCEPT ![r] = NewEntry(u, cache[u], FALSE, r)]
          /\ ioDone' = Append(ioDone, r)
      BY <2>1, <1>2 DEF LoadAsyncHit
    <3>2. r \in Range(ioDone')
      BY <1>2, <3>1, QueueTypes, QueueRanges
    <3>3. r \in Placed'
      BY <3>2 DEF Placed, Pipeline
    <3>4. entry'[r] = NewEntry(u, cache[u], FALSE, r)
      BY <3>1, <1>2 DEF TypeOK
    <3>5. entry'[r].callbacks = {r}
      BY <3>4, <1>2 DEF NewEntry
    <3>. QED BY <1>2, <3>1, <3>3, <3>5 DEF TypeOK
  <2>2. CASE LoadAsyncRide(u)
    <3>1. pending[u] \in Requests /\ pending[u] \in Pipeline \cup dropped
      BY <2>2 DEF LoadAsyncRide, LedgerOK, TypeOK, Requests
    <3>2. pending[u] # r
      BY <1>2, <3>1 DEF LedgerOK, Placed
    <3>3. /\ entry' = [entry EXCEPT ![pending[u]].callbacks = @ \cup {r}]
          /\ UNCHANGED <<queues, mode, done, job, dropped>>
      BY <2>2, <1>2 DEF LoadAsyncRide, workerVars, updateVars, history
    <3>4. pending[u] \in Placed'
      BY <3>1, <3>3 DEF Placed, Pipeline, Undone, queues
    <3>5. /\ entry'[pending[u]].callbacks = entry[pending[u]].callbacks \cup {r}
          /\ entry'[pending[u]].uuid = entry[pending[u]].uuid
          /\ \A e \in Requests : e # pending[u] => entry'[e] = entry[e]
      BY <3>1, <3>3 DEF TypeOK, PendingLoad
    <3>. QED BY <3>1, <3>2, <3>4, <3>5
  <2>3. CASE LoadAsyncMiss(u)
    <3>1. /\ entry' = [entry EXCEPT ![r] = NewEntry(u, 0, Loadable(u), r)]
          /\ op' = "submit"
      BY <2>3, <1>2 DEF LoadAsyncMiss
    <3>2. r \in Placed'
      BY <1>2, <3>1 DEF Placed, Making
    <3>3. entry'[r] = NewEntry(u, 0, Loadable(u), r)
      BY <3>1, <1>2 DEF TypeOK
    <3>4. entry'[r].callbacks = {r}
      BY <3>3, <1>2 DEF NewEntry
    <3>. QED BY <1>2, <3>1, <3>2, <3>4 DEF TypeOK
  <2>. QED BY <2>1, <2>2, <2>3
<1>4. /\ Making = {} /\ Making' \subseteq {r} /\ Undone' = Undone
      /\ Range(ioDone) \subseteq Range(ioDone')
      /\ Range(ioDone') \subseteq Range(ioDone) \cup {r}
  <2>1. Range(Append(ioDone, r)) = Range(ioDone) \cup {r}
    BY <1>2, QueueTypes, QueueRanges
  <2>2. Making = {} /\ Making' \subseteq {r} /\ Undone' = Undone
    BY <1>1 DEF Making, Undone
  <2>. QED BY <1>1, <2>1, <2>2
<1>5. /\ Pipeline \cup dropped \subseteq (Pipeline \cup dropped)'
      /\ Placed \subseteq Placed' /\ Placed' \subseteq Placed \cup {r}
  BY <1>1, <1>4 DEF Placed, Pipeline
<1> HIDE DEF r
<1>6. \A e \in Requests :
         /\ e # h => entry'[e].callbacks = entry[e].callbacks
         /\ entry'[e].callbacks \subseteq entry[e].callbacks \cup {r}
         /\ r \in entry'[e].callbacks => e = h
  BY <1>2, <1>3 DEF LedgerOK
<1>7. LedgerOK'
  <2>1. ASSUME NEW v \in Uuids, pending'[v] # 0
        PROVE  /\ entry'[pending'[v]].uuid = v
               /\ pending'[v] \in (Pipeline \cup dropped)'
    <3>1. /\ pending'[v] = pending[v] /\ pending[v] \in Requests
          /\ entry[pending[v]].uuid = v /\ pending[v] \in Pipeline \cup dropped
      BY <1>1, <2>1 DEF LedgerOK, TypeOK, Requests
    <3>2. pending[v] # r
      BY <1>2, <3>1 DEF LedgerOK, Placed
    <3>. QED BY <1>3, <1>5, <3>1, <3>2
  <2>2. answered' \cup firing' \subseteq 1..issued'
    BY <1>1, <1>2 DEF LedgerOK
  <2>3. Placed' \subseteq 1..issued'
    BY <1>2, <1>5 DEF LedgerOK
  <2>4. \A e \in Requests : entry'[e].callbacks \subseteq 1..issued'
    BY <1>2, <1>6 DEF LedgerOK
  <2>. QED BY <2>1, <2>2, <2>3, <2>4 DEF LedgerOK
<1>8. NoLostCallback'
  <2>1. ASSUME NEW s \in 1..issued, s \notin answered \cup firing
        PROVE  \E e \in Placed' : s \in entry'[e].callbacks
    <3>1. PICK e \in Placed : s \in entry[e].callbacks
      BY <2>1 DEF NoLostCallback
    <3>2. e \in Requests /\ e \in Placed' /\ e # r
      BY <1>2, <1>5, <3>1 DEF LedgerOK
    <3>3. s \in entry'[e].callbacks
      BY <1>3, <3>1, <3>2
    <3>. QED BY <3>2, <3>3
  <2>2. h \in Placed' /\ r \in entry'[h].callbacks
    BY <1>3
  <2>. QED BY <1>1, <1>2, <2>1, <2>2 DEF NoLostCallback
<1>9. CalledOnce'
  <2>1. r \notin answered \cup firing
        /\ \A e \in Requests : r \notin entry[e].callbacks
    BY <1>2 DEF LedgerOK
  <2>2. \A e \in Requests : entry'[e].callbacks \cap (answered \cup firing) = {}
    BY <1>6, <2>1 DEF CalledOnce
  <2>3. ASSUME NEW e \in Requests, NEW f \in Requests, e # f,
               NEW s \in entry'[e].callbacks \cap entry'[f].callbacks
        PROVE  FALSE
    <3>1. CASE s = r
      BY <1>6, <2>3, <3>1
    <3>2. CASE s # r
      BY <1>6, <2>3, <3>2 DEF CalledOnce
    <3>. QED BY <3>1, <3>2
  <2>. QED BY <1>1, <2>2, <2>3 DEF CalledOnce
<1>. QED BY <1>7, <1>8, <1>9

\* The entry loadAsync() made goes to the worker or straight to _ioDone.
LEMMA LedgerSubmit ==
    ASSUME TypeOK, ControlOK, LedgerOK, NoLostCallback, CalledOnce,
           SubmitLoad \/ SubmitFailure
    PROVE  (LedgerOK /\ NoLostCallback /\ CalledOnce)'
<1>1. issued \in Requests /\ op = "submit" /\ op' = "none"
  BY DEF SubmitLoad, SubmitFailure, ControlOK, TypeOK, Requests
<1>2. /\ UNCHANGED <<issued, answered, firing, entry, job, done, mode, dropped>>
      /\ \/ ioQueue' = Append(ioQueue, issued) /\ ioDone' = ioDone
         \/ ioQueue' = ioQueue /\ ioDone' = Append(ioDone, issued)
  BY DEF SubmitLoad, SubmitFailure, workerVars, updateVars, history
<1>3. Range(ioQueue') \cup Range(ioDone')
        = Range(ioQueue) \cup Range(ioDone) \cup {issued}
  <2>1. /\ Range(Append(ioQueue, issued)) = Range(ioQueue) \cup {issued}
        /\ Range(Append(ioDone, issued)) = Range(ioDone) \cup {issued}
    BY <1>1, QueueTypes, QueueRanges
  <2>. QED BY <1>2, <2>1
<1>4. Making = {issued} /\ Making' = {} /\ Undone' = Undone
  BY <1>1, <1>2 DEF Making, Undone
<1>5. /\ Pipeline' = Pipeline \cup {issued} /\ Placed' = Placed
      /\ Pipeline \cup dropped \subseteq (Pipeline \cup dropped)'
  BY <1>2, <1>3, <1>4 DEF Pipeline, Placed
<1>6. CASE SubmitFailure
  <2>1. Quiet
    BY <1>2, <1>6 DEF Quiet, SubmitFailure
  <2>. QED BY <1>5, <2>1, MoveKeepsLedger DEF LedgerOK
<1>7. CASE SubmitLoad
  <2>1. pending' = [pending EXCEPT ![entry[issued].uuid] =
                       IF @ = 0 THEN issued ELSE @]
    BY <1>7 DEF SubmitLoad
  <2>2. ASSUME NEW v \in Uuids, pending'[v] # 0
        PROVE  entry[pending'[v]].uuid = v /\ pending'[v] \in (Pipeline \cup dropped)'
    <3>1. CASE pending'[v] = pending[v]
      BY <1>5, <2>2, <3>1 DEF LedgerOK
    <3>2. CASE pending'[v] # pending[v]
      <4>1. pending'[v] = issued /\ v = entry[issued].uuid
        BY <2>1, <3>2 DEF TypeOK
      <4>. QED BY <1>5, <4>1
    <3>. QED BY <3>1, <3>2
  <2>3. LedgerOK'
    BY <1>2, <1>5, <2>2 DEF LedgerOK
  <2>4. NoLostCallback' /\ CalledOnce'
    BY <1>2, <1>5 DEF NoLostCallback, CalledOnce
  <2>. QED BY <2>3, <2>4
<1>. QED BY <1>6, <1>7

LEMMA LedgerAlways == Spec => [](IInv /\ NoLostCallback /\ CalledOnce)
<1> DEFINE Kept == LedgerOK /\ NoLostCallback /\ CalledOnce
<1>1. Init => Kept
  <2> SUFFICES ASSUME Init PROVE Kept
    OBVIOUS
  <2>1. \A e \in Requests : entry[e].callbacks = {}
    BY DEF Init, NewEntry, Requests
  <2>2. /\ Range(ioQueue) = {} /\ Range(ioDone) = {} /\ Undone = {}
        /\ job = 0 /\ dropped = {} /\ Making = {}
    BY DEF Init, Range, Undone, Making
  <2>3. Placed = {}
    BY <2>2 DEF Placed, Pipeline
  <2>4. issued = 0 /\ answered = {} /\ firing = {} /\ \A u \in Uuids : pending[u] = 0
    BY DEF Init
  <2>. QED BY <2>1, <2>3, <2>4 DEF LedgerOK, NoLostCallback, CalledOnce
<1>2. TypeOK /\ ControlOK /\ WorkerOK /\ Kept /\ [Next]_vars => Kept'
  <2> SUFFICES ASSUME TypeOK, ControlOK, LedgerOK, NoLostCallback, CalledOnce,
                      [Next]_vars
               PROVE  Kept'
    OBVIOUS
  <2>1. CASE AppStep
    BY <2>1, LedgerApp, LedgerRequest DEF AppStep
  <2>2. CASE LoaderReturns
    BY <2>2, LedgerApp
  <2>3. CASE CallStep
    BY <2>3, LedgerApp, LedgerSubmit, LedgerClear DEF CallStep
  <2>4. CASE UpdateStep
    BY <2>4, LedgerApp, LedgerUpdateMoves, LedgerPublish, LedgerFire
       DEF UpdateStep, UpdateNothing
  <2>5. CASE WorkerStep \/ SpuriousWakeup
    BY <2>5, LedgerWorker
  <2>6. CASE UNCHANGED vars
    BY <2>6, LedgerApp
  <2>. QED BY <2>1, <2>2, <2>3, <2>4, <2>5, <2>6 DEF Next
<1>3. Spec => []Kept
  BY <1>1, <1>2, TypeCorrect, PTL DEF Spec
<1>4. TypeOK /\ ControlOK /\ WorkerOK /\ Kept => IInv /\ NoLostCallback /\ CalledOnce
  BY DEF IInv
<1>. QED BY <1>3, <1>4, TypeCorrect, PTL

\* Whatever the application does between the steps of the two threads, the only
\* callbacks of loadAsync() that are lost are those in entries which a shutdown()
\* took out of _ioQueue.  They may be of later requests: shutdown() leaves the
\* entries in _pending (AssetManager.cpp:334), where loadAsync() rides on them.
THEOREM CallbacksKept == Spec => []NoLostCallback
BY LedgerAlways, PTL

\* While the application does not call shutdown() no callback is lost: each one is
\* called, about to be, or in an entry that update() will retire.
THEOREM CallbacksUnderWay ==
    ASSUME "shutdown" \notin Ops
    PROVE  Spec => []EveryCallbackUnderWay
<1> DEFINE Never == dropped = {} /\ op \notin {"notify", "join", "clear"}
<1>1. Init => Never
  BY DEF Init
<1>2. Never /\ [Next]_vars => Never'
  <2> SUFFICES ASSUME Never, [Next]_vars PROVE Never'
    OBVIOUS
  <2> USE DEF callVars, asyncVars, history, updateVars, queues, tables, workerVars
  <2>1. CASE AppStep
    BY <2>1 DEF AppStep, LoadAsyncHit, LoadAsyncRide, LoadAsyncMiss, LoadAssetHit, LoadAssetMiss,
                Evict, Shutdown, ClearCache, EvictUnused, SetCacheEnabled, RegisterUuid, RegisterLoader
  <2>2. CASE LoaderReturns
    BY <2>2 DEF LoaderReturns, LoadAssetFails, LoadAssetReturns
  <2>3. CASE CallStep
    BY <2>3 DEF CallStep, SubmitLoad, SubmitFailure, ShutdownNotify, ShutdownJoin, ShutdownClear
  <2>4. CASE UpdateStep
    BY <2>4 DEF UpdateStep, UpdateNothing, UpdateSwap, UpdateReturn, UpdateEntry, UpdateLoaderFails,
                UpdateLoaderReturns, UpdatePublish, UpdateFire, CallbackReturns, UpdateEntryDone, vars
  <2>5. CASE WorkerStep \/ SpuriousWakeup
    BY <2>5 DEF WorkerStep, WorkerQuits, WorkerTakes, WorkerWaits, WorkerRead, SpuriousWakeup
  <2>6. CASE UNCHANGED vars
    BY <2>6 DEF vars
  <2>. QED BY <2>1, <2>2, <2>3, <2>4, <2>5, <2>6 DEF Next
<1>3. NoLostCallback /\ Never => EveryCallbackUnderWay
  BY DEF NoLostCallback, EveryCallbackUnderWay, Placed
<1>. QED BY <1>1, <1>2, <1>3, CallbacksKept, PTL DEF Spec

\* No callback is called twice, whatever records its request rode on and
\* whatever the callbacks that update() calls do to them.
THEOREM CalledOnceAlways == Spec => []CalledOnce
BY LedgerAlways, PTL

-----------------------------------------------------------------------------
(* An entry is in one place.                                               *)

\* Appending a new element to a sequence without repetitions, and taking its
\* first, leaves one without repetitions.
LEMMA InjectiveQueues ==
    ASSUME NEW S, NEW q \in Seq(S), IsInjective(q)
    PROVE  /\ \A x \in S : x \notin Range(q) => IsInjective(Append(q, x))
           /\ q # <<>> => IsInjective(Tail(q)) /\ Head(q) \notin Range(Tail(q))
<1>1. ASSUME NEW x \in S, x \notin Range(q) PROVE IsInjective(Append(q, x))
  <2>1. /\ DOMAIN Append(q, x) = 1..(Len(q) + 1) /\ DOMAIN q = 1..Len(q) /\ Len(q) \in Nat
        /\ \A i \in 1..Len(q) : Append(q, x)[i] = q[i]
        /\ Append(q, x)[Len(q) + 1] = x
    OBVIOUS
  <2>2. \A i \in 1..Len(q) : q[i] # x
    BY <1>1, <2>1 DEF Range
  <2>. QED BY <2>1, <2>2 DEF IsInjective
<1>2. ASSUME q # <<>> PROVE IsInjective(Tail(q)) /\ Head(q) \notin Range(Tail(q))
  <2>1. /\ Len(q) \in Nat \ {0} /\ DOMAIN q = 1..Len(q)
        /\ DOMAIN Tail(q) = 1..(Len(q) - 1)
        /\ \A i \in 1..(Len(q) - 1) : Tail(q)[i] = q[i + 1]
        /\ Head(q) = q[1]
    BY <1>2
  <2>2. \A i, j \in 1..Len(q) : q[i] = q[j] => i = j
    BY <2>1 DEF IsInjective
  <2>3. IsInjective(Tail(q))
    <3> SUFFICES ASSUME NEW i \in 1..(Len(q) - 1), NEW j \in 1..(Len(q) - 1),
                        Tail(q)[i] = Tail(q)[j]
                 PROVE  i = j
      BY <2>1 DEF IsInjective
    <3>1. i + 1 \in 1..Len(q) /\ j + 1 \in 1..Len(q) /\ q[i + 1] = q[j + 1]
      BY <2>1
    <3>2. i + 1 = j + 1
      BY <2>2, <3>1
    <3>. QED BY <3>2
  <2>4. Head(q) \notin Range(Tail(q))
    <3> SUFFICES ASSUME NEW i \in 1..(Len(q) - 1), Tail(q)[i] = q[1] PROVE FALSE
      BY <2>1 DEF Range
    <3>1. i + 1 \in 1..Len(q) /\ 1 \in 1..Len(q) /\ q[i + 1] = q[1]
      BY <2>1
    <3>2. i + 1 = 1
      BY <2>2, <3>1
    <3>. QED BY <3>2
  <2>. QED BY <2>3, <2>4
<1>. QED BY <1>1, <1>2

\* An entry is in one of the queues, with the worker, or being made, and there
\* once.
PlacedOnce ==
    /\ IsInjective(ioQueue) /\ IsInjective(ioDone) /\ IsInjective(done)
    /\ Range(ioQueue) \cap Range(ioDone) = {}
    /\ Range(ioQueue) \cap Range(done) = {}
    /\ Range(ioDone) \cap Range(done) = {}
    /\ job \notin Range(ioQueue) \cup Range(ioDone) \cup Range(done)
    /\ Range(done) \subseteq 1..issued
    /\ Making \cap (Range(ioQueue) \cup {job} \cup Range(ioDone) \cup Range(done)) = {}

\* A number that was not issued yet is nowhere.
LEMMA NewIsNowhere ==
    ASSUME IInv, PlacedOnce, issued < MaxRequests
    PROVE  /\ issued \in Nat /\ issued + 1 \in Requests /\ 1..issued \subseteq 1..(issued + 1)
           /\ issued + 1 \notin Range(ioQueue) \cup {job} \cup Range(ioDone) \cup Range(done)
           /\ issued + 1 \notin Pipeline \cup Making
<1>1. issued \in Nat /\ issued + 1 \in Requests /\ 1..issued \subseteq 1..(issued + 1)
  BY ConstantsAssumption DEF IInv, TypeOK, Requests
<1>2. issued + 1 \notin 1..issued /\ issued + 1 # 0 /\ job \in Nat
  BY <1>1, ConstantsAssumption DEF IInv, TypeOK
<1>3. Placed \subseteq 1..issued /\ Range(done) \subseteq 1..issued
  BY DEF IInv, LedgerOK, PlacedOnce
<1>. QED BY <1>1, <1>2, <1>3 DEF Placed, Pipeline, Making

LEMMA StillPlaced ==
    ASSUME PlacedOnce, UNCHANGED <<ioQueue, ioDone, done, job>>,
           1..issued \subseteq (1..issued)', Making' \subseteq Making
    PROVE  PlacedOnce'
BY DEF PlacedOnce

\* A request comes.
LEMMA PlacedRequest ==
    ASSUME IInv, PlacedOnce,
           NEW u \in Uuids, LoadAsyncHit(u) \/ LoadAsyncRide(u) \/ LoadAsyncMiss(u)
    PROVE  PlacedOnce'
<1> DEFINE r == issued + 1
<1>1. issued < MaxRequests /\ op = "none" /\ issued' = r
  BY DEF LoadAsyncHit, LoadAsyncRide, LoadAsyncMiss, AppRuns
<1>2. /\ r \in Requests /\ 1..issued \subseteq 1..r
      /\ r \notin Range(ioQueue) \cup {job} \cup Range(ioDone) \cup Range(done)
  BY <1>1, NewIsNowhere
<1>3. ioDone \in Seq(Requests) /\ Making = {}
  BY <1>1 DEF IInv, TypeOK, Making
<1> HIDE DEF r
<1>4. CASE LoadAsyncHit(u)
  <2>1. UNCHANGED <<ioQueue, done, job, op>> /\ ioDone' = Append(ioDone, r)
    BY <1>1, <1>4 DEF LoadAsyncHit, workerVars, callVars, updateVars
  <2>2. Range(ioDone') = Range(ioDone) \cup {r} /\ IsInjective(ioDone')
    BY <1>2, <1>3, <2>1, QueueRanges, InjectiveQueues DEF PlacedOnce
  <2>3. Making' = {}
    BY <1>1, <2>1 DEF Making
  <2>. QED BY <1>1, <1>2, <2>1, <2>2, <2>3 DEF PlacedOnce
<1>5. CASE LoadAsyncRide(u)
  <2>1. UNCHANGED <<ioQueue, ioDone, done, job, op>>
    BY <1>5 DEF LoadAsyncRide, workerVars, callVars, updateVars, queues
  <2>2. Making' = {}
    BY <1>1, <2>1 DEF Making
  <2>. QED BY <1>1, <1>2, <2>1, <2>2, StillPlaced
<1>6. CASE LoadAsyncMiss(u)
  <2>1. UNCHANGED <<ioQueue, ioDone, done, job>> /\ op' = "submit"
    BY <1>6 DEF LoadAsyncMiss, workerVars, updateVars, queues
  <2>2. Making' = {r}
    BY <1>1, <2>1 DEF Making
  <2>. QED BY <1>1, <1>2, <2>1, <2>2 DEF PlacedOnce
<1>. QED BY <1>4, <1>5, <1>6

\* The entry being made goes into a queue, and the worker moves entries on.
LEMMA PlacedQueues ==
    ASSUME IInv, PlacedOnce, SubmitLoad \/ SubmitFailure \/ WorkerTakes \/ WorkerRead
    PROVE  PlacedOnce'
<1>1. /\ ioQueue \in Seq(Requests) /\ ioDone \in Seq(Requests) /\ job \in 0..MaxRequests
      /\ issued \in 0..MaxRequests
  BY DEF IInv, TypeOK
<1>2. CASE SubmitLoad \/ SubmitFailure
  <2>1. UNCHANGED <<done, job, issued>> /\ op = "submit" /\ op' = "none"
    BY <1>2 DEF SubmitLoad, SubmitFailure, workerVars, updateVars
  <2>2. Making = {issued} /\ Making' = {} /\ issued \in Requests
    BY <1>1, <2>1, ConstantsAssumption DEF Making, IInv, ControlOK, Requests
  <2>3. issued \notin Range(ioQueue) \cup {job} \cup Range(ioDone) \cup Range(done)
    BY <2>2 DEF PlacedOnce
  <2>4. CASE SubmitLoad
    <3>1. ioQueue' = Append(ioQueue, issued) /\ ioDone' = ioDone
      BY <2>4 DEF SubmitLoad
    <3>2. Range(ioQueue') = Range(ioQueue) \cup {issued} /\ IsInjective(ioQueue')
      BY <1>1, <2>2, <2>3, <3>1, QueueRanges, InjectiveQueues DEF PlacedOnce
    <3>. QED BY <2>1, <2>2, <2>3, <3>1, <3>2 DEF PlacedOnce
  <2>5. CASE SubmitFailure
    <3>1. ioDone' = Append(ioDone, issued) /\ ioQueue' = ioQueue
      BY <2>5 DEF SubmitFailure
    <3>2. Range(ioDone') = Range(ioDone) \cup {issued} /\ IsInjective(ioDone')
      BY <1>1, <2>2, <2>3, <3>1, QueueRanges, InjectiveQueues DEF PlacedOnce
    <3>. QED BY <2>1, <2>2, <2>3, <3>1, <3>2 DEF PlacedOnce
  <2>. QED BY <1>2, <2>4, <2>5
<1>3. CASE WorkerTakes
  <2>1. /\ UNCHANGED <<ioDone, done, issued, op>> /\ ioQueue # <<>>
        /\ job' = Head(ioQueue) /\ ioQueue' = Tail(ioQueue)
    BY <1>3 DEF WorkerTakes, callVars, updateVars
  <2>2. Range(ioQueue) = {job'} \cup Range(ioQueue') /\ IsInjective(ioQueue')
        /\ job' \notin Range(ioQueue')
    BY <1>1, <2>1, QueueRanges, InjectiveQueues DEF PlacedOnce
  <2>3. Making' = Making
    BY <2>1 DEF Making
  <2>. QED BY <2>1, <2>2, <2>3 DEF PlacedOnce
<1>4. CASE WorkerRead
  <2>1. /\ UNCHANGED <<ioQueue, done, issued, op>> /\ worker = "read"
        /\ job' = 0 /\ ioDone' = Append(ioDone, job)
    BY <1>4 DEF WorkerRead, callVars, updateVars
  <2>2. job \in Requests
    BY <1>1, <2>1 DEF IInv, ControlOK, Requests
  <2>3. Range(ioDone') = Range(ioDone) \cup {job} /\ IsInjective(ioDone')
    BY <1>1, <2>1, <2>2, QueueRanges, InjectiveQueues DEF PlacedOnce
  <2>4. Making' = Making /\ 0 \notin Making
    BY <1>1, <2>1 DEF Making, IInv, ControlOK
  <2>5. 0 \notin Range(ioQueue) \cup Range(ioDone) \cup Range(done)
    BY QueueTypes DEF Requests, IInv
  <2>6. job \notin Range(ioQueue) \cup Range(done) \cup Making
    BY DEF PlacedOnce
  <2>7. /\ IsInjective(ioQueue') /\ IsInjective(done') /\ Range(done') \subseteq 1..issued'
        /\ Range(ioQueue') \cap Range(ioDone') = {} /\ Range(ioQueue') \cap Range(done') = {}
        /\ Range(ioDone') \cap Range(done') = {}
    BY <2>1, <2>3, <2>6 DEF PlacedOnce
  <2>8. Making' \cap (Range(ioQueue') \cup {job'} \cup Range(ioDone') \cup Range(done')) = {}
    BY <2>1, <2>3, <2>4, <2>6 DEF PlacedOnce
  <2>9. job' \notin Range(ioQueue') \cup Range(ioDone') \cup Range(done')
    BY <2>1, <2>2, <2>3, <2>5 DEF Requests
  <2>. QED BY <2>3, <2>7, <2>8, <2>9 DEF PlacedOnce
<1>. QED BY <1>2, <1>3, <1>4

\* update() takes the completed entries over and retires them one by one, and
\* shutdown() clears the queue.
LEMMA PlacedUpdate ==
    ASSUME IInv, PlacedOnce, UpdateSwap \/ UpdateEntryDone \/ ShutdownClear
    PROVE  PlacedOnce'
<1>0. done \in Seq(Requests) /\ IsInjective(<<>>) /\ Range(<<>>) = {}
  BY DEF IInv, TypeOK, IsInjective, Range
<1>1. CASE UpdateSwap
  <2>1. /\ UNCHANGED <<ioQueue, job, issued, op>> /\ done = <<>>
        /\ done' = ioDone /\ ioDone' = <<>>
    BY <1>1 DEF UpdateSwap, workerVars, IInv, ControlOK
  <2>2. Making' = Making /\ Range(ioDone) \subseteq 1..issued
    BY <2>1 DEF Making, IInv, LedgerOK, Placed, Pipeline
  <2>. QED BY <1>0, <2>1, <2>2 DEF PlacedOnce
<1>2. CASE UpdateEntryDone
  <2>1. UNCHANGED <<ioQueue, ioDone, job, issued, op>> /\ done # <<>> /\ done' = Tail(done)
    BY <1>2 DEF UpdateEntryDone, asyncVars, queues, workerVars, IInv, ControlOK
  <2>2. Range(done') \subseteq Range(done) /\ IsInjective(done')
    BY <1>0, <2>1, QueueRanges, InjectiveQueues DEF PlacedOnce
  <2>3. Making' = Making
    BY <2>1 DEF Making
  <2>. QED BY <2>1, <2>2, <2>3 DEF PlacedOnce
<1>3. CASE ShutdownClear
  <2>1. UNCHANGED <<ioDone, done, job, issued>> /\ ioQueue' = <<>> /\ op' = "none"
    BY <1>3 DEF ShutdownClear, workerVars, updateVars
  <2>2. Making' = {}
    BY <2>1 DEF Making
  <2>. QED BY <1>0, <2>1, <2>2 DEF PlacedOnce
<1>. QED BY <1>1, <1>2, <1>3

\* The other steps move no entry.
LEMMA PlacedStill ==
    ASSUME IInv, PlacedOnce,
           \/ \E u \in Uuids : LoadAssetHit(u) \/ LoadAssetMiss(u) \/ Evict(u)
           \/ Shutdown \/ ClearCache \/ EvictUnused
           \/ \E b \in BOOLEAN : SetCacheEnabled(b)
           \/ \E u \in Uuids, p \in Paths : RegisterUuid(u, p)
           \/ \E p \in Paths : RegisterLoader(p)
           \/ LoaderReturns \/ ShutdownNotify \/ ShutdownJoin
           \/ WorkerQuits \/ WorkerWaits \/ SpuriousWakeup
           \/ UpdateNothing \/ UpdateReturn \/ UpdateEntry \/ UpdateLoaderFails
           \/ UpdateLoaderReturns \/ UpdatePublish \/ UpdateFire \/ CallbackReturns
           \/ UNCHANGED vars
    PROVE  PlacedOnce'
<1> USE DEF vars, queues, tables, workerVars, asyncVars, updateVars, callVars, history
<1>1. UNCHANGED <<ioQueue, ioDone, done, job, issued>> /\ (op' = "submit" => op = "submit")
  <2>1. ASSUME NEW u \in Uuids, LoadAssetHit(u) \/ LoadAssetMiss(u) \/ Evict(u)
        PROVE  UNCHANGED <<ioQueue, ioDone, done, job, issued, op>>
    BY <2>1 DEF LoadAssetHit, LoadAssetMiss, Evict
  <2>2. CASE Shutdown \/ ClearCache \/ EvictUnused
    BY <2>2 DEF Shutdown, ClearCache, EvictUnused
  <2>3. ASSUME NEW b \in BOOLEAN, SetCacheEnabled(b)
        PROVE  UNCHANGED <<ioQueue, ioDone, done, job, issued, op>>
    BY <2>3 DEF SetCacheEnabled
  <2>4. ASSUME NEW u \in Uuids, NEW p \in Paths, RegisterUuid(u, p)
        PROVE  UNCHANGED <<ioQueue, ioDone, done, job, issued, op>>
    BY <2>4 DEF RegisterUuid
  <2>5. ASSUME NEW p \in Paths, RegisterLoader(p)
        PROVE  UNCHANGED <<ioQueue, ioDone, done, job, issued, op>>
    BY <2>5 DEF RegisterLoader
  <2>6. CASE LoaderReturns \/ ShutdownNotify \/ ShutdownJoin
    BY <2>6 DEF LoaderReturns, LoadAssetFails, LoadAssetReturns, ShutdownNotify, ShutdownJoin
  <2>7. CASE WorkerQuits \/ WorkerWaits \/ SpuriousWakeup
    BY <2>7 DEF WorkerQuits, WorkerWaits, SpuriousWakeup
  <2>8. CASE UpdateNothing \/ UpdateReturn \/ UpdateEntry \/ UpdateLoaderFails
    BY <2>8 DEF UpdateNothing, UpdateReturn, UpdateEntry, UpdateLoaderFails
  <2>9. CASE UpdateLoaderReturns \/ UpdatePublish \/ UpdateFire \/ CallbackReturns
    BY <2>9 DEF UpdateLoaderReturns, UpdatePublish, UpdateFire, CallbackReturns
  <2>10. CASE UNCHANGED vars
    BY <2>10
  <2>. QED BY <2>1, <2>2, <2>3, <2>4, <2>5, <2>6, <2>7, <2>8, <2>9, <2>10
<1>. QED BY <1>1, StillPlaced DEF Making

LEMMA PlacedAlways == Spec => [](IInv /\ PlacedOnce)
<1>1. Init => PlacedOnce
  BY DEF Init, PlacedOnce, IsInjective, Range, Making
<1>2. IInv /\ PlacedOnce /\ [Next]_vars => PlacedOnce'
  BY PlacedRequest, PlacedQueues, PlacedUpdate, PlacedStill
     DEF Next, AppStep, CallStep, UpdateStep, WorkerStep
<1>. QED BY <1>1, <1>2, LedgerAlways, PTL DEF Spec

-----------------------------------------------------------------------------
(* All callers of a uuid share one instance.                               *)

\* The cache keeps what it is given.
KeepsCache == Ops \cap {"evict", "evictUnused", "setCacheEnabled"} = {}

\* What was handed out for a uuid is in the cache, and so is what the callbacks
\* of an entry get.
InCache ==
    /\ cacheOn = TRUE
    /\ \A u \in Uuids : handed[u] \subseteq {cache[u]}
    /\ mode \in {"fire", "callback"} =>
          result \in {0, cache[entry[Head(done)].uuid]}

\* An asset that is in the cache stays there.
CacheGrows == \A u \in Uuids : cache[u] # 0 => cache'[u] = cache[u]

LEMMA StillInCache ==
    ASSUME IInv, PlacedOnce, InCache, CacheGrows, UNCHANGED <<cacheOn, handed>>,
           mode' \in {"fire", "callback"} =>
              /\ mode \in {"fire", "callback"} /\ UNCHANGED <<done, result>>
              /\ entry'[Head(done)].uuid = entry[Head(done)].uuid
    PROVE  InCache'
<1>1. ASSUME NEW u \in Uuids PROVE handed'[u] \subseteq {cache'[u]}
  <2>1. handed[u] \subseteq {cache[u]} /\ handed[u] \subseteq Assets
    BY DEF InCache, IInv, TypeOK
  <2>2. 0 \notin Assets
    BY ConstantsAssumption DEF Assets
  <2>. QED BY <2>1, <2>2 DEF CacheGrows
<1>2. ASSUME mode' \in {"fire", "callback"}
      PROVE  result' \in {0, cache'[entry'[Head(done')].uuid]}
  <2>1. done # <<>> /\ done \in Seq(Requests)
    BY <1>2 DEF IInv, ControlOK, TypeOK
  <2>2. Head(done) \in Requests
    BY <2>1, QueueRanges
  <2>3. entry[Head(done)].uuid \in Uuids
    BY <2>2 DEF IInv, TypeOK, PendingLoad
  <2>4. result \in {0, cache[entry[Head(done)].uuid]}
    BY <1>2 DEF InCache
  <2>. QED BY <1>2, <2>3, <2>4 DEF CacheGrows
<1>. QED BY <1>1, <1>2 DEF InCache

\* Publishing keeps what is in the cache, and what it then hands out is there.
LEMMA PublishShares ==
    ASSUME TypeOK, cacheOn = TRUE, NEW u \in Uuids, NEW a \in 0..MaxAssets, Publish(u, a)
    PROVE  CacheGrows /\ (a = 0 => Shared(u, a) = 0) /\ (a # 0 => Shared(u, a) = cache'[u])
BY DEF TypeOK, Publish, Shared, CacheGrows

LEMMA InCacheRequest ==
    ASSUME IInv, PlacedOnce, InCache,
           NEW u \in Uuids, LoadAsyncHit(u) \/ LoadAsyncRide(u) \/ LoadAsyncMiss(u)
    PROVE  InCache'
<1>1. /\ issued < MaxRequests /\ issued' = issued + 1
      /\ UNCHANGED <<cache, cacheOn, handed, done, result, mode>>
  BY DEF LoadAsyncHit, LoadAsyncRide, LoadAsyncMiss, callVars, updateVars, tables, history
<1>2. CacheGrows
  BY <1>1 DEF CacheGrows
<1>3. ASSUME mode \in {"fire", "callback"}
      PROVE  entry'[Head(done)].uuid = entry[Head(done)].uuid
  <2>1. done # <<>> /\ done \in Seq(Requests)
    BY <1>3 DEF IInv, ControlOK, TypeOK
  <2>2. Head(done) \in Requests /\ Head(done) \in 1..issued
    BY <2>1, QueueRanges DEF PlacedOnce
  <2>3. issued' # Head(done)
    BY <1>1, <2>2, NewIsNowhere
  <2>4. entry \in [Requests -> PendingLoad]
    BY DEF IInv, TypeOK
  <2>5. CASE LoadAsyncHit(u) \/ LoadAsyncMiss(u)
    BY <2>2, <2>3, <2>4, <2>5 DEF LoadAsyncHit, LoadAsyncMiss
  <2>6. CASE LoadAsyncRide(u)
    BY <2>2, <2>4, <2>6 DEF LoadAsyncRide, PendingLoad
  <2>. QED BY <2>5, <2>6
<1>. QED BY <1>1, <1>2, <1>3, StillInCache

\* A synchronous load hands out the cache's instance.
LEMMA InCacheLoad ==
    ASSUME IInv, PlacedOnce, InCache,
           (\E u \in Uuids : LoadAssetHit(u)) \/ LoadAssetReturns
    PROVE  InCache'
<1>1. PICK u \in Uuids, a \in Assets :
         /\ CacheGrows /\ a = cache'[u]
         /\ handed' = [handed EXCEPT ![u] = @ \cup {a}]
         /\ UNCHANGED <<cacheOn, entry, done, result, mode>>
  <2>1. ASSUME NEW u \in Uuids, LoadAssetHit(u)
        PROVE  /\ CacheGrows /\ cache[u] \in Assets /\ cache[u] = cache'[u]
               /\ handed' = [handed EXCEPT ![u] = @ \cup {cache[u]}]
               /\ UNCHANGED <<cacheOn, entry, done, result, mode>>
    BY <2>1, ConstantsAssumption
       DEF LoadAssetHit, CacheGrows, asyncVars, tables, callVars, updateVars, IInv, TypeOK, Assets
  <2>2. ASSUME LoadAssetReturns
        PROVE  \E u \in Uuids, a \in Assets :
                 /\ CacheGrows /\ a = cache'[u]
                 /\ handed' = [handed EXCEPT ![u] = @ \cup {a}]
                 /\ UNCHANGED <<cacheOn, entry, done, result, mode>>
    <3> DEFINE u == Head(loads)
               a == made + 1
    <3>1. /\ loads # <<>> /\ loads \in Seq(Uuids) /\ made < MaxAssets /\ made' = a
          /\ Publish(u, a) /\ handed' = [handed EXCEPT ![u] = @ \cup {Shared(u, a)}]
          /\ UNCHANGED <<cacheOn, entry, done, result, mode>>
      BY <2>2 DEF LoadAssetReturns, asyncVars, tables, updateVars, IInv, TypeOK
    <3>2. u \in Uuids
      BY <3>1, QueueRanges
    <3>3. a \in Assets /\ a \in 0..MaxAssets /\ a # 0
      BY <3>1, ConstantsAssumption DEF IInv, TypeOK, Assets
    <3> HIDE DEF u, a
    <3>4. CacheGrows /\ Shared(u, a) = cache'[u]
      BY <3>1, <3>2, <3>3, PublishShares DEF IInv, InCache
    <3>5. Shared(u, a) \in Assets
      BY <3>2, <3>3, ConstantsAssumption DEF Shared, IInv, TypeOK, Assets
    <3>. QED BY <3>1, <3>2, <3>4, <3>5
  <2>. QED BY <2>1, <2>2
<1>2. ASSUME NEW v \in Uuids PROVE handed'[v] \subseteq {cache'[v]}
  <2>1. handed[v] \subseteq {cache[v]} /\ handed[v] \subseteq Assets
    BY DEF InCache, IInv, TypeOK
  <2>2. 0 \notin Assets
    BY ConstantsAssumption DEF Assets
  <2>3. handed'[v] = IF v = u THEN handed[v] \cup {cache'[v]} ELSE handed[v]
    BY <1>1 DEF IInv, TypeOK
  <2>. QED BY <1>1, <2>1, <2>2, <2>3 DEF CacheGrows
<1>3. ASSUME mode \in {"fire", "callback"}
      PROVE  result \in {0, cache'[entry[Head(done)].uuid]}
  <2>1. done # <<>> /\ done \in Seq(Requests)
    BY <1>3 DEF IInv, ControlOK, TypeOK
  <2>2. Head(done) \in Requests
    BY <2>1, QueueRanges
  <2>3. entry[Head(done)].uuid \in Uuids
    BY <2>2 DEF IInv, TypeOK, PendingLoad
  <2>. QED BY <1>1, <1>3, <2>3 DEF CacheGrows, InCache
<1>. QED BY <1>1, <1>2, <1>3 DEF InCache

\* update() publishes an asset and hands the cache's to the callbacks.
LEMMA InCacheUpdate ==
    ASSUME IInv, PlacedOnce, InCache, UpdatePublish \/ UpdateFire
    PROVE  InCache'
<1> DEFINE e == Head(done)
           u == entry[e].uuid
<1>1. done # <<>> /\ done \in Seq(Requests) /\ result \in 0..MaxAssets
  BY DEF UpdatePublish, UpdateFire, IInv, ControlOK, TypeOK
<1>2. e \in Requests /\ u \in Uuids
  <2>1. e \in Requests
    BY <1>1, QueueRanges
  <2>. QED BY <2>1 DEF IInv, TypeOK, PendingLoad
<1>3. CASE UpdatePublish
  <2>1. /\ result' = Shared(u, result) /\ Publish(u, result)
        /\ UNCHANGED <<cacheOn, handed, done>>
    BY <1>3 DEF UpdatePublish, tables, history
  <2>2. entry'[e].uuid = u
    BY <1>2, <1>3 DEF UpdatePublish, Take, IInv, TypeOK, PendingLoad
  <2> HIDE DEF e, u
  <2>3. CacheGrows /\ result' \in {0, cache'[u]}
    BY <1>1, <1>2, <2>1, PublishShares DEF IInv, InCache
  <2>4. ASSUME NEW v \in Uuids PROVE handed'[v] \subseteq {cache'[v]}
    <3>1. handed[v] \subseteq {cache[v]} /\ handed[v] \subseteq Assets
      BY DEF InCache, IInv, TypeOK
    <3>2. 0 \notin Assets
      BY ConstantsAssumption DEF Assets
    <3>. QED BY <2>1, <2>3, <3>1, <3>2 DEF CacheGrows
  <2>5. Head(done') = e
    BY <2>1 DEF e
  <2>. QED BY <2>1, <2>2, <2>3, <2>4, <2>5 DEF InCache
<1>4. CASE UpdateFire
  <2>1. /\ UNCHANGED <<cache, cacheOn, entry, done, result>> /\ mode = "fire"
        /\ handed' = [handed EXCEPT ![u] = @ \cup ({result} \ {0})]
    BY <1>4 DEF UpdateFire, asyncVars, tables
  <2>2. result \in {0, cache[u]}
    BY <2>1 DEF InCache
  <2>3. \A v \in Uuids : handed'[v] \subseteq {cache[v]}
    BY <1>2, <2>1, <2>2 DEF InCache, IInv, TypeOK
  <2>. QED BY <2>1, <2>2, <2>3 DEF InCache
<1>. QED BY <1>3, <1>4

\* The other steps hand out nothing and leave the cache alone.
LEMMA InCacheStill ==
    ASSUME IInv, PlacedOnce, InCache, KeepsCache,
           \/ \E u \in Uuids : LoadAssetMiss(u) \/ Evict(u)
           \/ Shutdown \/ ClearCache \/ EvictUnused
           \/ \E b \in BOOLEAN : SetCacheEnabled(b)
           \/ \E u \in Uuids, p \in Paths : RegisterUuid(u, p)
           \/ \E p \in Paths : RegisterLoader(p)
           \/ LoadAssetFails \/ CallStep \/ WorkerStep \/ SpuriousWakeup
           \/ UpdateNothing \/ UpdateSwap \/ UpdateReturn \/ UpdateEntry
           \/ UpdateLoaderFails \/ UpdateLoaderReturns \/ CallbackReturns
           \/ UpdateEntryDone \/ UNCHANGED vars
    PROVE  InCache'
<1> USE DEF vars, queues, tables, workerVars, asyncVars, updateVars, callVars, history
<1> DEFINE Same == UNCHANGED <<cache, cacheOn, handed>>
           Firing == mode' \in {"fire", "callback"} =>
              /\ mode \in {"fire", "callback"} /\ UNCHANGED <<done, result>>
              /\ \A e \in Requests : entry'[e].uuid = entry[e].uuid
<1>1. Same /\ Firing
  <2>1. ASSUME NEW u \in Uuids, LoadAssetMiss(u) \/ Evict(u) PROVE Same /\ Firing
    BY <2>1 DEF LoadAssetMiss, Evict, KeepsCache
  <2>2. CASE Shutdown \/ ClearCache \/ EvictUnused \/ LoadAssetFails
    BY <2>2 DEF Shutdown, ClearCache, EvictUnused, LoadAssetFails, KeepsCache
  <2>3. ASSUME NEW b \in BOOLEAN, SetCacheEnabled(b) PROVE Same /\ Firing
    BY <2>3 DEF SetCacheEnabled, KeepsCache
  <2>4. ASSUME NEW u \in Uuids, NEW p \in Paths, RegisterUuid(u, p) PROVE Same /\ Firing
    BY <2>4 DEF RegisterUuid
  <2>5. ASSUME NEW p \in Paths, RegisterLoader(p) PROVE Same /\ Firing
    BY <2>5 DEF RegisterLoader
  <2>6. CASE CallStep
    BY <2>6 DEF CallStep, SubmitLoad, SubmitFailure, ShutdownNotify, ShutdownJoin, ShutdownClear
  <2>7. CASE WorkerQuits \/ WorkerTakes \/ WorkerWaits \/ SpuriousWakeup
    BY <2>7 DEF WorkerQuits, WorkerTakes, WorkerWaits, SpuriousWakeup
  <2>8. CASE WorkerRead
    <3>1. PICK ok \in BOOLEAN : entry' = [entry EXCEPT ![job].ioOk = ok]
      BY <2>8 DEF WorkerRead
    <3>2. \A e \in Requests : entry'[e].uuid = entry[e].uuid
      BY <3>1 DEF IInv, TypeOK, PendingLoad
    <3>. QED BY <2>8, <3>2 DEF WorkerRead
  <2>9. CASE UpdateNothing \/ UpdateSwap \/ UpdateReturn \/ UpdateEntry \/ UpdateLoaderFails
    BY <2>9 DEF UpdateNothing, UpdateSwap, UpdateReturn, UpdateEntry, UpdateLoaderFails
  <2>10. CASE UpdateLoaderReturns \/ CallbackReturns \/ UpdateEntryDone
    BY <2>10 DEF UpdateLoaderReturns, CallbackReturns, UpdateEntryDone
  <2>11. CASE UNCHANGED vars
    BY <2>11
  <2>. QED BY <2>1, <2>2, <2>3, <2>4, <2>5, <2>6, <2>7, <2>8, <2>9, <2>10, <2>11 DEF WorkerStep
<1>2. CacheGrows
  BY <1>1 DEF CacheGrows
<1>3. mode \in {"fire", "callback"} => Head(done) \in Requests
  <2> SUFFICES ASSUME mode \in {"fire", "callback"} PROVE Head(done) \in Requests
    OBVIOUS
  <2>1. done # <<>> /\ done \in Seq(Requests)
    BY DEF IInv, ControlOK, TypeOK
  <2>. QED BY <2>1, QueueRanges
<1>. QED BY <1>1, <1>2, <1>3, StillInCache

\* While nothing is evicted and the cache is on, all callers of a uuid share one
\* instance, although the synchronous path, the loaders nested in it and
\* update() each build assets for it and publish them.
THEOREM OneInstanceAlways ==
    ASSUME KeepsCache
    PROVE  Spec => []OneInstance
<1>1. Init => InCache
  BY DEF Init, InCache
<1>2. IInv /\ PlacedOnce /\ InCache /\ [Next]_vars => InCache'
  BY InCacheRequest, InCacheLoad, InCacheUpdate, InCacheStill
     DEF Next, AppStep, LoaderReturns, UpdateStep
<1>3. InCache => OneInstance
  BY DEF InCache, OneInstance
<1>. QED BY <1>1, <1>2, <1>3, PlacedAlways, PTL DEF Spec

-----------------------------------------------------------------------------
(* Requests for a uuid in flight share its load.                           *)

\* Nothing is evicted, and the tables are set up before the first request.
KeepsTables == Ops \cap {"evict", "evictUnused", "register"} = {}

\* An entry has a loader to run as long as its uuid resolves and is not cached;
\* if it has, the pending table leads to it unless its uuid is cached.
LoaderKnown(e) == LET u == entry[e].uuid
                  IN  /\ entry[e].needLoad => Loadable(u)
                      /\ ~entry[e].needLoad => cache[u] # 0 \/ ~Loadable(u)
PendingKnown(e) == entry[e].needLoad =>
                      pending[entry[e].uuid] = e \/ cache[entry[e].uuid] # 0
Known ==
    /\ \A e \in Pipeline \cup Making : LoaderKnown(e)
    /\ \A e \in Pipeline : PendingKnown(e)
    /\ \A e \in Making : cache[entry[e].uuid] = 0 /\ pending[entry[e].uuid] = 0
Deduplicated == Known /\ InFlightDeduplicated

SameTables == UNCHANGED <<path, loaders>>

\* An entry keeps its uuid and whether its loader is still to run.
SameEntry(e) == entry'[e].uuid = entry[e].uuid /\ entry'[e].needLoad = entry[e].needLoad

LEMMA PipelineTypes ==
    ASSUME IInv
    PROVE  Pipeline \cup Making \subseteq Requests /\ \A e \in Requests : entry[e].uuid \in Uuids
<1>1. issued \in 0..MaxRequests /\ entry \in [Requests -> PendingLoad]
  BY DEF IInv, TypeOK
<1>2. 1..issued \subseteq Requests
  BY <1>1, ConstantsAssumption DEF Requests
<1>3. Pipeline \cup Making \subseteq 1..issued
  BY DEF IInv, LedgerOK, Placed
<1>. QED BY <1>1, <1>2, <1>3 DEF PendingLoad

\* What is known of an entry stays known when the cache grows.
LEMMA KnownKept ==
    ASSUME IInv, SameTables, CacheGrows, NEW e \in Requests, SameEntry(e)
    PROVE  /\ LoaderKnown(e) => LoaderKnown(e)'
           /\ PendingKnown(e) /\ pending'[entry[e].uuid] \in {pending[entry[e].uuid], e} => PendingKnown(e)'
<1>1. entry[e].uuid \in Uuids
  BY PipelineTypes
<1> DEFINE u == entry[e].uuid
<1>3. /\ cache[u] # 0 => cache'[u] # 0
      /\ entry'[e].uuid = u /\ entry'[e].needLoad = entry[e].needLoad
      /\ path' = path /\ loaders' = loaders
  BY <1>1 DEF CacheGrows, SameEntry, SameTables
<1>. QED BY <1>3 DEF LoaderKnown, PendingKnown, Loadable, ResolvedPath

\* What is to be known of an entry after a step, in terms of its uuid.
LEMMA LoaderKnownNext ==
    ASSUME SameTables, NEW e \in Requests, NEW u \in Uuids, entry'[e].uuid = u
    PROVE  LoaderKnown(e)' <=> /\ entry'[e].needLoad => Loadable(u)
                               /\ ~entry'[e].needLoad => cache'[u] # 0 \/ ~Loadable(u)
BY DEF SameTables, LoaderKnown, Loadable, ResolvedPath

\* A step that moves entries or takes them away.
LEMMA StillKnown ==
    ASSUME IInv, Deduplicated, SameTables, CacheGrows, UNCHANGED pending,
           Pipeline' \subseteq Pipeline, Making' \subseteq Making,
           Making' # {} => cache' = cache,
           \A e \in Pipeline \cup Making : SameEntry(e)
    PROVE  Deduplicated'
<1>1. Pipeline \cup Making \subseteq Requests
  BY PipelineTypes
<1>2. ASSUME NEW e \in Pipeline \cup Making PROVE LoaderKnown(e)'
  BY <1>1, <1>2, KnownKept DEF Deduplicated, Known
<1>3. ASSUME NEW e \in Pipeline PROVE PendingKnown(e)'
  BY <1>1, <1>3, KnownKept DEF Deduplicated, Known
<1>4. ASSUME NEW e \in Making' PROVE cache'[entry'[e].uuid] = 0 /\ pending'[entry'[e].uuid] = 0
  <2>1. e \in Making /\ cache' = cache /\ entry'[e].uuid = entry[e].uuid
    BY <1>4 DEF SameEntry
  <2>. QED BY <2>1 DEF Deduplicated, Known
<1>5. InFlightDeduplicated'
  <2> SUFFICES ASSUME NEW e \in Pipeline', NEW f \in Pipeline', entry'[e].needLoad, entry'[f].needLoad,
                      entry'[e].uuid = entry'[f].uuid
               PROVE  e = f
    BY DEF InFlightDeduplicated
  <2>1. SameEntry(e) /\ SameEntry(f) /\ e \in Pipeline /\ f \in Pipeline
    OBVIOUS
  <2>. QED BY <2>1 DEF SameEntry, Deduplicated, InFlightDeduplicated
<1>6. Known'
  BY <1>2, <1>3, <1>4 DEF Known
<1>. QED BY <1>5, <1>6 DEF Deduplicated

\* A request that hits or rides, and one that misses.
LEMMA KnownRequest ==
    ASSUME IInv, PlacedOnce, Deduplicated,
           NEW u \in Uuids, LoadAsyncHit(u) \/ LoadAsyncRide(u) \/ LoadAsyncMiss(u)
    PROVE  Deduplicated'
<1>0. /\ issued < MaxRequests /\ op = "none" /\ issued' = issued + 1
      /\ SameTables /\ UNCHANGED <<cache, pending, ioQueue, job, done, mode>>
  BY DEF LoadAsyncHit, LoadAsyncRide, LoadAsyncMiss, AppRuns, SameTables, workerVars, callVars,
         updateVars, tables, queues
<1>r. PICK r \in Requests : r = issued + 1
  BY <1>0, NewIsNowhere
<1>1. /\ issued < MaxRequests /\ op = "none" /\ issued' = r
      /\ SameTables /\ UNCHANGED <<cache, pending, ioQueue, job, done, mode>>
  BY <1>0, <1>r
<1>2. /\ r \in Requests /\ r \notin Pipeline /\ ioDone \in Seq(Requests)
      /\ entry \in [Requests -> PendingLoad]
  BY <1>0, <1>r, NewIsNowhere DEF IInv, TypeOK
<1>3. CacheGrows /\ Making = {} /\ Undone' = Undone
  BY <1>1 DEF CacheGrows, Making, Undone
<1>4. Pipeline \subseteq Requests
  BY PipelineTypes
<1>5. CASE LoadAsyncRide(u)
  <2>1. ioDone' = ioDone /\ op' = op /\ \A e \in Requests : SameEntry(e)
    BY <1>2, <1>5 DEF LoadAsyncRide, queues, callVars, SameEntry, PendingLoad
  <2>2. Pipeline' = Pipeline /\ Making' = {}
    BY <1>1, <1>3, <2>1 DEF Pipeline, Making
  <2>. QED BY <1>1, <1>3, <1>4, <2>1, <2>2, StillKnown
<1>6. CASE LoadAsyncHit(u)
  <2>1. /\ ioDone' = Append(ioDone, r) /\ op' = op /\ cache[u] # 0
        /\ entry' = [entry EXCEPT ![r] = NewEntry(u, cache[u], FALSE, r)]
    BY <1>1, <1>6 DEF LoadAsyncHit, callVars
  <2>2. Range(ioDone') = Range(ioDone) \cup {r}
    BY <1>2, <2>1, QueueRanges
  <2>3. Pipeline' = Pipeline \cup {r} /\ Making' = {}
    BY <1>1, <1>3, <2>1, <2>2 DEF Pipeline, Making
  <2>4. \A e \in Pipeline : SameEntry(e) /\ LoaderKnown(e)' /\ PendingKnown(e)'
    <3>1. \A e \in Pipeline : SameEntry(e)
      BY <1>2, <1>4, <2>1 DEF SameEntry
    <3>. QED BY <1>1, <1>3, <1>4, <3>1, KnownKept DEF Deduplicated, Known
  <2>5. entry'[r].uuid = u /\ entry'[r].needLoad = FALSE
    BY <1>2, <2>1 DEF NewEntry
  <2>6. LoaderKnown(r)' /\ PendingKnown(r)'
    BY <1>1, <2>1, <2>5, LoaderKnownNext DEF PendingKnown
  <2>7. InFlightDeduplicated'
    <3> SUFFICES ASSUME NEW e \in Pipeline', NEW f \in Pipeline', entry'[e].needLoad, entry'[f].needLoad,
                        entry'[e].uuid = entry'[f].uuid
                 PROVE  e = f
      BY DEF InFlightDeduplicated
    <3>1. e \in Pipeline /\ f \in Pipeline
      BY <2>3, <2>5
    <3>. QED BY <2>4, <3>1 DEF SameEntry, Deduplicated, InFlightDeduplicated
  <2>. QED BY <2>3, <2>4, <2>6, <2>7 DEF Deduplicated, Known
<1>7. CASE LoadAsyncMiss(u)
  <2>1. /\ ioDone' = ioDone /\ op' = "submit" /\ cache[u] = 0 /\ pending[u] = 0
        /\ entry' = [entry EXCEPT ![r] = NewEntry(u, 0, Loadable(u), r)]
    BY <1>1, <1>7 DEF LoadAsyncMiss, queues
  <2>2. Pipeline' = Pipeline /\ Making' = {r}
    BY <1>1, <1>3, <2>1 DEF Pipeline, Making
  <2>3. \A e \in Pipeline : SameEntry(e) /\ LoaderKnown(e)' /\ PendingKnown(e)'
    <3>1. \A e \in Pipeline : SameEntry(e)
      BY <1>2, <1>4, <2>1 DEF SameEntry
    <3>. QED BY <1>1, <1>3, <1>4, <3>1, KnownKept DEF Deduplicated, Known
  <2>4. entry'[r].uuid = u /\ entry'[r].needLoad = Loadable(u)
    BY <1>2, <2>1 DEF NewEntry
  <2>5. LoaderKnown(r)'
    <3>1. Loadable(u) \in BOOLEAN
      BY DEF Loadable
    <3>. QED BY <1>1, <2>4, <3>1, LoaderKnownNext
  <2>6. cache'[entry'[r].uuid] = 0 /\ pending'[entry'[r].uuid] = 0
    BY <1>1, <2>1, <2>4
  <2>7. InFlightDeduplicated'
    BY <2>2, <2>3 DEF SameEntry, Deduplicated, InFlightDeduplicated
  <2>. QED BY <2>2, <2>3, <2>5, <2>6, <2>7 DEF Deduplicated, Known
<1>. QED BY <1>5, <1>6, <1>7

\* The entry being made gets its place.
LEMMA KnownSubmit ==
    ASSUME IInv, PlacedOnce, Deduplicated, SubmitLoad \/ SubmitFailure
    PROVE  Deduplicated'
<1>1. /\ op = "submit" /\ op' = "none" /\ SameTables
      /\ UNCHANGED <<cache, entry, job, done, mode, issued>>
  BY DEF SubmitLoad, SubmitFailure, SameTables, workerVars, updateVars, tables
<1>r. PICK r \in Requests, u \in Uuids : r = issued /\ u = entry[r].uuid
  <2>1. Making = {issued}
    BY <1>1 DEF Making
  <2>. QED BY <2>1, PipelineTypes
<1>2. Making = {r} /\ Making' = {}
  BY <1>1, <1>r DEF Making
<1>3. cache[u] = 0 /\ pending[u] = 0 /\ LoaderKnown(r) /\ entry[r].needLoad \in BOOLEAN
  BY <1>2, <1>r DEF Deduplicated, Known, IInv, TypeOK, PendingLoad
<1>4. /\ ioQueue \in Seq(Requests) /\ ioDone \in Seq(Requests)
      /\ pending \in [Uuids -> 0..MaxRequests] /\ Pipeline \subseteq Requests
  BY PipelineTypes DEF IInv, TypeOK
<1>5. CacheGrows /\ Undone' = Undone /\ \A e \in Requests : SameEntry(e)
  BY <1>1 DEF CacheGrows, Undone, SameEntry
<1>6. /\ Pipeline' = Pipeline \cup {r}
      /\ entry[r].needLoad => pending' = [pending EXCEPT ![u] = r]
      /\ ~entry[r].needLoad => pending' = pending
  <2>1. CASE SubmitLoad
    <3>1. ioQueue' = Append(ioQueue, r) /\ ioDone' = ioDone /\ Emplace(u, r) /\ entry[r].needLoad
      BY <1>r, <2>1 DEF SubmitLoad
    <3>2. Range(ioQueue') = Range(ioQueue) \cup {r}
      BY <1>2, <1>4, <3>1, QueueRanges
    <3>3. pending' = [pending EXCEPT ![u] = r]
      BY <1>2, <1>3, <1>4, <3>1 DEF Emplace
    <3>. QED BY <1>1, <1>5, <3>1, <3>2, <3>3 DEF Pipeline
  <2>2. CASE SubmitFailure
    <3>1. ioDone' = Append(ioDone, r) /\ UNCHANGED <<ioQueue, pending>> /\ ~entry[r].needLoad
      BY <1>r, <2>2 DEF SubmitFailure
    <3>2. Range(ioDone') = Range(ioDone) \cup {r}
      BY <1>2, <1>4, <3>1, QueueRanges
    <3>. QED BY <1>1, <1>5, <3>1, <3>2 DEF Pipeline
  <2>. QED BY <2>1, <2>2
\* No other entry in flight has this uuid and a loader to run.
<1>7. ASSUME NEW e \in Pipeline, entry[e].needLoad, entry[e].uuid = u PROVE e = r
  <2>1. pending[u] = e /\ e \in Requests
    BY <1>3, <1>4, <1>7 DEF Deduplicated, Known, PendingKnown
  <2>. QED BY <1>3, <2>1 DEF Requests
<1>8. \A e \in Pipeline \cup {r} : LoaderKnown(e)'
  BY <1>1, <1>2, <1>3, <1>4, <1>5, KnownKept DEF Deduplicated, Known
<1>9. ASSUME NEW e \in Pipeline, e # r PROVE PendingKnown(e)'
  <2>1. CASE entry[e].needLoad
    <3>1. entry[e].uuid # u /\ entry[e].uuid \in Uuids
      BY <1>4, <1>7, <1>9, <2>1, PipelineTypes
    <3>2. pending'[entry[e].uuid] = pending[entry[e].uuid]
      BY <1>2, <1>3, <1>4, <1>6, <3>1
    <3>. QED BY <1>1, <1>4, <1>5, <3>2, KnownKept DEF Deduplicated, Known
  <2>2. CASE ~entry[e].needLoad
    BY <1>1, <2>2 DEF PendingKnown
  <2>. QED BY <2>1, <2>2
<1>10. PendingKnown(r)'
  BY <1>1, <1>r, <1>4, <1>6 DEF PendingKnown
<1>11. Known'
  BY <1>2, <1>6, <1>8, <1>9, <1>10 DEF Known
<1>12. InFlightDeduplicated'
  BY <1>r, <1>1, <1>6, <1>7 DEF Deduplicated, InFlightDeduplicated
<1>. QED BY <1>11, <1>12 DEF Deduplicated

\* update() finds the uuid of an entry in the cache, or retires the entry.
LEMMA KnownUpdate ==
    ASSUME IInv, PlacedOnce, Deduplicated, UpdateEntry \/ UpdatePublish
    PROVE  Deduplicated'
<1>1. /\ done # <<>> /\ done \in Seq(Requests) /\ op = "none" /\ SameTables
      /\ UNCHANGED <<ioQueue, ioDone, job, done, op, issued>>
      /\ entry \in [Requests -> PendingLoad] /\ mode \notin {"fire", "callback"}
  BY DEF UpdateEntry, UpdatePublish, UpdateRuns, SameTables, workerVars, queues, tables, IInv, TypeOK, ControlOK
<1>2. Making = {} /\ Making' = {} /\ Undone = Range(done)
  BY <1>1 DEF Making, Undone
<1>e. PICK e \in Requests, u \in Uuids : e = Head(done) /\ u = entry[e].uuid
  BY <1>1, QueueRanges, PipelineTypes
<1>3. /\ Range(done) = {e} \cup Range(Tail(done)) /\ e \notin Range(Tail(done))
  BY <1>1, <1>e, QueueRanges, InjectiveQueues DEF PlacedOnce
<1>4. /\ u \in Uuids /\ Pipeline \subseteq Requests
      /\ e \in Pipeline /\ e \notin Range(ioQueue) \cup {job} \cup Range(ioDone)
  BY <1>2, <1>3, PipelineTypes DEF Pipeline, PlacedOnce
<1>5. CASE UpdateEntry
  <2>1. /\ entry' = [entry EXCEPT ![e].needLoad = @ /\ ~(entry[e].needLoad /\ cache[u] # 0)]
        /\ mode' \in {"loader", "publish"} /\ UNCHANGED <<cache, pending>>
    BY <1>5, <1>e DEF UpdateEntry, queues
  <2>2. Pipeline' = Pipeline /\ CacheGrows
    BY <1>1, <1>2, <2>1 DEF Pipeline, Undone, CacheGrows
  <2>3. /\ \A f \in Requests : f # e => SameEntry(f)
        /\ entry'[e].uuid = u /\ entry'[e].needLoad = (entry[e].needLoad /\ cache[u] = 0)
    <3>1. entry[e] \in PendingLoad
      BY <1>1, <1>3
    <3>. QED BY <1>1, <1>e, <2>1, <3>1 DEF SameEntry, PendingLoad
  <2>4. \A f \in Pipeline : f # e => LoaderKnown(f)' /\ PendingKnown(f)'
    BY <1>1, <1>4, <2>1, <2>2, <2>3, KnownKept DEF Deduplicated, Known
  <2>5. LoaderKnown(e)' /\ PendingKnown(e)'
    <3>1. LoaderKnown(e) /\ PendingKnown(e) /\ entry[e].needLoad \in BOOLEAN
      BY <1>1, <1>4 DEF Deduplicated, Known, PendingLoad
    <3>2. LoaderKnown(e)'
      BY <1>1, <1>e, <2>1, <2>3, <3>1, LoaderKnownNext DEF LoaderKnown
    <3>3. PendingKnown(e)'
      BY <1>e, <2>1, <2>3, <3>1 DEF PendingKnown
    <3>. QED BY <3>2, <3>3
  <2>6. InFlightDeduplicated'
    <3> SUFFICES ASSUME NEW f \in Pipeline, NEW g \in Pipeline, entry'[f].needLoad, entry'[g].needLoad,
                        entry'[f].uuid = entry'[g].uuid
                 PROVE  f = g
      BY <2>2 DEF InFlightDeduplicated
    <3>1. ASSUME NEW h \in Pipeline, entry'[h].needLoad
          PROVE  entry[h].needLoad /\ entry'[h].uuid = entry[h].uuid
      BY <1>e, <1>4, <2>3, <3>1 DEF SameEntry
    <3>. QED BY <3>1 DEF Deduplicated, InFlightDeduplicated
  <2>. QED BY <1>2, <2>2, <2>4, <2>5, <2>6 DEF Deduplicated, Known
<1>6. CASE UpdatePublish
  <2>1. /\ Publish(u, result) /\ Erase(u) /\ Take(e) /\ mode' = "fire"
    BY <1>6, <1>e DEF UpdatePublish
  <2>2. Undone' = Range(Tail(done))
    BY <1>1, <2>1 DEF Undone
  <2>3. Pipeline' \subseteq Pipeline /\ e \notin Pipeline'
    <3>1. e # 0
      BY DEF Requests
    <3>. QED BY <1>1, <1>2, <1>3, <1>4, <2>2, <3>1 DEF Pipeline
  <2>4. CacheGrows /\ \A f \in Requests : SameEntry(f)
    <3>1. CacheGrows
      BY <1>4, <2>1 DEF CacheGrows, Publish, IInv, TypeOK
    <3>2. \A f \in Requests : SameEntry(f)
      BY <1>1, <2>1 DEF Take, SameEntry, PendingLoad
    <3>. QED BY <3>1, <3>2
  <2>5. \A f \in Pipeline : LoaderKnown(f)'
    BY <1>1, <1>4, <2>4, KnownKept DEF Deduplicated, Known
  <2>6. ASSUME NEW f \in Pipeline' PROVE PendingKnown(f)'
    <3>1. f \in Pipeline /\ f \in Requests /\ f # e /\ SameEntry(f)
      BY <1>4, <2>3, <2>4, <2>6
    <3>2. PendingKnown(f) /\ LoaderKnown(f) /\ LoaderKnown(e)
      BY <1>4, <3>1 DEF Deduplicated, Known
    <3>3. CASE entry[f].uuid # u
      <4>1. pending'[entry[f].uuid] = pending[entry[f].uuid]
        BY <3>1, <3>3, <2>1, PipelineTypes DEF Erase, IInv, TypeOK
      <4>. QED BY <1>1, <2>4, <3>1, <3>2, <4>1, KnownKept
    <3>4. CASE entry[f].uuid = u /\ ~entry[f].needLoad
      BY <3>1, <3>4 DEF PendingKnown, SameEntry
    <3>5. CASE entry[f].uuid = u /\ entry[f].needLoad
      <4>1. ~entry[e].needLoad
        BY <1>e, <1>4, <3>1, <3>5 DEF Deduplicated, InFlightDeduplicated
      <4>2. Loadable(u)
        BY <3>2, <3>5 DEF LoaderKnown
      <4>3. cache[u] # 0
        BY <1>e, <3>2, <4>1, <4>2 DEF LoaderKnown
      <4>4. cache'[u] # 0 /\ entry'[f].uuid = u
        BY <1>4, <2>4, <3>1, <3>5, <4>3 DEF CacheGrows, SameEntry
      <4>. QED BY <4>4 DEF PendingKnown
    <3>. QED BY <3>3, <3>4, <3>5
  <2>7. InFlightDeduplicated'
    <3> SUFFICES ASSUME NEW f \in Pipeline', NEW g \in Pipeline', entry'[f].needLoad, entry'[g].needLoad,
                        entry'[f].uuid = entry'[g].uuid
                 PROVE  f = g
      BY DEF InFlightDeduplicated
    <3>1. f \in Pipeline /\ g \in Pipeline /\ SameEntry(f) /\ SameEntry(g)
      BY <1>4, <2>3, <2>4
    <3>. QED BY <3>1 DEF SameEntry, Deduplicated, InFlightDeduplicated
  <2>. QED BY <1>2, <2>3, <2>5, <2>6, <2>7 DEF Deduplicated, Known
<1>. QED BY <1>5, <1>6

\* The other steps move entries, or have nothing to do with them.
LEMMA KnownMoves ==
    ASSUME IInv, PlacedOnce, Deduplicated,
           WorkerTakes \/ WorkerRead \/ UpdateSwap \/ UpdateEntryDone \/ ShutdownClear
    PROVE  Deduplicated'
<1>1. /\ ioQueue \in Seq(Requests) /\ ioDone \in Seq(Requests) /\ job \in 0..MaxRequests
      /\ done \in Seq(Requests) /\ Range(<<>>) = {} /\ Pipeline \cup Making \subseteq Requests
      /\ entry \in [Requests -> PendingLoad]
  BY PipelineTypes DEF IInv, TypeOK, Range
<1>2. UNCHANGED <<cache, pending, issued>> /\ SameTables /\ CacheGrows
  BY DEF WorkerTakes, WorkerRead, UpdateSwap, UpdateEntryDone, ShutdownClear, SameTables, CacheGrows,
         tables, asyncVars, queues
<1>3. op' = "submit" => op = "submit"
  BY DEF WorkerTakes, WorkerRead, UpdateSwap, UpdateEntryDone, ShutdownClear, callVars
<1>4. Making' \subseteq Making
  BY <1>2, <1>3 DEF Making
<1>5. \A e \in Requests : SameEntry(e)
  <2>1. CASE WorkerRead
    <3>1. PICK ok \in BOOLEAN : entry' = [entry EXCEPT ![job].ioOk = ok]
      BY <2>1 DEF WorkerRead
    <3>. QED BY <1>1, <3>1 DEF SameEntry, PendingLoad
  <2>2. CASE ~WorkerRead
    BY <2>2 DEF WorkerTakes, UpdateSwap, UpdateEntryDone, ShutdownClear, asyncVars, SameEntry
  <2>. QED BY <2>1, <2>2
<1>6. Pipeline' \subseteq Pipeline
  <2>1. CASE WorkerTakes
    <3>1. /\ job' = Head(ioQueue) /\ ioQueue' = Tail(ioQueue) /\ ioQueue # <<>>
          /\ UNCHANGED <<ioDone, done, mode>>
      BY <2>1 DEF WorkerTakes, callVars, updateVars
    <3>2. Range(ioQueue) = {job'} \cup Range(ioQueue') /\ Undone' = Undone
      BY <1>1, <3>1, QueueRanges DEF Undone
    <3>. QED BY <3>1, <3>2 DEF Pipeline
  <2>2. CASE WorkerRead
    <3>1. /\ worker = "read" /\ job' = 0 /\ ioDone' = Append(ioDone, job)
          /\ UNCHANGED <<ioQueue, done, mode>>
      BY <2>2 DEF WorkerRead, callVars, updateVars
    <3>2. job \in Requests /\ job # 0
      BY <1>1, <3>1 DEF IInv, ControlOK, Requests
    <3>3. Range(ioDone') = Range(ioDone) \cup {job} /\ Undone' = Undone
      BY <1>1, <3>1, <3>2, QueueRanges DEF Undone
    <3>. QED BY <3>1, <3>2, <3>3 DEF Pipeline
  <2>3. CASE UpdateSwap
    <3>1. /\ UNCHANGED <<ioQueue, job>> /\ mode' = "entry"
          /\ done' = ioDone /\ ioDone' = <<>>
      BY <2>3 DEF UpdateSwap, workerVars
    <3>. QED BY <1>1, <3>1 DEF Pipeline, Undone
  <2>4. CASE UpdateEntryDone
    <3>1. /\ UNCHANGED <<ioQueue, ioDone, job>> /\ mode = "fire" /\ mode' = "entry" /\ done' = Tail(done)
      BY <2>4 DEF UpdateEntryDone, asyncVars, queues, workerVars
    <3>. QED BY <3>1 DEF Pipeline, Undone
  <2>5. CASE ShutdownClear
    <3>1. UNCHANGED <<ioDone, job, done, mode>> /\ ioQueue' = <<>>
      BY <2>5 DEF ShutdownClear, workerVars, updateVars
    <3>. QED BY <1>1, <3>1 DEF Pipeline, Undone
  <2>. QED BY <2>1, <2>2, <2>3, <2>4, <2>5
<1>. QED BY <1>1, <1>2, <1>4, <1>5, <1>6, StillKnown

LEMMA KnownStill ==
    ASSUME IInv, PlacedOnce, Deduplicated, KeepsTables,
           \/ \E u \in Uuids : LoadAssetHit(u) \/ LoadAssetMiss(u) \/ Evict(u)
           \/ Shutdown \/ ClearCache \/ EvictUnused
           \/ \E b \in BOOLEAN : SetCacheEnabled(b)
           \/ \E u \in Uuids, p \in Paths : RegisterUuid(u, p)
           \/ \E p \in Paths : RegisterLoader(p)
           \/ LoaderReturns \/ ShutdownNotify \/ ShutdownJoin
           \/ WorkerQuits \/ WorkerWaits \/ SpuriousWakeup
           \/ UpdateNothing \/ UpdateReturn \/ UpdateLoaderFails
           \/ UpdateLoaderReturns \/ UpdateFire \/ CallbackReturns
           \/ UNCHANGED vars
    PROVE  Deduplicated'
<1> USE DEF vars, queues, tables, workerVars, asyncVars, updateVars, callVars, history
<1> DEFINE Same == /\ UNCHANGED <<ioQueue, ioDone, done, job, issued, pending, entry, path, loaders>>
                   /\ mode' \in {"fire", "callback"} <=> mode \in {"fire", "callback"}
                   /\ op' = "submit" => op = "submit" /\ cache' = cache
                   /\ CacheGrows
<1>1. Same
  <2>1. ASSUME NEW u \in Uuids, LoadAssetHit(u) \/ LoadAssetMiss(u) \/ Evict(u)
        PROVE  Same
    BY <2>1 DEF LoadAssetHit, LoadAssetMiss, Evict, KeepsTables, CacheGrows
  <2>2. CASE Shutdown \/ ClearCache \/ EvictUnused
    BY <2>2 DEF Shutdown, ClearCache, EvictUnused, KeepsTables, CacheGrows
  <2>3. ASSUME NEW b \in BOOLEAN, SetCacheEnabled(b) PROVE Same
    BY <2>3 DEF SetCacheEnabled, CacheGrows
  <2>4. ASSUME NEW u \in Uuids, NEW p \in Paths, RegisterUuid(u, p) PROVE Same
    BY <2>4 DEF RegisterUuid, KeepsTables
  <2>5. ASSUME NEW p \in Paths, RegisterLoader(p) PROVE Same
    BY <2>5 DEF RegisterLoader, KeepsTables
  <2>6. CASE LoadAssetFails \/ ShutdownNotify \/ ShutdownJoin
    BY <2>6 DEF LoadAssetFails, ShutdownNotify, ShutdownJoin, CacheGrows
  <2>7. CASE LoadAssetReturns
    <3>1. Publish(Head(loads), made') /\ op = "none" /\ op' = op
          /\ UNCHANGED <<ioQueue, ioDone, done, job, issued, pending, entry, path, loaders, mode>>
      BY <2>7 DEF LoadAssetReturns
    <3>2. CacheGrows
      BY <3>1 DEF Publish, CacheGrows, IInv, TypeOK
    <3>. QED BY <3>1, <3>2
  <2>8. CASE WorkerQuits \/ WorkerWaits \/ SpuriousWakeup
    BY <2>8 DEF WorkerQuits, WorkerWaits, SpuriousWakeup, CacheGrows
  <2>9. CASE UpdateNothing \/ UpdateReturn \/ UpdateLoaderFails
    BY <2>9 DEF UpdateNothing, UpdateReturn, UpdateLoaderFails, CacheGrows
  <2>10. CASE UpdateLoaderReturns \/ UpdateFire \/ CallbackReturns
    BY <2>10 DEF UpdateLoaderReturns, UpdateFire, CallbackReturns, CacheGrows
  <2>11. CASE UNCHANGED vars
    BY <2>11 DEF CacheGrows
  <2>. QED BY <2>1, <2>2, <2>3, <2>4, <2>5, <2>6, <2>7, <2>8, <2>9, <2>10, <2>11 DEF LoaderReturns
<1>2. Pipeline' = Pipeline /\ Making' \subseteq Making /\ (Making' # {} => cache' = cache)
  BY <1>1 DEF Pipeline, Undone, Making
<1>3. SameTables /\ \A e \in Pipeline \cup Making : SameEntry(e)
  BY <1>1 DEF SameTables, SameEntry
<1>. QED BY <1>1, <1>2, <1>3, StillKnown

\* While nothing is evicted and the tables stay as they were set up, no two
\* entries in flight have a loader to run for the same uuid: requests for a uuid
\* whose load is under way share that load.
THEOREM InFlightDeduplicatedAlways ==
    ASSUME KeepsTables
    PROVE  Spec => []InFlightDeduplicated
<1>1. Init => Deduplicated
  <2> SUFFICES ASSUME Init PROVE Deduplicated
    OBVIOUS
  <2>1. Range(<<>>) = {}
    BY DEF Range
  <2>2. Pipeline = {} /\ Making = {}
    BY <2>1 DEF Init, Pipeline, Undone, Making
  <2>. QED BY <2>2 DEF Deduplicated, Known, InFlightDeduplicated
<1>2. IInv /\ PlacedOnce /\ Deduplicated /\ [Next]_vars => Deduplicated'
  BY KnownRequest, KnownSubmit, KnownUpdate, KnownMoves, KnownStill
     DEF Next, AppStep, CallStep, UpdateStep, WorkerStep
<1>3. Deduplicated => InFlightDeduplicated
  BY DEF Deduplicated
<1>. QED BY <1>1, <1>2, <1>3, PlacedAlways, PTL DEF Spec

=============================================================================
