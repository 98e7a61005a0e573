----------------------------- MODULE AssetManager -----------------------------
(***************************************************************************)
(* cc::AssetManager (cocos/asset/AssetManager.{h,cpp}): the asset cache,   *)
(* the synchronous load path and the asynchronous one, which splits a load *)
(* between the main thread and one lazily started worker thread.           *)
(*                                                                         *)
(* A request is a call of loadAsync(); requests are numbered in call order *)
(* and a PendingLoad is named by the request that created it, so 0 stands  *)
(* for a null PendingPtr.  Assets are numbered in the order the loaders    *)
(* build them, and 0 stands for a null asset.  A critical section of       *)
(* _mutex is one step; loaders and callbacks run with the mutex released   *)
(* and may re-enter the API.                                               *)
(*                                                                         *)
(* A few one-line helpers come with a variant that carries a plausible     *)
(* slip (NotifyForgotten before Notify): no action uses the variants, they *)
(* stand in for the helper to show that a property would notice the slip.  *)
(***************************************************************************)
EXTENDS Integers, Sequences, FiniteSets, Functions

CONSTANTS Uuids,        \* the uuids the application names
          Paths,        \* relative paths a uuid-map entry may hold
          NoPath,       \* "not in the uuid map"
          BaseOf,       \* uuid -> the uuid left of '@' (itself without '@')
          MaxRequests,  \* bound: loadAsync() calls of a behaviour
          MaxAssets,    \* bound: assets the loaders can build
          MaxDepth,     \* bound: nesting of loadAsset() in loaders
          Ops           \* the optional operations the application uses

OpNames == {"register", "evict", "evictUnused", "setCacheEnabled", "shutdown"}

ASSUME ConstantsAssumption ==
    /\ Uuids # {}
    /\ NoPath \notin Paths
    /\ BaseOf \in [Uuids -> Uuids]
    /\ MaxRequests \in Nat /\ MaxAssets \in Nat /\ MaxDepth \in Nat
    /\ Ops \subseteq OpNames

Requests == 1..MaxRequests
Assets   == 1..MaxAssets

VARIABLES
  \* guarded by _mutex
    cache,      \* _cache: uuid -> asset
    pending,    \* _pending: uuid -> PendingLoad in flight
    ioQueue,    \* _ioQueue
    ioDone,     \* _ioDone
    quit,       \* _workerQuit
    running,    \* _workerRunning
    entry,      \* the PendingLoad records
  \* worker thread
    joinable,   \* _worker.joinable()
    worker,     \* where workerLoop() is
    job,        \* its local `job`
  \* main thread
    path,       \* _uuidToPath
    loaders,    \* paths whose extension is in _loaders
    cacheOn,    \* _cacheEnabled
    op,         \* the API call in progress, between its critical sections
    loads,      \* loadAsset() frames inside their loader, innermost first
    mode,       \* where update() is
    done,       \* update()'s local `done`, from the current entry on
    result,     \* update()'s local `result`
    firing,     \* update()'s local `callbacks`, those not yet called
  \* history
    issued,     \* number of loadAsync() calls so far
    made,       \* number of assets built so far
    answered,   \* requests whose callback ran
    dropped,    \* requests in _ioQueue when shutdown() cleared it
    handed      \* uuid -> assets handed out for it

tables     == <<path, loaders, cacheOn>>
workerVars == <<quit, running, joinable, worker, job>>
updateVars == <<mode, done, result, firing>>
history    == <<made, answered, dropped, handed>>
queues     == <<pending, ioQueue, ioDone>>
asyncVars  == <<queues, entry, workerVars>>
callVars   == <<op, loads, updateVars>>

vars == <<cache, asyncVars, tables, callVars, issued, history>>

PendingLoad == [uuid: Uuids, asset: 0..MaxAssets, needLoad: BOOLEAN,
                ioOk: BOOLEAN, callbacks: SUBSET Requests]

WorkerPCs == {"none", "loop", "wait", "read", "exit"}
OpPCs     == {"none", "submit", "notify", "join", "clear"}
Modes     == {"idle", "entry", "loader", "publish", "fire", "callback"}

TypeOK ==
    /\ cache \in [Uuids -> 0..MaxAssets]
    /\ pending \in [Uuids -> 0..MaxRequests]
    /\ ioQueue \in Seq(Requests) /\ ioDone \in Seq(Requests)
    /\ entry \in [Requests -> PendingLoad]
    /\ quit \in BOOLEAN /\ running \in BOOLEAN /\ joinable \in BOOLEAN
    /\ worker \in WorkerPCs /\ job \in 0..MaxRequests
    /\ path \in [Uuids -> Paths \cup {NoPath}]
    /\ loaders \subseteq Paths /\ cacheOn \in BOOLEAN
    /\ op \in OpPCs /\ mode \in Modes
    /\ loads \in Seq(Uuids) /\ done \in Seq(Requests)
    /\ result \in 0..MaxAssets /\ firing \subseteq Requests
    /\ issued \in 0..MaxRequests /\ made \in 0..MaxAssets
    /\ answered \subseteq Requests /\ dropped \subseteq Requests
    /\ handed \in [Uuids -> SUBSET Assets]

\* What a thread holds at each of its control points.
ControlOK ==
    /\ op = "submit" => issued # 0
    /\ mode \in {"loader", "publish", "fire", "callback"} => done # <<>>
    /\ mode = "idle" => done = <<>>
    /\ mode \notin {"fire", "callback"} => firing = {}
    /\ worker = "read" <=> job # 0

\* The worker's flags, its thread and its queue between the API calls.
WorkerOK ==
    /\ running <=> worker \in {"loop", "wait", "read"}
    /\ joinable <=> worker # "none"
    /\ worker = "exit" => quit
    /\ op \in {"notify", "join", "clear"} => quit
    /\ op = "clear" => worker = "none"
    /\ op \in {"none", "submit"} =>
          /\ quit => worker = "none"
          /\ worker \in {"none", "wait"} => ioQueue = <<>>

NewEntry(u, a, need, r) ==
    [uuid |-> u, asset |-> a, needLoad |-> need, ioOk |-> FALSE,
     callbacks |-> {r} \cap Requests]

\* The uuid map is loaded before the first request; any map will do.
Init ==
    /\ path \in [Uuids -> Paths \cup {NoPath}]
    /\ loaders \in SUBSET Paths
    /\ cacheOn = TRUE
    /\ cache = [u \in Uuids |-> 0]
    /\ pending = [u \in Uuids |-> 0]
    /\ ioQueue = <<>> /\ ioDone = <<>> /\ done = <<>> /\ loads = <<>>
    /\ entry = [r \in Requests |->
                    NewEntry(CHOOSE u \in Uuids : TRUE, 0, FALSE, 0)]
    /\ quit = FALSE /\ running = FALSE /\ joinable = FALSE
    /\ worker = "none" /\ job = 0
    /\ op = "none" /\ mode = "idle" /\ result = 0 /\ firing = {}
    /\ issued = 0 /\ made = 0 /\ answered = {} /\ dropped = {}
    /\ handed = [u \in Uuids |-> {}]

-----------------------------------------------------------------------------
(* Control: who runs on the main thread.                                   *)

\* Application code runs between frames, inside a loader update() called,
\* inside a callback, and inside the loader of a loadAsset().
AppRuns == op = "none" /\ (mode \in {"idle", "loader", "callback"} \/ loads # <<>>)

\* update() itself runs.
UpdateRuns == op = "none" /\ loads = <<>>

\* The path a uuid resolves to, by itself or by the uuid left of its '@'.
ResolvedPath(u) == IF path[u] # NoPath THEN path[u] ELSE path[BaseOf[u]]

\* findLoader() has a loader for it.
Loadable(u) == ResolvedPath(u) \in loaders

-----------------------------------------------------------------------------
(* The worker thread.                                                      *)

\* A notify of the condition variable wakes the worker blocked on it.
NotifyForgotten == UNCHANGED worker
Notify == worker' = IF worker = "wait" THEN "loop" ELSE worker

\* ensureWorkerLocked() starts the thread with its flags set ...
StartKeepsQuit == UNCHANGED quit /\ running' = TRUE /\ joinable' = TRUE
Start == quit' = FALSE /\ running' = TRUE /\ joinable' = TRUE

\* ... unless it runs already, and the notify follows.
EnsureWorker ==
    \/ running /\ Notify /\ UNCHANGED <<quit, running, joinable>>
    \/ ~running /\ (joinable => worker = "exit") /\ Start /\ worker' = "loop"

\* shutdown()'s _worker.join().
JoinSkipped == UNCHANGED <<joinable, worker>>
Join == (joinable => worker = "exit") /\ joinable' = FALSE /\ worker' = "none"

\* workerLoop() with the mutex held: told to quit, it leaves ...
WorkerQuits ==
    /\ worker = "loop" /\ quit
    /\ worker' = "exit"
    /\ running' = FALSE
    /\ UNCHANGED <<cache, queues, entry, quit, joinable, job, tables, callVars,
                   issued, history>>

\* ... with work queued it takes the first job and unlocks ...
WorkerTakes ==
    /\ worker = "loop" /\ ~quit /\ ioQueue # <<>>
    /\ worker' = "read"
    /\ job' = Head(ioQueue)
    /\ ioQueue' = Tail(ioQueue)
    /\ UNCHANGED <<cache, pending, ioDone, entry, quit, running, joinable,
                   tables, callVars, issued, history>>

\* ... and without any it blocks on the condition variable.
WorkerWaits ==
    /\ worker = "loop" /\ ~quit /\ ioQueue = <<>>
    /\ worker' = "wait"
    /\ UNCHANGED <<cache, queues, entry, quit, running, joinable, job, tables,
                   callVars, issued, history>>

\* The file was read, or could not be; the job goes to the main thread.
WorkerRead ==
    /\ worker = "read"
    /\ \E ok \in BOOLEAN : entry' = [entry EXCEPT ![job].ioOk = ok]
    /\ ioDone' = Append(ioDone, job)
    /\ job' = 0
    /\ worker' = "loop"
    /\ UNCHANGED <<cache, pending, ioQueue, quit, running, joinable, tables,
                   callVars, issued, history>>

\* A condition variable may wake without a notify.
SpuriousWakeup ==
    /\ worker = "wait"
    /\ worker' = "loop"
    /\ UNCHANGED <<cache, queues, entry, quit, running, joinable, job, tables,
                   callVars, issued, history>>

-----------------------------------------------------------------------------
(* loadAsync(): two critical sections with the uuid resolved in between.   *)

\* The first critical section, on a cache hit: complete on the next pump.
LoadAsyncHit(u) ==
    /\ AppRuns /\ issued < MaxRequests
    /\ cache[u] # 0
    /\ issued' = issued + 1
    /\ entry' = [entry EXCEPT ![issued'] =
                    NewEntry(u, cache[u], FALSE, issued')]
    /\ ioDone' = Append(ioDone, issued')
    /\ UNCHANGED <<cache, pending, ioQueue, workerVars, tables, callVars,
                   history>>

\* On a load in flight: ride on it.
LoadAsyncRide(u) ==
    /\ AppRuns /\ issued < MaxRequests
    /\ cache[u] = 0 /\ pending[u] # 0
    /\ issued' = issued + 1
    /\ entry' = [entry EXCEPT ![pending[u]].callbacks = @ \cup {issued'}]
    /\ UNCHANGED <<cache, queues, workerVars, tables, callVars, history>>

\* Otherwise: unlock, and fill in a new entry from the main-thread tables.
LoadAsyncMiss(u) ==
    /\ AppRuns /\ issued < MaxRequests
    /\ cache[u] = 0 /\ pending[u] = 0
    /\ issued' = issued + 1
    /\ entry' = [entry EXCEPT ![issued'] = NewEntry(u, 0, Loadable(u), issued')]
    /\ op' = "submit"
    /\ UNCHANGED <<cache, queues, workerVars, tables, loads, updateVars,
                   history>>

\* _pending.emplace(): an entry already there is kept.
EmplaceForgotten(u, e) == UNCHANGED pending
Emplace(u, e) == pending' = [pending EXCEPT ![u] = IF @ = 0 THEN e ELSE @]

\* The second critical section: hand the entry to the worker ...
SubmitLoad ==
    /\ op = "submit" /\ entry[issued].needLoad
    /\ op' = "none"
    /\ Emplace(entry[issued].uuid, issued)
    /\ ioQueue' = Append(ioQueue, issued)
    /\ EnsureWorker
    /\ UNCHANGED <<cache, ioDone, entry, job, tables, loads, updateVars,
                   issued, history>>

\* ... or report on the next pump that it cannot be resolved.
SubmitFailure ==
    /\ op = "submit" /\ ~entry[issued].needLoad
    /\ op' = "none"
    /\ ioDone' = Append(ioDone, issued)
    /\ UNCHANGED <<cache, pending, ioQueue, entry, workerVars, tables, loads,
                   updateVars, issued, history>>

-----------------------------------------------------------------------------
(* loadAsset(): the cache is read, the loader runs, the asset is published. *)

\* A hit returns at once.
LoadAssetHit(u) ==
    /\ AppRuns /\ cache[u] # 0
    /\ handed' = [handed EXCEPT ![u] = @ \cup {cache[u]}]
    /\ UNCHANGED <<cache, asyncVars, tables, callVars, issued, made, answered,
                   dropped>>

\* A miss that resolves enters the loader; one that does not returns null and
\* changes nothing.
LoadAssetMiss(u) ==
    /\ AppRuns /\ cache[u] = 0 /\ Loadable(u) /\ Len(loads) < MaxDepth
    /\ loads' = <<u>> \o loads
    /\ UNCHANGED <<cache, asyncVars, tables, op, updateVars, issued, history>>

\* What publishing a built asset for u does to the cache.
Publish(u, a) ==
    cache' = [cache EXCEPT ![u] = IF a # 0 /\ @ = 0 /\ cacheOn THEN a ELSE @]

\* The instance every caller of u then gets.
SharedNot(u, a) == a
Shared(u, a) == IF a # 0 /\ cache[u] # 0 THEN cache[u] ELSE a

\* The innermost loader returns null ...
LoadAssetFails ==
    /\ op = "none" /\ loads # <<>>
    /\ loads' = Tail(loads)
    /\ UNCHANGED <<cache, asyncVars, tables, op, updateVars, issued, history>>

\* ... or the asset it built.
LoadAssetReturns ==
    /\ op = "none" /\ loads # <<>>
    /\ made < MaxAssets
    /\ made' = made + 1
    /\ LET u == Head(loads)
       IN  /\ Publish(u, made')
           /\ handed' = [handed EXCEPT ![u] = @ \cup {Shared(u, made')}]
    /\ loads' = Tail(loads)
    /\ UNCHANGED <<asyncVars, tables, op, updateVars, issued, answered,
                   dropped>>

-----------------------------------------------------------------------------
(* update(): the main thread's pump.                                       *)

\* Nothing completed: an early return.
UpdateNothing ==
    /\ UpdateRuns /\ mode = "idle" /\ ioDone = <<>>
    /\ UNCHANGED vars

UpdateSwap ==
    /\ UpdateRuns /\ mode = "idle" /\ ioDone # <<>>
    /\ done' = ioDone /\ ioDone' = <<>>
    /\ mode' = "entry"
    /\ UNCHANGED <<cache, pending, ioQueue, entry, workerVars, tables, op,
                   loads, result, firing, issued, history>>

UpdateReturn ==
    /\ UpdateRuns /\ mode = "entry" /\ done = <<>>
    /\ mode' = "idle"
    /\ UNCHANGED <<cache, asyncVars, tables, op, loads, done, result, firing,
                   issued, history>>

\* The next entry: its asset, the cache's, a run of its loader, or null.
UpdateEntry ==
    /\ UpdateRuns /\ mode = "entry" /\ done # <<>>
    /\ LET e    == entry[Head(done)]
           hit  == e.needLoad /\ cache[e.uuid] # 0
           load == e.needLoad /\ cache[e.uuid] = 0 /\ e.ioOk
       IN  /\ result' = IF hit THEN cache[e.uuid] ELSE e.asset
           /\ entry' = [entry EXCEPT ![Head(done)].needLoad = @ /\ ~hit]
           /\ mode' = IF load THEN "loader" ELSE "publish"
    /\ UNCHANGED <<cache, queues, workerVars, tables, op, loads, done, firing,
                   issued, history>>

\* The entry's loader returns null ...
UpdateLoaderFails ==
    /\ UpdateRuns /\ mode = "loader"
    /\ mode' = "publish"
    /\ result' = 0
    /\ UNCHANGED <<cache, asyncVars, tables, op, loads, done, firing, issued,
                   history>>

\* ... or the asset it built.
UpdateLoaderReturns ==
    /\ UpdateRuns /\ mode = "loader"
    /\ made < MaxAssets
    /\ made' = made + 1
    /\ mode' = "publish"
    /\ result' = made'
    /\ UNCHANGED <<cache, asyncVars, tables, op, loads, done, firing, issued,
                   answered, dropped, handed>>

\* _pending.erase().
EraseForgotten(u) == UNCHANGED pending
Erase(u) == pending' = [pending EXCEPT ![u] = 0]

\* callbacks.swap(): the batch to call, taken out of the entry.
TakeCopies(e) == firing' = entry[e].callbacks /\ UNCHANGED entry
Take(e) == /\ firing' = entry[e].callbacks
           /\ entry' = [entry EXCEPT ![e].callbacks = {}]

\* Publish the asset, retire the pending entry, take over its callbacks.
UpdatePublish ==
    /\ UpdateRuns /\ mode = "publish"
    /\ LET u == entry[Head(done)].uuid
       IN  /\ result' = Shared(u, result)
           /\ Publish(u, result)
           /\ Erase(u)
    /\ Take(Head(done))
    /\ mode' = "fire"
    /\ UNCHANGED <<ioQueue, ioDone, workerVars, tables, op, loads, done,
                   issued, history>>

\* Call the next callback, in request order ...
UpdateFire ==
    /\ UpdateRuns /\ mode = "fire"
    /\ \E r \in firing :
          /\ \A s \in firing : r <= s
          /\ firing' = firing \ {r}
          /\ answered' = answered \cup {r}
    /\ mode' = "callback"
    /\ handed' = [handed EXCEPT ![entry[Head(done)].uuid] =
                     @ \cup ({result} \ {0})]
    /\ UNCHANGED <<cache, asyncVars, tables, op, loads, done, result, issued,
                   made, dropped>>

\* ... which returns.
CallbackReturns ==
    /\ UpdateRuns /\ mode = "callback"
    /\ mode' = "fire"
    /\ UNCHANGED <<cache, asyncVars, tables, op, loads, done, result, firing,
                   issued, history>>

UpdateEntryDone ==
    /\ UpdateRuns /\ mode = "fire" /\ firing = {}
    /\ mode' = "entry"
    /\ done' = Tail(done)
    /\ result' = 0
    /\ UNCHANGED <<cache, asyncVars, tables, op, loads, firing, issued,
                   history>>

-----------------------------------------------------------------------------
(* shutdown(): raise the flag, notify, join, clear the queue.              *)

Shutdown ==
    /\ "shutdown" \in Ops /\ AppRuns
    /\ quit' = TRUE
    /\ op' = "notify"
    /\ UNCHANGED <<cache, queues, entry, running, joinable, worker, job,
                   tables, loads, updateVars, issued, history>>

ShutdownNotify ==
    /\ op = "notify"
    /\ op' = "join"
    /\ Notify
    /\ UNCHANGED <<cache, queues, entry, quit, running, joinable, job, tables,
                   loads, updateVars, issued, history>>

ShutdownJoin ==
    /\ op = "join"
    /\ Join
    /\ op' = "clear"
    /\ UNCHANGED <<cache, queues, entry, quit, running, job, tables, loads,
                   updateVars, issued, history>>

ShutdownClear ==
    /\ op = "clear"
    /\ op' = "none"
    /\ ioQueue' = <<>>
    /\ dropped' = dropped \cup Range(ioQueue)
                    \cup UNION {entry[e].callbacks : e \in Range(ioQueue)}
    /\ UNCHANGED <<cache, pending, ioDone, entry, workerVars, tables, loads,
                   updateVars, issued, made, answered, handed>>

-----------------------------------------------------------------------------
(* Cache lifetime and setup.                                               *)

Evict(u) ==
    /\ "evict" \in Ops /\ AppRuns
    /\ cache' = [cache EXCEPT ![u] = 0]
    /\ UNCHANGED <<asyncVars, tables, callVars, issued, history>>

ClearCache ==
    /\ "evict" \in Ops /\ AppRuns
    /\ cache' = [u \in Uuids |-> 0]
    /\ UNCHANGED <<asyncVars, tables, callVars, issued, history>>

\* Assets that a queued entry or update() itself still refers to.
Pinned == {entry[e].asset : e \in Range(ioDone) \cup Range(done)} \cup {result}

\* evictUnused() drops what only the cache refers to: never a pinned asset,
\* and any set of the others, according to what the application holds.
EvictUnused ==
    /\ "evictUnused" \in Ops /\ AppRuns
    /\ \E D \in SUBSET {u \in Uuids : cache[u] \notin Pinned} :
          cache' = [u \in Uuids |-> IF u \in D THEN 0 ELSE cache[u]]
    /\ UNCHANGED <<asyncVars, tables, callVars, issued, history>>

SetCacheEnabled(b) ==
    /\ "setCacheEnabled" \in Ops /\ AppRuns
    /\ cacheOn' = b
    /\ UNCHANGED <<cache, asyncVars, path, loaders, callVars, issued, history>>

RegisterUuid(u, p) ==
    /\ "register" \in Ops /\ AppRuns
    /\ path' = [path EXCEPT ![u] = p]
    /\ UNCHANGED <<cache, asyncVars, loaders, cacheOn, callVars, issued,
                   history>>

RegisterLoader(p) ==
    /\ "register" \in Ops /\ AppRuns
    /\ loaders' = loaders \cup {p}
    /\ UNCHANGED <<cache, asyncVars, path, cacheOn, callVars, issued, history>>

-----------------------------------------------------------------------------

AppStep ==
    \/ \E u \in Uuids : \/ LoadAsyncHit(u) \/ LoadAsyncRide(u) \/ LoadAsyncMiss(u)
                       \/ LoadAssetHit(u) \/ LoadAssetMiss(u) \/ Evict(u)
    \/ Shutdown \/ ClearCache \/ EvictUnused
    \/ \E b \in BOOLEAN : SetCacheEnabled(b)
    \/ \E u \in Uuids, p \in Paths : RegisterUuid(u, p)
    \/ \E p \in Paths : RegisterLoader(p)

LoaderReturns == LoadAssetFails \/ LoadAssetReturns

CallStep == SubmitLoad \/ SubmitFailure
            \/ ShutdownNotify \/ ShutdownJoin \/ ShutdownClear

UpdateStep ==
    \/ UpdateNothing \/ UpdateSwap \/ UpdateReturn \/ UpdateEntry
    \/ UpdateLoaderFails \/ UpdateLoaderReturns \/ UpdatePublish \/ UpdateFire
    \/ CallbackReturns \/ UpdateEntryDone

WorkerStep == WorkerQuits \/ WorkerTakes \/ WorkerWaits \/ WorkerRead

Next == AppStep \/ LoaderReturns \/ CallStep \/ UpdateStep \/ WorkerStep
        \/ SpuriousWakeup

Spec == Init /\ [][Next]_vars

\* Both threads are scheduled.  Loaders and callbacks terminate and the game
\* loop calls update() every frame, whatever the application does between.
Fairness ==
    /\ WF_vars(WorkerStep) /\ WF_vars(CallStep)
    /\ SF_vars(LoaderReturns) /\ SF_vars(UpdateStep)

FairSpec == Spec /\ Fairness

-----------------------------------------------------------------------------
(* Properties.                                                             *)

\* Entries update() still has to retire; the first one of `done` is retired
\* once update() calls its callbacks.
Undone == IF mode \in {"fire", "callback"} THEN Range(Tail(done)) ELSE Range(done)

\* Entries on their way to update(), and the one loadAsync() is making.
Pipeline == Range(ioQueue) \cup ({job} \ {0}) \cup Range(ioDone) \cup Undone
Making   == IF op = "submit" THEN {issued} ELSE {}
Placed   == Pipeline \cup Making \cup dropped

\* Every number in use was issued, and loadAsync() only rides on entries that
\* are under way, or that a shutdown() left behind in _pending.
LedgerOK ==
    /\ Placed \subseteq 1..issued
    /\ \A e \in Requests : entry[e].callbacks \subseteq 1..issued
    /\ answered \cup firing \subseteq 1..issued
    /\ \A u \in Uuids : pending[u] # 0 =>
          entry[pending[u]].uuid = u /\ pending[u] \in Pipeline \cup dropped

\* The inductive invariant behind the properties below.
IInv == TypeOK /\ ControlOK /\ WorkerOK /\ LedgerOK

\* A callback handed to loadAsync() that was not called is in the batch
\* update() is calling, or in an entry update() will retire or a shutdown()
\* dropped: only those of dropped entries are lost.  A request that rides on
\* such an entry later is lost as well (RestartServesRequests).
NoLostCallback ==
    \A r \in 1..issued : r \in answered \cup firing
        \/ \E e \in Placed : r \in entry[e].callbacks

\* Without the exception: each callback that was not called will be.
EveryCallbackUnderWay ==
    \A r \in 1..issued : r \in answered \cup firing
        \/ \E e \in Pipeline \cup Making : r \in entry[e].callbacks

\* A callback is held in one place only and in none once it ran, so none of
\* them ever runs twice, however its request rode on other entries.
CalledOnce ==
    /\ \A e \in Requests : entry[e].callbacks \cap (answered \cup firing) = {}
    /\ \A e, f \in Requests :
          e # f => entry[e].callbacks \cap entry[f].callbacks = {}
    /\ firing \cap answered = {}

\* Queued work has a worker that will take it: no wakeup of the condition
\* variable is lost, no quit flag of an earlier shutdown() is left behind.
QueuedWorkHasWorker ==
    ioQueue # <<>> /\ op \in {"none", "submit"} =>
        running /\ ~quit /\ worker \in {"loop", "read"}

\* ensureWorkerLocked() never assigns a std::thread over a joinable one and
\* never waits, with the mutex held, for a worker that needs the mutex.
NoThreadLeft ==
    ~running /\ op \in {"none", "submit"} => ~joinable /\ worker \in {"none", "exit"}

\* Two requests for a uuid whose load is in flight share that load
\* (AssetManager.h:30, "the loader runs once, every callback fires").
InFlightDeduplicated ==
    \A e, f \in Pipeline : entry[e].needLoad /\ entry[f].needLoad
                            /\ entry[e].uuid = entry[f].uuid => e = f

\* All callers of a uuid share one instance, although the synchronous path,
\* its nested loaders and update() each build and publish assets.
OneInstance == \A u \in Uuids : \A a, b \in handed[u] : a = b

\* A request made after shutdown() is not tied to a request it dropped
\* (AssetManager.h:94, "loadAsync() after shutdown() restarts the worker").
RestartServesRequests == \A e \in dropped : entry[e].callbacks \subseteq dropped

\* Every callback eventually runs, unless it is in an entry that a shutdown()
\* dropped, before the request came to it or after.
EveryCallbackFires ==
    \A r \in Requests :
        r <= issued ~> \/ r \in answered
                       \/ \E e \in dropped : r \in entry[e].callbacks

\* shutdown() returns: the join never waits for a sleeping worker.
ShutdownReturns == (op = "notify") ~> (op = "none")

=============================================================================
