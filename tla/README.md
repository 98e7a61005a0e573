# Verification of the cocos4wasm core

TLA+ specifications of the parts of cocos4wasm that keep state across calls,
frames or threads, the TLC runs that check them on small instances, and the
theorems about them that TLAPS proves for every value of the constants.

cocos4wasm is a C++ fork of the Cocos Creator engine without its script layer.
One main thread runs the frame loop (`cocos/engine/Engine.cpp`, and
`demo/DemoGame.cpp:228-242` for the order of the pumps); worker threads load
files, render, decode audio and talk to the network.

## 1. The parts of the system

| Part | State it keeps | Operations | What is hard | What makes it correct |
|---|---|---|---|---|
| Asset manager (`cocos/asset`) | cache, pending table, two queues, worker flags | `loadAsync`, `loadAsset`, `update`, `shutdown`, eviction | two threads; loaders and callbacks re-enter it; dedup by uuid | no callback lost or called twice, one instance per uuid, the worker is never asleep over work |
| Component lifecycle (`cocos/core/component`, `scene-graph/Node`) | per-component flags, scheduler arrays with pending add/remove, queued starts, the node tree's active flags | `activateComp`, `deactivateComp`, `update`, `invokePendingStarts`, `setActive`, `addComponent`, `removeComponent`, `destroy` | every hook may re-enter any of them in the middle of a loop | `onLoad` once, `onEnable`/`onDisable` paired, no update of a disabled component, start before the first update |
| Message queue (`cocos/base/threading/MessageQueue`) | linked chunks of messages, written/pending/new counts, condition variable | `allocate`, `kick`, `kickAndWait`, `flushMessages`, `finishWriting`, `terminateConsumerThread` | lock-free counting between two threads, sleeping, chunk recycling | order and exactly-once delivery, no lost wakeup, no message read from a freed chunk |
| Event bus (`cocos/core/event/EventBus`) | ring of listener entries, ring of pending adds, list of pending removes, broadcast depth | `addListener`, `removeListener`, `broadcast` | a handler adds and destroys listeners of the bus that is dispatching | removed listeners are not called, the lists stay well formed |
| Scheduler (`cocos/base/Scheduler`) | per-target timer arrays, salvage flags, references to timers | `schedule`, `unschedule`, `pauseTarget`, `update` | timers change the table that `update` walks | nothing fires after it was unscheduled, no timer is skipped |
| Tween system (`cocos/tween`) | active tweens, step index and elapsed time of each | `start`, `stop`, `update` | callbacks stop and restart tweens in the loop | a tween fires each step once, a restarted tween survives |
| Event target, input dispatcher (`core/event/EventTarget.h`, `cocos/input`) | listener vectors, hovered and touched nodes | `on`, `off`, `emit`, dispatch of pointer events | handlers remove listeners and destroy nodes | no use of a destroyed node |
| GFX device agent (`renderer/gfx-agent/DeviceAgent`, `BufferAgent`) | frame index, frame semaphore, message queue, staging buffers with a slot per frame | `present`, `update`, `resize`, `setMultithreaded`, `copyTextureToBuffers` | the main and the device thread run a bounded number of frames apart and share memory nothing but that bound protects | never more than the maximum of frames in flight, no slot reused before its frame was uploaded, no deadlock |
| Command buffer flushing (`DeviceAgent::flushCommands`, `CommandBufferAgent`) | one message queue per command buffer, one chunk allocator for all of them | `flushCommands` of both agents, `FreeChunksInFreeQueue` | several readers free each other's chunks | nothing is read from a chunk that was given away |
| Engine loop (`cocos/engine`, `core/Root`) | tick order, pause/close flags | `tick`, `close`, `restart` | events arrive in the middle of a frame | pumps run in order once per frame |
| Thread helpers (`base/threading/*`, `base/ThreadPool`, `base/DeferredReleasePool`) | task queue, event, running flag | dispatch, start, stop | stop while workers sleep | stop terminates |
| HTTP client (`network/HttpClient`) and posted functions (`base/Scheduler`) | the singleton, request and response queues, count of users, posted functions | `send`, `sendImmediate`, `destroyInstance`, the two kinds of threads, `performFunctionInCocosThread` | a detached thread outlives the singleton; answers are functions of a later frame | the last user deletes the client, and only it; every request is answered once and in order |
| Downloads and sockets (`network/*`), asset updates (`extensions/assets-manager`) | download tasks and their threads, retry states | download, cancel, verify, retry | answers that race with cancellation | each task ends once |
| Audio (`audio/*`), physics (`physics/*`), frame graph (`renderer/frame-graph`), skeletons (`editor-support`) | player states, contact pairs, pass graph | play/stop, events, compile | callbacks on other threads, ordering | not modelled |
| GFX back ends, pipelines, 2d/ui rendering, math, reflection, serialization, platform | mostly data or device state | draw and parse | little state across calls | not modelled: pure computation, device calls or I/O |

The parts call each other as follows. The frame loop activates pending scenes,
runs `NodeActivator::invokePendingStarts`, `ComponentScheduler::update`,
`TweenSystem::update`, `AssetManager::update`, physics, and
`ComponentScheduler::lateUpdate`, and the renderer consumes what they produced.
User hooks called from each of them call back into the others, and the message
queue carries what the main thread records to the device thread, which flushes
one more message queue per command buffer.

`PROJECT.json` lists every part with its sources and status, the hazards of the
code at the lines where they bite, and for each hazard the property that would
notice it, or the reason why none does.

## 2. The modules

| Module | Models | Composes |
|---|---|---|
| `AssetManager` | `cocos/asset/AssetManager.{h,cpp}`, both threads | |
| `MessageStream` | what a message queue promises: a batch, a published part, execution in order | |
| `MessageQueue` | `base/threading/MessageQueue.{h,cpp}` with chunks, pointers, counts and the condition variable | refines `MessageStream` |
| `DeviceAgent` | frame pacing, staging buffers, waiting calls and mode switches of `renderer/gfx-agent` | its queue is a `MessageStream` of device commands |
| `CommandFlush` | the queues of the command buffers and of the device over one chunk allocator | each queue is a sequence, which `MessageQueue` justifies |
| `EventBus` | `core/event/EventBus.{h,cpp}` and `intl/List.h` | |
| `ComponentLife` | what `Component.h` promises of one component: the order of its hooks | |
| `ComponentLifecycle` | `NodeActivator`, `ComponentScheduler`, the tree of `Node`, deferred destruction, and the pumps of a frame | refines `ComponentLife` |
| `Scheduler` | the timers of `base/Scheduler.{h,cpp}` | |
| `HttpClient` | `network/HttpClient.cpp` with its threads, and the functions posted to the scheduler | |
| `Tween` | `tween/Tween.cpp`, `tween/TweenSystem.cpp` | |
| `MC*` | the values TLC needs for each of them | |
| `AssetManagerProofs`, `MessageQueueProofs`, `DeviceAgentProofs`, `CommandFlushProofs`, `SchedulerProofs`, `HttpClientProofs`, `ComponentLifecycleProofs` | theorems about the component of that name | |
| `CallbackLoopsProofs` | theorems about `EventBus` and `Tween`, the two loops that walk what their callbacks change | extends both, which is why the specification of `Tween` is `TweenSpec` |

In each module the variables carry the names of the members they stand for, one
action is one operation, handler or critical section, and the comment before an
action says which code it is. `PROJECT.json`, under "map", gives the source
lines of every definition. Some one-line helpers have a variant next to them
(`NotifyForgotten` before `Notify`): no action uses a variant; each stands for a
plausible slip and shows that a property would notice it.

**AssetManager.** A critical section of `_mutex` is one action, and so is a
step of the main thread between two of them. Loaders and callbacks are open:
while one runs (`AppRuns`) any call of the API may be made. Requests are numbered
and a pending record is named by the request that made it; assets are numbered
in the order they are built. The condition variable is the worker's control
point `wait`, with spurious wakeups. `cache`, `pending`, `ioQueue`, `ioDone` are
the members of those names, and `op`, `mode`, `done`, `result`, `firing` are the
main thread's place in `loadAsync`, `shutdown` and `update`. `answered`,
`dropped`, `handed` only record history. `loadUuidMap` is any uuid map in the
initial state, and `evictUnused` may drop any asset that no queued entry holds,
since what the application holds is not modelled. `update` is not called from
within a callback or a loader (AssetManager.h:28-41 makes it the frame loop's).

**MessageQueue.** The memory of the queue is an array of slots, a message or a
piece of data takes one, and chunks have `ChunkSlots` of them; a next pointer is
the address of a slot. The steps are those between two accesses to what both
threads touch: the atomic count, the mutex, the condition variable, the event,
the chunk pool. Counts wrap at `CountModulus`, in place of 2^32. `expect` and
`ran` are history. `_reader.currentMemoryChunk` is left out: the code sets it and
never uses it. The allocator's destruction at exit is left out.

**DeviceAgent.** `present`, `kickAndWait`, `setMultithreaded` and `doDestroy` are
split where they touch what the device thread touches. A staging slot holds the
number of the frame that filled it, and a command carries the frame that wrote
it, so "the device uploads another frame's bytes" is a comparison of two numbers.
In immediate mode the same commands are executed on the spot. Left out: the XR
branch of `present`, query pool results, commands that have no state of their
own, and partial writes into a slot (`GFXBuffer.cpp:84-95`, a hazard).

**CommandFlush.** What an allocation needs is left open: it fits in the writer's
chunk or takes any chunk the allocator may return. `home` says where each chunk
is, which is all the properties ask. Creating and destroying command buffers
while others record is left out.

**EventBus.** The rings are modelled pointer by pointer, as `List.h` writes them,
and the macros that walk them step by step, since what a callback does between
two steps is the point. Event arguments are left out.

**ComponentLifecycle.** One thread, but hooks call back: a hook, or the game code
that runs between the pumps (`scene` before the starts, `logic` between the two
passes), may make any call that `MayDo` gives it. The calls in progress are the
frames of `stack`, each with the locals of its function, so a hook that switches
a subtree runs inside the loop that called it. The tree has a root and nodes
attached to it. `life` is what the component was told so far and belongs to
`ComponentLife`: `KeepsContract` is that specification. Left out: destroying the
root, `Scene::activate`, which nothing calls, and a scene released while active.

What the hooks may call was found with TLC (`MayDoSafely`). With these limits all
properties but `KeepsContract` hold, and allowing any other call breaks one (in
`onDestroy` it is the code that breaks, on an iterator the model does not keep):

| Code | May call | Why not more |
|---|---|---|
| `scene`, `logic` | everything | |
| `onLoad`, `onEnable`, `update`, `lateUpdate` | all but `remove` | removing deletes the component a pass or an activation is at (`Node.cpp:1153-1156`) |
| `start` | `disable`, `deactivate`, `detach`, `destroy` | what it enables is updated before it is started (`ComponentScheduler.cpp:27`) |
| `onDisable` | the same | what it adds or activates in the subtree being switched off stays enabled (`NodeActivator.cpp:44-58`) |
| `onDestroy` | all but `add` and `remove` | `removeComponent` holds an iterator (`Node.cpp:1153`) |

In all of them a hook leaves alone the component that is being switched, its node
and the nodes above it (`MayUndo = FALSE`): the flags are set after the hook
returned (`NodeActivator.cpp:67-86`), so one that undoes what calls it runs twice.
`CallsSafely` is the conjunction of these limits; the code needs it and does not
ask for it.

The order of the hooks needs more, `CallsInOrder`. A component switched on after a
frame's starts, in `update` or between the passes, waits for the next frame's to be
started, but is put in the late pass of this one (`ComponentScheduler.cpp:80`, or 45
outside a pass): it sees `lateUpdate` before `start` and its first `update`. So in
`MayDoInOrder` the code that runs between a frame's starts and its late pass, `start`,
`update`, `onDestroy` and `logic`, switches nothing on. The run `cl` is within these
limits. The other properties do not depend on the order: their theorems are within
`CallsSafely`, and with `cl_wide.cfg` TLC checks them, and `StartedOrDisabled`, within
`MayDoSafely` (one call in each hook, 575,796 states, no error). A hook called out of
order does not stop the model: it marks the component in `life` (`broken`), which no
step of `ComponentLife` does.

**Scheduler.** A timer is an address in `Ids`, deleted when its last reference
goes. The steps of `update` are those between two callbacks, in each of which any
call may be made. `_hashForTimers` is an unordered map: `Visit` takes any of the
targets left, and a target that is added in the walk may or may not be visited,
and after a rehash so may the others (`disturbed`). Time comes in ticks.

**HttpClient.** The main thread, the detached network thread of each client and
the pool's threads of `sendImmediate` interleave between accesses to what they
share. A posted function is a number and what it is bound to; the batch of a
frame may be cut off after any function, as the 16 ms are (`Scheduler.cpp:350`).
A client is "unborn", "alive" or "deleted". The game uses the client it gets
from `getInstance` and no other. Left out: curl, cookies, certificates, and the
reference counts of requests and responses, which the network thread and the
main thread change without a lock (`HttpClient.cpp:96`): any count may result.
`EarlyDestroy` says whether `destroyInstance` may come before the network thread
has run its first line, see "What else TLC finds".

**Tween.** One turn of the loop in `Tween::update` is one action; the callback of
a step may start and stop tweens, with `RestartsItself` also its own. `elapsed`
and `called` add up a tween's time and calls since its start, to be compared with
where it is. Left out: what a step does to the node, and a tween without steps
or target, which its first update stops.

## 3. The runs

| Run | Instance | Distinct states | Shows |
|---|---|---|---|
| `am_core` | 2 uuids, one a sub-asset of the other; 3 requests, 2 assets, loaders that load; no optional operation | 247,502 | in-flight requests share a load, every caller of a uuid gets one instance |
| `am_live` | 1 uuid, 3 requests, 1 asset, every operation, fair | 128,552 | no callback called twice, none lost but those in entries a shutdown took out of the queue, no lost wakeup, no thread left; every other callback runs; `shutdown` returns |
| `mq` | 3 chunks of 3 slots, 2 messages, counts modulo 9, every call, fair | 150,456 | counts, wakeups, messages and data stay right; the queue refines the stream; waiting calls return |
| `cf` | 2 command buffers, 5 chunks, device thread flushing | 53,240 | readers' positions and commands' data survive the freeing by others |
| `cf_array` | the same | violated | the array of command buffers does not |
| `da` | 1 buffer, 2 staging buffers, 3 frames, at most 1 ahead, fair | 41,908 | pace, staging slots, waits |
| `eb` | 3 listeners, broadcasts nested twice | 19,359 | rings stay whole, nothing stays on the side, each listener called once |
| `cl` | a root, a node and 2 components that want both passes; 2 calls in each hook, 6 calls in progress, within `MayDoInOrder`; fair | 322,154 | each component sees its hooks in the promised order (refinement); flags, lists and queue agree with the tree; nothing dangles; what stays enabled is started |
| `sch` | 2 targets, 2 keys, 3 timers, frames of 1 or 2 ticks, 2 calls in each callback | 1,774,793 | entries go with their last timer, references agree with their holders, one update per frame, the last call ends a timer |
| `sch_every_frame` | the same | violated | a target that ends itself takes the next one's update with it |
| `hc` | 3 requests, 2 clients one after the other, fair | 105,390 | nobody comes to a deleted client; functions run in order; every response is dispatched, every request answered once and in order; the client is deleted |
| `tw` | 3 tweens, one of no duration; 2 frames of 0 to 3 ticks, 2 calls in each callback | 317,989 | the system has the running tweens and updates each once; no time and no call is lost or counted twice |

**Why these bounds.** Three requests are one that loads, one that rides on it and
one that comes when it is retired; two assets are needed for two instances of one
uuid, and a nesting of one for a loader that publishes under the feet of another.
A chunk of three slots holds a message and the switch message and begins with the
dummy, so that almost every allocation may switch; three chunks are the one
written, the one read and a stashed one that may be reused; counts modulo 9 wrap
many times. `MAX_CPU_FRAME_AHEAD` is 1 in the code, so three frames use each of
the two slots again, and two staging buffers let a resize free the one in use.
Two command buffers are one that frees and one still to be read. Three
listeners are one that is visited, one that is taken as next and one that is
added or destroyed, and a second level of broadcast is the first that must not
apply the pending changes. Two nodes and two components are one that is
switched and one that its hook switches, in one subtree or two; six calls in
progress let a hook's call run a hook that calls again. Two timers of one target
and one of another are what an index, a salvaged timer and a next target need;
a plan of two calls with a delay of one tick is behind by two calls after a
frame of two. Three requests and two clients let a request of the second meet a
thread of the first, and let one be sent while one is served and one is
answered. Frames of three ticks are as long as the longest sequence in `tw`, so steps
and cycles are carried over. The proofs lift these bounds for what they state.

**Symmetry** is used for chunks, listeners, targets, keys and timers only, in runs
without liveness. **Deadlock** is checked in all runs but `da`, where `doDestroy`
ends the program and `CallReturns` says that no call waits for ever, `hc`, where
the requests and the clients run out, and `tw`, where the frames do.

**Fairness.** `AssetManager!Fairness`: the worker and a call of the API that was
begun are scheduled (weak fairness). The frame loop calls `update` in every
frame, and a loader comes back, whatever the application does between, which may
disable these steps again and again; so strong fairness. Nothing is assumed of
the calls the application makes or of spurious wakeups. In `MessageQueue` and
`DeviceAgent` the producer goes on with a call it began and the consumer thread
is scheduled (weak fairness); no call ever has to begin. In `MessageStream` what
was published is executed. In `ComponentLifecycle` each call returns and frame
follows frame, whatever the hooks call. In `HttpClient` the threads run, and the
main thread ends what it began and goes on to the next frame (weak fairness);
that a frame runs a function is strong fairness, since the 16 ms may pass before
it in some frames, not in all.

**What the violations say.**

- `cf_array`: the `cmdBuffs` array of `DeviceAgent.cpp:397` lives in a chunk of
  the main queue which the first command buffer's `FreeChunksInFreeQueue` frees
  when the flush message was the first of a new chunk.
- `sch_every_frame`: after a target that was salvaged and removed, `Scheduler.cpp:399-404`
  advances the iterator twice, and `Scheduler.h:149` says "every frame".

**What else TLC finds.** These properties are stated in the modules next to those
the runs check, and TLC finds each violated. They are not listed as runs, to keep the
runs few; a cfg of its own, or the change of a run's, shows each.

| cfg | Property violated | What the code does |
|---|---|---|
| `am_erase` (only `evict`, 4 requests) | `InFlightDeduplicated` | `AssetManager.cpp:316` erases by uuid for every retired entry, also for one that hit the cache and never was in `_pending`. If the asset was evicted and requested again since, that record goes, and after another eviction a second load of the uuid begins beside the first; AssetManager.h:30-32 says "the loader runs once" |
| `am_restart` (only `shutdown`, 2 requests) | `RestartServesRequests` | `AssetManager.cpp:334` clears the queue and leaves `_pending`. A request made afterwards for the same uuid rides on the dropped record, starts no worker and is never called back; AssetManager.h:94-95 says that it "restarts the worker lazily" |
| `eb_pending` (`eb`, a listener may be destroyed in the broadcast it was created in) | `DetachesItsOwn` | `EventBus.cpp:51` detaches an entry from `_listenerList` that is on `_listenersToAdd`, against the assertion of List.h:59 |
| `cl_late` (`cl`, `update` may switch on) | `KeepsContract` | what an `update` switches on gets `lateUpdate` in the same frame (`ComponentScheduler.cpp:80`), before `start` and its first `update`; Component.h:19-21 has them the other way round |
| `cl_start` (`cl`, `start` may switch on) | `KeepsContract` | what a `start` switches on is updated in the same frame (`ComponentScheduler.cpp:27`) and started in the next |
| `cl_undo` (`cl`, `MayUndo = TRUE`) | `KeepsContract` | a disabled component whose `onLoad` enables it is told `onLoad` a second time from within the first (`NodeActivator.cpp:67`); Component.h:17 says "once" |
| `cl_removed` (`cl_wide`, `update` may only remove) | `PassEntryAlive` | `removeComponent` in an `update` deletes a component whose pointer stays in the pass's list (`ComponentScheduler.cpp:74`); ComponentScheduler.h:13 says that "mutation during iteration is supported" |
| `sch`, no change | `NotCalledAgain` | a timer whose callback unschedules it is called again in the same update (`Scheduler.cpp:83`) |
| `hc` with `EarlyDestroy = TRUE` | `UsedAlive` | the network thread counts itself when it runs (`HttpClient.cpp:84`), not when it is created: `destroyInstance` in between deletes the client under it |
| `tw_restart` (`tw`) | `StartedTicksLater` | a tween of the snapshot that is stopped and started again before its turn runs when it comes (`TweenSystem.cpp:40`), and is updated; the comment above the loop (36-37) says "from the next update" |
| `tw_repeat` (`tw`, the tween of no duration repeated 3 times) | `CalledAsOften` | an update that ends at `Tween.cpp:144-146` has counted a cycle, and the next update counts it again: `repeat(3)` calls twice |
| `tw` with `RestartsItself = TRUE` | `ProgressKept` | a callback that starts its own tween loses the first step of the new run (`Tween.cpp:159`) |

With `Multithreaded = TRUE`, three command buffers and three job threads,
`CursorOwned` of `CommandFlush` fails as well: one job thread's loop over the
shared free queue frees the chunk of the switch message another reader took
last, whose next pointer it is about to follow (`MessageQueue.cpp:269`). That
needs the job system to be on and is listed as a hazard.

## 4. The proofs

The theorems hold for all values of the constants that satisfy the named
assumptions (`ConstantsAssumption`, `SizeAssumption`, `DeviceAssumption`, `FlushAssumption`,
`BusAssumption`, `LifecycleAssumption`, `SchedulerAssumption`, `HttpClientAssumption`,
`TweenAssumption`), which only say
that bounds are numbers, that there is something to name, that names differ, and
that initially every buffer can have a staging buffer and every queue a chunk of
its own.

**`AssetManagerProofs`.** `TypeCorrect` proves `TypeOK`, with what each thread
holds at each control point (`ControlOK`) and the relation between the worker's
flags, its thread and the queue (`WorkerOK`); none of the three is inductive
alone. `QueuedWorkHasWorkerAlways` and `NoThreadLeftAlways` follow from it.
`CallbacksKept` proves that the only callbacks that can be lost are those in
entries a shutdown took out of `_ioQueue` (`NoLostCallback`), those that come to them
later included; `CallbacksUnderWay` that without a shutdown none is lost
(`EveryCallbackUnderWay`); and `CalledOnceAlways` that none runs twice, all from one
invariant with `LedgerOK`: the
pending table only names entries under way, or left behind by a shutdown, and
all numbers in use were issued. Without it `loadAsync` could ride on an entry
that was retired. Most steps only move entries between queues;
`MoveKeepsLedger` and `StillKeepsLedger` say once that moving loses nothing.

`OneInstanceAlways` adds `PlacedOnce` (an entry is in one place at a time) and
`InCache`: whatever was handed out for a uuid, and what the callbacks of the entry
being retired will get, is what the cache has, however often a loader published
another asset in between. It assumes `KeepsCache`: nothing is evicted and the
cache stays on, since otherwise a second instance is what the API promises.
`InFlightDeduplicatedAlways` rests on `Known`: an entry has a loader to run as long as
its uuid resolves and is not cached, and then `_pending` leads to it. It assumes
`KeepsTables`: a uuid or a loader that is registered while requests are in flight,
or an asset that is evicted, lets `AssetManager.cpp:316` erase a record that is
still needed (`am_erase` in section 3).

**`MessageQueueProofs`.** For every number and size of chunks, every pool and every
width of the counts, `CountsAgreeAlways`, `NoLostWakeupAlways`,
`MessagesIntactAlways`, `DataIntactAlways` and `DrainedWhenImmediateAlways`. None of
the five is inductive. The counts (`Account`) say that the reader follows a pointer
only to a message that was published, and that no count wraps over what it counts:
a call adds its own messages and a switch and a dummy for each (`Room`). The
pointers (`Chain`) say that what it finds there is the oldest message. The places
(`Places`) say that neither the slot it stands on nor data it still needs is given
away: a switch is the last message in its chunk and has its dummy right behind it
(`Switching`), messages are in chunks in use that the writer has passed (`Housed`),
the reader may stand in a stashed chunk only in front of that dummy (`Standing`),
and data may be left behind only by the switch just before its message
(`Supplied`, and `Prepared` while the message is not written yet). `Control` is
what the places of the two threads say of each other. There is a lemma for each
kind of change of the sequence, stated of any sequence, memory and chunks: a
message is executed (`Pop...`), a switch is and its chunk is stashed (`Leave...`), a
message is written (`Append...`), data is (`DataLinked`, `PassPlaced`), a chunk is
opened (`Open...`); `Opening` gathers what the last ones assume.

`StreamRefined` proves, from the same invariant, that every behaviour of the queue
is one of `MessageStream` (its safety; that what was published is executed stays
with TLC, as `ImplementsStream`). The stream is the part of `expect` the queue's user
wrote, so the mapping selects from a sequence. `SelectSeq` is recursive and out of
the prover's reach; `UserMessages` says instead that the n-th message is the one
whose place has rank n among the places of the user's. Two lemmas about it carry the
proof: a part that reads alike has the same messages, wherever it begins
(`SameMessages`), and the messages of two adjacent parts follow each other
(`SplitMessages`). A write is then an append, a switch adds nothing, a kick joins
the batch to what is visible, and an execution takes the head.

**`DeviceAgentProofs`.** `IInv` is inductive (`AgreementAlways`), and
`PaceAlwaysKept` and `StagedFramesAlwaysIntact` follow. The pace is arithmetic
over the semaphore and the two frame counts, but only because a present command
in the stream belongs to a frame the device has not presented: `FramesInOrder`.
That no slot is reused needs the pace, the order, and that the slot of a command
is as many places back around the ring as its frame is old (`SlotsFollowFrames`,
with `Back`): a slot is current again only `MAX_CPU_FRAME_AHEAD + 1` frames
later, when its commands are gone. That a staging buffer is still allocated needs
`StagingsOwned`: after the command that frees it none uses it. `WaitsAnswered` is
what lets the device go back to immediate mode with an empty stream. These
conjuncts are restated as predicates of a sequence (`Ordered`, `SlotsAt`,
`Staged`, `Owned`, `WaitsLast`), with one lemma each for appending a command and
for executing the head.

**`CommandFlushProofs`.** `CursorOwnedAlways` and `DataOwnedAlways` hold for every
number of command buffers and chunks and every size of the pool, if the device
thread flushes alone (`~Multithreaded`, the branch of `CommandBufferAgent.cpp:72-75`);
with job threads both fail, as said above. All queues share the free queue, so a
chunk is at the mercy of every other queue from the moment its switch message
stashed it. The invariant says for how long it is still needed: by the reader
until the dummy right behind the switch (`Standing`), by the data of a command for
one message more (`Supplied`), because the command is written together with the
switch that left its data behind, if there is one. At none of these messages can
another queue be at a `FreeChunksInFreeQueue` (`NobodyLeans`): command buffers are
flushed one at a time, and only while the main queue is at its flush message
(`OneAtATime`). `Chained` keeps the chunks of a queue's messages its own; what a
queue's invariant survives is said once each (`HomeKept`, `StashEmptied`,
`PopKeeps`, `SwitchKeeps`, `OpeningKeeps`, `AppendKeeps`). The array of a flush has
no such bound, and that is the finding of `cf_array`.

**`CallbackLoopsProofs`, of `EventBus`.** For any number of listeners and any nesting of broadcasts,
`RingsWholeAlways`, `NothingPendingAlways`, `CallsEachOnceAlways` and
`DetachesItsOwnAlways`, which says that the assertion of List.h:58-60 holds at each
of its three calls: that is why the model may leave out what a build without
assertions does when it fails. The entries on a ring are the smallest set that
has the head and is closed under `next` (`OnRing`), and `IsRing` says in the same way
that `next` leads from the head through the whole ring, so that no proof needs
induction along it; `Before` are the entries passed on the way to one.
`listAppend` and `detachFromList` have one lemma each for the rings and one for what
stays before what. `IInv` says that the two rings share no entry and
have every allocated one but the one being moved (`Rings`), that entries whose
listener is gone wait on the main ring for their removal (`Removals`), that pending
ones are moved from the last to the first (`Adding`), and of every broadcast that
is open (`Walks`): it is at an entry of the ring, has the next one still ahead, and
has called those it passed that were due, once. All assume
`~MayDestroyPending`, that no listener is destroyed in the broadcast it was created
in: the code needs it and does not ask for it (section 3).

**`SchedulerProofs`.** `NoEmptyEntryAlways`: whatever the callbacks call, a target
is in the table exactly while it has timers, except the current one, and then
`_currentTargetSalvaged` is set. The invariant adds where the walk is: between
targets no entry is empty, and a target is current only in the walk.
`RefsAgreeAlways`, `UpdatedOnceAlways` and `LastCallEndsAlways` need more of it:
no two timers of a target have one key and no timer is in two vectors (`Unique`,
`Placed`), a timer is referenced from its vector or, salvaged, by the scheduler
alone (`Counted`, `Current`), a callback that runs was due (`Due`), only the running
timer can have no calls left (`CallsLeft`), and, unless a callback disturbed
the vectors, the index splits them into those updated and those to come (`Frame`).

**`HttpClientProofs`.** `CountIsHolders`: `_threadCount` is the number of those
who hold the client; so the last of them deletes it, and `NoUseAfterDelete`
follows for threads and, with `Bound`, for posted functions: they are bound to a
client that the main thread still holds, because posting needs `_scheduler`,
which `destroyInstance` takes away before the main thread lets go. The count
changes one user at a time: `UserComes` and `UserLeaves` say so of a cardinality,
and every step is one of them or leaves all users (`UsersStay`). Both theorems
assume `~EarlyDestroy`, the condition the code needs and does not establish.
`FunctionsRunInOrder` needs no condition, nor do `ResponsesDispatchedAlways` and
`AnsweredInOrderAlways`. The first is a balance (`Balance`) of the responses of a
client against the dispatches posted for it. The second says of the requests of a
client that those in its response queue, the one in service and those in its
request queue are under way in the order they were sent, that what is under way was
not answered, and that a request is only dropped after the client was taken down,
with all that were sent after it (`Ordered`, `NotSent`, `AnsweredOnce`); `Stops` says that
the sentinel that ends a client's queue comes when no one can send to it.
`Shape` is the control invariant.

**`CallbackLoopsProofs`, of `Tween`.** `UpdatedOnceAlways`: for all sequences of steps and whatever the
callbacks start and stop, the system has exactly the running tweens, each once,
and updates in a frame those that run through it. The invariant says that the
snapshot still has every such tween that was not updated yet, that the tween
being updated runs, and that a tween's time never exceeds its step (`WithinStep`),
without which a step could leave more of the frame than there was. `RemoveOne`
says what erasing one element leaves of a sequence without repetitions.
`ProgressKeptAlways`: the ticks a tween was given are those of its whole cycles, of
the steps it has passed and of the step it is in, and its callbacks were called
once for each. A sum over steps would be recursive, so the time before a
step is the number of the ticks of the steps before it (`TimeBefore`), and
passing a step adds a disjoint set. `TimeInv` adds that a tween at a call, or at its
end, has no time of a step in progress, and that a cycle without duration is noticed
by the time since the last wrap (`SinceWrap`). It assumes `~RestartsItself`: a
callback that starts its own tween loses the first step (section 3).

**`ComponentLifecycleProofs`.** For any nodes and components, however many calls a
hook makes and however deep they nest: `FlagsAgreeAlways`, `SchedulerAgreesAlways`,
`NothingDanglingAlways`, and `KeepsContractAlways`, the refinement of
`ComponentLife`. All assume `CallsSafely`, the table in section 2, and the last one
its stronger form `CallsInOrder`. The
properties speak of the moments between calls, or of pointers; in the middle of
one, tree, flags, lists and what the components were told do differ, and the
invariant (`IInv`, an invariant of the run `cl` before it was proved) says by how
much:

- each difference belongs to a call in progress that will end it. A node that is
  active and should not be is under a frame that deactivates it (`NodesOn`); one
  that should be and is not has its parent still to be switched (`NodesOff`, with
  the places a loop has not come to, `Rest`); likewise components (`CompsOn`,
  `CompsOff`, `Excuses`), the scheduler's lists (`Lists`), the starts (`Queue`:
  in the queue or in the rest of the batch), and `life` against the `IS_..._CALLED`
  flags, which are set after the hook returned (`Lives`);
- a loop that is half way keeps its promise for the part it has done: the children
  and components a deactivation has passed stay off (`NodeCallOK`, `Been`), and
  nothing a hook may call shortens what a loop still walks;
- which calls are made from within which others (`MayBeAbove`): a call switches
  neither a node that a call outside it is switching nor the parent of one, nothing
  is switched on from within `onDisable` or a deactivation, and `removeComponent` only runs between
  the pumps. This is where `CallsSafely` enters, and without it none of the rest is
  inductive: a hook that reactivates what is being deactivated leaves the part
  behind the loop on.

`Nested` states the last of every pair of frames, so that pushing and popping need
one lemma each (`NestedPushed`, `Context`) and no induction over the stack. A step
is then one of a few: a call goes on, makes another, or returns (`GoesOn`, `CallsOn`,
`Pops`), a component begins to be switched on or off (`HookBegins`, `OffKeeps`), a
node is (`BeginSwitchKeeps`), or a pump follows another (`PhaseKeeps`); each has one
lemma for what it leaves of the invariant and one for each of its actions.
`ComponentLife` is implemented because within `CallsInOrder` no component is ever
marked as called out of order (`Lives'`, `UnbrokenCall`). For `lateUpdate` that needs one
invariant more (`LateReady`, in `Inductive`): from the end of a frame's starts to
its late pass nothing waits to be started and no call that switches on is in progress,
and in the late pass all that is in its list was started.
`Without`, the vectors' erase, is defined by the rank of the places that stay and
not by a recursion, so that what it leaves can be proved (`WithoutFacts`).

**Only model-checked**: liveness (`EveryCallbackFires`, `ShutdownReturns`,
`WaitReturns`, `CallReturns`, `StartedOrDisabled`, `EveryRequestAnswered`,
`ClientDeleted`, and the fairness in `ImplementsStream`), which needs ENABLED, beyond
the prover. Every safety invariant of the passing runs is proved.

## 5. The plan

The order follows what would hurt most if it went wrong. Done: `AssetManager`,
`MessageQueue` over `MessageStream`, `DeviceAgent` over `MessageStream`,
`CommandFlush`, `EventBus`, `ComponentLifecycle` over `ComponentLife`, `Scheduler`,
`HttpClient`, `Tween`. What would come next: `DeviceAgent` with the fields of a
staging slot one by one, for the partial writes of `Buffer::write`
(`GFXBuffer.cpp:84-95`); `base/ThreadPool`, whose `stopTasksByType` pushes tasks
back without waking a worker; the input dispatcher's hovered node on top of
`ComponentLifecycle`.

What remains to be proved is liveness, once the prover has ENABLED, and the
properties of section 3 that hold only under conditions the code does not
establish, if it comes to establish them.

## 6. What is not modelled

Pure computation (math, geometry, batching, animation curves, reflection and
deserialization, easing), device calls (the GFX back ends), and I/O (platform, files,
network transport, audio output). The parts that keep state and are left out are
listed in `PROJECT.json` with the reason.
