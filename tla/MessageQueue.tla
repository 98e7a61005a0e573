----------------------------- MODULE MessageQueue -----------------------------
(* cocos/base/threading/MessageQueue: the single-producer single-consumer    *)
(* queue that carries the commands of the main thread to the device thread.  *)
(*                                                                           *)
(* Messages and the data they point to are placed one after the other in     *)
(* memory chunks; a message holds the address of the next one, a full chunk  *)
(* ends in a MemoryChunkSwitchMessage, and the next chunk begins with a      *)
(* DummyMessage.  A chunk the consumer has left is stashed until a           *)
(* FreeChunksInFreeQueue message gives it back to the pool.                  *)
(*                                                                           *)
(* One action is one step between two accesses to state both threads touch:  *)
(* the written count, the mutex, the condition variable, the chunk pool, the *)
(* event of kickAndWait.  Every message and every piece of data takes one    *)
(* slot, a chunk has ChunkSlots of them.                                     *)
EXTENDS Integers, Sequences, FiniteSets

CONSTANTS Chunks,         \* every chunk malloc can return (bound on memory)
          ChunkSlots,     \* MEMORY_CHUNK_SIZE, in slots
          PoolCapacity,   \* MEMORY_CHUNK_POOL_CAPACITY
          CountModulus,   \* 2^32: the width of the message counts
          Bodies,         \* what a work message carries
          MaxOutstanding, \* bound: messages in the queue when a call begins
          MaxStash,       \* bound: stashed chunks when a call begins
          Ops             \* the calls the producer makes in this instance

OpNames == {"work", "dataWork", "kick", "kickAndWait", "finishWriting",
            "freeChunks", "setMultithreaded", "destroy"}

ASSUME SizeAssumption ==
    /\ Chunks # {}
    /\ ChunkSlots \in Nat /\ ChunkSlots >= 3
    /\ PoolCapacity \in Nat
    /\ MaxOutstanding \in Nat /\ MaxStash \in Nat
    /\ CountModulus \in Nat /\ CountModulus > MaxOutstanding + 6
    /\ Bodies # {}
    /\ Ops \subseteq OpNames

VARIABLES
  mem,       \* slot -> the message or data written there
  writer,    \* WriterContext without its atomic count
  written,   \* WriterContext::writtenMessageCount
  reader,    \* ReaderContext
  home,      \* where each chunk is: in use, stashed, pooled, not allocated
  immediate, \* _immediateMode
  attached,  \* _workerAttached
  wpc,       \* the producer's place in a call
  call,      \* the call it makes, with what the call carries
  todo,      \* the allocations the call still has to make
  data,      \* the data it allocated for its next message
  event,     \* the semaphore a call waits on
  cpc,       \* the consumer thread's place
  expect,    \* every message written and not executed, oldest first (ghost)
  ran        \* the message executed last (ghost)

memVars  == <<mem, home, expect>>
modeVars == <<immediate, attached>>
callVars == <<wpc, call, todo, data>>
vars == <<mem, writer, written, reader, home, immediate, attached,
          wpc, call, todo, data, event, cpc, expect, ran>>

Slots == Chunks \X (0 .. ChunkSlots - 1)
NoSlot == <<>>

WorkKinds    == {"work"}
ControlKinds == {"wait", "finish", "free", "terminate"}
QueueKinds   == {"switch", "dummy"}
MessageKinds == WorkKinds \cup ControlKinds \cup QueueKinds

NoBody == "none"
Cells  == [kind : MessageKinds \cup {"data", "garbage"}, body : Bodies \cup {NoBody},
           next : Slots \cup {NoSlot}, data : Slots \cup {NoSlot}]
Garbage == [kind |-> "garbage", body |-> NoBody, next |-> NoSlot, data |-> NoSlot]

\* uint32_t arithmetic on the counts.
Plus(a, b)  == IF a + b < CountModulus THEN a + b ELSE a + b - CountModulus
MinusUnwrapped(a, b) == a - b
Minus(a, b) == IF a >= b THEN a - b ELSE a - b + CountModulus

In(place) == {c \in Chunks : home[c] = place}
Pool  == In("pool")
Stash == In("stash")

-----------------------------------------------------------------------------
(* The memory allocator. *)

\* MemoryAllocator::request takes a pooled chunk if there is one.
RequestableStash == IF Pool # {} THEN Pool ELSE In("heap") \cup Stash
Requestable == IF Pool # {} THEN Pool ELSE In("heap")

\* What a chunk holds is no longer the queue's once the chunk is freed.
Wiped(m, c) == [s \in Slots |-> IF s[1] = c THEN Garbage ELSE m[s]]

\* MemoryAllocator::free.
Free(c) == /\ home' = [home EXCEPT ![c] = IF Cardinality(Pool) >= PoolCapacity
                                          THEN "heap" ELSE "pool"]
           /\ mem' = Wiped(mem, c)

\* recycleMemoryChunk: _freeChunksByUser is set, so the chunk is stashed.
RecycleAtOnce(c) == Free(c)
Recycle(c) == home' = [home EXCEPT ![c] = "stash"] /\ UNCHANGED mem

-----------------------------------------------------------------------------
(* Counts. *)

PullForgetsSnap(count, r) == [r EXCEPT !.new = Plus(r.new, Minus(count, r.snap))]
PullFrom(count, r) == [r EXCEPT !.new = Plus(r.new, Minus(count, r.snap)), !.snap = count]
Pulled == PullFrom(written, reader)

HasTwoMessages(r) == r.new > 1 /\ ~r.flushed
HasNewMessage(r) == r.new > 0 /\ ~r.flushed

Pushed == Plus(written, writer.pending)

-----------------------------------------------------------------------------
(* The producer.  A call is a few allocations, then perhaps a kick, then     *)
(* perhaps a wait for the consumer.                                          *)

\* The queue as its constructor leaves it, in immediate mode: a sentinel is
\* written, published, pulled and passed over.
Init ==
    /\ \E c \in Chunks :
         /\ home = [d \in Chunks |-> IF d = c THEN "used" ELSE "heap"]
         /\ mem = [s \in Slots |->
                     IF s = <<c, 0>>
                     THEN [kind |-> "dummy", body |-> NoBody, next |-> <<c, 1>>, data |-> NoSlot]
                     ELSE Garbage]
         /\ writer = [chunk |-> c, offset |-> 1, last |-> <<c, 0>>, pending |-> 0]
         /\ reader = [last |-> <<c, 0>>, snap |-> 1, new |-> 0,
                      terminate |-> FALSE, flushed |-> FALSE]
    /\ written = 1
    /\ immediate = TRUE /\ attached = FALSE
    /\ wpc = "idle" /\ call = [op |-> "kick", body |-> NoBody] /\ todo = <<>> /\ data = NoSlot
    /\ event = 0 /\ cpc = "none"
    /\ expect = <<>> /\ ran = [kind |-> "dummy", body |-> NoBody]

Begin(op, body, allocations, pc) ==
    /\ wpc = "idle"
    /\ op \in Ops
    /\ op \notin {"kick", "freeChunks"} => Cardinality(Stash) <= MaxStash
    /\ op # "kick" => Len(expect) <= MaxOutstanding
    /\ call' = [op |-> op, body |-> body]
    /\ todo' = allocations
    /\ wpc' = pc
    /\ data' = NoSlot
    /\ event' = 0

\* WRITE_MESSAGE, alone or after allocateAndCopy of the data it points to.
BeginWork ==
    /\ \E b \in Bodies : \/ Begin("work", b, <<"work">>, "alloc")
                         \/ Begin("dataWork", b, <<"data", "work">>, "alloc")
    /\ UNCHANGED <<mem, home, expect, writer, written, reader, modeVars, cpc, ran>>

\* kick; kickAndWait and freeChunksInFreeQueue enqueue a message first.
BeginKick ==
    /\ \/ Begin("kick", NoBody, <<>>, "push")
       \/ Begin("kickAndWait", NoBody, <<"wait">>, "alloc")
       \/ Begin("freeChunks", NoBody, <<"free">>, "alloc")
    /\ UNCHANGED <<mem, home, expect, writer, written, reader, modeVars, cpc, ran>>

BeginFinishWriting ==
    /\ ~immediate
    /\ Begin("finishWriting", NoBody, <<"finish">>, "alloc")
    /\ UNCHANGED <<mem, home, expect, writer, written, reader, modeVars, cpc, ran>>

\* DeviceAgent::setMultithreaded(true) leaves immediate mode and runs the
\* consumer thread; a first message goes to it.
BeginMultithreaded ==
    /\ immediate
    /\ ~attached
    /\ \E b \in Bodies : Begin("setMultithreaded", b, <<"work">>, "attach")
    /\ immediate' = FALSE
    /\ reader' = [reader EXCEPT !.terminate = FALSE, !.flushed = FALSE]
    /\ cpc' = "flush"
    /\ UNCHANGED <<mem, home, expect, writer, written, attached, ran>>

Attach ==
    /\ wpc = "attach"
    /\ attached' = TRUE
    /\ wpc' = "alloc"
    /\ UNCHANGED <<memVars, writer, written, reader, immediate, call, todo, data, event, cpc, ran>>

\* setMultithreaded(false) and DeviceAgent::doDestroy send a last message and
\* terminate the consumer thread.
BeginTerminate ==
    /\ ~immediate
    /\ attached
    /\ \E b \in Bodies, op \in {"setMultithreaded", "destroy"} :
          Begin(op, b, <<"work", "terminate">>, "alloc")
    /\ UNCHANGED <<mem, home, expect, writer, written, reader, modeVars, cpc, ran>>

\* Destroying a queue in immediate mode: no thread to terminate.
BeginDestroy ==
    /\ immediate
    /\ \E b \in Bodies : Begin("destroy", b, <<>>, "delete")
    /\ UNCHANGED <<mem, home, expect, writer, written, reader, modeVars, cpc, ran>>

-----------------------------------------------------------------------------
(* allocateImpl: one slot, in this chunk or in the next. *)

Here      == <<writer.chunk, writer.offset>>
AfterHere == <<writer.chunk, writer.offset + 1>>

\* The slot and a MemoryChunkSwitchMessage after it still fit in the chunk.
Fits == writer.offset + 2 <= ChunkSlots

\* In immediate mode a message is executed on the spot and takes no memory.
Stored == Head(todo) = "data" \/ ~immediate

Switch(next) == [kind |-> "switch", body |-> NoBody, next |-> next, data |-> NoSlot]
Dummy(next)  == [kind |-> "dummy", body |-> NoBody, next |-> next, data |-> NoSlot]
Entry(at, cell) == [at |-> at, kind |-> cell.kind, body |-> cell.body, data |-> cell.data]

\* The full chunk is closed by a switch message and the new one opened by a
\* dummy, both for the consumer to execute.
SwitchChunk ==
    /\ wpc = "alloc" /\ ~Fits /\ ~immediate
    /\ \E c \in Requestable :
         /\ home' = [home EXCEPT ![c] = "used"]
         /\ mem' = [mem EXCEPT ![Here] = Switch(<<c, 0>>), ![<<c, 0>>] = Dummy(<<c, 1>>)]
         /\ writer' = [chunk |-> c, offset |-> 1, last |-> <<c, 0>>,
                       pending |-> Plus(writer.pending, 2)]
         /\ expect' = expect \o <<Entry(Here, Switch(<<c, 0>>)), Entry(<<c, 0>>, Dummy(<<c, 1>>))>>
    /\ UNCHANGED <<written, reader, modeVars, callVars, event, cpc, ran>>

\* executeMessages, twice: the reader ends at the dummy.
ExecutesOne(r, dummy) == [r EXCEPT !.last = dummy, !.new = Minus(@, 1)]
ExecutesBoth(r, dummy) == [r EXCEPT !.last = dummy, !.new = Minus(@, 2)]

\* In immediate mode the producer pushes, pulls and executes both at once.
SwitchChunkImmediate ==
    /\ wpc = "alloc" /\ ~Fits /\ immediate /\ Stored
    /\ \E c \in Requestable :
         /\ home' = [home EXCEPT ![c] = "used", ![writer.chunk] = "stash"]
         /\ mem' = [mem EXCEPT ![Here] = Switch(<<c, 0>>), ![<<c, 0>>] = Dummy(<<c, 1>>)]
         /\ writer' = [chunk |-> c, offset |-> 1, last |-> <<c, 0>>, pending |-> 0]
         /\ written' = Plus(written, Plus(writer.pending, 2))
         /\ reader' = ExecutesBoth(PullFrom(written', reader), <<c, 0>>)
    /\ UNCHANGED <<modeVars, callVars, event, cpc, expect, ran>>

\* Where a call goes when its allocations are done.
AfterAllocations ==
    /\ todo' = Tail(todo)
    /\ wpc' = IF Len(todo) > 1 THEN "alloc"
              ELSE IF call.op \in {"work", "dataWork"} \/ (call.op = "setMultithreaded" /\ Head(todo) = "work")
                   THEN "idle" ELSE "push"

\* allocate<T>, general purpose: the last message now ends after the data.
AllocateData ==
    /\ wpc = "alloc" /\ Head(todo) = "data" /\ Fits
    /\ mem' = [mem EXCEPT ![Here] = [kind |-> "data", body |-> call.body,
                                     next |-> NoSlot, data |-> NoSlot],
                          ![writer.last].next = AfterHere]
    /\ writer' = [writer EXCEPT !.offset = @ + 1]
    /\ data' = Here
    /\ AfterAllocations
    /\ UNCHANGED <<home, expect, written, reader, modeVars, call, event, cpc, ran>>

\* allocate<T>, message, and its constructor.
AllocateMessage ==
    LET cell == [kind |-> Head(todo), body |-> IF Head(todo) = "work" THEN call.body ELSE NoBody,
                 next |-> AfterHere, data |-> data]
    IN  /\ wpc = "alloc" /\ Head(todo) # "data" /\ Fits /\ ~immediate
        /\ mem' = [mem EXCEPT ![Here] = cell]
        /\ writer' = [writer EXCEPT !.offset = @ + 1, !.last = Here, !.pending = Plus(@, 1)]
        /\ expect' = Append(expect, Entry(Here, cell))
        /\ data' = NoSlot
        /\ AfterAllocations
        /\ UNCHANGED <<home, written, reader, modeVars, call, event, cpc, ran>>

\* WRITE_MESSAGE in immediate mode: nothing is written, the producer runs it.
ExecuteDirectly ==
    /\ wpc = "alloc" /\ immediate /\ Head(todo) \in {"work", "wait"}
    /\ ran' = [kind |-> Head(todo), body |-> IF Head(todo) = "work" THEN call.body ELSE NoBody]
    /\ event' = IF Head(todo) = "wait" THEN 1 ELSE event
    /\ data' = NoSlot
    /\ AfterAllocations
    /\ UNCHANGED <<memVars, writer, written, reader, modeVars, call, cpc>>

\* FreeChunksInFreeQueue run by the producer, one chunk at a time.
FreeDirectly ==
    /\ wpc = "alloc" /\ immediate /\ Head(todo) = "free"
    /\ \/ /\ \E c \in Stash : Free(c)
          /\ UNCHANGED <<wpc, todo, data, ran>>
       \/ /\ Stash = {}
          /\ ran' = [kind |-> "free", body |-> NoBody]
          /\ data' = NoSlot
          /\ AfterAllocations
          /\ UNCHANGED <<home, mem>>
    /\ UNCHANGED <<expect, writer, written, reader, modeVars, call, event, cpc>>

-----------------------------------------------------------------------------
(* kick, and the waits of kickAndWait and terminateConsumerThread. *)

\* pushMessages: the batch becomes the consumer's.
PushMessages ==
    /\ wpc = "push"
    /\ written' = Pushed
    /\ writer' = [writer EXCEPT !.pending = 0]
    /\ wpc' = "notify"
    /\ UNCHANGED <<memVars, reader, modeVars, call, todo, data, event, cpc, ran>>

\* kick takes the mutex for notify_all.
IgnoreMutex == TRUE
MutexFree == cpc # "locked"

AfterKick == IF call.op \in {"kickAndWait", "setMultithreaded", "destroy"} THEN "await" ELSE "idle"

NotifyAll ==
    /\ wpc = "notify" /\ MutexFree
    /\ cpc' = IF cpc = "waiting" THEN "woken" ELSE cpc
    /\ wpc' = AfterKick
    /\ UNCHANGED <<memVars, writer, written, reader, modeVars, call, todo, data, event, ran>>

\* event.wait() on the stack of the call.
AwaitEvent ==
    /\ wpc = "await" /\ event = 1
    /\ event' = 0
    /\ wpc' = IF call.op = "kickAndWait" THEN "idle" ELSE "join"
    /\ UNCHANGED <<memVars, writer, written, reader, modeVars, call, todo, data, cpc, ran>>

\* terminateConsumerThread joins the thread; setMultithreaded goes on to
\* immediate mode, doDestroy to the destructor.
JoinConsumer ==
    /\ wpc = "join" /\ cpc = "exited"
    /\ cpc' = "none"
    /\ immediate' = IF call.op = "setMultithreaded" THEN TRUE ELSE immediate
    /\ wpc' = IF call.op = "setMultithreaded" THEN "idle" ELSE "delete"
    /\ UNCHANGED <<memVars, writer, written, reader, attached, call, todo, data, event, ran>>

\* ~MessageQueue recycles the writer's chunk.
Delete ==
    /\ wpc = "delete"
    /\ Recycle(writer.chunk)
    /\ wpc' = "gone"
    /\ UNCHANGED <<expect, writer, written, reader, modeVars, call, todo, data, event, cpc, ran>>

\* The queue no longer exists.
Gone == wpc = "gone" /\ UNCHANGED vars

-----------------------------------------------------------------------------
(* The consumer thread: consumerThreadLoop, flushMessages, readMessage. *)

consumerKeeps == <<writer, written, immediate, callVars>>

\* The loop of flushMessages, until a message ends it.
KeepFlushing ==
    /\ cpc = "flush" /\ ~reader.flushed
    /\ cpc' = "read"
    /\ UNCHANGED <<consumerKeeps, memVars, reader, attached, event, ran>>

FlushDone ==
    /\ cpc = "flush" /\ reader.flushed /\ ~reader.terminate
    /\ reader' = [reader EXCEPT !.flushed = FALSE]
    /\ UNCHANGED <<consumerKeeps, memVars, attached, event, cpc, ran>>

ThreadExits ==
    /\ cpc = "flush" /\ reader.flushed /\ reader.terminate
    /\ reader' = [reader EXCEPT !.flushed = FALSE]
    /\ attached' = FALSE
    /\ cpc' = "exited"
    /\ UNCHANGED <<consumerKeeps, memVars, event, ran>>

\* readMessage: follow the last message's next pointer.
TakeMessage ==
    /\ cpc = "read" /\ HasNewMessage(reader)
    /\ reader' = [reader EXCEPT !.last = mem[reader.last].next, !.new = Minus(@, 1)]
    /\ cpc' = "execute"
    /\ UNCHANGED <<consumerKeeps, memVars, attached, event, ran>>

\* Nothing left: pull under the mutex, and keep it if there is still nothing.
PullUnderLock ==
    /\ cpc = "read" /\ ~HasNewMessage(reader)
    /\ reader' = Pulled
    /\ cpc' = IF HasNewMessage(reader') THEN "read" ELSE "locked"
    /\ UNCHANGED <<consumerKeeps, memVars, attached, event, ran>>

\* _condVar.wait gives the mutex up as it starts to wait.
StartWaiting ==
    /\ cpc = "locked"
    /\ cpc' = "waiting"
    /\ UNCHANGED <<consumerKeeps, memVars, reader, attached, event, ran>>

SpuriousWakeup ==
    /\ cpc = "waiting"
    /\ cpc' = "woken"
    /\ UNCHANGED <<consumerKeeps, memVars, reader, attached, event, ran>>

PullAfterWait ==
    /\ cpc = "woken"
    /\ reader' = Pulled
    /\ cpc' = "read"
    /\ UNCHANGED <<consumerKeeps, memVars, attached, event, ran>>

Current == mem[reader.last]

Executed == /\ ran' = IF Current.kind \in QueueKinds THEN ran
                     ELSE [kind |-> Current.kind, body |-> Current.body]
            /\ expect' = Tail(expect)

ExecutePlain ==
    /\ cpc = "execute" /\ Current.kind \in {"work", "dummy"}
    /\ Executed
    /\ cpc' = "flush"
    /\ UNCHANGED <<consumerKeeps, mem, home, reader, attached, event>>

\* finishWriting ends this flushMessages.
ExecuteFinish ==
    /\ cpc = "execute" /\ Current.kind = "finish"
    /\ reader' = [reader EXCEPT !.flushed = TRUE]
    /\ Executed
    /\ cpc' = "flush"
    /\ UNCHANGED <<consumerKeeps, mem, home, attached, event>>

\* WaitUntilFinish signals the event of the call that waits.
ExecuteWait ==
    /\ cpc = "execute" /\ Current.kind = "wait"
    /\ event' = 1
    /\ Executed
    /\ cpc' = "flush"
    /\ UNCHANGED <<consumerKeeps, mem, home, reader, attached>>

ExecuteTerminate ==
    /\ cpc = "execute" /\ Current.kind = "terminate"
    /\ reader' = [reader EXCEPT !.terminate = TRUE, !.flushed = TRUE]
    /\ event' = 1
    /\ Executed
    /\ cpc' = "flush"
    /\ UNCHANGED <<consumerKeeps, mem, home, attached>>

\* FreeChunksInFreeQueue dequeues and frees until the stash is empty.
ExecuteFreeOne ==
    /\ cpc = "execute" /\ Current.kind = "free"
    /\ \E c \in Stash : Free(c)
    /\ UNCHANGED <<consumerKeeps, expect, reader, attached, event, cpc, ran>>

ExecuteFreeDone ==
    /\ cpc = "execute" /\ Current.kind = "free" /\ Stash = {}
    /\ Executed
    /\ cpc' = "flush"
    /\ UNCHANGED <<consumerKeeps, mem, home, reader, attached, event>>

\* A switch message pulls, then its destructor recycles the chunk it is in.
ExecuteSwitch ==
    /\ cpc = "execute" /\ Current.kind = "switch"
    /\ reader' = Pulled
    /\ cpc' = "destroy"
    /\ UNCHANGED <<consumerKeeps, memVars, attached, event, ran>>

DestroySwitch ==
    /\ cpc = "destroy"
    /\ Recycle(reader.last[1])
    /\ Executed
    /\ cpc' = "flush"
    /\ UNCHANGED <<consumerKeeps, reader, attached, event>>

-----------------------------------------------------------------------------
ProducerBegins == \/ BeginWork \/ BeginKick \/ BeginFinishWriting
                  \/ BeginMultithreaded \/ BeginTerminate \/ BeginDestroy

ProducerStep == \/ Attach \/ SwitchChunk \/ SwitchChunkImmediate
                \/ AllocateData \/ AllocateMessage \/ ExecuteDirectly \/ FreeDirectly
                \/ PushMessages \/ NotifyAll \/ AwaitEvent \/ JoinConsumer \/ Delete

ConsumerStep == \/ KeepFlushing \/ FlushDone \/ ThreadExits
                \/ TakeMessage \/ PullUnderLock \/ StartWaiting \/ PullAfterWait
                \/ ExecutePlain \/ ExecuteFinish \/ ExecuteWait \/ ExecuteTerminate
                \/ ExecuteFreeOne \/ ExecuteFreeDone \/ ExecuteSwitch \/ DestroySwitch

Next == ProducerBegins \/ ProducerStep \/ ConsumerStep \/ SpuriousWakeup \/ Gone

Spec == Init /\ [][Next]_vars

\* A call that has begun goes on, and the consumer thread is scheduled; no
\* call has to be made, and no wakeup has to be spurious.
FairSpec == Spec /\ WF_vars(ProducerStep) /\ WF_vars(ConsumerStep)

-----------------------------------------------------------------------------
(* Properties *)

Calls == [op : OpNames, body : Bodies \cup {NoBody}]
Entries == [at : Slots, kind : MessageKinds, body : Bodies \cup {NoBody},
            data : Slots \cup {NoSlot}]
Counts == 0 .. CountModulus - 1

\* The states the queue and its two threads can be in.
TypeOK ==
    /\ mem \in [Slots -> Cells]
    /\ home \in [Chunks -> {"used", "stash", "pool", "heap"}]
    /\ writer \in [chunk : Chunks, offset : 0 .. ChunkSlots - 1, last : Slots, pending : Counts]
    /\ written \in Counts
    /\ reader \in [last : Slots, snap : Counts, new : Counts, terminate : BOOLEAN, flushed : BOOLEAN]
    /\ immediate \in BOOLEAN /\ attached \in BOOLEAN
    /\ wpc \in {"idle", "attach", "alloc", "push", "notify", "await", "join", "delete", "gone"}
    /\ call \in Calls
    /\ todo \in Seq({"data"} \cup WorkKinds \cup ControlKinds)
    /\ data \in Slots \cup {NoSlot}
    /\ event \in {0, 1}
    /\ cpc \in {"none", "flush", "read", "locked", "waiting", "woken", "execute", "destroy", "exited"}
    /\ expect \in Seq(Entries)
    /\ ran \in [kind : MessageKinds, body : Bodies \cup {NoBody}]

\* The message being executed, which is the first one expected.
InHand == IF cpc \in {"execute", "destroy"} THEN 1 ELSE 0

\* Published and not yet pulled.
Behind == Minus(written, reader.snap)

\* The counts of the two contexts, kept by two threads without a lock and
\* wrapping at 2^32, account for every message that is written and not
\* executed: the one in hand, the pulled, the published and the pending ones;
\* and they stay in their width, as all of the state keeps its type.
\* (pushMessages, pullMessages, readMessage, MessageQueue.cpp:229-274.)
CountsAgree == TypeOK /\ Len(expect) = InHand + reader.new + Behind + writer.pending

\* A consumer that waits has seen everything that was published, unless a
\* notification is on its way: kick publishes before it takes the mutex, and
\* readMessage pulls after it took it.  (MessageQueue.cpp:119-124, 260-267.)
NoLostWakeup ==
    cpc = "waiting" /\ (Behind > 0 \/ reader.new > 0) => wpc = "notify"

\* From the reader's last message, the next pointers in memory lead through
\* exactly the messages written and not executed, in the order they were
\* written and with the contents they were given, and end at the writer's
\* position: no message is skipped, repeated or overwritten, however chunks
\* are switched, stashed, freed and reused.
NextOf(i) == IF i < Len(expect) THEN expect[i + 1].at ELSE Here
MessagesIntact ==
    wpc # "gone" =>
    /\ \A i \in 1 .. Len(expect) :
         LET cell == mem[expect[i].at] IN
         /\ Entry(expect[i].at, cell) = expect[i]
         /\ cell.next = NextOf(i)
    /\ IF InHand = 1 THEN reader.last = expect[1].at
                     ELSE mem[reader.last].next = NextOf(0)

\* The data a message points to is still there when the message is executed,
\* although the chunk it is in may have been left by then: allocateAndCopy can
\* fill one chunk and the message begin the next.  Chunks are stashed until a
\* message freed them for this ("recycled chunks will be stashed until
\* explicit free instruction", MessageQueue.h:182).
DataIntact ==
    \A i \in 1 .. Len(expect) :
       expect[i].data # NoSlot => /\ mem[expect[i].data].kind = "data"
                                  /\ mem[expect[i].data].body = expect[i].body

\* Immediate mode begins and ends with an empty queue and no consumer thread,
\* which is what makes it safe for the producer to read its own messages
\* (CC_ASSERT_EQ(_reader.newMessageCount, 2), MessageQueue.cpp:221).
DrainedWhenImmediate ==
    immediate => /\ expect = <<>> /\ writer.pending = 0 /\ reader.new = 0 /\ Behind = 0
                 /\ cpc = "none"
                 /\ wpc # "gone" => mem[reader.last].next = Here

\* The queue as a stream: what is written and not executed, without the
\* messages the queue adds itself: the n-th is the one at the place that has
\* n places of the user's up to it (the selection of SelectSeq, without its
\* recursion).
StreamMessages == [kind : MessageKinds, body : Bodies \cup {NoBody}]
AsMessage(e) == [kind |-> e.kind, body |-> e.body]
UserPlaces(S, from, to) == {k \in from .. to : S[k].kind \notin QueueKinds}
Rank(places, k) == Cardinality({j \in places : j <= k})
Ranked(S, places, n) == {AsMessage(S[k]) : k \in {j \in places : Rank(places, j) = n}}
UserMessages(S, from, to) ==
    LET places == UserPlaces(S, from, to)
    IN  [n \in 1 .. Cardinality(places) |-> CHOOSE m \in Ranked(S, places, n) : TRUE]

Published == Len(expect) - writer.pending

Stream == INSTANCE MessageStream
          WITH Messages <- StreamMessages,
               batch <- UserMessages(expect, Published + 1, Len(expect)),
               visible <- UserMessages(expect, 1, Published),
               ran <- ran

\* The queue is a stream: a message is executed as it was written, once, in
\* order and after its kick; and what was kicked is executed.
ImplementsStream == Stream!StreamFairSpec

\* kickAndWait, and terminateConsumerThread with its join, come back.
WaitReturns == wpc \in {"await", "join"} ~> wpc \in {"idle", "gone"}
=============================================================================
