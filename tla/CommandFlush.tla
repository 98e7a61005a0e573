----------------------------- MODULE CommandFlush -----------------------------
(* DeviceAgent::flushCommands and CommandBufferAgent::flushCommands: every   *)
(* command buffer has a MessageQueue of its own, written by the main thread  *)
(* and flushed inside one message of the main queue, by the device thread or *)
(* by the threads of the job system.  All queues take their chunks from one  *)
(* allocator and stash them in one free queue.                               *)
(*                                                                           *)
(* Each queue is the stream that module MessageQueue shows it to be; here    *)
(* the subject is who may still read a chunk when another queue's            *)
(* FreeChunksInFreeQueue message gives it away.  An allocation fits in the   *)
(* writer's chunk or does not: sizes are left open.                          *)
EXTENDS Integers, Sequences, FiniteSets

CONSTANTS Main,          \* the device's message queue
          CmdBuffs,      \* the command buffers of one flush, in its order
          Chunks,        \* every chunk malloc can return (bound on memory)
          PoolCapacity,  \* MEMORY_CHUNK_POOL_CAPACITY
          JobThreads,    \* JobSystem::threadCount()
          Multithreaded, \* _actor->_multithreadedCommandRecording
          MaxQueued      \* bound: messages in a queue when a call begins

Count    == Len(CmdBuffs)
Commands == {CmdBuffs[i] : i \in 1 .. Count}
Queues   == Commands \cup {Main}

ASSUME FlushAssumption ==
    /\ CmdBuffs \in Seq(Commands) /\ Count > 0 /\ Main \notin Commands
    /\ Queues \cap {"stash", "pool", "heap"} = {}
    /\ \A i, j \in 1 .. Count : CmdBuffs[i] = CmdBuffs[j] => i = j
    /\ Cardinality(Chunks) >= Cardinality(Queues)
    /\ PoolCapacity \in Nat /\ MaxQueued \in Nat
    /\ JobThreads \in Nat \ {0}
    /\ Multithreaded \in BOOLEAN

VARIABLES
  home,      \* chunk -> the queue that writes it, or where it is kept
  fifo,      \* queue -> its unexecuted messages, the one in hand included
  published, \* how many messages of the main queue the device thread may see
  wchunk,    \* queue -> the writer's chunk
  rchunk,    \* queue -> the chunk of the message its reader took last
  rpc,       \* queue -> where its reader is
  started,   \* the command buffers this flush has begun with
  running,   \* those it is flushing
  mpc,       \* the main thread's place in a call
  index,     \* the command buffer its loop is at
  data       \* the chunk of the data it allocated for its next message

mainVars   == <<mpc, index, data>>
readerVars == <<rchunk, rpc, started, running>>
vars == <<home, fifo, published, wchunk, mainVars, readerVars>>

NoChunk == "none"
Message(kind, chunk, d) == [kind |-> kind, chunk |-> chunk, data |-> d]

In(place) == {c \in Chunks : home[c] = place}
RequestableStash == In("pool") \cup In("stash") \cup In("heap")
Requestable == IF In("pool") # {} THEN In("pool") ELSE In("heap")

\* MessageQueue::MemoryAllocator::free and recycle.
Free(c) == home' = [home EXCEPT ![c] = IF Cardinality(In("pool")) >= PoolCapacity
                                       THEN "heap" ELSE "pool"]
RecycleAtOnce(c) == Free(c)
Recycle(c) == home' = [home EXCEPT ![c] = "stash"]

-----------------------------------------------------------------------------
(* The main thread writes: into the chunk a queue is at, or into a new one   *)
(* after a switch message and a dummy.                                       *)

Init ==
    /\ wchunk \in [Queues -> Chunks]
    /\ \A p, q \in Queues : wchunk[p] = wchunk[q] => p = q
    /\ home = [c \in Chunks |-> IF \E q \in Queues : wchunk[q] = c
                                THEN CHOOSE q \in Queues : wchunk[q] = c ELSE "heap"]
    /\ fifo = [q \in Queues |-> <<>>] /\ published = 0
    /\ rchunk = wchunk /\ rpc = [q \in Queues |-> "read"]
    /\ started = {} /\ running = {}
    /\ mpc = "idle" /\ index = 1 /\ data = NoChunk

MoveTo(q, c) == /\ c \in {wchunk[q]} \cup Requestable
                /\ home' = [home EXCEPT ![c] = q]
                /\ wchunk' = [wchunk EXCEPT ![q] = c]

Opening(q, c) == IF c = wchunk[q] THEN <<>>
                 ELSE <<Message("switch", wchunk[q], NoChunk), Message("dummy", c, NoChunk)>>

AllocateData(q) ==
    \E c \in Chunks : /\ MoveTo(q, c)
                      /\ fifo' = [fifo EXCEPT ![q] = @ \o Opening(q, c)]
                      /\ data' = c

Enqueue(q, kind, d) ==
    \E c \in Chunks : /\ MoveTo(q, c)
                      /\ fifo' = [fifo EXCEPT ![q] = @ \o Append(Opening(q, c), Message(kind, c, d))]

\* A command with data, recorded in a command buffer; or QueueAgent::submit
\* in the main queue.
Record ==
    /\ mpc = "idle"
    /\ \E i \in 0 .. Count : LET q == IF i = 0 THEN Main ELSE CmdBuffs[i] IN
         /\ Len(fifo[q]) <= MaxQueued
         /\ AllocateData(q)
         /\ index' = i
    /\ mpc' = "record"
    /\ UNCHANGED <<published, readerVars>>

RecordMessage ==
    /\ mpc = "record"
    /\ Enqueue(IF index = 0 THEN Main ELSE CmdBuffs[index], "work", data)
    /\ data' = NoChunk
    /\ mpc' = "idle"
    /\ UNCHANGED <<published, index, readerVars>>

\* DeviceAgent::flushCommands: the array of the agents is data of the main
\* queue; each command buffer's queue is told to free chunks and to finish;
\* then the message that will flush them is written.
FlushCommands ==
    /\ mpc = "idle" /\ Len(fifo[Main]) <= MaxQueued
    /\ AllocateData(Main)
    /\ index' = 1
    /\ mpc' = "freeChunks"
    /\ UNCHANGED <<published, readerVars>>

FlushFreeChunks ==
    /\ mpc = "freeChunks"
    /\ Enqueue(CmdBuffs[index], "free", NoChunk)
    /\ mpc' = "finishWriting"
    /\ UNCHANGED <<published, index, data, readerVars>>

FlushFinishWriting ==
    /\ mpc = "finishWriting"
    /\ Enqueue(CmdBuffs[index], "finish", NoChunk)
    /\ index' = IF index < Count THEN index + 1 ELSE 1
    /\ mpc' = IF index < Count THEN "freeChunks" ELSE "flush"
    /\ UNCHANGED <<published, data, readerVars>>

FlushMessage ==
    /\ mpc = "flush"
    /\ Enqueue(Main, "flush", data)
    /\ data' = NoChunk
    /\ mpc' = "idle"
    /\ UNCHANGED <<published, index, readerVars>>

\* present() frees chunks through the main queue and kicks it.
Present ==
    /\ mpc = "idle"
    /\ published < Len(fifo[Main]) \/ Len(fifo[Main]) <= MaxQueued
    /\ Enqueue(Main, "free", NoChunk)
    /\ published' = Len(fifo'[Main])
    /\ UNCHANGED <<mainVars, readerVars>>

-----------------------------------------------------------------------------
(* The readers: the device thread for the main queue, and whoever flushes a  *)
(* command buffer for that one's.                                            *)

BeingRead(q) == IF q = Main THEN published > 0 ELSE q \in running

Take(q) ==
    /\ BeingRead(q) /\ rpc[q] = "read" /\ fifo[q] # <<>>
    /\ rchunk' = [rchunk EXCEPT ![q] = Head(fifo[q]).chunk]
    /\ rpc' = [rpc EXCEPT ![q] = "execute"]
    /\ UNCHANGED <<home, fifo, published, wchunk, mainVars, started, running>>

Executing(q, kinds) == rpc[q] = "execute" /\ Head(fifo[q]).kind \in kinds

PublishedByAll(q) == published - 1
PublishedAfter(q) == IF q = Main THEN published - 1 ELSE published

Pop(q) == /\ fifo' = [fifo EXCEPT ![q] = Tail(@)]
          /\ rpc' = [rpc EXCEPT ![q] = "read"]
          /\ published' = PublishedAfter(q)

ExecutePlain(q) ==
    /\ Executing(q, {"work", "dummy"})
    /\ Pop(q)
    /\ UNCHANGED <<home, wchunk, mainVars, rchunk, started, running>>

\* The loop of FreeChunksInFreeQueue, over the chunks of every queue.
ExecuteFreeOne(q) ==
    /\ Executing(q, {"free"})
    /\ \E c \in In("stash") : Free(c)
    /\ UNCHANGED <<fifo, published, wchunk, mainVars, readerVars>>

ExecuteFreeDone(q) ==
    /\ Executing(q, {"free"}) /\ In("stash") = {}
    /\ Pop(q)
    /\ UNCHANGED <<home, wchunk, mainVars, rchunk, started, running>>

\* The destructor of a switch message stashes the chunk the message is in.
ExecuteSwitch(q) ==
    /\ Executing(q, {"switch"})
    /\ Recycle(rchunk[q])
    /\ Pop(q)
    /\ UNCHANGED <<wchunk, mainVars, rchunk, started, running>>

\* finishWriting ends the flushMessages of a command buffer.
ExecuteFinish(q) ==
    /\ Executing(q, {"finish"})
    /\ Pop(q)
    /\ running' = running \ {q}
    /\ UNCHANGED <<home, wchunk, mainVars, rchunk, started>>

\* How many command buffers the device thread flushes itself: all of them,
\* unless there is more than one job to dispatch.
WorkForThisThread ==
    LET share == ((Count - 1) \div JobThreads) + 1
    IN  IF Multithreaded /\ Count > 1 /\ Count > share + 1 THEN share ELSE Count

Done(i) == CmdBuffs[i] \in started \ running
Jobs == {CmdBuffs[i] : i \in WorkForThisThread + 1 .. Count}

\* All of them are jobs, of any number of threads.
StartsAnyTime(i) == i \in 1 .. Count

\* Its own, in order; the others in any order, by the job threads.
MayStart(i) ==
    IF i <= WorkForThisThread THEN \A j \in 1 .. i - 1 : Done(j)
    ELSE Cardinality(running \cap Jobs) < JobThreads

\* The entry of the array is read, and its queue flushed.
StartCommandBuffer(i) ==
    /\ Executing(Main, {"flush"})
    /\ CmdBuffs[i] \notin started /\ MayStart(i)
    /\ started' = started \cup {CmdBuffs[i]}
    /\ running' = running \cup {CmdBuffs[i]}
    /\ UNCHANGED <<home, fifo, published, wchunk, mainVars, rchunk, rpc>>

FlushEnds ==
    /\ Executing(Main, {"flush"})
    /\ started = Commands /\ running = {}
    /\ started' = {}
    /\ Pop(Main)
    /\ UNCHANGED <<home, wchunk, mainVars, rchunk, running>>

-----------------------------------------------------------------------------
MainThread == \/ Record \/ RecordMessage
              \/ FlushCommands \/ FlushFreeChunks \/ FlushFinishWriting \/ FlushMessage
              \/ Present

Reader(q) == \/ Take(q) \/ ExecutePlain(q) \/ ExecuteFreeOne(q) \/ ExecuteFreeDone(q)
             \/ ExecuteSwitch(q) \/ ExecuteFinish(q)

Next == \/ MainThread
        \/ \E q \in Queues : Reader(q)
        \/ \E i \in 1 .. Count : StartCommandBuffer(i)
        \/ FlushEnds

Spec == Init /\ [][Next]_vars

-----------------------------------------------------------------------------
(* Properties *)

Kinds == {"work", "free", "finish", "flush", "switch", "dummy"}

\* The states the queues, their readers and the main thread can be in.
TypeOK ==
    /\ home \in [Chunks -> Queues \cup {"stash", "pool", "heap"}]
    /\ fifo \in [Queues -> Seq([kind : Kinds, chunk : Chunks, data : Chunks \cup {NoChunk}])]
    /\ published \in 0 .. Len(fifo[Main])
    /\ wchunk \in [Queues -> Chunks] /\ rchunk \in [Queues -> Chunks]
    /\ rpc \in [Queues -> {"read", "execute"}]
    /\ running \subseteq started /\ started \subseteq Commands
    /\ mpc \in {"idle", "record", "freeChunks", "finishWriting", "flush"}
    /\ index \in 0 .. Count /\ data \in Chunks \cup {NoChunk}

\* The chunk belongs to q: q writes it, or left it and nobody freed it yet.
Held(q, c) == home[c] \in {q, "stash"}

\* The last message a reader took is still there when the reader follows its
\* next pointer (readMessage, MessageQueue.cpp:269), whatever the other
\* queues free meanwhile, and no thread leaves the states it can be in.
CursorOwned == TypeOK /\ \A q \in Queues : rpc[q] = "read" => Held(q, rchunk[q])

\* The data of a command is still there until the command has been executed.
DataOwned ==
    \A q \in Queues : \A i \in 1 .. Len(fifo[q]) :
       fifo[q][i].kind = "work" => Held(q, fifo[q][i].data)

\* The array of command buffers a flush message points to is still there
\* until its last entry has been read (CommandBufferAgent.cpp:72-74).
ArrayOwned ==
    \A i \in 1 .. Len(fifo[Main]) :
       fifo[Main][i].kind = "flush" /\ (i = 1 => started # Commands)
          => Held(Main, fifo[Main][i].data)
=============================================================================
