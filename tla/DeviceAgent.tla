------------------------------ MODULE DeviceAgent ------------------------------
(* cocos/renderer/gfx-agent: the main thread records frames for the device   *)
(* thread.  Commands go through the main message queue, here the stream that *)
(* module MessageQueue implements; present() ends a frame and keeps the main *)
(* thread at most MAX_CPU_FRAME_AHEAD frames ahead; the bytes of a large     *)
(* buffer go through a staging buffer with one slot per frame in flight,     *)
(* which nothing but that pace protects.                                     *)
(*                                                                           *)
(* A staging slot holds the number of the frame that filled it last.         *)
EXTENDS Integers, Sequences

CONSTANTS Buffers,     \* the BufferAgents that have a staging buffer
          Stagings,    \* every staging buffer that can be allocated (bound)
          MaxAhead,    \* MAX_CPU_FRAME_AHEAD
          MaxFrames,   \* bound: frames presented
          MaxMessages  \* bound: messages in the stream when a call begins

NoBuffer == "none"

ASSUME DeviceAssumption ==
    /\ NoBuffer \notin Stagings
    /\ MaxAhead \in Nat
    /\ MaxFrames \in Nat /\ MaxMessages \in Nat
    /\ Buffers # {} /\ \E f \in [Buffers -> Stagings] : \A a, b \in Buffers : f[a] = f[b] => a = b

VARIABLES
  batch, visible, ran, \* the main message queue, as a stream
  multithreaded, \* _multithreaded
  currentIndex,  \* _currentIndex
  semaphore,     \* _frameBoundarySemaphore
  stagingOf,     \* buffer -> its _stagingBuffer
  live,          \* the staging buffers that are allocated
  staging,       \* staging buffer -> slot -> the frame whose bytes are in it
  uploaded,      \* buffer -> the frame whose bytes the device got last
  event,         \* what kickAndWait waits for
  mpc,           \* the main thread's place in a call
  frame,         \* frames the main thread has finished
  done           \* frames the device thread has presented

FrameSlots == 0 .. MaxAhead
CommandKinds == {"update", "free", "present", "wait", "terminate"}
Commands == [kind : CommandKinds, buffer : Buffers \cup {NoBuffer},
             staging : Stagings \cup {NoBuffer}, slot : FrameSlots, frame : 0 .. MaxFrames]

INSTANCE MessageStream WITH Messages <- Commands

queueVars   == <<batch, visible, ran>>
frameVars   == <<currentIndex, frame>>
stagingVars == <<stagingOf, live, staging>>
deviceVars  == <<semaphore, uploaded, event, done>>
vars == <<queueVars, multithreaded, frameVars, stagingVars, deviceVars, mpc>>

MaxFrameIndex == MaxAhead + 1

Command(kind, b, s, slot) == [kind |-> kind, buffer |-> b, staging |-> s, slot |-> slot, frame |-> frame]
Plain(kind) == Command(kind, NoBuffer, NoBuffer, 0)

InStream == visible \o batch

Init ==
    /\ batch = <<>> /\ visible = <<>>
    /\ ran = [kind |-> "wait", buffer |-> NoBuffer, staging |-> NoBuffer, slot |-> 0, frame |-> 0]
    /\ multithreaded = TRUE
    /\ currentIndex = 0 /\ frame = 0 /\ done = 0
    /\ semaphore = MaxAhead
    /\ stagingOf \in [Buffers -> Stagings]
    /\ \A a, b \in Buffers : stagingOf[a] = stagingOf[b] => a = b
    /\ live = {stagingOf[b] : b \in Buffers}
    /\ staging = [s \in Stagings |-> [i \in FrameSlots |-> 0]]
    /\ uploaded = [b \in Buffers |-> 0]
    /\ event = 0 /\ mpc = "idle"

-----------------------------------------------------------------------------
(* What a command does when it is executed, by either thread. *)

UploadFrom(s, slot) == staging[s][slot]

ExecuteUpdate(m) == /\ m.kind = "update"
                    /\ uploaded' = [uploaded EXCEPT ![m.buffer] = UploadFrom(m.staging, m.slot)]
                    /\ UNCHANGED <<live, semaphore, done, event>>

\* BufferFreeStagingBuffer owns the staging buffer it was given.
ExecuteFree(m) == /\ m.kind = "free"
                  /\ live' = live \ {m.staging}
                  /\ UNCHANGED <<uploaded, semaphore, done, event>>

SignalForgotten == semaphore
Signalled == semaphore + 1
ExecutePresent(m) == /\ m.kind = "present"
                     /\ semaphore' = Signalled
                     /\ done' = done + 1
                     /\ UNCHANGED <<live, uploaded, event>>

ExecuteWait(m) == /\ m.kind \in {"wait", "terminate"}
                  /\ event' = 1
                  /\ UNCHANGED <<live, uploaded, semaphore, done>>

Effect(m) == ExecuteUpdate(m) \/ ExecuteFree(m) \/ ExecutePresent(m) \/ ExecuteWait(m)

\* WRITE_MESSAGE: enqueue the command, or run it in immediate mode.
Enqueue(m) == multithreaded /\ Write(m) /\ UNCHANGED <<live, deviceVars>>
RunAtOnce(m) == ~multithreaded /\ ExecuteDirectly(m) /\ Effect(m)

-----------------------------------------------------------------------------
(* The main thread. *)

HasRoom == mpc = "idle" /\ Len(InStream) <= MaxMessages

\* BufferAgent::update: the bytes go to the slot of the current frame.
Fill(b) == staging' = [staging EXCEPT ![stagingOf[b]][currentIndex] = frame]

Update(b) ==
    LET m == Command("update", b, stagingOf[b], currentIndex) IN
    /\ HasRoom
    /\ Fill(b)
    /\ Enqueue(m)
    /\ UNCHANGED <<multithreaded, frameVars, stagingOf, mpc>>

\* The same in immediate mode, where the bytes are read back on the spot.
UpdateAtOnce(b) ==
    /\ HasRoom /\ ~multithreaded
    /\ Fill(b)
    /\ ExecuteDirectly(Command("update", b, stagingOf[b], currentIndex))
    /\ uploaded' = [uploaded EXCEPT ![b] = staging'[stagingOf[b]][currentIndex]]
    /\ UNCHANGED <<multithreaded, frameVars, stagingOf, live, semaphore, event, done, mpc>>

\* BufferAgent::doResize: the old staging buffer is handed to a message and
\* a new one allocated.
NewStaging(b, s) == /\ s \in Stagings \ live
                    /\ stagingOf' = [stagingOf EXCEPT ![b] = s]

Resize(b) ==
    /\ HasRoom /\ multithreaded
    /\ Write(Command("free", b, stagingOf[b], 0))
    /\ \E s \in Stagings : NewStaging(b, s) /\ live' = live \cup {s}
    /\ UNCHANGED <<multithreaded, frameVars, staging, deviceVars, mpc>>

ResizeAtOnce(b) ==
    /\ HasRoom /\ ~multithreaded
    /\ ExecuteDirectly(Command("free", b, stagingOf[b], 0))
    /\ \E s \in Stagings : NewStaging(b, s) /\ live' = (live \ {stagingOf[b]}) \cup {s}
    /\ UNCHANGED <<multithreaded, frameVars, staging, deviceVars, mpc>>

\* present(): the present command, then the kick of freeChunksInFreeQueue and
\* finishWriting, then the next frame index, then the semaphore.
Present ==
    /\ mpc = "idle" /\ frame < MaxFrames
    /\ Enqueue(Plain("present")) \/ RunAtOnce(Plain("present"))
    /\ mpc' = "kick"
    /\ UNCHANGED <<multithreaded, frameVars, stagingOf, staging>>

NextIndexOfOne == (currentIndex + 1) % MaxAhead
NextIndex == (currentIndex + 1) % MaxFrameIndex

PresentKick ==
    /\ mpc = "kick"
    /\ Publish
    /\ currentIndex' = NextIndex
    /\ mpc' = "pace"
    /\ UNCHANGED <<multithreaded, frame, stagingVars, deviceVars>>

GoesOnFreely == TRUE
MayGoOn == semaphore > 0

PresentWait ==
    /\ mpc = "pace"
    /\ MayGoOn
    /\ semaphore' = semaphore - 1
    /\ frame' = frame + 1
    /\ mpc' = "idle"
    /\ UNCHANGED <<queueVars, multithreaded, currentIndex, stagingVars, uploaded, event, done>>

\* kickAndWait: copyTextureToBuffers, and the swapchain's resize and surfaces.
\* setMultithreaded(false) waits the same way for the thread to terminate.
KickAndWait ==
    /\ mpc = "idle"
    /\ Enqueue(Plain("wait")) \/ RunAtOnce(Plain("wait"))
    /\ mpc' = "waitKick"
    /\ UNCHANGED <<multithreaded, frameVars, stagingOf, staging>>

SetSingleThreaded ==
    /\ mpc = "idle" /\ multithreaded
    /\ Enqueue(Plain("terminate"))
    /\ mpc' = "joinKick"
    /\ UNCHANGED <<multithreaded, frameVars, stagingOf, staging>>

\* doDestroy: the thread is terminated if there is one, and that is the end.
Destroy ==
    /\ mpc = "idle" /\ multithreaded
    /\ Enqueue(Plain("terminate"))
    /\ mpc' = "destroyKick"
    /\ UNCHANGED <<multithreaded, frameVars, stagingOf, staging>>

DestroyAtOnce ==
    /\ mpc = "idle" /\ ~multithreaded
    /\ mpc' = "gone"
    /\ UNCHANGED <<queueVars, multithreaded, frameVars, stagingVars, deviceVars>>

WaitKick ==
    /\ mpc \in {"waitKick", "joinKick", "destroyKick"}
    /\ Publish
    /\ mpc' = [waitKick |-> "await", joinKick |-> "join", destroyKick |-> "destroy"][mpc]
    /\ UNCHANGED <<multithreaded, frameVars, stagingVars, deviceVars>>

WaitDone ==
    /\ mpc \in {"await", "join", "destroy"} /\ event = 1
    /\ event' = 0
    /\ multithreaded' = (multithreaded /\ mpc = "await")
    /\ mpc' = IF mpc = "destroy" THEN "gone" ELSE "idle"
    /\ UNCHANGED <<queueVars, frameVars, stagingVars, semaphore, uploaded, done>>

SetMultithreaded ==
    /\ mpc = "idle" /\ ~multithreaded
    /\ multithreaded' = TRUE
    /\ UNCHANGED <<queueVars, frameVars, stagingVars, deviceVars, mpc>>

-----------------------------------------------------------------------------
(* The device thread executes what was published, in order. *)

DeviceStep ==
    /\ multithreaded
    /\ Execute
    /\ Effect(Head(visible))
    /\ UNCHANGED <<multithreaded, frameVars, stagingOf, staging, mpc>>

BeginCall == \/ \E b \in Buffers : Update(b) \/ UpdateAtOnce(b) \/ Resize(b) \/ ResizeAtOnce(b)
             \/ Present \/ KickAndWait \/ SetSingleThreaded \/ SetMultithreaded
             \/ Destroy \/ DestroyAtOnce

MainStep == PresentKick \/ PresentWait \/ WaitKick \/ WaitDone

Next == BeginCall \/ MainStep \/ DeviceStep

Spec == Init /\ [][Next]_vars

\* A call goes on, and the device thread is scheduled.
FairSpec == Spec /\ WF_vars(MainStep) /\ WF_vars(DeviceStep)

-----------------------------------------------------------------------------
(* Properties *)

\* The frame present() is in the middle of counts as one more.
InPresent == IF mpc \in {"kick", "pace"} THEN 1 ELSE 0

\* The states the two threads, the semaphore and the staging buffers can be in.
TypeOK ==
    /\ batch \in Seq(Commands) /\ visible \in Seq(Commands) /\ ran \in Commands
    /\ multithreaded \in BOOLEAN
    /\ currentIndex \in FrameSlots /\ semaphore \in Nat
    /\ frame \in 0 .. MaxFrames - InPresent /\ done \in Nat
    /\ stagingOf \in [Buffers -> Stagings] /\ live \subseteq Stagings
    /\ staging \in [Stagings -> [FrameSlots -> Nat]]
    /\ uploaded \in [Buffers -> Nat]
    /\ event \in {0, 1}
    /\ mpc \in {"idle", "kick", "pace", "waitKick", "joinKick", "destroyKick",
                "await", "join", "destroy", "gone"}

\* The main thread records at most MAX_CPU_FRAME_AHEAD frames the device has
\* not presented, also across switches between the two modes: the semaphore
\* and both threads' frame counts agree (DeviceAgent.cpp:161-173).
FramePacing == /\ semaphore = MaxAhead + done - frame
               /\ frame - done <= MaxAhead
               /\ done <= frame + InPresent

\* An update the device has not executed yet finds the bytes of its own frame
\* in a staging buffer that still exists: no later frame reuses the slot and no
\* resize frees the buffer under it (BufferAgent.cpp:92-94, 117-135, 149-153).
StagedFrameIntact ==
    \A i \in 1 .. Len(InStream) :
       InStream[i].kind = "update" =>
          /\ InStream[i].staging \in live
          /\ staging[InStream[i].staging][InStream[i].slot] = InStream[i].frame

\* What makes the pace protect the staging buffers: a strengthening of the
\* two properties above that every step keeps.

\* The stream holds the frames the device has not presented, in order, each
\* with its present command last.
FramesInOrder ==
    /\ \A i \in 1 .. Len(InStream) :
         /\ done <= InStream[i].frame /\ InStream[i].frame <= frame
         /\ InStream[i].kind = "present" => InStream[i].frame < frame + InPresent
    /\ \A i, j \in 1 .. Len(InStream) : i < j =>
         /\ InStream[i].frame <= InStream[j].frame
         /\ InStream[i].kind = "present" => InStream[i].frame < InStream[j].frame
    /\ \A f \in done .. frame + InPresent - 1 :
         \E i \in 1 .. Len(InStream) : InStream[i].kind = "present" /\ InStream[i].frame = f

\* The slot k frames back from slot c, around the ring.
Back(c, k) == IF c >= k THEN c - k ELSE c - k + MaxFrameIndex

\* The frame whose slot currentIndex is.
IndexedFrame == IF mpc = "pace" THEN frame + 1 ELSE frame

SlotsFollowFrames ==
    \A i \in 1 .. Len(InStream) :
       InStream[i].kind = "update" =>
          InStream[i].slot = Back(currentIndex, IndexedFrame - InStream[i].frame)

\* A staging buffer is one buffer's until a command to free it is written,
\* and no command that uses it comes after that one.
StagingsOwned ==
    /\ \A b \in Buffers : stagingOf[b] \in live
    /\ \A a, b \in Buffers : stagingOf[a] = stagingOf[b] => a = b
    /\ \A i \in 1 .. Len(InStream) : InStream[i].kind = "free" =>
         /\ InStream[i].staging \in live
         /\ \A b \in Buffers : stagingOf[b] # InStream[i].staging
         /\ \A j \in 1 .. Len(InStream) :
              j > i => InStream[j].staging # InStream[i].staging

\* A call that waits is answered once everything before it was executed, and
\* immediate mode, like the end, finds an empty stream.
Waiting == mpc \in {"waitKick", "joinKick", "destroyKick", "await", "join", "destroy"}
WaitsAnswered ==
    /\ \A i \in 1 .. Len(InStream) :
         InStream[i].kind \in {"wait", "terminate"} => i = Len(InStream) /\ Waiting
    /\ event = 1 => InStream = <<>> /\ Waiting
    /\ ~multithreaded \/ mpc = "gone" => InStream = <<>>

IInv == /\ TypeOK /\ FramePacing /\ StagedFrameIntact
        /\ FramesInOrder /\ SlotsFollowFrames /\ StagingsOwned /\ WaitsAnswered

\* present() and kickAndWait come back.
CallReturns == mpc # "idle" ~> mpc \in {"idle", "gone"}
=============================================================================
