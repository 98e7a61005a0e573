-------------------------------- MODULE Tween --------------------------------
(* cc::Tween and cc::TweenSystem: sequences of timed steps and calls, all of  *)
(* which are advanced once a frame from a snapshot of the running ones.  A    *)
(* call may start and stop any tween, its own included.  What a timed step    *)
(* does to its node is left out, and so is a tween without steps or target, which  *)
(* its first update stops; time comes in ticks.                               *)
EXTENDS Integers, Sequences, SequencesExt, FiniteSets

CONSTANTS Tweens, None,
          Steps,         \* the steps of each tween: [kind, duration]
          Repeat,        \* _repeat of each, FOREVER for repeatForever()
          MaxStep,       \* bound: ticks in a frame
          MaxFrames,     \* bound: frames
          MaxCalls,      \* bound: calls by one callback, and between frames
          RestartsItself \* may a callback start the tween it belongs to?

FOREVER == 0 - 1

ASSUME TweenAssumption ==
    /\ None \notin Tweens
    /\ Steps \in [Tweens -> Seq([kind : {"call", "timed"}, duration : Nat]) \ {<<>>}]
    /\ Repeat \in [Tweens -> Nat \cup {FOREVER}]
    /\ MaxStep \in Nat /\ MaxFrames \in Nat /\ MaxCalls \in Nat

VARIABLES
  tweens,                       \* TweenSystem::_tweens
  running, cycles, step, time,  \* _running, _cycles, _stepIndex, _stepTime
  doing, frames, used,          \* where update() is; the use made of the bounds
  frame, snapshot, current,     \* dt of the frame, what is still to be visited
  dt, wrapped,                  \* locals of Tween::update; dtAtLastWrap
  elapsed, called,              \* history: since a tween's start
  steady, updated               \* history: of the frame

tweenVars == <<tweens, running, cycles, step, time>>
passVars == <<frame, snapshot, current, dt, wrapped>>
history == <<elapsed, called, steady, updated>>
allVars == <<tweenVars, doing, frames, used, passVars, history>>

NeverWrapped == 0 - 1

TweenInit ==
    /\ tweens = <<>> /\ running = {}
    /\ cycles = [t \in Tweens |-> 0] /\ step = [t \in Tweens |-> 1] /\ time = [t \in Tweens |-> 0]
    /\ doing = "idle" /\ frames = 0 /\ used = 0
    /\ frame = 0 /\ snapshot = <<>> /\ current = None /\ dt = 0 /\ wrapped = NeverWrapped
    /\ elapsed = [t \in Tweens |-> 0] /\ called = [t \in Tweens |-> 0]
    /\ steady = {} /\ updated = {}

-----------------------------------------------------------------------------
(* The game's calls, between frames or from the callback of a step. *)

Calls == doing \in {"idle", "calling"} /\ used < MaxCalls /\ used' = used + 1

Added(t) == IF Contains(tweens, t) THEN tweens ELSE Append(tweens, t)

Start(t) ==
    /\ Calls
    /\ t = current => RestartsItself
    /\ cycles' = [cycles EXCEPT ![t] = 0]
    /\ step' = [step EXCEPT ![t] = 1] /\ time' = [time EXCEPT ![t] = 0]
    /\ running' = running \cup {t}
    /\ tweens' = IF t \in running THEN tweens ELSE Added(t)
    /\ elapsed' = [elapsed EXCEPT ![t] = 0] /\ called' = [called EXCEPT ![t] = 0]
    /\ UNCHANGED <<doing, frames, passVars, steady, updated>>

PlaceOf(t) == CHOOSE i \in DOMAIN tweens : tweens[i] = t

\* With the tweens after it: erase() told where to begin and not where to end.
RemovedToEnd(t) == SubSeq(tweens, 1, PlaceOf(t) - 1)
Removed(t) == RemoveAt(tweens, PlaceOf(t))

Stopped(t) ==
    /\ running' = running \ {t} /\ tweens' = Removed(t)
    /\ steady' = steady \ {t}

Stop(t) ==
    /\ Calls /\ t \in running
    /\ Stopped(t)
    /\ UNCHANGED <<cycles, step, time, doing, frames, passVars, elapsed, called, updated>>

StopAll ==
    /\ Calls /\ tweens # <<>>
    /\ tweens' = <<>> /\ running' = running \ Range(tweens) /\ steady' = {}
    /\ UNCHANGED <<cycles, step, time, doing, frames, passVars, elapsed, called, updated>>

-----------------------------------------------------------------------------
(* TweenSystem::update() *)

BeginFrame ==
    /\ doing = "idle" /\ frames < MaxFrames
    /\ doing' = "visiting" /\ frames' = frames + 1 /\ used' = 0
    /\ frame' \in 0..MaxStep /\ snapshot' = tweens
    /\ steady' = running /\ updated' = {}
    /\ UNCHANGED <<tweenVars, current, dt, wrapped, elapsed, called>>

SkipStopped ==
    /\ doing = "visiting" /\ snapshot # <<>> /\ Head(snapshot) \notin running
    /\ snapshot' = Tail(snapshot)
    /\ UNCHANGED <<tweenVars, doing, frames, used, frame, current, dt, wrapped, history>>

Visit ==
    /\ doing = "visiting" /\ snapshot # <<>> /\ Head(snapshot) \in running
    /\ doing' = "advancing" /\ current' = Head(snapshot) /\ snapshot' = Tail(snapshot)
    /\ dt' = frame /\ wrapped' = NeverWrapped
    /\ elapsed' = [elapsed EXCEPT ![Head(snapshot)] = @ + frame]
    /\ updated' = updated \cup {Head(snapshot)}
    /\ UNCHANGED <<tweenVars, frames, used, frame, called, steady>>

EndFrame ==
    /\ doing = "visiting" /\ snapshot = <<>>
    /\ doing' = "idle" /\ frame' = 0 /\ steady' = {} /\ updated' = {}
    /\ UNCHANGED <<tweenVars, frames, used, snapshot, current, dt, wrapped, elapsed, called>>

-----------------------------------------------------------------------------
(* Tween::update(), one turn of its loop at a time. *)

Return == doing' = "visiting" /\ current' = None /\ dt' = 0 /\ wrapped' = NeverWrapped

EnterStep(t, i) == step' = [step EXCEPT ![t] = i] /\ time' = [time EXCEPT ![t] = 0]

AtEnd == step[current] > Len(Steps[current])
LastCycle(t) == Repeat[t] >= 0 /\ cycles[t] + 1 >= Repeat[t]

\* The repeats are spent: the system stops the tween.
Finish ==
    /\ doing = "advancing" /\ AtEnd /\ LastCycle(current)
    /\ cycles' = [cycles EXCEPT ![current] = @ + 1]
    /\ Stopped(current) /\ Return
    /\ UNCHANGED <<step, time, frames, used, frame, snapshot, elapsed, called, updated>>

\* A cycle that took no time is the last one of this update.
Pause ==
    /\ doing = "advancing" /\ AtEnd /\ ~LastCycle(current) /\ dt = wrapped
    /\ cycles' = [cycles EXCEPT ![current] = @ + 1]
    /\ Return
    /\ UNCHANGED <<tweens, running, step, time, frames, used, frame, snapshot, history>>

Wrap ==
    /\ doing = "advancing" /\ AtEnd /\ ~LastCycle(current) /\ dt # wrapped
    /\ cycles' = [cycles EXCEPT ![current] = @ + 1]
    /\ wrapped' = dt /\ EnterStep(current, 1)
    /\ UNCHANGED <<tweens, running, doing, frames, used, frame, snapshot, current, dt, history>>

Now == Steps[current][step[current]]

\* What a timed step leaves of dt for the next one.
LeftFrom(s) == dt - s.duration
LeftOf(s) == time[current] + dt - s.duration

TimedStep ==
    /\ doing = "advancing" /\ ~AtEnd /\ Now.kind = "timed"
    /\ IF time[current] + dt < Now.duration
         THEN /\ time' = [time EXCEPT ![current] = @ + dt] /\ Return
              /\ UNCHANGED step
         ELSE /\ dt' = LeftOf(Now) /\ EnterStep(current, step[current] + 1)
              /\ UNCHANGED <<doing, current, wrapped>>
    /\ UNCHANGED <<tweens, running, cycles, frames, used, frame, snapshot, history>>

CallStep ==
    /\ doing = "advancing" /\ ~AtEnd /\ Now.kind = "call"
    /\ doing' = "calling" /\ used' = 0
    /\ called' = [called EXCEPT ![current] = @ + 1]
    /\ UNCHANGED <<tweenVars, frames, passVars, elapsed, steady, updated>>

CallReturns ==
    /\ doing = "calling" /\ used' = 0
    /\ IF current \in running
         THEN /\ doing' = "advancing" /\ EnterStep(current, step[current] + 1)
              /\ UNCHANGED <<current, dt, wrapped>>
         ELSE Return /\ UNCHANGED <<step, time>>
    /\ UNCHANGED <<tweens, running, cycles, frames, frame, snapshot, history>>

-----------------------------------------------------------------------------
Game == StopAll \/ \E t \in Tweens : Start(t) \/ Stop(t)
Update ==
    \/ BeginFrame \/ SkipStopped \/ Visit \/ EndFrame
    \/ Finish \/ Pause \/ Wrap \/ TimedStep \/ CallStep \/ CallReturns
TweenNext == Game \/ Update

TweenSpec == TweenInit /\ [][TweenNext]_allVars

-----------------------------------------------------------------------------
(* Properties *)

Durations(t) == [i \in DOMAIN Steps[t] |-> IF Steps[t][i].kind = "timed" THEN Steps[t][i].duration ELSE 0]
CallSteps(t) == {i \in DOMAIN Steps[t] : Steps[t][i].kind = "call"}
TicksBefore(t, i) == UNION {{j} \X (1..Durations(t)[j]) : j \in 1..(i - 1)}
TimeBefore(t, i) == Cardinality(TicksBefore(t, i))
CallsBefore(t, i) == Cardinality({j \in CallSteps(t) : j < i})
End(t) == Len(Steps[t]) + 1

\* The variables keep their types, and the system has exactly the running
\* tweens, each once (TweenSystem.h:32-33).
TweenTypeOK ==
    /\ Range(tweens) = running /\ IsInjective(tweens) /\ running \subseteq Tweens
    /\ cycles \in [Tweens -> Nat] /\ step \in [Tweens -> Nat] /\ time \in [Tweens -> Nat]
    /\ \A t \in Tweens : step[t] \in 1..End(t)
    /\ tweens \in Seq(Tweens) /\ snapshot \in Seq(Tweens) /\ current \in Tweens \cup {None}
    /\ doing \in {"idle", "visiting", "advancing", "calling"} /\ frame \in 0..MaxStep /\ dt \in 0..MaxStep

\* A tween that runs from the beginning of a frame to its end is updated in
\* it, whichever tweens the callbacks start and stop (TweenSystem.cpp:35-46).
UpdatedOnce ==
    /\ TweenTypeOK
    /\ doing = "visiting" /\ snapshot = <<>> => steady \subseteq updated

\* No time is lost and none counted twice where a step or a cycle ends
\* (Tween.h:9, "Overshoot within one update carries into the following step"),
\* and the calls of every cycle that is over were made once each, whoever stops
\* and starts which tween in between.
ProgressKept ==
    \A t \in running : TimeBefore(t, End(t)) > 0 =>
      LET inUpdate == t = current IN
      /\ elapsed[t] = cycles[t] * TimeBefore(t, End(t)) + TimeBefore(t, step[t]) + time[t]
                      + (IF inUpdate THEN dt ELSE 0)
      /\ called[t] = cycles[t] * CallsBefore(t, End(t)) + CallsBefore(t, step[t])
                      + (IF inUpdate /\ doing = "calling" THEN 1 ELSE 0)

\* Two promises of the comments that the code does not keep.
\* A tween started in a pass is not updated in it (TweenSystem.cpp:35-37): one
\* that is stopped and started again before its turn is.
StartedTicksLater == doing = "advancing" => current \in steady

\* A tween that plays to its end has called every call as often as it repeats
\* (Tween.h:68, "Whole-sequence repeat count"): an update that leaves by Pause
\* has counted a cycle that the next update counts again.
CalledAsOften ==
    \A t \in Tweens : doing = "advancing" /\ t = current /\ AtEnd /\ LastCycle(t) =>
        called[t] >= Repeat[t] * Cardinality(CallSteps(t))
=============================================================================
