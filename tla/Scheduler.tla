------------------------------ MODULE Scheduler ------------------------------
(* The timers of cc::Scheduler: a table of targets, each with a vector of     *)
(* timers, walked once per frame.  A timer's callback calls the scheduler     *)
(* again and changes what is being walked.  The functions other threads post  *)
(* to the scheduler are in HttpClient.                                       *)
EXTENDS Integers, Sequences, SequencesExt, FiniteSets

CONSTANTS Targets, Keys, Ids,  \* Ids: the addresses of timers
          Nothing,             \* the null pointer
          Plans,               \* what timers are set up with
          MaxStep,             \* bound: ticks of time in a frame
          MaxCalls             \* bound: calls by one callback, and between frames

FOREVER == 0 - 1

ASSUME SchedulerAssumption ==
    /\ Nothing \notin Targets \cup Ids
    /\ Plans \subseteq [interval : Nat, runs : (Nat \ {0}) \cup {FOREVER}, delay : Nat]
    /\ MaxStep \in Nat \ {0} /\ MaxCalls \in Nat

VARIABLES
  present, paused,  \* the targets in _hashForTimers; HashTimerEntry::paused
  timers,           \* HashTimerEntry::timers
  timer,            \* the Timer objects
  pc,               \* where update() is
  dt, left,         \* the targets that it has still to visit
  target, timerIndex, currentTimer,
  salvaged, ended,  \* currentTimerSalvaged, _currentTargetSalvaged
  interval,         \* the local of Timer::update
  used,             \* calls made since pc was entered
  ticked, steady, disturbed \* history of the frame, see the properties

tableVars == <<present, paused, timers, timer>>
walkVars == <<dt, left, target, timerIndex, currentTimer, interval>>
history == <<ticked, steady, disturbed>>
vars == <<tableVars, pc, walkVars, salvaged, ended, used, history>>

\* key, interval, delay and runs (how often it is still to be called) are its
\* setting; refs is 0 once it was deleted.
Deleted == [key |-> Nothing, interval |-> 0, delay |-> 0, runs |-> 0, elapsed |-> 0, refs |-> 0]

Init ==
    /\ present = {} /\ paused = {}
    /\ timers = [t \in Targets |-> <<>>] /\ timer = [id \in Ids |-> Deleted]
    /\ pc = "idle" /\ dt = 0 /\ left = {} /\ target = Nothing /\ timerIndex = 1
    /\ currentTimer = Nothing /\ salvaged = FALSE /\ ended = FALSE /\ interval = 0 /\ used = 0
    /\ ticked = {} /\ steady = {} /\ disturbed = FALSE

-----------------------------------------------------------------------------
(* The calls of the game, between frames or from a timer's callback. *)

InCallback == pc \in {"delayed", "repeating"}
Walking == pc # "idle"

Calls == (InCallback \/ pc = "idle") /\ used < MaxCalls /\ used' = used + 1

\* A deleted timer keeps nothing.
Released(id, refs) == IF refs = 0 THEN Deleted ELSE [timer[id] EXCEPT !.refs = refs]

\* A target that is not the current one leaves the table with its last timer.
EmptiedLater(t) == present
Emptied(t) == IF t = target THEN present ELSE present \ {t}

KeyAtAfterFirst(t, k) == {i \in DOMAIN timers[t] : i > 1 /\ timer[timers[t][i]].key = k}
KeyAt(t, k) == {i \in DOMAIN timers[t] : timer[timers[t][i]].key = k}

\* The running timer lives on until its step is over.
Running(id) == id = currentTimer /\ ~salvaged
RefsDropped(id) == timer[id].refs - 1
RefsWithout(id) == IF Running(id) THEN timer[id].refs ELSE timer[id].refs - 1

\* The walk's index moves with the timers behind the one that goes.
IndexKept(t, i) == timerIndex
IndexWithout(t, i) == IF t = target /\ i <= timerIndex THEN timerIndex - 1 ELSE timerIndex

\* unschedule
RemoveTimer(t, i) ==
    LET id == timers[t][i]
        rest == RemoveAt(timers[t], i)
    IN  /\ salvaged' = (salvaged \/ Running(id))
        /\ timer' = [timer EXCEPT ![id] = Released(id, RefsWithout(id))]
        /\ timers' = [timers EXCEPT ![t] = rest]
        /\ timerIndex' = IndexWithout(t, i)
        /\ IF rest = <<>>
           THEN /\ present' = Emptied(t) /\ left' = left \ {t} /\ ended' = (ended \/ t = target)
           ELSE UNCHANGED <<present, left, ended>>
        /\ paused' = paused \cap present'
        /\ steady' = steady \ {id}
        /\ UNCHANGED <<target, currentTimer, interval, dt, ticked, disturbed>>

Unschedule(k, t) ==
    /\ Calls /\ \E i \in KeyAt(t, k) : RemoveTimer(t, i)
    /\ UNCHANGED pc

\* unscheduleAllForTarget, for each of the targets.
RemoveAll(ts) ==
    LET ids == UNION {Range(timers[t]) : t \in ts}
    IN  /\ salvaged' = (salvaged \/ \E id \in ids : Running(id))
        /\ timer' = [id \in Ids |-> IF id \in ids THEN Released(id, RefsWithout(id)) ELSE timer[id]]
        /\ timers' = [t \in Targets |-> IF t \in ts THEN <<>> ELSE timers[t]]
        /\ present' = present \ (ts \ {target})
        /\ left' = left \ ts
        /\ ended' = (ended \/ target \in ts)
        /\ paused' = paused \cap present'
        /\ steady' = steady \ ids
        /\ UNCHANGED <<target, timerIndex, currentTimer, interval, dt, ticked, disturbed>>

UnscheduleAllForTarget(t) == Calls /\ t \in present /\ RemoveAll({t}) /\ UNCHANGED pc

UnscheduleAll == Calls /\ RemoveAll(present) /\ UNCHANGED pc

\* schedule: a known key only gets another interval.
SetInterval(t, i, plan) ==
    /\ timer' = [timer EXCEPT ![timers[t][i]].interval = plan.interval]
    /\ UNCHANGED <<present, paused, timers, left, ticked, disturbed>>

\* A target that is new to the table may be visited in this walk or not; when
\* the table is rehashed, so may any other, once more or not at all.
AddTimer(t, k, plan, id) ==
    /\ timer[id].refs = 0
    /\ timer' = [timer EXCEPT ![id] =
                   [key |-> k, interval |-> plan.interval, delay |-> plan.delay, runs |-> plan.runs, elapsed |-> -1, refs |-> 1]]
    /\ timers' = [timers EXCEPT ![t] = Append(@, id)]
    /\ ticked' = ticked \ {id}
    /\ present' = present \cup {t}
    /\ IF t \in present THEN UNCHANGED <<paused, left, disturbed>>
       ELSE /\ paused' \in {paused, paused \cup {t}}
            /\ left' \in IF Walking THEN SUBSET (present' \ {target}) ELSE {left}
            /\ disturbed' = (disturbed \/ Walking)

Schedule(t, k, plan) ==
    /\ Calls
    /\ IF KeyAt(t, k) # {} THEN \E i \in KeyAt(t, k) : SetInterval(t, i, plan)
       ELSE \E id \in Ids : AddTimer(t, k, plan, id)
    /\ UNCHANGED <<pc, dt, target, timerIndex, currentTimer, interval, salvaged, ended, steady>>

PauseTarget(t) ==
    /\ Calls /\ t \in present
    /\ paused' = paused \cup {t}
    /\ steady' = steady \ Range(timers[t])
    /\ UNCHANGED <<present, timers, timer, pc, walkVars, salvaged, ended, ticked, disturbed>>

ResumeTarget(t) ==
    /\ Calls /\ t \in present
    /\ paused' = paused \ {t}
    /\ UNCHANGED <<present, timers, timer, pc, walkVars, salvaged, ended, history>>

Game ==
    \/ \E t \in Targets, k \in Keys : Unschedule(k, t) \/ \E plan \in Plans : Schedule(t, k, plan)
    \/ \E t \in Targets : UnscheduleAllForTarget(t) \/ PauseTarget(t) \/ ResumeTarget(t)
    \/ UnscheduleAll

-----------------------------------------------------------------------------
(* update: the walk over the targets, *)

BeginFrame(step) ==
    /\ pc = "idle" /\ pc' = "walking" /\ dt' = step /\ left' = present
    /\ ticked' = {} /\ disturbed' = FALSE
    /\ steady' = UNION {Range(timers[t]) : t \in present \ paused}
    /\ used' = 0
    /\ UNCHANGED <<tableVars, target, timerIndex, currentTimer, interval, salvaged, ended>>

Visit(t) ==
    /\ pc = "walking" /\ t \in left
    /\ left' = left \ {t} /\ target' = t /\ ended' = FALSE
    /\ IF t \in paused THEN UNCHANGED <<pc, timerIndex>> ELSE pc' = "ticking" /\ timerIndex' = 1
    /\ UNCHANGED <<tableVars, dt, currentTimer, interval, salvaged, used, history>>

\* Once its current target has ended, the walk steps over the next one too.
LeaveTarget ==
    /\ pc = "ticking" /\ timerIndex > Len(timers[target])
    /\ pc' = "walking"
    /\ IF ended /\ timers[target] = <<>>
       THEN /\ present' = present \ {target} /\ paused' = paused \ {target}
            /\ IF left = {} THEN UNCHANGED left ELSE \E next \in left : left' = left \ {next}
            /\ target' = Nothing /\ disturbed' = TRUE
       ELSE UNCHANGED <<present, paused, left, target, disturbed>>
    /\ timerIndex' = 1
    /\ UNCHANGED <<timers, timer, dt, currentTimer, interval, salvaged, ended, used, ticked, steady>>

EndWalk ==
    /\ pc = "walking" /\ left = {}
    /\ pc' = "idle" /\ target' = Nothing /\ used' = 0
    /\ dt' = 0 /\ ended' = FALSE /\ ticked' = {} /\ steady' = {} /\ disturbed' = FALSE
    /\ UNCHANGED <<tableVars, left, timerIndex, currentTimer, interval, salvaged>>

-----------------------------------------------------------------------------
(* and Timer::update of each of its timers. *)

\* The callback is called: its calls are counted anew.
CallBack(at) == pc' = at /\ used' = 0

\* An interval of 0 takes all that has elapsed.
IntervalOf(tm) == IF tm.interval > 0 THEN tm.interval ELSE tm.elapsed

\* tm is the timer before its next turn of the loop.
RepeatOrEnd(tm, due) ==
    IF tm.elapsed >= due THEN CallBack("repeating") ELSE pc' = "ended" /\ used' = 0

SetTimer(tm) == timer' = [timer EXCEPT ![currentTimer'] = tm]

Tick ==
    /\ pc = "ticking" /\ timerIndex <= Len(timers[target])
    /\ currentTimer' = timers[target][timerIndex] /\ salvaged' = FALSE
    /\ ticked' = ticked \cup {currentTimer'}
    /\ LET old == timer[currentTimer']
           tm == [old EXCEPT !.elapsed = IF @ = -1 THEN 0 ELSE @ + dt]
       IN  /\ SetTimer(tm)
           /\ IF old.elapsed = -1 \/ (tm.delay > 0 /\ tm.elapsed < tm.delay)
              THEN pc' = "ended" /\ used' = 0 /\ UNCHANGED interval
              ELSE IF tm.delay > 0 THEN CallBack("delayed") /\ UNCHANGED interval
              ELSE RepeatOrEnd(tm, IntervalOf(tm)) /\ interval' = IntervalOf(tm)
    /\ UNCHANGED <<present, paused, timers, dt, left, target, timerIndex, ended, steady, disturbed>>

\* A timer that has been called for the last time is unscheduled, by its key.
LastCallPast(tm) == tm.runs = 0
LastCall(tm) == tm.runs = 1
OneCallLess(tm) == IF tm.runs = FOREVER THEN FOREVER ELSE tm.runs - 1

DelayedReturns ==
    /\ pc = "delayed"
    /\ LET old == timer[currentTimer]
           tm == [old EXCEPT !.elapsed = @ - old.delay, !.delay = 0, !.runs = OneCallLess(old)]
       IN  /\ timer' = [timer EXCEPT ![currentTimer] = tm]
           /\ IF LastCall(old) THEN pc' = "cancelling" /\ used' = 0 /\ UNCHANGED interval
              ELSE RepeatOrEnd(tm, IntervalOf(tm)) /\ interval' = IntervalOf(tm)
    /\ UNCHANGED <<present, paused, timers, dt, left, target, timerIndex, currentTimer, salvaged, ended, history>>

RepeatedReturns ==
    /\ pc = "repeating"
    /\ LET old == timer[currentTimer]
           tm == [old EXCEPT !.elapsed = @ - interval, !.runs = OneCallLess(old)]
       IN  /\ timer' = [timer EXCEPT ![currentTimer] = tm]
           /\ IF LastCall(old) THEN pc' = "cancelling" /\ used' = 0
              ELSE IF tm.elapsed <= 0 \/ ended THEN pc' = "ended" /\ used' = 0
              ELSE RepeatOrEnd(tm, interval)
    /\ UNCHANGED <<present, paused, timers, walkVars, salvaged, ended, history>>

Cancel ==
    /\ pc = "cancelling" /\ pc' = "ended"
    /\ LET k == timer[currentTimer].key IN
         IF KeyAt(target, k) = {}
         THEN UNCHANGED <<tableVars, walkVars, salvaged, ended, history>>
         ELSE \E i \in KeyAt(target, k) : RemoveTimer(target, i)
    /\ UNCHANGED used

\* The walk's own reference to a salvaged timer is the last one.
EndTick ==
    /\ pc = "ended" /\ pc' = "ticking"
    /\ timer' = IF salvaged THEN [timer EXCEPT ![currentTimer] = Released(currentTimer, @.refs - 1)] ELSE timer
    /\ currentTimer' = Nothing /\ salvaged' = FALSE /\ interval' = 0 /\ timerIndex' = timerIndex + 1
    /\ UNCHANGED <<present, paused, timers, dt, left, target, ended, used, history>>

-----------------------------------------------------------------------------

Update ==
    \/ \E step \in 1..MaxStep : BeginFrame(step)
    \/ \E t \in Targets : Visit(t)
    \/ LeaveTarget \/ EndWalk \/ Tick \/ DelayedReturns \/ RepeatedReturns \/ Cancel \/ EndTick

Next == Game \/ Update

Spec == Init /\ [][Next]_vars

-----------------------------------------------------------------------------

\* Types, and one timer for a key of a target.
TypeOK ==
    /\ paused \subseteq present /\ present \subseteq Targets /\ left \subseteq present
    /\ timers \in [Targets -> Seq(Ids)]
    /\ \A t \in Targets : \A i, j \in DOMAIN timers[t] :
         timer[timers[t][i]].key = timer[timers[t][j]].key => i = j
    /\ \A id \in Ids : /\ timer[id].key \in Keys \cup {Nothing} /\ timer[id].refs \in 0..2
                       /\ timer[id].elapsed >= -1 /\ timer[id].runs >= FOREVER
    /\ pc \in {"idle", "walking", "ticking", "delayed", "repeating", "cancelling", "ended"}
    /\ target \in present \cup {Nothing} /\ currentTimer \in Ids \cup {Nothing}
    /\ timerIndex \in Nat /\ used \in 0..MaxCalls

\* A target is in the table exactly while it has timers; only the current one
\* may have lost its last timer, and then the walk knows (Scheduler.cpp:218-224,
\* 398-404).
NoEmptyEntry ==
    \A t \in Targets : IF t \in present THEN timers[t] # <<>> \/ (t = target /\ ended)
                       ELSE timers[t] = <<>>

\* Every timer is counted once for the vector that holds it and once for the
\* walk that salvaged it: the running timer is never deleted under its own
\* update, and no timer is leaked or deleted twice.  No vector holds two timers
\* of one key (TypeOK).
Holders(id) ==
    Cardinality({t \in Targets : id \in Range(timers[t])}) + (IF salvaged /\ id = currentTimer THEN 1 ELSE 0)

RefsAgree ==
    /\ TypeOK
    /\ \A id \in Ids : timer[id].refs = Holders(id)
    /\ \A t \in Targets : IsInjective(timers[t])
    /\ pc \in {"delayed", "repeating", "cancelling", "ended"} => timer[currentTimer].refs > 0

\* In a frame in which no target ends or comes, each timer that stays scheduled
\* and unpaused is updated once, whatever other timers come and go.
UpdatedOnce ==
    /\ pc = "walking" /\ left = {} /\ ~disturbed => steady \subseteq ticked
    /\ pc = "ticking" /\ timerIndex <= Len(timers[target]) /\ ~disturbed => timers[target][timerIndex] \notin ticked

\* "If 'interval' is 0, it will be called every frame" (Scheduler.h:149).
CalledEveryFrame == pc = "walking" /\ left = {} => {id \in steady : timer[id].interval = 0} \subseteq ticked

\* "Unschedules a callback" (Scheduler.h:179): the running timer, once it is
\* unscheduled by its callback, is not called again for the time it is behind.
NotCalledAgain == InCallback /\ used = 0 => ~salvaged

\* A timer for a number of calls is called that often and then unscheduled.
LastCallEnds == pc \in {"walking", "idle"} => \A t \in Targets : \A i \in DOMAIN timers[t] : timer[timers[t][i]].runs # 0
=============================================================================
