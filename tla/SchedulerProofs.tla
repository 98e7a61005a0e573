--------------------------- MODULE SchedulerProofs ---------------------------
(* The walk over the timers, for every number of targets, keys and timers and *)
(* whatever callbacks call: no entry of the table survives without timers,    *)
(* each timer lives exactly as long as something holds it, none is updated    *)
(* twice or skipped, and the last call of a timer ends it.                    *)
EXTENDS Scheduler, FiniteSetTheorems, TLAPS

\* Between the targets of a walk, and between frames, nothing is excepted from
\* NoEmptyEntry; there is a current target
\* exactly while its timers are updated.
IInv ==
    /\ timers \in [Targets -> Seq(Ids)] /\ present \subseteq Targets
    /\ NoEmptyEntry
    /\ pc \in {"walking", "idle"} => \A t \in present : timers[t] # <<>>
    /\ pc = "idle" => target = Nothing
    /\ pc \notin {"walking", "idle"} => target \in Targets

\* Taking one element out of a sequence leaves a sequence over the same set.
LEMMA RemoveAtType ==
    ASSUME NEW S, NEW s \in Seq(S), NEW i \in 1..Len(s)
    PROVE  RemoveAt(s, i) \in Seq(S)
  <1>1. SubSeq(s, 1, i - 1) \in Seq(S) /\ SubSeq(s, i + 1, Len(s)) \in Seq(S)
    OBVIOUS
  <1> QED BY <1>1 DEF RemoveAt

\* What the removal of one timer, and of all those of some targets, keeps: the
\* entry that it leaves without timers is gone, or the current one.
Kept ==
    /\ timers' \in [Targets -> Seq(Ids)] /\ present' \subseteq Targets /\ NoEmptyEntry'
    /\ target = Nothing /\ (\A t \in present : timers[t] # <<>>) => \A t \in present' : timers'[t] # <<>>
    /\ target' = target

LEMMA RemoveTimerKeeps ==
    ASSUME timers \in [Targets -> Seq(Ids)], present \subseteq Targets, NoEmptyEntry,
           NEW t \in Targets, NEW i \in DOMAIN timers[t], RemoveTimer(t, i)
    PROVE  Kept
  <1> USE SchedulerAssumption
  <1> DEFINE rest == RemoveAt(timers[t], i)
  <1>1. rest \in Seq(Ids)
    BY RemoveAtType
  <1>2. timers' = [timers EXCEPT ![t] = rest] /\ target' = target
    BY DEF RemoveTimer
  <1>3. timers[t] # <<>>
    OBVIOUS
  <1>4. t \in present
    BY <1>3 DEF NoEmptyEntry
  <1>5. CASE rest = <<>>
    <2>1. present' = Emptied(t) /\ ended' = (ended \/ t = target)
      BY <1>5 DEF RemoveTimer
    <2> QED BY <1>1, <1>2, <1>4, <1>5, <2>1 DEF Kept, NoEmptyEntry, Emptied, SchedulerAssumption
  <1>6. CASE rest # <<>>
    <2>1. present' = present /\ ended' = ended
      BY <1>6 DEF RemoveTimer
    <2> QED BY <1>1, <1>2, <1>4, <1>6, <2>1 DEF Kept, NoEmptyEntry
  <1> QED BY <1>5, <1>6

LEMMA RemoveAllKeeps ==
    ASSUME timers \in [Targets -> Seq(Ids)], present \subseteq Targets, NoEmptyEntry,
           NEW ts \in SUBSET present, RemoveAll(ts)
    PROVE  Kept
  <1> USE SchedulerAssumption
  <1>1. /\ timers' = [t \in Targets |-> IF t \in ts THEN <<>> ELSE timers[t]]
        /\ present' = present \ (ts \ {target})
        /\ ended' = (ended \/ target \in ts)
        /\ target' = target
    BY DEF RemoveAll
  <1>2. <<>> \in Seq(Ids)
    OBVIOUS
  <1>3. timers' \in [Targets -> Seq(Ids)] /\ present' \subseteq Targets
    BY <1>1, <1>2
  <1>4. NoEmptyEntry'
    BY <1>1 DEF NoEmptyEntry
  <1>5. target = Nothing => \A t \in present' : t \in present /\ t \notin ts
    BY <1>1 DEF SchedulerAssumption
  <1> QED BY <1>1, <1>3, <1>4, <1>5 DEF Kept

-----------------------------------------------------------------------------

\* The calls of the game keep it: what they remove is covered by the lemmas,
\* and what schedule adds has a timer.
LEMMA GameKeeps == IInv /\ Game => IInv'
  <1> SUFFICES ASSUME IInv, Game PROVE IInv'
    OBVIOUS
  <1> USE SchedulerAssumption DEF IInv
  <1>0. pc # "walking"
    BY DEF Game, Calls, InCallback, Unschedule, Schedule, UnscheduleAllForTarget, UnscheduleAll, PauseTarget, ResumeTarget
  <1>1. ASSUME Kept, pc' = pc PROVE IInv'
    BY <1>0, <1>1 DEF Kept
  <1>2. CASE \E t \in Targets, k \in Keys : Unschedule(k, t)
    <2> PICK t \in Targets, k \in Keys : Unschedule(k, t)
      BY <1>2
    <2>1. PICK i \in DOMAIN timers[t] : RemoveTimer(t, i)
      BY DEF Unschedule, KeyAt
    <2> QED BY <1>1, <2>1, RemoveTimerKeeps DEF Unschedule
  <1>3. CASE \E t \in Targets, k \in Keys, plan \in Plans : Schedule(t, k, plan)
    <2> PICK t \in Targets, k \in Keys, plan \in Plans : Schedule(t, k, plan)
      BY <1>3
    <2>1. UNCHANGED <<pc, target, ended>>
      BY DEF Schedule
    <2>2. CASE \E i \in KeyAt(t, k) : SetInterval(t, i, plan)
      BY <2>1, <2>2 DEF SetInterval, NoEmptyEntry
    <2>3. CASE \E id \in Ids : AddTimer(t, k, plan, id)
      <3> PICK id \in Ids : AddTimer(t, k, plan, id)
        BY <2>3
      <3>1. timers' = [timers EXCEPT ![t] = Append(@, id)] /\ present' = present \cup {t}
        BY DEF AddTimer
      <3>2. Append(timers[t], id) \in Seq(Ids) /\ Append(timers[t], id) # <<>>
        OBVIOUS
      <3> QED BY <2>1, <3>1, <3>2 DEF NoEmptyEntry
    <2> QED BY <2>2, <2>3 DEF Schedule
  <1>4. CASE \E t \in Targets : UnscheduleAllForTarget(t)
    <2> PICK t \in Targets : UnscheduleAllForTarget(t)
      BY <1>4
    <2> QED BY <1>1, RemoveAllKeeps DEF UnscheduleAllForTarget
  <1>5. CASE UnscheduleAll
    BY <1>1, <1>5, RemoveAllKeeps DEF UnscheduleAll
  <1>6. CASE \E t \in Targets : PauseTarget(t) \/ ResumeTarget(t)
    BY <1>6 DEF PauseTarget, ResumeTarget, walkVars, NoEmptyEntry
  <1> QED BY <1>2, <1>3, <1>4, <1>5, <1>6 DEF Game

\* So do the steps of the walk: only leaving a target and cancelling a timer
\* touch the table, and visiting the next target resets what is excepted.
LEMMA UpdateKeeps == IInv /\ Update => IInv'
  <1> SUFFICES ASSUME IInv, Update PROVE IInv'
    OBVIOUS
  <1> USE SchedulerAssumption DEF IInv
  <1>1. CASE \E step \in 1..MaxStep : BeginFrame(step)
    BY <1>1 DEF BeginFrame, tableVars, NoEmptyEntry
  <1>2. CASE \E t \in Targets : Visit(t)
    BY <1>2 DEF Visit, tableVars, NoEmptyEntry
  <1>3. CASE LeaveTarget
    <2>1. pc = "ticking" /\ pc' = "walking" /\ UNCHANGED <<timers, ended>>
      BY <1>3 DEF LeaveTarget
    <2>2. CASE ended /\ timers[target] = <<>>
      <3>1. present' = present \ {target}
        BY <1>3, <2>2 DEF LeaveTarget
      <3> QED BY <2>1, <2>2, <3>1 DEF NoEmptyEntry
    <2>3. CASE ~(ended /\ timers[target] = <<>>)
      <3>1. UNCHANGED <<present, target>>
        BY <1>3, <2>3 DEF LeaveTarget
      <3> QED BY <2>1, <2>3, <3>1 DEF NoEmptyEntry
    <2> QED BY <2>2, <2>3
  <1>4. CASE EndWalk
    BY <1>4 DEF EndWalk, tableVars, NoEmptyEntry
  <1>5. CASE Tick \/ DelayedReturns \/ RepeatedReturns \/ EndTick
    <2>1. UNCHANGED <<present, timers, target, ended>>
      BY <1>5 DEF Tick, DelayedReturns, RepeatedReturns, EndTick, walkVars
    <2>2. pc' \in {"ticking", "delayed", "repeating", "cancelling", "ended"}
      BY <1>5 DEF Tick, DelayedReturns, RepeatedReturns, EndTick, RepeatOrEnd, CallBack
    <2>3. pc \notin {"walking", "idle"}
      BY <1>5 DEF Tick, DelayedReturns, RepeatedReturns, EndTick
    <2> QED BY <2>1, <2>2, <2>3 DEF NoEmptyEntry
  <1>6. CASE Cancel
    <2>1. pc' = "ended"
      BY <1>6 DEF Cancel
    <2> DEFINE k == timer[currentTimer].key
    <2>2. CASE KeyAt(target, k) = {}
      BY <1>6, <2>1, <2>2 DEF Cancel, tableVars, walkVars, NoEmptyEntry
    <2>3. CASE KeyAt(target, k) # {}
      <3>1. PICK i \in DOMAIN timers[target] : RemoveTimer(target, i)
        BY <1>6, <2>3 DEF Cancel, KeyAt
      <3>2. target \in Targets
        BY <1>6 DEF Cancel
      <3> QED BY <2>1, <3>1, <3>2, RemoveTimerKeeps DEF Kept
    <2> QED BY <2>2, <2>3
  <1> QED BY <1>1, <1>2, <1>3, <1>4, <1>5, <1>6 DEF Update

\* A target is in the table exactly while it has timers: schedule finds no
\* stale entry, and no entry is leaked.
THEOREM NoEmptyEntryAlways == Spec => []NoEmptyEntry
  <1>1. Init => IInv
    BY DEF Init, IInv, NoEmptyEntry
  <1>2. IInv /\ [Next]_vars => IInv'
    <2> SUFFICES ASSUME IInv, [Next]_vars PROVE IInv'
      OBVIOUS
    <2>1. CASE UNCHANGED vars
      BY <2>1 DEF vars, tableVars, walkVars, IInv, NoEmptyEntry
    <2> QED BY <2>1, GameKeeps, UpdateKeeps DEF Next
  <1>3. IInv => NoEmptyEntry
    BY DEF IInv
  <1> QED BY <1>1, <1>2, <1>3, PTL DEF Spec

-----------------------------------------------------------------------------
(* What holds the timers.  A timer lives while the vector of its target or   *)
(* the walk holds it: it is in one vector at most, and not in one any more    *)
(* once it was salvaged.  The timers that Frame tells of are those that the   *)
(* walk has still to reach: behind its index in the current vector, or in the *)
(* vector of a target that is left.                                          *)

InVector(id) == \E t \in Targets : \E i \in DOMAIN timers[t] : timers[t][i] = id
InTick == pc \in {"delayed", "repeating", "cancelling", "ended"}

TimerType == [key : Keys \cup {Nothing}, interval : Nat, delay : Nat, runs : Nat \cup {FOREVER},
              elapsed : Nat \cup {-1}, refs : {0, 1}]

Types ==
    /\ timer \in [Ids -> TimerType]
    /\ paused \subseteq present /\ left \subseteq present \ {target} /\ target \in present \cup {Nothing}
    /\ dt \in Nat /\ interval \in Nat /\ timerIndex \in Nat /\ used \in 0..MaxCalls
    /\ pc \in {"idle", "walking", "ticking"} \/ InTick
    /\ pc = "ticking" => timerIndex > 0

Unique ==
    \A t \in Targets : \A i, j \in DOMAIN timers[t] :
        timer[timers[t][i]].key = timer[timers[t][j]].key => i = j

Placed ==
    \A t, u \in Targets : \A i \in DOMAIN timers[t], j \in DOMAIN timers[u] :
        timers[t][i] = timers[u][j] => t = u /\ i = j

Held(id) == InVector(id) \/ (salvaged /\ id = currentTimer)

Counted == \A id \in Ids : timer[id].refs = IF Held(id) THEN 1 ELSE 0

Current ==
    IF InTick
    THEN /\ currentTimer \in Ids
         /\ IF salvaged THEN ~InVector(currentTimer)
            ELSE \E i \in DOMAIN timers[target] : timers[target][i] = currentTimer
    ELSE currentTimer = Nothing /\ ~salvaged

\* A callback is called when it is due, which no call of the game changes.
Due ==
    /\ pc = "delayed" => timer[currentTimer].elapsed >= timer[currentTimer].delay
    /\ pc = "repeating" => timer[currentTimer].elapsed >= interval

\* Only the running timer has no calls left, until it is cancelled.
CallsLeft ==
    /\ \A t \in Targets : \A i \in DOMAIN timers[t] :
         timer[timers[t][i]].runs # 0 \/ (pc = "cancelling" /\ timers[t][i] = currentTimer)
    /\ InCallback => timer[currentTimer].runs # 0

Parts == Types /\ Unique /\ Placed /\ Counted /\ Current /\ Due /\ CallsLeft

\* The timers of the current target that this walk has updated.
Done == IF pc = "ticking" THEN timerIndex - 1 ELSE timerIndex
Visiting == pc = "ticking" \/ InTick
Passed(t, i) == t \notin left /\ (Visiting /\ t = target => i <= Done)

Frame ==
    /\ pc = "idle" => steady = {} /\ ticked = {}
    /\ \A id \in steady : \E t \in Targets : \E i \in DOMAIN timers[t] : timers[t][i] = id /\ t \notin paused
    /\ ~disturbed => \A t \in Targets : \A i \in DOMAIN timers[t] :
         /\ timers[t][i] \in ticked => Passed(t, i)
         /\ timers[t][i] \in steady /\ Passed(t, i) => timers[t][i] \in ticked

-----------------------------------------------------------------------------
(* Removal, of one timer or of all those of some targets: ids leave the       *)
(* vectors, and what stays keeps its target and its setting.                 *)

Removed(ids) ==
    /\ timers' \in [Targets -> Seq(Ids)]
    /\ ids \subseteq Ids /\ \A id \in ids : InVector(id)
    /\ \A u \in Targets : \A j \in DOMAIN timers'[u] :
         timers'[u][j] \notin ids /\ \E i \in DOMAIN timers[u] : timers'[u][j] = timers[u][i]
    /\ \A u \in Targets : \A i \in DOMAIN timers[u] :
         timers[u][i] \notin ids => \E j \in DOMAIN timers'[u] : timers'[u][j] = timers[u][i]
    /\ \A u \in Targets : \A i, j \in DOMAIN timers'[u] : timers'[u][i] = timers'[u][j] => i = j
    /\ timer' = [id \in Ids |-> IF id \in ids THEN Released(id, RefsWithout(id)) ELSE timer[id]]
    /\ salvaged' = (salvaged \/ \E id \in ids : Running(id))
    /\ present' \subseteq present /\ paused' \subseteq present' /\ left' \subseteq present' \ {target}
    /\ (target \in present => target \in present') /\ timerIndex' \in Nat
    /\ UNCHANGED <<target, currentTimer, interval, dt>>

LEMMA RemoveAtAt ==
    ASSUME NEW S, NEW s \in Seq(S), NEW i \in 1..Len(s)
    PROVE  /\ RemoveAt(s, i) \in Seq(S) /\ Len(RemoveAt(s, i)) = Len(s) - 1
           /\ \A j \in 1..Len(s) - 1 : RemoveAt(s, i)[j] = IF j < i THEN s[j] ELSE s[j + 1]
  <1> DEFINE a == SubSeq(s, 1, i - 1)
             b == SubSeq(s, i + 1, Len(s))
  <1>1. /\ a \in Seq(S) /\ Len(a) = i - 1 /\ \A j \in 1..i - 1 : a[j] = s[j]
        /\ b \in Seq(S) /\ Len(b) = Len(s) - i /\ \A j \in 1..Len(s) - i : b[j] = s[j + i]
    OBVIOUS
  <1>2. RemoveAt(s, i) = a \o b
    BY DEF RemoveAt
  <1> HIDE DEF a, b
  <1>3. Len(a \o b) = Len(s) - 1 /\ a \o b \in Seq(S)
    BY <1>1
  <1>4. ASSUME NEW j \in 1..Len(s) - 1
        PROVE  (a \o b)[j] = IF j < i THEN s[j] ELSE s[j + 1]
    <2>1. CASE j < i
      BY <1>1, <2>1
    <2>2. CASE ~(j < i)
      <3>1. (a \o b)[j] = b[j - (i - 1)] /\ j - (i - 1) \in 1..Len(s) - i
        BY <1>1, <2>2
      <3> QED BY <1>1, <2>2, <3>1
    <2> QED BY <2>1, <2>2
  <1> QED BY <1>2, <1>3, <1>4

\* What unschedule does to the vector of its target.
LEMMA RemoveTimerVector ==
    ASSUME timers \in [Targets -> Seq(Ids)], NEW t \in Targets, NEW i \in DOMAIN timers[t], RemoveTimer(t, i)
    PROVE  /\ timers' \in [Targets -> Seq(Ids)]
           /\ \A u \in Targets : u # t => timers'[u] = timers[u]
           /\ Len(timers'[t]) = Len(timers[t]) - 1
           /\ \A j \in DOMAIN timers'[t] : timers'[t][j] = IF j < i THEN timers[t][j] ELSE timers[t][j + 1]
  <1>1. timers[t] \in Seq(Ids) /\ i \in 1..Len(timers[t])
    OBVIOUS
  <1> DEFINE rest == RemoveAt(timers[t], i)
  <1>2. timers' = [timers EXCEPT ![t] = rest]
    BY DEF RemoveTimer
  <1>3. rest \in Seq(Ids) /\ Len(rest) = Len(timers[t]) - 1
    BY <1>1, RemoveAtAt
  <1>4. \A j \in 1..Len(timers[t]) - 1 : rest[j] = IF j < i THEN timers[t][j] ELSE timers[t][j + 1]
    BY <1>1, RemoveAtAt
  <1> HIDE DEF rest
  <1>5. timers'[t] = rest /\ DOMAIN rest = 1..Len(timers[t]) - 1
    BY <1>2, <1>3
  <1> QED BY <1>2, <1>3, <1>4, <1>5

LEMMA RemoveTimerRemoves ==
    ASSUME IInv, Types, Placed, NEW t \in Targets, NEW i \in DOMAIN timers[t], RemoveTimer(t, i)
    PROVE  Removed({timers[t][i]})
  <1> DEFINE id == timers[t][i]
  <1>0. timers \in [Targets -> Seq(Ids)]
    BY DEF IInv
  <1>1. id \in Ids /\ i \in 1..Len(timers[t]) /\ t \in present
    BY <1>0 DEF IInv, NoEmptyEntry
  <1>2. /\ timers' \in [Targets -> Seq(Ids)]
        /\ \A u \in Targets : u # t => timers'[u] = timers[u]
        /\ Len(timers'[t]) = Len(timers[t]) - 1
        /\ \A j \in DOMAIN timers'[t] : timers'[t][j] = IF j < i THEN timers[t][j] ELSE timers[t][j + 1]
    BY <1>0, RemoveTimerVector
  <1>3. \A u \in Targets : \A j \in DOMAIN timers'[u] :
          timers'[u][j] # id /\ \E k \in DOMAIN timers[u] : timers'[u][j] = timers[u][k]
    <2> SUFFICES ASSUME NEW u \in Targets, NEW j \in DOMAIN timers'[u]
                 PROVE  timers'[u][j] # id /\ \E k \in DOMAIN timers[u] : timers'[u][j] = timers[u][k]
      OBVIOUS
    <2>1. CASE u # t
      BY <1>2, <2>1 DEF Placed
    <2>2. CASE u = t
      <3> DEFINE k == IF j < i THEN j ELSE j + 1
      <3>1. timers'[u][j] = timers[u][k] /\ k \in DOMAIN timers[u] /\ k # i
        BY <1>0, <1>1, <1>2, <2>2
      <3> QED BY <2>2, <3>1 DEF Placed
    <2> QED BY <2>1, <2>2
  <1>4. \A u \in Targets : \A k \in DOMAIN timers[u] :
          timers[u][k] # id => \E j \in DOMAIN timers'[u] : timers'[u][j] = timers[u][k]
    <2> SUFFICES ASSUME NEW u \in Targets, NEW k \in DOMAIN timers[u], timers[u][k] # id
                 PROVE  \E j \in DOMAIN timers'[u] : timers'[u][j] = timers[u][k]
      OBVIOUS
    <2>1. CASE u # t
      BY <1>2, <2>1
    <2>2. CASE u = t
      <3> DEFINE j == IF k < i THEN k ELSE k - 1
      <3>1. timers'[u][j] = timers[u][k] /\ j \in DOMAIN timers'[u]
        BY <1>0, <1>1, <1>2, <2>2
      <3> QED BY <3>1
    <2> QED BY <2>1, <2>2
  <1>5. \A u \in Targets : \A j, k \in DOMAIN timers'[u] : timers'[u][j] = timers'[u][k] => j = k
    <2> SUFFICES ASSUME NEW u \in Targets, NEW j \in DOMAIN timers'[u], NEW k \in DOMAIN timers'[u],
                        timers'[u][j] = timers'[u][k]
                 PROVE  j = k
      OBVIOUS
    <2>1. CASE u # t
      BY <1>2, <2>1 DEF Placed
    <2>2. CASE u = t
      <3> DEFINE jj == IF j < i THEN j ELSE j + 1
                 kk == IF k < i THEN k ELSE k + 1
      <3>1. timers[t][jj] = timers[t][kk] /\ jj \in DOMAIN timers[t] /\ kk \in DOMAIN timers[t]
        BY <1>0, <1>1, <1>2, <2>2
      <3>2. jj = kk
        BY <3>1 DEF Placed
      <3> QED BY <1>1, <1>2, <2>2, <3>2
    <2> QED BY <2>1, <2>2
  <1>6. /\ salvaged' = (salvaged \/ Running(id))
        /\ timer' = [timer EXCEPT ![id] = Released(id, RefsWithout(id))]
        /\ timerIndex' = IndexWithout(t, i)
        /\ UNCHANGED <<target, currentTimer, interval, dt>>
    BY DEF RemoveTimer
  <1>7. timer' = [x \in Ids |-> IF x \in {id} THEN Released(x, RefsWithout(x)) ELSE timer[x]]
    BY <1>1, <1>6 DEF Types
  <1>8. timerIndex' \in Nat
    BY <1>1, <1>6 DEF IndexWithout, Types
  <1>9. /\ present' \subseteq present /\ paused' \subseteq present' /\ left' \subseteq present' \ {target}
        /\ target \in present => target \in present'
    <2> DEFINE rest == RemoveAt(timers[t], i)
    <2>1. paused' = paused \cap present'
      BY DEF RemoveTimer
    <2>2. CASE rest = <<>>
      <3>1. present' = Emptied(t) /\ left' = left \ {t}
        BY <2>2 DEF RemoveTimer
      <3> QED BY <2>1, <3>1 DEF Emptied, Types
    <2>3. CASE rest # <<>>
      <3>1. present' = present /\ left' = left
        BY <2>3 DEF RemoveTimer
      <3> QED BY <2>1, <3>1 DEF Types
    <2> QED BY <2>2, <2>3
  <1>10. InVector(id)
    BY DEF InVector
  <1> HIDE DEF id
  <1>11. /\ {id} \subseteq Ids /\ (\A x \in {id} : InVector(x))
         /\ \A u \in Targets : \A j \in DOMAIN timers'[u] :
              timers'[u][j] \notin {id} /\ \E k \in DOMAIN timers[u] : timers'[u][j] = timers[u][k]
         /\ \A u \in Targets : \A k \in DOMAIN timers[u] :
              timers[u][k] \notin {id} => \E j \in DOMAIN timers'[u] : timers'[u][j] = timers[u][k]
         /\ salvaged' = (salvaged \/ \E x \in {id} : Running(x))
    BY <1>1, <1>3, <1>4, <1>6, <1>10
  <1>12. timers' \in [Targets -> Seq(Ids)]
    BY <1>2
  <1>13. UNCHANGED <<target, currentTimer, interval, dt>>
    BY <1>6
  <1>14. Removed({id})
    BY ONLY <1>5, <1>7, <1>8, <1>9, <1>11, <1>12, <1>13 DEF Removed
  <1> QED BY <1>14 DEF id

LEMMA RemoveAllRemoves ==
    ASSUME IInv, Types, Placed, NEW ts \in SUBSET present, RemoveAll(ts)
    PROVE  Removed(UNION {Range(timers[t]) : t \in ts})
  <1> DEFINE ids == UNION {Range(timers[t]) : t \in ts}
  <1>1. timers \in [Targets -> Seq(Ids)] /\ ts \subseteq Targets /\ present \subseteq Targets
    BY DEF IInv
  <1>2. \A id : id \in ids <=> \E t \in ts : \E i \in DOMAIN timers[t] : timers[t][i] = id
    BY DEF Range
  <1>3. /\ salvaged' = (salvaged \/ \E id \in ids : Running(id))
        /\ timer' = [id \in Ids |-> IF id \in ids THEN Released(id, RefsWithout(id)) ELSE timer[id]]
        /\ timers' = [t \in Targets |-> IF t \in ts THEN <<>> ELSE timers[t]]
        /\ present' = present \ (ts \ {target}) /\ left' = left \ ts /\ paused' = paused \cap present'
        /\ UNCHANGED <<target, timerIndex, currentTimer, interval, dt>>
    BY DEF RemoveAll
  <1> HIDE DEF ids
  <1>4. timers' \in [Targets -> Seq(Ids)]
    BY <1>1, <1>3
  <1>5. ids \subseteq Ids /\ \A id \in ids : InVector(id)
    BY <1>1, <1>2 DEF InVector
  <1>6. \A u \in Targets : \A j \in DOMAIN timers'[u] : u \notin ts /\ timers'[u] = timers[u]
    BY <1>3
  <1>7. \A u \in Targets : \A j \in DOMAIN timers'[u] :
         timers'[u][j] \notin ids /\ \E i \in DOMAIN timers[u] : timers'[u][j] = timers[u][i]
    BY <1>1, <1>2, <1>6 DEF Placed
  <1>8. \A u \in Targets : \A i \in DOMAIN timers[u] :
         timers[u][i] \notin ids => \E j \in DOMAIN timers'[u] : timers'[u][j] = timers[u][i]
    BY <1>2, <1>3
  <1>9. \A u \in Targets : \A i, j \in DOMAIN timers'[u] : timers'[u][i] = timers'[u][j] => i = j
    BY <1>6 DEF Placed
  <1>10. /\ present' \subseteq present /\ paused' \subseteq present' /\ left' \subseteq present' \ {target}
         /\ (target \in present => target \in present') /\ timerIndex' \in Nat
    BY <1>3 DEF Types
  <1>11. UNCHANGED <<target, currentTimer, interval, dt>>
    BY <1>3
  <1>12. /\ timer' = [id \in Ids |-> IF id \in ids THEN Released(id, RefsWithout(id)) ELSE timer[id]]
         /\ salvaged' = (salvaged \/ \E id \in ids : Running(id))
    BY <1>3
  <1>13. Removed(ids)
    BY ONLY <1>4, <1>5, <1>7, <1>8, <1>9, <1>10, <1>11, <1>12 DEF Removed
  <1> QED BY <1>13 DEF ids

\* The running timer is released by nobody: the walk takes over its reference.
LEMMA RemovedTimer ==
    ASSUME IInv, Parts, NEW ids, Removed(ids)
    PROVE  /\ timer' \in [Ids -> TimerType]
           /\ \A id \in Ids \ ids : timer'[id] = timer[id]
           /\ \A id \in ids : timer'[id].refs = IF Running(id) THEN 1 ELSE 0
           /\ InTick => timer'[currentTimer] = timer[currentTimer]
  <1> USE SchedulerAssumption
  <1>1. /\ ids \subseteq Ids /\ \A id \in ids : InVector(id)
        /\ timer' = [id \in Ids |-> IF id \in ids THEN Released(id, RefsWithout(id)) ELSE timer[id]]
    BY DEF Removed
  <1>2. timer \in [Ids -> TimerType] /\ Counted /\ Current
    BY DEF Parts, Types
  <1>3. ASSUME NEW id \in ids
        PROVE  /\ timer'[id] \in TimerType /\ timer'[id].refs = (IF Running(id) THEN 1 ELSE 0)
               /\ Running(id) => timer'[id] = timer[id]
    <2>1. timer[id] \in TimerType /\ timer[id].refs = 1
      BY <1>1, <1>2 DEF Counted, Held
    <2>2. timer'[id] = Released(id, RefsWithout(id))
      BY <1>1
    <2>3. CASE Running(id)
      <3>1. timer'[id] = [timer[id] EXCEPT !.refs = 1]
        BY <2>1, <2>2, <2>3 DEF Released, RefsWithout
      <3> QED BY <2>1, <2>3, <3>1 DEF TimerType
    <2>4. CASE ~Running(id)
      <3>1. timer'[id] = Deleted
        BY <2>1, <2>2, <2>4 DEF Released, RefsWithout
      <3> QED BY <2>4, <3>1 DEF TimerType, Deleted
    <2> QED BY <2>3, <2>4
  <1>4. \A id \in Ids \ ids : timer'[id] = timer[id]
    BY <1>1
  <1>5. timer' \in [Ids -> TimerType]
    BY <1>1, <1>2, <1>3, <1>4
  <1>6. ASSUME InTick PROVE timer'[currentTimer] = timer[currentTimer]
    BY <1>1, <1>2, <1>3, <1>4, <1>6 DEF Current, Running
  <1> QED BY <1>3, <1>4, <1>5, <1>6

LEMMA RemovedInVector ==
    ASSUME NEW ids, Removed(ids)
    PROVE  \A id : InVector(id)' <=> InVector(id) /\ id \notin ids
  <1> SUFFICES ASSUME NEW id PROVE InVector(id)' <=> InVector(id) /\ id \notin ids
    OBVIOUS
  <1>1. \A u \in Targets : \A j \in DOMAIN timers'[u] :
         timers'[u][j] \notin ids /\ \E i \in DOMAIN timers[u] : timers'[u][j] = timers[u][i]
    BY DEF Removed
  <1>2. \A u \in Targets : \A i \in DOMAIN timers[u] :
         timers[u][i] \notin ids => \E j \in DOMAIN timers'[u] : timers'[u][j] = timers[u][i]
    BY DEF Removed
  <1> QED BY <1>1, <1>2 DEF InVector

\* A removal keeps all that is said of the timers, whoever calls it.
LEMMA RemovedKeeps ==
    ASSUME IInv, Parts, NEW ids, Removed(ids), (InTick <=> InTick')
    PROVE  Unique' /\ Placed' /\ Counted' /\ Current'
  <1> USE SchedulerAssumption
  <1>1. \A id : InVector(id)' <=> InVector(id) /\ id \notin ids
    BY RemovedInVector
  <1>2. /\ \A id \in Ids \ ids : timer'[id] = timer[id]
        /\ \A id \in ids : timer'[id].refs = IF Running(id) THEN 1 ELSE 0
    BY RemovedTimer
  <1>3. timers \in [Targets -> Seq(Ids)]
    BY DEF IInv
  <1>4. \A u \in Targets : \A j \in DOMAIN timers'[u] :
         timers'[u][j] \notin ids /\ \E i \in DOMAIN timers[u] : timers'[u][j] = timers[u][i]
    BY DEF Removed
  <1>5. \A u \in Targets : \A i, j \in DOMAIN timers'[u] : timers'[u][i] = timers'[u][j] => i = j
    BY DEF Removed
  <1>6. /\ ids \subseteq Ids /\ \A id \in ids : InVector(id)
        /\ salvaged' = (salvaged \/ \E id \in ids : Running(id)) /\ UNCHANGED <<target, currentTimer>>
    BY DEF Removed
  <1>7. Unique /\ Placed /\ Counted /\ Current
    BY DEF Parts
  <1>8. Placed'
    BY <1>4, <1>5, <1>7 DEF Placed
  <1>9. Unique'
    <2> SUFFICES ASSUME NEW u \in Targets, NEW i \in DOMAIN timers'[u], NEW j \in DOMAIN timers'[u],
                        timer'[timers'[u][i]].key = timer'[timers'[u][j]].key
                 PROVE  i = j
      BY DEF Unique
    <2>1. PICK ii \in DOMAIN timers[u] : timers'[u][i] = timers[u][ii]
      BY <1>4
    <2>2. PICK jj \in DOMAIN timers[u] : timers'[u][j] = timers[u][jj]
      BY <1>4
    <2>3. timers[u][ii] \in Ids \ ids /\ timers[u][jj] \in Ids \ ids
      BY <1>3, <1>4, <2>1, <2>2
    <2>4. ii = jj
      BY <1>2, <1>7, <2>1, <2>2, <2>3 DEF Unique
    <2> QED BY <1>5, <2>1, <2>2, <2>4
  <1>10. Counted'
    <2> SUFFICES ASSUME NEW id \in Ids PROVE timer'[id].refs = IF Held(id)' THEN 1 ELSE 0
      BY DEF Counted
    <2>1. CASE id \in ids
      <3>1. Held(id)' <=> Running(id) \/ (salvaged /\ id = currentTimer)
        BY <1>1, <1>6, <2>1 DEF Held, Running
      <3>2. ~(salvaged /\ id = currentTimer)
        BY <1>6, <1>7, <2>1 DEF Current
      <3> QED BY <1>2, <2>1, <3>1, <3>2
    <2>2. CASE id \notin ids
      <3>1. Held(id)' <=> Held(id)
        BY <1>1, <1>6, <2>2 DEF Held, Running
      <3> QED BY <1>2, <1>7, <2>2, <3>1 DEF Counted
    <2> QED BY <2>1, <2>2
  <1>11. Current'
    <2>1. CASE InTick
      <3>1. CASE currentTimer \in ids
        BY <1>1, <1>6, <1>7, <2>1, <3>1 DEF Current, Running
      <3>2. CASE currentTimer \notin ids
        <4>1. salvaged' <=> salvaged
          BY <1>6, <3>2 DEF Running
        <4>2. CASE salvaged
          <5>1. ~InVector(currentTimer) /\ currentTimer \in Ids
            BY <1>7, <2>1, <4>2 DEF Current
          <5>2. ~InVector(currentTimer)' /\ InTick' /\ salvaged'
            BY <1>1, <1>6, <2>1, <4>1, <4>2, <5>1 DEF InVector
          <5> QED BY <1>6, <5>1, <5>2 DEF Current
        <4>3. CASE ~salvaged
          <5>1. target \in Targets
            BY <2>1 DEF IInv, InTick
          <5>2. PICK i \in DOMAIN timers[target] : timers[target][i] = currentTimer
            BY <1>7, <2>1, <4>3 DEF Current
          <5>3. \E j \in DOMAIN timers'[target] : timers'[target][j] = currentTimer
            BY <3>2, <5>1, <5>2 DEF Removed
          <5> QED BY <1>6, <1>7, <2>1, <4>1, <4>3, <5>3 DEF Current
        <4> QED BY <4>2, <4>3
      <3> QED BY <3>1, <3>2
    <2>2. CASE ~InTick
      <3>1. currentTimer = Nothing /\ ~salvaged
        BY <1>7, <2>2 DEF Current
      <3>2. \A id \in ids : ~Running(id)
        BY <1>6, <3>1 DEF Running, SchedulerAssumption
      <3> QED BY <1>6, <2>2, <3>1, <3>2 DEF Current
    <2> QED BY <2>1, <2>2
  <1> QED BY <1>8, <1>9, <1>10, <1>11

-----------------------------------------------------------------------------
(* The calls of the game. *)

LEMMA RemovalCalled ==
    ASSUME IInv, Parts, NEW ids, Removed(ids), Calls, pc' = pc
    PROVE  Parts'
  <1> USE SchedulerAssumption
  <1>1. pc = "idle" \/ InTick
    BY DEF Calls, InCallback, InTick
  <1>2. InTick <=> InTick'
    BY DEF InTick
  <1>3. Unique' /\ Placed' /\ Counted' /\ Current'
    BY <1>2, RemovedKeeps
  <1>4. /\ timer' \in [Ids -> TimerType]
        /\ \A id \in Ids \ ids : timer'[id] = timer[id]
        /\ InTick => timer'[currentTimer] = timer[currentTimer]
    BY RemovedTimer
  <1>5. Types'
    BY <1>1, <1>4 DEF Parts, Types, Removed, Calls, InTick
  <1>6. Due'
    BY <1>4 DEF Parts, Due, Removed, InTick
  <1>7. CallsLeft'
    <2>1. \A u \in Targets : \A j \in DOMAIN timers'[u] :
           timers'[u][j] \notin ids /\ \E i \in DOMAIN timers[u] : timers'[u][j] = timers[u][i]
      BY DEF Removed
    <2>2. timers \in [Targets -> Seq(Ids)] /\ currentTimer' = currentTimer
      BY DEF IInv, Removed
    <2>3. \A u \in Targets : \A j \in DOMAIN timers'[u] : timer'[timers'[u][j]].runs # 0
      <3> SUFFICES ASSUME NEW u \in Targets, NEW j \in DOMAIN timers'[u] PROVE timer'[timers'[u][j]].runs # 0
        OBVIOUS
      <3>1. PICK i \in DOMAIN timers[u] : timers'[u][j] = timers[u][i]
        BY <2>1
      <3>2. timers[u][i] \in Ids \ ids
        BY <2>1, <2>2, <3>1
      <3>3. timer[timers[u][i]].runs # 0
        BY DEF Parts, CallsLeft, Calls, InCallback
      <3> QED BY <1>4, <3>1, <3>2, <3>3
    <2> QED BY <1>4, <2>2, <2>3 DEF Parts, CallsLeft, InCallback, InTick
  <1> QED BY <1>3, <1>5, <1>6, <1>7 DEF Parts

LEMMA SetIntervalKeeps ==
    ASSUME IInv, Parts, NEW t \in Targets, NEW k \in Keys, NEW plan \in Plans, NEW i \in KeyAt(t, k),
           SetInterval(t, i, plan), Calls,
           UNCHANGED <<pc, dt, target, timerIndex, currentTimer, interval, salvaged>>
    PROVE  Parts'
  <1> USE SchedulerAssumption
  <1> DEFINE id == timers[t][i]
  <1>1. id \in Ids /\ plan.interval \in Nat
    BY DEF IInv, KeyAt, SchedulerAssumption
  <1>2. timer' = [timer EXCEPT ![id].interval = plan.interval] /\ UNCHANGED <<present, paused, timers, left>>
    BY DEF SetInterval
  <1>3. timer \in [Ids -> TimerType] /\ timers \in [Targets -> Seq(Ids)]
    BY DEF Parts, Types, IInv
  <1> HIDE DEF id
  <1>4. timer' \in [Ids -> TimerType]
    <2>1. [timer[id] EXCEPT !.interval = plan.interval] \in TimerType
      BY <1>1, <1>3, ZenonT(60) DEF TimerType
    <2>2. timer' = [timer EXCEPT ![id] = [timer[id] EXCEPT !.interval = plan.interval]]
      BY <1>2
    <2> QED BY <1>1, <1>3, <2>1, <2>2
  <1>5. \A x \in Ids : /\ timer'[x].key = timer[x].key /\ timer'[x].refs = timer[x].refs
                       /\ timer'[x].runs = timer[x].runs /\ timer'[x].elapsed = timer[x].elapsed
                       /\ timer'[x].delay = timer[x].delay
    BY <1>1, <1>2, <1>3 DEF TimerType
  <1>6. Types'
    BY <1>2, <1>4 DEF Parts, Types, Calls, InTick
  <1>7. Unique' /\ Placed'
    BY <1>2, <1>3, <1>5 DEF Parts, Unique, Placed
  <1>8. Counted'
    BY <1>2, <1>5 DEF Parts, Counted, Held, InVector
  <1>9. Current'
    BY <1>2 DEF Parts, Current, InTick, InVector
  <1>10. InCallback => currentTimer \in Ids
    BY DEF Parts, Current, InTick, InCallback
  <1>11. Due'
    BY <1>5, <1>10 DEF Parts, Due, InCallback
  <1>12. CallsLeft'
    BY <1>2, <1>3, <1>5, <1>10 DEF Parts, CallsLeft, InCallback
  <1> QED BY <1>6, <1>7, <1>8, <1>9, <1>11, <1>12 DEF Parts

LEMMA AddTimerKeeps ==
    ASSUME IInv, Parts, NEW t \in Targets, NEW k \in Keys, NEW plan \in Plans, NEW id \in Ids,
           AddTimer(t, k, plan, id), KeyAt(t, k) = {}, Calls,
           UNCHANGED <<pc, dt, target, timerIndex, currentTimer, interval, salvaged>>
    PROVE  Parts'
  <1> USE SchedulerAssumption
  <1> DEFINE new == [key |-> k, interval |-> plan.interval, delay |-> plan.delay, runs |-> plan.runs,
                     elapsed |-> -1, refs |-> 1]
             n == Len(timers[t]) + 1
  <1>1. new \in TimerType /\ new.runs # 0 /\ new.key = k /\ new.refs = 1
    BY DEF TimerType, SchedulerAssumption, FOREVER
  <1>2. timer' = [timer EXCEPT ![id] = new] /\ timers' = [timers EXCEPT ![t] = Append(@, id)] /\ timer[id].refs = 0
    BY DEF AddTimer
  <1>3. timer \in [Ids -> TimerType] /\ timers \in [Targets -> Seq(Ids)]
    BY DEF Parts, Types, IInv
  <1>4. ~Held(id)
    BY <1>2 DEF Parts, Counted
  <1>5. ~InVector(id) /\ (InTick => id # currentTimer)
    BY <1>3, <1>4 DEF Held, Parts, Current, InVector, IInv, InTick
  <1> HIDE DEF new
  <1>6. /\ n \in Nat \ {0} /\ timers' \in [Targets -> Seq(Ids)]
        /\ \A u \in Targets : u # t => timers'[u] = timers[u]
        /\ DOMAIN timers'[t] = 1..n /\ DOMAIN timers[t] = 1..n - 1
        /\ timers'[t][n] = id /\ \A j \in 1..n - 1 : timers'[t][j] = timers[t][j]
    BY <1>2, <1>3
  <1> HIDE DEF n
  <1>7. timer' \in [Ids -> TimerType] /\ timer'[id] = new /\ \A x \in Ids : x # id => timer'[x] = timer[x]
    BY <1>1, <1>2, <1>3
  <1>8. Types'
    <2>1. paused' \subseteq present' /\ left' \subseteq present' \ {target} /\ present \subseteq present'
      BY DEF AddTimer, Parts, Types
    <2> QED BY <1>7, <2>1 DEF Parts, Types, Calls, InTick
  <1>9. \A u \in Targets : \A j \in DOMAIN timers[u] : timers[u][j] # id /\ timers[u][j] \in Ids
    BY <1>3, <1>5 DEF InVector
  <1>10. \A u \in Targets : \A j \in DOMAIN timers'[u] :
           \/ u = t /\ j = n /\ timers'[u][j] = id
           \/ j \in DOMAIN timers[u] /\ timers'[u][j] = timers[u][j]
    BY <1>6
  <1>11. Placed'
    BY <1>9, <1>10 DEF Parts, Placed
  <1>12. \A j \in DOMAIN timers[t] : timer[timers[t][j]].key # k
    BY DEF KeyAt
  <1>13. Unique'
    <2> SUFFICES ASSUME NEW u \in Targets, NEW i \in DOMAIN timers'[u], NEW j \in DOMAIN timers'[u],
                        timer'[timers'[u][i]].key = timer'[timers'[u][j]].key
                 PROVE  i = j
      BY DEF Unique
    <2>1. CASE i \in DOMAIN timers[u] /\ timers'[u][i] = timers[u][i] /\ j \in DOMAIN timers[u] /\ timers'[u][j] = timers[u][j]
      BY <1>7, <1>9, <2>1 DEF Parts, Unique
    <2>2. CASE u = t /\ i = n /\ timers'[u][i] = id /\ j \in DOMAIN timers[u] /\ timers'[u][j] = timers[u][j]
      BY <1>1, <1>7, <1>9, <1>12, <2>2
    <2>3. CASE u = t /\ j = n /\ timers'[u][j] = id /\ i \in DOMAIN timers[u] /\ timers'[u][i] = timers[u][i]
      BY <1>1, <1>7, <1>9, <1>12, <2>3
    <2> QED BY <1>10, <2>1, <2>2, <2>3
  <1>14. \A x : InVector(x)' <=> InVector(x) \/ x = id
    <2> SUFFICES ASSUME NEW x PROVE InVector(x)' <=> InVector(x) \/ x = id
      OBVIOUS
    <2>1. ASSUME InVector(x)' PROVE InVector(x) \/ x = id
      BY <1>10, <2>1 DEF InVector
    <2>2. ASSUME InVector(x) PROVE InVector(x)'
      <3> PICK u \in Targets : \E i \in DOMAIN timers[u] : timers[u][i] = x
        BY <2>2 DEF InVector
      <3>1. PICK i \in DOMAIN timers[u] : timers[u][i] = x
        OBVIOUS
      <3>2. i \in DOMAIN timers'[u] /\ timers'[u][i] = x
        <4>1. CASE u = t
          BY <1>6, <3>1, <4>1
        <4>2. CASE u # t
          <5>1. timers'[u] = timers[u]
            BY <1>6, <4>2
          <5> QED BY <3>1, <5>1
        <4> QED BY <4>1, <4>2
      <3>3. \E j \in DOMAIN timers'[u] : timers'[u][j] = x
        BY <3>2
      <3> QED BY ONLY <3>3 DEF InVector
    <2>3. ASSUME x = id PROVE InVector(x)'
      BY <1>6, <2>3 DEF InVector
    <2> QED BY <2>1, <2>2, <2>3
  <1>15. Counted'
    <2>1. \A x \in Ids : Held(x)' <=> Held(x) \/ x = id
      BY <1>14 DEF Held
    <2> QED BY <1>1, <1>7, <2>1 DEF Parts, Counted
  <1>16. Current'
    <2>1. CASE InTick
      <3>1. target \in Targets /\ currentTimer \in Ids /\ InTick' /\ id # currentTimer
        BY <1>5, <2>1 DEF InTick, IInv, Parts, Current
      <3>2. CASE salvaged
        <4>1. ~InVector(currentTimer)
          BY <2>1, <3>2 DEF Parts, Current
        <4>2. ~InVector(currentTimer)' /\ salvaged'
          BY <1>14, <3>1, <3>2, <4>1 DEF InVector
        <4> QED BY <3>1, <4>2 DEF Current
      <3>3. CASE ~salvaged
        <4>1. PICK i \in DOMAIN timers[target] : timers[target][i] = currentTimer
          BY <2>1, <3>3 DEF Parts, Current
        <4>2. i \in DOMAIN timers'[target] /\ timers'[target][i] = currentTimer
          BY <1>6, <3>1, <4>1
        <4> QED BY <3>1, <3>3, <4>2 DEF Current
      <3> QED BY <3>2, <3>3
    <2>2. CASE ~InTick
      BY <2>2 DEF Parts, Current, InTick
    <2> QED BY <2>1, <2>2
  <1>17. InCallback => currentTimer \in Ids /\ timer'[currentTimer] = timer[currentTimer]
    BY <1>5, <1>7 DEF InCallback, InTick, Parts, Current
  <1>18. Due'
    BY <1>17 DEF Parts, Due, InCallback
  <1>19. CallsLeft'
    <2>1. pc # "cancelling"
      BY DEF Calls, InCallback
    <2>2. \A u \in Targets : \A j \in DOMAIN timers'[u] : timer'[timers'[u][j]].runs # 0
      BY <1>1, <1>7, <1>9, <1>10, <2>1 DEF Parts, CallsLeft
    <2> QED BY <1>17, <2>2 DEF Parts, CallsLeft, InCallback
  <1> QED BY <1>8, <1>11, <1>13, <1>15, <1>16, <1>18, <1>19 DEF Parts

LEMMA GameKeepsParts == IInv /\ Parts /\ Game => Parts'
  <1> SUFFICES ASSUME IInv, Parts, Game PROVE Parts'
    OBVIOUS
  <1>1. CASE \E t \in Targets, k \in Keys : Unschedule(k, t)
    <2> PICK t \in Targets, k \in Keys : Unschedule(k, t)
      BY <1>1
    <2>1. PICK i \in DOMAIN timers[t] : RemoveTimer(t, i)
      BY DEF Unschedule, KeyAt
    <2>2. Removed({timers[t][i]})
      BY <2>1, RemoveTimerRemoves DEF Parts
    <2> QED BY <2>2, RemovalCalled DEF Unschedule
  <1>2. CASE \E t \in Targets, k \in Keys, plan \in Plans : Schedule(t, k, plan)
    <2> PICK t \in Targets, k \in Keys, plan \in Plans : Schedule(t, k, plan)
      BY <1>2
    <2>1. Calls /\ UNCHANGED <<pc, dt, target, timerIndex, currentTimer, interval, salvaged>>
      BY DEF Schedule
    <2>2. CASE KeyAt(t, k) # {}
      <3>1. PICK i \in KeyAt(t, k) : SetInterval(t, i, plan)
        BY <2>2 DEF Schedule
      <3> QED BY <2>1, <3>1, SetIntervalKeeps
    <2>3. CASE KeyAt(t, k) = {}
      <3>1. PICK id \in Ids : AddTimer(t, k, plan, id)
        BY <2>3 DEF Schedule
      <3> QED BY <2>1, <2>3, <3>1, AddTimerKeeps
    <2> QED BY <2>2, <2>3
  <1>3. CASE \E t \in Targets : UnscheduleAllForTarget(t)
    <2> PICK t \in Targets : UnscheduleAllForTarget(t)
      BY <1>3
    <2>1. {t} \in SUBSET present /\ RemoveAll({t}) /\ Calls /\ pc' = pc
      BY DEF UnscheduleAllForTarget
    <2>2. Removed(UNION {Range(timers[u]) : u \in {t}})
      BY <2>1, RemoveAllRemoves DEF Parts
    <2> QED BY <2>1, <2>2, RemovalCalled
  <1>4. CASE UnscheduleAll
    <2>1. RemoveAll(present) /\ Calls /\ pc' = pc
      BY <1>4 DEF UnscheduleAll
    <2>2. Removed(UNION {Range(timers[u]) : u \in present})
      BY <2>1, RemoveAllRemoves DEF Parts
    <2> QED BY <2>1, <2>2, RemovalCalled
  <1>5. CASE \E t \in Targets : PauseTarget(t) \/ ResumeTarget(t)
    <2>1. /\ UNCHANGED <<present, timers, timer, pc, walkVars, salvaged>> /\ used' \in 0..MaxCalls
          /\ paused' \subseteq present
      BY <1>5, SchedulerAssumption DEF PauseTarget, ResumeTarget, Parts, Types, Calls
    <2>2. Types' /\ Due' /\ CallsLeft'
      BY <2>1 DEF Parts, Types, Due, CallsLeft, InCallback, InTick, walkVars
    <2>3. Unique' /\ Placed' /\ Counted' /\ Current'
      BY <2>1 DEF Parts, Unique, Placed, Counted, Held, InVector, Current, InTick, walkVars
    <2> QED BY <2>2, <2>3 DEF Parts
  <1> QED BY <1>1, <1>2, <1>3, <1>4, <1>5 DEF Game

-----------------------------------------------------------------------------
(* The steps of the walk. *)

\* A step of a timer changes no more than its time and its calls.
LEMMA AdvanceKeeps ==
    ASSUME IInv, Parts, NEW id \in Ids, NEW tm \in TimerType,
           tm.key = timer[id].key, tm.refs = timer[id].refs, timer' = [timer EXCEPT ![id] = tm],
           UNCHANGED timers, salvaged' <=> salvaged, salvaged => currentTimer' = currentTimer
    PROVE  timer' \in [Ids -> TimerType] /\ Unique' /\ Placed' /\ Counted'
  <1>1. timer \in [Ids -> TimerType] /\ timers \in [Targets -> Seq(Ids)]
    BY DEF Parts, Types, IInv
  <1>2. /\ timer' \in [Ids -> TimerType]
        /\ \A x \in Ids : timer'[x].key = timer[x].key /\ timer'[x].refs = timer[x].refs
    BY <1>1
  <1>3. Unique' /\ Placed'
    BY <1>1, <1>2 DEF Parts, Unique, Placed
  <1>4. \A x \in Ids : Held(x)' <=> Held(x)
    BY DEF Held, InVector
  <1>5. Counted'
    BY <1>2, <1>4 DEF Parts, Counted
  <1> QED BY <1>2, <1>3, <1>5

LEMMA TickKeeps == IInv /\ Parts /\ Tick => Parts'
  <1> SUFFICES ASSUME IInv, Parts, Tick PROVE Parts'
    OBVIOUS
  <1> USE SchedulerAssumption
  <1> DEFINE id == timers[target][timerIndex]
             old == timer[id]
             tm == [old EXCEPT !.elapsed = IF @ = -1 THEN 0 ELSE @ + dt]
  <1>1. /\ pc = "ticking" /\ timerIndex <= Len(timers[target]) /\ currentTimer' = id /\ salvaged' = FALSE
        /\ UNCHANGED <<present, paused, timers, dt, left, target, timerIndex, ended, steady, disturbed>>
        /\ timer' = [timer EXCEPT ![id] = tm]
    BY DEF Tick, SetTimer
  <1>2. IF old.elapsed = -1 \/ (tm.delay > 0 /\ tm.elapsed < tm.delay)
        THEN pc' = "ended" /\ used' = 0 /\ UNCHANGED interval
        ELSE IF tm.delay > 0 THEN CallBack("delayed") /\ UNCHANGED interval
        ELSE RepeatOrEnd(tm, IntervalOf(tm)) /\ interval' = IntervalOf(tm)
    <2>1. currentTimer' = id
      BY <1>1
    <2> QED BY <2>1 DEF Tick
  <1>3. target \in Targets /\ timerIndex \in DOMAIN timers[target] /\ id \in Ids /\ old \in TimerType
    BY <1>1 DEF IInv, Parts, Types
  <1>4. ~salvaged /\ ~(InTick) /\ currentTimer = Nothing
    BY <1>1 DEF Parts, Current, InTick
  <1>5. dt \in Nat
    BY DEF Parts, Types
  <1> HIDE DEF id
  <1>6. tm \in TimerType /\ tm.key = old.key /\ tm.refs = old.refs /\ tm.runs = old.runs /\ tm.elapsed \in Nat
    BY <1>3, <1>5 DEF TimerType
  <1> HIDE DEF tm
  <1>7. timer' \in [Ids -> TimerType] /\ Unique' /\ Placed' /\ Counted'
    BY <1>1, <1>3, <1>4, <1>6, AdvanceKeeps
  <1>8. timer'[id] = tm /\ \A x \in Ids : timer'[x].runs = timer[x].runs
    BY <1>1, <1>3, <1>6 DEF Parts, Types
  <1>9. IntervalOf(tm) \in Nat
    BY <1>6 DEF IntervalOf, TimerType
  <1>10. /\ pc' \in {"delayed", "repeating", "ended"} /\ used' = 0 /\ interval' \in Nat
         /\ pc' = "delayed" => tm.elapsed >= tm.delay
         /\ pc' = "repeating" => tm.elapsed >= interval'
    <2>1. CASE old.elapsed = -1 \/ (tm.delay > 0 /\ tm.elapsed < tm.delay)
      BY <1>2, <2>1 DEF Parts, Types
    <2>2. CASE ~(old.elapsed = -1 \/ (tm.delay > 0 /\ tm.elapsed < tm.delay)) /\ tm.delay > 0
      <3>1. pc' = "delayed" /\ used' = 0 /\ UNCHANGED interval
        BY <1>2, <2>2 DEF CallBack
      <3>2. tm.elapsed >= tm.delay
        BY <1>6, <2>2 DEF TimerType
      <3> QED BY <3>1, <3>2 DEF Parts, Types
    <2>3. CASE ~(old.elapsed = -1 \/ (tm.delay > 0 /\ tm.elapsed < tm.delay)) /\ ~(tm.delay > 0)
      BY <1>2, <1>9, <2>3 DEF RepeatOrEnd, CallBack
    <2> QED BY <2>1, <2>2, <2>3
  <1>11. Types'
    BY <1>1, <1>7, <1>10 DEF Parts, Types, InTick
  <1>12. Current'
    BY <1>1, <1>3, <1>10 DEF Current, InTick, id
  <1>13. Due'
    BY <1>1, <1>8, <1>10 DEF Due
  <1>14. CallsLeft'
    <2>1. \A t \in Targets : \A i \in DOMAIN timers[t] : timers[t][i] \in Ids /\ timer[timers[t][i]].runs # 0
      BY <1>1 DEF Parts, CallsLeft, IInv
    <2>2. timer[id].runs # 0
      BY <1>3, <2>1 DEF id
    <2> QED BY <1>1, <1>3, <1>8, <2>1, <2>2 DEF CallsLeft
  <1> QED BY <1>7, <1>11, <1>12, <1>13, <1>14 DEF Parts

LEMMA DelayedKeeps == IInv /\ Parts /\ DelayedReturns => Parts'
  <1> SUFFICES ASSUME IInv, Parts, DelayedReturns PROVE Parts'
    OBVIOUS
  <1> USE SchedulerAssumption
  <1> DEFINE id == currentTimer
             old == timer[id]
             tm == [old EXCEPT !.elapsed = @ - old.delay, !.delay = 0, !.runs = OneCallLess(old)]
  <1>1. /\ pc = "delayed" /\ timer' = [timer EXCEPT ![id] = tm]
        /\ IF LastCall(old) THEN pc' = "cancelling" /\ used' = 0 /\ UNCHANGED interval
           ELSE RepeatOrEnd(tm, IntervalOf(tm)) /\ interval' = IntervalOf(tm)
        /\ UNCHANGED <<present, paused, timers, dt, left, target, timerIndex, currentTimer, salvaged, ended>>
    BY DEF DelayedReturns, history
  <1>2. InTick /\ InCallback
    BY <1>1 DEF InTick, InCallback
  <1>3. id \in Ids /\ old \in TimerType /\ old.runs # 0 /\ old.elapsed >= old.delay
    BY <1>1, <1>2 DEF Parts, Types, Current, Due, CallsLeft
  <1>4. tm \in TimerType /\ tm.key = old.key /\ tm.refs = old.refs /\ tm.elapsed \in Nat
        /\ (tm.runs = 0 => LastCall(old))
    <2>1. OneCallLess(old) \in Nat \cup {FOREVER} /\ (OneCallLess(old) = 0 => LastCall(old))
      BY <1>3 DEF TimerType, OneCallLess, LastCall, FOREVER
    <2>2. old.elapsed - old.delay \in Nat
      BY <1>3 DEF TimerType
    <2> QED BY <1>3, <2>1, <2>2 DEF TimerType
  <1> HIDE DEF tm
  <1>5. timer' \in [Ids -> TimerType] /\ Unique' /\ Placed' /\ Counted'
    BY <1>1, <1>3, <1>4, AdvanceKeeps
  <1>6. timer'[id] = tm /\ \A x \in Ids : x # id => timer'[x] = timer[x]
    BY <1>1, <1>3 DEF Parts, Types
  <1>7. IntervalOf(tm) \in Nat
    BY <1>4 DEF IntervalOf, TimerType
  <1>8. /\ pc' \in {"cancelling", "repeating", "ended"} /\ used' = 0 /\ interval' \in Nat
        /\ pc' = "repeating" => tm.elapsed >= interval'
        /\ tm.runs = 0 => pc' = "cancelling"
    BY <1>1, <1>4, <1>7 DEF RepeatOrEnd, CallBack, Parts, Types
  <1>9. Types'
    BY <1>1, <1>5, <1>8 DEF Parts, Types, InTick
  <1>10. Current'
    BY <1>1, <1>2, <1>8 DEF Parts, Current, InTick, InVector
  <1>11. Due'
    BY <1>1, <1>6, <1>8 DEF Due
  <1>12. CallsLeft'
    <2>1. \A t \in Targets : \A i \in DOMAIN timers[t] : timers[t][i] \in Ids /\ timer[timers[t][i]].runs # 0
      BY <1>1 DEF Parts, CallsLeft, IInv
    <2>2. \A t \in Targets : \A i \in DOMAIN timers'[t] :
            timer'[timers'[t][i]].runs # 0 \/ (pc' = "cancelling" /\ timers'[t][i] = currentTimer')
      BY <1>1, <1>6, <1>8, <2>1
    <2>3. InCallback' => timer'[currentTimer'].runs # 0
      BY <1>1, <1>6, <1>8 DEF InCallback
    <2> QED BY <2>2, <2>3 DEF CallsLeft
  <1> QED BY <1>5, <1>9, <1>10, <1>11, <1>12 DEF Parts

LEMMA RepeatedKeeps == IInv /\ Parts /\ RepeatedReturns => Parts'
  <1> SUFFICES ASSUME IInv, Parts, RepeatedReturns PROVE Parts'
    OBVIOUS
  <1> USE SchedulerAssumption
  <1> DEFINE id == currentTimer
             old == timer[id]
             tm == [old EXCEPT !.elapsed = @ - interval, !.runs = OneCallLess(old)]
  <1>1. /\ pc = "repeating" /\ timer' = [timer EXCEPT ![id] = tm]
        /\ IF LastCall(old) THEN pc' = "cancelling" /\ used' = 0
           ELSE IF tm.elapsed <= 0 \/ ended THEN pc' = "ended" /\ used' = 0
           ELSE RepeatOrEnd(tm, interval)
        /\ UNCHANGED <<present, paused, timers, dt, left, target, timerIndex, currentTimer, interval, salvaged, ended>>
    BY DEF RepeatedReturns, walkVars
  <1>2. InTick /\ InCallback
    BY <1>1 DEF InTick, InCallback
  <1>3. id \in Ids /\ old \in TimerType /\ old.runs # 0 /\ old.elapsed >= interval /\ interval \in Nat
    BY <1>1, <1>2 DEF Parts, Types, Current, Due, CallsLeft
  <1>4. tm \in TimerType /\ tm.key = old.key /\ tm.refs = old.refs
        /\ (tm.runs = 0 => LastCall(old))
    <2>1. OneCallLess(old) \in Nat \cup {FOREVER} /\ (OneCallLess(old) = 0 => LastCall(old))
      BY <1>3 DEF TimerType, OneCallLess, LastCall, FOREVER
    <2>2. old.elapsed - interval \in Nat
      BY <1>3 DEF TimerType
    <2> QED BY <1>3, <2>1, <2>2 DEF TimerType
  <1> HIDE DEF tm
  <1>5. timer' \in [Ids -> TimerType] /\ Unique' /\ Placed' /\ Counted'
    BY <1>1, <1>3, <1>4, AdvanceKeeps
  <1>6. timer'[id] = tm /\ \A x \in Ids : x # id => timer'[x] = timer[x]
    BY <1>1, <1>3 DEF Parts, Types
  <1>7. /\ pc' \in {"cancelling", "repeating", "ended"} /\ used' = 0
        /\ pc' = "repeating" => tm.elapsed >= interval
        /\ tm.runs = 0 => pc' = "cancelling"
    BY <1>1, <1>4 DEF RepeatOrEnd, CallBack
  <1>8. Types'
    BY <1>1, <1>5, <1>7 DEF Parts, Types, InTick
  <1>9. Current'
    BY <1>1, <1>2, <1>7 DEF Parts, Current, InTick, InVector
  <1>10. Due'
    BY <1>1, <1>6, <1>7 DEF Due
  <1>11. CallsLeft'
    <2>1. \A t \in Targets : \A i \in DOMAIN timers[t] : timers[t][i] \in Ids /\ timer[timers[t][i]].runs # 0
      BY <1>1 DEF Parts, CallsLeft, IInv
    <2>2. \A t \in Targets : \A i \in DOMAIN timers'[t] :
            timer'[timers'[t][i]].runs # 0 \/ (pc' = "cancelling" /\ timers'[t][i] = currentTimer')
      BY <1>1, <1>6, <1>7, <2>1
    <2>3. InCallback' => timer'[currentTimer'].runs # 0
      BY <1>1, <1>6, <1>7 DEF InCallback
    <2> QED BY <2>2, <2>3 DEF CallsLeft
  <1> QED BY <1>5, <1>8, <1>9, <1>10, <1>11 DEF Parts

\* The timer that is unscheduled by its key is the running one, unless that is
\* in no vector any more.
LEMMA CancelKeeps == IInv /\ Parts /\ Cancel => Parts'
  <1> SUFFICES ASSUME IInv, Parts, Cancel PROVE Parts'
    OBVIOUS
  <1> USE SchedulerAssumption
  <1> DEFINE k == timer[currentTimer].key
  <1>1. pc = "cancelling" /\ pc' = "ended" /\ used' = used
    BY DEF Cancel
  <1>2. InTick /\ InTick' /\ ~InCallback'
    BY <1>1 DEF InTick, InCallback
  <1>3. target \in Targets /\ timers \in [Targets -> Seq(Ids)]
    BY <1>1 DEF IInv
  <1>4. Due'
    BY <1>1 DEF Due
  <1>5. \A t \in Targets : \A i \in DOMAIN timers[t] :
           timers[t][i] \in Ids /\ (timers[t][i] # currentTimer => timer[timers[t][i]].runs # 0)
    BY <1>3 DEF Parts, CallsLeft
  <1>6. CASE KeyAt(target, k) = {}
    <2>1. UNCHANGED <<tableVars, walkVars, salvaged>>
      BY <1>6 DEF Cancel
    <2>2. Types'
      BY <1>1, <1>2, <2>1 DEF Parts, Types, tableVars, walkVars
    <2>3. Unique' /\ Placed' /\ Counted' /\ Current'
      BY <1>2, <2>1 DEF Parts, Unique, Placed, Counted, Held, InVector, Current, tableVars, walkVars
    <2>4. ~InVector(currentTimer)
      <3>1. ~(\E i \in DOMAIN timers[target] : timers[target][i] = currentTimer)
        BY <1>6 DEF KeyAt
      <3> QED BY <1>2, <3>1 DEF Parts, Current
    <2>5. CallsLeft'
      BY <1>1, <1>5, <2>1, <2>4 DEF CallsLeft, InCallback, InVector, tableVars
    <2> QED BY <1>4, <2>2, <2>3, <2>5 DEF Parts
  <1>7. CASE KeyAt(target, k) # {}
    <2>1. PICK i \in DOMAIN timers[target] : timer[timers[target][i]].key = k /\ RemoveTimer(target, i)
      BY <1>7 DEF Cancel, KeyAt
    <2> DEFINE ids == {timers[target][i]}
    <2>2. Removed(ids)
      BY <1>3, <2>1, RemoveTimerRemoves DEF Parts
    <2>3. Unique' /\ Placed' /\ Counted' /\ Current'
      BY <1>2, <2>2, RemovedKeeps
    <2>4. timer' \in [Ids -> TimerType] /\ \A id \in Ids \ ids : timer'[id] = timer[id]
      BY <2>2, RemovedTimer
    <2>5. Types'
      BY <1>1, <1>2, <2>2, <2>4 DEF Parts, Types, Removed
    <2>6. ~InVector(currentTimer)'
      <3>1. currentTimer \in ids \/ ~InVector(currentTimer)
        <4>1. ASSUME NEW j \in DOMAIN timers[target], timers[target][j] = currentTimer
              PROVE  j = i
          BY <1>3, <2>1, <4>1 DEF Parts, Unique
        <4> QED BY <1>2, <4>1 DEF Parts, Current
      <3>2. ~(InVector(currentTimer) /\ currentTimer \notin ids)
        BY <3>1
      <3>3. currentTimer' = currentTimer
        BY <2>2 DEF Removed
      <3>4. \A id : InVector(id)' <=> InVector(id) /\ id \notin ids
        BY <2>2, RemovedInVector
      <3> QED BY <3>2, <3>3, <3>4 DEF InVector
    <2>7. CallsLeft'
      <3>1. \A u \in Targets : \A j \in DOMAIN timers'[u] :
              timers'[u][j] \notin ids /\ \E n \in DOMAIN timers[u] : timers'[u][j] = timers[u][n]
        BY <2>2 DEF Removed
      <3>2. ASSUME NEW u \in Targets, NEW j \in DOMAIN timers'[u] PROVE timer'[timers'[u][j]].runs # 0
        <4>1. PICK n \in DOMAIN timers[u] : timers'[u][j] = timers[u][n]
          BY <3>1
        <4>2. timers[u][n] \in Ids \ ids
          BY <1>5, <3>1, <4>1
        <4>3. timers[u][n] # currentTimer
          BY <2>2, <2>6, <4>1 DEF InVector, Removed
        <4> QED BY <1>5, <2>4, <4>1, <4>2, <4>3
      <3> QED BY <1>2, <3>2 DEF CallsLeft
    <2> QED BY <1>4, <2>3, <2>5, <2>7 DEF Parts
  <1> QED BY <1>6, <1>7

LEMMA EndTickKeeps == IInv /\ Parts /\ EndTick => Parts'
  <1> SUFFICES ASSUME IInv, Parts, EndTick PROVE Parts'
    OBVIOUS
  <1> USE SchedulerAssumption
  <1>1. /\ pc = "ended" /\ pc' = "ticking"
        /\ timer' = IF salvaged THEN [timer EXCEPT ![currentTimer] = Released(currentTimer, @.refs - 1)] ELSE timer
        /\ currentTimer' = Nothing /\ salvaged' = FALSE /\ interval' = 0 /\ timerIndex' = timerIndex + 1
        /\ UNCHANGED <<present, paused, timers, dt, left, target, used>>
    BY DEF EndTick
  <1>2. InTick /\ ~InTick' /\ ~InCallback' /\ currentTimer \in Ids
    BY <1>1 DEF Parts, Current, InTick, InCallback
  <1>3. timer \in [Ids -> TimerType] /\ timers \in [Targets -> Seq(Ids)]
    BY DEF Parts, Types, IInv
  <1>4. /\ timer' \in [Ids -> TimerType]
        /\ \A x \in Ids : InVector(x) => timer'[x] = timer[x]
        /\ \A x \in Ids : timer'[x].refs = IF InVector(x) THEN 1 ELSE 0
    <2>1. CASE salvaged
      <3>1. ~InVector(currentTimer) /\ timer[currentTimer].refs = 1
        BY <1>2, <2>1 DEF Parts, Current, Counted, Held
      <3>2. timer' = [timer EXCEPT ![currentTimer] = Deleted]
        BY <1>1, <1>2, <1>3, <2>1, <3>1 DEF Released
      <3>3. Deleted \in TimerType /\ Deleted.refs = 0
        BY DEF Deleted, TimerType
      <3> QED BY <1>2, <1>3, <3>1, <3>2, <3>3 DEF Parts, Counted, Held
    <2>2. CASE ~salvaged
      BY <1>1, <1>3, <2>2 DEF Parts, Counted, Held
    <2> QED BY <2>1, <2>2
  <1>5. \A t \in Targets : \A i \in DOMAIN timers[t] : timers[t][i] \in Ids /\ InVector(timers[t][i])
    BY <1>3 DEF InVector
  <1>6. Types'
    BY <1>1, <1>4 DEF Parts, Types
  <1>7. Unique' /\ Placed'
    BY <1>1, <1>4, <1>5 DEF Parts, Unique, Placed
  <1>8. Counted'
    BY <1>1, <1>4 DEF Counted, Held, InVector
  <1>9. Current'
    BY <1>1, <1>2 DEF Current
  <1>10. Due'
    BY <1>1 DEF Due
  <1>11. CallsLeft'
    BY <1>1, <1>2, <1>4, <1>5 DEF Parts, CallsLeft
  <1> QED BY <1>6, <1>7, <1>8, <1>9, <1>10, <1>11 DEF Parts

LEMMA UpdateKeepsParts == IInv /\ Parts /\ Update => Parts'
  <1> SUFFICES ASSUME IInv, Parts, Update PROVE Parts'
    OBVIOUS
  <1> USE SchedulerAssumption
  <1>1. ASSUME UNCHANGED <<timer, timers, currentTimer, salvaged>>, ~InTick, ~InTick', Types' PROVE Parts'
    <2>1. Unique' /\ Placed' /\ Counted' /\ Current'
      BY <1>1 DEF Parts, Unique, Placed, Counted, Held, InVector, Current
    <2>2. Due' /\ CallsLeft'
      BY <1>1 DEF Parts, Due, CallsLeft, InCallback, InTick
    <2> QED BY <1>1, <2>1, <2>2 DEF Parts
  <1>2. CASE \E step \in 1..MaxStep : BeginFrame(step)
    <2> PICK step \in 1..MaxStep : BeginFrame(step)
      BY <1>2
    <2>1. ~InTick /\ ~InTick' /\ UNCHANGED <<timer, timers, currentTimer, salvaged>>
      BY DEF BeginFrame, InTick, tableVars
    <2>2. target = Nothing
      BY DEF BeginFrame, IInv
    <2>3. Types'
      BY <2>2 DEF BeginFrame, Parts, Types, IInv, tableVars
    <2> QED BY <1>1, <2>1, <2>3
  <1>3. CASE \E t \in Targets : Visit(t)
    <2> PICK t \in Targets : Visit(t)
      BY <1>3
    <2>1. ~InTick /\ ~InTick' /\ UNCHANGED <<timer, timers, currentTimer, salvaged>>
      BY DEF Visit, InTick, tableVars
    <2>2. Types'
      BY DEF Visit, Parts, Types, tableVars
    <2> QED BY <1>1, <2>1, <2>2
  <1>4. CASE LeaveTarget
    <2>1. ~InTick /\ ~InTick' /\ UNCHANGED <<timer, timers, currentTimer, salvaged>>
      BY <1>4 DEF LeaveTarget, InTick
    <2>2. /\ paused' \subseteq present' /\ left' \subseteq present' \ {target'} /\ target' \in present' \cup {Nothing}
          /\ UNCHANGED <<dt, interval, used>> /\ timerIndex' = 1 /\ pc' = "walking"
      BY <1>4 DEF LeaveTarget, Parts, Types, IInv
    <2>3. Types'
      BY <2>1, <2>2 DEF Parts, Types
    <2> QED BY <1>1, <2>1, <2>3
  <1>5. CASE EndWalk
    <2>1. ~InTick /\ ~InTick' /\ UNCHANGED <<timer, timers, currentTimer, salvaged>>
      BY <1>5 DEF EndWalk, InTick, tableVars
    <2>2. Types'
      BY <1>5 DEF EndWalk, Parts, Types, tableVars
    <2> QED BY <1>1, <2>1, <2>2
  <1> QED BY <1>2, <1>3, <1>4, <1>5, TickKeeps, DelayedKeeps, RepeatedKeeps, CancelKeeps, EndTickKeeps DEF Update

-----------------------------------------------------------------------------
(* The frame: which timers the walk has updated. *)

LEMMA RemoveTimerFrame ==
    ASSUME IInv, Parts, Frame, NEW t \in Targets, NEW i \in DOMAIN timers[t], RemoveTimer(t, i),
           \/ pc = "idle" /\ pc' = "idle"
           \/ InTick /\ InTick'
    PROVE  Frame'
  <1> USE SchedulerAssumption
  <1> DEFINE gone == timers[t][i]
  <1>1. timers \in [Targets -> Seq(Ids)] /\ i \in 1..Len(timers[t]) /\ gone \in Ids /\ timerIndex \in Nat
    BY DEF IInv, Parts, Types
  <1>2. /\ timers' \in [Targets -> Seq(Ids)]
        /\ \A u \in Targets : u # t => timers'[u] = timers[u]
        /\ Len(timers'[t]) = Len(timers[t]) - 1
        /\ \A j \in DOMAIN timers'[t] : timers'[t][j] = IF j < i THEN timers[t][j] ELSE timers[t][j + 1]
    BY <1>1, RemoveTimerVector
  <1>3. /\ timerIndex' = IndexWithout(t, i) /\ paused' = paused \cap present' /\ steady' = steady \ {gone}
        /\ UNCHANGED <<target, ticked, disturbed>>
    BY DEF RemoveTimer
  <1>4. left' = left \/ (left' = left \ {t} /\ DOMAIN timers'[t] = {})
    <2> DEFINE rest == RemoveAt(timers[t], i)
    <2>1. CASE rest = <<>>
      <3>1. left' = left \ {t} /\ timers'[t] = <<>>
        BY <1>1, <2>1 DEF RemoveTimer
      <3> QED BY <3>1
    <2>2. CASE rest # <<>>
      BY <2>2 DEF RemoveTimer
    <2> QED BY <2>1, <2>2
  <1>5. target = t => InTick /\ InTick'
    BY DEF IInv, SchedulerAssumption, InTick
  <1>6. (pc' = "idle" <=> pc = "idle") /\ (Visiting' <=> Visiting) /\ (InTick <=> InTick')
    BY DEF Visiting, InTick
  <1> HIDE DEF gone
  \* where a timer of the new vector was before
  <1>7. ASSUME NEW u \in Targets, NEW j \in DOMAIN timers'[u]
        PROVE  \E k \in DOMAIN timers[u] :
                 timers'[u][j] = timers[u][k] /\ timers[u][k] # gone /\ (Passed(u, j)' <=> Passed(u, k))
    <2>1. CASE u # t
      <3>1. u \in left' <=> u \in left
        BY <1>4, <2>1
      <3>2. u = target /\ Visiting => InTick /\ InTick'
        <4>1. ASSUME u = target, Visiting, pc = "ticking" PROVE FALSE
          BY <4>1 DEF InTick
        <4> QED BY <1>6, <4>1 DEF Visiting
      <3>3. timerIndex' = timerIndex \/ u # target
        BY <1>3, <2>1 DEF IndexWithout
      <3>4. u = target /\ Visiting => Done' = timerIndex' /\ Done = timerIndex
        BY <3>2 DEF Done, InTick
      <3>5. Passed(u, j)' <=> Passed(u, j)
        BY <1>3, <1>6, <3>1, <3>3, <3>4 DEF Passed
      <3>6. j \in DOMAIN timers[u] /\ timers'[u][j] = timers[u][j]
        BY <1>2, <2>1
      <3>7. timers[u][j] # gone
        BY <1>1, <2>1, <3>6 DEF Parts, Placed, gone
      <3> QED BY <3>5, <3>6, <3>7
    <2>2. CASE u = t
      <3> DEFINE k == IF j < i THEN j ELSE j + 1
      <3>1. timers'[u][j] = timers[u][k] /\ k \in DOMAIN timers[u] /\ k # i /\ j \in Nat
        BY <1>1, <1>2, <2>2
      <3>2. timers[u][k] # gone
        BY <1>1, <2>2, <3>1 DEF Parts, Placed, gone
      <3>3. u \in left' <=> u \in left
        BY <1>4, <2>2
      <3>4. CASE target = t
        <4>1. Done' = timerIndex' /\ Done = timerIndex
          BY <1>5, <3>4 DEF Done, InTick
        <4>2. timerIndex' = IF i <= timerIndex THEN timerIndex - 1 ELSE timerIndex
          BY <1>3, <3>4 DEF IndexWithout
        <4>3. j <= timerIndex' <=> k <= timerIndex
          BY <1>1, <3>1, <4>2
        <4> QED BY <1>3, <1>6, <3>1, <3>2, <3>3, <4>1, <4>3 DEF Passed
      <3>5. CASE target # t
        BY <1>3, <2>2, <3>1, <3>2, <3>3, <3>5 DEF Passed
      <3> QED BY <3>4, <3>5
    <2> QED BY <2>1, <2>2
  <1>8. pc' = "idle" => steady' = {} /\ ticked' = {}
    BY <1>3, <1>6 DEF Frame
  <1>9. \A id \in steady' : \E u \in Targets : \E j \in DOMAIN timers'[u] : timers'[u][j] = id /\ u \notin paused'
    <2> SUFFICES ASSUME NEW id \in steady'
                 PROVE  \E u \in Targets : \E j \in DOMAIN timers'[u] : timers'[u][j] = id /\ u \notin paused'
      OBVIOUS
    <2> PICK u \in Targets : \E k \in DOMAIN timers[u] : timers[u][k] = id /\ u \notin paused
      BY <1>3 DEF Frame
    <2>1. PICK k \in DOMAIN timers[u] : timers[u][k] = id /\ u \notin paused
      OBVIOUS
    <2>2. id # gone
      BY <1>3
    <2>3. Removed({gone})
      BY RemoveTimerRemoves DEF Parts, gone
    <2>4. \E j \in DOMAIN timers'[u] : timers'[u][j] = id
      BY <2>1, <2>2, <2>3 DEF Removed
    <2> QED BY <1>3, <2>1, <2>4
  <1>10. ~disturbed' => \A u \in Targets : \A j \in DOMAIN timers'[u] :
         /\ timers'[u][j] \in ticked' => Passed(u, j)'
         /\ timers'[u][j] \in steady' /\ Passed(u, j)' => timers'[u][j] \in ticked'
    <2> SUFFICES ASSUME ~disturbed, NEW u \in Targets, NEW j \in DOMAIN timers'[u]
                 PROVE  /\ timers'[u][j] \in ticked => Passed(u, j)'
                        /\ timers'[u][j] \in steady /\ Passed(u, j)' => timers'[u][j] \in ticked
      BY <1>3
    <2> PICK k \in DOMAIN timers[u] :
          timers'[u][j] = timers[u][k] /\ timers[u][k] # gone /\ (Passed(u, j)' <=> Passed(u, k))
      BY <1>7
    <2> QED BY DEF Frame
  <1> QED BY <1>8, <1>9, <1>10 DEF Frame

LEMMA RemoveAllFrame ==
    ASSUME IInv, Parts, Frame, NEW ts \in SUBSET present, RemoveAll(ts), pc' = pc
    PROVE  Frame'
  <1> DEFINE ids == UNION {Range(timers[t]) : t \in ts}
  <1>1. /\ timers' = [t \in Targets |-> IF t \in ts THEN <<>> ELSE timers[t]]
        /\ left' = left \ ts /\ paused' = paused \cap present' /\ steady' = steady \ ids
        /\ UNCHANGED <<target, timerIndex, ticked, disturbed>>
    BY DEF RemoveAll
  <1>2. timers \in [Targets -> Seq(Ids)]
    BY DEF IInv
  <1>3. \A u \in Targets : \A i \in DOMAIN timers[u] : timers[u][i] \in ids => u \in ts
    BY <1>2 DEF Range, Parts, Placed, IInv
  <1>4. \A u \in ts : \A i \in DOMAIN timers[u] : timers[u][i] \in ids
    BY DEF Range
  <1> HIDE DEF ids
  <1>5. \A u \in Targets : \A i \in DOMAIN timers'[u] : u \notin ts /\ timers'[u] = timers[u]
    BY <1>1
  <1>6. ASSUME NEW u, NEW i, u \notin ts PROVE Passed(u, i)' <=> Passed(u, i)
    BY <1>1, <1>6 DEF Passed, Visiting, InTick, Done
  <1>7. pc' = "idle" => steady' = {} /\ ticked' = {}
    BY <1>1 DEF Frame
  <1>8. \A id \in steady' : \E u \in Targets : \E i \in DOMAIN timers'[u] : timers'[u][i] = id /\ u \notin paused'
    <2> SUFFICES ASSUME NEW id \in steady'
                 PROVE  \E u \in Targets : \E i \in DOMAIN timers'[u] : timers'[u][i] = id /\ u \notin paused'
      OBVIOUS
    <2> PICK u \in Targets : \E i \in DOMAIN timers[u] : timers[u][i] = id /\ u \notin paused
      BY <1>1 DEF Frame
    <2>1. u \notin ts
      BY <1>1, <1>4
    <2> QED BY <1>1, <2>1
  <1>9. ~disturbed' => \A u \in Targets : \A i \in DOMAIN timers'[u] :
         /\ timers'[u][i] \in ticked' => Passed(u, i)'
         /\ timers'[u][i] \in steady' /\ Passed(u, i)' => timers'[u][i] \in ticked'
    BY <1>1, <1>5, <1>6 DEF Frame
  <1> QED BY <1>7, <1>8, <1>9 DEF Frame

LEMMA AddTimerFrame ==
    ASSUME IInv, Parts, Frame, NEW t \in Targets, NEW k \in Keys, NEW plan \in Plans, NEW id \in Ids,
           AddTimer(t, k, plan, id), UNCHANGED <<pc, target, timerIndex, steady>>
    PROVE  Frame'
  <1> DEFINE n == Len(timers[t]) + 1
  <1>1. /\ timers' = [timers EXCEPT ![t] = Append(@, id)] /\ timer[id].refs = 0 /\ ticked' = ticked \ {id}
        /\ IF t \in present THEN UNCHANGED <<paused, left, disturbed>>
           ELSE paused' \in {paused, paused \cup {t}} /\ disturbed' = (disturbed \/ Walking)
    BY DEF AddTimer
  <1>2. timers \in [Targets -> Seq(Ids)]
    BY DEF IInv
  <1>3. ~InVector(id)
    BY <1>1 DEF Parts, Counted, Held
  <1>4. /\ \A u \in Targets : u # t => timers'[u] = timers[u]
        /\ DOMAIN timers'[t] = 1..n /\ DOMAIN timers[t] = 1..n - 1 /\ n \in Nat \ {0}
        /\ timers'[t][n] = id /\ \A j \in 1..n - 1 : timers'[t][j] = timers[t][j]
    BY <1>1, <1>2
  <1> HIDE DEF n
  <1>5. \A u \in Targets : \A j \in DOMAIN timers'[u] :
           \/ timers'[u][j] = id
           \/ j \in DOMAIN timers[u] /\ timers'[u][j] = timers[u][j]
    BY <1>4
  <1>6. \A u \in Targets : \A j \in DOMAIN timers[u] : j \in DOMAIN timers'[u] /\ timers'[u][j] = timers[u][j]
    BY <1>4
  <1>7. id \notin steady
    BY <1>3 DEF Frame, InVector
  <1>8. pc' = "idle" => steady' = {} /\ ticked' = {}
    BY <1>1 DEF Frame
  <1>9. \A x \in steady' : \E u \in Targets : \E j \in DOMAIN timers'[u] : timers'[u][j] = x /\ u \notin paused'
    <2> SUFFICES ASSUME NEW x \in steady
                 PROVE  \E u \in Targets : \E j \in DOMAIN timers'[u] : timers'[u][j] = x /\ u \notin paused'
      OBVIOUS
    <2> PICK u \in Targets : \E j \in DOMAIN timers[u] : timers[u][j] = x /\ u \notin paused
      BY DEF Frame
    <2>1. PICK j \in DOMAIN timers[u] : timers[u][j] = x /\ u \notin paused
      OBVIOUS
    <2>2. u \in present
      BY <1>2, <2>1 DEF IInv, NoEmptyEntry
    <2>3. u \notin paused'
      BY <1>1, <2>1, <2>2
    <2> QED BY <1>6, <2>1, <2>3
  <1>10. ~disturbed' => \A u \in Targets : \A j \in DOMAIN timers'[u] :
         /\ timers'[u][j] \in ticked' => Passed(u, j)'
         /\ timers'[u][j] \in steady' /\ Passed(u, j)' => timers'[u][j] \in ticked'
    <2>1. CASE t \in present
      <3>1. \A u, j : Passed(u, j)' <=> Passed(u, j)
        BY <1>1, <2>1 DEF Passed, Visiting, InTick, Done
      <3> SUFFICES ASSUME ~disturbed, NEW u \in Targets, NEW j \in DOMAIN timers'[u]
                   PROVE  /\ timers'[u][j] \in ticked' => Passed(u, j)
                          /\ timers'[u][j] \in steady' /\ Passed(u, j) => timers'[u][j] \in ticked'
        BY <1>1, <2>1, <3>1
      <3>2. CASE timers'[u][j] = id
        BY <1>1, <1>7, <3>2
      <3>3. CASE timers'[u][j] # id /\ j \in DOMAIN timers[u] /\ timers'[u][j] = timers[u][j]
        BY <1>1, <3>3 DEF Frame
      <3> QED BY <1>5, <3>2, <3>3
    <2>2. CASE t \notin present /\ pc = "idle"
      BY <1>8, <2>2
    <2>3. CASE t \notin present /\ pc # "idle"
      BY <1>1, <2>3 DEF Walking
    <2> QED BY <2>1, <2>2, <2>3
  <1> QED BY <1>8, <1>9, <1>10 DEF Frame

LEMMA GameKeepsFrame == IInv /\ Parts /\ Frame /\ Game => Frame'
  <1> SUFFICES ASSUME IInv, Parts, Frame, Game PROVE Frame'
    OBVIOUS
  <1>1. CASE \E t \in Targets, k \in Keys : Unschedule(k, t)
    <2> PICK t \in Targets, k \in Keys : Unschedule(k, t)
      BY <1>1
    <2>1. PICK i \in DOMAIN timers[t] : RemoveTimer(t, i)
      BY DEF Unschedule, KeyAt
    <2>2. pc' = pc /\ (pc = "idle" \/ InTick)
      BY DEF Unschedule, Calls, InCallback, InTick
    <2>3. (pc = "idle" /\ pc' = "idle") \/ (InTick /\ InTick')
      BY <2>2 DEF InTick
    <2> QED BY <2>1, <2>3, RemoveTimerFrame
  <1>2. CASE \E t \in Targets, k \in Keys, plan \in Plans : Schedule(t, k, plan)
    <2> PICK t \in Targets, k \in Keys, plan \in Plans : Schedule(t, k, plan)
      BY <1>2
    <2>1. UNCHANGED <<pc, target, timerIndex, steady>>
      BY DEF Schedule
    <2>2. CASE KeyAt(t, k) # {}
      <3>1. PICK i \in KeyAt(t, k) : SetInterval(t, i, plan)
        BY <2>2 DEF Schedule
      <3>2. UNCHANGED <<timers, paused, left, ticked, disturbed>>
        BY <3>1 DEF SetInterval
      <3> QED BY <2>1, <3>2 DEF Frame, Passed, Visiting, InTick, Done
    <2>3. CASE KeyAt(t, k) = {}
      <3>1. PICK id \in Ids : AddTimer(t, k, plan, id)
        BY <2>3 DEF Schedule
      <3> QED BY <2>1, <3>1, AddTimerFrame
    <2> QED BY <2>2, <2>3
  <1>3. CASE \E t \in Targets : UnscheduleAllForTarget(t)
    <2> PICK t \in Targets : UnscheduleAllForTarget(t)
      BY <1>3
    <2>1. {t} \in SUBSET present /\ RemoveAll({t}) /\ pc' = pc
      BY DEF UnscheduleAllForTarget
    <2> QED BY <2>1, RemoveAllFrame
  <1>4. CASE UnscheduleAll
    <2>1. RemoveAll(present) /\ pc' = pc
      BY <1>4 DEF UnscheduleAll
    <2> QED BY <2>1, RemoveAllFrame
  <1>5. CASE \E t \in Targets : PauseTarget(t)
    <2> PICK t \in Targets : PauseTarget(t)
      BY <1>5
    <2>1. /\ paused' = paused \cup {t} /\ steady' = steady \ Range(timers[t])
          /\ UNCHANGED <<timers, pc, left, target, timerIndex, ticked, disturbed>>
      BY DEF PauseTarget, walkVars
    <2>2. \A i \in DOMAIN timers[t] : timers[t][i] \notin steady'
      BY <2>1 DEF Range
    <2>3. \A u, i : Passed(u, i)' <=> Passed(u, i)
      BY <2>1 DEF Passed, Visiting, InTick, Done
    <2> QED BY <2>1, <2>2, <2>3 DEF Frame
  <1>6. CASE \E t \in Targets : ResumeTarget(t)
    <2> PICK t \in Targets : ResumeTarget(t)
      BY <1>6
    <2>1. paused' = paused \ {t} /\ UNCHANGED <<timers, pc, left, target, timerIndex, steady, ticked, disturbed>>
      BY DEF ResumeTarget, walkVars, history
    <2>2. \A u, i : Passed(u, i)' <=> Passed(u, i)
      BY <2>1 DEF Passed, Visiting, InTick, Done
    <2> QED BY <2>1, <2>2 DEF Frame
  <1> QED BY <1>1, <1>2, <1>3, <1>4, <1>5, <1>6 DEF Game

LEMMA UpdateKeepsFrame == IInv /\ Parts /\ Frame /\ Update => Frame'
  <1> SUFFICES ASSUME IInv, Parts, Frame, Update PROVE Frame'
    OBVIOUS
  <1> USE SchedulerAssumption
  <1>0. timers \in [Targets -> Seq(Ids)] /\ timerIndex \in Nat
    BY DEF IInv, Parts, Types
  <1>1. CASE \E step \in 1..MaxStep : BeginFrame(step)
    <2>1. /\ pc' = "walking" /\ left' = present /\ ticked' = {} /\ UNCHANGED <<timers, paused>>
          /\ steady' = UNION {Range(timers[t]) : t \in present \ paused}
      BY <1>1 DEF BeginFrame, tableVars
    <2>2. \A id \in steady' : \E t \in Targets : \E i \in DOMAIN timers[t] : timers[t][i] = id /\ t \notin paused
      BY <2>1 DEF Range, IInv
    <2>3. \A t \in Targets : \A i \in DOMAIN timers[t] : ~Passed(t, i)'
      BY <1>0, <2>1 DEF Passed, IInv, NoEmptyEntry
    <2> QED BY <2>1, <2>2, <2>3 DEF Frame
  <1>2. CASE \E t \in Targets : Visit(t)
    <2> PICK t \in Targets : Visit(t)
      BY <1>2
    <2>1. /\ pc = "walking" /\ t \in left /\ left' = left \ {t} /\ target' = t
          /\ IF t \in paused THEN UNCHANGED <<pc, timerIndex>> ELSE pc' = "ticking" /\ timerIndex' = 1
          /\ UNCHANGED <<timers, paused, steady, ticked, disturbed>>
      BY DEF Visit, tableVars, history
    <2>2. \A u, i : Passed(u, i) <=> u \notin left
      BY <2>1 DEF Passed, Visiting, InTick
    <2>3. \A u, i : u # t => (Passed(u, i)' <=> Passed(u, i))
      BY <2>1, <2>2 DEF Passed
    <2>4. \A i \in DOMAIN timers[t] : (t \in paused => timers[t][i] \notin steady) /\ ~Passed(t, i)
      BY <2>1, <2>2 DEF Frame, Parts, Placed
    <2>5. \A i \in DOMAIN timers[t] : t \notin paused => ~Passed(t, i)'
      <3>1. t \notin paused => Visiting' /\ Done' = 0
        BY <2>1 DEF Visiting, Done
      <3> QED BY <1>0, <2>1, <3>1 DEF Passed
    <2>6. pc' # "idle"
      BY <2>1
    <2>7. \A id \in steady' : \E u \in Targets : \E i \in DOMAIN timers'[u] : timers'[u][i] = id /\ u \notin paused'
      BY <2>1 DEF Frame
    <2>8. ~disturbed' => \A u \in Targets : \A i \in DOMAIN timers'[u] :
            /\ timers'[u][i] \in ticked' => Passed(u, i)'
            /\ timers'[u][i] \in steady' /\ Passed(u, i)' => timers'[u][i] \in ticked'
      BY <2>1, <2>3, <2>4, <2>5 DEF Frame
    <2> QED BY <2>6, <2>7, <2>8 DEF Frame
  <1>3. CASE LeaveTarget
    <2>1. /\ pc = "ticking" /\ timerIndex > Len(timers[target]) /\ pc' = "walking"
          /\ UNCHANGED <<timers, ticked, steady>>
      BY <1>3 DEF LeaveTarget
    <2>2. CASE ended /\ timers[target] = <<>>
      <3>1. paused' = paused \ {target} /\ disturbed'
        BY <1>3, <2>2 DEF LeaveTarget
      <3> QED BY <2>1, <3>1 DEF Frame
    <2>3. CASE ~(ended /\ timers[target] = <<>>)
      <3>1. UNCHANGED <<paused, left, target, disturbed>>
        BY <1>3, <2>3 DEF LeaveTarget
      <3>2. ASSUME NEW u \in Targets, NEW i \in DOMAIN timers[u] PROVE Passed(u, i)' <=> Passed(u, i)
        <4>1. Passed(u, i)' <=> u \notin left
          BY <2>1, <3>1 DEF Passed, Visiting, InTick
        <4>2. u = target => i <= Done
          BY <1>0, <2>1 DEF Done
        <4> QED BY <4>1, <4>2 DEF Passed
      <3> QED BY <2>1, <3>1, <3>2 DEF Frame
    <2> QED BY <2>2, <2>3
  <1>4. CASE EndWalk
    <2>1. steady' = {} /\ ticked' = {}
      BY <1>4 DEF EndWalk
    <2> QED BY <2>1 DEF Frame
  <1>5. CASE Tick
    <2>1. /\ pc = "ticking" /\ timerIndex <= Len(timers[target])
          /\ ticked' = ticked \cup {timers[target][timerIndex]}
          /\ UNCHANGED <<paused, timers, left, target, timerIndex, steady, disturbed>>
      BY <1>5 DEF Tick
    <2>2. pc' \in {"delayed", "repeating", "ended"}
      BY <1>5 DEF Tick, RepeatOrEnd, CallBack
    <2>3. target \in Targets /\ timerIndex \in DOMAIN timers[target]
      BY <2>1 DEF IInv, Parts, Types
    <2>4. Done' = timerIndex /\ Done = timerIndex - 1 /\ Visiting /\ Visiting'
      BY <2>1, <2>2 DEF Done, Visiting, InTick
    <2>5. ASSUME NEW u \in Targets, NEW i \in DOMAIN timers[u]
          PROVE  Passed(u, i)' <=> Passed(u, i) \/ (u = target /\ i = timerIndex)
      <3>1. target \notin left
        BY DEF Parts, Types
      <3> QED BY <1>0, <2>1, <2>4, <3>1 DEF Passed
    <2>6. \A u \in Targets : \A i \in DOMAIN timers[u] :
            timers[u][i] = timers[target][timerIndex] <=> u = target /\ i = timerIndex
      BY <2>3 DEF Parts, Placed
    <2>7. pc' # "idle"
      BY <2>2
    <2>8. ~disturbed' => \A u \in Targets : \A i \in DOMAIN timers'[u] :
            /\ timers'[u][i] \in ticked' => Passed(u, i)'
            /\ timers'[u][i] \in steady' /\ Passed(u, i)' => timers'[u][i] \in ticked'
      BY <2>1, <2>5, <2>6 DEF Frame
    <2>9. \A id \in steady' : \E u \in Targets : \E i \in DOMAIN timers'[u] : timers'[u][i] = id /\ u \notin paused'
      BY <2>1 DEF Frame
    <2> QED BY <2>7, <2>8, <2>9 DEF Frame
  <1>6. CASE DelayedReturns \/ RepeatedReturns
    <2>1. InTick /\ InTick' /\ UNCHANGED <<timers, paused, left, target, timerIndex, steady, ticked, disturbed>>
      BY <1>6 DEF DelayedReturns, RepeatedReturns, RepeatOrEnd, CallBack, InTick, history, walkVars
    <2>2. \A u, i : Passed(u, i)' <=> Passed(u, i)
      BY <2>1 DEF Passed, Visiting, InTick, Done
    <2> QED BY <2>1, <2>2 DEF Frame, InTick
  <1>7. CASE Cancel
    <2>1. InTick /\ InTick' /\ target \in Targets
      BY <1>7 DEF Cancel, InTick, IInv
    <2>2. CASE KeyAt(target, timer[currentTimer].key) = {}
      <3>1. UNCHANGED <<timers, paused, left, target, timerIndex, steady, ticked, disturbed>>
        BY <1>7, <2>2 DEF Cancel, history, walkVars, tableVars
      <3>2. \A u, i : Passed(u, i)' <=> Passed(u, i)
        BY <2>1, <3>1 DEF Passed, Visiting, InTick, Done
      <3> QED BY <2>1, <3>1, <3>2 DEF Frame, InTick
    <2>3. CASE KeyAt(target, timer[currentTimer].key) # {}
      <3>1. PICK i \in DOMAIN timers[target] : RemoveTimer(target, i)
        BY <1>7, <2>3 DEF Cancel, KeyAt
      <3> QED BY <2>1, <3>1, RemoveTimerFrame
    <2> QED BY <2>2, <2>3
  <1>8. CASE EndTick
    <2>1. /\ pc = "ended" /\ pc' = "ticking" /\ timerIndex' = timerIndex + 1
          /\ UNCHANGED <<timers, paused, left, target, steady, ticked, disturbed>>
      BY <1>8 DEF EndTick, history
    <2>2. Visiting /\ Visiting' /\ Done' = Done
      BY <1>0, <2>1 DEF Visiting, InTick, Done
    <2>3. \A u, i : Passed(u, i)' <=> Passed(u, i)
      BY <2>1, <2>2 DEF Passed
    <2> QED BY <2>1, <2>3 DEF Frame
  <1> QED BY <1>1, <1>2, <1>3, <1>4, <1>5, <1>6, <1>7, <1>8 DEF Update

-----------------------------------------------------------------------------

Inv == IInv /\ Parts /\ Frame

LEMMA Invariance == Spec => []Inv
  <1> USE SchedulerAssumption
  <1>1. Init => Inv
    <2> SUFFICES ASSUME Init PROVE Inv
      OBVIOUS
    <2>1. \A t \in Targets : DOMAIN timers[t] = {}
      BY DEF Init
    <2>2. \A id \in Ids : timer[id] \in TimerType /\ timer[id].refs = 0
      BY DEF Init, Deleted, TimerType
    <2>3. IInv
      BY DEF Init, IInv, NoEmptyEntry
    <2>4. Types
      BY <2>2 DEF Init, Types, InTick
    <2>5. Unique /\ Placed
      BY <2>1 DEF Unique, Placed
    <2>6. Counted
      BY <2>1, <2>2 DEF Init, Counted, Held, InVector
    <2>7. Current /\ Due /\ CallsLeft
      BY <2>1 DEF Init, Current, Due, CallsLeft, InTick, InCallback
    <2>8. Frame
      BY <2>1 DEF Init, Frame
    <2> QED BY <2>3, <2>4, <2>5, <2>6, <2>7, <2>8 DEF Inv, Parts
  <1>2. Inv /\ [Next]_vars => Inv'
    <2> SUFFICES ASSUME Inv, [Next]_vars PROVE Inv'
      OBVIOUS
    <2>1. CASE UNCHANGED vars
      <3>1. IInv' /\ Frame'
        BY <2>1 DEF vars, tableVars, walkVars, history, Inv, IInv, NoEmptyEntry, Frame, Passed, Visiting, Done, InTick
      <3>2. Types' /\ Due' /\ CallsLeft'
        BY <2>1 DEF vars, tableVars, walkVars, Inv, Parts, Types, Due, CallsLeft, InTick, InCallback
      <3>3. Unique' /\ Placed' /\ Counted' /\ Current'
        BY <2>1 DEF vars, tableVars, walkVars, Inv, Parts, Unique, Placed, Counted, Held, InVector, Current, InTick
      <3> QED BY <3>1, <3>2, <3>3 DEF Inv, Parts
    <2>2. CASE Game
      BY <2>2, GameKeeps, GameKeepsParts, GameKeepsFrame DEF Inv
    <2>3. CASE Update
      BY <2>3, UpdateKeeps, UpdateKeepsParts, UpdateKeepsFrame DEF Inv
    <2> QED BY <2>1, <2>2, <2>3 DEF Next
  <1> QED BY <1>1, <1>2, PTL DEF Spec

\* The vectors that hold a timer are one or none.
LEMMA HoldersCounted ==
    ASSUME IInv, Parts, NEW id \in Ids
    PROVE  Holders(id) = timer[id].refs
  <1> DEFINE in == {t \in Targets : id \in Range(timers[t])}
  <1>1. \A t \in Targets : t \in in <=> \E i \in DOMAIN timers[t] : timers[t][i] = id
    BY DEF Range
  <1>2. CASE InVector(id)
    <2>1. PICK t \in Targets : t \in in
      BY <1>1, <1>2 DEF InVector
    <2>2. \A u \in in : u = t
      BY <1>1, <2>1 DEF Parts, Placed
    <2>3. in = {t}
      BY <2>1, <2>2
    <2>4. Cardinality(in) = 1
      BY <2>3, FS_Singleton
    <2>5. ~(salvaged /\ id = currentTimer)
      BY <1>2 DEF Parts, Current
    <2> QED BY <1>2, <2>4, <2>5 DEF Parts, Counted, Held, Holders
  <1>3. CASE ~InVector(id)
    <2>1. in = {}
      BY <1>1, <1>3 DEF InVector
    <2>2. Cardinality(in) = 0
      BY <2>1, FS_EmptySet
    <2> QED BY <1>3, <2>2 DEF Parts, Counted, Held, Holders
  <1> QED BY <1>2, <1>3

\* Types, and every timer's references are those that hold it: the running
\* timer lives until its step is over, none is leaked and none is deleted twice,
\* however callbacks unschedule and schedule it (Scheduler.cpp:205-211,
\* 386-393).
THEOREM RefsAgreeAlways == Spec => []RefsAgree
  <1> SUFFICES Inv => RefsAgree
    BY Invariance, PTL
  <1> SUFFICES ASSUME Inv PROVE RefsAgree
    OBVIOUS
  <1> USE SchedulerAssumption
  <1>1. IInv /\ Parts
    BY DEF Inv
  <1>2. timer \in [Ids -> TimerType]
    BY <1>1 DEF Parts, Types
  <1>3. \A id \in Ids : /\ timer[id].key \in Keys \cup {Nothing} /\ timer[id].refs \in 0..2
                        /\ timer[id].elapsed >= -1 /\ timer[id].runs >= FOREVER
    BY <1>2 DEF TimerType, FOREVER
  <1>4. currentTimer \in Ids \cup {Nothing}
    BY <1>1 DEF Parts, Current
  <1>5. TypeOK
    BY <1>1, <1>3, <1>4 DEF TypeOK, Parts, Types, Unique, IInv, InTick
  <1>6. \A id \in Ids : timer[id].refs = Holders(id)
    BY <1>1, HoldersCounted
  <1>7. \A t \in Targets : IsInjective(timers[t])
    BY <1>1 DEF IsInjective, Parts, Placed
  <1>8. pc \in {"delayed", "repeating", "cancelling", "ended"} => timer[currentTimer].refs > 0
    <2>1. ASSUME InTick PROVE currentTimer \in Ids /\ Held(currentTimer)
      BY <1>1, <2>1 DEF Parts, Current, Held, InVector, IInv, InTick
    <2> QED BY <1>1, <2>1 DEF Parts, Counted, InTick
  <1> QED BY <1>5, <1>6, <1>7, <1>8 DEF RefsAgree

\* In a frame in which no target ends or comes, each timer that stays scheduled
\* and unpaused is updated, and none twice, whatever timers callbacks remove
\* before and behind the running one (Scheduler.cpp:213-216, 376-395).
THEOREM UpdatedOnceAlways == Spec => []UpdatedOnce
  <1> SUFFICES Inv => UpdatedOnce
    BY Invariance, PTL
  <1> SUFFICES ASSUME Inv PROVE UpdatedOnce
    OBVIOUS
  <1>1. IInv /\ Parts /\ Frame
    BY DEF Inv
  <1>2. ASSUME pc = "walking", left = {}, ~disturbed, NEW id \in steady PROVE id \in ticked
    <2>1. PICK t \in Targets : \E i \in DOMAIN timers[t] : timers[t][i] = id
      BY <1>1 DEF Frame
    <2>2. PICK i \in DOMAIN timers[t] : timers[t][i] = id
      BY <2>1
    <2>3. Passed(t, i)
      BY <1>2 DEF Passed, Visiting, InTick
    <2> QED BY <1>1, <1>2, <2>2, <2>3 DEF Frame
  <1>3. ASSUME pc = "ticking", timerIndex <= Len(timers[target]), ~disturbed
        PROVE  timers[target][timerIndex] \notin ticked
    <2>1. target \in Targets /\ timerIndex \in DOMAIN timers[target] /\ timerIndex \in Nat
      BY <1>1, <1>3 DEF IInv, Parts, Types
    <2>2. ~Passed(target, timerIndex)
      BY <1>3, <2>1 DEF Passed, Visiting, Done
    <2> QED BY <1>1, <1>3, <2>1, <2>2 DEF Frame
  <1> QED BY <1>2, <1>3 DEF UpdatedOnce

\* Once a timer has been called as often as it was to be, it is in no vector
\* when the walk goes on: its last call unschedules it, even when a callback
\* has put another timer of its key in its place (Scheduler.cpp:88-91,
\* 121-123).
THEOREM LastCallEndsAlways == Spec => []LastCallEnds
  <1> SUFFICES Inv => LastCallEnds
    BY Invariance, PTL
  <1> QED BY DEF Inv, Parts, CallsLeft, LastCallEnds
=============================================================================
