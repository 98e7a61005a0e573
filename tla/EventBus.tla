------------------------------- MODULE EventBus -------------------------------
(* cocos/core/event/EventBus: the listeners of one event, in a ring of       *)
(* entries.  Callbacks run inside a broadcast and may create and destroy     *)
(* listeners or broadcast again; what they add and remove waits on the side  *)
(* until the outermost broadcast ends.                                       *)
(*                                                                           *)
(* A listener and its BusEventListenerEntry have one name: the entry is      *)
(* allocated by the constructor and outlives the listener when the           *)
(* destructor runs during a broadcast.                                       *)
EXTENDS Integers, Sequences, Functions

CONSTANTS Listeners,
          MaxDepth,         \* bound: nested broadcasts
          MayDestroyPending \* may a listener created in a broadcast be
                            \* destroyed before that broadcast ends?

\* A pointer to nothing is not one to an entry.
Null == "null"

ASSUME BusAssumption == /\ Null \notin Listeners
                        /\ MaxDepth \in Nat \ {0}
                        /\ MayDestroyPending \in BOOLEAN

VARIABLES
  next, prev, \* the entries' pointers
  allocated,  \* the entries that have not been deleted
  owned,      \* those whose listener pointer is set
  on,         \* the listeners that have a callback and are enabled
  list,       \* _listenerList
  toAdd,      \* _listenersToAdd
  toRemove,   \* _listenersToRemove
  walks,      \* the broadcasts in progress, the innermost first
  pc,         \* "run", or where addOrRemovePendingListeners is
  curr        \* its loop's entry, the one before it, and isLastListNode

ringVars == <<next, prev>>
vars == <<ringVars, allocated, owned, on, list, toAdd, toRemove, walks, pc, curr>>

NoEntry == [at |-> Null, nextCopy |-> Null, isLast |-> FALSE]

\* _isBroadcasting counts the broadcasts in progress.
IsBroadcasting == walks # <<>>

Init ==
    /\ next = [l \in Listeners |-> Null] /\ prev = next
    /\ allocated = {} /\ owned = {} /\ on = {}
    /\ list = Null /\ toAdd = Null /\ toRemove = <<>>
    /\ walks = <<>> /\ pc = "run" /\ curr = NoEntry

-----------------------------------------------------------------------------
(* intl/List.h: rings with a head. *)

ListAppend(head, l) ==
    IF head = Null
    THEN /\ next' = [next EXCEPT ![l] = l]
         /\ prev' = [prev EXCEPT ![l] = l]
    ELSE /\ next' = [next EXCEPT ![l] = head, ![prev[head]] = l]
         /\ prev' = [prev EXCEPT ![l] = prev[head], ![head] = l]

HeadWith(head, l) == IF head = Null THEN l ELSE head

TheOnlyNode(l) == next[l] = l /\ prev[l] = l

\* What detachFromList asserts of its arguments; a failed assertion ends the
\* program.
Detachable(head, l) == /\ head # Null /\ next[l] # Null /\ prev[l] # Null
                       /\ TheOnlyNode(l) => l = head

DetachForward(l) == prev' = [prev EXCEPT ![l] = Null] /\ next' = [next EXCEPT ![prev[l]] = next[l], ![l] = Null]

DetachFromList(l) ==
    /\ next' = [next EXCEPT ![prev[l]] = next[l], ![l] = Null]
    /\ prev' = [prev EXCEPT ![next[l]] = prev[l], ![l] = Null]

HeadWithout(head, l) == IF TheOnlyNode(l) THEN Null
                        ELSE IF l = head THEN next[l] ELSE head

-----------------------------------------------------------------------------
(* What the program does, in a callback or outside any broadcast. *)

Running == pc = "run" /\ (walks # <<>> => Head(walks).state = "calling")

\* A broadcast no longer owes a call to a listener that is gone or off.
Excuse(l) == walks' = [i \in 1 .. Len(walks) |-> [walks[i] EXCEPT !.due = @ \ {l}]]

NeverAside == FALSE
AddsAside == IsBroadcasting

Create(l) ==
    /\ Running /\ l \notin allocated
    /\ allocated' = allocated \cup {l} /\ owned' = owned \cup {l}
    /\ ListAppend(IF AddsAside THEN toAdd ELSE list, l)
    /\ list' = IF AddsAside THEN list ELSE HeadWith(list, l)
    /\ toAdd' = IF AddsAside THEN HeadWith(toAdd, l) ELSE toAdd
    /\ UNCHANGED <<on, toRemove, walks, pc, curr>>

\* bind, enable, disable and reset.
SwitchOn(l) ==
    /\ Running /\ l \in owned \ on
    /\ on' = on \cup {l}
    /\ UNCHANGED <<ringVars, allocated, owned, list, toAdd, toRemove, walks, pc, curr>>

SwitchOff(l) ==
    /\ Running /\ l \in owned \cap on
    /\ on' = on \ {l}
    /\ Excuse(l)
    /\ UNCHANGED <<ringVars, allocated, owned, list, toAdd, toRemove, pc, curr>>

\* The entries on the ring of head: those in every set that has the head and,
\* with an entry, the next one.
Follows(S) == \A l \in S : next[l] \in S \cup {Null}
OnRing(head) ==
    IF head = Null THEN {}
    ELSE {l \in Listeners : \A S \in SUBSET Listeners : head \in S /\ Follows(S) => l \in S}

DestroyLater(l) ==
    /\ Running /\ IsBroadcasting /\ l \in owned
    /\ l \in OnRing(toAdd) => MayDestroyPending
    /\ toRemove' = Append(toRemove, l)
    /\ owned' = owned \ {l} /\ on' = on \ {l}
    /\ Excuse(l)
    /\ UNCHANGED <<ringVars, allocated, list, toAdd, pc, curr>>

Destroy(l) ==
    /\ Running /\ ~IsBroadcasting /\ l \in owned
    /\ Detachable(list, l) /\ DetachFromList(l)
    /\ list' = HeadWithout(list, l)
    /\ allocated' = allocated \ {l}
    /\ owned' = owned \ {l} /\ on' = on \ {l}
    /\ Excuse(l)
    /\ UNCHANGED <<toAdd, toRemove, pc, curr>>

-----------------------------------------------------------------------------
(* A broadcast walks the ring. *)

AfterNode(node) == IF node = list THEN "done" ELSE "visit"

Broadcast ==
    /\ Running /\ Len(walks) < MaxDepth
    /\ walks' = <<[state |-> IF list = Null THEN "done" ELSE "visit", at |-> list, nextCopy |-> Null,
                   members |-> owned \ OnRing(toAdd), due |-> (owned \cap on) \ OnRing(toAdd),
                   called |-> <<>>]>> \o walks
    /\ UNCHANGED <<ringVars, allocated, owned, on, list, toAdd, toRemove, pc, curr>>

Visiting == pc = "run" /\ walks # <<>> /\ Head(walks).state = "visit"

Invokes(l) == l \in owned \cap on

Invoke ==
    /\ Visiting
    /\ LET w == Head(walks) IN
         /\ Invokes(w.at)
         /\ walks' = [walks EXCEPT ![1] = [w EXCEPT !.state = "calling", !.nextCopy = next[w.at],
                                                    !.called = Append(@, w.at)]]
    /\ UNCHANGED <<ringVars, allocated, owned, on, list, toAdd, toRemove, pc, curr>>

GoTo(node) == walks' = [walks EXCEPT ![1] = [@ EXCEPT !.state = AfterNode(node), !.at = node]]

Skip ==
    /\ Visiting /\ ~Invokes(Head(walks).at)
    /\ GoTo(next[Head(walks).at])
    /\ UNCHANGED <<ringVars, allocated, owned, on, list, toAdd, toRemove, pc, curr>>

CallbackReturns ==
    /\ pc = "run" /\ walks # <<>> /\ Head(walks).state = "calling"
    /\ GoTo(Head(walks).nextCopy)
    /\ UNCHANGED <<ringVars, allocated, owned, on, list, toAdd, toRemove, pc, curr>>

HasPendingAdds == toAdd # Null
HasPendingListeners == toRemove # <<>> \/ toAdd # Null

EndBroadcast ==
    /\ pc = "run" /\ walks # <<>> /\ Head(walks).state = "done"
    /\ walks' = Tail(walks)
    /\ pc' = IF Len(walks) = 1 /\ HasPendingListeners THEN "removing" ELSE "run"
    /\ UNCHANGED <<ringVars, allocated, owned, on, list, toAdd, toRemove, curr>>

-----------------------------------------------------------------------------
(* addOrRemovePendingListeners *)

RemovePending ==
    /\ pc = "removing" /\ toRemove # <<>>
    /\ LET l == Head(toRemove) IN
         /\ Detachable(list, l) /\ DetachFromList(l)
         /\ list' = HeadWithout(list, l)
         /\ allocated' = allocated \ {l}
    /\ toRemove' = Tail(toRemove)
    /\ UNCHANGED <<owned, on, toAdd, walks, pc, curr>>

AddingFrom(node) == [at |-> node, nextCopy |-> prev[node], isLast |-> node = toAdd]

RemovalsDone ==
    /\ pc = "removing" /\ toRemove = <<>>
    /\ IF toAdd = Null THEN pc' = "run" /\ UNCHANGED curr
                       ELSE pc' = "detach" /\ curr' = AddingFrom(prev[toAdd])
    /\ UNCHANGED <<ringVars, allocated, owned, on, list, toAdd, toRemove, walks>>

DetachPending ==
    /\ pc = "detach"
    /\ Detachable(toAdd, curr.at) /\ DetachFromList(curr.at)
    /\ toAdd' = HeadWithout(toAdd, curr.at)
    /\ pc' = "append"
    /\ UNCHANGED <<allocated, owned, on, list, toRemove, walks, curr>>

AppendPending ==
    /\ pc = "append"
    /\ ListAppend(list, curr.at)
    /\ list' = HeadWith(list, curr.at)
    /\ IF curr.isLast THEN pc' = "run" /\ toAdd' = Null /\ curr' = NoEntry
       ELSE pc' = "detach" /\ curr' = AddingFrom(curr.nextCopy) /\ UNCHANGED toAdd
    /\ UNCHANGED <<allocated, owned, on, toRemove, walks>>

-----------------------------------------------------------------------------
Program == \/ \E l \in Listeners : Create(l) \/ SwitchOn(l) \/ SwitchOff(l) \/ Destroy(l) \/ DestroyLater(l)
           \/ Broadcast

Bus == \/ Invoke \/ Skip \/ CallbackReturns \/ EndBroadcast
       \/ RemovePending \/ RemovalsDone \/ DetachPending \/ AppendPending

Next == Program \/ Bus

Spec == Init /\ [][Next]_vars

-----------------------------------------------------------------------------
(* Properties *)

MaybeEntry == allocated \cup {Null}

\* The states the bus can be in: every pointer the code may follow is to an
\* entry that has not been deleted.
TypeOK ==
    /\ allocated \subseteq Listeners /\ owned \subseteq allocated /\ on \subseteq owned
    /\ \A l \in Listeners : next[l] \in MaybeEntry /\ prev[l] \in MaybeEntry
    /\ list \in MaybeEntry /\ toAdd \in MaybeEntry
    /\ toRemove \in Seq(allocated)
    /\ \A i \in 1 .. Len(walks) :
         /\ walks[i].state \in {"visit", "calling", "done"}
         /\ walks[i].at \in MaybeEntry /\ walks[i].nextCopy \in MaybeEntry
         /\ walks[i].members \subseteq allocated /\ walks[i].due \subseteq owned
         /\ walks[i].called \in Seq(Listeners)
    /\ pc \in {"run", "removing", "detach", "append"}
    /\ curr.at \in MaybeEntry /\ curr.nextCopy \in MaybeEntry

Moving == IF pc = "append" THEN {curr.at} ELSE {}

\* Every entry is on one of the two rings, linked both ways, except the one
\* addOrRemovePendingListeners is moving (List.h:32-73), and no pointer is to a
\* deleted one.
RingsWhole ==
    /\ TypeOK
    /\ OnRing(list) \cup OnRing(toAdd) = allocated \ Moving
    /\ OnRing(list) \cap OnRing(toAdd) = {}
    /\ \A l \in allocated \ Moving : prev[next[l]] = l /\ next[prev[l]] = l

\* Outside a broadcast the ring is that of the listeners that exist: none is
\* left on the side, and none that was destroyed is kept.
NothingPending ==
    pc = "run" /\ ~IsBroadcasting => OnRing(list) = owned /\ toAdd = Null /\ toRemove = <<>>

\* A broadcast calls every listener that was there when it began and stayed
\* there and enabled, each once, and none that was created since, whatever the
\* callbacks do (the unit test core_event_bus.cpp checks single cases).
CallsEachOnce ==
    \A i \in 1 .. Len(walks) :
       LET calls == Range(walks[i].called) IN
         /\ IsInjective(walks[i].called)
         /\ calls \subseteq walks[i].members
         /\ walks[i].state = "done" => walks[i].due \subseteq calls

\* Whenever an entry is detached, it is on the ring it is detached from, as
\* detachFromList asserts (List.h:58-60): a listener destroyed outside any
\* broadcast, those destroyed in one, and the pending ones.
DetachesItsOwn ==
    /\ Running /\ ~IsBroadcasting => \A l \in owned : Detachable(list, l)
    /\ pc = "removing" /\ toRemove # <<>> => Detachable(list, Head(toRemove))
    /\ pc = "detach" => Detachable(toAdd, curr.at)
=============================================================================
