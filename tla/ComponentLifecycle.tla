-------------------------- MODULE ComponentLifecycle --------------------------
(* NodeActivator, ComponentScheduler and the parts of Node, Component and     *)
(* CCObject that drive the hooks of components.  Everything runs on one       *)
(* thread, but hooks call back: what a hook does runs inside the loops that   *)
(* called it.  The calls in progress are the frames of a stack.               *)
EXTENDS Integers, Sequences, FiniteSets, Functions, ComponentLife

CONSTANTS Nodes, Root,     \* the other nodes are attached to Root, or to nothing
          Nothing,         \* the null pointer
          Wants,           \* _wantsUpdate, _wantsLateUpdate: the components of a pass
          MayDo,           \* what each piece of game code may call
          MayUndo,         \* may it switch what is just being switched?
          MaxCalls,        \* bound: calls by one run of a hook
          MaxDepth         \* bound: frames of calls in progress

\* Where the game's code runs: the hooks, and what DemoGame calls each frame
\* before starts (a switch of scenes) and between update and lateUpdate.
GameCode == Hooks \cup {"scene", "logic"}
Passes == {"update", "lateUpdate"}
OpNames == {"add", "remove", "enable", "disable", "activate", "deactivate", "attach", "detach", "destroy"}

ASSUME LifecycleAssumption ==
    /\ Root \in Nodes /\ Nothing \notin Nodes \cup Comps
    /\ Wants \in [Passes -> SUBSET Comps]
    /\ MayDo \in [GameCode -> SUBSET OpNames] /\ MayUndo \in BOOLEAN
    /\ MaxCalls \in Nat /\ MaxDepth \in Nat

\* What TLC found the code to cope with: any other call breaks a property, or in
\* onDestroy the iterator that removeComponent holds.
SwitchesOn == {"add", "enable", "activate", "attach"}
SwitchesOff == {"disable", "deactivate", "detach", "destroy"}

MayDoSafely ==
    [code \in GameCode |->
        CASE code \in {"scene", "logic"}      -> OpNames
          [] code \in {"start", "onDisable"}  -> SwitchesOff
          [] code = "onDestroy"               -> OpNames \ {"add", "remove"}
          [] OTHER                            -> SwitchesOn \cup SwitchesOff]

CallsSafely == ~MayUndo /\ \A code \in GameCode : MayDo[code] \subseteq MayDoSafely[code]

\* What is enabled after a frame's starts waits for the next frame's, and is
\* called in this one: for the hooks to come in order nothing may be.
MayDoInOrder ==
    [code \in GameCode |->
        CASE code = "logic"                   -> SwitchesOff \cup {"remove"}
          [] code \in {"update", "onDestroy"} -> SwitchesOff
          [] OTHER                            -> MayDoSafely[code]]

CallsInOrder == ~MayUndo /\ \A code \in GameCode : MayDo[code] \subseteq MayDoInOrder[code]

VARIABLES
  parent, children, comps, \* the tree
  active, inHierarchy,     \* _active, _activeInHierarchy
  doomed,                  \* objectsToDestroy
  nodeOf, enabled,         \* Component::_node, _enabled
  created, alive,          \* the components that were made; not yet deleted
  onLoaded, onEnabled, startCalled, \* the IS_..._CALLED flags
  startQueue,
  lists,                   \* the scheduler's vectors, for update and lateUpdate
  stack                    \* the calls in progress, the innermost first

treeVars == <<parent, children, comps, active, doomed>>
compVars == <<nodeOf, enabled, created, alive>>
flagVars == <<onLoaded, onEnabled, startCalled>>
vars == <<treeVars, inHierarchy, compVars, flagVars, startQueue, lists, stack, life>>

\* i runs over the first n of something; used counts a hook's calls.
Frame(at) == [at |-> at, node |-> Nothing, comp |-> Nothing, i |-> 1, n |-> 0, batch |-> <<>>, used |-> 0]
NodeFrame(at, node, n) == [Frame(at) EXCEPT !.node = node, !.n = n]

Top == stack[1]
Callers == Tail(stack)
On(at) == Top.at = at
Pushed(frame, callers) == <<frame>> \o callers

Init ==
    /\ parent = [n \in Nodes |-> Nothing] /\ children = [n \in Nodes |-> <<>>]
    /\ comps = [n \in Nodes |-> <<>>]
    /\ active = Nodes /\ inHierarchy = {} /\ doomed = {}
    /\ nodeOf = [c \in Comps |-> Nothing] /\ enabled = Comps
    /\ created = {} /\ alive = {}
    /\ onLoaded = {} /\ onEnabled = {} /\ startCalled = {}
    /\ startQueue = <<>>
    /\ lists = [hook \in Passes |-> [now |-> <<>>, add |-> <<>>, remove |-> <<>>]]
    /\ stack = <<Frame("scene")>>
    /\ LifeInit

EnabledInHierarchy(c) == c \in enabled /\ nodeOf[c] # Nothing /\ nodeOf[c] \in inHierarchy

-----------------------------------------------------------------------------
(* ComponentScheduler: what is scheduled in a pass waits for its end. *)

AddUnique(list, c) == IF c \in Range(list) THEN list ELSE Append(list, c)

\* The entries of a list at some of its places, in their order.
Rank(places, k) == Cardinality({j \in places : j <= k})
AtPlaces(list, places) ==
    [n \in 1 .. Cardinality(places) |-> list[CHOOSE k \in places : Rank(places, k) = n]]
Without(list, gone) == AtPlaces(list, {k \in DOMAIN list : list[k] \notin gone})

\* _iterDepth > 0
InPass == \E k \in DOMAIN stack : stack[k].at \in {"updating", "lateUpdating"} \cup Passes

RescheduledBoth(list, c) ==
    IF InPass THEN [list EXCEPT !.add = AddUnique(@, c)] ELSE [list EXCEPT !.now = AddUnique(@, c)]

Rescheduled(list, c) ==
    IF InPass THEN [list EXCEPT !.add = AddUnique(@, c), !.remove = Without(@, {c})]
              ELSE [list EXCEPT !.now = AddUnique(@, c)]

UnscheduledLater(list, c) == [list EXCEPT !.remove = AddUnique(@, c), !.add = Without(@, {c})]

Unscheduled(list, c) ==
    IF InPass THEN [list EXCEPT !.remove = AddUnique(@, c), !.add = Without(@, {c})]
              ELSE [list EXCEPT !.now = Without(@, {c})]

Schedule(c) ==
    lists' = [hook \in Passes |-> IF c \in Wants[hook] THEN Rescheduled(lists[hook], c) ELSE lists[hook]]

Unschedule(c) ==
    lists' = [hook \in Passes |-> IF c \in Wants[hook] THEN Unscheduled(lists[hook], c) ELSE lists[hook]]

Applied(list) == [now |-> Without(list.now \o Without(list.add, Range(list.now)), Range(list.remove)),
                  add |-> <<>>, remove |-> <<>>]

ApplyPending == lists' = [hook \in Passes |-> Applied(lists[hook])]

-----------------------------------------------------------------------------
(* The hooks.  A call the contract does not allow leaves a mark. *)

CallsHook(c, hook) ==
    life' = [life EXCEPT ![c] = IF MayCall(hook, @) THEN After(hook, @) ELSE [After(hook, @) EXCEPT !.broken = TRUE]]

HookFrame(c, hook) == [Frame(hook) EXCEPT !.comp = c]

Enter(c, hook, callers) == stack' = Pushed(HookFrame(c, hook), callers) /\ CallsHook(c, hook)

-----------------------------------------------------------------------------
(* NodeActivator: beginnings of calls.  callers is the stack they return to. *)

\* A component that was not started is queued for the next frame's starts.
QueuedAgain(c) == AddUnique(startQueue, c)
QueuedOutsidePass(c) == IF c \in startCalled \/ InPass THEN startQueue ELSE AddUnique(startQueue, c)
Queued(c) == IF c \in startCalled THEN startQueue ELSE AddUnique(startQueue, c)

EnableAnyway(c, on, callers) ==
    IF c \notin onEnabled THEN Enter(c, "onEnable", callers) ELSE stack' = callers /\ UNCHANGED life

\* activateComp from its second test on.
EnableOrReturn(c, on, callers) ==
    IF on /\ c \notin onEnabled
    THEN Enter(c, "onEnable", callers)
    ELSE stack' = callers /\ UNCHANGED life

BeginActivateComp(c, on, callers) ==
    IF c \in onLoaded THEN EnableOrReturn(c, on, callers)
    ELSE Enter(c, "onLoad", callers)

\* deactivateComp
BeginDeactivateComp(c, callers) ==
    IF c \in onEnabled
    THEN /\ Unschedule(c)
         /\ startQueue' = Without(startQueue, {c})
         /\ Enter(c, "onDisable", callers)
    ELSE stack' = callers /\ UNCHANGED <<lists, startQueue, life>>

BeginActivate(node, callers) ==
    /\ inHierarchy' = inHierarchy \cup {node}
    /\ stack' = Pushed(NodeFrame("activating", node, Len(comps[node])), callers)

BeginDeactivate(node, callers) ==
    /\ stack' = Pushed(NodeFrame("deactivatingChildren", node, Len(children[node])), callers)
    /\ UNCHANGED inHierarchy

\* activateNode
BeginSwitch(node, on, callers) ==
    IF (node \in inHierarchy) = on THEN stack' = callers /\ UNCHANGED inHierarchy
    ELSE IF on THEN BeginActivate(node, callers)
    ELSE BeginDeactivate(node, callers)

\* destroyComp within removeComponent: first the final onDisable.
Removing(c) == [Frame("removing") EXCEPT !.comp = c]

-----------------------------------------------------------------------------
(* The loops and returns of the calls in progress. *)

Advanced == [Top EXCEPT !.i = @ + 1]
LoopEnds == Top.i > Top.n

\* activateNodeRecursive: the components it had at the beginning...
ActivateNextComp ==
    /\ On("activating") /\ Top.i <= Len(comps[Top.node])
    /\ ~LoopEnds
    /\ LET c == comps[Top.node][Top.i] IN BeginActivateComp(c, c \in enabled, Pushed(Advanced, Callers))
    /\ UNCHANGED <<treeVars, inHierarchy, compVars, flagVars, startQueue, lists>>

ActivateChildren ==
    /\ On("activating") /\ LoopEnds
    /\ stack' = Pushed(NodeFrame("activatingChildren", Top.node, Len(children[Top.node])), Callers)
    /\ UNCHANGED <<treeVars, inHierarchy, compVars, flagVars, startQueue, lists, life>>

\* ... then its children that are active themselves.
ActivateNextChild ==
    /\ On("activatingChildren") /\ Top.i <= Len(children[Top.node])
    /\ ~LoopEnds
    /\ LET child == children[Top.node][Top.i] IN
         IF child \in active THEN BeginActivate(child, Pushed(Advanced, Callers))
         ELSE stack' = Pushed(Advanced, Callers) /\ UNCHANGED inHierarchy
    /\ UNCHANGED <<treeVars, compVars, flagVars, startQueue, lists, life>>

ActivateReturns ==
    /\ On("activatingChildren") /\ LoopEnds
    /\ stack' = Callers
    /\ UNCHANGED <<treeVars, inHierarchy, compVars, flagVars, startQueue, lists, life>>

\* deactivateNodeRecursive: children first.
DeactivateNextChild ==
    /\ On("deactivatingChildren") /\ Top.i <= Len(children[Top.node])
    /\ ~LoopEnds
    /\ LET child == children[Top.node][Top.i] IN
         IF child \in inHierarchy THEN BeginDeactivate(child, Pushed(Advanced, Callers))
         ELSE stack' = Pushed(Advanced, Callers) /\ UNCHANGED inHierarchy
    /\ UNCHANGED <<treeVars, compVars, flagVars, startQueue, lists, life>>

DeactivateComps ==
    /\ On("deactivatingChildren") /\ LoopEnds
    /\ stack' = Pushed(NodeFrame("deactivating", Top.node, Len(comps[Top.node])), Callers)
    /\ UNCHANGED <<treeVars, inHierarchy, compVars, flagVars, startQueue, lists, life>>

DeactivateNextComp ==
    /\ On("deactivating") /\ Top.i <= Len(comps[Top.node])
    /\ ~LoopEnds
    /\ BeginDeactivateComp(comps[Top.node][Top.i], Pushed(Advanced, Callers))
    /\ UNCHANGED <<treeVars, inHierarchy, compVars, flagVars>>

DeactivateReturns ==
    /\ On("deactivating") /\ LoopEnds
    /\ inHierarchy' = inHierarchy \ {Top.node}
    /\ stack' = Callers
    /\ UNCHANGED <<treeVars, compVars, flagVars, startQueue, lists, life>>

OnLoadReturns ==
    /\ On("onLoad")
    /\ onLoaded' = onLoaded \cup {Top.comp}
    /\ EnableOrReturn(Top.comp, Top.comp \in enabled, Callers)
    /\ UNCHANGED <<treeVars, inHierarchy, compVars, onEnabled, startCalled, startQueue, lists>>

OnEnableReturns ==
    /\ On("onEnable")
    /\ LET c == Top.comp IN
         /\ onEnabled' = onEnabled \cup {c}
         /\ Schedule(c)
         /\ startQueue' = Queued(c)
    /\ stack' = Callers
    /\ UNCHANGED <<treeVars, inHierarchy, compVars, onLoaded, startCalled, life>>

OnDisableReturns ==
    /\ On("onDisable")
    /\ onEnabled' = onEnabled \ {Top.comp}
    /\ stack' = Callers
    /\ UNCHANGED <<treeVars, inHierarchy, compVars, onLoaded, startCalled, startQueue, lists, life>>

\* destroyComp, and what is left of removeComponent.
CallOnDestroy ==
    /\ On("removing")
    /\ Enter(Top.comp, "onDestroy", Callers)
    /\ UNCHANGED <<treeVars, inHierarchy, compVars, flagVars, startQueue, lists>>

OnDestroyReturns ==
    /\ On("onDestroy")
    /\ LET c == Top.comp IN
         /\ comps' = [comps EXCEPT ![nodeOf[c]] = Without(@, {c})]
         /\ nodeOf' = [nodeOf EXCEPT ![c] = Nothing]
         /\ alive' = alive \ {c}
    /\ stack' = Callers
    /\ UNCHANGED <<parent, children, active, doomed, inHierarchy, enabled, created, flagVars, startQueue, lists, life>>

-----------------------------------------------------------------------------
(* The frame: DemoGame's tick, and deferredDestroy before the next one. *)

\* The loop of a pass, over the entries it began with.
Begins(at, n) == stack' = <<[Frame(at) EXCEPT !.n = n]>>

\* invokePendingStarts takes the queue.
BeginStarts ==
    /\ On("scene")
    /\ stack' = <<[Frame("starting") EXCEPT !.batch = startQueue, !.n = Len(startQueue)]>>
    /\ startQueue' = <<>>
    /\ UNCHANGED <<treeVars, inHierarchy, compVars, flagVars, lists, life>>

StartableOnce(c) == c \notin startCalled
Startable(c) == c \notin startCalled /\ EnabledInHierarchy(c)

NextStart ==
    /\ On("starting") /\ ~LoopEnds
    /\ LET c == Top.batch[Top.i] IN
         /\ c \in alive
         /\ IF Startable(c) THEN Enter(c, "start", stack)
            ELSE stack' = Pushed(Advanced, Callers) /\ UNCHANGED life
    /\ UNCHANGED <<treeVars, inHierarchy, compVars, flagVars, startQueue, lists>>

StartReturns ==
    /\ On("start")
    /\ startCalled' = startCalled \cup {Top.comp}
    /\ stack' = Pushed([Callers[1] EXCEPT !.i = @ + 1], Tail(Callers))
    /\ UNCHANGED <<treeVars, inHierarchy, compVars, onLoaded, onEnabled, startQueue, lists, life>>

BeginUpdate ==
    /\ On("starting") /\ LoopEnds
    /\ Begins("updating", Len(lists["update"].now))
    /\ UNCHANGED <<treeVars, inHierarchy, compVars, flagVars, startQueue, lists, life>>

BeginLateUpdate ==
    /\ On("logic")
    /\ Begins("lateUpdating", Len(lists["lateUpdate"].now))
    /\ UNCHANGED <<treeVars, inHierarchy, compVars, flagVars, startQueue, lists, life>>

LoopOf(pass) == IF pass = "update" THEN "updating" ELSE "lateUpdating"

NextInPass(pass) ==
    /\ On(LoopOf(pass)) /\ ~LoopEnds
    /\ LET c == lists[pass].now[Top.i] IN
         /\ c \in alive
         /\ IF EnabledInHierarchy(c) THEN Enter(c, pass, Pushed(Advanced, Callers))
            ELSE stack' = Pushed(Advanced, Callers) /\ UNCHANGED life
    /\ UNCHANGED <<treeVars, inHierarchy, compVars, flagVars, startQueue, lists>>

UpdateReturns ==
    /\ Top.at \in Passes
    /\ stack' = Callers
    /\ UNCHANGED <<treeVars, inHierarchy, compVars, flagVars, startQueue, lists, life>>

EndUpdate ==
    /\ On("updating") /\ LoopEnds
    /\ ApplyPending /\ stack' = <<Frame("logic")>>
    /\ UNCHANGED <<treeVars, inHierarchy, compVars, flagVars, startQueue, life>>

\* deferredDestroy deletes the nodes, and with them their components, which
\* get no onDestroy.
EndFrame ==
    /\ On("lateUpdating") /\ LoopEnds
    /\ ApplyPending /\ stack' = <<Frame("scene")>>
    /\ children' = [n \in Nodes |-> Without(children[n], doomed)]
    /\ alive' = {c \in alive : nodeOf[c] \notin doomed}
    /\ comps' = [n \in Nodes |-> IF n \in doomed THEN <<>> ELSE comps[n]]
    /\ UNCHANGED <<parent, active, doomed, inHierarchy, nodeOf, enabled, created, flagVars, startQueue, life>>

-----------------------------------------------------------------------------
(* What the game's code calls.  Without MayUndo it leaves alone the component *)
(* whose switching called it, its node and the nodes above.                  *)

BeingSwitched ==
    LET frames == {stack[k] : k \in {j \in DOMAIN stack : stack[j].at \notin Passes \cup {"start"}}}
        cs == {f.comp : f \in frames} \ {Nothing}
        ns == ({f.node : f \in frames} \cup {nodeOf[c] : c \in cs}) \ {Nothing}
    IN  (cs \cup ns) \cup {parent[n] : n \in ns}

Free(x) == MayUndo \/ x \notin BeingSwitched

Calls(op) ==
    /\ Top.at \in GameCode /\ op \in MayDo[Top.at]
    /\ Top.used < MaxCalls /\ Len(stack) < MaxDepth

Caller == Pushed([Top EXCEPT !.used = @ + 1], Callers)

AddComponent(node, c) ==
    /\ Calls("add") /\ node \notin doomed /\ c \notin created
    /\ created' = created \cup {c} /\ alive' = alive \cup {c}
    /\ nodeOf' = [nodeOf EXCEPT ![c] = node]
    /\ comps' = [comps EXCEPT ![node] = Append(@, c)]
    /\ IF node \in inHierarchy THEN BeginActivateComp(c, c \in enabled, Caller) ELSE stack' = Caller /\ UNCHANGED life
    /\ UNCHANGED <<parent, children, active, doomed, inHierarchy, enabled, flagVars, startQueue, lists>>

RemoveComponent(c) ==
    /\ Calls("remove") /\ c \in alive /\ Free(c) /\ Free(nodeOf[c])
    /\ BeginDeactivateComp(c, Pushed(Removing(c), Caller))
    /\ UNCHANGED <<treeVars, inHierarchy, compVars, flagVars>>

Enable(c) ==
    /\ Calls("enable") /\ c \in alive \ enabled /\ Free(c)
    /\ enabled' = enabled \cup {c}
    /\ IF nodeOf[c] \in inHierarchy THEN BeginActivateComp(c, TRUE, Caller)
       ELSE stack' = Caller /\ UNCHANGED life
    /\ UNCHANGED <<treeVars, inHierarchy, nodeOf, created, alive, flagVars, startQueue, lists>>

Disable(c) ==
    /\ Calls("disable") /\ c \in alive \cap enabled /\ Free(c)
    /\ enabled' = enabled \ {c}
    /\ IF nodeOf[c] \in inHierarchy THEN BeginDeactivateComp(c, Caller)
       ELSE stack' = Caller /\ UNCHANGED <<startQueue, lists, life>>
    /\ UNCHANGED <<treeVars, inHierarchy, nodeOf, created, alive, flagVars>>

\* A tree's root has no parent: its owner switches it through NodeActivator.
SwitchRoot(on) ==
    /\ Calls(IF on THEN "activate" ELSE "deactivate") /\ Free(Root)
    /\ (Root \in inHierarchy) # on
    /\ BeginSwitch(Root, on, Caller)
    /\ UNCHANGED <<treeVars, compVars, flagVars, startQueue, lists, life>>

\* setActive for a node whose flag differs.
Switch(node, on) ==
    /\ active' = IF on THEN active \cup {node} ELSE active \ {node}
    /\ IF parent[node] \in inHierarchy THEN BeginSwitch(node, on, Caller)
       ELSE stack' = Caller /\ UNCHANGED inHierarchy

SetActive(node, on) ==
    /\ Calls(IF on THEN "activate" ELSE "deactivate")
    /\ node \notin doomed \cup {Root} /\ Free(node) /\ (node \in active) # on
    /\ Switch(node, on)
    /\ UNCHANGED <<parent, children, comps, doomed, compVars, flagVars, startQueue, lists, life>>

\* destroy: deleted at the end of the frame, switched off now.
DestroyNode(node) ==
    /\ Calls("destroy") /\ node \notin doomed \cup {Root} /\ Free(node)
    /\ doomed' = doomed \cup {node}
    /\ IF node \in active THEN Switch(node, FALSE) ELSE stack' = Caller /\ UNCHANGED <<active, inHierarchy>>
    /\ UNCHANGED <<parent, children, comps, compVars, flagVars, startQueue, lists, life>>

ReparentedTwice(node, new) == IF new = Root THEN Append(children[Root], node) ELSE children[Root]
Reparented(node, new) == IF new = Root THEN Append(children[Root], node) ELSE Without(children[Root], {node})

ShouldFollow(node, new) == new \in inHierarchy
ShouldActive(node, new) == node \in active /\ new \in inHierarchy

SetParent(node, new) ==
    /\ Calls(IF new = Root THEN "attach" ELSE "detach")
    /\ node \notin doomed \cup {Root} /\ Free(node) /\ parent[node] # new
    /\ new = Nothing => Free(Root)
    /\ parent' = [parent EXCEPT ![node] = new]
    /\ children' = [children EXCEPT ![Root] = Reparented(node, new)]
    /\ BeginSwitch(node, ShouldActive(node, new), Caller)
    /\ UNCHANGED <<comps, active, doomed, compVars, flagVars, startQueue, lists, life>>

-----------------------------------------------------------------------------

Game ==
    \/ \E node \in Nodes, c \in Comps : AddComponent(node, c)
    \/ \E c \in Comps : RemoveComponent(c) \/ Enable(c) \/ Disable(c)
    \/ \E on \in BOOLEAN : SwitchRoot(on) \/ \E node \in Nodes : SetActive(node, on)
    \/ \E node \in Nodes : DestroyNode(node) \/ \E new \in {Root, Nothing} : SetParent(node, new)

Engine ==
    \/ ActivateNextComp \/ ActivateChildren \/ ActivateNextChild \/ ActivateReturns
    \/ DeactivateNextChild \/ DeactivateComps \/ DeactivateNextComp \/ DeactivateReturns
    \/ OnLoadReturns \/ OnEnableReturns \/ OnDisableReturns \/ CallOnDestroy \/ OnDestroyReturns
    \/ BeginStarts \/ NextStart \/ StartReturns
    \/ BeginUpdate \/ BeginLateUpdate \/ UpdateReturns \/ EndUpdate \/ EndFrame
    \/ \E pass \in Passes : NextInPass(pass)

Next == Game \/ Engine

Spec == Init /\ [][Next]_vars

\* Each call returns, and frame follows frame.
FairSpec == Spec /\ WF_vars(Engine)

-----------------------------------------------------------------------------
(* Between calls the flags, the lists and the tree say the same. *)

\* Types, and the shape of the tree: the two ends of a link agree.
TypeOK ==
    /\ \A node \in Nodes \ doomed : node \in Range(children[Root]) <=> parent[node] = Root
    /\ \A c \in alive : c \in Range(comps[nodeOf[c]])
    /\ \A node \in Nodes : IsInjective(children[node]) /\ IsInjective(comps[node])
    /\ parent \in [Nodes -> {Root, Nothing}] /\ children \in [Nodes -> Seq(Nodes)]
    /\ comps \in [Nodes -> Seq(Comps)] /\ nodeOf \in [Comps -> Nodes \cup {Nothing}]
    /\ active \subseteq Nodes /\ inHierarchy \subseteq Nodes /\ doomed \subseteq Nodes \ {Root}
    /\ enabled \subseteq Comps /\ alive \subseteq created /\ created \subseteq Comps
    /\ onLoaded \cup onEnabled \cup startCalled \subseteq created
    /\ startQueue \in Seq(created)
    /\ lists \in [Passes -> [now : Seq(created), add : Seq(created), remove : Seq(created)]]
    /\ stack # <<>> /\ life \in [Comps -> [stage : Stages, started : BOOLEAN, broken : BOOLEAN]]

Settled == Len(stack) = 1

\* A node is active in the hierarchy when it and its parent are, whatever hooks
\* switched, within CallsSafely, in the middle of it (Node.cpp:149-153).
ActiveAgrees ==
    Settled => \A node \in Nodes \ {Root} :
        node \in inHierarchy <=> node \in active /\ parent[node] \in inHierarchy

\* A component is between onEnable and onDisable exactly while it is enabled
\* on an active node (Component.h:19, 23).
EnabledAgrees == Settled => \A c \in alive : c \in onEnabled <=> EnabledInHierarchy(c)

\* Both, on a tree whose links agree: what the flags say of a node and of its
\* components is what the tree says, when hooks and game code keep to CallsSafely.
FlagsAgree == TypeOK /\ ActiveAgrees /\ EnabledAgrees

\* What will be scheduled once the pending changes are applied, in each pass:
\* the enabled components that want it, each once (ComponentScheduler.h:9-14).
ScheduleAgrees ==
    Settled => \A hook \in Passes :
        LET scheduled == Applied(lists[hook]).now IN
        /\ Range(scheduled) = Wants[hook] \cap onEnabled
        /\ IsInjective(scheduled)

\* The enabled components that were not started wait in the queue or in the
\* batch being started; nothing else waits in the queue.
Batch == IF On("starting") THEN SubSeq(Top.batch, Top.i, Top.n) ELSE <<>>

QueueAgrees ==
    Settled => /\ onEnabled \ startCalled \subseteq Range(startQueue) \cup Range(Batch)
               /\ Range(startQueue) \subseteq onEnabled \ startCalled

\* The lists of the passes and the queue of starts have what the enabled
\* components want and nothing else, however the adds and removals of a pass
\* were deferred.
SchedulerAgrees == ScheduleAgrees /\ QueueAgrees

\* None of the scheduler's and the activator's raw pointers is to a deleted
\* component.
HeldByCall(f) == IF f.at = "starting" THEN Range(SubSeq(f.batch, f.i, f.n)) ELSE {f.comp}
HeldByPass(list) == Range(list.now) \cup Range(list.add) \cup Range(list.remove)

Pointees ==
    Range(startQueue)
    \cup (UNION {HeldByPass(lists[hook]) : hook \in Passes})
    \cup (UNION {HeldByCall(stack[k]) : k \in DOMAIN stack})

NothingDangling == Pointees \ {Nothing} \subseteq alive

\* The loop of a pass never goes on to a deleted component: "mutation during
\* iteration is supported" (ComponentScheduler.h:13-14).
PassEntryAlive ==
    \A hook \in Passes : On(LoopOf(hook)) /\ ~LoopEnds => lists[hook].now[Top.i] \in alive

\* Each component sees its hooks in the order Component.h:15-26 promises.  The
\* code does so within CallsInOrder; what is switched on by a start or between
\* the starts and lateUpdate, or switched off and on by its own hook, is not.
KeepsContract == LifeSpec

\* A component that is enabled is started, unless it is switched off or deleted.
StartedOrDisabled ==
    \A c \in Comps : c \in onEnabled ~> (c \in startCalled \/ c \notin onEnabled \/ c \notin alive)
=============================================================================
