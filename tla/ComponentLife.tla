---------------------------- MODULE ComponentLife ----------------------------
(* What Component.h promises a component: the order in which its hooks are   *)
(* called.  Nothing is said here of nodes, queues or re-entrant calls; that   *)
(* is ComponentLifecycle, which implements this specification.               *)

CONSTANT Comps

VARIABLE life \* what each component has been through

Hooks == {"onLoad", "onEnable", "start", "update", "lateUpdate", "onDisable", "onDestroy"}
Stages == {"new", "off", "on", "gone"}

\* broken: a hook was called out of order.
Unborn == [stage |-> "new", started |-> FALSE, broken |-> FALSE]

LifeInit == life = [c \in Comps |-> Unborn]

\* onLoad once, before the other hooks; onEnable and onDisable in turns; start
\* once, and update and lateUpdate after it, all three of an enabled component;
\* onDestroy last, after the final onDisable.
MayCall(hook, l) ==
    CASE hook = "onLoad"     -> l.stage = "new"
      [] hook = "onEnable"   -> l.stage = "off"
      [] hook = "start"      -> l.stage = "on" /\ ~l.started
      [] hook \in {"update", "lateUpdate"} -> l.stage = "on" /\ l.started
      [] hook = "onDisable"  -> l.stage = "on"
      [] hook = "onDestroy"  -> l.stage \in {"new", "off"}

After(hook, l) ==
    CASE hook \in {"onLoad", "onDisable"}    -> [l EXCEPT !.stage = "off"]
      [] hook = "onEnable"                   -> [l EXCEPT !.stage = "on"]
      [] hook = "start"                      -> [l EXCEPT !.started = TRUE]
      [] hook \in {"update", "lateUpdate"}   -> l
      [] hook = "onDestroy"                  -> [l EXCEPT !.stage = "gone"]

Call(c, hook) == MayCall(hook, life[c]) /\ life' = [life EXCEPT ![c] = After(hook, @)]

LifeNext == \E c \in Comps, hook \in Hooks : Call(c, hook)

LifeSpec == LifeInit /\ [][LifeNext]_life
=============================================================================
