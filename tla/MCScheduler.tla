----------------------------- MODULE MCScheduler -----------------------------
(* Two targets, two keys, three timers: for ever in each frame, or called     *)
(* twice after a delay, where two calls may be due in one frame.             *)
EXTENDS Scheduler, TLC

TwoPlans == {[interval |-> 0, runs |-> FOREVER, delay |-> 0],
             [interval |-> 1, runs |-> 2, delay |-> 1]}

Addresses == Permutations(Ids) \cup Permutations(Targets) \cup Permutations(Keys)
=============================================================================
