------------------------------ MODULE MCEventBus ------------------------------
(* Small instances of EventBus for TLC. *)
EXTENDS EventBus, TLC

CONSTANTS l1, l2, l3

AnyListener == Permutations(Listeners)
=============================================================================
