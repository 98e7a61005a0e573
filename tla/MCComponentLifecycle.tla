------------------------- MODULE MCComponentLifecycle -------------------------
(* Two nodes, two components that want both passes.                           *)
EXTENDS ComponentLifecycle

WantsBoth == [hook \in Passes |-> Comps]

\* Game code that switches on where the order of the hooks does not bear it.
EnablesInUpdate == [MayDoInOrder EXCEPT !["update"] = SwitchesOn]
EnablesInStart == [MayDoInOrder EXCEPT !["start"] = SwitchesOn]

RemovesInUpdate == [MayDoSafely EXCEPT !["update"] = {"remove"}]
=============================================================================
