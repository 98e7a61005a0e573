------------------------------ MODULE MCTween ------------------------------
(* Small instances of Tween for TLC. *)
EXTENDS Tween

CONSTANTS t1, t2, t3

Timed(d) == [kind |-> "timed", duration |-> d]
Call == [kind |-> "call", duration |-> 0]

\* Calls at the beginning, between and at the end, and a sequence that takes
\* no time.
MCSteps ==
    t1 :> <<Call, Timed(2), Timed(1)>> @@ t2 :> <<Timed(1), Call, Timed(0)>>
    @@ t3 :> <<Call>>
MCRepeat == t1 :> 2 @@ t2 :> FOREVER @@ t3 :> FOREVER
ThreeOfNoTime == [MCRepeat EXCEPT ![t3] = 3]
=============================================================================
