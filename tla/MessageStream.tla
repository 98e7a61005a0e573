---------------------------- MODULE MessageStream ----------------------------
(* What a MessageQueue promises to the two threads that share it, without    *)
(* chunks, pointers, counters or condition variables: messages are written   *)
(* into a batch only the producer sees, a kick publishes the batch, and the  *)
(* consumer executes what is published, in the order it was written, each    *)
(* message once.  In immediate mode a message is executed by the producer    *)
(* itself, and nothing is in the stream.                                     *)
EXTENDS Sequences

CONSTANT Messages \* what the producer can ask to have executed

VARIABLES batch,    \* written, not yet published
          visible,  \* published, not yet executed
          ran       \* the message executed last

streamVars == <<batch, visible, ran>>

StreamInit == /\ batch = <<>>
              /\ visible = <<>>
              /\ ran \in Messages

Write(m) == /\ batch' = Append(batch, m)
            /\ UNCHANGED <<visible, ran>>

Publish == /\ visible' = visible \o batch
           /\ batch' = <<>>
           /\ UNCHANGED ran

Execute == /\ visible # <<>>
           /\ ran' = Head(visible)
           /\ visible' = Tail(visible)
           /\ UNCHANGED batch

ExecuteDirectly(m) == /\ batch = <<>>
                      /\ visible = <<>>
                      /\ ran' = m
                      /\ UNCHANGED <<batch, visible>>

StreamNext == \/ \E m \in Messages : Write(m) \/ ExecuteDirectly(m)
              \/ Publish
              \/ Execute

StreamSpec     == StreamInit /\ [][StreamNext]_streamVars
StreamFairSpec == StreamSpec /\ WF_streamVars(Execute)
=============================================================================
