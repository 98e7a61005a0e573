-------------------------- MODULE CommandFlushProofs --------------------------
(* Proofs about CommandFlush: when the device thread flushes the command     *)
(* buffers itself, for every number of command buffers, chunks and messages, *)
(* no reader loses the chunk it stands on and no command loses its data.     *)
(*                                                                           *)
(* A chunk is shared with the frees of the other queues from the moment its  *)
(* switch message stashed it.  What a reader still needs of it, it needs for *)
(* the next two messages at most, a dummy and a work message, and neither    *)
(* lets another queue be read.                                               *)
EXTENDS CommandFlush, TLAPS

\* The queue is being read, or is the one the device thread always reads.
Awake(q, active) == q = Main \/ q \in active

\* A switch message is the last in its chunk and has its dummy behind it.
Switching(S, w) ==
    \A i \in 1 .. Len(S) : S[i].kind = "switch" =>
       /\ S[i].chunk # w
       /\ i < Len(S) /\ S[i + 1].kind = "dummy"
       /\ \A j \in 1 .. Len(S) : j > i => S[j].chunk # S[i].chunk

\* The chunks of the messages in S and of the writer are q's.
Chained(S, q, h, w) ==
    /\ h[w] = q
    /\ \A i \in 1 .. Len(S) : h[S[i].chunk] = q
    /\ Switching(S, w)

\* The data of the command at i is left behind by the switch just before the
\* command, if by any; once it is stashed the command is all but next.
Supplied(S, q, h, active) ==
    \A i \in 1 .. Len(S) : S[i].kind = "work" =>
       /\ S[i].data \in Chunks
       /\ \/ /\ h[S[i].data] = q
             /\ \A j \in 1 .. i - 1 : S[j].kind = "switch" /\ S[j].chunk = S[i].data => j = i - 2
          \/ /\ h[S[i].data] = "stash" /\ Awake(q, active)
             /\ i = 1 \/ (i = 2 /\ S[1].kind = "dummy")

\* A reader between two messages stands in a chunk of q's, or in the stashed
\* one that the dummy in front of it is the way out of.
Standing(S, q, h, r, pc, active) ==
    pc = "read" => \/ h[r] = q
                   \/ h[r] = "stash" /\ S # <<>> /\ Head(S).kind = "dummy" /\ Awake(q, active)

InHand(S, q, r, pc, active, seen) ==
    pc = "execute" => /\ S # <<>> /\ r = Head(S).chunk /\ Awake(q, active)
                      /\ q = Main => seen > 0

QueueInv(q, S, h, w, r, pc, active, seen) ==
    /\ Chained(S, q, h, w) /\ Supplied(S, q, h, active)
    /\ Standing(S, q, h, r, pc, active) /\ InHand(S, q, r, pc, active, seen)

\* Command buffers are flushed inside the flush message, one after the other.
OneAtATime ==
    /\ started # {} => Executing(Main, {"flush"})
    /\ \A p, q \in running : p = q
    /\ \A i, j \in 1 .. Count : j < i /\ CmdBuffs[i] \in started => CmdBuffs[j] \in started

Writing ==
    /\ mpc \in {"freeChunks", "finishWriting"} => index > 0
    /\ mpc = "record" => data = wchunk[IF index = 0 THEN Main ELSE CmdBuffs[index]]

IInv ==
    /\ TypeOK /\ OneAtATime /\ Writing
    /\ \A q \in Queues :
         QueueInv(q, fifo[q], home, wchunk[q], rchunk[q], rpc[q], running, published)

-----------------------------------------------------------------------------
(* Sequences of messages. *)

Messages == [kind : Kinds, chunk : Chunks, data : Chunks \cup {NoChunk}]
Places == Queues \cup {"stash", "pool", "heap"}

\* The command buffers are queues, as many as there are indices.
LEMMA QueueFacts ==
    /\ Count \in Nat /\ Count > 0 /\ Main \in Queues /\ Commands \subseteq Queues
    /\ Main \notin Commands
    /\ \A i \in 1 .. Count : CmdBuffs[i] \in Commands
    /\ "stash" \notin Queues /\ "pool" \notin Queues /\ "heap" \notin Queues
  <1>1. Count \in Nat /\ Count > 0
    BY FlushAssumption DEF Count
  <1> QED
    BY <1>1, FlushAssumption DEF Queues, Commands

\* Appending keeps what is there and puts the message last.
LEMMA AppendFacts ==
    ASSUME NEW S \in Seq(Messages), NEW m \in Messages
    PROVE  /\ Append(S, m) \in Seq(Messages)
           /\ Len(Append(S, m)) = Len(S) + 1 /\ Len(S) \in Nat
           /\ \A i \in 1 .. Len(S) : Append(S, m)[i] = S[i]
           /\ Append(S, m)[Len(S) + 1] = m
  OBVIOUS

\* Taking the head off moves the others one place to the front.
LEMMA TailFacts ==
    ASSUME NEW S \in Seq(Messages), S # <<>>
    PROVE  /\ Tail(S) \in Seq(Messages) /\ Head(S) \in Messages /\ Head(S) = S[1]
           /\ Len(S) \in Nat \ {0} /\ Len(Tail(S)) = Len(S) - 1
           /\ \A i \in 1 .. Len(Tail(S)) : Tail(S)[i] = S[i + 1]
           /\ Tail(S) # <<>> => Head(Tail(S)) = S[2] /\ Len(S) > 1
  OBVIOUS

\* What the prover needs of a message's fields.
LEMMA Fields ==
    ASSUME NEW S \in Seq(Messages), NEW i \in 1 .. Len(S)
    PROVE  S[i] \in Messages /\ S[i].kind \in Kinds /\ S[i].chunk \in Chunks
           /\ S[i].data \in Chunks \cup {NoChunk}
  <1>1. S[i] \in Messages
    OBVIOUS
  <1> QED
    BY <1>1 DEF Messages

\* The opening of a message is two messages if the chunk is new.
LEMMA OpeningFacts ==
    ASSUME NEW S \in Seq(Messages), NEW v \in Chunks, NEW c \in Chunks
    PROVE  /\ <<Message("switch", v, NoChunk), Message("dummy", c, NoChunk)>> \in Seq(Messages)
           /\ S \o <<Message("switch", v, NoChunk), Message("dummy", c, NoChunk)>>
              = Append(Append(S, Message("switch", v, NoChunk)), Message("dummy", c, NoChunk))
  <1>1. Message("switch", v, NoChunk) \in Messages /\ Message("dummy", c, NoChunk) \in Messages
    BY DEF Message, Messages, Kinds
  <1> QED
    BY <1>1

-----------------------------------------------------------------------------
(* What a queue's invariant survives. *)

\* The home of a chunk, for the chunks of the messages in a queue.
LEMMA HomeFields ==
    ASSUME NEW S \in Seq(Messages), NEW i \in 1 .. Len(S), NEW h \in [Chunks -> Places]
    PROVE  h[S[i].chunk] \in Places
  BY Fields

\* Chunks given to others or freed elsewhere do not touch a queue, as long
\* as the stash is left alone.
LEMMA HomeKept ==
    ASSUME NEW q \in Queues, NEW S \in Seq(Messages), NEW w \in Chunks, NEW r \in Chunks,
           NEW h \in [Chunks -> Places], NEW g \in [Chunks -> Places],
           NEW pc, NEW active, NEW seen,
           QueueInv(q, S, h, w, r, pc, active, seen),
           \A c \in Chunks : h[c] \in {q, "stash"} => g[c] = h[c]
    PROVE  QueueInv(q, S, g, w, r, pc, active, seen)
  <1> USE DEF QueueInv
  <1>0. \A i \in 1 .. Len(S) : S[i].chunk \in Chunks
    BY Fields
  <1>1. Chained(S, q, g, w)
    BY <1>0 DEF Chained
  <1>2. Supplied(S, q, g, active)
    BY DEF Supplied
  <1>3. Standing(S, q, g, r, pc, active)
    BY DEF Standing
  <1> QED
    BY <1>1, <1>2, <1>3

\* Nor does emptying the stash, unless the queue is being read and is at a
\* dummy or at a command.
LEMMA StashEmptied ==
    ASSUME NEW q \in Queues, NEW S \in Seq(Messages), NEW w \in Chunks, NEW r \in Chunks,
           NEW h \in [Chunks -> Places], NEW g \in [Chunks -> Places],
           NEW pc, NEW active, NEW seen,
           QueueInv(q, S, h, w, r, pc, active, seen),
           \A c \in Chunks : h[c] = q => g[c] = q,
           ~Awake(q, active) \/ S = <<>> \/ Head(S).kind \notin {"dummy", "work"}
    PROVE  QueueInv(q, S, g, w, r, pc, active, seen)
  <1> USE DEF QueueInv
  <1>0. \A i \in 1 .. Len(S) : S[i].chunk \in Chunks
    BY Fields
  <1>1. Chained(S, q, g, w)
    BY <1>0 DEF Chained
  <1>2. Supplied(S, q, g, active)
    <2> SUFFICES ASSUME NEW i \in 1 .. Len(S), S[i].kind = "work"
                 PROVE  /\ S[i].data \in Chunks
                        /\ g[S[i].data] = q
                        /\ \A j \in 1 .. i - 1 :
                             S[j].kind = "switch" /\ S[j].chunk = S[i].data => j = i - 2
      BY DEF Supplied
    <2>1. Len(S) \in Nat /\ S # <<>> /\ Head(S) = S[1]
      BY TailFacts
    <2>2. ~(h[S[i].data] = "stash" /\ Awake(q, active) /\ (i = 1 \/ (i = 2 /\ S[1].kind = "dummy")))
      BY <2>1
    <2> QED
      BY <2>2 DEF Supplied
  <1>3. Standing(S, q, g, r, pc, active)
    BY DEF Standing
  <1> QED
    BY <1>1, <1>2, <1>3

\* Another command buffer begins, or one that is not q ends.
LEMMA ActiveKept ==
    ASSUME NEW q, NEW S, NEW h, NEW w, NEW r, NEW pc, NEW active, NEW others, NEW seen,
           QueueInv(q, S, h, w, r, pc, active, seen),
           Awake(q, active) => Awake(q, others)
    PROVE  QueueInv(q, S, h, w, r, pc, others, seen)
  <1>1. Supplied(S, q, h, others)
    BY DEF QueueInv, Supplied
  <1>2. Standing(S, q, h, r, pc, others) /\ InHand(S, q, r, pc, others, seen)
    BY DEF QueueInv, Standing, InHand
  <1> QED
    BY <1>1, <1>2 DEF QueueInv

\* The reader takes a message, and stands in its chunk.
LEMMA TakeKeeps ==
    ASSUME NEW q \in Queues, NEW S \in Seq(Messages), NEW h, NEW w, NEW r,
           NEW active, NEW seen,
           QueueInv(q, S, h, w, r, "read", active, seen), S # <<>>,
           Awake(q, active), q = Main => seen > 0
    PROVE  QueueInv(q, S, h, w, Head(S).chunk, "execute", active, seen)
  BY DEF QueueInv, Standing, InHand

\* The order of the messages behind the head, seen from behind it.
LEMMA TailSwitching ==
    ASSUME NEW S \in Seq(Messages), NEW T \in Seq(Messages), NEW w,
           Len(T) = Len(S) - 1, \A i \in 1 .. Len(T) : T[i] = S[i + 1],
           Switching(S, w)
    PROVE  Switching(T, w)
  <1> SUFFICES ASSUME NEW i \in 1 .. Len(T), T[i].kind = "switch"
               PROVE  /\ T[i].chunk # w
                      /\ i < Len(T) /\ T[i + 1].kind = "dummy"
                      /\ \A j \in 1 .. Len(T) : j > i => T[j].chunk # T[i].chunk
    BY DEF Switching
  <1>1. Len(S) \in Nat /\ Len(T) \in Nat /\ i + 1 \in 1 .. Len(S) /\ T[i] = S[i + 1]
    OBVIOUS
  <1>2. /\ S[i + 1].chunk # w /\ i + 1 < Len(S) /\ S[i + 2].kind = "dummy"
        /\ \A j \in 1 .. Len(S) : j > i + 1 => S[j].chunk # S[i + 1].chunk
    BY <1>1 DEF Switching
  <1>3. i < Len(T) /\ T[i + 1].kind = "dummy"
    BY <1>1, <1>2
  <1>4. \A j \in 1 .. Len(T) : j + 1 \in 1 .. Len(S) /\ T[j] = S[j + 1]
    BY <1>1
  <1> QED
    BY <1>1, <1>2, <1>3, <1>4

\* A message other than a switch is done with; finishWriting may end the flush.
LEMMA PopKeeps ==
    ASSUME NEW q \in Queues, NEW S \in Seq(Messages), NEW h, NEW w, NEW r,
           NEW active, NEW others, NEW seen, NEW later,
           QueueInv(q, S, h, w, r, "execute", active, seen),
           Head(S).kind # "switch",
           others = active \/ Head(S).kind = "finish"
    PROVE  QueueInv(q, Tail(S), h, w, r, "read", others, later)
  <1> DEFINE T == Tail(S)
  <1>1. S # <<>> /\ r = Head(S).chunk
    BY DEF QueueInv, InHand
  <1>2. /\ T \in Seq(Messages) /\ Head(S) = S[1] /\ Len(S) \in Nat \ {0}
        /\ Len(T) = Len(S) - 1 /\ \A i \in 1 .. Len(T) : T[i] = S[i + 1]
    BY <1>1, TailFacts
  <1> HIDE DEF T
  <1>3. Chained(T, q, h, w)
    <2>1. \A i \in 1 .. Len(T) : h[T[i].chunk] = q
      BY <1>2 DEF QueueInv, Chained
    <2> QED
      BY <1>2, <2>1, TailSwitching DEF QueueInv, Chained
  <1>4. Supplied(T, q, h, others)
    <2> SUFFICES ASSUME NEW i \in 1 .. Len(T), T[i].kind = "work"
                 PROVE  /\ T[i].data \in Chunks
                        /\ \/ /\ h[T[i].data] = q
                              /\ \A j \in 1 .. i - 1 :
                                   T[j].kind = "switch" /\ T[j].chunk = T[i].data => j = i - 2
                           \/ /\ h[T[i].data] = "stash" /\ Awake(q, others)
                              /\ i = 1 \/ (i = 2 /\ T[1].kind = "dummy")
      BY DEF Supplied
    <2>1. /\ i + 1 \in 1 .. Len(S) /\ T[i] = S[i + 1]
          /\ \A j \in 1 .. i - 1 : j + 1 \in 1 .. (i + 1) - 1 /\ T[j] = S[j + 1]
      BY <1>2
    <2>2. CASE h[T[i].data] = q
      <3>1. \A j \in 1 .. (i + 1) - 1 :
              S[j].kind = "switch" /\ S[j].chunk = S[i + 1].data => j = (i + 1) - 2
        <4>1. h[S[i + 1].data] # "stash"
          BY <2>1, <2>2, QueueFacts
        <4> QED
          BY <2>1, <4>1 DEF QueueInv, Supplied
      <3>2. \A j \in 1 .. i - 1 : T[j].kind = "switch" /\ T[j].chunk = T[i].data => j = i - 2
        BY <3>1, <2>1
      <3> QED
        BY <2>1, <2>2, <3>2 DEF QueueInv, Supplied
    <2>3. CASE h[T[i].data] # q
      <3>1. /\ S[i + 1].data \in Chunks /\ h[S[i + 1].data] = "stash" /\ Awake(q, active)
            /\ i + 1 = 1 \/ (i + 1 = 2 /\ S[1].kind = "dummy")
        BY <2>1, <2>3 DEF QueueInv, Supplied
      <3>2. i = 1 /\ others = active
        BY <3>1, <1>2
      <3> QED
        BY <2>1, <3>1, <3>2
    <2> QED
      BY <2>2, <2>3
  <1>5. Standing(T, q, h, r, "read", others)
    BY <1>1, <1>2 DEF QueueInv, Chained, Standing
  <1>6. InHand(T, q, r, "read", others, later)
    BY DEF InHand
  <1> QED
    BY <1>3, <1>4, <1>5, <1>6 DEF QueueInv, T

\* A switch stashes the chunk it is in: nothing behind it is in that chunk,
\* and only the command that follows may have its data there.
LEMMA SwitchKeeps ==
    ASSUME NEW q \in Queues, NEW S \in Seq(Messages), NEW w \in Chunks, NEW r \in Chunks,
           NEW h \in [Chunks -> Places], NEW g \in [Chunks -> Places],
           NEW active, NEW seen, NEW later,
           QueueInv(q, S, h, w, r, "execute", active, seen),
           Head(S).kind = "switch",
           g[r] = "stash", \A d \in Chunks : d # r => g[d] = h[d]
    PROVE  QueueInv(q, Tail(S), g, w, r, "read", active, later)
  <1> DEFINE T == Tail(S)
  <1>1. S # <<>> /\ r = Head(S).chunk /\ Awake(q, active)
    BY DEF QueueInv, InHand
  <1>2. /\ T \in Seq(Messages) /\ Head(S) = S[1] /\ Len(S) \in Nat \ {0}
        /\ Len(T) = Len(S) - 1 /\ \A i \in 1 .. Len(T) : T[i] = S[i + 1]
    BY <1>1, TailFacts
  <1>3. g[r] = "stash" /\ \A c \in Chunks : c # r => g[c] = h[c]
    OBVIOUS
  <1>4. Len(S) > 1 /\ S[2].kind = "dummy" /\ w # r
        /\ \A j \in 2 .. Len(S) : S[j].chunk # r
    BY <1>1, <1>2 DEF QueueInv, Chained, Switching
  <1>5. \A i \in 1 .. Len(S) : S[i].chunk \in Chunks
    BY Fields
  <1> HIDE DEF T
  <1>5a. T # <<>> /\ Head(T) = T[1] /\ T[1] = S[2]
    BY <1>2, <1>4
  <1>6. Chained(T, q, g, w)
    <2>1. g[w] = q
      BY <1>3, <1>4 DEF QueueInv, Chained
    <2>2. \A i \in 1 .. Len(T) : g[T[i].chunk] = q
      BY <1>2, <1>3, <1>4, <1>5 DEF QueueInv, Chained
    <2>3. Switching(T, w)
      BY <1>2, TailSwitching DEF QueueInv, Chained
    <2> QED
      BY <2>1, <2>2, <2>3 DEF Chained
  <1>7. Supplied(T, q, g, active)
    <2> SUFFICES ASSUME NEW i \in 1 .. Len(T), T[i].kind = "work"
                 PROVE  /\ T[i].data \in Chunks
                        /\ \/ /\ g[T[i].data] = q
                              /\ \A j \in 1 .. i - 1 :
                                   T[j].kind = "switch" /\ T[j].chunk = T[i].data => j = i - 2
                           \/ /\ g[T[i].data] = "stash" /\ Awake(q, active)
                              /\ i = 1 \/ (i = 2 /\ T[1].kind = "dummy")
      BY DEF Supplied
    <2>1. /\ i + 1 \in 1 .. Len(S) /\ T[i] = S[i + 1]
          /\ \A j \in 1 .. i - 1 : j + 1 \in 1 .. (i + 1) - 1 /\ T[j] = S[j + 1]
      BY <1>2
    <2>2. /\ S[i + 1].data \in Chunks /\ h[S[i + 1].data] = q
          /\ \A j \in 1 .. (i + 1) - 1 :
               S[j].kind = "switch" /\ S[j].chunk = S[i + 1].data => j = (i + 1) - 2
      <3>1. ~(i + 1 = 1 \/ (i + 1 = 2 /\ S[1].kind = "dummy"))
        BY <1>2
      <3> QED
        BY <2>1, <3>1 DEF QueueInv, Supplied
    <2>3. \A j \in 1 .. i - 1 : T[j].kind = "switch" /\ T[j].chunk = T[i].data => j = i - 2
      <3> TAKE j \in 1 .. i - 1
      <3> HAVE T[j].kind = "switch" /\ T[j].chunk = T[i].data
      <3>1. j + 1 \in 1 .. (i + 1) - 1 /\ S[j + 1].kind = "switch" /\ S[j + 1].chunk = S[i + 1].data
        BY <2>1
      <3>2. j + 1 = (i + 1) - 2
        BY <2>2, <3>1
      <3> QED
        BY <3>2
    <2>4. CASE T[i].data = r
      <3>1. 1 = (i + 1) - 2 /\ T[1].kind = "dummy"
        <4>1. 1 \in 1 .. (i + 1) - 1 /\ S[1].kind = "switch" /\ S[1].chunk = S[i + 1].data
          BY <2>1, <2>4, <1>1, <1>2
        <4>2. 1 = (i + 1) - 2
          BY <2>2, <4>1
        <4>3. T[1] = S[2]
          BY <1>2, <4>2
        <4> QED
          BY <4>2, <4>3, <1>4
      <3> QED
        BY <3>1, <2>1, <2>2, <2>4, <1>1, <1>3
    <2>5. CASE T[i].data # r
      BY <2>1, <2>2, <2>3, <2>5, <1>3
    <2> QED
      BY <2>4, <2>5
  <1>8. Standing(T, q, g, r, "read", active)
    BY <1>1, <1>2, <1>3, <1>4, <1>5a DEF Standing
  <1>9. InHand(T, q, r, "read", active, later)
    BY DEF InHand
  <1> QED
    BY <1>6, <1>7, <1>8, <1>9 DEF QueueInv, T

-----------------------------------------------------------------------------
(* What the main thread appends. *)

\* A switch out of chunk d, if S has one, is the last message but one.
LeftLast(S, d) ==
    \A j \in 1 .. Len(S) : S[j].kind = "switch" /\ S[j].chunk = d => j = Len(S) - 1

\* A message in the writer's chunk; if it is a command, its data is q's and
\* was left, if at all, by the opening in front of the command.
LEMMA AppendKeeps ==
    ASSUME NEW q \in Queues, NEW S \in Seq(Messages), NEW m \in Messages, NEW h, NEW w,
           NEW r, NEW pc, NEW active, NEW seen,
           QueueInv(q, S, h, w, r, pc, active, seen),
           m.chunk = w, m.kind # "switch",
           m.kind = "work" =>
             m.data \in Chunks /\ h[m.data] = q /\ LeftLast(S, m.data)
    PROVE  QueueInv(q, Append(S, m), h, w, r, pc, active, seen)
  <1> DEFINE T == Append(S, m)
  <1>1. /\ T \in Seq(Messages) /\ Len(T) = Len(S) + 1 /\ Len(S) \in Nat
        /\ \A i \in 1 .. Len(S) : T[i] = S[i]
        /\ T[Len(S) + 1] = m
    BY AppendFacts
  <1> HIDE DEF T
  <1>2. T # <<>> /\ (S # <<>> => Head(T) = Head(S))
    <2>1. T # <<>> /\ Head(T) = T[1]
      BY <1>1
    <2>2. S # <<>> => Head(S) = S[1] /\ 1 \in 1 .. Len(S)
      BY TailFacts
    <2> QED
      BY <1>1, <2>1, <2>2
  <1>3. Switching(T, w)
    <2> SUFFICES ASSUME NEW i \in 1 .. Len(T), T[i].kind = "switch"
                 PROVE  /\ T[i].chunk # w
                        /\ i < Len(T) /\ T[i + 1].kind = "dummy"
                        /\ \A j \in 1 .. Len(T) : j > i => T[j].chunk # T[i].chunk
      BY DEF Switching
    <2>1. i \in 1 .. Len(S) /\ T[i] = S[i]
      BY <1>1
    <2>2. /\ S[i].chunk # w /\ i < Len(S) /\ S[i + 1].kind = "dummy"
          /\ \A j \in 1 .. Len(S) : j > i => S[j].chunk # S[i].chunk
      BY <2>1 DEF QueueInv, Chained, Switching
    <2>3. \A j \in 1 .. Len(T) : j > i => T[j].chunk # T[i].chunk
      BY <1>1, <2>1, <2>2
    <2> QED
      BY <1>1, <2>1, <2>2, <2>3
  <1>4. Chained(T, q, h, w)
    BY <1>1, <1>3 DEF QueueInv, Chained
  <1>5. Supplied(T, q, h, active)
    <2> SUFFICES ASSUME NEW i \in 1 .. Len(T), T[i].kind = "work"
                 PROVE  /\ T[i].data \in Chunks
                        /\ \/ /\ h[T[i].data] = q
                              /\ \A j \in 1 .. i - 1 :
                                   T[j].kind = "switch" /\ T[j].chunk = T[i].data => j = i - 2
                           \/ /\ h[T[i].data] = "stash" /\ Awake(q, active)
                              /\ i = 1 \/ (i = 2 /\ T[1].kind = "dummy")
      BY DEF Supplied
    <2>1. CASE i = Len(S) + 1
      BY <1>1, <2>1 DEF LeftLast
    <2>2. CASE i # Len(S) + 1
      <3>1. i \in 1 .. Len(S) /\ T[i] = S[i] /\ (\A j \in 1 .. i - 1 : T[j] = S[j])
            /\ 1 \in 1 .. Len(S) /\ T[1] = S[1]
        BY <1>1, <2>2
      <3> QED
        BY <3>1 DEF QueueInv, Supplied
    <2> QED
      BY <2>1, <2>2
  <1>6. Standing(T, q, h, r, pc, active)
    BY <1>2 DEF QueueInv, Standing
  <1>7. InHand(T, q, r, pc, active, seen)
    BY <1>2 DEF QueueInv, InHand
  <1> QED
    BY <1>4, <1>5, <1>6, <1>7 DEF QueueInv, T

Opened(S, w, c) ==
    S \o <<Message("switch", w, NoChunk), Message("dummy", c, NoChunk)>>

\* The switch to a chunk nobody has, and the dummy in it.
LEMMA OpeningKeeps ==
    ASSUME NEW q \in Queues, NEW S \in Seq(Messages), NEW w \in Chunks, NEW c \in Chunks,
           NEW h \in [Chunks -> Places], NEW g \in [Chunks -> Places],
           NEW r \in Chunks, NEW pc, NEW active, NEW seen,
           QueueInv(q, S, h, w, r, pc, active, seen),
           c # w, h[c] \in {"pool", "heap"},
           g[c] = q, \A d \in Chunks : d # c => g[d] = h[d]
    PROVE  /\ Opened(S, w, c) \in Seq(Messages)
           /\ QueueInv(q, Opened(S, w, c), g, c, r, pc, active, seen)
           /\ Opened(S, w, c) # <<>> /\ (S # <<>> => Head(Opened(S, w, c)) = Head(S))
           /\ LeftLast(Opened(S, w, c), w) /\ Len(Opened(S, w, c)) >= Len(S)
           /\ g[w] = q
  <1> DEFINE sw == Message("switch", w, NoChunk)
             dm == Message("dummy", c, NoChunk)
             U == Append(S, sw)
             T == Opened(S, w, c)
  <1>1. sw \in Messages /\ dm \in Messages /\ T = Append(U, dm)
        /\ sw.kind = "switch" /\ sw.chunk = w /\ dm.kind = "dummy" /\ dm.chunk = c
    BY OpeningFacts DEF Message, Messages, Kinds, Opened
  <1>2. U \in Seq(Messages) /\ Len(U) = Len(S) + 1 /\ Len(S) \in Nat
        /\ (\A i \in 1 .. Len(S) : U[i] = S[i]) /\ U[Len(S) + 1] = sw
    <2> HIDE DEF sw
    <2> QED
      BY <1>1, AppendFacts
  <1>3. T \in Seq(Messages) /\ Len(T) = Len(U) + 1
        /\ (\A i \in 1 .. Len(U) : T[i] = U[i]) /\ T[Len(U) + 1] = dm
    <2> HIDE DEF sw, dm, U, T
    <2>1. T = Append(U, dm) /\ dm \in Messages /\ U \in Seq(Messages)
      BY <1>1, <1>2
    <2>2. /\ Append(U, dm) \in Seq(Messages) /\ Len(Append(U, dm)) = Len(U) + 1
          /\ \A i \in 1 .. Len(U) : Append(U, dm)[i] = U[i]
          /\ Append(U, dm)[Len(U) + 1] = dm
      BY <2>1, AppendFacts
    <2> QED
      BY <2>1, <2>2
  <1>4. /\ T \in Seq(Messages) /\ Len(T) = Len(S) + 2 /\ Len(S) \in Nat
        /\ \A i \in 1 .. Len(S) : T[i] = S[i]
        /\ T[Len(S) + 1].kind = "switch" /\ T[Len(S) + 1].chunk = w
        /\ T[Len(S) + 2].kind = "dummy" /\ T[Len(S) + 2].chunk = c
    <2> HIDE DEF sw, dm, U, T
    <2> QED
      BY <1>1, <1>2, <1>3
  <1> HIDE DEF sw, dm, U, T
  <1>5. T # <<>> /\ (S # <<>> => Head(T) = Head(S))
    <2>1. T # <<>> /\ Head(T) = T[1]
      BY <1>4
    <2>2. S # <<>> => Head(S) = S[1] /\ 1 \in 1 .. Len(S)
      BY TailFacts
    <2> QED
      BY <1>4, <2>1, <2>2
  <1>6. /\ \A d \in Chunks : h[d] \in {q, "stash"} => g[d] = h[d] /\ d # c
        /\ g[c] = q /\ h[w] = q /\ g[w] = q
        /\ \A d \in Chunks : g[d] = q => d = c \/ h[d] = q
    BY QueueFacts DEF QueueInv, Chained
  <1>7. \A i \in 1 .. Len(S) : S[i].chunk \in Chunks /\ h[S[i].chunk] = q
                               /\ (S[i].kind = "switch" => S[i].chunk # w)
    BY Fields DEF QueueInv, Chained, Switching
  <1>7a. \A i \in 1 .. Len(T) : (i \in 1 .. Len(S) /\ T[i] = S[i]) \/ T[i].chunk \in {c, w}
    BY <1>4
  <1>8. Switching(T, c)
    <2> SUFFICES ASSUME NEW i \in 1 .. Len(T), T[i].kind = "switch"
                 PROVE  /\ T[i].chunk # c
                        /\ i < Len(T) /\ T[i + 1].kind = "dummy"
                        /\ \A j \in 1 .. Len(T) : j > i => T[j].chunk # T[i].chunk
      BY DEF Switching
    <2>1. CASE i = Len(S) + 1
      <3>1. T[i].chunk = w /\ i < Len(T) /\ T[i + 1].kind = "dummy"
        BY <1>4, <2>1
      <3>2. \A j \in 1 .. Len(T) : j > i => T[j].chunk = c
        BY <1>4, <2>1
      <3> QED
        BY <3>1, <3>2
    <2>2. CASE i # Len(S) + 1
      <3>1. i \in 1 .. Len(S) /\ T[i] = S[i]
        BY <1>4, <2>2
      <3>2. /\ i < Len(S) /\ S[i + 1].kind = "dummy"
            /\ \A j \in 1 .. Len(S) : j > i => S[j].chunk # S[i].chunk
        BY <3>1 DEF QueueInv, Chained, Switching
      <3>3. T[i].chunk # c /\ T[i].chunk # w
        BY <1>6, <1>7, <3>1
      <3>4. \A j \in 1 .. Len(T) : j > i => T[j].chunk # T[i].chunk
        BY <1>7a, <3>2, <3>3, <3>1
      <3>5. i < Len(T) /\ T[i + 1] = S[i + 1]
        BY <1>4, <3>1, <3>2
      <3> QED
        BY <3>2, <3>3, <3>4, <3>5
    <2> QED
      BY <2>1, <2>2
  <1>9. Chained(T, q, g, c)
    <2>1. \A i \in 1 .. Len(T) : g[T[i].chunk] = q
      BY <1>6, <1>7, <1>7a
    <2> QED
      BY <1>6, <1>8, <2>1 DEF Chained
  <1>10. Supplied(T, q, g, active)
    <2> SUFFICES ASSUME NEW i \in 1 .. Len(T), T[i].kind = "work"
                 PROVE  /\ T[i].data \in Chunks
                        /\ \/ /\ g[T[i].data] = q
                              /\ \A j \in 1 .. i - 1 :
                                   T[j].kind = "switch" /\ T[j].chunk = T[i].data => j = i - 2
                           \/ /\ g[T[i].data] = "stash" /\ Awake(q, active)
                              /\ i = 1 \/ (i = 2 /\ T[1].kind = "dummy")
      BY DEF Supplied
    <2>1. i \in 1 .. Len(S) /\ T[i] = S[i] /\ (\A j \in 1 .. i - 1 : T[j] = S[j])
          /\ 1 \in 1 .. Len(S) /\ T[1] = S[1]
      BY <1>4
    <2>2. /\ S[i].data \in Chunks
          /\ \/ /\ h[S[i].data] = q
                /\ \A j \in 1 .. i - 1 :
                     S[j].kind = "switch" /\ S[j].chunk = S[i].data => j = i - 2
             \/ /\ h[S[i].data] = "stash" /\ Awake(q, active)
                /\ i = 1 \/ (i = 2 /\ S[1].kind = "dummy")
      BY <2>1 DEF QueueInv, Supplied
    <2> QED
      BY <1>6, <2>1, <2>2
  <1>11. Standing(T, q, g, r, pc, active)
    BY <1>5, <1>6 DEF QueueInv, Standing
  <1>12. InHand(T, q, r, pc, active, seen)
    BY <1>5 DEF QueueInv, InHand
  <1>13. LeftLast(T, w) /\ Len(T) >= Len(S)
    BY <1>4, <1>7 DEF LeftLast
  <1> QED
    BY <1>4, <1>5, <1>6, <1>9, <1>10, <1>11, <1>12, <1>13 DEF QueueInv, T

-----------------------------------------------------------------------------
(* The steps. *)

\* Types of what a queue's invariant speaks of.
LEMMA Typed ==
    ASSUME TypeOK
    PROVE  /\ home \in [Chunks -> Places]
           /\ fifo \in [Queues -> Seq(Messages)]
           /\ wchunk \in [Queues -> Chunks] /\ rchunk \in [Queues -> Chunks]
  BY DEF TypeOK, Places, Messages

Moved(q, c) == fifo[q] \o Opening(q, c)

\* The writer of q moves to its chunk c, new or not, and opens it.
LEMMA MoveKeeps ==
    ASSUME IInv, NEW q \in Queues, NEW c \in Chunks, MoveTo(q, c)
    PROVE  /\ home' \in [Chunks -> Places] /\ wchunk' \in [Queues -> Chunks]
           /\ wchunk'[q] = c
           /\ Moved(q, c) \in Seq(Messages) /\ Len(Moved(q, c)) >= Len(fifo[q])
           /\ fifo[q] # <<>> => Moved(q, c) # <<>> /\ Head(Moved(q, c)) = Head(fifo[q])
           /\ QueueInv(q, Moved(q, c), home', c, rchunk[q], rpc[q], running, published)
           /\ home'[wchunk[q]] = q
           /\ LeftLast(Moved(q, c), wchunk[q])
           /\ \A p \in Queues : p # q =>
                QueueInv(p, fifo[p], home', wchunk'[p], rchunk[p], rpc[p], running, published)
  <1> DEFINE T == Moved(q, c)
  <1> USE Typed DEF IInv
  <1>1. /\ home' = [home EXCEPT ![c] = q] /\ wchunk' = [wchunk EXCEPT ![q] = c]
        /\ c = wchunk[q] \/ home[c] \in {"pool", "heap"}
    BY DEF MoveTo, Requestable, In
  <1>2. home' \in [Chunks -> Places] /\ wchunk' \in [Queues -> Chunks] /\ wchunk'[q] = c
    BY <1>1 DEF Places
  <1>3. home[wchunk[q]] = q /\ Switching(fifo[q], wchunk[q])
    BY DEF QueueInv, Chained
  <1>4. \A p \in Queues : p # q =>
          QueueInv(p, fifo[p], home', wchunk'[p], rchunk[p], rpc[p], running, published)
    <2> TAKE p \in Queues
    <2> HAVE p # q
    <2>1. wchunk'[p] = wchunk[p] /\ wchunk[p] \in Chunks /\ rchunk[p] \in Chunks
          /\ fifo[p] \in Seq(Messages)
      BY <1>1
    <2>2. \A d \in Chunks : home[d] \in {p, "stash"} => home'[d] = home[d]
      BY <1>1, <1>3, QueueFacts
    <2> HIDE DEF IInv
    <2>3. QueueInv(p, fifo[p], home, wchunk[p], rchunk[p], rpc[p], running, published)
      BY DEF IInv
    <2>4. QueueInv(p, fifo[p], home', wchunk[p], rchunk[p], rpc[p], running, published)
      BY <1>2, <2>1, <2>2, <2>3, HomeKept DEF IInv
    <2> QED
      BY <2>1, <2>4
  <1>5. CASE c = wchunk[q]
    <2>1. T = fifo[q] /\ home' = home
      BY <1>1, <1>3, <1>5 DEF Opening, Moved
    <2>2. /\ fifo[q] \in Seq(Messages)
          /\ QueueInv(q, fifo[q], home, wchunk[q], rchunk[q], rpc[q], running, published)
      OBVIOUS
    <2>3. LeftLast(fifo[q], wchunk[q])
      BY <1>3 DEF Switching, LeftLast
    <2>4. Len(fifo[q]) >= Len(fifo[q])
      BY <2>2
    <2> HIDE DEF IInv
    <2> QED
      BY <1>2, <1>3, <1>4, <1>5, <2>1, <2>2, <2>3, <2>4
  <1>6. CASE c # wchunk[q]
    <2>1. /\ T = Opened(fifo[q], wchunk[q], c)
          /\ fifo[q] \in Seq(Messages) /\ wchunk[q] \in Chunks /\ rchunk[q] \in Chunks
          /\ home[c] \in {"pool", "heap"}
          /\ home'[c] = q /\ \A d \in Chunks : d # c => home'[d] = home[d]
      BY <1>1, <1>6 DEF Opening, Opened, Moved
    <2>2. QueueInv(q, fifo[q], home, wchunk[q], rchunk[q], rpc[q], running, published)
      OBVIOUS
    <2>a. home \in [Chunks -> Places]
      OBVIOUS
    <2> HIDE DEF IInv, T
    <2>3. /\ T \in Seq(Messages)
          /\ QueueInv(q, T, home', c, rchunk[q], rpc[q], running, published)
          /\ T # <<>> /\ (fifo[q] # <<>> => Head(T) = Head(fifo[q]))
          /\ LeftLast(T, wchunk[q]) /\ Len(T) >= Len(fifo[q])
          /\ home'[wchunk[q]] = q
      <3> DEFINE O == Opened(fifo[q], wchunk[q], c)
      <3>1. /\ O \in Seq(Messages)
            /\ QueueInv(q, O, home', c, rchunk[q], rpc[q], running, published)
            /\ O # <<>> /\ (fifo[q] # <<>> => Head(O) = Head(fifo[q]))
            /\ LeftLast(O, wchunk[q]) /\ Len(O) >= Len(fifo[q])
            /\ home'[wchunk[q]] = q
        BY <1>2, <1>6, <2>1, <2>2, <2>a, OpeningKeeps, SMTT(60)
      <3>2. T = O
        BY <2>1
      <3> HIDE DEF O
      <3> QED
        BY <3>1, <3>2
    <2> QED
      BY <1>2, <1>4, <2>3 DEF T
  <1> QED
    BY <1>5, <1>6

\* The count of published messages matters to the main queue's reader only.
LEMMA SeenKept ==
    ASSUME NEW q, NEW S, NEW h, NEW w, NEW r, NEW pc, NEW active, NEW seen, NEW later,
           QueueInv(q, S, h, w, r, pc, active, seen),
           q = Main /\ seen > 0 /\ S # <<>> => later > 0
    PROVE  QueueInv(q, S, h, w, r, pc, active, later)
  BY DEF QueueInv, InHand

\* What the queues are after the main thread wrote.
Wrote ==
    /\ home \in [Chunks -> Places] /\ wchunk \in [Queues -> Chunks]
    /\ fifo \in [Queues -> Seq(Messages)]
    /\ \A p \in Queues : QueueInv(p, fifo[p], home, wchunk[p], rchunk[p], rpc[p], running, published)

\* Memory for data is q's, and in the chunk its writer is at.
LEMMA AllocateKeeps ==
    ASSUME IInv, NEW q \in Queues, AllocateData(q), UNCHANGED <<published, readerVars>>
    PROVE  /\ Wrote' /\ Len(fifo'[Main]) >= Len(fifo[Main])
           /\ fifo[Main] # <<>> => fifo'[Main] # <<>> /\ Head(fifo'[Main]) = Head(fifo[Main])
           /\ data' \in Chunks /\ data' = wchunk'[q]
  <1>1. PICK c \in Chunks : /\ MoveTo(q, c)
                            /\ fifo' = [fifo EXCEPT ![q] = @ \o Opening(q, c)]
                            /\ data' = c
    BY DEF AllocateData
  <1> DEFINE T == Moved(q, c)
  <1>2. /\ home' \in [Chunks -> Places] /\ wchunk' \in [Queues -> Chunks]
        /\ wchunk'[q] = c
        /\ T \in Seq(Messages) /\ Len(T) >= Len(fifo[q])
        /\ fifo[q] # <<>> => T # <<>> /\ Head(T) = Head(fifo[q])
        /\ QueueInv(q, T, home', c, rchunk[q], rpc[q], running, published)
        /\ \A p \in Queues : p # q =>
             QueueInv(p, fifo[p], home', wchunk'[p], rchunk[p], rpc[p], running, published)
    BY <1>1, MoveKeeps
  <1>3. fifo \in [Queues -> Seq(Messages)] /\ fifo' = [fifo EXCEPT ![q] = T]
    BY <1>1, Typed DEF IInv, Moved
  <1>4. rchunk' = rchunk /\ rpc' = rpc /\ running' = running /\ published' = published
    BY DEF readerVars
  <1> HIDE DEF T
  <1>5. /\ fifo' \in [Queues -> Seq(Messages)] /\ fifo'[q] = T
        /\ \A p \in Queues : p # q => fifo'[p] = fifo[p]
    BY <1>2, <1>3
  <1>6. \A p \in Queues :
          QueueInv(p, fifo'[p], home', wchunk'[p], rchunk'[p], rpc'[p], running', published')
    BY <1>2, <1>4, <1>5
  <1>7. /\ Len(fifo'[Main]) >= Len(fifo[Main])
        /\ fifo[Main] # <<>> => fifo'[Main] # <<>> /\ Head(fifo'[Main]) = Head(fifo[Main])
    <2>1. CASE q = Main
      BY <1>2, <1>5, <2>1
    <2>2. CASE q # Main
      <3>1. fifo'[Main] = fifo[Main] /\ Len(fifo[Main]) \in Nat
        BY <1>3, <1>5, <2>2, QueueFacts
      <3> QED
        BY <3>1
    <2> QED
      BY <2>1, <2>2
  <1>8. Wrote'
    BY <1>2, <1>5, <1>6 DEF Wrote
  <1> QED
    BY <1>1, <1>2, <1>7, <1>8

\* Appending to what was appended.
LEMMA ConcatAppend ==
    ASSUME NEW S \in Seq(Messages), NEW X \in Seq(Messages), NEW m \in Messages
    PROVE  S \o Append(X, m) = Append(S \o X, m)
  OBVIOUS

\* A message of q; a command's data is in the chunk the writer was at.
LEMMA EnqueueKeeps ==
    ASSUME IInv, NEW q \in Queues, NEW kind \in Kinds \ {"switch"},
           NEW d \in Chunks \cup {NoChunk},
           Enqueue(q, kind, d), kind = "work" => d = wchunk[q],
           rchunk' = rchunk, rpc' = rpc, running' = running,
           published' = published \/ published' = Len(fifo'[Main])
    PROVE  /\ Wrote' /\ Len(fifo'[Main]) >= Len(fifo[Main])
           /\ fifo[Main] # <<>> => fifo'[Main] # <<>> /\ Head(fifo'[Main]) = Head(fifo[Main])
  <1>1. PICK c \in Chunks : /\ MoveTo(q, c)
                            /\ fifo' = [fifo EXCEPT ![q] = @ \o Append(Opening(q, c), Message(kind, c, d))]
    BY DEF Enqueue
  <1> DEFINE T == Moved(q, c)
             m == Message(kind, c, d)
             U == Append(T, m)
  <1>2. /\ home' \in [Chunks -> Places] /\ wchunk' \in [Queues -> Chunks]
        /\ wchunk'[q] = c
        /\ T \in Seq(Messages) /\ Len(T) >= Len(fifo[q])
        /\ fifo[q] # <<>> => T # <<>> /\ Head(T) = Head(fifo[q])
        /\ QueueInv(q, T, home', c, rchunk[q], rpc[q], running, published)
        /\ home'[wchunk[q]] = q
        /\ LeftLast(T, wchunk[q])
        /\ \A p \in Queues : p # q =>
             QueueInv(p, fifo[p], home', wchunk'[p], rchunk[p], rpc[p], running, published)
    BY <1>1, MoveKeeps
  <1>3. m \in Messages /\ m.kind = kind /\ m.chunk = c /\ m.data = d
    BY DEF Message, Messages
  <1>4. fifo \in [Queues -> Seq(Messages)] /\ wchunk[q] \in Chunks
    BY Typed DEF IInv
  <1>5. fifo' = [fifo EXCEPT ![q] = U]
    <2>1. fifo[q] \in Seq(Messages) /\ Opening(q, c) \in Seq(Messages)
      <3>1. CASE c = wchunk[q]
        BY <1>4, <3>1 DEF Opening
      <3>2. CASE c # wchunk[q]
        BY <1>4, <3>2, OpeningFacts DEF Opening
      <3> QED
        BY <3>1, <3>2
    <2>2. fifo[q] \o Append(Opening(q, c), m) = U
      <3> HIDE DEF m
      <3> QED
        BY <1>3, <2>1, ConcatAppend DEF Moved
    <2> QED
      BY <1>1, <2>2
  <1> HIDE DEF T, m, U
  <1>6. QueueInv(q, U, home', c, rchunk[q], rpc[q], running, published)
    BY <1>2, <1>3, <1>4, AppendKeeps DEF U
  <1>7. /\ U \in Seq(Messages) /\ Len(U) = Len(T) + 1 /\ Len(T) \in Nat /\ Len(fifo[q]) \in Nat
        /\ T # <<>> => Head(U) = Head(T)
    <2>1. U \in Seq(Messages) /\ Len(U) = Len(T) + 1 /\ Len(T) \in Nat /\ Len(fifo[q]) \in Nat
          /\ (\A i \in 1 .. Len(T) : U[i] = T[i])
      BY <1>2, <1>3, <1>4, AppendFacts DEF U
    <2>2. U # <<>> /\ Head(U) = U[1]
      BY <2>1
    <2>3. T # <<>> => Head(T) = T[1] /\ 1 \in 1 .. Len(T)
      BY <1>2, TailFacts
    <2> QED
      BY <2>1, <2>2, <2>3
  <1>8. /\ fifo' \in [Queues -> Seq(Messages)] /\ fifo'[q] = U
        /\ \A p \in Queues : p # q => fifo'[p] = fifo[p]
    BY <1>4, <1>5, <1>7
  <1>9. /\ Len(fifo'[Main]) >= Len(fifo[Main])
        /\ fifo[Main] # <<>> => fifo'[Main] # <<>> /\ Head(fifo'[Main]) = Head(fifo[Main])
    <2>1. CASE q = Main
      <3>1. U # <<>>
        BY <1>7
      <3> QED
        BY <1>2, <1>7, <1>8, <2>1, <3>1
    <2>2. CASE q # Main
      <3>1. fifo'[Main] = fifo[Main] /\ Len(fifo[Main]) \in Nat
        BY <1>4, <1>8, <2>2, QueueFacts
      <3> QED
        BY <3>1
    <2> QED
      BY <2>1, <2>2
  <1>10. \A p \in Queues :
           QueueInv(p, fifo'[p], home', wchunk'[p], rchunk'[p], rpc'[p], running', published)
    BY <1>2, <1>6, <1>8
  <1>11. fifo'[Main] # <<>> /\ published' # published => published' > 0
    BY <1>8, QueueFacts
  <1>12. \A p \in Queues :
           QueueInv(p, fifo'[p], home', wchunk'[p], rchunk'[p], rpc'[p], running', published')
    BY <1>10, <1>11, SeenKept
  <1> QED
    BY <1>2, <1>8, <1>9, <1>12 DEF Wrote

\* A step of the main thread that wrote a queue well keeps the invariant.
LEMMA WriteKeeps ==
    ASSUME IInv, Wrote', Len(fifo'[Main]) >= Len(fifo[Main]),
           fifo[Main] # <<>> => fifo'[Main] # <<>> /\ Head(fifo'[Main]) = Head(fifo[Main]),
           UNCHANGED readerVars,
           published' = published \/ published' = Len(fifo'[Main]),
           mpc' \in {"idle", "record", "freeChunks", "finishWriting", "flush"},
           index' \in 0 .. Count, data' \in Chunks \cup {NoChunk}, Writing'
    PROVE  IInv'
  <1>1. /\ home' \in [Chunks -> Places] /\ wchunk' \in [Queues -> Chunks]
        /\ fifo' \in [Queues -> Seq(Messages)]
        /\ \A q \in Queues :
             QueueInv(q, fifo'[q], home', wchunk'[q], rchunk'[q], rpc'[q], running', published')
    BY DEF Wrote
  <1>2. published' \in 0 .. Len(fifo'[Main])
    <2>1. published \in 0 .. Len(fifo[Main]) /\ Len(fifo[Main]) \in Nat
      BY Typed, QueueFacts DEF IInv, TypeOK
    <2>2. Len(fifo'[Main]) \in Nat
      BY <1>1, QueueFacts
    <2> QED
      BY <2>1, <2>2
  <1>3. TypeOK'
    BY <1>1, <1>2 DEF IInv, TypeOK, readerVars, Places, Messages
  <1>4. OneAtATime'
    <2>1. started # {} => fifo[Main] # <<>>
      BY QueueFacts DEF IInv, OneAtATime, Executing, QueueInv, InHand
    <2> QED
      BY <2>1 DEF IInv, OneAtATime, Executing, readerVars
  <1> QED
    BY <1>1, <1>3, <1>4 DEF IInv

\* Record: the data of a command goes to the queue the command will go to.
LEMMA RecordKeeps ==
    ASSUME IInv, Record
    PROVE  IInv'
  <1>1. PICK i \in 0 .. Count :
          /\ AllocateData(IF i = 0 THEN Main ELSE CmdBuffs[i]) /\ index' = i
          /\ mpc' = "record" /\ UNCHANGED <<published, readerVars>>
    BY DEF Record
  <1>2. (IF i = 0 THEN Main ELSE CmdBuffs[i]) \in Queues
    BY QueueFacts
  <1>3. /\ Wrote' /\ Len(fifo'[Main]) >= Len(fifo[Main])
        /\ fifo[Main] # <<>> => fifo'[Main] # <<>> /\ Head(fifo'[Main]) = Head(fifo[Main])
        /\ data' \in Chunks /\ data' = wchunk'[IF i = 0 THEN Main ELSE CmdBuffs[i]]
    BY <1>1, <1>2, AllocateKeeps
  <1>4. Writing'
    BY <1>1, <1>3 DEF Writing
  <1> QED
    BY <1>1, <1>3, <1>4, WriteKeeps

\* The command is written: its data is in the chunk the writer was at.
LEMMA RecordMessageKeeps ==
    ASSUME IInv, RecordMessage
    PROVE  IInv'
  <1> DEFINE q == IF index = 0 THEN Main ELSE CmdBuffs[index]
  <1>1. /\ mpc = "record" /\ Enqueue(q, "work", data) /\ data' = NoChunk /\ mpc' = "idle"
        /\ UNCHANGED <<published, index, readerVars>>
    BY DEF RecordMessage
  <1>2. /\ q \in Queues /\ data = wchunk[q] /\ index \in 0 .. Count
        /\ data \in Chunks \cup {NoChunk}
    BY <1>1, QueueFacts DEF IInv, TypeOK, Writing
  <1> HIDE DEF q
  <1>3. "work" \in Kinds \ {"switch"} /\ rchunk' = rchunk /\ rpc' = rpc /\ running' = running
    BY <1>1 DEF Kinds, readerVars
  <1>4. /\ Wrote' /\ Len(fifo'[Main]) >= Len(fifo[Main])
        /\ fifo[Main] # <<>> => fifo'[Main] # <<>> /\ Head(fifo'[Main]) = Head(fifo[Main])
    BY <1>1, <1>2, <1>3, EnqueueKeeps
  <1>5. Writing'
    BY <1>1 DEF Writing
  <1> QED
    BY <1>1, <1>2, <1>4, <1>5, WriteKeeps

\* The array of command buffers goes to the main queue.
LEMMA FlushCommandsKeeps ==
    ASSUME IInv, FlushCommands
    PROVE  IInv'
  <1>1. /\ AllocateData(Main) /\ index' = 1 /\ mpc' = "freeChunks"
        /\ UNCHANGED <<published, readerVars>>
    BY DEF FlushCommands
  <1>2. /\ Wrote' /\ Len(fifo'[Main]) >= Len(fifo[Main])
        /\ fifo[Main] # <<>> => fifo'[Main] # <<>> /\ Head(fifo'[Main]) = Head(fifo[Main])
        /\ data' \in Chunks
    BY <1>1, QueueFacts, AllocateKeeps
  <1>3. index' \in 0 .. Count /\ Writing'
    BY <1>1, QueueFacts DEF Writing
  <1> QED
    BY <1>1, <1>2, <1>3, WriteKeeps

\* The four messages below carry no data for a command.
LEMMA FlushFreeChunksKeeps ==
    ASSUME IInv, FlushFreeChunks
    PROVE  IInv'
  <1>1. /\ mpc = "freeChunks" /\ Enqueue(CmdBuffs[index], "free", NoChunk)
        /\ mpc' = "finishWriting" /\ UNCHANGED <<published, index, data, readerVars>>
    BY DEF FlushFreeChunks
  <1>2. index \in 1 .. Count /\ index \in 0 .. Count /\ CmdBuffs[index] \in Queues
        /\ data \in Chunks \cup {NoChunk}
    BY <1>1, QueueFacts DEF IInv, TypeOK, Writing
  <1>3. "free" \in Kinds \ {"switch"} /\ rchunk' = rchunk /\ rpc' = rpc /\ running' = running
    BY <1>1 DEF Kinds, readerVars
  <1>4. /\ Wrote' /\ Len(fifo'[Main]) >= Len(fifo[Main])
        /\ fifo[Main] # <<>> => fifo'[Main] # <<>> /\ Head(fifo'[Main]) = Head(fifo[Main])
    BY <1>1, <1>2, <1>3, EnqueueKeeps
  <1>5. Writing'
    BY <1>1, <1>2 DEF Writing
  <1> QED
    BY <1>1, <1>2, <1>4, <1>5, WriteKeeps

LEMMA FlushFinishWritingKeeps ==
    ASSUME IInv, FlushFinishWriting
    PROVE  IInv'
  <1>1. /\ mpc = "finishWriting" /\ Enqueue(CmdBuffs[index], "finish", NoChunk)
        /\ index' = IF index < Count THEN index + 1 ELSE 1
        /\ mpc' = IF index < Count THEN "freeChunks" ELSE "flush"
        /\ UNCHANGED <<published, data, readerVars>>
    BY DEF FlushFinishWriting
  <1>2. index \in 1 .. Count /\ CmdBuffs[index] \in Queues
        /\ data \in Chunks \cup {NoChunk}
    BY <1>1, QueueFacts DEF IInv, TypeOK, Writing
  <1>3. "finish" \in Kinds \ {"switch"} /\ rchunk' = rchunk /\ rpc' = rpc /\ running' = running
    BY <1>1 DEF Kinds, readerVars
  <1>4. /\ Wrote' /\ Len(fifo'[Main]) >= Len(fifo[Main])
        /\ fifo[Main] # <<>> => fifo'[Main] # <<>> /\ Head(fifo'[Main]) = Head(fifo[Main])
    BY <1>1, <1>2, <1>3, EnqueueKeeps
  <1>5. index' \in 0 .. Count /\ index' > 0 /\ mpc' \in {"freeChunks", "flush"}
    BY <1>1, <1>2, QueueFacts
  <1>6. Writing'
    BY <1>5 DEF Writing
  <1> QED
    BY <1>1, <1>2, <1>4, <1>5, <1>6, WriteKeeps

LEMMA FlushMessageKeeps ==
    ASSUME IInv, FlushMessage
    PROVE  IInv'
  <1>1. /\ Enqueue(Main, "flush", data) /\ data' = NoChunk /\ mpc' = "idle"
        /\ UNCHANGED <<published, index, readerVars>>
    BY DEF FlushMessage
  <1>2. index \in 0 .. Count /\ data \in Chunks \cup {NoChunk}
    BY DEF IInv, TypeOK
  <1>3. "flush" \in Kinds \ {"switch"} /\ rchunk' = rchunk /\ rpc' = rpc /\ running' = running
    BY <1>1 DEF Kinds, readerVars
  <1>4. /\ Wrote' /\ Len(fifo'[Main]) >= Len(fifo[Main])
        /\ fifo[Main] # <<>> => fifo'[Main] # <<>> /\ Head(fifo'[Main]) = Head(fifo[Main])
    BY <1>1, <1>2, <1>3, EnqueueKeeps, QueueFacts
  <1>5. Writing'
    BY <1>1 DEF Writing
  <1> QED
    BY <1>1, <1>2, <1>4, <1>5, WriteKeeps

LEMMA PresentKeeps ==
    ASSUME IInv, Present
    PROVE  IInv'
  <1>1. /\ mpc = "idle" /\ Enqueue(Main, "free", NoChunk) /\ published' = Len(fifo'[Main])
        /\ mpc' = mpc /\ index' = index /\ data' = data /\ UNCHANGED readerVars
    BY DEF Present, mainVars
  <1>2. index \in 0 .. Count /\ data \in Chunks \cup {NoChunk}
    BY DEF IInv, TypeOK
  <1>3. "free" \in Kinds \ {"switch"} /\ rchunk' = rchunk /\ rpc' = rpc /\ running' = running
    BY <1>1 DEF Kinds, readerVars
  <1>4. /\ Wrote' /\ Len(fifo'[Main]) >= Len(fifo[Main])
        /\ fifo[Main] # <<>> => fifo'[Main] # <<>> /\ Head(fifo'[Main]) = Head(fifo[Main])
    BY <1>1, <1>3, EnqueueKeeps, QueueFacts
  <1>5. Writing'
    BY <1>1 DEF Writing
  <1> QED
    BY <1>1, <1>2, <1>4, <1>5, WriteKeeps

\* The invariant of one queue, by name.
LEMMA QueueOf ==
    ASSUME IInv, NEW q \in Queues
    PROVE  /\ QueueInv(q, fifo[q], home, wchunk[q], rchunk[q], rpc[q], running, published)
           /\ fifo[q] \in Seq(Messages) /\ wchunk[q] \in Chunks /\ rchunk[q] \in Chunks
           /\ rpc[q] \in {"read", "execute"}
  BY Typed DEF IInv, TypeOK

\* A reader that executes a message has one, in a chunk of its queue.
LEMMA HasOne ==
    ASSUME IInv, NEW q \in Queues, rpc[q] = "execute"
    PROVE  /\ fifo[q] # <<>> /\ rchunk[q] = Head(fifo[q]).chunk /\ Awake(q, running)
           /\ q = Main => published > 0
           /\ home[rchunk[q]] = q
  <1>1. /\ fifo[q] # <<>> /\ rchunk[q] = Head(fifo[q]).chunk /\ Awake(q, running)
        /\ q = Main => published > 0
    BY QueueOf DEF QueueInv, InHand
  <1>2. Head(fifo[q]) = fifo[q][1] /\ 1 \in 1 .. Len(fifo[q])
    BY <1>1, QueueOf, TailFacts
  <1>3. \A i \in 1 .. Len(fifo[q]) : home[fifo[q][i].chunk] = q
    BY QueueOf DEF QueueInv, Chained
  <1> QED
    BY <1>1, <1>2, <1>3

\* While a command buffer is flushed, the main queue is at the flush message.
LEMMA Flushing ==
    ASSUME IInv, started # {}
    PROVE  rpc[Main] = "execute" /\ Head(fifo[Main]).kind = "flush" /\ fifo[Main] # <<>>
  BY HasOne, QueueFacts DEF IInv, OneAtATime, Executing

\* One message taken, the rest as it was.
LEMMA TakeStep ==
    ASSUME IInv, NEW q \in Queues, Take(q)
    PROVE  IInv'
  <1>1. /\ BeingRead(q) /\ rpc[q] = "read" /\ fifo[q] # <<>>
        /\ rchunk' = [rchunk EXCEPT ![q] = Head(fifo[q]).chunk]
        /\ rpc' = [rpc EXCEPT ![q] = "execute"]
        /\ home' = home /\ fifo' = fifo /\ published' = published /\ wchunk' = wchunk
        /\ started' = started /\ running' = running
        /\ mpc' = mpc /\ index' = index /\ data' = data
    BY DEF Take, mainVars
  <1>2. TypeOK /\ rchunk \in [Queues -> Chunks] /\ rpc \in [Queues -> {"read", "execute"}]
    BY DEF IInv, TypeOK
  <1>3. Head(fifo[q]).chunk \in Chunks
    BY <1>1, QueueOf, TailFacts DEF Messages
  <1>4. TypeOK'
    BY <1>1, <1>2, <1>3 DEF TypeOK
  <1>5. QueueInv(q, fifo[q], home, wchunk[q], Head(fifo[q]).chunk, "execute", running, published)
    <2>1. Awake(q, running) /\ (q = Main => published > 0)
      BY <1>1 DEF BeingRead, Awake
    <2>2. QueueInv(q, fifo[q], home, wchunk[q], rchunk[q], "read", running, published)
      BY <1>1, QueueOf
    <2> QED
      BY <1>1, <2>1, <2>2, QueueOf, TakeKeeps
  <1>6. \A p \in Queues :
          QueueInv(p, fifo'[p], home', wchunk'[p], rchunk'[p], rpc'[p], running', published')
    BY <1>1, <1>2, <1>5, QueueOf
  <1>7. OneAtATime'
    <2>1. started # {} => q # Main
      BY <1>1, Flushing
    <2> QED
      BY <1>1, <1>2, <2>1, QueueFacts DEF IInv, OneAtATime, Executing
  <1>8. Writing'
    BY <1>1 DEF IInv, Writing
  <1> QED
    BY <1>4, <1>6, <1>7, <1>8 DEF IInv

\* One message done with, whatever it did to the chunks and to the flush.
LEMMA PopStep ==
    ASSUME IInv, NEW q \in Queues, rpc[q] = "execute", Pop(q),
           wchunk' = wchunk, rchunk' = rchunk, UNCHANGED mainVars,
           home' \in [Chunks -> Places],
           running' \subseteq running, running' \subseteq started', started' \subseteq started,
           QueueInv(q, Tail(fifo[q]), home', wchunk[q], rchunk[q], "read", running', published'),
           \A p \in Queues : p # q =>
             QueueInv(p, fifo[p], home', wchunk[p], rchunk[p], rpc[p], running', published),
           (started' = started /\ Head(fifo[q]).kind # "flush") \/ started' = {}
    PROVE  IInv'
  <1>1. /\ fifo' = [fifo EXCEPT ![q] = Tail(@)] /\ rpc' = [rpc EXCEPT ![q] = "read"]
        /\ published' = IF q = Main THEN published - 1 ELSE published
        /\ mpc' = mpc /\ index' = index /\ data' = data
    BY DEF Pop, PublishedAfter, mainVars
  <1>2. /\ TypeOK /\ rpc \in [Queues -> {"read", "execute"}]
        /\ fifo \in [Queues -> Seq(Messages)]
        /\ published \in 0 .. Len(fifo[Main])
    BY Typed DEF IInv, TypeOK
  <1>3. /\ fifo[q] # <<>> /\ fifo[q] \in Seq(Messages)
        /\ Tail(fifo[q]) \in Seq(Messages) /\ Len(Tail(fifo[q])) = Len(fifo[q]) - 1
        /\ Len(fifo[q]) \in Nat
    BY HasOne, QueueOf, TailFacts
  <1>4. /\ fifo' \in [Queues -> Seq(Messages)] /\ fifo'[q] = Tail(fifo[q])
        /\ \A p \in Queues : p # q => fifo'[p] = fifo[p]
    BY <1>1, <1>2, <1>3
  <1>5. published' \in 0 .. Len(fifo'[Main])
    <2>1. CASE q = Main
      <3>1. published > 0
        BY <2>1, HasOne
      <3> QED
        BY <1>1, <1>2, <1>3, <1>4, <2>1, <3>1
    <2>2. CASE q # Main
      BY <1>1, <1>2, <1>4, <2>2, QueueFacts
    <2> QED
      BY <2>1, <2>2
  <1>6. rpc' \in [Queues -> {"read", "execute"}] /\ rpc'[q] = "read"
        /\ \A p \in Queues : p # q => rpc'[p] = rpc[p]
    BY <1>1, <1>2
  <1>7. TypeOK'
    <2>1. started' \subseteq Commands
      BY <1>2 DEF TypeOK
    <2> QED
      BY <1>1, <1>2, <1>4, <1>5, <1>6, <2>1 DEF TypeOK, Places, Messages
  <1>8. \A p \in Queues :
          QueueInv(p, fifo'[p], home', wchunk'[p], rchunk'[p], rpc'[p], running', published')
    <2> TAKE p \in Queues
    <2>1. CASE p = q
      BY <1>4, <1>6, <2>1
    <2>2. CASE p # q
      <3>1. p = Main => published' = published
        BY <1>1, <2>2
      <3>2. QueueInv(p, fifo[p], home', wchunk[p], rchunk[p], rpc[p], running', published')
        BY <2>2, <3>1, SeenKept
      <3> QED
        BY <1>4, <1>6, <2>2, <3>2
    <2> QED
      BY <2>1, <2>2
  <1>9. OneAtATime'
    <2>1. CASE started' = {}
      BY <2>1 DEF IInv, OneAtATime
    <2>2. CASE started' = started /\ started # {}
      <3>1. q # Main
        BY <2>2, Flushing
      <3> QED
        BY <1>4, <1>6, <2>2, <3>1, QueueFacts DEF IInv, OneAtATime, Executing
    <2> QED
      BY <2>1, <2>2
  <1>10. Writing'
    BY <1>1 DEF IInv, Writing
  <1> QED
    BY <1>7, <1>8, <1>9, <1>10 DEF IInv

\* A work message, a dummy, or a free with nothing left to free.
LEMMA PlainKeeps ==
    ASSUME IInv, NEW q \in Queues, ExecutePlain(q) \/ ExecuteFreeDone(q)
    PROVE  IInv'
  <1>1. /\ rpc[q] = "execute" /\ Head(fifo[q]).kind \in {"work", "dummy", "free"} /\ Pop(q)
        /\ home' = home /\ wchunk' = wchunk /\ rchunk' = rchunk /\ UNCHANGED mainVars
        /\ started' = started /\ running' = running
    BY DEF ExecutePlain, ExecuteFreeDone, Executing, mainVars
  <1>2. QueueInv(q, fifo[q], home, wchunk[q], rchunk[q], "execute", running, published)
    BY <1>1, QueueOf
  <1>3. QueueInv(q, Tail(fifo[q]), home, wchunk[q], rchunk[q], "read", running, published')
    BY <1>1, <1>2, QueueOf, PopKeeps
  <1>4. home \in [Chunks -> Places] /\ running \subseteq started
    BY Typed DEF IInv, TypeOK
  <1> QED
    BY <1>1, <1>3, <1>4, QueueOf, PopStep

\* A chunk is stashed by the reader that stood in it.
LEMMA SwitchStep ==
    ASSUME IInv, NEW q \in Queues, ExecuteSwitch(q)
    PROVE  IInv'
  <1>1. /\ rpc[q] = "execute" /\ Head(fifo[q]).kind = "switch" /\ Pop(q)
        /\ home' = [home EXCEPT ![rchunk[q]] = "stash"]
        /\ wchunk' = wchunk /\ rchunk' = rchunk /\ UNCHANGED mainVars
        /\ started' = started /\ running' = running
    BY DEF ExecuteSwitch, Executing, Recycle
  <1>2. QueueInv(q, fifo[q], home, wchunk[q], rchunk[q], "execute", running, published)
    BY <1>1, QueueOf
  <1>3. /\ home \in [Chunks -> Places] /\ running \subseteq started /\ rchunk[q] \in Chunks
        /\ home[rchunk[q]] = q
    BY <1>1, Typed, HasOne DEF IInv, TypeOK
  <1>4. /\ home' \in [Chunks -> Places] /\ home'[rchunk[q]] = "stash"
        /\ \A d \in Chunks : d # rchunk[q] => home'[d] = home[d]
    BY <1>1, <1>3 DEF Places
  <1>5. QueueInv(q, Tail(fifo[q]), home', wchunk[q], rchunk[q], "read", running, published')
    BY <1>1, <1>2, <1>3, <1>4, QueueOf, SwitchKeeps
  <1>6. ASSUME NEW p \in Queues, p # q
        PROVE  QueueInv(p, fifo[p], home', wchunk[p], rchunk[p], rpc[p], running, published)
    <2>1. \A d \in Chunks : home[d] \in {p, "stash"} => home'[d] = home[d]
      BY <1>3, <1>4, <1>6, QueueFacts
    <2> QED
      BY <1>3, <1>4, <2>1, QueueOf, HomeKept
  <1> QED
    BY <1>1, <1>3, <1>4, <1>5, <1>6, PopStep

\* A command buffer's flush ends with its finishWriting.
LEMMA FinishKeeps ==
    ASSUME IInv, NEW q \in Queues, ExecuteFinish(q)
    PROVE  IInv'
  <1>1. /\ rpc[q] = "execute" /\ Head(fifo[q]).kind = "finish" /\ Pop(q)
        /\ home' = home /\ wchunk' = wchunk /\ rchunk' = rchunk /\ UNCHANGED mainVars
        /\ started' = started /\ running' = running \ {q}
    BY DEF ExecuteFinish, Executing
  <1>2. QueueInv(q, fifo[q], home, wchunk[q], rchunk[q], "execute", running, published)
    BY <1>1, QueueOf
  <1>3. QueueInv(q, Tail(fifo[q]), home, wchunk[q], rchunk[q], "read", running', published')
    BY <1>1, <1>2, QueueOf, PopKeeps
  <1>4. home \in [Chunks -> Places] /\ running \subseteq started
    BY Typed DEF IInv, TypeOK
  <1>5. ASSUME NEW p \in Queues, p # q
        PROVE  QueueInv(p, fifo[p], home, wchunk[p], rchunk[p], rpc[p], running', published)
    <2>1. Awake(p, running) => Awake(p, running')
      BY <1>1, <1>5 DEF Awake
    <2> QED
      BY <2>1, QueueOf, ActiveKept
  <1> QED
    BY <1>1, <1>3, <1>4, <1>5, PopStep

\* The flush message is done with when every command buffer is.
LEMMA FlushEndsKeeps ==
    ASSUME IInv, FlushEnds
    PROVE  IInv'
  <1>1. /\ rpc[Main] = "execute" /\ Head(fifo[Main]).kind = "flush" /\ Pop(Main)
        /\ home' = home /\ wchunk' = wchunk /\ rchunk' = rchunk /\ UNCHANGED mainVars
        /\ started' = {} /\ running' = running /\ running = {}
    BY DEF FlushEnds, Executing
  <1>2. QueueInv(Main, fifo[Main], home, wchunk[Main], rchunk[Main], "execute", running, published)
    BY <1>1, QueueOf, QueueFacts
  <1>3. QueueInv(Main, Tail(fifo[Main]), home, wchunk[Main], rchunk[Main], "read", running, published')
    BY <1>1, <1>2, QueueOf, QueueFacts, PopKeeps
  <1>4. home \in [Chunks -> Places]
    BY Typed DEF IInv
  <1> QED
    BY <1>1, <1>3, <1>4, QueueOf, QueueFacts, PopStep

\* When a queue frees the stash, no queue that is being read is at a message
\* that needs it.
LEMMA NobodyLeans ==
    ASSUME IInv, NEW q \in Queues, Executing(q, {"free"}), NEW p \in Queues,
           Awake(p, running), fifo[p] # <<>>
    PROVE  Head(fifo[p]).kind \notin {"dummy", "work"}
  <1>1. rpc[q] = "execute" /\ Head(fifo[q]).kind = "free"
    BY DEF Executing
  <1>2. running \subseteq started /\ \A a, b \in running : a = b
    BY DEF IInv, TypeOK, OneAtATime
  <1>3. CASE p = q
    BY <1>1, <1>3
  <1>4. CASE p # q /\ q = Main
    <2>1. started # {}
      BY <1>2, <1>4 DEF Awake
    <2> QED
      BY <1>1, <1>4, <2>1, Flushing
  <1>5. CASE p # q /\ q # Main
    <2>1. q \in running
      BY <1>1, <1>5, HasOne DEF Awake
    <2>2. p = Main
      BY <1>2, <1>5, <2>1 DEF Awake
    <2> QED
      BY <1>2, <2>1, <2>2, Flushing
  <1> QED
    BY <1>3, <1>4, <1>5

\* Chunks of any queue are freed.
LEMMA FreeOneKeeps ==
    ASSUME IInv, NEW q \in Queues, ExecuteFreeOne(q)
    PROVE  IInv'
  <1>1. PICK c \in Chunks : /\ home[c] = "stash" /\ Free(c) /\ Executing(q, {"free"})
                            /\ UNCHANGED <<fifo, published, wchunk, mainVars, readerVars>>
    BY DEF ExecuteFreeOne, In
  <1>2. /\ fifo' = fifo /\ published' = published /\ wchunk' = wchunk
        /\ mpc' = mpc /\ index' = index /\ data' = data
        /\ rchunk' = rchunk /\ rpc' = rpc /\ started' = started /\ running' = running
    BY <1>1 DEF mainVars, readerVars
  <1>3. home \in [Chunks -> Places]
    BY Typed DEF IInv
  <1>4. /\ home' \in [Chunks -> Places]
        /\ \A d \in Chunks : d # c => home'[d] = home[d]
    <2> DEFINE place == IF Cardinality(In("pool")) >= PoolCapacity THEN "heap" ELSE "pool"
    <2>1. place \in Places
      BY DEF Places
    <2>2. home' = [home EXCEPT ![c] = place]
      BY <1>1 DEF Free
    <2> HIDE DEF place
    <2> QED
      BY <1>3, <2>1, <2>2
  <1>5. \A p \in Queues :
          QueueInv(p, fifo[p], home', wchunk[p], rchunk[p], rpc[p], running, published)
    <2> TAKE p \in Queues
    <2>1. \A d \in Chunks : home[d] = p => home'[d] = p
      BY <1>1, <1>4, QueueFacts
    <2>2. ~Awake(p, running) \/ fifo[p] = <<>> \/ Head(fifo[p]).kind \notin {"dummy", "work"}
      BY <1>1, NobodyLeans
    <2> QED
      BY <1>3, <1>4, <2>1, <2>2, QueueOf, StashEmptied
  <1>6. TypeOK'
    BY <1>2, <1>4 DEF IInv, TypeOK, Places
  <1>7. OneAtATime' /\ Writing'
    BY <1>2 DEF IInv, OneAtATime, Executing, Writing
  <1> QED
    BY <1>2, <1>5, <1>6, <1>7 DEF IInv

\* The device thread begins with a command buffer when it is done with those
\* before it.
LEMMA StartKeeps ==
    ASSUME IInv, ~Multithreaded, NEW i \in 1 .. Count, StartCommandBuffer(i)
    PROVE  IInv'
  <1>1. /\ Executing(Main, {"flush"}) /\ CmdBuffs[i] \notin started /\ MayStart(i)
        /\ started' = started \cup {CmdBuffs[i]} /\ running' = running \cup {CmdBuffs[i]}
        /\ home' = home /\ fifo' = fifo /\ published' = published /\ wchunk' = wchunk
        /\ mpc' = mpc /\ index' = index /\ data' = data /\ rchunk' = rchunk /\ rpc' = rpc
    BY DEF StartCommandBuffer, mainVars
  <1>2. WorkForThisThread = Count
    BY DEF WorkForThisThread
  <1>3. i \in Int /\ Count \in Int /\ i <= Count /\ CmdBuffs[i] \in Commands
    BY QueueFacts
  <1>4. \A j \in 1 .. i - 1 : CmdBuffs[j] \in started /\ CmdBuffs[j] \notin running
    BY <1>1, <1>2, <1>3 DEF MayStart, Done
  <1>5. running = {}
    <2> SUFFICES ASSUME NEW b \in running PROVE FALSE
      OBVIOUS
    <2>1. b \in started /\ b \in Commands
      BY DEF IInv, TypeOK
    <2>2. PICK k \in 1 .. Count : b = CmdBuffs[k]
      BY <2>1 DEF Commands
    <2>3. k # i
      BY <1>1, <2>1, <2>2
    <2>4. CASE k < i
      <3>1. k \in 1 .. i - 1
        BY <1>3, <2>4
      <3> QED
        BY <1>4, <2>2, <3>1
    <2>5. CASE i < k
      BY <1>1, <2>1, <2>2, <2>5 DEF IInv, OneAtATime
    <2> QED
      BY <1>3, <2>3, <2>4, <2>5
  <1>6. TypeOK'
    BY <1>1, <1>3 DEF IInv, TypeOK
  <1>7. OneAtATime'
    <2>1. Executing(Main, {"flush"})' /\ \A p, q \in running' : p = q
      BY <1>1, <1>5 DEF Executing
    <2>2. ASSUME NEW k \in 1 .. Count, NEW j \in 1 .. Count, j < k, CmdBuffs[k] \in started'
          PROVE  CmdBuffs[j] \in started'
      <3>1. CASE k = i
        <4>1. j \in 1 .. i - 1
          BY <1>3, <2>2, <3>1
        <4> QED
          BY <1>1, <1>4, <4>1
      <3>2. CASE k # i
        <4>1. CmdBuffs[k] # CmdBuffs[i]
          BY <3>2, FlushAssumption
        <4> QED
          BY <1>1, <2>2, <4>1 DEF IInv, OneAtATime
      <3> QED
        BY <3>1, <3>2
    <2> QED
      BY <2>1, <2>2 DEF OneAtATime
  <1>8. \A q \in Queues :
          QueueInv(q, fifo[q], home, wchunk[q], rchunk[q], rpc[q], running', published)
    <2> TAKE q \in Queues
    <2>1. Awake(q, running) => Awake(q, running')
      BY <1>1 DEF Awake
    <2> QED
      BY <2>1, QueueOf, ActiveKept
  <1>9. Writing'
    BY <1>1 DEF IInv, Writing
  <1> QED
    BY <1>1, <1>6, <1>7, <1>8, <1>9 DEF IInv

-----------------------------------------------------------------------------
(* The theorems. *)

\* The queues begin empty, each with a chunk of its own.
LEMMA InitKeeps ==
    ASSUME Init
    PROVE  IInv
  <1>1. /\ wchunk \in [Queues -> Chunks] /\ rchunk = wchunk
        /\ \A p, q \in Queues : wchunk[p] = wchunk[q] => p = q
        /\ home = [c \in Chunks |-> IF \E q \in Queues : wchunk[q] = c
                                    THEN CHOOSE q \in Queues : wchunk[q] = c ELSE "heap"]
        /\ fifo = [q \in Queues |-> <<>>] /\ published = 0 /\ rpc = [q \in Queues |-> "read"]
        /\ started = {} /\ running = {} /\ mpc = "idle" /\ index = 1 /\ data = NoChunk
    BY DEF Init
  <1>2. home \in [Chunks -> Places]
    <2> SUFFICES ASSUME NEW c \in Chunks
                 PROVE  (IF \E q \in Queues : wchunk[q] = c
                         THEN CHOOSE q \in Queues : wchunk[q] = c ELSE "heap") \in Places
      BY <1>1
    <2>1. CASE \E q \in Queues : wchunk[q] = c
      <3>1. (CHOOSE q \in Queues : wchunk[q] = c) \in Queues
        BY <2>1
      <3> QED
        BY <2>1, <3>1 DEF Places
    <2>2. CASE ~\E q \in Queues : wchunk[q] = c
      BY <2>2 DEF Places
    <2> QED
      BY <2>1, <2>2
  <1>3. \A q \in Queues : home[wchunk[q]] = q
    <2> TAKE q \in Queues
    <2>1. wchunk[q] \in Chunks
      BY <1>1
    <2>2. home[wchunk[q]] = CHOOSE p \in Queues : wchunk[p] = wchunk[q]
      BY <1>1, <2>1
    <2>3. (CHOOSE p \in Queues : wchunk[p] = wchunk[q]) = q
      BY <1>1
    <2> QED
      BY <2>2, <2>3
  <1>4. \A q \in Queues : fifo[q] = <<>> /\ Len(fifo[q]) = 0 /\ rpc[q] = "read"
    BY <1>1
  <1>5. fifo \in [Queues -> Seq(Messages)]
    BY <1>1
  <1>6. published \in 0 .. Len(fifo[Main]) /\ index \in 0 .. Count
    BY <1>1, <1>4, QueueFacts
  <1>7. TypeOK
    BY <1>1, <1>2, <1>5, <1>6 DEF TypeOK, Places, Messages
  <1>8. OneAtATime /\ Writing
    BY <1>1 DEF OneAtATime, Writing
  <1>9. \A q \in Queues :
          QueueInv(q, fifo[q], home, wchunk[q], rchunk[q], rpc[q], running, published)
    BY <1>1, <1>3, <1>4 DEF QueueInv, Chained, Switching, Supplied, Standing, InHand
  <1> QED
    BY <1>7, <1>8, <1>9 DEF IInv

\* Every step keeps the invariant if the device thread flushes alone.
LEMMA NextKeeps ==
    ASSUME IInv, ~Multithreaded, [Next]_vars
    PROVE  IInv'
  <1>1. CASE MainThread
    BY <1>1, RecordKeeps, RecordMessageKeeps, FlushCommandsKeeps, FlushFreeChunksKeeps,
       FlushFinishWritingKeeps, FlushMessageKeeps, PresentKeeps DEF MainThread
  <1>2. ASSUME NEW q \in Queues, Reader(q)
        PROVE  IInv'
    BY <1>2, TakeStep, PlainKeeps, FreeOneKeeps, SwitchStep, FinishKeeps DEF Reader
  <1>3. ASSUME NEW i \in 1 .. Count, StartCommandBuffer(i)
        PROVE  IInv'
    BY <1>3, StartKeeps
  <1>4. CASE FlushEnds
    BY <1>4, FlushEndsKeeps
  <1>5. CASE UNCHANGED vars
    BY <1>5 DEF vars, mainVars, readerVars, IInv, TypeOK, OneAtATime, Executing, Writing
  <1> QED
    BY <1>1, <1>2, <1>3, <1>4, <1>5 DEF Next

\* The strengthening says what the two properties say.
LEMMA IInvImplies ==
    ASSUME IInv
    PROVE  CursorOwned /\ DataOwned
  <1>1. \A q \in Queues : rpc[q] = "read" => Held(q, rchunk[q])
    BY QueueOf DEF QueueInv, Standing, Held
  <1>2. DataOwned
    BY QueueOf DEF QueueInv, Supplied, DataOwned, Held
  <1> QED
    BY <1>1, <1>2 DEF IInv, CursorOwned

LEMMA Invariance ==
    ASSUME ~Multithreaded
    PROVE  Spec => []IInv
  <1>1. Init => IInv
    BY InitKeeps
  <1>2. IInv /\ [Next]_vars => IInv'
    BY NextKeeps
  <1> QED
    BY <1>1, <1>2, PTL DEF Spec

\* CommandBufferAgent.cpp:72-75, without threads to spread the work over: a
\* reader finds its way out of the last message it took (MessageQueue.cpp:269)
\* for every number of command buffers and chunks and every size of the pool.
THEOREM CursorOwnedAlways ==
    ASSUME ~Multithreaded
    PROVE  Spec => []CursorOwned
  <1>1. IInv => CursorOwned
    BY IInvImplies
  <1> QED
    BY <1>1, Invariance, PTL

\* Likewise, the data a command points to is there when it is executed,
\* though the chunk it is in may have been left and stashed before.
THEOREM DataOwnedAlways ==
    ASSUME ~Multithreaded
    PROVE  Spec => []DataOwned
  <1>1. IInv => DataOwned
    BY IInvImplies
  <1> QED
    BY <1>1, Invariance, PTL
=============================================================================
