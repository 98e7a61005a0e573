-------------------------- MODULE MessageQueueProofs --------------------------
(* Proofs about MessageQueue: for every number and size of chunks, every     *)
(* pool and every width of the counts, what is written is found by the       *)
(* reader, in order and with its data, and no wakeup is lost.                *)
(*                                                                           *)
(* The counts, the pointers and the places of the chunks are three accounts  *)
(* of one sequence, expect.  None of them is kept by itself: the counts say  *)
(* that the reader follows a pointer only to a message that was published,   *)
(* the pointers that what it finds there is the oldest message, the places   *)
(* that the chunk it stands in and the data it is about to use are not given *)
(* away.  The inductive invariant states the three and the control of the    *)
(* two threads they rest on.                                                 *)
EXTENDS MessageQueue, FiniteSetTheorems, TLAPS

-----------------------------------------------------------------------------
(* Control *)

Ending == {"setMultithreaded", "destroy"}

\* What a call still has to allocate.
CallShape ==
    wpc \in {"alloc", "attach"} =>
       \/ call.op = "work" /\ todo = <<"work">>
       \/ call.op = "dataWork" /\ todo \in {<<"data", "work">>, <<"work">>}
       \/ call.op = "kickAndWait" /\ todo = <<"wait">>
       \/ call.op = "freeChunks" /\ todo = <<"free">>
       \/ call.op = "finishWriting" /\ todo = <<"finish">>
       \/ call.op = "setMultithreaded" /\ todo = <<"work">>
       \/ call.op \in Ending /\ todo \in {<<"work", "terminate">>, <<"terminate">>}

\* Without a consumer thread nothing is left to execute.
Threads ==
    /\ immediate => expect = <<>> /\ cpc = "none"
    /\ cpc = "none" => immediate \/ wpc \in {"delete", "gone"}
    /\ wpc \in {"delete", "gone"} => cpc = "none" /\ expect = <<>>

\* A message whose call waits for it is the last one written.
WaitedFor(S, pc, op) ==
    \A i \in 1 .. Len(S) : S[i].kind \in {"wait", "terminate"} =>
       /\ i = Len(S) /\ pc \in {"push", "notify", "await"}
       /\ IF S[i].kind = "wait" THEN op = "kickAndWait" ELSE op \in Ending

\* The event is signalled to the call that waits for it.
Signalled ==
    event = 1 => /\ wpc \in {"push", "notify", "await"} /\ expect = <<>>
                 /\ \/ call.op = "kickAndWait"
                    \/ call.op \in Ending /\ reader.terminate /\ cpc \in {"flush", "exited"}

\* The consumer thread ends on the last message it is sent.
Ended ==
    /\ reader.terminate =>
         /\ expect = <<>>
         /\ \/ cpc = "none"
            \/ /\ cpc \in {"flush", "exited"} /\ wpc \in {"push", "notify", "await", "join"}
               /\ call.op \in Ending
         /\ cpc = "flush" => reader.flushed
    /\ wpc = "join" => reader.terminate /\ cpc \in {"flush", "exited"}
    /\ cpc = "exited" => reader.terminate
    /\ cpc \in {"read", "locked", "waiting", "woken", "execute", "destroy"} => ~reader.flushed
    /\ cpc = "destroy" => expect # <<>> /\ expect[1].kind = "switch"

-----------------------------------------------------------------------------
(* Counts *)

Counted == Len(expect) = InHand + reader.new + Behind + writer.pending

\* A call adds its own messages and, at most once for each, a switch and a
\* dummy; the counts never wrap over what they count.
Limit == MaxOutstanding + 6
Room ==
    /\ Len(expect) <= Limit
    /\ wpc \in {"alloc", "attach"} =>
         Len(expect) + 3 * Len(todo) <= Limit + (IF Fits THEN 2 ELSE 0)

Waiting == cpc \in {"locked", "waiting"} => /\ reader.new = 0
                                            /\ Behind > 0 => wpc = "notify"

-----------------------------------------------------------------------------
(* Pointers *)

After(S, here, i) == IF i < Len(S) THEN S[i + 1].at ELSE here

\* The cells of S, one leading to the next, from the reader to the writer.
Linked(S, m, here, last, r, hand) ==
    /\ \A i \in 1 .. Len(S) : /\ Entry(S[i].at, m[S[i].at]) = S[i]
                              /\ m[S[i].at].next = After(S, here, i)
    /\ hand = 1 => S # <<>> /\ r = S[1].at
    /\ hand = 0 => m[r].next = After(S, here, 0)
    /\ last = IF S = <<>> THEN r ELSE S[Len(S)].at

-----------------------------------------------------------------------------
(* Places *)

\* A slot of a chunk in use that the writer has passed.
Passed(s, chunk, offset) == s[1] = chunk => s[2] < offset

\* A switch is the last message in its chunk and has its dummy behind it.
Switching(S, chunk) ==
    \A i \in 1 .. Len(S) : S[i].kind = "switch" =>
       /\ S[i].at[1] # chunk
       /\ i < Len(S) /\ S[i + 1].kind = "dummy"
       /\ \A j \in 1 .. Len(S) : j > i => S[j].at[1] # S[i].at[1]

Housed(S, h, chunk, offset) ==
    /\ h[chunk] = "used" /\ offset >= 1
    /\ \A i \in 1 .. Len(S) : h[S[i].at[1]] = "used" /\ Passed(S[i].at, chunk, offset)
    /\ \A i, j \in 1 .. Len(S) : S[i].at = S[j].at => i = j

\* Between two messages the reader stands on a slot of its own; its chunk may
\* be stashed already if the dummy of the next chunk is in front of it.
Standing(S, h, chunk, offset, r, hand) ==
    /\ Passed(r, chunk, offset)
    /\ hand = 0 => /\ \A i \in 1 .. Len(S) : S[i].at # r
                   /\ \/ h[r[1]] = "used"
                      \/ h[r[1]] = "stash" /\ S # <<>> /\ S[1].kind = "dummy"

\* The data of the message at i is left behind by the switch just before the
\* message, if by any; once it is stashed the message is all but next.
Supplied(S, m, h, chunk, offset) ==
    \A i \in 1 .. Len(S) : S[i].data # NoSlot =>
       /\ S[i].kind = "work"
       /\ m[S[i].data].kind = "data" /\ m[S[i].data].body = S[i].body
       /\ Passed(S[i].data, chunk, offset)
       /\ \/ /\ h[S[i].data[1]] = "used"
             /\ \A j \in 1 .. i - 1 : S[j].kind = "switch" /\ S[j].at[1] = S[i].data[1] => j = i - 2
          \/ h[S[i].data[1]] = "stash" /\ (i = 1 \/ (i = 2 /\ S[1].kind = "dummy"))

\* Data that was allocated for the message to come.
Prepared(S, m, h, chunk, offset, d, body, pending) ==
    d # NoSlot =>
       /\ m[d].kind = "data" /\ m[d].body = body
       /\ h[d[1]] = "used" /\ Passed(d, chunk, offset)
       /\ d[1] # chunk => /\ offset = 1 /\ pending >= 2
                          /\ \A j \in 1 .. Len(S) : S[j].kind = "switch" /\ S[j].at[1] = d[1]
                                                    => j = Len(S) - 1

DataShape == data # NoSlot => wpc = "alloc" /\ call.op = "dataWork" /\ todo = <<"work">>

-----------------------------------------------------------------------------
Control == CallShape /\ Threads /\ WaitedFor(expect, wpc, call.op) /\ Signalled /\ Ended /\ DataShape
Account == Counted /\ Room /\ Waiting
Places ==
    wpc # "gone" =>
       /\ Switching(expect, writer.chunk)
       /\ Housed(expect, home, writer.chunk, writer.offset)
       /\ Standing(expect, home, writer.chunk, writer.offset, reader.last, InHand)
       /\ Supplied(expect, mem, home, writer.chunk, writer.offset)
       /\ Prepared(expect, mem, home, writer.chunk, writer.offset, data, call.body, writer.pending)
Chain == Linked(expect, mem, Here, writer.last, reader.last, InHand)

IInv == TypeOK /\ Control /\ Account /\ Chain /\ Places

-----------------------------------------------------------------------------
(* Slots, counts and sequences of entries. *)

\* A slot is a chunk and an offset; the absence of a slot is none.
LEMMA SlotFacts ==
    /\ NoSlot \notin Slots
    /\ \A s \in Slots : s[1] \in Chunks /\ s[2] \in 0 .. ChunkSlots - 1 /\ s = <<s[1], s[2]>>
    /\ \A c \in Chunks : \A o \in 0 .. ChunkSlots - 1 :
         <<c, o>> \in Slots /\ <<c, o>>[1] = c /\ <<c, o>>[2] = o
    /\ ChunkSlots \in Nat /\ ChunkSlots >= 3
  <1>1. NoSlot \notin Slots
    BY DEF NoSlot, Slots
  <1> QED
    BY <1>1, SizeAssumption DEF Slots

\* The width of the counts, and the limit under it.
LEMMA Sizes ==
    /\ CountModulus \in Nat /\ Limit \in Nat /\ Limit < CountModulus
    /\ MaxOutstanding \in Nat /\ Limit = MaxOutstanding + 6
  BY SizeAssumption DEF Limit

\* Counts that do not reach the modulus add up, wherever they have wrapped.
LEMMA CountFacts ==
    ASSUME NEW a \in Counts, NEW b \in Counts, NEW s \in Counts
    PROVE  /\ Plus(a, b) \in Counts /\ Minus(a, s) \in Counts
           /\ Minus(a, a) = 0 /\ Plus(a, 0) = a
           /\ a + b < CountModulus => Plus(a, b) = a + b
           /\ b <= a => Minus(a, b) = a - b
           /\ Minus(a, s) = 0 => a = s
           /\ Minus(a, s) + b < CountModulus => Minus(Plus(a, b), s) = Minus(a, s) + b
  BY Sizes DEF Counts, Plus, Minus

\* What the provers need of an entry's fields.
LEMMA Fields ==
    ASSUME NEW S \in Seq(Entries)
    PROVE  /\ Len(S) \in Nat
           /\ \A i \in 1 .. Len(S) :
                /\ S[i] \in Entries /\ S[i].at \in Slots /\ S[i].at[1] \in Chunks
                /\ S[i].kind \in MessageKinds
                /\ S[i].data # NoSlot => S[i].data \in Slots /\ S[i].data[1] \in Chunks
  <1>1. ASSUME NEW i \in 1 .. Len(S)
        PROVE  S[i] \in Entries
    OBVIOUS
  <1>2. \A e \in Entries : /\ e.at \in Slots /\ e.kind \in MessageKinds
                           /\ e.data # NoSlot => e.data \in Slots
    BY DEF Entries
  <1>3. Len(S) \in Nat
    OBVIOUS
  <1> QED
    BY <1>1, <1>2, <1>3, SlotFacts

LEMMA TailFacts ==
    ASSUME NEW S \in Seq(Entries), S # <<>>
    PROVE  /\ Tail(S) \in Seq(Entries) /\ Len(S) \in Nat \ {0} /\ Len(Tail(S)) = Len(S) - 1
           /\ \A i \in 1 .. Len(S) - 1 : Tail(S)[i] = S[i + 1]
           /\ Tail(S) = <<>> <=> Len(S) = 1
  <1>1. /\ Tail(S) \in Seq(Entries) /\ Len(S) \in Nat \ {0} /\ Len(Tail(S)) = Len(S) - 1
        /\ \A i \in 1 .. Len(S) - 1 : Tail(S)[i] = S[i + 1]
    OBVIOUS
  <1>2. Tail(S) = <<>> <=> Len(Tail(S)) = 0
    BY <1>1
  <1> QED
    BY <1>1, <1>2

LEMMA AppendFacts ==
    ASSUME NEW S \in Seq(Entries), NEW e \in Entries
    PROVE  /\ Append(S, e) \in Seq(Entries) /\ Len(S) \in Nat /\ Len(Append(S, e)) = Len(S) + 1
           /\ \A i \in 1 .. Len(S) : Append(S, e)[i] = S[i]
           /\ Append(S, e)[Len(S) + 1] = e /\ Append(S, e) # <<>>
           /\ S = <<>> <=> Len(S) = 0
  OBVIOUS

LEMMA AppendTwoFacts ==
    ASSUME NEW S \in Seq(Entries), NEW e \in Entries, NEW f \in Entries
    PROVE  /\ S \o <<e, f>> \in Seq(Entries) /\ Len(S) \in Nat /\ Len(S \o <<e, f>>) = Len(S) + 2
           /\ \A i \in 1 .. Len(S) : (S \o <<e, f>>)[i] = S[i]
           /\ (S \o <<e, f>>)[Len(S) + 1] = e /\ (S \o <<e, f>>)[Len(S) + 2] = f
           /\ S \o <<e, f>> # <<>>
           /\ S = <<>> <=> Len(S) = 0
  <1>1. <<e, f>> \in Seq(Entries) /\ Len(<<e, f>>) = 2 /\ <<e, f>>[1] = e /\ <<e, f>>[2] = f
    OBVIOUS
  <1>2. S \o <<e, f>> \in Seq(Entries) /\ Len(S \o <<e, f>>) = Len(S) + Len(<<e, f>>)
    BY <1>1
  <1>3. \A i \in 1 .. Len(S) + 2 : (S \o <<e, f>>)[i] = IF i <= Len(S) THEN S[i] ELSE <<e, f>>[i - Len(S)]
    BY <1>1
  <1> QED
    BY <1>1, <1>2, <1>3

-----------------------------------------------------------------------------
(* A message is executed: the reader leaves it and keeps standing on it. *)

LEMMA PopLinked ==
    ASSUME NEW S \in Seq(Entries), NEW m, NEW here, NEW last, NEW r, Linked(S, m, here, last, r, 1)
    PROVE  Linked(Tail(S), m, here, last, r, 0)
  <1>1. S # <<>> /\ r = S[1].at
    BY DEF Linked
  <1>2. m[r].next = After(Tail(S), here, 0)
    BY <1>1, TailFacts DEF Linked, After
  <1>3. \A i \in 1 .. Len(Tail(S)) : After(Tail(S), here, i) = After(S, here, i + 1)
    BY <1>1, TailFacts DEF After
  <1>4. \A i \in 1 .. Len(Tail(S)) : /\ Entry(Tail(S)[i].at, m[Tail(S)[i].at]) = Tail(S)[i]
                                     /\ m[Tail(S)[i].at].next = After(Tail(S), here, i)
    BY <1>1, <1>3, TailFacts DEF Linked
  <1>5. last = IF Tail(S) = <<>> THEN r ELSE Tail(S)[Len(Tail(S))].at
    BY <1>1, TailFacts DEF Linked
  <1> QED
    BY <1>2, <1>4, <1>5 DEF Linked

LEMMA PopSwitching ==
    ASSUME NEW S \in Seq(Entries), S # <<>>, NEW chunk, Switching(S, chunk)
    PROVE  Switching(Tail(S), chunk)
  <1> SUFFICES ASSUME NEW i \in 1 .. Len(Tail(S)), Tail(S)[i].kind = "switch"
               PROVE  /\ Tail(S)[i].at[1] # chunk
                      /\ i < Len(Tail(S)) /\ Tail(S)[i + 1].kind = "dummy"
                      /\ \A j \in 1 .. Len(Tail(S)) : j > i => Tail(S)[j].at[1] # Tail(S)[i].at[1]
    BY DEF Switching
  <1>1. i + 1 \in 1 .. Len(S) /\ S[i + 1].kind = "switch" /\ Tail(S)[i] = S[i + 1]
    BY TailFacts
  <1>2. /\ S[i + 1].at[1] # chunk /\ i + 1 < Len(S) /\ S[i + 2].kind = "dummy"
        /\ \A j \in 1 .. Len(S) : j > i + 1 => S[j].at[1] # S[i + 1].at[1]
    BY <1>1 DEF Switching
  <1> QED
    BY <1>1, <1>2, TailFacts

LEMMA PopHoused ==
    ASSUME NEW S \in Seq(Entries), S # <<>>, NEW h, NEW chunk, NEW offset,
           Housed(S, h, chunk, offset)
    PROVE  /\ Housed(Tail(S), h, chunk, offset)
           /\ Standing(Tail(S), h, chunk, offset, S[1].at, 0)
  <1>1. \A i \in 1 .. Len(Tail(S)) : i + 1 \in 1 .. Len(S) /\ Tail(S)[i] = S[i + 1]
    BY TailFacts
  <1>2. 1 \in 1 .. Len(S)
    BY TailFacts
  <1>3. Housed(Tail(S), h, chunk, offset)
    BY <1>1, TailFacts DEF Housed
  <1> QED
    BY <1>1, <1>2, <1>3, TailFacts DEF Housed, Standing

\* What was stashed is no longer needed once the message behind the dummy is
\* executed.
LEMMA PopSupplied ==
    ASSUME NEW S \in Seq(Entries), S # <<>>, NEW m, NEW h, NEW chunk, NEW offset,
           Supplied(S, m, h, chunk, offset)
    PROVE  Supplied(Tail(S), m, h, chunk, offset)
  <1> SUFFICES ASSUME NEW i \in 1 .. Len(Tail(S)), Tail(S)[i].data # NoSlot
               PROVE  /\ Tail(S)[i].kind = "work"
                      /\ m[Tail(S)[i].data].kind = "data" /\ m[Tail(S)[i].data].body = Tail(S)[i].body
                      /\ Passed(Tail(S)[i].data, chunk, offset)
                      /\ \/ /\ h[Tail(S)[i].data[1]] = "used"
                            /\ \A j \in 1 .. i - 1 :
                                 Tail(S)[j].kind = "switch" /\ Tail(S)[j].at[1] = Tail(S)[i].data[1]
                                 => j = i - 2
                         \/ /\ h[Tail(S)[i].data[1]] = "stash"
                            /\ i = 1 \/ (i = 2 /\ Tail(S)[1].kind = "dummy")
    BY DEF Supplied
  <1>1. i + 1 \in 1 .. Len(S) /\ Tail(S)[i] = S[i + 1]
    BY TailFacts
  <1>2. /\ S[i + 1].kind = "work"
        /\ m[S[i + 1].data].kind = "data" /\ m[S[i + 1].data].body = S[i + 1].body
        /\ Passed(S[i + 1].data, chunk, offset)
    BY <1>1 DEF Supplied
  <1>3. CASE h[S[i + 1].data[1]] = "used"
    <2>1. \A j \in 1 .. i : S[j].kind = "switch" /\ S[j].at[1] = S[i + 1].data[1] => j = i - 1
      BY <1>1, <1>3 DEF Supplied
    <2>2. \A j \in 1 .. i - 1 : j + 1 \in 1 .. i /\ Tail(S)[j] = S[j + 1]
      BY TailFacts
    <2> QED
      BY <1>1, <1>2, <1>3, <2>1, <2>2
  <1>4. CASE h[S[i + 1].data[1]] # "used"
    <2>1. h[S[i + 1].data[1]] = "stash" /\ (i + 1 = 1 \/ (i + 1 = 2 /\ S[1].kind = "dummy"))
      BY <1>1, <1>4 DEF Supplied
    <2> QED
      BY <1>1, <1>2, <2>1, TailFacts
  <1> QED
    BY <1>3, <1>4

LEMMA PopPrepared ==
    ASSUME NEW S \in Seq(Entries), S # <<>>, NEW m, NEW h, NEW chunk, NEW offset, NEW d, NEW body,
           NEW pending, Prepared(S, m, h, chunk, offset, d, body, pending)
    PROVE  Prepared(Tail(S), m, h, chunk, offset, d, body, pending)
  <1>1. \A j \in 1 .. Len(Tail(S)) : j + 1 \in 1 .. Len(S) /\ Tail(S)[j] = S[j + 1]
    BY TailFacts
  <1>2. ASSUME d # NoSlot, d[1] # chunk
        PROVE  \A j \in 1 .. Len(Tail(S)) : Tail(S)[j].kind = "switch" /\ Tail(S)[j].at[1] = d[1]
                                            => j = Len(Tail(S)) - 1
    BY <1>1, <1>2, TailFacts DEF Prepared
  <1> QED
    BY <1>2 DEF Prepared

-----------------------------------------------------------------------------
(* A switch is executed: its chunk is stashed behind the reader. *)

LEMMA LeaveHoused ==
    ASSUME NEW S \in Seq(Entries), S # <<>>, S[1].kind = "switch",
           NEW h, NEW g, NEW chunk \in Chunks, NEW offset,
           Switching(S, chunk), Housed(S, h, chunk, offset),
           g[S[1].at[1]] = "stash", \A c \in Chunks : c # S[1].at[1] => g[c] = h[c]
    PROVE  /\ Housed(Tail(S), g, chunk, offset)
           /\ Standing(Tail(S), g, chunk, offset, S[1].at, 0)
  <1>1. \A i \in 1 .. Len(Tail(S)) : i + 1 \in 1 .. Len(S) /\ Tail(S)[i] = S[i + 1]
    BY TailFacts
  <1>2. 1 \in 1 .. Len(S) /\ S[1].at[1] # chunk /\ 1 < Len(S) /\ S[2].kind = "dummy"
    BY TailFacts DEF Switching
  <1>3. \A i \in 1 .. Len(Tail(S)) : Tail(S)[i].at[1] # S[1].at[1] /\ Tail(S)[i].at[1] \in Chunks
    BY <1>1, <1>2, Fields, TailFacts DEF Switching
  <1>4. Housed(Tail(S), g, chunk, offset)
    <2>1. g[chunk] = "used" /\ offset >= 1
      BY <1>2 DEF Housed
    <2>2. ASSUME NEW i \in 1 .. Len(Tail(S))
          PROVE  g[Tail(S)[i].at[1]] = "used" /\ Passed(Tail(S)[i].at, chunk, offset)
      BY <1>1, <1>3 DEF Housed
    <2>3. ASSUME NEW i \in 1 .. Len(Tail(S)), NEW j \in 1 .. Len(Tail(S)),
                 Tail(S)[i].at = Tail(S)[j].at
          PROVE  i = j
      <3>1. i + 1 = j + 1
        BY <1>1, <2>3 DEF Housed
      <3> QED
        BY <3>1, TailFacts
    <2> QED
      BY <2>1, <2>2, <2>3 DEF Housed
  <1>5. \A i \in 1 .. Len(Tail(S)) : Tail(S)[i].at # S[1].at
    BY <1>3
  <1>6. Tail(S) # <<>> /\ Tail(S)[1].kind = "dummy"
    BY <1>1, <1>2, TailFacts
  <1> QED
    BY <1>2, <1>4, <1>5, <1>6 DEF Housed, Standing

LEMMA LeaveSupplied ==
    ASSUME NEW S \in Seq(Entries), S # <<>>, S[1].kind = "switch",
           NEW m, NEW h, NEW g, NEW chunk, NEW offset,
           Switching(S, chunk), Supplied(S, m, h, chunk, offset),
           g[S[1].at[1]] = "stash", \A c \in Chunks : c # S[1].at[1] => g[c] = h[c]
    PROVE  Supplied(Tail(S), m, g, chunk, offset)
  <1> SUFFICES ASSUME NEW i \in 1 .. Len(Tail(S)), Tail(S)[i].data # NoSlot
               PROVE  /\ Tail(S)[i].kind = "work"
                      /\ m[Tail(S)[i].data].kind = "data" /\ m[Tail(S)[i].data].body = Tail(S)[i].body
                      /\ Passed(Tail(S)[i].data, chunk, offset)
                      /\ \/ /\ g[Tail(S)[i].data[1]] = "used"
                            /\ \A j \in 1 .. i - 1 :
                                 Tail(S)[j].kind = "switch" /\ Tail(S)[j].at[1] = Tail(S)[i].data[1]
                                 => j = i - 2
                         \/ /\ g[Tail(S)[i].data[1]] = "stash"
                            /\ i = 1 \/ (i = 2 /\ Tail(S)[1].kind = "dummy")
    BY DEF Supplied
  <1>1. i + 1 \in 1 .. Len(S) /\ Tail(S)[i] = S[i + 1] /\ S[i + 1].data[1] \in Chunks
    BY TailFacts, Fields
  <1>2. /\ S[i + 1].kind = "work"
        /\ m[S[i + 1].data].kind = "data" /\ m[S[i + 1].data].body = S[i + 1].body
        /\ Passed(S[i + 1].data, chunk, offset)
    BY <1>1 DEF Supplied
  <1>3. h[S[i + 1].data[1]] = "used"
    BY <1>1, <1>2, TailFacts DEF Supplied
  <1>4. \A j \in 1 .. i : S[j].kind = "switch" /\ S[j].at[1] = S[i + 1].data[1] => j = i - 1
    BY <1>1, <1>3 DEF Supplied
  <1>5. 1 \in 1 .. Len(S) /\ Len(S) > 1 /\ S[2].kind = "dummy" /\ Tail(S)[1] = S[2]
    BY TailFacts DEF Switching
  <1>6. CASE S[i + 1].data[1] = S[1].at[1]
    <2>1. 1 = i - 1
      BY <1>4, <1>6, TailFacts
    <2> QED
      BY <1>1, <1>2, <1>5, <1>6, <2>1
  <1>7. CASE S[i + 1].data[1] # S[1].at[1]
    <2>1. \A j \in 1 .. i - 1 : j + 1 \in 1 .. i /\ Tail(S)[j] = S[j + 1]
      BY TailFacts
    <2>2. g[S[i + 1].data[1]] = "used"
      BY <1>1, <1>3, <1>7
    <2> QED
      BY <1>1, <1>2, <1>4, <2>1, <2>2
  <1> QED
    BY <1>6, <1>7

\* The switch that closes the chunk of data still to be sent is not published.
LEMMA LeavePrepared ==
    ASSUME NEW S \in Seq(Entries), S # <<>>, S[1].kind = "switch",
           NEW m, NEW h, NEW g, NEW chunk, NEW offset, NEW d \in Slots \cup {NoSlot}, NEW body,
           NEW pending \in Nat, pending < Len(S),
           Switching(S, chunk), Prepared(S, m, h, chunk, offset, d, body, pending),
           g[S[1].at[1]] = "stash", \A c \in Chunks : c # S[1].at[1] => g[c] = h[c]
    PROVE  Prepared(Tail(S), m, g, chunk, offset, d, body, pending)
  <1> SUFFICES ASSUME d # NoSlot
               PROVE  Prepared(Tail(S), m, g, chunk, offset, d, body, pending)
    BY DEF Prepared
  <1>1. d[1] \in Chunks
    BY SlotFacts
  <1>2. 1 \in 1 .. Len(S) /\ S[1].at[1] # chunk
    BY TailFacts DEF Switching
  <1>3. d[1] # S[1].at[1]
    BY <1>2, TailFacts DEF Prepared
  <1>4. Prepared(Tail(S), m, h, chunk, offset, d, body, pending)
    BY PopPrepared
  <1> QED
    BY <1>1, <1>3, <1>4 DEF Prepared

-----------------------------------------------------------------------------
(* A message is written: the cell at the writer's position is the last. *)

\* What the queue points to is not where the writer is.
LEMMA NotHere ==
    ASSUME NEW S \in Seq(Entries), NEW h, NEW chunk \in Chunks, NEW offset \in 0 .. ChunkSlots - 1,
           NEW r \in Slots, NEW hand, Housed(S, h, chunk, offset), Standing(S, h, chunk, offset, r, hand)
    PROVE  /\ \A i \in 1 .. Len(S) : S[i].at # <<chunk, offset>>
           /\ r # <<chunk, offset>>
           /\ \A d \in Slots : Passed(d, chunk, offset) => d # <<chunk, offset>>
  <1>1. \A d \in Slots : Passed(d, chunk, offset) => d # <<chunk, offset>>
    BY SlotFacts DEF Passed
  <1> QED
    BY <1>1, Fields DEF Housed, Standing

LEMMA AppendLinked ==
    ASSUME NEW S \in Seq(Entries), NEW e \in Entries, NEW m, NEW n, NEW here \in Slots, NEW there,
           NEW last, NEW r, NEW hand, Linked(S, m, here, last, r, hand),
           r \in Slots, \A s \in Slots : s # here => n[s] = m[s],
           e = Entry(here, n[here]), n[here].next = there,
           \A i \in 1 .. Len(S) : S[i].at # here, hand = 0 => r # here
    PROVE  Linked(Append(S, e), n, there, here, r, hand)
  <1> DEFINE T == Append(S, e)
  <1>1. /\ Len(T) = Len(S) + 1 /\ Len(S) \in Nat /\ T # <<>>
        /\ \A i \in 1 .. Len(S) : T[i] = S[i]
        /\ T[Len(S) + 1] = e
        /\ S = <<>> <=> Len(S) = 0
    BY AppendFacts
  <1>2. e.at = here
    BY DEF Entry
  <1> HIDE DEF T
  <1>3. /\ \A i \in 0 .. Len(S) : After(T, there, i) = After(S, here, i)
        /\ After(T, there, Len(S) + 1) = there
    BY <1>1, <1>2 DEF After
  <1>4. ASSUME NEW i \in 1 .. Len(T)
        PROVE  Entry(T[i].at, n[T[i].at]) = T[i] /\ n[T[i].at].next = After(T, there, i)
    <2>1. CASE i = Len(S) + 1
      BY <1>1, <1>2, <1>3, <2>1
    <2>2. CASE i # Len(S) + 1
      <3>1. i \in 1 .. Len(S) /\ T[i] = S[i] /\ S[i].at \in Slots /\ n[S[i].at] = m[S[i].at]
        BY <1>1, <2>2, Fields
      <3> QED
        BY <1>3, <3>1 DEF Linked
    <2> QED
      BY <2>1, <2>2
  <1>5. hand = 1 => T # <<>> /\ r = T[1].at
    BY <1>1 DEF Linked
  <1>6. hand = 0 => n[r].next = After(T, there, 0)
    BY <1>1, <1>3 DEF Linked
  <1>7. here = T[Len(T)].at
    BY <1>1, <1>2
  <1> QED
    BY <1>1, <1>4, <1>5, <1>6, <1>7 DEF Linked, T

LEMMA AppendPlaced ==
    ASSUME NEW S \in Seq(Entries), NEW e \in Entries, NEW h, NEW chunk \in Chunks,
           NEW offset \in 0 .. ChunkSlots - 1, NEW r \in Slots, NEW hand,
           e.at = <<chunk, offset>>, e.kind # "switch",
           Switching(S, chunk), Housed(S, h, chunk, offset), Standing(S, h, chunk, offset, r, hand)
    PROVE  /\ Switching(Append(S, e), chunk)
           /\ Housed(Append(S, e), h, chunk, offset + 1)
           /\ Standing(Append(S, e), h, chunk, offset + 1, r, hand)
  <1> DEFINE T == Append(S, e)
  <1>1. /\ Len(T) = Len(S) + 1 /\ Len(S) \in Nat /\ T # <<>>
        /\ \A i \in 1 .. Len(S) : T[i] = S[i]
        /\ T[Len(S) + 1] = e
        /\ S # <<>> => Len(S) > 0
    BY AppendFacts
  <1>2. /\ \A i \in 1 .. Len(S) : S[i].at # <<chunk, offset>> /\ S[i].at \in Slots
        /\ r # <<chunk, offset>>
    BY NotHere, Fields
  <1>e. e.at[1] = chunk /\ e.at[2] = offset
    BY SlotFacts
  <1> HIDE DEF T
  <1>3. \A s \in Slots : Passed(s, chunk, offset) => Passed(s, chunk, offset + 1)
    BY SlotFacts DEF Passed
  <1>4. Switching(T, chunk)
    <2>1. ASSUME NEW i \in 1 .. Len(T), T[i].kind = "switch"
          PROVE  /\ T[i].at[1] # chunk
                 /\ i < Len(T) /\ T[i + 1].kind = "dummy"
                 /\ \A j \in 1 .. Len(T) : j > i => T[j].at[1] # T[i].at[1]
      <3>1. i \in 1 .. Len(S) /\ S[i].kind = "switch"
        BY <1>1, <2>1
      <3>2. /\ S[i].at[1] # chunk /\ i < Len(S) /\ S[i + 1].kind = "dummy"
            /\ \A j \in 1 .. Len(S) : j > i => S[j].at[1] # S[i].at[1]
        BY <3>1 DEF Switching
      <3>3. i + 1 \in 1 .. Len(S)
        BY <3>1, <3>2, <1>1
      <3>4. ASSUME NEW j \in 1 .. Len(T), j > i
            PROVE  T[j].at[1] # T[i].at[1]
        <4>1. CASE j = Len(S) + 1
          BY <1>1, <1>e, <3>1, <3>2, <4>1
        <4>2. CASE j # Len(S) + 1
          BY <1>1, <3>1, <3>2, <3>4, <4>2, SMTT(30)
        <4> QED
          BY <4>1, <4>2
      <3> QED
        BY <1>1, <3>1, <3>2, <3>3, <3>4
    <2> QED
      BY <2>1 DEF Switching
  <1>5. Housed(T, h, chunk, offset + 1)
    <2>1. h[chunk] = "used" /\ offset + 1 >= 1
      BY DEF Housed
    <2>2. ASSUME NEW i \in 1 .. Len(T)
          PROVE  h[T[i].at[1]] = "used" /\ Passed(T[i].at, chunk, offset + 1)
      <3>1. CASE i = Len(S) + 1
        BY <1>1, <1>e, <2>1, <3>1 DEF Passed
      <3>2. CASE i # Len(S) + 1
        BY <1>1, <1>2, <1>3, <3>2 DEF Housed
      <3> QED
        BY <3>1, <3>2
    <2>3. ASSUME NEW i \in 1 .. Len(T), NEW j \in 1 .. Len(T), T[i].at = T[j].at
          PROVE  i = j
      BY <1>1, <1>2, <2>3 DEF Housed
    <2> QED
      BY <2>1, <2>2, <2>3 DEF Housed
  <1>6. Standing(T, h, chunk, offset + 1, r, hand)
    <2>1. Passed(r, chunk, offset + 1)
      BY <1>3 DEF Standing
    <2>2. ASSUME hand = 0
          PROVE  /\ \A i \in 1 .. Len(T) : T[i].at # r
                 /\ h[r[1]] = "used" \/ (h[r[1]] = "stash" /\ T # <<>> /\ T[1].kind = "dummy")
      <3>1. ASSUME NEW i \in 1 .. Len(T)
            PROVE  T[i].at # r
        <4>1. CASE i = Len(S) + 1
          BY <1>1, <1>2, <4>1
        <4>2. CASE i # Len(S) + 1
          BY <1>1, <2>2, <4>2 DEF Standing
        <4> QED
          BY <4>1, <4>2
      <3>2. h[r[1]] = "used" \/ (h[r[1]] = "stash" /\ T # <<>> /\ T[1].kind = "dummy")
        <4>1. S # <<>> => T[1] = S[1]
          BY <1>1
        <4> QED
          BY <1>1, <2>2, <4>1 DEF Standing
      <3> QED
        BY <3>1, <3>2
    <2> QED
      BY <2>1, <2>2 DEF Standing
  <1> QED
    BY <1>4, <1>5, <1>6 DEF T

\* The new message takes the data prepared for it.
LEMMA AppendSupplied ==
    ASSUME NEW S \in Seq(Entries), NEW e \in Entries, NEW m, NEW n, NEW h, NEW chunk \in Chunks,
           NEW offset \in 0 .. ChunkSlots - 1, NEW d \in Slots \cup {NoSlot}, NEW body, NEW pending,
           \A s \in Slots : s # <<chunk, offset>> => n[s] = m[s],
           e.data = d, d # NoSlot => e.kind = "work" /\ e.body = body,
           Switching(S, chunk), Supplied(S, m, h, chunk, offset),
           Prepared(S, m, h, chunk, offset, d, body, pending)
    PROVE  Supplied(Append(S, e), n, h, chunk, offset + 1)
  <1> DEFINE T == Append(S, e)
  <1>1. /\ Len(T) = Len(S) + 1 /\ Len(S) \in Nat
        /\ \A i \in 1 .. Len(S) : T[i] = S[i]
        /\ T[Len(S) + 1] = e
    BY AppendFacts
  <1> HIDE DEF T
  <1>2. \A s \in Slots : Passed(s, chunk, offset) => Passed(s, chunk, offset + 1) /\ n[s] = m[s]
    BY SlotFacts DEF Passed
  <1>3. ASSUME NEW i \in 1 .. Len(T), T[i].data # NoSlot
        PROVE  /\ T[i].kind = "work"
               /\ n[T[i].data].kind = "data" /\ n[T[i].data].body = T[i].body
               /\ Passed(T[i].data, chunk, offset + 1)
               /\ \/ /\ h[T[i].data[1]] = "used"
                     /\ \A j \in 1 .. i - 1 : T[j].kind = "switch" /\ T[j].at[1] = T[i].data[1]
                                              => j = i - 2
                  \/ h[T[i].data[1]] = "stash" /\ (i = 1 \/ (i = 2 /\ T[1].kind = "dummy"))
    <2>1. CASE i = Len(S) + 1
      <3>1. T[i] = e /\ d # NoSlot /\ d \in Slots
        BY <1>1, <1>3, <2>1
      <3>2. /\ m[d].kind = "data" /\ m[d].body = body /\ h[d[1]] = "used"
            /\ Passed(d, chunk, offset)
        BY <3>1 DEF Prepared
      <3>3. \A j \in 1 .. i - 1 : T[j].kind = "switch" /\ T[j].at[1] = d[1] => j = i - 2
        BY <1>1, <2>1, <3>1 DEF Prepared, Switching
      <3> QED
        BY <1>2, <3>1, <3>2, <3>3
    <2>2. CASE i # Len(S) + 1
      <3>1. i \in 1 .. Len(S) /\ T[i] = S[i] /\ S[i].data \in Slots /\ Len(S) >= 1
        BY <1>1, <1>3, <2>2, Fields
      <3>2. \A j \in 1 .. i : j \in 1 .. Len(S) /\ T[j] = S[j]
        BY <1>1, <3>1
      <3>3. 1 \in 1 .. i
        BY <3>1
      <3> QED
        BY <1>2, <1>3, <3>1, <3>2, <3>3, SMTT(30) DEF Supplied
    <2> QED
      BY <2>1, <2>2
  <1> QED
    BY <1>3 DEF Supplied, T

-----------------------------------------------------------------------------
(* Data is written: the last message now leads past it. *)

LEMMA DataLinked ==
    ASSUME NEW S \in Seq(Entries), NEW m, NEW n, NEW here \in Slots, NEW there, NEW last \in Slots,
           NEW r \in Slots, NEW hand \in {0, 1}, Linked(S, m, here, last, r, hand),
           \A s \in Slots : s # here /\ s # last => n[s] = m[s],
           n[last].kind = m[last].kind, n[last].body = m[last].body,
           n[last].data = m[last].data, n[last].next = there,
           \A i \in 1 .. Len(S) : S[i].at # here, hand = 0 => r # here,
           \A i, j \in 1 .. Len(S) : S[i].at = S[j].at => i = j,
           hand = 0 => \A i \in 1 .. Len(S) : S[i].at # r
    PROVE  Linked(S, n, there, last, r, hand)
  <1>1. Len(S) \in Nat /\ (S = <<>> <=> Len(S) = 0)
    OBVIOUS
  <1>2. ASSUME NEW i \in 1 .. Len(S)
        PROVE  Entry(S[i].at, n[S[i].at]) = S[i] /\ n[S[i].at].next = After(S, there, i)
    <2>1. S[i].at \in Slots /\ Entry(S[i].at, m[S[i].at]) = S[i]
          /\ m[S[i].at].next = After(S, here, i)
      BY Fields DEF Linked
    <2>2. CASE i = Len(S)
      <3>1. S[i].at = last /\ After(S, there, i) = there
        BY <1>1, <2>2 DEF Linked, After
      <3> QED
        BY <2>1, <3>1 DEF Entry
    <2>3. CASE i # Len(S)
      <3>1. Len(S) \in 1 .. Len(S) /\ last = S[Len(S)].at
        BY <1>1, <2>3 DEF Linked
      <3>2. S[i].at # last
        BY <2>3, <3>1
      <3>3. After(S, there, i) = After(S, here, i)
        BY <1>1, <2>3 DEF After
      <3> QED
        BY <2>1, <3>2, <3>3
    <2> QED
      BY <2>2, <2>3
  <1>3. ASSUME hand = 0
        PROVE  n[r].next = After(S, there, 0)
    <2>1. CASE S = <<>>
      BY <1>1, <2>1 DEF Linked, After
    <2>2. CASE S # <<>>
      <3>1. Len(S) \in 1 .. Len(S) /\ last = S[Len(S)].at /\ r # last
        BY <1>1, <1>3, <2>2 DEF Linked
      <3>2. n[r] = m[r] /\ After(S, there, 0) = After(S, here, 0)
        BY <1>1, <1>3, <2>2, <3>1 DEF After
      <3> QED
        BY <1>3, <3>2 DEF Linked
    <2> QED
      BY <2>1, <2>2
  <1> QED
    BY <1>2, <1>3 DEF Linked

\* The writer passes one more slot.
LEMMA PassPlaced ==
    ASSUME NEW S \in Seq(Entries), NEW h, NEW chunk, NEW offset \in 0 .. ChunkSlots - 1,
           NEW r \in Slots, NEW hand,
           Housed(S, h, chunk, offset), Standing(S, h, chunk, offset, r, hand)
    PROVE  /\ Housed(S, h, chunk, offset + 1)
           /\ Standing(S, h, chunk, offset + 1, r, hand)
  <1>1. \A s \in Slots : Passed(s, chunk, offset) => Passed(s, chunk, offset + 1)
    BY SlotFacts DEF Passed
  <1>2. \A i \in 1 .. Len(S) : S[i].at \in Slots
    BY Fields
  <1>3. offset + 1 >= 1
    BY SlotFacts
  <1>4. Housed(S, h, chunk, offset + 1)
    BY <1>1, <1>2, <1>3 DEF Housed
  <1> QED
    BY <1>1, <1>4 DEF Standing

\* Data stays where it is while cells and chunks that hold none of it change,
\* and messages without data are written.
LEMMA SuppliedKept ==
    ASSUME NEW S \in Seq(Entries), NEW T \in Seq(Entries), NEW m, NEW n, NEW h, NEW g,
           NEW chunk, NEW offset, NEW chunk2, NEW offset2,
           Supplied(S, m, h, chunk, offset),
           Len(S) <= Len(T), \A i \in 1 .. Len(S) : T[i] = S[i],
           \A i \in 1 .. Len(T) : i > Len(S) => T[i].data = NoSlot,
           \A s \in Slots : h[s[1]] \in {"used", "stash"} /\ Passed(s, chunk, offset) =>
              /\ n[s].kind = m[s].kind /\ n[s].body = m[s].body
              /\ g[s[1]] = h[s[1]] /\ Passed(s, chunk2, offset2)
    PROVE  Supplied(T, n, g, chunk2, offset2)
  <1>1. Len(S) \in Nat /\ Len(T) \in Nat
    OBVIOUS
  <1>2. ASSUME NEW i \in 1 .. Len(T), T[i].data # NoSlot
        PROVE  /\ T[i].kind = "work"
               /\ n[T[i].data].kind = "data" /\ n[T[i].data].body = T[i].body
               /\ Passed(T[i].data, chunk2, offset2)
               /\ \/ /\ g[T[i].data[1]] = "used"
                     /\ \A j \in 1 .. i - 1 : T[j].kind = "switch" /\ T[j].at[1] = T[i].data[1]
                                              => j = i - 2
                  \/ g[T[i].data[1]] = "stash" /\ (i = 1 \/ (i = 2 /\ T[1].kind = "dummy"))
    <2>1. i \in 1 .. Len(S) /\ T[i] = S[i] /\ S[i].data \in Slots
      BY <1>1, <1>2, Fields
    <2>2. /\ S[i].kind = "work" /\ h[S[i].data[1]] \in {"used", "stash"}
          /\ Passed(S[i].data, chunk, offset)
          /\ m[S[i].data].kind = "data" /\ m[S[i].data].body = S[i].body
      BY <1>2, <2>1 DEF Supplied
    <2>3. /\ n[S[i].data].kind = "data" /\ n[S[i].data].body = S[i].body
          /\ g[S[i].data[1]] = h[S[i].data[1]] /\ Passed(S[i].data, chunk2, offset2)
      BY <2>1, <2>2
    <2>4. \A j \in 1 .. i : T[j] = S[j]
      BY <1>1, <2>1
    <2>5. 1 \in 1 .. i
      BY <2>1
    <2> QED
      BY <1>2, <2>1, <2>2, <2>3, <2>4, <2>5 DEF Supplied
  <1> QED
    BY <1>2 DEF Supplied

-----------------------------------------------------------------------------
(* The writer goes on in a new chunk. *)

\* A chunk that is neither in use nor stashed holds nothing of the queue.
LEMMA FreshFacts ==
    ASSUME NEW S \in Seq(Entries), NEW h, NEW chunk \in Chunks, NEW offset, NEW r \in Slots,
           NEW c \in Chunks, NEW hand \in {0, 1}, Housed(S, h, chunk, offset), hand = 1 => S # <<>> /\ r = S[1].at,
           Standing(S, h, chunk, offset, r, hand), h[c] # "used", h[c] # "stash"
    PROVE  c # chunk /\ r[1] # c /\ \A i \in 1 .. Len(S) : S[i].at[1] # c
  <1>1. c # chunk /\ \A i \in 1 .. Len(S) : S[i].at[1] # c
    BY DEF Housed
  <1>2. hand = 0 => r[1] # c
    BY DEF Standing
  <1>3. S # <<>> => 1 \in 1 .. Len(S)
    BY TailFacts
  <1> QED
    BY <1>1, <1>2, <1>3

\* T is S with the switch e, which closes the chunk, and the dummy f, which
\* opens the chunk c.
Opening(S, T, e, f, m, n, h, g, chunk, offset, c) ==
    /\ S \in Seq(Entries) /\ e \in Entries /\ f \in Entries /\ T = S \o <<e, f>>
    /\ chunk \in Chunks /\ offset \in 0 .. ChunkSlots - 1 /\ c \in Chunks
    /\ h[c] # "used" /\ h[c] # "stash" /\ g[c] = "used" /\ \A d \in Chunks : d # c => g[d] = h[d]
    /\ e.kind = "switch" /\ e.at = <<chunk, offset>> /\ e.data = NoSlot
    /\ f.kind = "dummy" /\ f.at = <<c, 0>> /\ f.data = NoSlot
    /\ \A s \in Slots : s # <<chunk, offset>> /\ s # <<c, 0>> => n[s] = m[s]
    /\ e = Entry(<<chunk, offset>>, n[<<chunk, offset>>]) /\ n[<<chunk, offset>>].next = <<c, 0>>
    /\ f = Entry(<<c, 0>>, n[<<c, 0>>]) /\ n[<<c, 0>>].next = <<c, 1>>

LEMMA OpenLinked ==
    ASSUME NEW S, NEW T, NEW e, NEW f, NEW m, NEW n, NEW h, NEW g, NEW chunk, NEW offset, NEW c,
           NEW last, NEW r, NEW hand,
           Opening(S, T, e, f, m, n, h, g, chunk, offset, c),
           Linked(S, m, <<chunk, offset>>, last, r, hand),
           Housed(S, h, chunk, offset), Standing(S, h, chunk, offset, r, hand),
           r \in Slots, hand \in {0, 1}
    PROVE  Linked(T, n, <<c, 1>>, <<c, 0>>, r, hand)
  <1> DEFINE here == <<chunk, offset>>
             there == <<c, 0>>
             k == [s \in Slots |-> IF s = there THEN m[s] ELSE n[s]]
             R == Append(S, e)
  <1>1. /\ S \in Seq(Entries) /\ e \in Entries /\ f \in Entries /\ T = S \o <<e, f>>
        /\ chunk \in Chunks /\ offset \in 0 .. ChunkSlots - 1 /\ c \in Chunks
        /\ h[c] # "used" /\ h[c] # "stash"
        /\ e.at = here /\ f.at = there
        /\ \A s \in Slots : s # here /\ s # there => n[s] = m[s]
        /\ e = Entry(here, n[here]) /\ n[here].next = there
        /\ f = Entry(there, n[there]) /\ n[there].next = <<c, 1>>
    BY DEF Opening
  <1>2. here \in Slots /\ there \in Slots /\ here[1] = chunk /\ there[1] = c
    BY <1>1, SlotFacts
  <1>3. hand = 1 => S # <<>> /\ r = S[1].at
    BY DEF Linked
  <1>4. c # chunk /\ r[1] # c /\ \A i \in 1 .. Len(S) : S[i].at[1] # c
    BY <1>1, <1>3, FreshFacts
  <1>5. (\A i \in 1 .. Len(S) : S[i].at # here) /\ r # here
    BY <1>1, NotHere
  <1>6. here # there /\ r # there /\ \A i \in 1 .. Len(S) : S[i].at # there
    BY <1>2, <1>4
  <1>7. /\ \A s \in Slots : s # here => k[s] = m[s]
        /\ \A s \in Slots : s # there => n[s] = k[s]
        /\ k[here] = n[here]
    BY <1>1, <1>2, <1>6
  <1>8. /\ e = Entry(here, k[here]) /\ k[here].next = there /\ Linked(S, m, here, last, r, hand)
        /\ S \in Seq(Entries) /\ e \in Entries /\ here \in Slots /\ r \in Slots
        /\ hand = 0 => r # here
        /\ \A s \in Slots : s # here => k[s] = m[s]
    BY <1>1, <1>2, <1>5, <1>7
  <1> HIDE DEF k, here, there
  <1>9. Linked(R, k, there, here, r, hand)
    BY <1>5, <1>8, AppendLinked
  <1>10. R \in Seq(Entries) /\ \A i \in 1 .. Len(R) : R[i].at # there
    BY <1>1, <1>6, AppendFacts
  <1> HIDE DEF R
  <1>11. Linked(Append(R, f), n, <<c, 1>>, there, r, hand)
    <2>1. /\ f = Entry(there, n[there]) /\ n[there].next = <<c, 1>>
          /\ f \in Entries /\ there \in Slots /\ r \in Slots
          /\ hand = 0 => r # there
          /\ \A s \in Slots : s # there => n[s] = k[s]
      BY <1>1, <1>2, <1>6, <1>7
    <2> QED
      BY <1>9, <1>10, <2>1, AppendLinked
  <1>12. T = Append(R, f)
    BY <1>1 DEF R
  <1> QED
    BY <1>11, <1>12 DEF there

LEMMA OpenPlaced ==
    ASSUME NEW S, NEW T, NEW e, NEW f, NEW m, NEW n, NEW h, NEW g, NEW chunk, NEW offset, NEW c,
           NEW r, NEW hand, Opening(S, T, e, f, m, n, h, g, chunk, offset, c),
           Switching(S, chunk), Housed(S, h, chunk, offset), Standing(S, h, chunk, offset, r, hand),
           r \in Slots, hand \in {0, 1}, hand = 1 => S # <<>> /\ r = S[1].at
    PROVE  /\ Switching(T, c)
           /\ Housed(T, g, c, 1)
           /\ Standing(T, g, c, 1, r, hand)
  <1>o. /\ S \in Seq(Entries) /\ e \in Entries /\ f \in Entries /\ T = S \o <<e, f>>
        /\ chunk \in Chunks /\ offset \in 0 .. ChunkSlots - 1 /\ c \in Chunks
        /\ h[c] # "used" /\ h[c] # "stash" /\ g[c] = "used" /\ \A d \in Chunks : d # c => g[d] = h[d]
        /\ e.kind = "switch" /\ e.at = <<chunk, offset>> /\ f.kind = "dummy" /\ f.at = <<c, 0>>
    BY DEF Opening
  <1>1. /\ Len(T) = Len(S) + 2 /\ Len(S) \in Nat /\ T # <<>>
        /\ \A i \in 1 .. Len(S) : T[i] = S[i]
        /\ T[Len(S) + 1] = e /\ T[Len(S) + 2] = f
        /\ S # <<>> => Len(S) > 0
    BY <1>o, AppendTwoFacts
  <1>2. /\ \A i \in 1 .. Len(S) : S[i].at # <<chunk, offset>> /\ S[i].at \in Slots /\ S[i].at[1] \in Chunks
        /\ r # <<chunk, offset>>
    BY <1>o, NotHere, Fields
  <1>3. c # chunk /\ r[1] # c /\ \A i \in 1 .. Len(S) : S[i].at[1] # c
    BY <1>o, FreshFacts
  <1>4. e.at[1] = chunk /\ e.at[2] = offset /\ f.at[1] = c /\ f.at[2] = 0
    BY <1>o, SlotFacts
  <1>5. \A i \in 1 .. Len(T) : i = Len(S) + 1 \/ i = Len(S) + 2 \/ i \in 1 .. Len(S)
    BY <1>1
  <1>6. Switching(T, c)
    <2>1. ASSUME NEW i \in 1 .. Len(T), T[i].kind = "switch"
          PROVE  /\ T[i].at[1] # c
                 /\ i < Len(T) /\ T[i + 1].kind = "dummy"
                 /\ \A j \in 1 .. Len(T) : j > i => T[j].at[1] # T[i].at[1]
      <3>1. CASE i = Len(S) + 1
        BY <1>1, <1>3, <1>4, <1>o, <3>1
      <3>2. CASE i \in 1 .. Len(S)
        <4>1. /\ T[i] = S[i] /\ S[i].at[1] # chunk /\ i < Len(S) /\ S[i + 1].kind = "dummy"
              /\ \A j \in 1 .. Len(S) : j > i => S[j].at[1] # S[i].at[1]
          BY <1>1, <2>1, <3>2 DEF Switching
        <4>2. T[i + 1] = S[i + 1] /\ i < Len(T)
          BY <1>1, <3>2, <4>1
        <4>3. ASSUME NEW j \in 1 .. Len(T), j > i
              PROVE  T[j].at[1] # T[i].at[1]
          BY <1>1, <1>3, <1>4, <1>5, <3>2, <4>1, <4>3
        <4> QED
          BY <1>3, <3>2, <4>1, <4>2, <4>3
      <3> QED
        BY <1>1, <1>5, <1>o, <2>1, <3>1, <3>2
    <2> QED
      BY <2>1 DEF Switching
  <1>7. Housed(T, g, c, 1)
    <2>1. g[chunk] = "used"
      BY <1>3, <1>o DEF Housed
    <2>2. ASSUME NEW i \in 1 .. Len(T)
          PROVE  g[T[i].at[1]] = "used" /\ Passed(T[i].at, c, 1)
      <3>1. CASE i \in 1 .. Len(S)
        BY <1>1, <1>2, <1>3, <1>o, <3>1 DEF Housed, Passed
      <3>2. CASE i = Len(S) + 1
        BY <1>1, <1>3, <1>4, <2>1, <3>2 DEF Passed
      <3>3. CASE i = Len(S) + 2
        BY <1>1, <1>4, <1>o, <3>3 DEF Passed
      <3> QED
        BY <1>5, <3>1, <3>2, <3>3
    <2>3. ASSUME NEW i \in 1 .. Len(T), NEW j \in 1 .. Len(T), T[i].at = T[j].at
          PROVE  i = j
      <3>1. CASE i \in 1 .. Len(S) /\ j \in 1 .. Len(S)
        BY <1>1, <2>3, <3>1 DEF Housed
      <3>2. CASE i = Len(S) + 2 \/ j = Len(S) + 2
        BY <1>1, <1>3, <1>4, <1>5, <2>3, <3>2
      <3>3. CASE i = Len(S) + 1 /\ j # Len(S) + 2
        BY <1>1, <1>2, <1>5, <1>o, <2>3, <3>3
      <3>4. CASE j = Len(S) + 1 /\ i # Len(S) + 2
        BY <1>1, <1>2, <1>5, <1>o, <2>3, <3>4
      <3>5. /\ i = Len(S) + 1 \/ i = Len(S) + 2 \/ i \in 1 .. Len(S)
            /\ j = Len(S) + 1 \/ j = Len(S) + 2 \/ j \in 1 .. Len(S)
        BY <1>5
      <3> QED
        BY <3>1, <3>2, <3>3, <3>4, <3>5
    <2>4. g[c] = "used" /\ 1 >= 1
      BY <1>o
    <2> QED
      BY <2>2, <2>3, <2>4 DEF Housed
  <1>8. Standing(T, g, c, 1, r, hand)
    <2>1. r[1] \in Chunks /\ Passed(r, c, 1)
      BY <1>3, SlotFacts DEF Passed
    <2>2. ASSUME hand = 0
          PROVE  /\ \A i \in 1 .. Len(T) : T[i].at # r
                 /\ g[r[1]] = "used" \/ (g[r[1]] = "stash" /\ T # <<>> /\ T[1].kind = "dummy")
      <3>1. ASSUME NEW i \in 1 .. Len(T)
            PROVE  T[i].at # r
        <4>1. CASE i \in 1 .. Len(S)
          BY <1>1, <2>2, <4>1 DEF Standing
        <4>2. CASE i = Len(S) + 1 \/ i = Len(S) + 2
          BY <1>1, <1>2, <1>3, <1>4, <1>o, <4>2
        <4> QED
          BY <1>5, <4>1, <4>2
      <3>2. S # <<>> => T[1] = S[1]
        BY <1>1
      <3>3. g[r[1]] = h[r[1]]
        BY <1>3, <1>o, <2>1
      <3> QED
        BY <1>1, <2>2, <3>1, <3>2, <3>3 DEF Standing
    <2> QED
      BY <2>1, <2>2 DEF Standing
  <1> QED
    BY <1>6, <1>7, <1>8

\* No data is written with the two messages, and none moves.
LEMMA OpenSupplied ==
    ASSUME NEW S, NEW T, NEW e, NEW f, NEW m, NEW n, NEW h, NEW g, NEW chunk, NEW offset, NEW c,
           Opening(S, T, e, f, m, n, h, g, chunk, offset, c), Supplied(S, m, h, chunk, offset)
    PROVE  Supplied(T, n, g, c, 1)
  <1>1. /\ S \in Seq(Entries) /\ e \in Entries /\ f \in Entries /\ T = S \o <<e, f>>
        /\ chunk \in Chunks /\ offset \in 0 .. ChunkSlots - 1 /\ c \in Chunks
        /\ h[c] # "used" /\ h[c] # "stash" /\ \A d \in Chunks : d # c => g[d] = h[d]
        /\ e.data = NoSlot /\ f.data = NoSlot
        /\ \A s \in Slots : s # <<chunk, offset>> /\ s # <<c, 0>> => n[s] = m[s]
    BY DEF Opening
  <1>2. /\ T \in Seq(Entries) /\ Len(T) = Len(S) + 2 /\ Len(S) \in Nat
        /\ \A i \in 1 .. Len(S) : T[i] = S[i]
        /\ T[Len(S) + 1] = e /\ T[Len(S) + 2] = f
    BY <1>1, AppendTwoFacts
  <1>3. Len(S) <= Len(T) /\ \A i \in 1 .. Len(T) : i > Len(S) => T[i].data = NoSlot
    BY <1>1, <1>2
  <1>4. ASSUME NEW s \in Slots, h[s[1]] \in {"used", "stash"}, Passed(s, chunk, offset)
        PROVE  /\ n[s].kind = m[s].kind /\ n[s].body = m[s].body
               /\ g[s[1]] = h[s[1]] /\ Passed(s, c, 1)
    <2>1. s[1] # c /\ s[1] \in Chunks /\ s # <<c, 0>> /\ s # <<chunk, offset>>
      BY <1>1, <1>4, SlotFacts DEF Passed
    <2> QED
      BY <1>1, <2>1 DEF Passed
  <1>5. S \in Seq(Entries) /\ Len(S) <= Len(T)
    BY <1>1, <1>3
  <1>6. \A i \in 1 .. Len(T) : i > Len(S) => T[i].data = NoSlot
    BY <1>3
  <1>7. T \in Seq(Entries) /\ \A i \in 1 .. Len(S) : T[i] = S[i]
    BY <1>2
  <1>8. \A s \in Slots : h[s[1]] \in {"used", "stash"} /\ Passed(s, chunk, offset) =>
           /\ n[s].kind = m[s].kind /\ n[s].body = m[s].body
           /\ g[s[1]] = h[s[1]] /\ Passed(s, c, 1)
    BY <1>4
  <1> QED
    BY <1>5, <1>6, <1>7, <1>8, SuppliedKept

\* Data the call allocated just before is now in the chunk before.
LEMMA OpenPrepared ==
    ASSUME NEW S, NEW T, NEW e, NEW f, NEW m, NEW n, NEW h, NEW g, NEW chunk, NEW offset, NEW c,
           NEW d, NEW body, NEW pending, NEW more,
           Opening(S, T, e, f, m, n, h, g, chunk, offset, c), Switching(S, chunk),
           Prepared(S, m, h, chunk, offset, d, body, pending),
           d \in Slots \cup {NoSlot}, more >= 2, offset # 1
    PROVE  Prepared(T, n, g, c, 1, d, body, more)
  <1> SUFFICES ASSUME d # NoSlot
               PROVE  Prepared(T, n, g, c, 1, d, body, more)
    BY DEF Prepared
  <1>o. /\ S \in Seq(Entries) /\ e \in Entries /\ f \in Entries /\ T = S \o <<e, f>>
        /\ chunk \in Chunks /\ offset \in 0 .. ChunkSlots - 1 /\ c \in Chunks
        /\ h[c] # "used" /\ \A b \in Chunks : b # c => g[b] = h[b]
        /\ e.at = <<chunk, offset>> /\ f.kind = "dummy"
        /\ \A s \in Slots : s # <<chunk, offset>> /\ s # <<c, 0>> => n[s] = m[s]
    BY DEF Opening
  <1>1. /\ Len(T) = Len(S) + 2 /\ Len(S) \in Nat
        /\ \A i \in 1 .. Len(S) : T[i] = S[i]
        /\ T[Len(S) + 1] = e /\ T[Len(S) + 2] = f
    BY <1>o, AppendTwoFacts
  <1>2. /\ d \in Slots /\ d[1] = chunk /\ h[d[1]] = "used" /\ Passed(d, chunk, offset)
        /\ m[d].kind = "data" /\ m[d].body = body
    BY DEF Prepared
  <1>3. d # <<chunk, offset>> /\ d[1] \in Chunks /\ d[1] # c /\ d # <<c, 0>>
    BY <1>2, <1>o, SlotFacts DEF Passed
  <1>4. ASSUME NEW j \in 1 .. Len(T), T[j].kind = "switch", T[j].at[1] = d[1]
        PROVE  j = Len(T) - 1
    <2>1. CASE j \in 1 .. Len(S)
      BY <1>1, <1>2, <1>4, <2>1 DEF Switching
    <2>2. CASE j = Len(S) + 2
      BY <1>1, <1>4, <1>o, <2>2
    <2> QED
      BY <1>1, <2>1, <2>2
  <1>5. Passed(d, c, 1)
    BY <1>3 DEF Passed
  <1> QED
    BY <1>2, <1>3, <1>4, <1>5, <1>o DEF Prepared

-----------------------------------------------------------------------------
(* What the invariant says in a state. *)

LEMMA Typed ==
    ASSUME TypeOK
    PROVE  /\ writer.chunk \in Chunks /\ writer.offset \in 0 .. ChunkSlots - 1
           /\ writer.last \in Slots /\ writer.pending \in Counts
           /\ reader.last \in Slots /\ reader.snap \in Counts /\ reader.new \in Counts
           /\ reader.terminate \in BOOLEAN /\ reader.flushed \in BOOLEAN
           /\ written \in Counts /\ Behind \in Counts /\ InHand \in {0, 1}
           /\ expect \in Seq(Entries) /\ Len(expect) \in Nat /\ (expect = <<>> <=> Len(expect) = 0)
           /\ Here \in Slots /\ Here[1] = writer.chunk /\ Here[2] = writer.offset
           /\ Counts \subseteq Nat /\ writer.offset \in Nat
           /\ call.op \in OpNames /\ call.body \in Bodies \cup {NoBody}
           /\ data \in Slots \cup {NoSlot}
  <1>1. /\ writer.chunk \in Chunks /\ writer.offset \in 0 .. ChunkSlots - 1
        /\ writer.last \in Slots /\ writer.pending \in Counts
        /\ reader.last \in Slots /\ reader.snap \in Counts /\ reader.new \in Counts
        /\ reader.terminate \in BOOLEAN /\ reader.flushed \in BOOLEAN
        /\ written \in Counts
        /\ call.op \in OpNames /\ call.body \in Bodies \cup {NoBody} /\ data \in Slots \cup {NoSlot}
    BY DEF TypeOK, Calls
  <1>2. InHand \in {0, 1}
    BY DEF InHand
  <1>3. Behind \in Counts
    BY <1>1, CountFacts DEF Behind
  <1>4. expect \in Seq(Entries) /\ Len(expect) \in Nat /\ (expect = <<>> <=> Len(expect) = 0)
    <2>1. expect \in Seq(Entries)
      BY DEF TypeOK
    <2> QED
      BY <2>1
  <1>5. Here \in Slots /\ Here[1] = writer.chunk /\ Here[2] = writer.offset
    BY <1>1, SlotFacts DEF Here
  <1>6. Counts \subseteq Nat /\ writer.offset \in Nat
    BY <1>1, Sizes, SlotFacts DEF Counts
  <1> QED
    BY <1>1, <1>2, <1>3, <1>4, <1>5, <1>6

\* The message in hand is the oldest one.
LEMMA Reading ==
    ASSUME IInv, cpc \in {"execute", "destroy"}
    PROVE  /\ InHand = 1 /\ expect # <<>> /\ reader.last = expect[1].at
           /\ Current.kind = expect[1].kind /\ Current.body = expect[1].body
           /\ expect[1] \in Entries /\ 1 \in 1 .. Len(expect)
           /\ ~immediate /\ wpc \notin {"delete", "gone", "join"}
  <1>1. TypeOK /\ Chain /\ Control
    BY DEF IInv
  <1>2. InHand = 1
    BY DEF InHand
  <1>3. expect # <<>> /\ reader.last = expect[1].at
    BY <1>1, <1>2 DEF Chain, Linked
  <1>4. 1 \in 1 .. Len(expect) /\ expect[1] \in Entries
    BY <1>1, <1>3, Typed, TailFacts, Fields
  <1>5. Entry(expect[1].at, Current) = expect[1]
    BY <1>1, <1>3, <1>4 DEF Chain, Linked, Current
  <1>6. Current.kind = expect[1].kind /\ Current.body = expect[1].body
    BY <1>5 DEF Entry
  <1>7. ~immediate /\ wpc \notin {"delete", "gone", "join"}
    BY <1>1, <1>3 DEF Control, Threads, Ended
  <1> QED
    BY <1>2, <1>3, <1>4, <1>6, <1>7

\* The message the reader goes on to is the oldest one.
LEMMA Taking ==
    ASSUME IInv, InHand = 0
    PROVE  /\ mem[reader.last].next = After(expect, Here, 0)
           /\ reader.new > 0 => /\ expect # <<>> /\ expect[1] \in Entries
                                /\ mem[reader.last].next = expect[1].at /\ expect[1].at \in Slots
  <1>1. TypeOK /\ Chain /\ Counted
    BY DEF IInv, Account
  <1>2. mem[reader.last].next = After(expect, Here, 0)
    BY <1>1 DEF Chain, Linked
  <1>3. ASSUME reader.new > 0
        PROVE  expect # <<>>
    <2>1. Behind >= 0 /\ writer.pending >= 0 /\ reader.new \in Nat
      BY <1>1, Typed
    <2> QED
      BY <1>1, <1>3, <2>1, Typed DEF Counted
  <1>4. ASSUME expect # <<>>
        PROVE  expect[1] \in Entries /\ After(expect, Here, 0) = expect[1].at /\ expect[1].at \in Slots
    <2>1. Len(expect) > 0
      BY <1>1, <1>4, Typed
    <2> QED
      BY <1>1, <2>1, Typed, Fields DEF After
  <1> QED
    BY <1>2, <1>3, <1>4

\* In immediate mode all counts are nought.
LEMMA Drained ==
    ASSUME IInv, expect = <<>>
    PROVE  InHand = 0 /\ reader.new = 0 /\ Behind = 0 /\ writer.pending = 0 /\ written = reader.snap
  <1>1. TypeOK /\ Counted
    BY DEF IInv, Account
  <1>2. InHand = 0 /\ reader.new = 0 /\ Behind = 0 /\ writer.pending = 0
    BY <1>1, Typed, SMTT(30) DEF Counted
  <1> QED
    BY <1>1, <1>2, Typed, CountFacts DEF Behind

-----------------------------------------------------------------------------
(* The state keeps its type. *)

LEMMA CellFacts ==
    /\ \A s \in Slots \cup {NoSlot} : Switch(s) \in Cells /\ Dummy(s) \in Cells
    /\ \A s \in Slots : \A b \in Bodies \cup {NoBody} : \A d \in Slots \cup {NoSlot} :
         \A k \in MessageKinds \cup {"data"} : \A t \in Slots \cup {NoSlot} :
            [kind |-> k, body |-> b, next |-> t, data |-> d] \in Cells
    /\ Garbage \in Cells
    /\ \A s \in Slots : \A x \in Cells : x.kind \in MessageKinds => Entry(s, x) \in Entries
    /\ \A x \in Cells : /\ x.kind \in MessageKinds \cup {"data", "garbage"} /\ x.body \in Bodies \cup {NoBody}
                        /\ x.next \in Slots \cup {NoSlot} /\ x.data \in Slots \cup {NoSlot}
  BY DEF Switch, Dummy, Garbage, Cells, Entry, Entries, MessageKinds, QueueKinds

\* A call begins when none is made, with what it has to allocate; only
\* leaving immediate mode does anything at once.
LEMMA Beginning ==
    ASSUME TypeOK, ProducerBegins
    PROVE  /\ wpc = "idle" /\ data' = NoSlot /\ event' = 0
           /\ call' \in Calls /\ todo' \in Seq({"data"} \cup WorkKinds \cup ControlKinds)
           /\ mem' = mem /\ home' = home /\ expect' = expect /\ writer' = writer
           /\ written' = written /\ attached' = attached /\ ran' = ran
           /\ \/ Len(expect) <= MaxOutstanding /\ Len(todo') <= 2
              \/ wpc' = "push"
           /\ CallShape'
           /\ \/ /\ wpc' = "attach" /\ immediate /\ immediate' = FALSE /\ cpc' = "flush"
                 /\ reader' = [reader EXCEPT !.terminate = FALSE, !.flushed = FALSE]
              \/ /\ wpc' \in {"alloc", "push"} \/ (wpc' = "delete" /\ immediate)
                 /\ immediate' = immediate /\ cpc' = cpc /\ reader' = reader
  <1>1. /\ Len(<<"work">>) = 1 /\ Len(<<"data", "work">>) = 2 /\ Len(<<"wait">>) = 1 /\ Len(<<"free">>) = 1
        /\ Len(<<"finish">>) = 1 /\ Len(<<"work", "terminate">>) = 2 /\ Len(<<>>) = 0
        /\ {<<"work">>, <<"data", "work">>, <<"wait">>, <<"free">>, <<"finish">>, <<"work", "terminate">>,
            <<>>} \subseteq Seq({"data"} \cup WorkKinds \cup ControlKinds)
    BY DEF WorkKinds, ControlKinds
  <1> USE DEF Begin, CallShape, Ending, memVars, modeVars
  <1>2. \A op \in OpNames : \A b \in Bodies \cup {NoBody} : [op |-> op, body |-> b] \in Calls
    BY DEF Calls
  <1>3. CASE BeginWork
    <2>1. PICK b \in Bodies : \/ Begin("work", b, <<"work">>, "alloc")
                             \/ Begin("dataWork", b, <<"data", "work">>, "alloc")
      BY <1>3 DEF BeginWork
    <2>2. CASE Begin("work", b, <<"work">>, "alloc")
      <3>1. call' = [op |-> "work", body |-> b] /\ call' \in Calls
        BY <1>2, <2>2 DEF OpNames
      <3> QED
        BY <1>1, <1>3, <2>2, <3>1 DEF BeginWork
    <2>3. CASE Begin("dataWork", b, <<"data", "work">>, "alloc")
      <3>1. call' = [op |-> "dataWork", body |-> b] /\ call' \in Calls
        BY <1>2, <2>3 DEF OpNames
      <3> QED
        BY <1>1, <1>3, <2>3, <3>1 DEF BeginWork
    <2> QED
      BY <2>1, <2>2, <2>3
  <1>4. CASE BeginKick
    <2>1. CASE Begin("kick", NoBody, <<>>, "push")
      <3>1. call' = [op |-> "kick", body |-> NoBody] /\ call' \in Calls
        BY <1>2, <2>1 DEF OpNames
      <3> QED
        BY <1>1, <1>4, <2>1, <3>1 DEF BeginKick
    <2>2. CASE Begin("kickAndWait", NoBody, <<"wait">>, "alloc")
      <3>1. call' = [op |-> "kickAndWait", body |-> NoBody] /\ call' \in Calls
        BY <1>2, <2>2 DEF OpNames
      <3> QED
        BY <1>1, <1>4, <2>2, <3>1 DEF BeginKick
    <2>3. CASE Begin("freeChunks", NoBody, <<"free">>, "alloc")
      <3>1. call' = [op |-> "freeChunks", body |-> NoBody] /\ call' \in Calls
        BY <1>2, <2>3 DEF OpNames
      <3> QED
        BY <1>1, <1>4, <2>3, <3>1 DEF BeginKick
    <2> QED
      BY <1>4, <2>1, <2>2, <2>3 DEF BeginKick
  <1>5. CASE BeginFinishWriting
    BY <1>1, <1>2, <1>5 DEF BeginFinishWriting, OpNames
  <1>6. CASE BeginMultithreaded
    BY <1>1, <1>2, <1>6 DEF BeginMultithreaded, OpNames
  <1>7. CASE BeginTerminate
    <2>1. PICK b \in Bodies, op \in Ending : Begin(op, b, <<"work", "terminate">>, "alloc")
      BY <1>7 DEF BeginTerminate
    <2>2. /\ call' = [op |-> op, body |-> b] /\ todo' = <<"work", "terminate">> /\ wpc' = "alloc"
          /\ wpc = "idle" /\ data' = NoSlot /\ event' = 0 /\ Len(expect) <= MaxOutstanding
      BY <2>1
    <2>3. call'.op = op /\ call' \in Calls
      BY <1>2, <2>2 DEF OpNames
    <2> QED
      BY <1>1, <1>7, <2>2, <2>3 DEF BeginTerminate
  <1>8. CASE BeginDestroy
    <2>1. PICK b \in Bodies : Begin("destroy", b, <<>>, "delete")
      BY <1>8 DEF BeginDestroy
    <2>2. /\ call' = [op |-> "destroy", body |-> b] /\ todo' = <<>> /\ wpc' = "delete"
          /\ wpc = "idle" /\ data' = NoSlot /\ event' = 0 /\ Len(expect) <= MaxOutstanding
      BY <2>1
    <2>3. call' \in Calls
      BY <1>2, <2>2 DEF OpNames
    <2> QED
      BY <1>1, <1>8, <2>2, <2>3 DEF BeginDestroy
  <1> QED
    BY <1>3, <1>4, <1>5, <1>6, <1>7, <1>8 DEF ProducerBegins

\* Where a call goes when an allocation is done.
LEMMA Allocating ==
    ASSUME TypeOK, CallShape, wpc = "alloc", AfterAllocations, call' = call
    PROVE  /\ CallShape' /\ Len(todo) \in 1 .. 2 /\ Len(todo') = Len(todo) - 1
           /\ Head(todo) \in {"data"} \cup WorkKinds \cup ControlKinds
           /\ todo' \in Seq({"data"} \cup WorkKinds \cup ControlKinds)
           /\ wpc' \in {"alloc", "idle", "push"}
           /\ Head(todo) \in {"wait", "terminate"} =>
                /\ wpc' = "push"
                /\ IF Head(todo) = "wait" THEN call.op = "kickAndWait" ELSE call.op \in Ending
           /\ Head(todo) = "data" => wpc' = "alloc" /\ call.op = "dataWork" /\ todo' = <<"work">>
  <1> SUFFICES ASSUME todo \in {<<"data", "work">>, <<"work">>, <<"wait">>, <<"free">>, <<"finish">>,
                               <<"work", "terminate">>, <<"terminate">>}
               PROVE  /\ CallShape' /\ Len(todo) \in 1 .. 2 /\ Len(todo') = Len(todo) - 1
                      /\ Head(todo) \in {"data"} \cup WorkKinds \cup ControlKinds
                      /\ todo' \in Seq({"data"} \cup WorkKinds \cup ControlKinds)
                      /\ wpc' \in {"alloc", "idle", "push"}
                      /\ Head(todo) \in {"wait", "terminate"} =>
                           /\ wpc' = "push"
                           /\ IF Head(todo) = "wait" THEN call.op = "kickAndWait" ELSE call.op \in Ending
                      /\ Head(todo) = "data" => wpc' = "alloc" /\ call.op = "dataWork" /\ todo' = <<"work">>
    BY DEF CallShape
  <1> USE DEF AfterAllocations, WorkKinds, ControlKinds
  <1>1. /\ Tail(<<"data", "work">>) = <<"work">> /\ Tail(<<"work", "terminate">>) = <<"terminate">>
        /\ Head(<<"data", "work">>) = "data" /\ Head(<<"work", "terminate">>) = "work"
        /\ Len(<<"data", "work">>) = 2 /\ Len(<<"work", "terminate">>) = 2
    OBVIOUS
  <1>2. \A x \in {"work", "wait", "free", "finish", "terminate"} :
           Tail(<<x>>) = <<>> /\ Head(<<x>>) = x /\ Len(<<x>>) = 1
    OBVIOUS
  <1>3. Len(<<>>) = 0
    OBVIOUS
  <1>4. CASE todo = <<"data", "work">>
    BY <1>1, <1>4 DEF CallShape, Ending
  <1>5. CASE todo = <<"work", "terminate">>
    BY <1>1, <1>5 DEF CallShape, Ending
  <1>6. CASE todo \in {<<"work">>, <<"wait">>, <<"free">>, <<"finish">>, <<"terminate">>}
    <2>1. PICK x \in {"work", "wait", "free", "finish", "terminate"} : todo = <<x>>
      BY <1>6
    <2>2. Tail(todo) = <<>> /\ Head(todo) = x /\ Len(todo) = 1
      BY <1>2, <2>1
    <2>3. wpc' # "alloc" /\ wpc' # "attach" /\ wpc' \in {"idle", "push"}
      BY <2>2
    <2>4. x = "wait" => call.op = "kickAndWait"
      BY <2>1, <2>2 DEF CallShape
    <2>5. x = "terminate" => call.op \in Ending
      BY <2>1, <2>2 DEF CallShape
    <2>6. x \in {"wait", "terminate"} => wpc' = "push"
      BY <2>2, <2>4, <2>5 DEF Ending
    <2> QED
      BY <1>3, <2>1, <2>2, <2>3, <2>4, <2>5, <2>6 DEF CallShape
  <1> QED
    BY <1>4, <1>5, <1>6

\* What fits leaves the slot after it in the chunk.
LEMMA FitFacts ==
    ASSUME TypeOK, Fits
    PROVE  /\ writer.offset + 1 \in 0 .. ChunkSlots - 1
           /\ AfterHere \in Slots /\ AfterHere = <<writer.chunk, writer.offset + 1>>
  <1>1. writer.chunk \in Chunks /\ writer.offset \in Nat /\ ChunkSlots \in Nat
    BY Typed, SlotFacts
  <1>2. writer.offset + 1 \in 0 .. ChunkSlots - 1
    BY <1>1 DEF Fits
  <1>3. AfterHere = <<writer.chunk, writer.offset + 1>>
    BY DEF AfterHere
  <1> QED
    BY <1>1, <1>2, <1>3, SlotFacts

LEMMA TypeKept ==
    ASSUME IInv, [Next]_vars
    PROVE  TypeOK'
  <1> USE DEF TypeOK, memVars, modeVars, callVars, consumerKeeps
  <1>1. TypeOK /\ CallShape
    BY DEF IInv, Control
  <1>2. CASE ProducerBegins
    <2>1. reader' \in [last : Slots, snap : Counts, new : Counts, terminate : BOOLEAN, flushed : BOOLEAN]
      BY <1>1, <1>2, Beginning
    <2>2. wpc' \in {"attach", "alloc", "push", "delete"} /\ immediate' \in BOOLEAN
          /\ (cpc' = cpc \/ cpc' = "flush")
      BY <1>1, <1>2, Beginning
    <2> QED
      BY <1>1, <1>2, <2>1, <2>2, Beginning, ZenonT(60)
  <1>3. CASE Attach
    BY <1>1, <1>3 DEF Attach
  <1>4. CASE SwitchChunk
    <2>1. PICK c \in Requestable :
            /\ home' = [home EXCEPT ![c] = "used"]
            /\ mem' = [mem EXCEPT ![Here] = Switch(<<c, 0>>), ![<<c, 0>>] = Dummy(<<c, 1>>)]
            /\ writer' = [chunk |-> c, offset |-> 1, last |-> <<c, 0>>, pending |-> Plus(writer.pending, 2)]
            /\ expect' = expect \o <<Entry(Here, Switch(<<c, 0>>)), Entry(<<c, 0>>, Dummy(<<c, 1>>))>>
      BY <1>4 DEF SwitchChunk
    <2>2. c \in Chunks /\ <<c, 0>> \in Slots /\ <<c, 1>> \in Slots /\ 1 \in 0 .. ChunkSlots - 1
      BY SlotFacts DEF Requestable, Pool, In
    <2>3. 2 \in Counts
      BY Sizes DEF Counts, Limit
    <2>4. Plus(writer.pending, 2) \in Counts
      BY <1>1, <2>3, Typed, CountFacts
    <2>5. Switch(<<c, 0>>) \in Cells /\ Dummy(<<c, 1>>) \in Cells /\ Here \in Slots
      BY <1>1, <2>2, CellFacts, Typed
    <2>6. Entry(Here, Switch(<<c, 0>>)) \in Entries /\ Entry(<<c, 0>>, Dummy(<<c, 1>>)) \in Entries
      <3>1. Switch(<<c, 0>>).kind \in MessageKinds /\ Dummy(<<c, 1>>).kind \in MessageKinds
        BY DEF Switch, Dummy, MessageKinds, QueueKinds
      <3> QED
        BY <2>2, <2>5, <3>1, CellFacts
    <2>7. expect' \in Seq(Entries)
      BY <1>1, <2>1, <2>6
    <2>8. writer' \in [chunk : Chunks, offset : 0 .. ChunkSlots - 1, last : Slots, pending : Counts]
      BY <2>1, <2>2, <2>4
    <2>9. mem' \in [Slots -> Cells] /\ home' \in [Chunks -> {"used", "stash", "pool", "heap"}]
      BY <1>1, <2>1, <2>2, <2>5
    <2> QED
      BY <1>1, <1>4, <2>7, <2>8, <2>9 DEF SwitchChunk
  <1>5. CASE SwitchChunkImmediate
    <2>1. PICK c \in Requestable :
            /\ home' = [home EXCEPT ![c] = "used", ![writer.chunk] = "stash"]
            /\ mem' = [mem EXCEPT ![Here] = Switch(<<c, 0>>), ![<<c, 0>>] = Dummy(<<c, 1>>)]
            /\ writer' = [chunk |-> c, offset |-> 1, last |-> <<c, 0>>, pending |-> 0]
            /\ written' = Plus(written, Plus(writer.pending, 2))
            /\ reader' = ExecutesBoth(PullFrom(written', reader), <<c, 0>>)
      BY <1>5 DEF SwitchChunkImmediate
    <2>2. c \in Chunks /\ <<c, 0>> \in Slots /\ <<c, 1>> \in Slots /\ 1 \in 0 .. ChunkSlots - 1
      BY SlotFacts DEF Requestable, Pool, In
    <2>3. 2 \in Counts /\ 0 \in Counts
      BY Sizes DEF Counts, Limit
    <2>4. written' \in Counts
      BY <1>1, <2>1, <2>3, Typed, CountFacts
    <2>5. Switch(<<c, 0>>) \in Cells /\ Dummy(<<c, 1>>) \in Cells /\ Here \in Slots
      BY <1>1, <2>2, CellFacts, Typed
    <2>6. Minus(Plus(reader.new, Minus(written', reader.snap)), 2) \in Counts
      BY <1>1, <2>3, <2>4, Typed, CountFacts
    <2>7. reader' \in [last : Slots, snap : Counts, new : Counts, terminate : BOOLEAN, flushed : BOOLEAN]
      BY <1>1, <2>1, <2>2, <2>4, <2>6 DEF ExecutesBoth, PullFrom
    <2>8. writer' \in [chunk : Chunks, offset : 0 .. ChunkSlots - 1, last : Slots, pending : Counts]
      BY <2>1, <2>2, <2>3
    <2>9. mem' \in [Slots -> Cells] /\ home' \in [Chunks -> {"used", "stash", "pool", "heap"}]
      BY <1>1, <2>1, <2>2, <2>5
    <2> QED
      BY <1>1, <1>5, <2>4, <2>7, <2>8, <2>9 DEF SwitchChunkImmediate
  <1>6. CASE AllocateData
    <2>1. /\ AfterHere \in Slots /\ writer.offset + 1 \in 0 .. ChunkSlots - 1
          /\ Here \in Slots /\ writer.last \in Slots
      BY <1>1, <1>6, FitFacts, Typed DEF AllocateData
    <2>2. todo' \in Seq({"data"} \cup WorkKinds \cup ControlKinds) /\ wpc' \in {"alloc", "idle", "push"}
      BY <1>1, <1>6, Allocating DEF AllocateData
    <2>3. [kind |-> "data", body |-> call.body, next |-> NoSlot, data |-> NoSlot] \in Cells
      BY <1>1, Typed DEF Cells
    <2>4. \A x \in Cells : [x EXCEPT !.next = AfterHere] \in Cells
      BY <2>1 DEF Cells
    <2>5. mem' \in [Slots -> Cells]
      BY <1>1, <1>6, <2>1, <2>3, <2>4 DEF AllocateData
    <2>6. writer' \in [chunk : Chunks, offset : 0 .. ChunkSlots - 1, last : Slots, pending : Counts]
      BY <1>1, <1>6, <2>1 DEF AllocateData
    <2> QED
      BY <1>1, <1>6, <2>1, <2>2, <2>5, <2>6, ZenonT(60) DEF AllocateData
  <1>7. CASE AllocateMessage
    <2>0. writer.offset + 1 \in 0 .. ChunkSlots - 1 /\ AfterHere \in Slots
      BY <1>1, <1>7, FitFacts DEF AllocateMessage
    <2> DEFINE cell == [kind |-> Head(todo), body |-> IF Head(todo) = "work" THEN call.body ELSE NoBody,
                        next |-> AfterHere, data |-> data]
    <2>1. /\ AfterHere \in Slots /\ writer.offset + 1 \in 0 .. ChunkSlots - 1
          /\ Here \in Slots /\ writer.last \in Slots
      BY <1>1, <2>0, Typed
    <2>2. /\ todo' \in Seq({"data"} \cup WorkKinds \cup ControlKinds) /\ wpc' \in {"alloc", "idle", "push"}
          /\ Head(todo) \in MessageKinds
      BY <1>1, <1>7, Allocating DEF AllocateMessage, MessageKinds
    <2>3. cell \in Cells /\ Entry(Here, cell) \in Entries
      <3>1. cell \in Cells /\ cell.kind \in MessageKinds
        BY <1>1, <2>1, <2>2, Typed DEF Cells
      <3> QED
        BY <2>1, <3>1, CellFacts
    <2>4. 1 \in Counts
      BY Sizes DEF Counts, Limit
    <2>5. Plus(writer.pending, 1) \in Counts
      BY <1>1, <2>4, Typed, CountFacts
    <2>6. mem' = [mem EXCEPT ![Here] = cell] /\ expect' = Append(expect, Entry(Here, cell))
      BY <1>7 DEF AllocateMessage
    <2>7. writer' = [writer EXCEPT !.offset = @ + 1, !.last = Here, !.pending = Plus(@, 1)]
      BY <1>7 DEF AllocateMessage
    <2> HIDE DEF cell
    <2>8. writer' \in [chunk : Chunks, offset : 0 .. ChunkSlots - 1, last : Slots, pending : Counts]
      BY <1>1, <2>1, <2>5, <2>7
    <2>9. mem' \in [Slots -> Cells] /\ expect' \in Seq(Entries)
      BY <1>1, <2>1, <2>3, <2>6
    <2> QED
      BY <1>1, <1>7, <2>2, <2>8, <2>9 DEF AllocateMessage
  <1>8. CASE ExecuteDirectly
    <2>1. todo' \in Seq({"data"} \cup WorkKinds \cup ControlKinds) /\ wpc' \in {"alloc", "idle", "push"}
      BY <1>1, <1>8, Allocating DEF ExecuteDirectly
    <2>2. ran' \in [kind : MessageKinds, body : Bodies \cup {NoBody}]
      BY <1>1, <1>8, Typed DEF ExecuteDirectly, MessageKinds, WorkKinds, ControlKinds
    <2> QED
      BY <1>1, <1>8, <2>1, <2>2 DEF ExecuteDirectly
  <1>free. ASSUME NEW c \in Chunks, Free(c)
           PROVE  mem' \in [Slots -> Cells] /\ home' \in [Chunks -> {"used", "stash", "pool", "heap"}]
    BY <1>1, <1>free, CellFacts DEF Free, Wiped
  <1>9. CASE FreeDirectly
    <2>1. CASE \E c \in Stash : Free(c) /\ UNCHANGED <<wpc, todo, data, ran>>
      BY <1>1, <1>9, <1>free, <2>1 DEF FreeDirectly, Stash, In
    <2>2. CASE /\ ran' = [kind |-> "free", body |-> NoBody] /\ data' = NoSlot
               /\ AfterAllocations /\ UNCHANGED <<home, mem>>
      <3>1. todo' \in Seq({"data"} \cup WorkKinds \cup ControlKinds) /\ wpc' \in {"alloc", "idle", "push"}
        BY <1>1, <1>9, <2>2, Allocating DEF FreeDirectly
      <3> QED
        BY <1>1, <1>9, <2>2, <3>1 DEF FreeDirectly, MessageKinds, ControlKinds
    <2> QED
      BY <1>9, <2>1, <2>2 DEF FreeDirectly
  <1>10. CASE PushMessages
    <2>1. written' \in Counts /\ 0 \in Counts
      <3>1. 0 \in Counts /\ written \in Counts /\ writer.pending \in Counts
        BY <1>1, Typed, Sizes DEF Counts
      <3> QED
        BY <1>10, <3>1, CountFacts DEF PushMessages, Pushed
    <2> QED
      BY <1>1, <1>10, <2>1, ZenonT(60) DEF PushMessages
  <1>11. CASE NotifyAll
    BY <1>1, <1>11 DEF NotifyAll, AfterKick
  <1>12. CASE AwaitEvent
    BY <1>1, <1>12 DEF AwaitEvent
  <1>13. CASE JoinConsumer
    BY <1>1, <1>13 DEF JoinConsumer
  <1>14. CASE Delete
    BY <1>1, <1>14 DEF Delete, Recycle
  <1>15. CASE KeepFlushing \/ FlushDone \/ ThreadExits \/ StartWaiting \/ SpuriousWakeup
    BY <1>1, <1>15, ZenonT(60) DEF KeepFlushing, FlushDone, ThreadExits, StartWaiting, SpuriousWakeup
  <1>16. CASE TakeMessage
    <2>1. reader.new > 0 /\ InHand = 0
      BY <1>16 DEF TakeMessage, HasNewMessage, InHand
    <2>2. mem[reader.last].next \in Slots
      BY <2>1, Taking
    <2>3. Minus(reader.new, 1) \in Counts
      <3>1. 1 \in Counts /\ reader.new \in Counts
        BY <1>1, Typed, Sizes DEF Counts, Limit
      <3> QED
        BY <3>1, CountFacts
    <2> QED
      BY <1>1, <1>16, <2>2, <2>3 DEF TakeMessage
  <1>pull. Pulled \in [last : Slots, snap : Counts, new : Counts, terminate : BOOLEAN, flushed : BOOLEAN]
    <2>1. Plus(reader.new, Minus(written, reader.snap)) \in Counts
      BY <1>1, Typed, CountFacts
    <2> QED
      BY <1>1, <2>1 DEF Pulled, PullFrom
  <1>17. CASE PullUnderLock \/ PullAfterWait \/ ExecuteSwitch
    BY <1>1, <1>17, <1>pull DEF PullUnderLock, PullAfterWait, ExecuteSwitch
  <1>18. ASSUME Executed, cpc \in {"execute", "destroy"}
         PROVE  expect' \in Seq(Entries) /\ ran' \in [kind : MessageKinds, body : Bodies \cup {NoBody}]
    <2>1. expect' \in Seq(Entries)
      BY <1>1, <1>18, Reading, Typed, TailFacts DEF Executed
    <2>2. Current.kind \in MessageKinds /\ Current.body \in Bodies \cup {NoBody}
      BY <1>18, Reading DEF Entries
    <2> QED
      BY <1>1, <1>18, <2>1, <2>2 DEF Executed
  <1>19. CASE ExecutePlain \/ ExecuteFinish \/ ExecuteWait \/ ExecuteTerminate \/ ExecuteFreeDone
    <2>1. Executed /\ cpc = "execute"
      BY <1>19 DEF ExecutePlain, ExecuteFinish, ExecuteWait, ExecuteTerminate, ExecuteFreeDone
    <2>2. expect' \in Seq(Entries) /\ ran' \in [kind : MessageKinds, body : Bodies \cup {NoBody}]
      BY <1>18, <2>1
    <2> QED
      BY <1>1, <1>19, <2>2, ZenonT(60) DEF ExecutePlain, ExecuteFinish, ExecuteWait, ExecuteTerminate, ExecuteFreeDone
  <1>20. CASE ExecuteFreeOne
    BY <1>1, <1>20, <1>free DEF ExecuteFreeOne, Stash, In
  <1>21. CASE DestroySwitch
    <2>1. expect' \in Seq(Entries) /\ ran' \in [kind : MessageKinds, body : Bodies \cup {NoBody}]
      BY <1>18, <1>21 DEF DestroySwitch
    <2> QED
      BY <1>1, <1>21, <2>1, ZenonT(60) DEF DestroySwitch, Recycle
  <1>22. CASE UNCHANGED vars
    BY <1>1, <1>22 DEF vars
  <1> QED
    BY <1>2, <1>3, <1>4, <1>5, <1>6, <1>7, <1>8, <1>9, <1>10, <1>11, <1>12, <1>13, <1>14, <1>15, <1>16,
       <1>17, <1>19, <1>20, <1>21, <1>22
    DEF Next, ProducerStep, ConsumerStep, Gone

-----------------------------------------------------------------------------
(* The control of the two threads. *)

\* A message is executed and leaves the others.
LEMMA Popping ==
    ASSUME IInv, Executed, cpc \in {"execute", "destroy"}
    PROVE  /\ expect' = Tail(expect) /\ expect' \in Seq(Entries) /\ Len(expect') = Len(expect) - 1
           /\ \A i \in 1 .. Len(expect') : expect'[i] = expect[i + 1] /\ i + 1 \in 1 .. Len(expect)
           /\ expect # <<>> /\ (expect' = <<>> <=> Len(expect) = 1) /\ Len(expect) \in Nat \ {0}
           /\ expect[1].kind \in {"wait", "terminate"} => expect' = <<>>
           /\ WaitedFor(expect', wpc, call.op)
  <1>1. TypeOK /\ WaitedFor(expect, wpc, call.op)
    BY DEF IInv, Control
  <1>2. expect # <<>> /\ expect \in Seq(Entries) /\ 1 \in 1 .. Len(expect)
    BY <1>1, Reading, Typed
  <1>3. expect' = Tail(expect)
    BY DEF Executed
  <1>4. /\ expect' \in Seq(Entries) /\ Len(expect') = Len(expect) - 1
        /\ \A i \in 1 .. Len(expect') : expect'[i] = expect[i + 1] /\ i + 1 \in 1 .. Len(expect)
        /\ (expect' = <<>> <=> Len(expect) = 1) /\ Len(expect) \in Nat \ {0}
    BY <1>2, <1>3, TailFacts
  <1>5. expect[1].kind \in {"wait", "terminate"} => expect' = <<>>
    BY <1>1, <1>2, <1>4 DEF WaitedFor
  <1>6. WaitedFor(expect', wpc, call.op)
    <2> SUFFICES ASSUME NEW i \in 1 .. Len(expect'), expect'[i].kind \in {"wait", "terminate"}
                 PROVE  /\ i = Len(expect') /\ wpc \in {"push", "notify", "await"}
                        /\ IF expect'[i].kind = "wait" THEN call.op = "kickAndWait" ELSE call.op \in Ending
      BY DEF WaitedFor
    <2>1. expect'[i] = expect[i + 1] /\ i + 1 \in 1 .. Len(expect)
      BY <1>4
    <2>2. /\ i + 1 = Len(expect) /\ wpc \in {"push", "notify", "await"}
          /\ IF expect[i + 1].kind = "wait" THEN call.op = "kickAndWait" ELSE call.op \in Ending
      BY <1>1, <2>1 DEF WaitedFor
    <2> QED
      BY <1>4, <2>1, <2>2
  <1> QED
    BY <1>2, <1>3, <1>4, <1>5, <1>6

\* The two messages that close a chunk and open the next.
LEMMA OpenFacts ==
    ASSUME TypeOK, NEW c \in Requestable
    PROVE  /\ c \in Chunks /\ home[c] # "used" /\ home[c] # "stash"
           /\ <<c, 0>> \in Slots /\ <<c, 1>> \in Slots /\ <<c, 0>>[1] = c
           /\ Entry(Here, Switch(<<c, 0>>)) \in Entries /\ Entry(<<c, 0>>, Dummy(<<c, 1>>)) \in Entries
           /\ LET e == Entry(Here, Switch(<<c, 0>>)) IN
                 e.kind = "switch" /\ e.at = <<writer.chunk, writer.offset>> /\ e.data = NoSlot
           /\ LET f == Entry(<<c, 0>>, Dummy(<<c, 1>>)) IN
                 f.kind = "dummy" /\ f.at = <<c, 0>> /\ f.data = NoSlot
           /\ Switch(<<c, 0>>).next = <<c, 0>> /\ Dummy(<<c, 1>>).next = <<c, 1>>
  <1>1. c \in Chunks /\ home[c] # "used" /\ home[c] # "stash"
    BY DEF Requestable, Pool, In
  <1>2. <<c, 0>> \in Slots /\ <<c, 1>> \in Slots /\ <<c, 0>>[1] = c
    BY <1>1, SlotFacts
  <1>3. Switch(<<c, 0>>) \in Cells /\ Dummy(<<c, 1>>) \in Cells /\ Here \in Slots
    BY <1>2, CellFacts, Typed
  <1>4. Switch(<<c, 0>>).kind \in MessageKinds /\ Dummy(<<c, 1>>).kind \in MessageKinds
    BY DEF Switch, Dummy, MessageKinds, QueueKinds
  <1>5. Entry(Here, Switch(<<c, 0>>)) \in Entries /\ Entry(<<c, 0>>, Dummy(<<c, 1>>)) \in Entries
    BY <1>2, <1>3, <1>4, CellFacts
  <1> QED
    BY <1>1, <1>2, <1>5 DEF Entry, Switch, Dummy, Here

\* The message that is written.
LEMMA WriteFacts ==
    ASSUME TypeOK, CallShape, AllocateMessage
    PROVE  \E e \in Entries :
             /\ expect' = Append(expect, e) /\ e.kind = Head(todo) /\ e.data = data
             /\ e = Entry(Here, mem'[Here]) /\ mem'[Here].next = AfterHere /\ e.at = Here
             /\ e.kind = "work" => e.body = call.body
             /\ \A s \in Slots : s # Here => mem'[s] = mem[s]
  <1> DEFINE cell == [kind |-> Head(todo), body |-> IF Head(todo) = "work" THEN call.body ELSE NoBody,
                      next |-> AfterHere, data |-> data]
  <1>1. mem' = [mem EXCEPT ![Here] = cell] /\ expect' = Append(expect, Entry(Here, cell))
    BY DEF AllocateMessage
  <1>2. AfterHere \in Slots /\ Here \in Slots
    BY FitFacts, Typed DEF AllocateMessage
  <1>3. Head(todo) \in MessageKinds
    BY Allocating DEF AllocateMessage, MessageKinds
  <1>4. cell \in Cells /\ cell.kind = Head(todo) /\ cell.data = data /\ cell.next = AfterHere
        /\ (cell.kind = "work" => cell.body = call.body)
    BY <1>2, <1>3, Typed DEF Cells
  <1> HIDE DEF cell
  <1>5. Entry(Here, cell) \in Entries
    BY <1>2, <1>3, <1>4, CellFacts
  <1>6. mem'[Here] = cell /\ \A s \in Slots : s # Here => mem'[s] = mem[s]
    BY <1>1, <1>2 DEF TypeOK
  <1> QED
    BY <1>1, <1>4, <1>5, <1>6 DEF Entry

LEMMA ControlKept ==
    ASSUME IInv, [Next]_vars
    PROVE  Control'
  <1>1. TypeOK /\ Control /\ Counted
    BY DEF IInv, Account
  <1> USE DEF Control, memVars, modeVars, callVars, consumerKeeps
  <1>2. CASE ProducerBegins
    <2>1. wpc = "idle" /\ expect' = expect /\ event' = 0 /\ data' = NoSlot /\ CallShape'
      BY <1>1, <1>2, Beginning
    <2>2. \A i \in 1 .. Len(expect) : expect[i].kind \notin {"wait", "terminate"}
      BY <1>1, <2>1 DEF WaitedFor
    <2>3. WaitedFor(expect', wpc', call'.op)
      BY <2>1, <2>2 DEF WaitedFor
    <2>4. Signalled' /\ DataShape'
      BY <2>1 DEF Signalled, DataShape
    <2>5. CASE /\ wpc' = "attach" /\ immediate /\ immediate' = FALSE /\ cpc' = "flush"
               /\ reader' = [reader EXCEPT !.terminate = FALSE, !.flushed = FALSE]
      <3>1. reader'.terminate = FALSE
        BY <1>1, <2>5 DEF TypeOK
      <3> QED
        BY <1>1, <2>1, <2>3, <2>4, <2>5, <3>1 DEF Threads, Ended
    <2>6. CASE /\ wpc' \in {"alloc", "push"} \/ (wpc' = "delete" /\ immediate)
               /\ immediate' = immediate /\ cpc' = cpc /\ reader' = reader
      BY <1>1, <2>1, <2>3, <2>4, <2>6 DEF Threads, Ended
    <2> QED
      BY <1>1, <1>2, <2>5, <2>6, Beginning
  <1>3. CASE Attach
    BY <1>1, <1>3 DEF Attach, CallShape, Threads, WaitedFor, Signalled, Ended, DataShape
  <1>none. wpc = "alloc" => /\ \A i \in 1 .. Len(expect) : expect[i].kind \notin {"wait", "terminate"}
                            /\ event # 1 /\ (~immediate => ~reader.terminate)
    BY <1>1 DEF WaitedFor, Signalled, Ended, Threads
  <1>4. CASE SwitchChunk
    <2>1. PICK c \in Requestable :
            expect' = expect \o <<Entry(Here, Switch(<<c, 0>>)), Entry(<<c, 0>>, Dummy(<<c, 1>>))>>
      BY <1>4 DEF SwitchChunk
    <2>2. WaitedFor(expect', wpc', call'.op) /\ (expect # <<>> => expect'[1] = expect[1]) /\ expect' # <<>>
      <3> DEFINE e == Entry(Here, Switch(<<c, 0>>))
                 f == Entry(<<c, 0>>, Dummy(<<c, 1>>))
      <3>1. e \in Entries /\ f \in Entries /\ e.kind = "switch" /\ f.kind = "dummy"
        BY <1>1, <2>1, OpenFacts
      <3> HIDE DEF e, f
      <3>2. /\ Len(expect \o <<e, f>>) = Len(expect) + 2 /\ Len(expect) \in Nat /\ expect \o <<e, f>> # <<>>
            /\ \A i \in 1 .. Len(expect) : (expect \o <<e, f>>)[i] = expect[i]
            /\ (expect \o <<e, f>>)[Len(expect) + 1] = e /\ (expect \o <<e, f>>)[Len(expect) + 2] = f
            /\ (expect = <<>> <=> Len(expect) = 0)
        BY <1>1, <3>1, Typed, AppendTwoFacts
      <3>3. wpc = "alloc"
        BY <1>4 DEF SwitchChunk
      <3>4. \A i \in 1 .. Len(expect \o <<e, f>>) :
               (expect \o <<e, f>>)[i].kind \notin {"wait", "terminate"}
        BY <1>none, <3>1, <3>2, <3>3
      <3>5. WaitedFor(expect \o <<e, f>>, wpc', call'.op)
        BY <3>4 DEF WaitedFor
      <3>6. expect # <<>> => (expect \o <<e, f>>)[1] = expect[1]
        BY <3>2
      <3> QED
        BY <2>1, <3>2, <3>5, <3>6 DEF e, f
    <2> QED
      BY <1>1, <1>4, <1>none, <2>2 DEF SwitchChunk, CallShape, Threads, Signalled, Ended, DataShape
  <1>5. CASE SwitchChunkImmediate
    <2>1. reader'.terminate = reader.terminate /\ reader'.flushed = reader.flushed
      BY <1>1, <1>5 DEF SwitchChunkImmediate, ExecutesBoth, PullFrom, TypeOK
    <2> QED
      BY <1>1, <1>5, <2>1
      DEF SwitchChunkImmediate, CallShape, Threads, WaitedFor, Signalled, Ended, DataShape
  <1>6. CASE AllocateData
    <2>1. CallShape' /\ wpc' = "alloc" /\ call.op = "dataWork" /\ todo' = <<"work">>
      BY <1>1, <1>6, Allocating DEF AllocateData
    <2> QED
      BY <1>1, <1>6, <2>1 DEF AllocateData, Threads, WaitedFor, Signalled, Ended, DataShape
  <1>7. CASE AllocateMessage
    <2>1. PICK e \in Entries : expect' = Append(expect, e) /\ e.kind = Head(todo)
      BY <1>1, <1>7, WriteFacts
    <2>2. /\ Len(Append(expect, e)) = Len(expect) + 1 /\ Len(expect) \in Nat
          /\ \A i \in 1 .. Len(expect) : Append(expect, e)[i] = expect[i]
          /\ Append(expect, e)[Len(expect) + 1] = e /\ (expect = <<>> <=> Len(expect) = 0)
          /\ Append(expect, e) # <<>>
      BY <1>1, Typed, AppendFacts
    <2>3. /\ wpc = "alloc" /\ AfterAllocations /\ call' = call /\ ~immediate /\ data' = NoSlot
          /\ UNCHANGED <<immediate, reader, event, cpc>>
      BY <1>7 DEF AllocateMessage
    <2>4. /\ CallShape' /\ wpc' \in {"alloc", "idle", "push"}
          /\ Head(todo) \in {"wait", "terminate"} =>
               /\ wpc' = "push"
               /\ IF Head(todo) = "wait" THEN call.op = "kickAndWait" ELSE call.op \in Ending
      BY <1>1, <2>3, Allocating
    <2>5. WaitedFor(Append(expect, e), wpc', call'.op)
      <3> SUFFICES ASSUME NEW i \in 1 .. Len(Append(expect, e)),
                          Append(expect, e)[i].kind \in {"wait", "terminate"}
                   PROVE  /\ i = Len(Append(expect, e)) /\ wpc' \in {"push", "notify", "await"}
                          /\ IF Append(expect, e)[i].kind = "wait" THEN call'.op = "kickAndWait"
                                                                  ELSE call'.op \in Ending
        BY DEF WaitedFor
      <3>1. i = Len(expect) + 1
        BY <1>none, <2>2, <2>3
      <3> QED
        BY <2>1, <2>2, <2>3, <2>4, <3>1
    <2>6. expect # <<>> => Append(expect, e)[1] = expect[1]
      BY <2>2
    <2> QED
      BY <1>1, <1>none, <2>1, <2>2, <2>3, <2>4, <2>5, <2>6 DEF Threads, Signalled, Ended, DataShape
  <1>8. CASE ExecuteDirectly
    <2>1. CallShape' /\ wpc' \in {"alloc", "idle", "push"}
          /\ (Head(todo) = "wait" => wpc' = "push" /\ call.op = "kickAndWait")
      BY <1>1, <1>8, Allocating DEF ExecuteDirectly
    <2> QED
      BY <1>1, <1>8, <1>none, <2>1 DEF ExecuteDirectly, Threads, WaitedFor, Signalled, Ended, DataShape
  <1>9. CASE FreeDirectly
    <2>1. CASE \E c \in Stash : Free(c) /\ UNCHANGED <<wpc, todo, data, ran>>
      BY <1>1, <1>9, <2>1 DEF FreeDirectly, CallShape, Threads, WaitedFor, Signalled, Ended, DataShape
    <2>2. CASE AfterAllocations /\ data' = NoSlot
      <3>1. CallShape' /\ wpc' \in {"alloc", "idle", "push"}
        BY <1>1, <1>9, <2>2, Allocating DEF FreeDirectly
      <3> QED
        BY <1>1, <1>9, <1>none, <2>2, <3>1 DEF FreeDirectly, Threads, WaitedFor, Signalled, Ended, DataShape
    <2> QED
      BY <1>9, <2>1, <2>2 DEF FreeDirectly
  <1>10. CASE PushMessages
    BY <1>1, <1>10 DEF PushMessages, CallShape, Threads, WaitedFor, Signalled, Ended, DataShape
  <1>11. CASE NotifyAll
    BY <1>1, <1>11 DEF NotifyAll, AfterKick, CallShape, Threads, WaitedFor, Signalled, Ended, DataShape, Ending
  <1>12. CASE AwaitEvent
    BY <1>1, <1>12 DEF AwaitEvent, CallShape, Threads, WaitedFor, Signalled, Ended, DataShape, Ending
  <1>13. CASE JoinConsumer
    BY <1>1, <1>13 DEF JoinConsumer, CallShape, Threads, WaitedFor, Signalled, Ended, DataShape, Ending
  <1>14. CASE Delete
    BY <1>1, <1>14 DEF Delete, CallShape, Threads, WaitedFor, Signalled, Ended, DataShape
  <1>15. CASE KeepFlushing \/ FlushDone \/ ThreadExits \/ StartWaiting \/ SpuriousWakeup
    BY <1>1, <1>15 DEF KeepFlushing, FlushDone, ThreadExits, StartWaiting, SpuriousWakeup, TypeOK,
                       CallShape, Threads, WaitedFor, Signalled, Ended, DataShape
  <1>16. CASE TakeMessage
    BY <1>1, <1>16 DEF TakeMessage, TypeOK, CallShape, Threads, WaitedFor, Signalled, Ended, DataShape
  <1>pull. Pulled.terminate = reader.terminate /\ Pulled.flushed = reader.flushed
    BY <1>1 DEF Pulled, PullFrom, TypeOK
  <1>17. CASE PullUnderLock \/ PullAfterWait
    BY <1>1, <1>17, <1>pull DEF PullUnderLock, PullAfterWait,
                                CallShape, Threads, WaitedFor, Signalled, Ended, DataShape
  <1>18. CASE ExecuteSwitch
    BY <1>1, <1>18, <1>pull, Reading DEF ExecuteSwitch,
                                CallShape, Threads, WaitedFor, Signalled, Ended, DataShape
  <1>19. CASE ExecutePlain \/ ExecuteFreeDone \/ DestroySwitch
    <2>1. Executed /\ cpc \in {"execute", "destroy"} /\ cpc' = "flush"
          /\ UNCHANGED <<writer, written, immediate, wpc, call, todo, data, reader, attached, event>>
      BY <1>19 DEF ExecutePlain, ExecuteFreeDone, DestroySwitch
    <2>2. expect # <<>> /\ WaitedFor(expect', wpc, call.op)
      BY <2>1, Popping
    <2> QED
      BY <1>1, <2>1, <2>2 DEF CallShape, Threads, Signalled, Ended, DataShape
  <1>20. CASE ExecuteFinish
    <2>1. expect # <<>> /\ WaitedFor(expect', wpc, call.op)
      BY <1>20, Popping DEF ExecuteFinish
    <2>2. reader'.terminate = reader.terminate
      BY <1>1, <1>20 DEF ExecuteFinish, TypeOK
    <2> QED
      BY <1>1, <1>20, <2>1, <2>2 DEF ExecuteFinish, CallShape, Threads, Signalled, Ended, DataShape
  <1>21. CASE ExecuteWait
    <2>1. expect # <<>> /\ expect' = <<>> /\ expect[1].kind = "wait" /\ 1 \in 1 .. Len(expect)
          /\ WaitedFor(expect', wpc, call.op)
      BY <1>21, Popping, Reading DEF ExecuteWait
    <2>2. call.op = "kickAndWait" /\ wpc \in {"push", "notify", "await"}
      BY <1>1, <2>1 DEF WaitedFor
    <2> QED
      BY <1>1, <1>21, <2>1, <2>2 DEF ExecuteWait, CallShape, Threads, Signalled, Ended, DataShape
  <1>22. CASE ExecuteTerminate
    <2>1. expect # <<>> /\ expect' = <<>> /\ expect[1].kind = "terminate" /\ 1 \in 1 .. Len(expect)
          /\ WaitedFor(expect', wpc, call.op)
      BY <1>22, Popping, Reading DEF ExecuteTerminate
    <2>2. call.op \in Ending /\ wpc \in {"push", "notify", "await"}
      BY <1>1, <2>1 DEF WaitedFor
    <2>3. reader'.terminate = TRUE /\ reader'.flushed = TRUE
      BY <1>1, <1>22 DEF ExecuteTerminate, TypeOK
    <2> QED
      BY <1>1, <1>22, <2>1, <2>2, <2>3 DEF ExecuteTerminate, CallShape, Threads, Signalled, Ended, DataShape
  <1>23. CASE ExecuteFreeOne
    BY <1>1, <1>23 DEF ExecuteFreeOne, CallShape, Threads, WaitedFor, Signalled, Ended, DataShape
  <1>24. CASE UNCHANGED vars
    BY <1>1, <1>24 DEF vars, CallShape, Threads, WaitedFor, Signalled, Ended, DataShape
  <1> QED
    BY <1>2, <1>3, <1>4, <1>5, <1>6, <1>7, <1>8, <1>9, <1>10, <1>11, <1>12, <1>13, <1>14, <1>15, <1>16,
       <1>17, <1>18, <1>19, <1>20, <1>21, <1>22, <1>23, <1>24
    DEF Next, ProducerStep, ConsumerStep, Gone

-----------------------------------------------------------------------------
(* The counts. *)

\* The counts add up to less than their width.
LEMMA Summing ==
    ASSUME IInv
    PROVE  /\ reader.new \in Nat /\ Behind \in Nat /\ writer.pending \in Nat /\ Len(expect) \in Nat
           /\ reader.new + Behind < CountModulus /\ Behind + writer.pending < CountModulus
           /\ writer.pending <= Len(expect) /\ Len(expect) <= Limit
           /\ InHand = 1 => writer.pending < Len(expect)
  <1>1. TypeOK /\ Counted /\ Len(expect) <= Limit
    BY DEF IInv, Account, Room
  <1>2. reader.new \in Nat /\ Behind \in Nat /\ writer.pending \in Nat /\ Len(expect) \in Nat /\ InHand \in {0, 1}
    BY <1>1, Typed
  <1>3. Len(expect) = InHand + reader.new + Behind + writer.pending
    BY <1>1 DEF Counted
  <1> QED
    BY <1>1, <1>2, <1>3, Sizes, SMTT(30)

LEMMA Pulling ==
    ASSUME IInv
    PROVE  /\ Pulled.new = reader.new + Behind /\ Pulled.snap = written /\ Pulled.last = reader.last
           /\ Minus(written, Pulled.snap) = 0 /\ Pulled.flushed = reader.flushed
  <1>1. TypeOK
    BY DEF IInv
  <1>2. Plus(reader.new, Behind) = reader.new + Behind
    <2>1. reader.new \in Counts /\ Behind \in Counts
      BY <1>1, Typed
    <2>2. reader.new + Behind < CountModulus
      BY Summing
    <2> QED
      BY <2>1, <2>2, CountFacts
  <1>3. Minus(written, written) = 0
    BY <1>1, Typed, CountFacts
  <1>4. Pulled = [reader EXCEPT !.new = Plus(reader.new, Behind), !.snap = written]
    BY DEF Pulled, PullFrom, Behind
  <1>5. Pulled.new = reader.new + Behind /\ Pulled.snap = written /\ Pulled.last = reader.last
        /\ Pulled.flushed = reader.flushed
    BY <1>1, <1>2, <1>4 DEF TypeOK
  <1> QED
    BY <1>3, <1>5

\* Publishing.
LEMMA Pushing ==
    ASSUME IInv
    PROVE  Minus(Pushed, reader.snap) = Behind + writer.pending
  <1>1. TypeOK
    BY DEF IInv
  <1>2. written \in Counts /\ writer.pending \in Counts /\ reader.snap \in Counts
    BY <1>1, Typed
  <1>3. Minus(written, reader.snap) + writer.pending < CountModulus
    BY Summing DEF Behind
  <1> QED
    BY <1>2, <1>3, CountFacts DEF Pushed, Behind

\* Closing a chunk, there is room for what the call still has to write.
LEMMA OpenRoom ==
    ASSUME IInv, wpc = "alloc", ~Fits
    PROVE  /\ Len(expect) + 3 * Len(todo) <= Limit /\ Len(todo) \in Nat /\ Len(todo) >= 1
           /\ Plus(writer.pending, 2) = writer.pending + 2
  <1>1. TypeOK /\ Room /\ CallShape
    BY DEF IInv, Account, Control
  <1>2. Len(todo) \in Nat
    BY <1>1 DEF TypeOK
  <1>3. Len(expect) + 3 * Len(todo) <= Limit
    BY <1>1, <1>2, Summing, Sizes DEF Room
  <1>4. Len(todo) >= 1
    BY <1>1 DEF CallShape
  <1>5. writer.pending + 2 < CountModulus /\ 2 \in Counts
    BY <1>2, <1>3, <1>4, Summing, Sizes DEF Counts
  <1>6. writer.pending \in Counts
    BY <1>1, Typed
  <1>7. Plus(writer.pending, 2) = writer.pending + 2
    BY <1>5, <1>6, CountFacts
  <1> QED
    BY <1>2, <1>3, <1>4, <1>7

LEMMA AccountKept ==
    ASSUME IInv, [Next]_vars
    PROVE  Account'
  <1>1. TypeOK /\ Counted /\ Room /\ Waiting /\ CallShape /\ Threads
    BY DEF IInv, Account, Control
  <1>s. /\ reader.new \in Nat /\ Behind \in Nat /\ writer.pending \in Nat /\ Len(expect) \in Nat
        /\ InHand \in {0, 1} /\ Limit \in Nat /\ MaxOutstanding \in Nat /\ Limit = MaxOutstanding + 6
    BY <1>1, Summing, Typed, Sizes
  <1> USE DEF Account, memVars, modeVars, callVars, consumerKeeps
  <1>2. CASE ProducerBegins
    <2>1. /\ expect' = expect /\ writer' = writer /\ written' = written
          /\ reader'.last = reader.last /\ reader'.snap = reader.snap /\ reader'.new = reader.new
          /\ wpc = "idle"
      BY <1>1, <1>2, Beginning DEF TypeOK
    <2>2. cpc' = cpc \/ (immediate /\ cpc' = "flush")
      BY <1>1, <1>2, Beginning
    <2>3. InHand' = InHand /\ Behind' = Behind
      BY <1>1, <2>1, <2>2 DEF InHand, Behind, Threads
    <2>4. Counted' /\ Waiting'
      BY <1>1, <2>1, <2>2, <2>3 DEF Counted, Waiting
    <2>5. Room'
      <3>1. Fits' <=> Fits
        BY <2>1 DEF Fits
      <3>2. CASE Len(expect) <= MaxOutstanding /\ Len(todo') <= 2
        <4>1. Len(todo') \in Nat
          BY <1>1, <1>2, Beginning
        <4> QED
          BY <1>s, <2>1, <3>2, <4>1 DEF Room
      <3>3. CASE wpc' = "push"
        BY <1>1, <2>1, <3>3 DEF Room
      <3> QED
        BY <1>1, <1>2, <3>2, <3>3, Beginning
    <2> QED
      BY <2>4, <2>5
  <1>3. CASE Attach
    BY <1>1, <1>3 DEF Attach, Counted, Room, Waiting, InHand, Behind, Fits
  <1>4. CASE SwitchChunk
    <2>1. PICK c \in Requestable :
            /\ expect' = expect \o <<Entry(Here, Switch(<<c, 0>>)), Entry(<<c, 0>>, Dummy(<<c, 1>>))>>
            /\ writer' = [chunk |-> c, offset |-> 1, last |-> <<c, 0>>, pending |-> Plus(writer.pending, 2)]
      BY <1>4 DEF SwitchChunk
    <2>2. Len(expect') = Len(expect) + 2
      BY <1>1, <2>1, OpenFacts, Typed, AppendTwoFacts
    <2>3. wpc = "alloc" /\ ~Fits /\ UNCHANGED <<written, reader, wpc, call, todo, cpc>>
      BY <1>4 DEF SwitchChunk
    <2>4. /\ Len(expect) + 3 * Len(todo) <= Limit /\ Len(todo) \in Nat /\ Len(todo) >= 1
          /\ Plus(writer.pending, 2) = writer.pending + 2
      BY <2>3, OpenRoom
    <2>6. writer'.pending = writer.pending + 2
      BY <2>1, <2>4
    <2>7. Fits'
      BY <2>1, SlotFacts DEF Fits
    <2>8. InHand' = InHand /\ Behind' = Behind
      BY <2>3 DEF InHand, Behind
    <2> QED
      <3>1. Counted' /\ Waiting'
        <4>1. Waiting'
          BY <1>1, <2>3, <2>8 DEF Waiting
        <4>2. reader'.new = reader.new /\ Len(expect) = InHand + reader.new + Behind + writer.pending
          BY <1>1, <2>3 DEF Counted
        <4>3. Counted'
          BY <1>s, <2>2, <2>6, <2>8, <4>2 DEF Counted
        <4> QED
          BY <4>1, <4>3
      <3>2. Room'
        BY <1>s, <2>2, <2>3, <2>4, <2>7 DEF Room
      <3> QED
        BY <3>1, <3>2
  <1>5. CASE SwitchChunkImmediate
    <2>1. PICK c \in Requestable :
            /\ writer' = [chunk |-> c, offset |-> 1, last |-> <<c, 0>>, pending |-> 0]
            /\ written' = Plus(written, Plus(writer.pending, 2))
            /\ reader' = ExecutesBoth(PullFrom(written', reader), <<c, 0>>)
      BY <1>5 DEF SwitchChunkImmediate
    <2>2. /\ wpc = "alloc" /\ immediate /\ ~Fits /\ cpc = "none" /\ expect = <<>>
          /\ UNCHANGED <<wpc, todo, cpc, expect>>
      BY <1>1, <1>5 DEF SwitchChunkImmediate, Threads
    <2>3. reader.new = 0 /\ Behind = 0 /\ writer.pending = 0 /\ written = reader.snap
      BY <2>2, Drained
    <2>4. 0 \in Counts /\ 2 \in Counts /\ written \in Counts
      BY <1>1, Typed, Sizes DEF Counts, Limit
    <2>5. Plus(0, 2) = 2 /\ written' \in Counts /\ Minus(written', written) = 2
      <3>1. Plus(0, 2) = 2
        BY <2>4, Sizes DEF Plus, Limit
      <3>2. Minus(written, written) = 0
        BY <2>4, CountFacts
      <3>3. Minus(Plus(written, 2), written) = 2
        BY <2>4, <3>2, CountFacts, Sizes DEF Limit
      <3> QED
        BY <2>1, <2>3, <2>4, <3>1, <3>3, CountFacts
    <2>6. Minus(Plus(reader.new, Minus(written', reader.snap)), 2) = 0
      BY <2>3, <2>4, <2>5, CountFacts
    <2>7. reader'.new = 0 /\ reader'.snap = written'
      BY <1>1, <2>1, <2>6 DEF ExecutesBoth, PullFrom, TypeOK
    <2>8. Behind' = 0
      BY <2>5, <2>7, CountFacts DEF Behind
    <2>9. writer'.pending = 0 /\ writer'.offset = 1
      BY <2>1
    <2>10. Counted' /\ Waiting'
      BY <2>2, <2>7, <2>8, <2>9 DEF Counted, Waiting, InHand
    <2>11. Fits'
      BY <2>9, SlotFacts DEF Fits
    <2>12. Len(todo) \in Nat
      BY <1>1 DEF TypeOK
    <2> QED
      BY <1>1, <1>s, <2>2, <2>10, <2>11, <2>12 DEF Room
  <1>6. CASE AllocateData
    <2>1. /\ Len(todo) \in 1 .. 2 /\ Len(todo') = Len(todo) - 1 /\ wpc = "alloc"
      BY <1>1, <1>6, Allocating DEF AllocateData
    <2>2. writer'.pending = writer.pending
      BY <1>1, <1>6 DEF AllocateData, TypeOK
    <2> QED
      BY <1>1, <1>s, <1>6, <2>1, <2>2, SMTT(30) DEF AllocateData, Counted, Room, Waiting, InHand, Behind
  <1>7. CASE AllocateMessage
    <2>1. /\ wpc = "alloc" /\ AfterAllocations /\ call' = call /\ UNCHANGED <<written, reader, cpc>>
          /\ writer' = [writer EXCEPT !.offset = @ + 1, !.last = Here, !.pending = Plus(@, 1)]
      BY <1>7 DEF AllocateMessage
    <2>2. Len(todo) \in 1 .. 2 /\ Len(todo') = Len(todo) - 1
      BY <1>1, <2>1, Allocating
    <2>3. Len(expect') = Len(expect) + 1
      BY <1>1, <1>7, WriteFacts, Typed, AppendFacts
    <2>4. Len(expect) + 3 * Len(todo) <= Limit + 2
      BY <1>1, <1>s, <2>1, <2>2 DEF Room
    <2>5. writer'.pending = writer.pending + 1
      <3>1. writer.pending + 1 < CountModulus /\ 1 \in Counts
        BY <1>s, <2>2, <2>4, Summing, Sizes DEF Counts
      <3>2. Plus(writer.pending, 1) = writer.pending + 1
        <4>1. writer.pending \in Counts
          BY <1>1, Typed
        <4> QED
          BY <3>1, <4>1, CountFacts
      <3> QED
        BY <1>1, <2>1, <3>2 DEF TypeOK
    <2>6. InHand' = InHand /\ Behind' = Behind
      BY <2>1 DEF InHand, Behind
    <2> QED
      <3>1. Counted' /\ Waiting'
        <4>1. Waiting'
          BY <1>1, <2>1, <2>2, <2>6 DEF Waiting
        <4>2. reader'.new = reader.new /\ Len(expect) = InHand + reader.new + Behind + writer.pending
          BY <1>1, <2>1 DEF Counted
        <4>3. Counted'
          BY <1>s, <2>3, <2>5, <2>6, <4>2 DEF Counted
        <4> QED
          BY <4>1, <4>3
      <3>2. Room'
        BY <1>s, <2>1, <2>2, <2>3, <2>4 DEF Room
      <3> QED
        BY <3>1, <3>2
  <1>8. CASE ExecuteDirectly
    <2>1. Len(todo) \in 1 .. 2 /\ Len(todo') = Len(todo) - 1 /\ wpc = "alloc" /\ immediate
      BY <1>1, <1>8, Allocating DEF ExecuteDirectly
    <2> QED
      <3>1. UNCHANGED <<expect, writer, written, reader, cpc>> /\ expect = <<>> /\ cpc = "none"
        BY <1>1, <1>8, <2>1 DEF ExecuteDirectly, Threads
      <3>2. Counted' /\ Waiting'
        BY <1>1, <3>1 DEF Counted, Waiting, InHand, Behind
      <3>3. Room'
        BY <1>s, <2>1, <3>1 DEF Room
      <3> QED
        BY <3>2, <3>3
  <1>9. CASE FreeDirectly
    <2>1. CASE \E c \in Stash : Free(c) /\ UNCHANGED <<wpc, todo, data, ran>>
      BY <1>1, <1>9, <2>1 DEF FreeDirectly, Counted, Room, Waiting, InHand, Behind, Fits
    <2>2. CASE AfterAllocations
      <3>1. Len(todo) \in 1 .. 2 /\ Len(todo') = Len(todo) - 1 /\ wpc = "alloc" /\ immediate
        BY <1>1, <1>9, <2>2, Allocating DEF FreeDirectly
      <3> QED
        BY <1>1, <1>s, <1>9, <3>1 DEF FreeDirectly, Counted, Room, Waiting, InHand, Behind, Fits, Threads
    <2> QED
      BY <1>9, <2>1, <2>2 DEF FreeDirectly
  <1>10. CASE PushMessages
    <2>1. /\ written' = Pushed /\ writer'.pending = 0 /\ wpc' = "notify"
          /\ UNCHANGED <<expect, reader, cpc>>
      BY <1>1, <1>10 DEF PushMessages, TypeOK
    <2>2. Behind' = Behind + writer.pending /\ InHand' = InHand
      BY <2>1, Pushing DEF Behind, InHand
    <2>3. Counted'
      BY <1>1, <1>s, <2>1, <2>2, SMTT(30) DEF Counted
    <2>4. Room' /\ Waiting'
      BY <1>1, <2>1 DEF Room, Waiting
    <2> QED
      BY <2>3, <2>4
  <1>11. CASE NotifyAll
    <2>1. cpc' \notin {"locked", "waiting"} /\ (cpc \in {"execute", "destroy"} <=> cpc' \in {"execute", "destroy"})
      BY <1>11 DEF NotifyAll, MutexFree
    <2>2. wpc' \in {"await", "idle"} /\ UNCHANGED <<expect, reader, writer, written>>
      BY <1>11 DEF NotifyAll, AfterKick
    <2> QED
      BY <1>1, <2>1, <2>2 DEF Counted, Room, Waiting, InHand, Behind
  <1>12. CASE AwaitEvent
    BY <1>1, <1>12 DEF AwaitEvent, Counted, Room, Waiting, InHand, Behind
  <1>13. CASE JoinConsumer
    BY <1>1, <1>13 DEF JoinConsumer, Counted, Room, Waiting, InHand, Behind
  <1>14. CASE Delete
    BY <1>1, <1>14 DEF Delete, Counted, Room, Waiting, InHand, Behind
  <1>15. CASE KeepFlushing \/ FlushDone \/ ThreadExits \/ StartWaiting \/ SpuriousWakeup
    <2>1. reader'.snap = reader.snap /\ reader'.new = reader.new
      BY <1>1, <1>15 DEF KeepFlushing, FlushDone, ThreadExits, StartWaiting, SpuriousWakeup, TypeOK
    <2> QED
      BY <1>1, <1>15, <2>1 DEF KeepFlushing, FlushDone, ThreadExits, StartWaiting, SpuriousWakeup,
                       Counted, Room, Waiting, InHand, Behind, Fits
  <1>16. CASE TakeMessage
    <2>1. reader.new > 0 /\ InHand = 0 /\ InHand' = 1
      BY <1>16 DEF TakeMessage, HasNewMessage, InHand
    <2>2. Minus(reader.new, 1) = reader.new - 1
      <3>1. 1 \in Counts /\ reader.new \in Counts
        BY <1>1, Typed, Sizes DEF Counts, Limit
      <3> QED
        BY <1>s, <2>1, <3>1, CountFacts
    <2>3. reader'.new = reader.new - 1 /\ reader'.snap = reader.snap
      BY <1>1, <1>16, <2>2 DEF TakeMessage, TypeOK
    <2>4. UNCHANGED <<expect, writer, written, wpc, todo>> /\ cpc' = "execute"
      BY <1>16 DEF TakeMessage
    <2> QED
      BY <1>1, <1>s, <2>1, <2>3, <2>4, SMTT(30) DEF Counted, Room, Waiting, Behind, Fits
  <1>17. CASE PullUnderLock \/ PullAfterWait \/ ExecuteSwitch
    <2>1. /\ UNCHANGED <<expect, writer, written, wpc, todo>> /\ reader' = Pulled /\ InHand' = InHand
          /\ cpc' = "locked" => ~HasNewMessage(reader') /\ cpc = "read"
          /\ cpc' # "waiting"
      BY <1>17 DEF PullUnderLock, PullAfterWait, ExecuteSwitch, InHand
    <2>2. reader'.new = reader.new + Behind /\ Behind' = 0
      BY <2>1, Pulling DEF Behind
    <2>3. cpc' = "locked" => reader'.new = 0
      <3>1. cpc = "read" => ~reader.flushed
        BY DEF IInv, Control, Ended
      <3> QED
        BY <1>s, <2>1, <2>2, <3>1, Pulling DEF HasNewMessage
    <2> QED
      BY <1>1, <1>s, <2>1, <2>2, <2>3 DEF Counted, Room, Waiting, Fits
  <1>18. CASE ExecutePlain \/ ExecuteFinish \/ ExecuteWait \/ ExecuteTerminate \/ ExecuteFreeDone
              \/ DestroySwitch
    <2>1. /\ Executed /\ cpc \in {"execute", "destroy"} /\ cpc' = "flush"
          /\ UNCHANGED <<writer, written, wpc, todo>>
          /\ reader'.new = reader.new /\ reader'.snap = reader.snap
      BY <1>1, <1>18 DEF ExecutePlain, ExecuteFinish, ExecuteWait, ExecuteTerminate, ExecuteFreeDone,
                   DestroySwitch, TypeOK
    <2>2. Len(expect') = Len(expect) - 1
      BY <2>1, Popping
    <2>3. InHand = 1 /\ InHand' = 0 /\ Behind' = Behind
      BY <2>1 DEF InHand, Behind
    <2>4. Len(todo) \in Nat
      BY <1>1 DEF TypeOK
    <2> QED
      BY <1>1, <1>s, <2>1, <2>2, <2>3, <2>4, SMTT(30) DEF Counted, Room, Waiting, Fits
  <1>23. CASE ExecuteFreeOne
    BY <1>1, <1>23 DEF ExecuteFreeOne, Counted, Room, Waiting, InHand, Behind, Fits
  <1>24. CASE UNCHANGED vars
    BY <1>1, <1>24 DEF vars, Counted, Room, Waiting, InHand, Behind, Fits
  <1> QED
    BY <1>2, <1>3, <1>4, <1>5, <1>6, <1>7, <1>8, <1>9, <1>10, <1>11, <1>12, <1>13, <1>14, <1>15, <1>16,
       <1>17, <1>18, <1>23, <1>24
    DEF Next, ProducerStep, ConsumerStep, Gone

-----------------------------------------------------------------------------
(* The pointers and the places. *)

Picture == Chain /\ Places

\* A step that touches neither the memory nor what points into it.
LEMMA PictureFramed ==
    ASSUME IInv, mem' = mem, home' = home, expect' = expect,
           writer'.chunk = writer.chunk, writer'.offset = writer.offset, writer'.last = writer.last,
           reader'.last = reader.last, InHand' = InHand, wpc # "gone",
           data' = NoSlot \/ (data' = data /\ call' = call /\ writer'.pending = writer.pending)
    PROVE  Picture'
  <1>1. Chain /\ Places
    BY DEF IInv
  <1>2. Here' = Here
    BY DEF Here
  <1>3. Chain'
    BY <1>1, <1>2 DEF Chain
  <1>4. Prepared(expect', mem', home', writer'.chunk, writer'.offset, data', call'.body, writer'.pending)
    <2>1. CASE data' = NoSlot
      BY <2>1 DEF Prepared
    <2>2. CASE data' = data /\ call' = call /\ writer'.pending = writer.pending
      BY <1>1, <2>2 DEF Places
    <2> QED
      BY <2>1, <2>2
  <1>5. Places'
    BY <1>1, <1>4 DEF Places
  <1> QED
    BY <1>3, <1>5 DEF Picture

LEMMA TakeKeeps ==
    ASSUME IInv, TakeMessage
    PROVE  Picture'
  <1>1. TypeOK /\ Chain /\ Places /\ Threads
    BY DEF IInv, Control
  <1>2. /\ reader.new > 0 /\ InHand = 0 /\ InHand' = 1 /\ wpc # "gone"
        /\ UNCHANGED <<mem, home, expect, writer, data, call, wpc>>
        /\ reader'.last = mem[reader.last].next
    BY <1>1 DEF TakeMessage, HasNewMessage, InHand, consumerKeeps, callVars, memVars, TypeOK, Threads
  <1>3. expect # <<>> /\ reader'.last = expect[1].at
    BY <1>2, Taking
  <1>4. Here' = Here
    BY <1>2 DEF Here
  <1>5. Chain'
    BY <1>1, <1>2, <1>3, <1>4 DEF Chain, Linked
  <1>6. 1 \in 1 .. Len(expect)
    BY <1>1, <1>3, Typed, TailFacts
  <1>7. Standing(expect, home, writer.chunk, writer.offset, reader'.last, 1)
    BY <1>1, <1>2, <1>3, <1>6 DEF Places, Housed, Standing
  <1>8. Places'
    BY <1>1, <1>2, <1>7 DEF Places
  <1> QED
    BY <1>5, <1>8 DEF Picture

\* Every message but a switch is left where it is.
LEMMA PopKeeps ==
    ASSUME IInv, Executed, cpc = "execute", cpc' = "flush", reader'.last = reader.last,
           UNCHANGED <<mem, home, writer, data, call, wpc>>
    PROVE  Picture'
  <1>1. TypeOK /\ Chain /\ Places
    BY DEF IInv
  <1>2. /\ InHand = 1 /\ InHand' = 0 /\ wpc # "gone" /\ expect # <<>> /\ reader.last = expect[1].at
        /\ expect \in Seq(Entries) /\ expect' = Tail(expect) /\ Here' = Here
    BY <1>1, Reading, Popping, Typed DEF InHand, Here
  <1>3. Chain'
    BY <1>1, <1>2, PopLinked DEF Chain
  <1>4. Switching(Tail(expect), writer.chunk)
    BY <1>1, <1>2, PopSwitching DEF Places
  <1>5. /\ Housed(Tail(expect), home, writer.chunk, writer.offset)
        /\ Standing(Tail(expect), home, writer.chunk, writer.offset, reader.last, 0)
    BY <1>1, <1>2, PopHoused DEF Places
  <1>6. Supplied(Tail(expect), mem, home, writer.chunk, writer.offset)
    BY <1>1, <1>2, PopSupplied DEF Places
  <1>7. Prepared(Tail(expect), mem, home, writer.chunk, writer.offset, data, call.body, writer.pending)
    BY <1>1, <1>2, PopPrepared DEF Places
  <1>8. Places'
    BY <1>2, <1>4, <1>5, <1>6, <1>7 DEF Places
  <1> QED
    BY <1>3, <1>8 DEF Picture

LEMMA LeaveKeeps ==
    ASSUME IInv, DestroySwitch
    PROVE  Picture'
  <1>1. TypeOK /\ Chain /\ Places
    BY DEF IInv
  <1>2. /\ Executed /\ cpc = "destroy" /\ cpc' = "flush" /\ Recycle(reader.last[1])
        /\ UNCHANGED <<writer, data, call, wpc, reader, mem>>
    BY DEF DestroySwitch, consumerKeeps, callVars, Recycle
  <1>3. /\ InHand = 1 /\ InHand' = 0 /\ wpc # "gone" /\ expect # <<>> /\ reader.last = expect[1].at
        /\ expect \in Seq(Entries) /\ expect' = Tail(expect) /\ Here' = Here
    BY <1>1, <1>2, Reading, Popping, Typed DEF InHand, Here
  <1>4. expect[1].kind = "switch"
    BY <1>2 DEF IInv, Control, Ended
  <1>5. /\ writer.chunk \in Chunks /\ writer.pending \in Nat /\ writer.pending < Len(expect)
        /\ data \in Slots \cup {NoSlot} /\ expect[1].at[1] \in Chunks
    BY <1>1, <1>3, Typed, Summing, SlotFacts
  <1>6. home'[expect[1].at[1]] = "stash" /\ \A c \in Chunks : c # expect[1].at[1] => home'[c] = home[c]
    BY <1>1, <1>2, <1>3, <1>5 DEF Recycle, TypeOK
  <1>7. Chain'
    BY <1>1, <1>2, <1>3, PopLinked DEF Chain
  <1> DEFINE g == home'
  <1>8. g[expect[1].at[1]] = "stash" /\ \A c \in Chunks : c # expect[1].at[1] => g[c] = home[c]
    BY <1>6
  <1> HIDE DEF g
  <1>9. Switching(Tail(expect), writer.chunk)
    BY <1>1, <1>3, PopSwitching DEF Places
  <1>10. /\ Housed(Tail(expect), g, writer.chunk, writer.offset)
         /\ Standing(Tail(expect), g, writer.chunk, writer.offset, reader.last, 0)
    BY <1>1, <1>3, <1>4, <1>5, <1>8, LeaveHoused DEF Places
  <1>11. Supplied(Tail(expect), mem, g, writer.chunk, writer.offset)
    BY <1>1, <1>3, <1>4, <1>5, <1>8, LeaveSupplied DEF Places
  <1>12. Prepared(Tail(expect), mem, g, writer.chunk, writer.offset, data, call.body, writer.pending)
    BY <1>1, <1>3, <1>4, <1>5, <1>8, LeavePrepared DEF Places
  <1>13. Places'
    BY <1>2, <1>3, <1>9, <1>10, <1>11, <1>12 DEF Places, g
  <1> QED
    BY <1>7, <1>13 DEF Picture

LEMMA WriteKeeps ==
    ASSUME IInv, AllocateMessage
    PROVE  Picture'
  <1>1. TypeOK /\ Chain /\ Places /\ CallShape /\ DataShape
    BY DEF IInv, Control
  <1>2. PICK e \in Entries :
             /\ expect' = Append(expect, e) /\ e.kind = Head(todo) /\ e.data = data
             /\ e = Entry(Here, mem'[Here]) /\ mem'[Here].next = AfterHere /\ e.at = Here
             /\ e.kind = "work" => e.body = call.body
             /\ \A s \in Slots : s # Here => mem'[s] = mem[s]
    BY <1>1, WriteFacts
  <1>3. /\ wpc = "alloc" /\ Fits /\ UNCHANGED <<home, reader, cpc, call>> /\ data' = NoSlot
        /\ AfterAllocations
        /\ writer' = [writer EXCEPT !.offset = @ + 1, !.last = Here, !.pending = Plus(@, 1)]
    BY DEF AllocateMessage
  <1>4. writer'.chunk = writer.chunk /\ writer'.offset = writer.offset + 1 /\ writer'.last = Here
    BY <1>1, <1>3 DEF TypeOK
  <1>5. Here' = AfterHere /\ InHand' = InHand /\ Here = <<writer.chunk, writer.offset>>
    BY <1>3, <1>4 DEF Here, AfterHere, InHand
  <1>6. /\ expect \in Seq(Entries) /\ writer.chunk \in Chunks /\ writer.offset \in 0 .. ChunkSlots - 1
        /\ reader.last \in Slots /\ InHand \in {0, 1} /\ Here \in Slots /\ data \in Slots \cup {NoSlot}
    BY <1>1, Typed
  <1>7. /\ Switching(expect, writer.chunk)
        /\ Housed(expect, home, writer.chunk, writer.offset)
        /\ Standing(expect, home, writer.chunk, writer.offset, reader.last, InHand)
        /\ Supplied(expect, mem, home, writer.chunk, writer.offset)
        /\ Prepared(expect, mem, home, writer.chunk, writer.offset, data, call.body, writer.pending)
    BY <1>1, <1>3 DEF Places
  <1>8. \A i \in 1 .. Len(expect) : expect[i].at # Here
    BY <1>5, <1>6, <1>7, NotHere
  <1>9. reader.last # Here
    BY <1>5, <1>6, <1>7, NotHere
  <1> DEFINE n == mem'
  <1>10. e = Entry(Here, n[Here]) /\ n[Here].next = AfterHere /\ \A s \in Slots : s # Here => n[s] = mem[s]
    BY <1>2
  <1> HIDE DEF n
  <1>11. Linked(expect, mem, Here, writer.last, reader.last, InHand)
    BY <1>1 DEF Chain
  <1>12. Linked(Append(expect, e), n, AfterHere, Here, reader.last, InHand)
    BY <1>6, <1>8, <1>9, <1>10, <1>11, AppendLinked
  <1>13. Chain'
    BY <1>2, <1>3, <1>4, <1>5, <1>12 DEF Chain, n
  <1>14. e.kind # "switch"
    BY <1>1, <1>2, <1>3, Allocating DEF WorkKinds, ControlKinds
  <1>15. e.at = <<writer.chunk, writer.offset>>
    BY <1>2, <1>5
  <1>16. /\ Switching(Append(expect, e), writer.chunk)
         /\ Housed(Append(expect, e), home, writer.chunk, writer.offset + 1)
         /\ Standing(Append(expect, e), home, writer.chunk, writer.offset + 1, reader.last, InHand)
    BY <1>6, <1>7, <1>14, <1>15, AppendPlaced
  <1>17. data # NoSlot => e.kind = "work" /\ e.body = call.body
    <2>1. data # NoSlot => todo = <<"work">>
      BY <1>1 DEF DataShape
    <2>2. Head(<<"work">>) = "work"
      OBVIOUS
    <2> QED
      BY <1>2, <2>1, <2>2
  <1>18. Supplied(Append(expect, e), n, home, writer.chunk, writer.offset + 1)
    <2>1. \A s \in Slots : s # <<writer.chunk, writer.offset>> => n[s] = mem[s]
      BY <1>5, <1>10
    <2>2. e.data = data
      BY <1>2
    <2> QED
      BY <1>6, <1>7, <1>17, <2>1, <2>2, AppendSupplied
  <1>19. Prepared(expect', mem', home', writer'.chunk, writer'.offset, data', call'.body, writer'.pending)
    BY <1>3 DEF Prepared
  <1>20. Places'
    BY <1>2, <1>3, <1>4, <1>5, <1>16, <1>18, <1>19 DEF Places, n
  <1> QED
    BY <1>13, <1>20 DEF Picture

LEMMA DataKeeps ==
    ASSUME IInv, AllocateData
    PROVE  Picture'
  <1>1. TypeOK /\ Chain /\ Places /\ CallShape /\ DataShape
    BY DEF IInv, Control
  <1>2. /\ wpc = "alloc" /\ Fits /\ UNCHANGED <<home, expect, reader, cpc, call>> /\ data' = Here
        /\ AfterAllocations /\ Head(todo) = "data"
        /\ mem' = [mem EXCEPT ![Here] = [kind |-> "data", body |-> call.body,
                                         next |-> NoSlot, data |-> NoSlot],
                              ![writer.last].next = AfterHere]
        /\ writer' = [writer EXCEPT !.offset = @ + 1]
    BY DEF AllocateData
  <1>3. writer'.chunk = writer.chunk /\ writer'.offset = writer.offset + 1 /\ writer'.last = writer.last
    BY <1>1, <1>2 DEF TypeOK
  <1>4. Here' = AfterHere /\ InHand' = InHand /\ Here = <<writer.chunk, writer.offset>>
    BY <1>2, <1>3 DEF Here, AfterHere, InHand
  <1>5. /\ expect \in Seq(Entries) /\ writer.chunk \in Chunks /\ writer.offset \in 0 .. ChunkSlots - 1
        /\ reader.last \in Slots /\ InHand \in {0, 1} /\ Here \in Slots /\ writer.last \in Slots
        /\ Here[1] = writer.chunk /\ Here[2] = writer.offset /\ writer.offset \in Nat
    BY <1>1, Typed
  <1>6. /\ Switching(expect, writer.chunk)
        /\ Housed(expect, home, writer.chunk, writer.offset)
        /\ Standing(expect, home, writer.chunk, writer.offset, reader.last, InHand)
        /\ Supplied(expect, mem, home, writer.chunk, writer.offset)
    BY <1>1, <1>2 DEF Places
  <1>7. /\ \A i \in 1 .. Len(expect) : expect[i].at # Here
        /\ reader.last # Here
        /\ \A s \in Slots : Passed(s, writer.chunk, writer.offset) => s # Here
    BY <1>4, <1>5, <1>6, NotHere
  <1>8. Linked(expect, mem, Here, writer.last, reader.last, InHand)
    BY <1>1 DEF Chain
  <1>9. writer.last # Here
    <2>1. CASE expect = <<>>
      BY <1>7, <1>8, <2>1 DEF Linked
    <2>2. CASE expect # <<>>
      <3>1. Len(expect) \in 1 .. Len(expect)
        BY <1>5, <2>2, TailFacts
      <3> QED
        BY <1>7, <1>8, <2>2, <3>1 DEF Linked
    <2> QED
      BY <2>1, <2>2
  <1> DEFINE n == mem'
  <1>10. /\ \A s \in Slots : s # Here /\ s # writer.last => n[s] = mem[s]
         /\ n[writer.last].kind = mem[writer.last].kind /\ n[writer.last].body = mem[writer.last].body
         /\ n[writer.last].data = mem[writer.last].data /\ n[writer.last].next = AfterHere
         /\ n[Here].kind = "data" /\ n[Here].body = call.body
    <2>1. mem \in [Slots -> Cells] /\ mem[writer.last] \in Cells
      BY <1>1, <1>5 DEF TypeOK
    <2>2. n[writer.last] = [mem[writer.last] EXCEPT !.next = AfterHere]
      BY <1>2, <1>5, <1>9, <2>1
    <2>3. /\ n[writer.last].kind = mem[writer.last].kind /\ n[writer.last].body = mem[writer.last].body
          /\ n[writer.last].data = mem[writer.last].data /\ n[writer.last].next = AfterHere
      BY <2>1, <2>2 DEF Cells
    <2>4. \A s \in Slots : s # Here /\ s # writer.last => n[s] = mem[s]
      BY <1>2, <1>5, <2>1
    <2>5. n[Here] = [kind |-> "data", body |-> call.body, next |-> NoSlot, data |-> NoSlot]
      BY <1>2, <1>5, <1>9, <2>1
    <2>6. n[Here].kind = "data" /\ n[Here].body = call.body
      BY <2>5
    <2> QED
      BY <2>3, <2>4, <2>6
  <1> HIDE DEF n
  <1>11. InHand = 0 => reader.last # Here /\ \A i \in 1 .. Len(expect) : expect[i].at # reader.last
    BY <1>6, <1>7 DEF Standing
  <1>12. \A i, j \in 1 .. Len(expect) : expect[i].at = expect[j].at => i = j
    BY <1>6 DEF Housed
  <1>13. Linked(expect, n, AfterHere, writer.last, reader.last, InHand)
    BY <1>5, <1>7, <1>8, <1>10, <1>11, <1>12, DataLinked, SMTT(30)
  <1>14. Chain'
    BY <1>2, <1>3, <1>4, <1>13 DEF Chain, n
  <1>15. /\ Housed(expect, home, writer.chunk, writer.offset + 1)
         /\ Standing(expect, home, writer.chunk, writer.offset + 1, reader.last, InHand)
    BY <1>5, <1>6, PassPlaced
  <1>16. Supplied(expect, n, home, writer.chunk, writer.offset + 1)
    <2>1. \A s \in Slots : Passed(s, writer.chunk, writer.offset) =>
             /\ n[s].kind = mem[s].kind /\ n[s].body = mem[s].body
             /\ Passed(s, writer.chunk, writer.offset + 1)
      <3> SUFFICES ASSUME NEW s \in Slots, Passed(s, writer.chunk, writer.offset)
                   PROVE  /\ n[s].kind = mem[s].kind /\ n[s].body = mem[s].body
                          /\ Passed(s, writer.chunk, writer.offset + 1)
        OBVIOUS
      <3>1. s # Here /\ s[2] \in Nat
        BY <1>7, SlotFacts
      <3>2. n[s].kind = mem[s].kind /\ n[s].body = mem[s].body
        BY <1>10, <3>1
      <3> QED
        BY <1>5, <3>1, <3>2 DEF Passed
    <2>2. Len(expect) <= Len(expect) /\ \A i \in 1 .. Len(expect) : ~(i > Len(expect))
      BY <1>5, Fields
    <2> QED
      BY <1>5, <1>6, <2>1, <2>2, SuppliedKept
  <1>17. Prepared(expect, n, home, writer.chunk, writer.offset + 1, Here, call.body, writer.pending)
    <2>1. home[writer.chunk] = "used"
      BY <1>6 DEF Housed
    <2>2. Passed(Here, writer.chunk, writer.offset + 1)
      BY <1>5 DEF Passed
    <2> QED
      BY <1>5, <1>10, <2>1, <2>2 DEF Prepared
  <1>18. writer'.pending = writer.pending
    BY <1>1, <1>2 DEF TypeOK
  <1>19. Places'
    BY <1>2, <1>3, <1>4, <1>6, <1>15, <1>16, <1>17, <1>18 DEF Places, n
  <1> QED
    BY <1>14, <1>19 DEF Picture

LEMMA OpenKeeps ==
    ASSUME IInv, SwitchChunk
    PROVE  Picture'
  <1>1. TypeOK /\ Chain /\ Places
    BY DEF IInv
  <1>2. PICK c \in Requestable :
            /\ home' = [home EXCEPT ![c] = "used"]
            /\ mem' = [mem EXCEPT ![Here] = Switch(<<c, 0>>), ![<<c, 0>>] = Dummy(<<c, 1>>)]
            /\ writer' = [chunk |-> c, offset |-> 1, last |-> <<c, 0>>, pending |-> Plus(writer.pending, 2)]
            /\ expect' = expect \o <<Entry(Here, Switch(<<c, 0>>)), Entry(<<c, 0>>, Dummy(<<c, 1>>))>>
    BY DEF SwitchChunk
  <1>3. wpc = "alloc" /\ ~Fits /\ UNCHANGED <<reader, wpc, call, data, cpc>>
    BY DEF SwitchChunk, callVars
  <1> DEFINE e == Entry(Here, Switch(<<c, 0>>))
             f == Entry(<<c, 0>>, Dummy(<<c, 1>>))
             T == expect'
             n == mem'
             g == home'
  <1>4. /\ writer'.chunk = c /\ writer'.offset = 1 /\ writer'.last = <<c, 0>>
        /\ writer'.pending = Plus(writer.pending, 2) /\ Here' = <<c, 1>> /\ InHand' = InHand
    BY <1>2, <1>3 DEF Here, InHand
  <1>5. /\ reader.last \in Slots /\ InHand \in {0, 1} /\ data \in Slots \cup {NoSlot}
        /\ Here = <<writer.chunk, writer.offset>> /\ writer.offset \in Nat
    BY <1>1, Typed DEF Here
  <1>6. Opening(expect, T, e, f, mem, n, home, g, writer.chunk, writer.offset, c)
    <2>1. /\ expect \in Seq(Entries) /\ writer.chunk \in Chunks /\ writer.offset \in 0 .. ChunkSlots - 1
          /\ Here \in Slots /\ Here[1] = writer.chunk
      BY <1>1, Typed
    <2>2. /\ c \in Chunks /\ home[c] # "used" /\ home[c] # "stash" /\ <<c, 0>> \in Slots /\ <<c, 0>>[1] = c
          /\ e \in Entries /\ f \in Entries
          /\ e.kind = "switch" /\ e.at = <<writer.chunk, writer.offset>> /\ e.data = NoSlot
          /\ f.kind = "dummy" /\ f.at = <<c, 0>> /\ f.data = NoSlot
          /\ Switch(<<c, 0>>).next = <<c, 0>> /\ Dummy(<<c, 1>>).next = <<c, 1>>
      BY <1>1, OpenFacts
    <2>3. g[c] = "used" /\ \A d \in Chunks : d # c => g[d] = home[d]
      BY <1>1, <1>2, <2>2 DEF TypeOK
    <2>4. c # writer.chunk
      BY <1>1, <1>3, <2>2 DEF Places, Housed
    <2>5. /\ n[Here] = Switch(<<c, 0>>) /\ n[<<c, 0>>] = Dummy(<<c, 1>>)
          /\ \A s \in Slots : s # Here /\ s # <<c, 0>> => n[s] = mem[s]
      BY <1>1, <1>2, <2>1, <2>2, <2>4 DEF TypeOK
    <2>6. T = expect \o <<e, f>> /\ e = Entry(Here, n[Here]) /\ f = Entry(<<c, 0>>, n[<<c, 0>>])
      BY <1>2, <2>5
    <2> HIDE DEF e, f, n, g, T
    <2> QED
      BY <1>5, <2>1, <2>2, <2>3, <2>5, <2>6 DEF Opening
  <1> HIDE DEF e, f, T, n, g
  <1>7. /\ Switching(expect, writer.chunk)
        /\ Housed(expect, home, writer.chunk, writer.offset)
        /\ Standing(expect, home, writer.chunk, writer.offset, reader.last, InHand)
        /\ Supplied(expect, mem, home, writer.chunk, writer.offset)
        /\ Prepared(expect, mem, home, writer.chunk, writer.offset, data, call.body, writer.pending)
        /\ Linked(expect, mem, <<writer.chunk, writer.offset>>, writer.last, reader.last, InHand)
    BY <1>1, <1>3, <1>5 DEF Places, Chain
  <1>8. InHand = 1 => expect # <<>> /\ reader.last = expect[1].at
    BY <1>7 DEF Linked
  <1>9. Linked(T, n, <<c, 1>>, <<c, 0>>, reader.last, InHand)
    BY <1>5, <1>6, <1>7, OpenLinked
  <1>10. /\ Switching(T, c) /\ Housed(T, g, c, 1) /\ Standing(T, g, c, 1, reader.last, InHand)
    BY <1>5, <1>6, <1>7, <1>8, OpenPlaced
  <1>11. Supplied(T, n, g, c, 1)
    BY <1>6, <1>7, OpenSupplied
  <1>12. Prepared(T, n, g, c, 1, data, call.body, writer'.pending)
    <2>1. writer.offset # 1
      BY <1>3, <1>5, SlotFacts DEF Fits
    <2>2. writer'.pending >= 2
      <3>1. Plus(writer.pending, 2) = writer.pending + 2
        BY <1>3, OpenRoom
      <3> QED
        BY <1>4, <3>1, Summing
    <2> QED
      BY <1>5, <1>6, <1>7, <2>1, <2>2, OpenPrepared
  <1>13. Chain' /\ Places'
    BY <1>3, <1>4, <1>9, <1>10, <1>11, <1>12 DEF Chain, Places, T, n, g
  <1> QED
    BY <1>13 DEF Picture

\* An empty queue: the reader stands on the dummy that opens the writer's chunk.
LEMMA AtRest ==
    ASSUME NEW m, NEW h, NEW c \in Chunks, NEW body, NEW pending, h[c] = "used",
           m[<<c, 0>>].next = <<c, 1>>
    PROVE  /\ Linked(<<>>, m, <<c, 1>>, <<c, 0>>, <<c, 0>>, 0)
           /\ Switching(<<>>, c) /\ Housed(<<>>, h, c, 1) /\ Standing(<<>>, h, c, 1, <<c, 0>>, 0)
           /\ Supplied(<<>>, m, h, c, 1) /\ Prepared(<<>>, m, h, c, 1, NoSlot, body, pending)
  <1>1. Len(<<>>) = 0 /\ (1 .. 0) = {} /\ After(<<>>, <<c, 1>>, 0) = <<c, 1>>
    BY DEF After
  <1>2. <<c, 0>>[1] = c /\ <<c, 0>>[2] = 0 /\ Passed(<<c, 0>>, c, 1)
    BY SlotFacts DEF Passed
  <1>3. Linked(<<>>, m, <<c, 1>>, <<c, 0>>, <<c, 0>>, 0)
    BY <1>1 DEF Linked
  <1>4. Switching(<<>>, c) /\ Supplied(<<>>, m, h, c, 1)
    BY <1>1 DEF Switching, Supplied
  <1>5. Housed(<<>>, h, c, 1)
    BY <1>1 DEF Housed
  <1>6. Standing(<<>>, h, c, 1, <<c, 0>>, 0)
    BY <1>1, <1>2 DEF Standing
  <1>7. Prepared(<<>>, m, h, c, 1, NoSlot, body, pending)
    BY DEF Prepared
  <1> QED
    BY <1>3, <1>4, <1>5, <1>6, <1>7

\* In immediate mode the reader has passed both messages already.
LEMMA OpenImmediateKeeps ==
    ASSUME IInv, SwitchChunkImmediate
    PROVE  Picture'
  <1>1. TypeOK /\ Places /\ Threads /\ CallShape /\ DataShape
    BY DEF IInv, Control
  <1>2. PICK c \in Requestable :
            /\ home' = [home EXCEPT ![c] = "used", ![writer.chunk] = "stash"]
            /\ mem' = [mem EXCEPT ![Here] = Switch(<<c, 0>>), ![<<c, 0>>] = Dummy(<<c, 1>>)]
            /\ writer' = [chunk |-> c, offset |-> 1, last |-> <<c, 0>>, pending |-> 0]
            /\ reader' = ExecutesBoth(PullFrom(written', reader), <<c, 0>>)
    BY DEF SwitchChunkImmediate
  <1>3. /\ wpc = "alloc" /\ immediate /\ Stored /\ UNCHANGED <<wpc, call, todo, data, cpc, expect>>
    BY DEF SwitchChunkImmediate, callVars
  <1>4. expect' = <<>> /\ InHand' = 0
    BY <1>1, <1>3 DEF Threads, InHand
  <1>5. data' = NoSlot
    <2>1. Head(todo) = "data"
      BY <1>3 DEF Stored
    <2>2. Head(<<"work">>) = "work"
      OBVIOUS
    <2> QED
      BY <1>1, <1>3, <2>1, <2>2 DEF DataShape
  <1>6. /\ writer'.chunk = c /\ writer'.offset = 1 /\ writer'.last = <<c, 0>> /\ Here' = <<c, 1>>
    BY <1>2 DEF Here
  <1>7. reader'.last = <<c, 0>>
    BY <1>1, <1>2 DEF ExecutesBoth, PullFrom, TypeOK
  <1>8. c \in Chunks /\ home[c] # "used" /\ <<c, 0>> \in Slots /\ Here \in Slots /\ Dummy(<<c, 1>>).next = <<c, 1>>
    BY <1>1, OpenFacts, Typed
  <1>9. c # writer.chunk
    BY <1>1, <1>3, <1>8 DEF Places, Housed
  <1>10. home'[c] = "used"
    BY <1>1, <1>2, <1>8, <1>9 DEF TypeOK
  <1>11. mem'[<<c, 0>>].next = <<c, 1>>
    BY <1>1, <1>2, <1>8 DEF TypeOK
  <1> DEFINE n == mem'
             g == home'
  <1>12. g[c] = "used" /\ n[<<c, 0>>].next = <<c, 1>>
    BY <1>10, <1>11
  <1> HIDE DEF n, g
  <1>13. /\ Linked(<<>>, n, <<c, 1>>, <<c, 0>>, <<c, 0>>, 0)
         /\ Switching(<<>>, c) /\ Housed(<<>>, g, c, 1) /\ Standing(<<>>, g, c, 1, <<c, 0>>, 0)
         /\ Supplied(<<>>, n, g, c, 1) /\ Prepared(<<>>, n, g, c, 1, NoSlot, call.body, 0)
    BY <1>8, <1>12, AtRest
  <1>14. writer'.pending = 0
    BY <1>2
  <1>15. Chain' /\ Places'
    BY <1>3, <1>4, <1>5, <1>6, <1>7, <1>13, <1>14 DEF Chain, Places, n, g
  <1> QED
    BY <1>15 DEF Picture

\* Chunks are given back by the producer in immediate mode, and by the consumer
\* with the message that says so in hand: nobody is between two messages, and
\* none that may need the stash is next.
LEMMA FreeOneKeeps ==
    ASSUME IInv, NEW c \in Stash, Free(c), wpc \notin {"gone", "delete"},
           UNCHANGED <<expect, writer, reader, data, call, wpc, cpc>>,
           InHand = 0 => expect = <<>>, InHand = 1 => expect[1].kind = "free"
    PROVE  Picture'
  <1>1. TypeOK /\ Chain /\ Places
    BY DEF IInv
  <1>2. Here' = Here /\ InHand' = InHand
    BY DEF Here, InHand
  <1>3. /\ expect \in Seq(Entries) /\ writer.chunk \in Chunks /\ reader.last \in Slots /\ InHand \in {0, 1}
        /\ data \in Slots \cup {NoSlot} /\ c \in Chunks /\ home[c] = "stash"
    BY <1>1, Typed DEF Stash, In
  <1> DEFINE n == mem'
             g == home'
  <1>4. \A b \in Chunks : b # c => g[b] = home[b]
    BY <1>1, <1>3 DEF Free, TypeOK
  <1>5. \A s \in Slots : s[1] # c => n[s] = mem[s]
    BY DEF Free, Wiped
  <1> HIDE DEF n, g
  <1>6. /\ Linked(expect, mem, Here, writer.last, reader.last, InHand)
        /\ Housed(expect, home, writer.chunk, writer.offset)
        /\ Standing(expect, home, writer.chunk, writer.offset, reader.last, InHand)
        /\ Supplied(expect, mem, home, writer.chunk, writer.offset)
        /\ Prepared(expect, mem, home, writer.chunk, writer.offset, data, call.body, writer.pending)
        /\ Switching(expect, writer.chunk)
    BY <1>1 DEF Chain, Places
  <1>7. \A i \in 1 .. Len(expect) : expect[i].at \in Slots /\ expect[i].at[1] # c /\ expect[i].at[1] \in Chunks
    BY <1>3, <1>6, Fields DEF Housed
  <1>8. InHand = 0 => reader.last[1] # c /\ home[reader.last[1]] = "used"
    BY <1>3, <1>6 DEF Standing
  <1>9. Linked(expect, n, Here, writer.last, reader.last, InHand)
    BY <1>3, <1>5, <1>6, <1>7, <1>8 DEF Linked
  <1>10. Housed(expect, g, writer.chunk, writer.offset)
    BY <1>3, <1>4, <1>6, <1>7 DEF Housed
  <1>11. Standing(expect, g, writer.chunk, writer.offset, reader.last, InHand)
    BY <1>3, <1>4, <1>6, <1>8, SlotFacts DEF Standing
  <1>12. Supplied(expect, n, g, writer.chunk, writer.offset)
    <2>1. ASSUME NEW i \in 1 .. Len(expect), expect[i].data # NoSlot
          PROVE  /\ expect[i].data \in Slots /\ expect[i].data[1] \in Chunks
                 /\ home[expect[i].data[1]] = "used"
      <3>1. expect # <<>> /\ 1 \in 1 .. Len(expect)
        BY <1>3, TailFacts
      <3>2. expect[1].kind = "free"
        BY <1>3, <3>1
      <3>3. ~(i = 1 \/ (i = 2 /\ expect[1].kind = "dummy"))
        BY <1>6, <2>1, <3>2 DEF Supplied
      <3> QED
        BY <1>3, <1>6, <2>1, <3>3, Fields DEF Supplied
    <2>2. ASSUME NEW i \in 1 .. Len(expect), expect[i].data # NoSlot
          PROVE  n[expect[i].data] = mem[expect[i].data] /\ g[expect[i].data[1]] = "used"
      BY <1>3, <1>4, <1>5, <2>1, <2>2
    <2>3. ASSUME NEW i \in 1 .. Len(expect), expect[i].data # NoSlot
          PROVE  /\ expect[i].kind = "work" /\ Passed(expect[i].data, writer.chunk, writer.offset)
                 /\ mem[expect[i].data].kind = "data" /\ mem[expect[i].data].body = expect[i].body
                 /\ \A j \in 1 .. i - 1 : expect[j].kind = "switch" /\ expect[j].at[1] = expect[i].data[1]
                                          => j = i - 2
      BY <1>6, <2>1, <2>3 DEF Supplied
    <2> QED
      BY <2>2, <2>3 DEF Supplied
  <1>13. Prepared(expect, n, g, writer.chunk, writer.offset, data, call.body, writer.pending)
    <2>1. data # NoSlot => data \in Slots /\ data[1] \in Chunks /\ data[1] # c
      BY <1>3, <1>6, SlotFacts DEF Prepared
    <2> QED
      BY <1>4, <1>5, <1>6, <2>1 DEF Prepared
  <1>14. Chain' /\ Places'
    BY <1>2, <1>6, <1>9, <1>10, <1>11, <1>12, <1>13 DEF Chain, Places, n, g
  <1> QED
    BY <1>14 DEF Picture

LEMMA PictureKept ==
    ASSUME IInv, [Next]_vars
    PROVE  Picture'
  <1>1. TypeOK /\ Chain /\ Places /\ Threads /\ DataShape /\ Ended
    BY DEF IInv, Control
  <1> USE DEF memVars, modeVars, callVars, consumerKeeps
  <1>2. ASSUME cpc # "none"
        PROVE  wpc \notin {"gone", "delete"}
    BY <1>1, <1>2 DEF Threads
  <1>3. CASE ProducerBegins
    <2>1. /\ wpc # "gone" /\ data' = NoSlot /\ UNCHANGED <<mem, home, expect, writer>>
          /\ reader'.last = reader.last
      BY <1>1, <1>3, Beginning DEF TypeOK
    <2>2. InHand' = InHand
      BY <1>1, <1>3, Beginning DEF InHand, Threads
    <2> QED
      BY <2>1, <2>2, PictureFramed
  <1>4. CASE Attach \/ ExecuteDirectly \/ NotifyAll \/ AwaitEvent
    BY <1>4, PictureFramed DEF Attach, ExecuteDirectly, NotifyAll, AwaitEvent, InHand
  <1>5. CASE PushMessages
    <2>1. data = NoSlot
      BY <1>1, <1>5 DEF PushMessages, DataShape
    <2>2. writer'.chunk = writer.chunk /\ writer'.offset = writer.offset /\ writer'.last = writer.last
      BY <1>1, <1>5 DEF PushMessages, TypeOK
    <2>3. /\ UNCHANGED <<mem, home, expect, reader, data>> /\ wpc # "gone" /\ InHand' = InHand
      BY <1>5 DEF PushMessages, InHand
    <2> QED
      BY <2>1, <2>2, <2>3, PictureFramed
  <1>6. CASE JoinConsumer
    <2>1. /\ UNCHANGED <<mem, home, expect, reader, writer, data, call>> /\ wpc # "gone" /\ InHand' = InHand
      BY <1>6 DEF JoinConsumer, InHand
    <2> QED
      BY <2>1, PictureFramed
  <1>7. CASE FreeDirectly
    <2>1. wpc = "alloc" /\ UNCHANGED <<expect, writer, reader, call, cpc>> /\ expect = <<>> /\ InHand = 0
      BY <1>1, <1>7 DEF FreeDirectly, Threads, InHand
    <2>2. CASE \E c \in Stash : Free(c) /\ UNCHANGED <<wpc, data>>
      <3>1. PICK c \in Stash : Free(c)
        BY <2>2
      <3> QED
        BY <2>1, <2>2, <3>1, FreeOneKeeps
    <2>3. CASE data' = NoSlot /\ UNCHANGED <<home, mem>>
      <3>1. InHand' = InHand
        BY <2>1 DEF InHand
      <3> QED
        BY <2>1, <2>3, <3>1, PictureFramed
    <2> QED
      BY <1>7, <2>2, <2>3 DEF FreeDirectly
  <1>8. CASE Delete
    <2>1. /\ UNCHANGED <<mem, expect, writer, reader, cpc>> /\ wpc' = "gone"
      BY <1>8 DEF Delete, Recycle
    <2>2. Here' = Here /\ InHand' = InHand
      BY <2>1 DEF Here, InHand
    <2>3. Chain' /\ Places'
      BY <1>1, <2>1, <2>2 DEF Chain, Places
    <2> QED
      BY <2>3 DEF Picture
  <1>9. CASE KeepFlushing \/ FlushDone \/ ThreadExits \/ StartWaiting \/ SpuriousWakeup
    <2>1. /\ cpc # "none" /\ UNCHANGED <<mem, home, expect, writer, data, call>>
          /\ reader'.last = reader.last /\ InHand' = InHand
      BY <1>1, <1>9 DEF KeepFlushing, FlushDone, ThreadExits, StartWaiting, SpuriousWakeup, InHand, TypeOK
    <2> QED
      BY <1>2, <2>1, PictureFramed
  <1>10. CASE PullUnderLock \/ PullAfterWait \/ ExecuteSwitch
    <2>1. /\ cpc # "none" /\ UNCHANGED <<mem, home, expect, writer, data, call>> /\ reader' = Pulled
          /\ InHand' = InHand
      BY <1>10 DEF PullUnderLock, PullAfterWait, ExecuteSwitch, InHand
    <2>2. reader'.last = reader.last
      BY <2>1, Pulling
    <2> QED
      BY <1>2, <2>1, <2>2, PictureFramed
  <1>11. CASE ExecutePlain \/ ExecuteFinish \/ ExecuteWait \/ ExecuteTerminate \/ ExecuteFreeDone
    <2>1. /\ Executed /\ cpc = "execute" /\ cpc' = "flush" /\ UNCHANGED <<mem, home, writer, data, call, wpc>>
          /\ reader'.last = reader.last
      BY <1>1, <1>11 DEF ExecutePlain, ExecuteFinish, ExecuteWait, ExecuteTerminate, ExecuteFreeDone, TypeOK
    <2> QED
      BY <2>1, PopKeeps
  <1>12. CASE ExecuteFreeOne
    <2>1. PICK c \in Stash : Free(c)
      BY <1>12 DEF ExecuteFreeOne
    <2>2. /\ cpc = "execute" /\ Current.kind = "free"
          /\ UNCHANGED <<expect, writer, reader, data, call, wpc, cpc>>
      BY <1>12 DEF ExecuteFreeOne
    <2>3. InHand = 1 /\ expect[1].kind = "free"
      BY <2>2, Reading
    <2> QED
      BY <1>2, <2>1, <2>2, <2>3, FreeOneKeeps
  <1>13. CASE UNCHANGED vars
    <2>1. Chain' /\ Places'
      BY <1>1, <1>13 DEF vars, Chain, Places, Here, InHand
    <2> QED
      BY <2>1 DEF Picture
  <1> QED
    BY <1>3, <1>4, <1>5, <1>6, <1>7, <1>8, <1>9, <1>10, <1>11, <1>12, <1>13,
       OpenKeeps, OpenImmediateKeeps, DataKeeps, WriteKeeps, TakeKeeps, LeaveKeeps
    DEF Next, ProducerStep, ConsumerStep, Gone

-----------------------------------------------------------------------------
(* The invariant and what it says. *)

LEMMA InitHolds == Init => IInv
  <1> SUFFICES ASSUME Init
               PROVE  IInv
    OBVIOUS
  <1>1. PICK c \in Chunks :
          /\ home = [d \in Chunks |-> IF d = c THEN "used" ELSE "heap"]
          /\ mem = [s \in Slots |->
                      IF s = <<c, 0>>
                      THEN [kind |-> "dummy", body |-> NoBody, next |-> <<c, 1>>, data |-> NoSlot]
                      ELSE Garbage]
          /\ writer = [chunk |-> c, offset |-> 1, last |-> <<c, 0>>, pending |-> 0]
          /\ reader = [last |-> <<c, 0>>, snap |-> 1, new |-> 0, terminate |-> FALSE, flushed |-> FALSE]
    BY DEF Init
  <1>2. /\ written = 1 /\ immediate = TRUE /\ attached = FALSE
        /\ wpc = "idle" /\ call = [op |-> "kick", body |-> NoBody] /\ todo = <<>> /\ data = NoSlot
        /\ event = 0 /\ cpc = "none"
        /\ expect = <<>> /\ ran = [kind |-> "dummy", body |-> NoBody]
    BY DEF Init
  <1>3. <<c, 0>> \in Slots /\ <<c, 1>> \in Slots /\ 1 \in 0 .. ChunkSlots - 1 /\ 0 \in Counts /\ 1 \in Counts
    BY SlotFacts, Sizes DEF Counts
  <1>4. TypeOK
    <2>1. mem \in [Slots -> Cells]
      <3>1. [kind |-> "dummy", body |-> NoBody, next |-> <<c, 1>>, data |-> NoSlot] \in Cells /\ Garbage \in Cells
        BY <1>3, CellFacts DEF Cells, MessageKinds, QueueKinds
      <3> QED
        BY <1>1, <3>1
    <2>2. call \in Calls /\ ran \in [kind : MessageKinds, body : Bodies \cup {NoBody}]
      BY <1>2 DEF Calls, OpNames, MessageKinds, QueueKinds
    <2>3. todo \in Seq({"data"} \cup WorkKinds \cup ControlKinds) /\ expect \in Seq(Entries)
      BY <1>2
    <2> QED
      BY <1>1, <1>2, <1>3, <2>1, <2>2, <2>3 DEF TypeOK
  <1>5. Len(expect) = 0 /\ InHand = 0 /\ Minus(1, 1) = 0 /\ Len(todo) = 0
    BY <1>2, <1>3, CountFacts DEF InHand
  <1>6. Control
    BY <1>1, <1>2, <1>5 DEF Control, CallShape, Threads, WaitedFor, Signalled, Ended, DataShape
  <1>7. Account
    BY <1>1, <1>2, <1>5, Sizes DEF Account, Counted, Room, Waiting, Behind
  <1>8. home[c] = "used" /\ mem[<<c, 0>>].next = <<c, 1>>
    BY <1>1, <1>3
  <1>9. /\ Linked(<<>>, mem, <<c, 1>>, <<c, 0>>, <<c, 0>>, 0)
        /\ Switching(<<>>, c) /\ Housed(<<>>, home, c, 1) /\ Standing(<<>>, home, c, 1, <<c, 0>>, 0)
        /\ Supplied(<<>>, mem, home, c, 1) /\ Prepared(<<>>, mem, home, c, 1, NoSlot, NoBody, 0)
    BY <1>8, AtRest
  <1>10. /\ writer.chunk = c /\ writer.offset = 1 /\ writer.last = <<c, 0>> /\ writer.pending = 0
         /\ reader.last = <<c, 0>> /\ call.body = NoBody /\ Here = <<c, 1>>
    BY <1>1, <1>2 DEF Here
  <1>11. Chain /\ Places
    BY <1>2, <1>5, <1>9, <1>10 DEF Chain, Places
  <1> QED
    BY <1>4, <1>6, <1>7, <1>11 DEF IInv

LEMMA StepHolds == IInv /\ [Next]_vars => IInv'
  BY TypeKept, ControlKept, AccountKept, PictureKept DEF IInv, Picture

\* The counts, the pointers and the places of the chunks agree with what is
\* written and not executed, in every state of the queue.
THEOREM Invariance == Spec => []IInv
  BY InitHolds, StepHolds, PTL DEF Spec

\* The counts of writer and reader account for every message, at every width
\* that exceeds what may be outstanding: no wrap of a uint32_t and no order of
\* pushing and pulling loses or repeats one.
THEOREM CountsAgreeAlways == Spec => []CountsAgree
  <1>1. IInv => CountsAgree
    BY DEF IInv, Account, Counted, CountsAgree
  <1> QED
    BY <1>1, Invariance, PTL

\* kick publishes before it notifies and readMessage pulls under the mutex
\* before it waits: a consumer never sleeps over a message.
THEOREM NoLostWakeupAlways == Spec => []NoLostWakeup
  <1>1. IInv => NoLostWakeup
    BY DEF IInv, Account, Waiting, NoLostWakeup
  <1> QED
    BY <1>1, Invariance, PTL

\* The next pointers lead the reader through what was written, in order and
\* unchanged, for every size of chunk and every pool.
THEOREM MessagesIntactAlways == Spec => []MessagesIntact
  <1>1. ASSUME IInv
        PROVE  MessagesIntact
    <2>1. Linked(expect, mem, Here, writer.last, reader.last, InHand) /\ InHand \in {0, 1}
      BY <1>1, Typed DEF IInv, Chain
    <2>2. \A i \in 0 .. Len(expect) : NextOf(i) = After(expect, Here, i)
      BY DEF NextOf, After
    <2>3. Len(expect) \in Nat
      BY <1>1, Typed DEF IInv
    <2> QED
      BY <2>1, <2>2, <2>3 DEF Linked, MessagesIntact
  <1>2. IInv => MessagesIntact
    BY <1>1
  <1> QED
    BY <1>2, Invariance, PTL

\* The data of a message outlives the chunk it is in: a stashed chunk is freed
\* only when no message before the freeing one can need it.
THEOREM DataIntactAlways == Spec => []DataIntact
  <1>1. ASSUME IInv
        PROVE  DataIntact
    <2>1. CASE wpc = "gone"
      <3>1. expect = <<>>
        BY <1>1, <2>1 DEF IInv, Control, Threads
      <3> QED
        BY <3>1 DEF DataIntact
    <2>2. CASE wpc # "gone"
      BY <1>1, <2>2 DEF IInv, Places, Supplied, DataIntact
    <2> QED
      BY <2>1, <2>2
  <1>2. IInv => DataIntact
    BY <1>1
  <1> QED
    BY <1>2, Invariance, PTL

\* Immediate mode is entered with nothing left to read and keeps it so.
THEOREM DrainedWhenImmediateAlways == Spec => []DrainedWhenImmediate
  <1>1. ASSUME IInv
        PROVE  DrainedWhenImmediate
    <2> SUFFICES ASSUME immediate
                 PROVE  /\ expect = <<>> /\ writer.pending = 0 /\ reader.new = 0 /\ Behind = 0
                        /\ cpc = "none"
                        /\ wpc # "gone" => mem[reader.last].next = Here
      BY DEF DrainedWhenImmediate
    <2>1. expect = <<>> /\ cpc = "none"
      BY <1>1 DEF IInv, Control, Threads
    <2>2. InHand = 0 /\ reader.new = 0 /\ Behind = 0 /\ writer.pending = 0
      BY <1>1, <2>1, Drained
    <2>3. mem[reader.last].next = After(expect, Here, 0) /\ Len(expect) = 0
      BY <1>1, <2>1, <2>2, Taking, Typed DEF IInv
    <2> QED
      BY <2>1, <2>2, <2>3 DEF After
  <1>2. IInv => DrainedWhenImmediate
    BY <1>1
  <1> QED
    BY <1>2, Invariance, PTL

-----------------------------------------------------------------------------
(* The messages of the queue's user among those of a sequence. *)

LEMMA PlacesFinite ==
    ASSUME NEW S, NEW f \in Int, NEW t \in Int
    PROVE  LET P == UserPlaces(S, f, t)
           IN  /\ IsFiniteSet(P) /\ Cardinality(P) \in Nat /\ P \subseteq Int
               /\ \A k \in P : Rank(P, k) \in Nat /\ Rank(P, k) >= 1 /\ Rank(P, k) <= Cardinality(P)
  <1> DEFINE P == UserPlaces(S, f, t)
  <1>1. P \subseteq f .. t /\ P \subseteq Int
    BY DEF UserPlaces
  <1>2. IsFiniteSet(P) /\ Cardinality(P) \in Nat
    BY <1>1, FS_Interval, FS_Subset, FS_CardinalityType
  <1> HIDE DEF P
  <1>3. ASSUME NEW k \in P
        PROVE  Rank(P, k) \in Nat /\ Rank(P, k) >= 1 /\ Rank(P, k) <= Cardinality(P)
    <2> DEFINE Q == {j \in P : j <= k}
    <2>1. Q \in SUBSET P /\ k \in Q
      BY <1>1
    <2> HIDE DEF Q
    <2>2. IsFiniteSet(Q) /\ Cardinality(Q) \in Nat /\ Cardinality(Q) <= Cardinality(P)
      BY <1>2, <2>1, FS_Subset, FS_CardinalityType
    <2>3. Cardinality(Q) # 0
      BY <2>1, <2>2, FS_EmptySet
    <2> QED
      BY <2>2, <2>3 DEF Rank, Q
  <1> QED
    BY <1>1, <1>2, <1>3 DEF P

\* A set of places and the same moved by d have as many elements.
LEMMA ShiftCount ==
    ASSUME NEW P \in SUBSET Int, NEW Q \in SUBSET Int, NEW d \in Int, IsFiniteSet(P),
           \A k \in Int : k \in P <=> k + d \in Q
    PROVE  Cardinality(Q) = Cardinality(P)
  <1> DEFINE g == [k \in P |-> k + d]
  <1>1. g \in [P -> Q]
    OBVIOUS
  <1>2. \A i, j \in P : g[i] = g[j] => i = j
    OBVIOUS
  <1>3. \A j \in Q : \E i \in P : g[i] = j
    <2> SUFFICES ASSUME NEW j \in Q PROVE \E i \in P : g[i] = j
      OBVIOUS
    <2>1. j - d \in P /\ (j - d) + d = j
      OBVIOUS
    <2> QED
      BY <2>1
  <1> HIDE DEF g
  <1>4. g \in Bijection(P, Q)
    BY <1>1, <1>2, <1>3 DEF Bijection, Injection, Surjection, IsInjective
  <1> QED
    BY <1>4, FS_Bijection DEF ExistsBijection

\* From f to t a sequence reads as another one does from g to u.
Alike(S, f, t, T, g, u) ==
    /\ f \in Int /\ t \in Int /\ g \in Int /\ u \in Int
    /\ u - g = t - f
    /\ \A k \in f .. t, j \in g .. u : j - g = k - f => T[j] = S[k]

\* Then they have the same messages there.
LEMMA SameMessages ==
    ASSUME NEW S, NEW f, NEW t, NEW T, NEW g, NEW u, Alike(S, f, t, T, g, u)
    PROVE  UserMessages(T, g, u) = UserMessages(S, f, t)
  <1> USE DEF Alike
  <1> DEFINE P == UserPlaces(S, f, t)
             Q == UserPlaces(T, g, u)
  <1> PICK d \in Int : d = g - f
    OBVIOUS
  <1>0. g = f + d /\ u = t + d /\ \A k \in f .. t : T[k + d] = S[k]
    OBVIOUS
  <1>1. \A k \in Int : k \in P <=> k + d \in Q
    BY <1>0 DEF UserPlaces
  <1>2. \A k \in P : T[k + d] = S[k]
    BY <1>0 DEF UserPlaces
  <1>3. IsFiniteSet(P) /\ Cardinality(P) \in Nat /\ P \subseteq Int
    BY <1>0, PlacesFinite
  <1>4. Q \subseteq Int
    BY DEF UserPlaces
  <1>5. UserMessages(S, f, t) = [n \in 1 .. Cardinality(P) |-> CHOOSE m \in Ranked(S, P, n) : TRUE]
    BY DEF UserMessages
  <1>6. UserMessages(T, g, u) = [n \in 1 .. Cardinality(Q) |-> CHOOSE m \in Ranked(T, Q, n) : TRUE]
    BY DEF UserMessages
  <1> HIDE DEF P, Q
  <1>7. Cardinality(Q) = Cardinality(P)
    BY <1>1, <1>3, <1>4, ShiftCount
  <1>8. ASSUME NEW k \in P
        PROVE  Rank(Q, k + d) = Rank(P, k)
    <2> DEFINE U == {j \in P : j <= k}
               V == {j \in Q : j <= k + d}
    <2>1. U \in SUBSET P /\ U \in SUBSET Int /\ V \in SUBSET Int
      BY <1>3, <1>4
    <2>2. \A j \in Int : j \in U <=> j + d \in V
      BY <1>1, <1>3
    <2> HIDE DEF U, V
    <2>3. IsFiniteSet(U)
      BY <1>3, <2>1, FS_Subset
    <2>4. Cardinality(V) = Cardinality(U)
      BY <2>1, <2>2, <2>3, ShiftCount
    <2> QED
      BY <2>4 DEF Rank, U, V
  <1>9. ASSUME NEW n
        PROVE  Ranked(T, Q, n) = Ranked(S, P, n)
    <2>1. ASSUME NEW k \in P, Rank(P, k) = n
          PROVE  \E j \in Q : Rank(Q, j) = n /\ AsMessage(S[k]) = AsMessage(T[j])
      <3>1. k + d \in Q /\ T[k + d] = S[k]
        BY <1>1, <1>2, <1>3
      <3> QED
        BY <1>8, <2>1, <3>1
    <2>2. ASSUME NEW k \in Q, Rank(Q, k) = n
          PROVE  \E j \in P : Rank(P, j) = n /\ AsMessage(T[k]) = AsMessage(S[j])
      <3>1. k - d \in P /\ (k - d) + d = k
        BY <1>1, <1>4
      <3>2. Rank(P, k - d) = Rank(Q, k) /\ S[k - d] = T[k]
        BY <1>2, <1>8, <3>1
      <3> QED
        BY <2>2, <3>1, <3>2
    <2> QED
      BY <2>1, <2>2 DEF Ranked
  <1> QED
    BY <1>5, <1>6, <1>7, <1>9

\* They are a sequence.
LEMMA MessagesSeq ==
    ASSUME NEW S, NEW f \in Int, NEW t \in Int, NEW P, P = UserPlaces(S, f, t)
    PROVE  LET q == UserMessages(S, f, t)
           IN  /\ Len(q) = Cardinality(P) /\ Len(q) \in Nat
               /\ \A n \in 1 .. Len(q) : q[n] = CHOOSE m \in Ranked(S, P, n) : TRUE
               /\ \A V : (\A n \in 1 .. Len(q) : q[n] \in V) => q \in Seq(V)
  <1> DEFINE q == UserMessages(S, f, t)
  <1>1. Cardinality(P) \in Nat
    BY PlacesFinite
  <1>2. q = [n \in 1 .. Cardinality(P) |-> CHOOSE m \in Ranked(S, P, n) : TRUE]
    BY DEF UserMessages
  <1> HIDE DEF q
  <1> DEFINE W == {q[n] : n \in 1 .. Cardinality(P)}
  <1>3. q \in Seq(W)
    <2>1. \A n \in 1 .. Cardinality(P) : q[n] \in W
      OBVIOUS
    <2> HIDE DEF W
    <2>2. q \in [1 .. Cardinality(P) -> W]
      BY <1>2, <2>1
    <2> QED
      BY <1>1, <2>2
  <1>4. Len(q) = Cardinality(P) /\ Len(q) \in Nat
    BY <1>1, <1>2, <1>3
  <1>5. ASSUME NEW V, \A n \in 1 .. Len(q) : q[n] \in V
        PROVE  q \in Seq(V)
    <2>1. q \in [1 .. Cardinality(P) -> V]
      BY <1>2, <1>4, <1>5
    <2> QED
      BY <1>1, <2>1
  <1> QED
    BY <1>2, <1>4, <1>5 DEF q

\* Sequences of messages are equal if they agree at every place.
LEMMA SeqEqual ==
    ASSUME NEW V, NEW s \in Seq(V), NEW t \in Seq(V), Len(s) = Len(t), \A n \in 1 .. Len(s) : s[n] = t[n]
    PROVE  s = t
  OBVIOUS

\* The places from f to t end at m and begin again at n.
Parted(f, t, m, n) ==
    f \in Int /\ t \in Int /\ m \in Int /\ n \in Int /\ n = m + 1 /\ f <= n /\ m <= t

\* The messages up to m and those after it.
LEMMA SplitMessages ==
    ASSUME NEW S, NEW f, NEW t, NEW m, NEW n, Parted(f, t, m, n)
    PROVE  UserMessages(S, f, t) = UserMessages(S, f, m) \o UserMessages(S, n, t)
  <1>0. f \in Int /\ t \in Int /\ m \in Int /\ n \in Int /\ n = m + 1 /\ f <= n /\ m <= t
    BY DEF Parted
  <1> DEFINE P == UserPlaces(S, f, t)
             A == UserPlaces(S, f, m)
             B == UserPlaces(S, n, t)
             p == UserMessages(S, f, t)
             a == UserMessages(S, f, m)
             b == UserMessages(S, n, t)
  <1>1. /\ P = A \cup B /\ A \cap B = {}
        /\ \A i \in A, j \in B : i <= j /\ ~(j <= i)
    BY <1>0 DEF UserPlaces
  <1>2. /\ IsFiniteSet(A) /\ Cardinality(A) \in Nat /\ A \subseteq Int
        /\ \A k \in A : Rank(A, k) \in Nat /\ Rank(A, k) >= 1 /\ Rank(A, k) <= Cardinality(A)
    BY <1>0, PlacesFinite
  <1>3. /\ IsFiniteSet(B) /\ Cardinality(B) \in Nat /\ B \subseteq Int
        /\ \A k \in B : Rank(B, k) \in Nat /\ Rank(B, k) >= 1 /\ Rank(B, k) <= Cardinality(B)
    BY <1>0, PlacesFinite
  <1>4. /\ Len(p) = Cardinality(P) /\ Len(p) \in Nat
        /\ \A x \in 1 .. Len(p) : p[x] = CHOOSE y \in Ranked(S, P, x) : TRUE
        /\ \A V : (\A x \in 1 .. Len(p) : p[x] \in V) => p \in Seq(V)
    BY <1>0, <1>2, MessagesSeq
  <1>5. /\ Len(a) = Cardinality(A) /\ Len(a) \in Nat
        /\ \A x \in 1 .. Len(a) : a[x] = CHOOSE y \in Ranked(S, A, x) : TRUE
        /\ \A V : (\A x \in 1 .. Len(a) : a[x] \in V) => a \in Seq(V)
    BY <1>0, <1>2, MessagesSeq
  <1>6. /\ Len(b) = Cardinality(B) /\ Len(b) \in Nat
        /\ \A x \in 1 .. Len(b) : b[x] = CHOOSE y \in Ranked(S, B, x) : TRUE
        /\ \A V : (\A x \in 1 .. Len(b) : b[x] \in V) => b \in Seq(V)
    BY <1>0, <1>3, MessagesSeq
  <1> HIDE DEF P, A, B, p, a, b
  <1>7. Cardinality(P) = Cardinality(A) + Cardinality(B)
    <2>1. Cardinality(A \cap B) = 0
      BY <1>1, FS_EmptySet
    <2>2. Cardinality(A \cup B) = Cardinality(A) + Cardinality(B) - Cardinality(A \cap B)
      BY <1>2, <1>3, FS_Union
    <2> QED
      BY <1>1, <1>2, <1>3, <2>1, <2>2
  <1>8. ASSUME NEW k \in A
        PROVE  Rank(P, k) = Rank(A, k)
    <2>1. {j \in P : j <= k} = {j \in A : j <= k}
      BY <1>1
    <2> QED
      BY <2>1 DEF Rank
  <1>9. ASSUME NEW k \in B
        PROVE  Rank(P, k) = Cardinality(A) + Rank(B, k)
    <2> DEFINE U == {j \in B : j <= k}
    <2>1. {j \in P : j <= k} = A \cup U
      BY <1>1
    <2>2. U \in SUBSET B /\ A \cap U = {}
      BY <1>1
    <2>3. Rank(B, k) = Cardinality(U) /\ Rank(P, k) = Cardinality(A \cup U)
      BY <2>1 DEF Rank
    <2> HIDE DEF U
    <2>4. IsFiniteSet(U) /\ Cardinality(U) \in Nat
      BY <1>3, <2>2, FS_Subset, FS_CardinalityType
    <2>5. Cardinality(A \cap U) = 0
      BY <2>2, FS_EmptySet
    <2>6. Cardinality(A \cup U) = Cardinality(A) + Cardinality(U) - Cardinality(A \cap U)
      BY <1>2, <2>4, FS_Union
    <2> QED
      BY <1>2, <2>3, <2>4, <2>5, <2>6
  <1>10. ASSUME NEW x \in 1 .. Cardinality(A)
         PROVE  Ranked(S, P, x) = Ranked(S, A, x)
    <2>1. ASSUME NEW k \in P
          PROVE  Rank(P, k) = x <=> (k \in A /\ Rank(A, k) = x)
      <3>1. CASE k \in A
        BY <1>8, <3>1
      <3>2. CASE k \in B
        <4>1. Rank(P, k) = Cardinality(A) + Rank(B, k) /\ Rank(B, k) \in Nat /\ Rank(B, k) >= 1
          BY <1>3, <1>9, <3>2
        <4>2. k \notin A /\ x <= Cardinality(A)
          BY <1>1, <1>2, <3>2
        <4> QED
          BY <1>2, <4>1, <4>2
      <3> QED
        BY <1>1, <3>1, <3>2
    <2>2. {k \in P : Rank(P, k) = x} = {k \in A : Rank(A, k) = x}
      BY <1>1, <2>1
    <2> QED
      BY <2>2 DEF Ranked
  <1>11. ASSUME NEW x \in 1 .. Cardinality(B)
         PROVE  Ranked(S, P, Cardinality(A) + x) = Ranked(S, B, x)
    <2>1. ASSUME NEW k \in P
          PROVE  Rank(P, k) = Cardinality(A) + x <=> (k \in B /\ Rank(B, k) = x)
      <3>1. CASE k \in A
        <4>1. Rank(P, k) <= Cardinality(A) /\ Rank(P, k) \in Nat /\ k \notin B
          BY <1>1, <1>2, <1>8, <3>1
        <4> QED
          BY <1>2, <1>3, <4>1
      <3>2. CASE k \in B
        <4>1. Rank(P, k) = Cardinality(A) + Rank(B, k) /\ Rank(B, k) \in Nat
          BY <1>3, <1>9, <3>2
        <4> QED
          BY <1>2, <1>3, <3>2, <4>1
      <3> QED
        BY <1>1, <3>1, <3>2
    <2>2. {k \in P : Rank(P, k) = Cardinality(A) + x} = {k \in B : Rank(B, k) = x}
      BY <1>1, <2>1
    <2> QED
      BY <2>2 DEF Ranked
  <1> DEFINE V == {p[x] : x \in 1 .. Len(p)}
  <1>12. \A x \in 1 .. Len(a) : a[x] = p[x] /\ x \in 1 .. Len(p)
    <2> SUFFICES ASSUME NEW x \in 1 .. Len(a) PROVE a[x] = p[x] /\ x \in 1 .. Len(p)
      OBVIOUS
    <2>1. x \in 1 .. Cardinality(A) /\ x \in 1 .. Len(p)
      BY <1>2, <1>3, <1>4, <1>5, <1>7
    <2>2. Ranked(S, P, x) = Ranked(S, A, x)
      BY <1>10, <2>1
    <2> QED
      BY <1>4, <1>5, <2>1, <2>2
  <1>13. \A x \in 1 .. Len(b) : b[x] = p[Len(a) + x] /\ Len(a) + x \in 1 .. Len(p)
    <2> SUFFICES ASSUME NEW x \in 1 .. Len(b) PROVE b[x] = p[Len(a) + x] /\ Len(a) + x \in 1 .. Len(p)
      OBVIOUS
    <2>1. x \in 1 .. Cardinality(B) /\ Len(a) + x \in 1 .. Len(p) /\ Len(a) = Cardinality(A)
      BY <1>2, <1>3, <1>4, <1>5, <1>6, <1>7
    <2>2. Ranked(S, P, Len(a) + x) = Ranked(S, B, x)
      BY <1>11, <2>1
    <2> QED
      BY <1>4, <1>6, <2>1, <2>2
  <1>14. /\ \A x \in 1 .. Len(p) : p[x] \in V
         /\ \A x \in 1 .. Len(a) : a[x] \in V
         /\ \A x \in 1 .. Len(b) : b[x] \in V
    BY <1>12, <1>13
  <1> HIDE DEF V
  <1>15. p \in Seq(V) /\ a \in Seq(V) /\ b \in Seq(V)
    BY <1>4, <1>5, <1>6, <1>14
  <1>16. /\ a \o b \in Seq(V) /\ Len(a \o b) = Len(a) + Len(b)
         /\ \A x \in 1 .. Len(a) + Len(b) : (a \o b)[x] = IF x <= Len(a) THEN a[x] ELSE b[x - Len(a)]
    BY <1>15
  <1>17. \A x \in 1 .. Len(p) : p[x] = (a \o b)[x]
    <2> SUFFICES ASSUME NEW x \in 1 .. Len(p) PROVE p[x] = (a \o b)[x]
      OBVIOUS
    <2>1. x \in 1 .. Len(a) + Len(b)
      BY <1>4, <1>5, <1>6, <1>7
    <2>2. CASE x <= Len(a)
      BY <1>5, <1>12, <1>16, <2>1, <2>2
    <2>3. CASE ~(x <= Len(a))
      <3>1. x - Len(a) \in 1 .. Len(b) /\ Len(a) + (x - Len(a)) = x
        BY <1>5, <1>6, <2>1, <2>3
      <3> QED
        BY <1>13, <1>16, <2>1, <2>3, <3>1
    <2> QED
      BY <2>2, <2>3
  <1>18. p = a \o b
    BY <1>4, <1>5, <1>6, <1>7, <1>15, <1>16, <1>17, SeqEqual
  <1> QED
    BY <1>18 DEF p, a, b

LEMMA NoMessages ==
    ASSUME NEW S, NEW f \in Int, NEW t \in Int, \A k \in f .. t : S[k].kind \in QueueKinds
    PROVE  UserMessages(S, f, t) = <<>>
  <1>1. UserPlaces(S, f, t) = {}
    BY DEF UserPlaces
  <1>2. Cardinality({}) = 0
    BY FS_EmptySet
  <1> QED
    BY <1>1, <1>2 DEF UserMessages

LEMMA OneMessage ==
    ASSUME NEW S, NEW k \in Int, S[k].kind \notin QueueKinds
    PROVE  UserMessages(S, k, k) = <<AsMessage(S[k])>>
  <1>1. UserPlaces(S, k, k) = {k}
    BY DEF UserPlaces
  <1>2. Cardinality({k}) = 1
    BY FS_Singleton, Zenon
  <1>3. Ranked(S, {k}, 1) = {AsMessage(S[k])}
    <2>1. {j \in {k} : j <= k} = {k}
      OBVIOUS
    <2>2. Rank({k}, k) = 1
      BY <1>2, <2>1 DEF Rank
    <2> QED
      BY <2>2 DEF Ranked
  <1>4. (CHOOSE m \in {AsMessage(S[k])} : TRUE) = AsMessage(S[k])
    OBVIOUS
  <1>5. UserMessages(S, k, k) = [n \in 1 .. 1 |-> CHOOSE m \in Ranked(S, {k}, n) : TRUE]
    BY <1>1, <1>2 DEF UserMessages
  <1>6. [n \in 1 .. 1 |-> CHOOSE m \in Ranked(S, {k}, n) : TRUE] = [n \in 1 .. 1 |-> AsMessage(S[k])]
    BY <1>3, <1>4
  <1> QED
    BY <1>5, <1>6

-----------------------------------------------------------------------------
(* The refinement of MessageStream.                                        *)

Batch   == UserMessages(expect, Published + 1, Len(expect))
Visible == UserMessages(expect, 1, Published)

LEMMA StreamFacts ==
    ASSUME IInv
    PROVE  /\ TypeOK /\ expect \in Seq(Entries) /\ Len(expect) \in Nat
           /\ writer.pending \in Nat /\ Published \in Nat /\ Published <= Len(expect)
           /\ Published = Len(expect) - writer.pending
           /\ \E V : Batch \in Seq(V) /\ Visible \in Seq(V)
  <1>1. TypeOK /\ expect \in Seq(Entries) /\ Len(expect) \in Nat
    BY Typed DEF IInv
  <1>2. writer.pending \in Nat /\ writer.pending <= Len(expect)
    BY Summing
  <1>3. Published \in Nat /\ Published <= Len(expect) /\ Published = Len(expect) - writer.pending
    BY <1>1, <1>2 DEF Published
  <1>4. \E V : Batch \in Seq(V) /\ Visible \in Seq(V)
    <2> DEFINE b == Batch
               v == Visible
               V == {b[n] : n \in 1 .. Len(b)} \cup {v[n] : n \in 1 .. Len(v)}
    <2>1. \A n \in 1 .. Len(b) : b[n] \in V
      OBVIOUS
    <2>2. \A n \in 1 .. Len(v) : v[n] \in V
      OBVIOUS
    <2>3. \A W : (\A n \in 1 .. Len(b) : b[n] \in W) => b \in Seq(W)
      BY <1>1, <1>3, MessagesSeq DEF Batch
    <2>4. \A W : (\A n \in 1 .. Len(v) : v[n] \in W) => v \in Seq(W)
      BY <1>1, <1>3, MessagesSeq DEF Visible
    <2> HIDE DEF V, b, v
    <2>5. b \in Seq(V) /\ v \in Seq(V)
      BY <2>1, <2>2, <2>3, <2>4
    <2> QED
      BY <2>5 DEF b, v
  <1> QED
    BY <1>1, <1>2, <1>3, <1>4

\* Most steps do nothing to the stream.
LEMMA StreamStutters ==
    ASSUME expect' = expect, ran' = ran, writer'.pending = writer.pending
    PROVE  UNCHANGED <<Batch, Visible, ran>>
  BY DEF Batch, Visible, Published

\* A message appended to the last batch, or two of the queue's own.
LEMMA StreamWrites ==
    ASSUME IInv, AllocateMessage
    PROVE  \E m \in StreamMessages : Batch' = Append(Batch, m) /\ UNCHANGED <<Visible, ran>>
  <1>1. /\ TypeOK /\ expect \in Seq(Entries) /\ Len(expect) \in Nat
        /\ writer.pending \in Nat /\ Published \in Nat /\ Published <= Len(expect)
        /\ Published = Len(expect) - writer.pending
        /\ \E V : Batch \in Seq(V) /\ Visible \in Seq(V)
    BY StreamFacts
  <1>2. /\ wpc = "alloc" /\ Fits /\ AfterAllocations /\ call' = call /\ Head(todo) # "data" /\ ran' = ran
        /\ writer' = [writer EXCEPT !.offset = @ + 1, !.last = Here, !.pending = Plus(@, 1)]
    BY DEF AllocateMessage
  <1>3. CallShape
    BY DEF IInv, Control
  <1>4. PICK e \in Entries : expect' = Append(expect, e) /\ e.kind = Head(todo)
    BY <1>1, <1>3, WriteFacts
  <1>5. e.kind \notin QueueKinds /\ Len(todo) \in 1 .. 2
    BY <1>1, <1>2, <1>3, <1>4, Allocating DEF WorkKinds, ControlKinds, QueueKinds
  <1>6. writer'.pending = writer.pending + 1
    <2>1. Len(expect) + 3 * Len(todo) <= Limit + 2
      BY <1>2, <1>5 DEF IInv, Account, Room
    <2>2. writer.pending \in Nat /\ Len(expect) \in Nat /\ writer.pending <= Len(expect)
      BY Summing
    <2>3. writer.pending + 1 < CountModulus /\ 1 \in Counts
      <3>1. Len(expect) + 1 <= Limit
        BY <1>5, <2>1, <2>2, Sizes
      <3> QED
        BY <2>2, <3>1, Sizes DEF Counts
    <2>4. writer.pending \in Counts
      BY <1>1, Typed
    <2>5. Plus(writer.pending, 1) = writer.pending + 1
      BY <2>3, <2>4, CountFacts
    <2> QED
      BY <1>1, <1>2, <2>5 DEF TypeOK
  <1>7. /\ Len(expect') = Len(expect) + 1 /\ expect'[Len(expect) + 1] = e
        /\ \A k \in 1 .. Len(expect) : expect'[k] = expect[k]
    BY <1>1, <1>4, AppendFacts
  <1>8. Published' = Published
    BY <1>1, <1>6, <1>7 DEF Published
  <1>9. Visible' = Visible
    <2>1. Alike(expect, 1, Published, expect', 1, Published)
      BY <1>1, <1>7 DEF Alike
    <2>2. UserMessages(expect', 1, Published) = UserMessages(expect, 1, Published)
      BY <2>1, SameMessages
    <2> QED
      BY <1>1, <1>8, <2>2 DEF Visible
  <1>10. UserMessages(expect', Published + 1, Len(expect)) = Batch
    <2>1. Alike(expect, Published + 1, Len(expect), expect', Published + 1, Len(expect))
      <3>1. ASSUME NEW k \in Published + 1 .. Len(expect), NEW j \in Published + 1 .. Len(expect),
                   j - (Published + 1) = k - (Published + 1)
            PROVE  expect'[j] = expect[k]
        <4>1. k \in 1 .. Len(expect)
          BY <1>1
        <4>2. j = k
          <5>1. j \in Int /\ k \in Int /\ Published \in Nat
            BY <1>1
          <5> QED
            BY <3>1, <5>1
        <4> QED
          BY <1>7, <4>1, <4>2
      <3>2. /\ Published + 1 \in Int /\ Len(expect) \in Int
        BY <1>1
      <3> QED
        BY <3>1, <3>2 DEF Alike
    <2> QED
      BY <2>1, SameMessages DEF Batch
  <1>11. UserMessages(expect', Len(expect) + 1, Len(expect) + 1) = <<AsMessage(e)>>
    BY <1>1, <1>5, <1>7, OneMessage
  <1>12. Batch' = Batch \o <<AsMessage(e)>>
    <2>1. Batch' = UserMessages(expect', Published + 1, Len(expect) + 1)
      BY <1>7, <1>8 DEF Batch
    <2>2. Parted(Published + 1, Len(expect) + 1, Len(expect), Len(expect) + 1)
      BY <1>1 DEF Parted
    <2>3. UserMessages(expect', Published + 1, Len(expect) + 1)
             = UserMessages(expect', Published + 1, Len(expect))
               \o UserMessages(expect', Len(expect) + 1, Len(expect) + 1)
      BY <2>2, SplitMessages
    <2> QED
      BY <1>10, <1>11, <2>1, <2>3
  <1>13. Batch' = Append(Batch, AsMessage(e))
    <2>1. PICK V : Batch \in Seq(V)
      BY <1>1
    <2>2. \A x, W : \A s \in Seq(W) : s \o <<x>> = Append(s, x)
      OBVIOUS
    <2> QED
      BY <1>12, <2>1, <2>2
  <1>14. AsMessage(e) \in StreamMessages
    BY DEF AsMessage, StreamMessages, Entries
  <1> QED
    BY <1>2, <1>9, <1>13, <1>14

LEMMA StreamIgnoresSwitch ==
    ASSUME IInv, SwitchChunk
    PROVE  UNCHANGED <<Batch, Visible, ran>>
  <1>1. /\ TypeOK /\ expect \in Seq(Entries) /\ Len(expect) \in Nat
        /\ writer.pending \in Nat /\ Published \in Nat /\ Published <= Len(expect)
        /\ Published = Len(expect) - writer.pending
        /\ \E V : Batch \in Seq(V) /\ Visible \in Seq(V)
    BY StreamFacts
  <1>2. PICK c \in Requestable :
          /\ writer' = [chunk |-> c, offset |-> 1, last |-> <<c, 0>>, pending |-> Plus(writer.pending, 2)]
          /\ expect' = expect \o <<Entry(Here, Switch(<<c, 0>>)), Entry(<<c, 0>>, Dummy(<<c, 1>>))>>
    BY DEF SwitchChunk
  <1> DEFINE e == Entry(Here, Switch(<<c, 0>>))
             f == Entry(<<c, 0>>, Dummy(<<c, 1>>))
  <1>3. e \in Entries /\ f \in Entries /\ e.kind \in QueueKinds /\ f.kind \in QueueKinds
    BY <1>1, OpenFacts DEF QueueKinds
  <1>4. expect' = expect \o <<e, f>> /\ ran' = ran
    BY <1>2 DEF SwitchChunk
  <1> HIDE DEF e, f
  <1>5. writer'.pending = writer.pending + 2
    BY <1>2, OpenRoom DEF SwitchChunk
  <1>6. /\ Len(expect') = Len(expect) + 2 /\ \A k \in 1 .. Len(expect) : expect'[k] = expect[k]
        /\ expect'[Len(expect) + 1] = e /\ expect'[Len(expect) + 2] = f
    BY <1>1, <1>3, <1>4, AppendTwoFacts
  <1>7. Published' = Published
    BY <1>1, <1>5, <1>6 DEF Published
  <1>8. Visible' = Visible
    <2>1. Alike(expect, 1, Published, expect', 1, Published)
      BY <1>1, <1>6 DEF Alike
    <2>2. UserMessages(expect', 1, Published) = UserMessages(expect, 1, Published)
      BY <2>1, SameMessages
    <2> QED
      BY <1>1, <1>7, <2>2 DEF Visible
  <1>9. UserMessages(expect', Published + 1, Len(expect)) = Batch
    <2>1. Alike(expect, Published + 1, Len(expect), expect', Published + 1, Len(expect))
      <3>1. ASSUME NEW k \in Published + 1 .. Len(expect), NEW j \in Published + 1 .. Len(expect),
                   j - (Published + 1) = k - (Published + 1)
            PROVE  expect'[j] = expect[k]
        <4>1. k \in 1 .. Len(expect)
          BY <1>1
        <4>2. j = k
          <5>1. j \in Int /\ k \in Int /\ Published \in Nat
            BY <1>1
          <5> QED
            BY <3>1, <5>1
        <4> QED
          BY <1>6, <4>1, <4>2
      <3>2. /\ Published + 1 \in Int /\ Len(expect) \in Int
        BY <1>1
      <3> QED
        BY <3>1, <3>2 DEF Alike
    <2> QED
      BY <2>1, SameMessages DEF Batch
  <1>10. UserMessages(expect', Len(expect) + 1, Len(expect) + 2) = <<>>
    <2>1. ASSUME NEW k \in Len(expect) + 1 .. Len(expect) + 2
          PROVE  expect'[k].kind \in QueueKinds
      <3>1. k = Len(expect) + 1 \/ k = Len(expect) + 2
        BY <1>1
      <3> QED
        BY <1>3, <1>6, <3>1
    <2> QED
      BY <1>1, <2>1, NoMessages
  <1>11. Batch' = Batch \o <<>>
    <2>1. Batch' = UserMessages(expect', Published + 1, Len(expect) + 2)
      BY <1>6, <1>7 DEF Batch
    <2>2. Parted(Published + 1, Len(expect) + 2, Len(expect), Len(expect) + 1)
      BY <1>1 DEF Parted
    <2>3. UserMessages(expect', Published + 1, Len(expect) + 2)
             = UserMessages(expect', Published + 1, Len(expect))
               \o UserMessages(expect', Len(expect) + 1, Len(expect) + 2)
      BY <2>2, SplitMessages
    <2> QED
      BY <1>9, <1>10, <2>1, <2>3
  <1>12. Batch' = Batch
    <2>1. PICK V : Batch \in Seq(V)
      BY <1>1
    <2> QED
      BY <1>11, <2>1
  <1> QED
    BY <1>4, <1>8, <1>12

\* A kick publishes the batch.
LEMMA StreamPublishes ==
    ASSUME IInv, PushMessages
    PROVE  Visible' = Visible \o Batch /\ Batch' = <<>> /\ UNCHANGED ran
  <1>1. /\ TypeOK /\ expect \in Seq(Entries) /\ Len(expect) \in Nat
        /\ writer.pending \in Nat /\ Published \in Nat /\ Published <= Len(expect)
        /\ Published = Len(expect) - writer.pending
    BY StreamFacts
  <1>2. expect' = expect /\ ran' = ran /\ writer'.pending = 0
    BY <1>1 DEF PushMessages, memVars, TypeOK
  <1>3. Published' = Len(expect)
    BY <1>1, <1>2 DEF Published
  <1>4. Batch' = <<>>
    <2>1. \A k \in Len(expect) + 1 .. Len(expect) : expect[k].kind \in QueueKinds
      BY <1>1
    <2>2. UserMessages(expect, Len(expect) + 1, Len(expect)) = <<>>
      BY <1>1, <2>1, NoMessages
    <2> QED
      BY <1>2, <1>3, <2>2 DEF Batch
  <1>5. Visible' = Visible \o Batch
    <2>1. UserMessages(expect, 1, Len(expect))
             = UserMessages(expect, 1, Published) \o UserMessages(expect, Published + 1, Len(expect))
      <3>1. Parted(1, Len(expect), Published, Published + 1)
        BY <1>1 DEF Parted
      <3> QED
        BY <3>1, SplitMessages
    <2> QED
      BY <1>2, <1>3, <2>1 DEF Batch, Visible
  <1> QED
    BY <1>2, <1>4, <1>5

\* The consumer executes the oldest message that is published, or one of the
\* queue's own.
LEMMA StreamExecutes ==
    ASSUME IInv, Executed, cpc \in {"execute", "destroy"}, writer' = writer
    PROVE  \/ UNCHANGED <<Batch, Visible, ran>>
           \/ /\ Visible # <<>> /\ ran' = Head(Visible) /\ Visible' = Tail(Visible)
              /\ UNCHANGED Batch
  <1>1. /\ TypeOK /\ expect \in Seq(Entries) /\ Len(expect) \in Nat
        /\ writer.pending \in Nat /\ Published \in Nat /\ Published <= Len(expect)
        /\ Published = Len(expect) - writer.pending
    BY StreamFacts
  <1>2. /\ InHand = 1 /\ Current.kind = expect[1].kind /\ Current.body = expect[1].body
    BY Reading
  <1>3. Published >= 1
    BY <1>1, <1>2, Summing
  <1>4. /\ Len(expect') = Len(expect) - 1
        /\ \A i \in 1 .. Len(expect') : expect'[i] = expect[i + 1]
    BY Popping
  <1>5. Published' = Published - 1
    BY <1>1, <1>4 DEF Published
  <1>6. \A k \in 2 .. Len(expect) : expect'[k - 1] = expect[k]
    <2> SUFFICES ASSUME NEW k \in 2 .. Len(expect) PROVE expect'[k - 1] = expect[k]
      OBVIOUS
    <2>1. k - 1 \in 1 .. Len(expect') /\ (k - 1) + 1 = k
      BY <1>1, <1>4
    <2> QED
      BY <1>4, <2>1
  <1>7. Batch' = Batch
    <2>1. Alike(expect, Published + 1, Len(expect), expect', Published' + 1, Len(expect'))
      <3>1. ASSUME NEW k \in Published + 1 .. Len(expect), NEW j \in Published' + 1 .. Len(expect'),
                   j - (Published' + 1) = k - (Published + 1)
            PROVE  expect'[j] = expect[k]
        <4>1. k \in 2 .. Len(expect)
          BY <1>1, <1>3
        <4>2. j = k - 1
          <5>1. j \in Int /\ k \in Int /\ Published \in Nat
            BY <1>1
          <5> QED
            BY <1>5, <3>1, <5>1
        <4> QED
          BY <1>6, <4>1, <4>2
      <3>2. /\ Published + 1 \in Int /\ Len(expect) \in Int /\ Published' + 1 \in Int /\ Len(expect') \in Int
            /\ Len(expect') - (Published' + 1) = Len(expect) - (Published + 1)
        BY <1>1, <1>4, <1>5
      <3> QED
        BY <3>1, <3>2 DEF Alike
    <2> QED
      BY <2>1, SameMessages DEF Batch
  <1>8. UserMessages(expect, 2, Published) = Visible'
    <2>1. Alike(expect, 2, Published, expect', 1, Published')
      <3>1. ASSUME NEW k \in 2 .. Published, NEW j \in 1 .. Published', j - 1 = k - 2
            PROVE  expect'[j] = expect[k]
        <4>1. k \in 2 .. Len(expect) /\ j = k - 1
          BY <1>1, <1>5, <3>1
        <4> QED
          BY <1>6, <4>1
      <3>2. /\ 2 \in Int /\ Published \in Int /\ 1 \in Int /\ Published' \in Int
            /\ Published' - 1 = Published - 2
        BY <1>1, <1>5
      <3> QED
        BY <3>1, <3>2 DEF Alike
    <2> QED
      BY <2>1, SameMessages DEF Visible
  <1>9. Visible = UserMessages(expect, 1, 1) \o Visible'
    <2>1. Parted(1, Published, 1, 2)
      BY <1>1, <1>3 DEF Parted
    <2>2. UserMessages(expect, 1, Published) = UserMessages(expect, 1, 1) \o UserMessages(expect, 2, Published)
      BY <2>1, SplitMessages
    <2> QED
      BY <1>8, <2>2 DEF Visible
  <1>10. PICK q, V : q = Visible' /\ q \in Seq(V)
    <2> DEFINE q == UserMessages(expect, 2, Published)
               V == {q[n] : n \in 1 .. Len(q)}
    <2>1. \A n \in 1 .. Len(q) : q[n] \in V
      OBVIOUS
    <2>2. \A W : (\A n \in 1 .. Len(q) : q[n] \in W) => q \in Seq(W)
      BY <1>1, MessagesSeq
    <2> HIDE DEF V, q
    <2>3. q \in Seq(V)
      BY <2>1, <2>2
    <2> QED
      BY <1>8, <2>3 DEF q
  <1>11. CASE expect[1].kind \in QueueKinds
    <2>1. UserMessages(expect, 1, 1) = <<>>
      BY <1>11, NoMessages
    <2>2. Visible = Visible'
      BY <1>9, <1>10, <2>1
    <2>3. ran' = ran
      BY <1>2, <1>11 DEF Executed
    <2> QED
      BY <1>7, <2>2, <2>3
  <1>12. CASE expect[1].kind \notin QueueKinds
    <2>1. UserMessages(expect, 1, 1) = <<AsMessage(expect[1])>>
      BY <1>12, OneMessage
    <2>2. ran' = AsMessage(expect[1])
      BY <1>2, <1>12 DEF Executed, AsMessage
    <2>3. \A x, W : \A s \in Seq(W) : /\ <<x>> \o s # <<>> /\ Head(<<x>> \o s) = x
                                      /\ Tail(<<x>> \o s) = s
      <3> SUFFICES ASSUME NEW x, NEW W, NEW s \in Seq(W)
                   PROVE  <<x>> \o s # <<>> /\ Head(<<x>> \o s) = x /\ Tail(<<x>> \o s) = s
        OBVIOUS
      <3>1. s \in Seq(W \cup {x}) /\ <<x>> \in Seq(W \cup {x})
        OBVIOUS
      <3> QED
        BY <3>1
    <2> QED
      BY <1>7, <1>9, <1>10, <2>1, <2>2, <2>3
  <1> QED
    BY <1>11, <1>12

\* In immediate mode the stream is empty.
LEMMA StreamEmpty ==
    ASSUME IInv, immediate
    PROVE  Batch = <<>> /\ Visible = <<>> /\ writer.pending = 0 /\ Len(expect) = 0
  <1>1. expect = <<>> /\ cpc = "none" /\ Len(expect) = 0
    BY DEF IInv, Control, Threads
  <1>2. writer.pending = 0
    BY <1>1, Drained
  <1>3. Published = 0
    BY <1>1, <1>2 DEF Published
  <1>4. UserMessages(expect, 1, 0) = <<>>
    <2>1. \A k \in 1 .. 0 : expect[k].kind \in QueueKinds
      OBVIOUS
    <2> QED
      BY <2>1, NoMessages
  <1> QED
    BY <1>1, <1>2, <1>3, <1>4 DEF Batch, Visible

\* A message the producer executes itself is not in the stream.
LEMMA StreamSkips ==
    ASSUME IInv, [Next]_vars, immediate, expect' = expect, writer' = writer
    PROVE  /\ Batch = <<>> /\ Visible = <<>> /\ UNCHANGED <<Batch, Visible>>
           /\ ran' \in StreamMessages
  <1>1. ran' \in StreamMessages
    <2>1. TypeOK'
      BY StepHolds DEF IInv
    <2> QED
      BY <2>1 DEF TypeOK, StreamMessages
  <1> QED
    BY <1>1, StreamEmpty DEF Batch, Visible, Published

\* Every step of the queue is a step of the stream, or none.
LEMMA StreamStep ==
    ASSUME IInv, [Next]_vars
    PROVE  \/ UNCHANGED <<Batch, Visible, ran>>
           \/ \E m \in StreamMessages :
                \/ Batch' = Append(Batch, m) /\ UNCHANGED <<Visible, ran>>
                \/ Batch = <<>> /\ Visible = <<>> /\ ran' = m /\ UNCHANGED <<Batch, Visible>>
           \/ Visible' = Visible \o Batch /\ Batch' = <<>> /\ UNCHANGED ran
           \/ /\ Visible # <<>> /\ ran' = Head(Visible) /\ Visible' = Tail(Visible)
              /\ UNCHANGED Batch
  <1>1. CASE \/ ProducerBegins \/ Attach \/ NotifyAll \/ AwaitEvent \/ JoinConsumer \/ Delete
    <2>1. expect' = expect /\ ran' = ran /\ writer' = writer
      BY <1>1 DEF ProducerBegins, BeginWork, BeginKick, BeginFinishWriting, BeginMultithreaded,
                  BeginTerminate, BeginDestroy, Attach, NotifyAll, AwaitEvent, JoinConsumer, Delete, memVars
    <2> QED
      BY <2>1, StreamStutters
  <1>2. CASE AllocateData
    <2>1. expect' = expect /\ ran' = ran /\ writer'.pending = writer.pending
      BY <1>2 DEF AllocateData, IInv, TypeOK
    <2> QED
      BY <2>1, StreamStutters
  <1>3. CASE SwitchChunk
    BY <1>3, StreamIgnoresSwitch
  <1>4. CASE SwitchChunkImmediate
    <2>1. expect' = expect /\ ran' = ran /\ writer'.pending = 0 /\ immediate
      BY <1>4 DEF SwitchChunkImmediate
    <2> QED
      BY <2>1, StreamEmpty, StreamStutters
  <1>5. CASE AllocateMessage
    BY <1>5, StreamWrites
  <1>6. CASE ExecuteDirectly
    <2>1. expect' = expect /\ writer' = writer /\ immediate
      BY <1>6 DEF ExecuteDirectly, memVars
    <2> QED
      BY <2>1, StreamSkips
  <1>7. CASE FreeDirectly
    <2>1. expect' = expect /\ writer' = writer /\ immediate
      BY <1>7 DEF FreeDirectly
    <2> QED
      BY <2>1, StreamSkips
  <1>8. CASE PushMessages
    BY <1>8, StreamPublishes
  <1>9. CASE \/ KeepFlushing \/ FlushDone \/ ThreadExits \/ TakeMessage \/ PullUnderLock \/ StartWaiting
             \/ PullAfterWait \/ ExecuteFreeOne \/ ExecuteSwitch \/ SpuriousWakeup
    <2>1. expect' = expect /\ ran' = ran /\ writer' = writer
      BY <1>9 DEF KeepFlushing, FlushDone, ThreadExits, TakeMessage, PullUnderLock, StartWaiting,
                  PullAfterWait, ExecuteFreeOne, ExecuteSwitch, SpuriousWakeup, consumerKeeps, memVars
    <2> QED
      BY <2>1, StreamStutters
  <1>10. CASE \/ ExecutePlain \/ ExecuteFinish \/ ExecuteWait \/ ExecuteTerminate \/ ExecuteFreeDone
              \/ DestroySwitch
    <2>1. Executed /\ cpc \in {"execute", "destroy"} /\ writer' = writer
      BY <1>10 DEF ExecutePlain, ExecuteFinish, ExecuteWait, ExecuteTerminate, ExecuteFreeDone,
                   DestroySwitch, consumerKeeps
    <2> QED
      BY <2>1, StreamExecutes
  <1>11. CASE UNCHANGED vars
    <2>1. expect' = expect /\ ran' = ran /\ writer' = writer
      BY <1>11 DEF vars
    <2> QED
      BY <2>1, StreamStutters
  <1>12. ProducerStep \/ ConsumerStep \/ ProducerBegins \/ SpuriousWakeup \/ UNCHANGED vars
    BY DEF Next, Gone
  <1>13. CASE ProducerStep
    BY <1>1, <1>2, <1>3, <1>4, <1>5, <1>6, <1>7, <1>8, <1>13 DEF ProducerStep
  <1>14. CASE ConsumerStep
    BY <1>9, <1>10, <1>14 DEF ConsumerStep
  <1> QED
    BY <1>1, <1>9, <1>11, <1>12, <1>13, <1>14

\* The queue, its chunks, pointers, counts and threads, is a stream: a message
\* is executed as it was written, once, in order, and not before its kick.
THEOREM StreamRefined == Spec => Stream!StreamSpec
  <1>1. Init => Stream!StreamInit
    <2> SUFFICES ASSUME Init PROVE Stream!StreamInit
      OBVIOUS
    <2>1. IInv /\ immediate
      BY InitHolds DEF Init
    <2>2. Batch = <<>> /\ Visible = <<>>
      BY <2>1, StreamEmpty
    <2>3. ran \in StreamMessages
      BY <2>1 DEF IInv, TypeOK, StreamMessages
    <2> QED
      BY <2>2, <2>3 DEF Stream!StreamInit, Batch, Visible
  <1>2. IInv /\ [Next]_vars => [Stream!StreamNext]_(Stream!streamVars)
    <2> SUFFICES ASSUME IInv, [Next]_vars
                 PROVE  [Stream!StreamNext]_(Stream!streamVars)
      OBVIOUS
    <2> QED
      BY StreamStep DEF Batch, Visible, Stream!StreamNext, Stream!streamVars, Stream!Write,
                        Stream!Publish, Stream!Execute, Stream!ExecuteDirectly
  <1> QED
    BY <1>1, <1>2, Invariance, PTL DEF Spec, Stream!StreamSpec
=============================================================================
