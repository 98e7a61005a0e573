--------------------------- MODULE DeviceAgentProofs ---------------------------
(* Proofs about DeviceAgent: for every number of frames the main thread may  *)
(* run ahead, every set of buffers and staging buffers, and every length of  *)
(* a run, the pace is kept and no staging slot is reused too early.          *)
(*                                                                           *)
(* The conjuncts of IInv that speak of the stream are restated as predicates *)
(* of a sequence; a few lemmas say how each fares when a command is appended *)
(* to the sequence, or its head taken off.                                   *)
EXTENDS DeviceAgent, TLAPS

Ordered(S, d, f, p) ==
    /\ \A i \in 1 .. Len(S) : d <= S[i].frame /\ S[i].frame <= f
                              /\ (S[i].kind = "present" => S[i].frame < f + p)
    /\ \A i, j \in 1 .. Len(S) : i < j => S[i].frame <= S[j].frame
                              /\ (S[i].kind = "present" => S[i].frame < S[j].frame)
    /\ \A n \in d .. f + p - 1 : \E i \in 1 .. Len(S) : S[i].kind = "present" /\ S[i].frame = n

SlotsAt(S, c, x) ==
    \A i \in 1 .. Len(S) : S[i].kind = "update" => S[i].slot = Back(c, x - S[i].frame)

Staged(S, alive, bytes) ==
    \A i \in 1 .. Len(S) : S[i].kind = "update" =>
       S[i].staging \in alive /\ bytes[S[i].staging][S[i].slot] = S[i].frame

Owned(S, of, alive) ==
    /\ \A b \in Buffers : of[b] \in alive
    /\ \A a, b \in Buffers : of[a] = of[b] => a = b
    /\ \A i \in 1 .. Len(S) : S[i].kind = "free" =>
         /\ S[i].staging \in alive
         /\ \A b \in Buffers : of[b] # S[i].staging
         /\ \A j \in 1 .. Len(S) : j > i => S[j].staging # S[i].staging

WaitsLast(S, w) ==
    \A i \in 1 .. Len(S) : S[i].kind \in {"wait", "terminate"} => i = Len(S) /\ w

-----------------------------------------------------------------------------
(* Sequences of commands. *)

\* Appending keeps what is there and puts the command last.
LEMMA AppendFacts ==
    ASSUME NEW S \in Seq(Commands), NEW m \in Commands
    PROVE  /\ Append(S, m) \in Seq(Commands)
           /\ Len(Append(S, m)) = Len(S) + 1
           /\ \A i \in 1 .. Len(S) : Append(S, m)[i] = S[i]
           /\ Append(S, m)[Len(S) + 1] = m
  OBVIOUS

\* Taking the head off moves the others one place to the front.
LEMMA TailFacts ==
    ASSUME NEW S \in Seq(Commands), S # <<>>
    PROVE  /\ Tail(S) \in Seq(Commands) /\ Head(S) \in Commands /\ Head(S) = S[1]
           /\ Len(S) \in Nat \ {0} /\ Len(Tail(S)) = Len(S) - 1
           /\ \A i \in 1 .. Len(Tail(S)) : Tail(S)[i] = S[i + 1]
  OBVIOUS

\* What the prover needs of a command's fields.
LEMMA CommandFields ==
    ASSUME NEW m \in Commands
    PROVE  /\ m.kind \in CommandKinds /\ m.frame \in Int /\ m.frame >= 0
           /\ m.slot \in FrameSlots
  BY DEF Commands

\* A command appended in frame f keeps the frames in order.
LEMMA OrderedAppend ==
    ASSUME NEW S \in Seq(Commands), NEW m \in Commands, NEW d \in Nat, NEW f \in Nat,
           Ordered(S, d, f, 0), d <= f, m.frame = f, NEW p \in {0, 1},
           p = 0 => m.kind # "present", p = 1 => m.kind = "present"
    PROVE  Ordered(Append(S, m), d, f, p)
  <1> DEFINE T == Append(S, m)
  <1>1. T \in Seq(Commands) /\ Len(T) = Len(S) + 1 /\ Len(S) \in Nat
        /\ (\A i \in 1 .. Len(S) : T[i] = S[i]) /\ T[Len(S) + 1] = m
    BY AppendFacts
  <1>2. \A i \in 1 .. Len(S) : S[i].frame \in Int
    BY CommandFields
  <1> HIDE DEF T
  <1>3. \A i \in 1 .. Len(T) : d <= T[i].frame /\ T[i].frame <= f
                               /\ (T[i].kind = "present" => T[i].frame < f + p)
    <2> TAKE i \in 1 .. Len(T)
    <2>1. CASE i = Len(S) + 1
      BY <1>1, <2>1
    <2>2. CASE i \in 1 .. Len(S)
      BY <1>1, <1>2, <2>2 DEF Ordered
    <2> QED BY <1>1, <2>1, <2>2
  <1>4. \A i, j \in 1 .. Len(T) : i < j => T[i].frame <= T[j].frame
                               /\ (T[i].kind = "present" => T[i].frame < T[j].frame)
    <2> TAKE i, j \in 1 .. Len(T)
    <2> HAVE i < j
    <2>1. i \in 1 .. Len(S) /\ T[i] = S[i]
      BY <1>1
    <2>2. CASE j = Len(S) + 1
      BY <1>1, <1>2, <2>1, <2>2 DEF Ordered
    <2>3. CASE j \in 1 .. Len(S)
      BY <1>1, <2>1, <2>3 DEF Ordered
    <2> QED BY <1>1, <2>2, <2>3
  <1>5. \A n \in d .. f + p - 1 : \E i \in 1 .. Len(T) : T[i].kind = "present" /\ T[i].frame = n
    <2> TAKE n \in d .. f + p - 1
    <2>1. CASE n = f
      <3>1. p = 1
        BY <2>1
      <3>2. Len(S) + 1 \in 1 .. Len(T) /\ T[Len(S) + 1].kind = "present" /\ T[Len(S) + 1].frame = n
        BY <1>1, <2>1, <3>1
      <3> QED BY <3>2
    <2>2. CASE n # f
      <3>1. n \in d .. f + 0 - 1
        BY <2>2
      <3>2. PICK i \in 1 .. Len(S) : S[i].kind = "present" /\ S[i].frame = n
        BY <3>1 DEF Ordered
      <3> QED BY <1>1, <3>2
    <2> QED BY <2>1, <2>2
  <1> QED BY <1>3, <1>4, <1>5 DEF Ordered, T

\* The head of the stream, when it is a present command, is that of the oldest
\* frame the device has not presented.
LEMMA OrderedHead ==
    ASSUME NEW S \in Seq(Commands), S # <<>>, NEW d \in Nat, NEW f \in Nat, NEW p \in {0, 1},
           Ordered(S, d, f, p), Head(S).kind = "present"
    PROVE  Head(S).frame = d /\ d < f + p
  <1>1. Head(S) = S[1] /\ Len(S) \in Nat \ {0} /\ 1 \in 1 .. Len(S)
    BY TailFacts
  <1>2. \A i \in 1 .. Len(S) : S[i].frame \in Int
    BY CommandFields
  <1>3. d <= S[1].frame /\ S[1].frame < f + p
    BY <1>1 DEF Ordered
  <1>4. d \in d .. f + p - 1
    BY <1>1, <1>2, <1>3
  <1>5. PICK i \in 1 .. Len(S) : S[i].kind = "present" /\ S[i].frame = d
    BY <1>4 DEF Ordered
  <1>6. S[1].frame <= S[i].frame
    <2>1. CASE i = 1
      BY <1>1, <1>2, <2>1
    <2>2. CASE i > 1
      BY <1>1, <2>2 DEF Ordered
    <2> QED BY <1>1, <2>1, <2>2
  <1> QED BY <1>1, <1>2, <1>3, <1>5, <1>6

\* Executing the head keeps the order; a present command ends its frame.
LEMMA OrderedTail ==
    ASSUME NEW S \in Seq(Commands), S # <<>>, NEW d \in Nat, NEW f \in Nat, NEW p \in {0, 1},
           Ordered(S, d, f, p)
    PROVE  Ordered(Tail(S), IF Head(S).kind = "present" THEN d + 1 ELSE d, f, p)
  <1> DEFINE T == Tail(S)
             e == IF Head(S).kind = "present" THEN d + 1 ELSE d
  <1>1. T \in Seq(Commands) /\ Head(S) = S[1] /\ Len(S) \in Nat \ {0}
        /\ Len(T) = Len(S) - 1 /\ \A i \in 1 .. Len(T) : T[i] = S[i + 1]
    BY TailFacts
  <1>2. \A i \in 1 .. Len(S) : S[i].frame \in Int
    BY CommandFields
  <1>3. e \in Nat /\ d <= e /\ (S[1].kind = "present" => S[1].frame = d /\ e = d + 1)
        /\ (S[1].kind # "present" => e = d)
    BY <1>1, OrderedHead
  <1> HIDE DEF T, e
  <1>4. \A i \in 1 .. Len(T) : e <= T[i].frame /\ T[i].frame <= f
                               /\ (T[i].kind = "present" => T[i].frame < f + p)
    <2> TAKE i \in 1 .. Len(T)
    <2>1. i + 1 \in 1 .. Len(S) /\ T[i] = S[i + 1] /\ 1 \in 1 .. Len(S) /\ 1 < i + 1
      BY <1>1
    <2>2. d <= T[i].frame /\ T[i].frame <= f /\ (T[i].kind = "present" => T[i].frame < f + p)
      BY <2>1 DEF Ordered
    <2>3. S[1].kind = "present" => S[1].frame < S[i + 1].frame
      BY <2>1 DEF Ordered
    <2> QED BY <1>2, <1>3, <2>1, <2>2, <2>3
  <1>5. \A i, j \in 1 .. Len(T) : i < j => T[i].frame <= T[j].frame
                               /\ (T[i].kind = "present" => T[i].frame < T[j].frame)
    <2> TAKE i, j \in 1 .. Len(T)
    <2> HAVE i < j
    <2>1. /\ i + 1 \in 1 .. Len(S) /\ j + 1 \in 1 .. Len(S) /\ i + 1 < j + 1
          /\ T[i] = S[i + 1] /\ T[j] = S[j + 1]
      BY <1>1
    <2> QED BY <2>1 DEF Ordered
  <1>6. \A n \in e .. f + p - 1 : \E i \in 1 .. Len(T) : T[i].kind = "present" /\ T[i].frame = n
    <2> TAKE n \in e .. f + p - 1
    <2>1. n \in d .. f + p - 1
      BY <1>3
    <2>2. PICK i \in 1 .. Len(S) : S[i].kind = "present" /\ S[i].frame = n
      BY <2>1 DEF Ordered
    <2>3. i # 1
      BY <1>3, <2>2
    <2>4. i - 1 \in 1 .. Len(T) /\ T[i - 1] = S[i]
      BY <1>1, <2>2, <2>3
    <2> QED BY <2>2, <2>4
  <1> QED BY <1>4, <1>5, <1>6 DEF Ordered, T, e

\* present() ends the frame: the stream is that of the next one.
LEMMA OrderedNextFrame ==
    ASSUME NEW S \in Seq(Commands), NEW d \in Nat, NEW f \in Nat, Ordered(S, d, f, 1)
    PROVE  Ordered(S, d, f + 1, 0)
  <1>1. \A i \in 1 .. Len(S) : S[i].frame \in Int
    BY CommandFields
  <1> QED BY <1>1 DEF Ordered

-----------------------------------------------------------------------------
(* Slots and staging buffers. *)

\* The slot of the current frame is taken by the updates of that frame only,
\* among the frames that can be in the stream.
LEMMA BackOnce ==
    ASSUME NEW c \in FrameSlots, NEW k \in 0 .. MaxAhead, Back(c, k) = c
    PROVE  k = 0
  BY DeviceAssumption DEF Back, FrameSlots, MaxFrameIndex

\* The index the next frame gets is one place further, around the ring.
LEMMA NextIndexFacts ==
    ASSUME NEW c \in FrameSlots
    PROVE  /\ (c + 1) % MaxFrameIndex = IF c = MaxAhead THEN 0 ELSE c + 1
           /\ (c + 1) % MaxFrameIndex \in FrameSlots
  <1> DEFINE N == MaxFrameIndex
  <1>1. N \in Nat \ {0} /\ c \in 0 .. N - 1 /\ N = MaxAhead + 1
    BY DeviceAssumption DEF FrameSlots, MaxFrameIndex
  <1> HIDE DEF N
  <1>2. (c + 1) % N = IF c + 1 = N THEN 0 ELSE c + 1
    BY <1>1
  <1> QED BY <1>1, <1>2, DeviceAssumption DEF N, FrameSlots

\* Seen from the next frame's slot, every frame's slot is one further back.
LEMMA BackNext ==
    ASSUME NEW c \in FrameSlots, NEW k \in 0 .. MaxAhead
    PROVE  Back((c + 1) % MaxFrameIndex, k + 1) = Back(c, k)
  <1>1. (c + 1) % MaxFrameIndex = IF c = MaxAhead THEN 0 ELSE c + 1
    BY NextIndexFacts
  <1> DEFINE n == (c + 1) % MaxFrameIndex
  <1>2. n = IF c = MaxAhead THEN 0 ELSE c + 1
    BY <1>1
  <1> HIDE DEF n
  <1>3. Back(n, k + 1) = Back(c, k)
    BY <1>2, DeviceAssumption DEF Back, FrameSlots, MaxFrameIndex
  <1> QED BY <1>3 DEF n

\* How old a frame in the stream can be.
LEMMA AgeBound ==
    ASSUME NEW d \in Nat, NEW f \in Nat, f - d <= MaxAhead,
           NEW x \in Int, d <= x, x <= f
    PROVE  f - x \in 0 .. MaxAhead /\ (f + 1) - x = (f - x) + 1
  BY DeviceAssumption

\* An appended update has the slot of its frame.
LEMMA SlotsAppend ==
    ASSUME NEW S \in Seq(Commands), NEW m \in Commands, NEW c \in FrameSlots, NEW x \in Nat,
           SlotsAt(S, c, x), m.kind = "update" => m.slot = c /\ m.frame = x
    PROVE  SlotsAt(Append(S, m), c, x)
  <1> DEFINE T == Append(S, m)
  <1>1. Len(T) = Len(S) + 1 /\ Len(S) \in Nat
        /\ (\A i \in 1 .. Len(S) : T[i] = S[i]) /\ T[Len(S) + 1] = m
    BY AppendFacts
  <1>2. Back(c, x - x) = c
    BY DEF Back, FrameSlots
  <1> HIDE DEF T
  <1>3. SUFFICES ASSUME NEW i \in 1 .. Len(T), T[i].kind = "update"
                 PROVE  T[i].slot = Back(c, x - T[i].frame)
    BY DEF SlotsAt, T
  <1>4. CASE i = Len(S) + 1
    BY <1>1, <1>2, <1>3, <1>4
  <1>5. CASE i \in 1 .. Len(S)
    BY <1>1, <1>3, <1>5 DEF SlotsAt
  <1> QED BY <1>1, <1>4, <1>5

\* Moving on to the next frame's slot keeps the slots' distance, as long as
\* no frame in the stream is more than MaxAhead old.
LEMMA SlotsNextIndex ==
    ASSUME NEW S \in Seq(Commands), NEW c \in FrameSlots, NEW f \in Nat, NEW d \in Nat,
           NEW p \in {0, 1}, Ordered(S, d, f, p), f - d <= MaxAhead, SlotsAt(S, c, f)
    PROVE  SlotsAt(S, (c + 1) % MaxFrameIndex, f + 1)
  <1> DEFINE n == (c + 1) % MaxFrameIndex
  <1>0. \A k \in 0 .. MaxAhead : Back(n, k + 1) = Back(c, k)
    BY BackNext
  <1> HIDE DEF n
  <1> SUFFICES SlotsAt(S, n, f + 1)
    BY DEF n
  <1>1. SUFFICES ASSUME NEW i \in 1 .. Len(S), S[i].kind = "update"
                 PROVE  S[i].slot = Back(n, (f + 1) - S[i].frame)
    BY DEF SlotsAt
  <1>2. S[i].frame \in Int /\ d <= S[i].frame /\ S[i].frame <= f
    BY CommandFields DEF Ordered
  <1> DEFINE k == f - S[i].frame
  <1>3. k \in 0 .. MaxAhead /\ (f + 1) - S[i].frame = k + 1
    BY <1>2, AgeBound
  <1>4. S[i].slot = Back(c, k)
    BY <1>1 DEF SlotsAt
  <1>5. Back(n, k + 1) = Back(c, k)
    BY <1>0, <1>3
  <1> QED BY <1>3, <1>4, <1>5

\* Filling the current slot of one staging buffer leaves the bytes of older
\* frames in the stream alone, and an appended update finds its own.
LEMMA StagedFill ==
    ASSUME NEW S \in Seq(Commands), NEW m \in Commands, NEW c \in FrameSlots, NEW f \in Nat,
           NEW d \in Nat, Ordered(S, d, f, 0), f - d <= MaxAhead, SlotsAt(S, c, f),
           NEW alive \in SUBSET Stagings, NEW bytes \in [Stagings -> [FrameSlots -> Nat]],
           Staged(S, alive, bytes), NEW s \in alive,
           m.staging = s, m.slot = c, m.frame = f
    PROVE  Staged(Append(S, m), alive, [bytes EXCEPT ![s][c] = f])
  <1> DEFINE T == Append(S, m)
             filled == [bytes EXCEPT ![s][c] = f]
  <1>1. Len(T) = Len(S) + 1 /\ Len(S) \in Nat
        /\ (\A i \in 1 .. Len(S) : T[i] = S[i]) /\ T[Len(S) + 1] = m
    BY AppendFacts
  <1>2. filled[s][c] = f
    OBVIOUS
  <1>3. \A r \in Stagings, k \in FrameSlots : r # s \/ k # c => filled[r][k] = bytes[r][k]
    OBVIOUS
  <1> HIDE DEF T, filled
  <1>4. SUFFICES ASSUME NEW i \in 1 .. Len(T), T[i].kind = "update"
                 PROVE  T[i].staging \in alive /\ filled[T[i].staging][T[i].slot] = T[i].frame
    BY DEF Staged, T, filled
  <1>5. CASE i = Len(S) + 1
    BY <1>1, <1>2, <1>5
  <1>6. CASE i \in 1 .. Len(S)
    <2>1. T[i] = S[i] /\ S[i].kind = "update"
      BY <1>1, <1>4, <1>6
    <2>2. /\ S[i].staging \in alive /\ bytes[S[i].staging][S[i].slot] = S[i].frame
          /\ S[i].slot \in FrameSlots /\ S[i].slot = Back(c, f - S[i].frame)
          /\ S[i].frame \in Int /\ d <= S[i].frame /\ S[i].frame <= f
      BY <1>6, <2>1, CommandFields DEF Staged, SlotsAt, Ordered
    <2>3. CASE S[i].staging = s /\ S[i].slot = c
      <3>0. S[i].frame \in Int /\ d <= S[i].frame /\ S[i].frame <= f
        BY <2>2
      <3>1. f - S[i].frame \in 0 .. MaxAhead
        BY <3>0, AgeBound
      <3>2. f - S[i].frame = 0
        BY <2>2, <2>3, <3>1, BackOnce
      <3> QED BY <1>2, <2>1, <2>2, <2>3, <3>2
    <2>4. CASE S[i].staging # s \/ S[i].slot # c
      BY <1>3, <2>1, <2>2, <2>4
    <2> QED BY <2>3, <2>4
  <1> QED BY <1>1, <1>5, <1>6

\* Other commands leave the staged frames as they are, and so does a new
\* staging buffer.
LEMMA StagedAppend ==
    ASSUME NEW S \in Seq(Commands), NEW m \in Commands, m.kind # "update",
           NEW alive, NEW bytes, Staged(S, alive, bytes), NEW more
    PROVE  Staged(Append(S, m), alive \cup more, bytes)
  <1>1. LET T == Append(S, m)
        IN  /\ Len(T) = Len(S) + 1 /\ Len(S) \in Nat
            /\ (\A i \in 1 .. Len(S) : T[i] = S[i]) /\ T[Len(S) + 1] = m
    BY AppendFacts
  <1> QED BY <1>1 DEF Staged

\* A staging buffer is freed by a command after which none uses it.
LEMMA StagedTail ==
    ASSUME NEW S \in Seq(Commands), S # <<>>, NEW alive, NEW bytes, Staged(S, alive, bytes),
           NEW of, Owned(S, of, alive)
    PROVE  Staged(Tail(S), IF Head(S).kind = "free" THEN alive \ {Head(S).staging} ELSE alive, bytes)
  <1> DEFINE T == Tail(S)
  <1>1. Head(S) = S[1] /\ Len(S) \in Nat \ {0}
        /\ Len(T) = Len(S) - 1 /\ \A i \in 1 .. Len(T) : T[i] = S[i + 1]
    BY TailFacts
  <1> HIDE DEF T
  <1>2. \A i \in 1 .. Len(T) : i + 1 \in 1 .. Len(S) /\ T[i] = S[i + 1] /\ i + 1 > 1 /\ 1 \in 1 .. Len(S)
    BY <1>1
  <1>3. \A i \in 1 .. Len(T) : T[i].kind = "update" =>
           T[i].staging \in alive /\ bytes[T[i].staging][T[i].slot] = T[i].frame
    BY <1>2 DEF Staged
  <1>4. S[1].kind = "free" => \A i \in 1 .. Len(T) : T[i].staging # S[1].staging
    BY <1>2 DEF Owned
  <1> QED BY <1>1, <1>3, <1>4 DEF Staged, T

-----------------------------------------------------------------------------
(* Who owns a staging buffer, and who waits. *)

\* A command that uses a buffer's own staging buffer, or none, may be added.
LEMMA OwnedAppend ==
    ASSUME NEW S \in Seq(Commands), NEW m \in Commands, NEW alive \in SUBSET Stagings,
           NEW of, Owned(S, of, alive), m.kind # "free",
           m.staging = NoBuffer \/ \E b \in Buffers : m.staging = of[b]
    PROVE  Owned(Append(S, m), of, alive)
  <1> DEFINE T == Append(S, m)
  <1>1. /\ Len(T) = Len(S) + 1 /\ Len(S) \in Nat
        /\ (\A i \in 1 .. Len(S) : T[i] = S[i]) /\ T[Len(S) + 1] = m
    BY AppendFacts
  <1> HIDE DEF T
  <1>2. \A i \in 1 .. Len(T) : T[i].kind = "free" => i \in 1 .. Len(S) /\ T[i] = S[i]
    BY <1>1
  <1>3. \A i \in 1 .. Len(T) : T[i].kind = "free" =>
           T[i].staging \in alive /\ \A b \in Buffers : of[b] # T[i].staging
    BY <1>2 DEF Owned
  <1>4. \A i, j \in 1 .. Len(T) : T[i].kind = "free" /\ j > i => T[j].staging # T[i].staging
    <2> TAKE i, j \in 1 .. Len(T)
    <2> HAVE T[i].kind = "free" /\ j > i
    <2>1. CASE j = Len(S) + 1
      BY <1>1, <1>3, <2>1, DeviceAssumption
    <2>2. CASE j \in 1 .. Len(S)
      BY <1>1, <1>2, <2>2 DEF Owned
    <2> QED BY <1>1, <2>1, <2>2
  <1> QED BY <1>3, <1>4 DEF Owned, T

\* A resize gives the old staging buffer to a command and takes a new one.
LEMMA OwnedResize ==
    ASSUME NEW S \in Seq(Commands), NEW m \in Commands, NEW alive \in SUBSET Stagings,
           NEW of \in [Buffers -> Stagings], Owned(S, of, alive),
           NEW b \in Buffers, m.kind = "free", m.staging = of[b], NEW s \in Stagings \ alive
    PROVE  Owned(Append(S, m), [of EXCEPT ![b] = s], alive \cup {s})
  <1> DEFINE T == Append(S, m)
             new == [of EXCEPT ![b] = s]
  <1>1. /\ Len(T) = Len(S) + 1 /\ Len(S) \in Nat
        /\ (\A i \in 1 .. Len(S) : T[i] = S[i]) /\ T[Len(S) + 1] = m
    BY AppendFacts
  <1>2. new[b] = s /\ \A a \in Buffers : a # b => new[a] = of[a]
    OBVIOUS
  <1>3. \A a \in Buffers : of[a] \in alive /\ of[a] # s
    BY DEF Owned
  <1> HIDE DEF T, new
  <1>4. \A a \in Buffers : new[a] \in alive \cup {s}
    BY <1>2, <1>3
  <1>5. \A a, e \in Buffers : new[a] = new[e] => a = e
    BY <1>2, <1>3 DEF Owned
  <1>6. \A i \in 1 .. Len(T) : T[i].kind = "free" =>
           T[i].staging \in alive /\ \A a \in Buffers : new[a] # T[i].staging
    <2> TAKE i \in 1 .. Len(T)
    <2> HAVE T[i].kind = "free"
    <2>1. CASE i = Len(S) + 1
      <3>1. T[i].staging = of[b]
        BY <1>1, <2>1
      <3>2. \A a \in Buffers : a # b => of[a] # of[b]
        BY DEF Owned
      <3> QED BY <1>2, <1>3, <3>1, <3>2
    <2>2. CASE i \in 1 .. Len(S)
      <3>1. T[i].staging \in alive /\ \A a \in Buffers : of[a] # T[i].staging
        BY <1>1, <2>2 DEF Owned
      <3> QED BY <1>2, <3>1
    <2> QED BY <1>1, <2>1, <2>2
  <1>7. \A i, j \in 1 .. Len(T) : T[i].kind = "free" /\ j > i => T[j].staging # T[i].staging
    <2> TAKE i, j \in 1 .. Len(T)
    <2> HAVE T[i].kind = "free" /\ j > i
    <2>1. i \in 1 .. Len(S) /\ T[i] = S[i]
      BY <1>1
    <2>2. CASE j = Len(S) + 1
      BY <1>1, <2>1, <2>2 DEF Owned
    <2>3. CASE j \in 1 .. Len(S)
      BY <1>1, <2>1, <2>3 DEF Owned
    <2> QED BY <1>1, <2>2, <2>3
  <1> QED BY <1>4, <1>5, <1>6, <1>7 DEF Owned, T, new

\* Executing the head keeps the owners, and frees what has none.
LEMMA OwnedTail ==
    ASSUME NEW S \in Seq(Commands), S # <<>>, NEW alive, NEW of, Owned(S, of, alive)
    PROVE  Owned(Tail(S), of, IF Head(S).kind = "free" THEN alive \ {Head(S).staging} ELSE alive)
  <1> DEFINE T == Tail(S)
             left == IF Head(S).kind = "free" THEN alive \ {Head(S).staging} ELSE alive
  <1>1. Head(S) = S[1] /\ Len(S) \in Nat \ {0}
        /\ Len(T) = Len(S) - 1 /\ \A i \in 1 .. Len(T) : T[i] = S[i + 1]
    BY TailFacts
  <1> HIDE DEF T
  <1>2. \A i \in 1 .. Len(T) : i + 1 \in 1 .. Len(S) /\ T[i] = S[i + 1] /\ i + 1 > 1 /\ 1 \in 1 .. Len(S)
    BY <1>1
  <1>3. \A b \in Buffers : of[b] \in left
    <2>1. 1 \in 1 .. Len(S)
      BY <1>1
    <2>2. S[1].kind = "free" => \A b \in Buffers : of[b] # S[1].staging
      BY <2>1 DEF Owned
    <2> QED BY <1>1, <2>2 DEF Owned
  <1>4. \A i \in 1 .. Len(T) : T[i].kind = "free" =>
           T[i].staging \in left /\ \A b \in Buffers : of[b] # T[i].staging
    BY <1>1, <1>2 DEF Owned
  <1>5. \A i, j \in 1 .. Len(T) : T[i].kind = "free" /\ j > i => T[j].staging # T[i].staging
    <2> TAKE i, j \in 1 .. Len(T)
    <2> HAVE T[i].kind = "free" /\ j > i
    <2>1. j + 1 > i + 1
      BY <1>1
    <2> QED BY SMTT(30), <1>2, <2>1 DEF Owned
  <1> HIDE DEF left
  <1>6. (\A a, b \in Buffers : of[a] = of[b] => a = b)
    BY DEF Owned
  <1>7. Owned(T, of, left)
    BY <1>3, <1>4, <1>5, <1>6 DEF Owned
  <1> QED BY <1>7 DEF T, left

\* The slots of the commands behind the head stay.
LEMMA SlotsTail ==
    ASSUME NEW S \in Seq(Commands), S # <<>>, NEW c, NEW x, SlotsAt(S, c, x)
    PROVE  SlotsAt(Tail(S), c, x)
  <1> DEFINE T == Tail(S)
  <1>1. Len(T) = Len(S) - 1 /\ Len(S) \in Nat /\ \A i \in 1 .. Len(T) : T[i] = S[i + 1]
    BY TailFacts
  <1> HIDE DEF T
  <1>2. \A i \in 1 .. Len(T) : i + 1 \in 1 .. Len(S) /\ T[i] = S[i + 1]
    BY <1>1
  <1>3. SlotsAt(T, c, x)
    BY <1>2 DEF SlotsAt
  <1> QED BY <1>3 DEF T

\* A waiting command comes last: nothing else is written until it is executed.
LEMMA WaitsAppend ==
    ASSUME NEW S \in Seq(Commands), NEW m \in Commands, WaitsLast(S, FALSE),
           NEW w \in BOOLEAN, m.kind \in {"wait", "terminate"} => w
    PROVE  WaitsLast(Append(S, m), w)
  <1> DEFINE T == Append(S, m)
  <1>1. /\ Len(T) = Len(S) + 1 /\ Len(S) \in Nat
        /\ (\A i \in 1 .. Len(S) : T[i] = S[i]) /\ T[Len(S) + 1] = m
    BY AppendFacts
  <1> HIDE DEF T
  <1>2. \A i \in 1 .. Len(T) : i \in 1 .. Len(S) \/ i = Len(T)
    BY <1>1
  <1>3. WaitsLast(T, w)
    BY <1>1, <1>2 DEF WaitsLast
  <1> QED BY <1>3 DEF T

\* It is executed when nothing else is left.
LEMMA WaitsTail ==
    ASSUME NEW S \in Seq(Commands), S # <<>>, NEW w, WaitsLast(S, w)
    PROVE  /\ WaitsLast(Tail(S), w)
           /\ Head(S).kind \in {"wait", "terminate"} => Tail(S) = <<>> /\ w
  <1> DEFINE T == Tail(S)
  <1>1. /\ T \in Seq(Commands) /\ Len(T) = Len(S) - 1 /\ Len(S) \in Nat \ {0} /\ Head(S) = S[1]
        /\ \A i \in 1 .. Len(T) : T[i] = S[i + 1]
    BY TailFacts
  <1>2. 1 \in 1 .. Len(S)
    BY <1>1
  <1>3. Head(S).kind \in {"wait", "terminate"} => 1 = Len(S) /\ w
    BY <1>1, <1>2 DEF WaitsLast
  <1> HIDE DEF T
  <1>4. Len(T) = 0 => T = <<>>
    BY <1>1
  <1>5. \A i \in 1 .. Len(T) : i + 1 \in 1 .. Len(S) /\ T[i] = S[i + 1] /\ (i + 1 = Len(S) => i = Len(T))
    BY <1>1
  <1>6. WaitsLast(T, w)
    BY <1>5 DEF WaitsLast
  <1>7. Head(S).kind \in {"wait", "terminate"} => T = <<>> /\ w
    BY <1>1, <1>3, <1>4
  <1> QED BY <1>6, <1>7 DEF T

-----------------------------------------------------------------------------
(* The invariant, in these terms. *)

StreamInv == /\ Ordered(InStream, done, frame, InPresent)
             /\ SlotsAt(InStream, currentIndex, IndexedFrame)
             /\ Staged(InStream, live, staging)
             /\ Owned(InStream, stagingOf, live)
             /\ WaitsLast(InStream, Waiting)

Answered == /\ event = 1 => InStream = <<>> /\ Waiting
            /\ ~multithreaded \/ mpc = "gone" => InStream = <<>>

\* The restated conjuncts say the same.
LEMMA Restated == IInv <=> TypeOK /\ FramePacing /\ StreamInv /\ Answered
  <1>1. FramesInOrder <=> Ordered(InStream, done, frame, InPresent)
    BY Zenon DEF FramesInOrder, Ordered
  <1>2. SlotsFollowFrames <=> SlotsAt(InStream, currentIndex, IndexedFrame)
    BY Zenon DEF SlotsFollowFrames, SlotsAt
  <1>3. StagedFrameIntact <=> Staged(InStream, live, staging)
    BY Zenon DEF StagedFrameIntact, Staged
  <1>4. StagingsOwned <=> Owned(InStream, stagingOf, live)
    BY Zenon DEF StagingsOwned, Owned
  <1>5. WaitsAnswered <=> WaitsLast(InStream, Waiting) /\ Answered
    BY Zenon DEF WaitsAnswered, WaitsLast, Answered
  <1> QED BY <1>1, <1>2, <1>3, <1>4, <1>5 DEF IInv, StreamInv

LEMMA RestatedNext == IInv' <=> TypeOK' /\ FramePacing' /\ StreamInv' /\ Answered'
  BY Restated, PTL

\* What the three operations of the stream do to its contents.
LEMMA StreamType == ASSUME TypeOK PROVE InStream \in Seq(Commands)
  BY DEF TypeOK, InStream

LEMMA WriteEffect ==
    ASSUME TypeOK, NEW m \in Commands, Write(m)
    PROVE  /\ batch' \in Seq(Commands) /\ visible' \in Seq(Commands) /\ ran' \in Commands
           /\ InStream' = Append(InStream, m)
  BY DEF TypeOK, Write, InStream

LEMMA PublishEffect ==
    ASSUME TypeOK, Publish
    PROVE  /\ batch' \in Seq(Commands) /\ visible' \in Seq(Commands) /\ ran' \in Commands
           /\ InStream' = InStream
  BY DEF TypeOK, Publish, InStream

LEMMA ExecuteEffect ==
    ASSUME TypeOK, Execute
    PROVE  /\ batch' \in Seq(Commands) /\ visible' \in Seq(Commands) /\ ran' \in Commands
           /\ InStream # <<>> /\ InStream' = Tail(InStream) /\ Head(visible) = Head(InStream)
  BY DEF TypeOK, Execute, InStream

LEMMA DirectEffect ==
    ASSUME TypeOK, NEW m \in Commands, ExecuteDirectly(m)
    PROVE  /\ batch' \in Seq(Commands) /\ visible' \in Seq(Commands) /\ ran' \in Commands
           /\ InStream = <<>> /\ InStream' = <<>>
  BY DEF TypeOK, ExecuteDirectly, InStream

\* Nothing in an empty stream can be wrong, once the device has presented
\* every frame.
LEMMA EmptyOrdered ==
    ASSUME NEW d \in Nat, NEW f \in Nat, NEW p \in {0, 1}
    PROVE  Ordered(<<>>, d, f, p) <=> d >= f + p
  <1>1. Len(<<>>) = 0
    OBVIOUS
  <1>2. d < f + p => d \in d .. f + p - 1
    OBVIOUS
  <1> QED BY <1>1, <1>2 DEF Ordered

LEMMA EmptyRest ==
    /\ \A c, x : SlotsAt(<<>>, c, x)
    /\ \A alive, bytes : Staged(<<>>, alive, bytes)
    /\ \A w : WaitsLast(<<>>, w)
    /\ \A of, alive : Owned(<<>>, of, alive) <=>
         (\A b \in Buffers : of[b] \in alive) /\ \A a, b \in Buffers : of[a] = of[b] => a = b
  BY DEF SlotsAt, Staged, Owned, WaitsLast

\* The initial states.
LEMMA InitIInv == Init => IInv
  <1> SUFFICES ASSUME Init PROVE IInv
    OBVIOUS
  <1>1. InStream = <<>> /\ InPresent = 0
    BY DEF Init, InStream, InPresent
  <1>2. TypeOK
    BY <1>1, DeviceAssumption DEF Init, TypeOK, Commands, CommandKinds, FrameSlots
  <1>3. FramePacing
    BY <1>1, DeviceAssumption DEF Init, FramePacing
  <1>4. StreamInv
    <2>1. /\ \A b \in Buffers : stagingOf[b] \in live
          /\ \A a, b \in Buffers : stagingOf[a] = stagingOf[b] => a = b
      BY DEF Init
    <2>2. done = 0 /\ frame = 0
      BY DEF Init
    <2>3. Ordered(<<>>, 0, 0, 0)
      BY EmptyOrdered
    <2> QED BY <1>1, <2>1, <2>2, <2>3, EmptyRest DEF StreamInv
  <1>5. Answered
    BY <1>1 DEF Init, Answered
  <1> QED BY <1>2, <1>3, <1>4, <1>5, Restated

-----------------------------------------------------------------------------
(* The calls that begin. *)

\* The facts every step starts from.
LEMMA Facts ==
    ASSUME IInv
    PROVE  /\ TypeOK /\ FramePacing /\ StreamInv /\ Answered
           /\ InStream \in Seq(Commands)
           /\ done \in Nat /\ frame \in Nat /\ semaphore \in Nat
           /\ InPresent \in {0, 1} /\ frame + InPresent <= MaxFrames
           /\ currentIndex \in FrameSlots
  <1>1. TypeOK /\ FramePacing /\ StreamInv /\ Answered
    BY Restated
  <1>2. InStream \in Seq(Commands)
    BY <1>1, StreamType
  <1>3. InPresent \in {0, 1}
    BY DEF InPresent
  <1>4. done \in Nat /\ frame \in 0 .. MaxFrames - InPresent /\ semaphore \in Nat
        /\ currentIndex \in FrameSlots
    BY <1>1 DEF TypeOK
  <1> QED BY <1>1, <1>2, <1>3, <1>4, DeviceAssumption

LEMMA TypeFacts ==
    ASSUME IInv
    PROVE  /\ batch \in Seq(Commands) /\ visible \in Seq(Commands) /\ ran \in Commands
           /\ stagingOf \in [Buffers -> Stagings] /\ live \in SUBSET Stagings
           /\ staging \in [Stagings -> [FrameSlots -> Nat]] /\ uploaded \in [Buffers -> Nat]
           /\ currentIndex \in FrameSlots /\ 0 \in FrameSlots
           /\ frame \in 0 .. MaxFrames - InPresent /\ frame \in 0 .. MaxFrames
           /\ done \in Nat /\ semaphore \in Nat /\ MaxAhead \in Nat
           /\ event \in {0, 1} /\ multithreaded \in BOOLEAN
  <1>1. TypeOK /\ frame \in 0 .. MaxFrames /\ MaxAhead \in Nat /\ 0 \in FrameSlots
    BY Facts, DeviceAssumption DEF FrameSlots
  <1> QED BY <1>1 DEF TypeOK

\* Commands without data are well formed.
LEMMA PlainType ==
    ASSUME IInv, NEW kind \in {"present", "wait", "terminate"}
    PROVE  /\ Plain(kind) \in Commands
           /\ Plain(kind).kind = kind /\ Plain(kind).frame = frame /\ Plain(kind).staging = NoBuffer
  <1>1. frame \in 0 .. MaxFrames
    BY Facts, DeviceAssumption
  <1>2. 0 \in FrameSlots
    BY DeviceAssumption DEF FrameSlots
  <1> QED BY <1>1, <1>2 DEF Plain, Command, Commands, CommandKinds

\* What a command without data leaves alone, and where it takes the call.
PlainLeaves == UNCHANGED <<multithreaded, frameVars, stagingVars, deviceVars>>
Begins(kind) == /\ kind = "present" => mpc' = "kick" /\ frame < MaxFrames
                /\ kind = "wait" => mpc' = "waitKick"
                /\ kind = "terminate" => mpc' \in {"joinKick", "destroyKick"}

\* A present, wait or terminate command goes to the stream.
LEMMA PlainWritten ==
    ASSUME IInv, NEW kind \in {"present", "wait", "terminate"}, mpc = "idle", multithreaded,
           Write(Plain(kind)), PlainLeaves, Begins(kind)
    PROVE  IInv'
  <1> DEFINE m == Plain(kind)
  <1>1. /\ m \in Commands /\ m.kind = kind /\ m.frame = frame /\ m.staging = NoBuffer
    BY PlainType
  <1> HIDE DEF m
  <1>2. /\ batch' \in Seq(Commands) /\ visible' \in Seq(Commands) /\ ran' \in Commands
        /\ InStream' = Append(InStream, m)
    BY <1>1, Facts, WriteEffect DEF m
  <1>3. /\ InPresent = 0 /\ IndexedFrame = frame /\ Waiting = FALSE
        /\ InPresent' = (IF kind = "present" THEN 1 ELSE 0) /\ IndexedFrame' = frame
        /\ Waiting' = (kind # "present") /\ mpc' # "gone"
    BY DEF InPresent, IndexedFrame, Waiting, Begins, PlainLeaves, frameVars
  <1>4. TypeOK'
    BY SMTT(30), <1>2, <1>3, Facts, DeviceAssumption
       DEF TypeOK, PlainLeaves, Begins, frameVars, stagingVars, deviceVars
  <1>5. FramePacing'
    BY <1>3, Facts DEF FramePacing, PlainLeaves, frameVars, deviceVars
  <1>6. Ordered(InStream, done, frame, 0) /\ SlotsAt(InStream, currentIndex, frame)
        /\ Staged(InStream, live, staging) /\ Owned(InStream, stagingOf, live)
        /\ WaitsLast(InStream, FALSE) /\ done <= frame
    <2>1. StreamInv /\ done <= frame + InPresent
      BY Facts DEF FramePacing
    <2>2. WaitsLast(InStream, FALSE)
      BY <1>3, <2>1 DEF StreamInv, WaitsLast
    <2>3. Ordered(InStream, done, frame, 0) /\ done <= frame
      BY <1>3, <2>1, Facts DEF StreamInv
    <2>4. SlotsAt(InStream, currentIndex, frame)
      BY <1>3, <2>1 DEF StreamInv
    <2> QED BY <2>1, <2>2, <2>3, <2>4 DEF StreamInv
  <1>7. Ordered(Append(InStream, m), done, frame, InPresent')
    BY <1>1, <1>3, <1>6, Facts, OrderedAppend
  <1>8. SlotsAt(Append(InStream, m), currentIndex, frame)
    BY <1>1, <1>6, Facts, SlotsAppend
  <1>9. Staged(Append(InStream, m), live, staging)
    <2>1. Staged(Append(InStream, m), live \cup {}, staging)
      BY <1>1, <1>6, Facts, StagedAppend
    <2> QED BY <2>1
  <1>10. Owned(Append(InStream, m), stagingOf, live)
    <2>1. live \in SUBSET Stagings
      BY Facts DEF TypeOK
    <2> QED BY <1>1, <1>6, <2>1, Facts, OwnedAppend
  <1>11. WaitsLast(Append(InStream, m), kind # "present")
    BY <1>1, <1>6, Facts, WaitsAppend
  <1>12. StreamInv'
    BY <1>2, <1>3, <1>7, <1>8, <1>9, <1>10, <1>11
       DEF StreamInv, PlainLeaves, frameVars, stagingVars, deviceVars
  <1>13. Answered'
    BY <1>3, Facts DEF Answered, PlainLeaves, deviceVars
  <1> QED BY <1>4, <1>5, <1>12, <1>13, RestatedNext

\* In immediate mode it is executed on the spot, with the stream empty.
LEMMA PlainAtOnce ==
    ASSUME IInv, NEW kind \in {"present", "wait"}, mpc = "idle", ~multithreaded,
           ExecuteDirectly(Plain(kind)), Effect(Plain(kind)),
           UNCHANGED <<multithreaded, frameVars, stagingOf, staging>>, Begins(kind)
    PROVE  IInv'
  <1> DEFINE m == Plain(kind)
  <1>1. /\ m \in Commands /\ m.kind = kind
    BY PlainType
  <1> HIDE DEF m
  <1>2. /\ batch' \in Seq(Commands) /\ visible' \in Seq(Commands) /\ ran' \in Commands
        /\ InStream = <<>> /\ InStream' = <<>>
    BY <1>1, Facts, DirectEffect DEF m
  <1>3. /\ live' = live /\ uploaded' = uploaded
        /\ semaphore' = (IF kind = "present" THEN semaphore + 1 ELSE semaphore)
        /\ done' = (IF kind = "present" THEN done + 1 ELSE done)
        /\ event' = (IF kind = "present" THEN event ELSE 1)
    BY <1>1 DEF m, Effect, ExecuteUpdate, ExecuteFree, ExecutePresent, ExecuteWait, Signalled
  <1>4. /\ InPresent = 0 /\ InPresent' = (IF kind = "present" THEN 1 ELSE 0)
        /\ ~Waiting /\ Waiting' = (kind # "present") /\ mpc' # "gone"
    BY DEF InPresent, Waiting, Begins
  <1>5. TypeOK'
    <2>1. frame' \in 0 .. MaxFrames - InPresent' /\ currentIndex' \in FrameSlots
      BY <1>4, Facts, DeviceAssumption DEF Begins, frameVars
    <2>2. done' \in Nat /\ semaphore' \in Nat /\ event' \in {0, 1}
      BY <1>3, Facts DEF TypeOK
    <2>3. mpc' \in {"kick", "waitKick"}
      BY DEF Begins
    <2>4. /\ multithreaded' \in BOOLEAN /\ stagingOf' \in [Buffers -> Stagings] /\ live' \subseteq Stagings
          /\ staging' \in [Stagings -> [FrameSlots -> Nat]] /\ uploaded' \in [Buffers -> Nat]
      BY <1>3, Facts DEF TypeOK
    <2> QED BY <1>2, <2>1, <2>2, <2>3, <2>4 DEF TypeOK
  <1>6. Ordered(<<>>, done, frame, 0)
    BY <1>2, <1>4, Facts DEF StreamInv
  <1>7. done >= frame + 0
    BY <1>6, Facts, EmptyOrdered
  <1>8. FramePacing'
    <2>1. frame' = frame /\ semaphore = MaxAhead + done - frame /\ frame - done <= MaxAhead
      BY Facts DEF FramePacing, frameVars
    <2>2. /\ semaphore \in Nat /\ done \in Nat /\ frame \in Nat /\ MaxAhead \in Nat
          /\ done <= frame + InPresent
      BY Facts, DeviceAssumption DEF FramePacing
    <2>3. /\ semaphore' = MaxAhead + done' - frame' /\ frame' - done' <= MaxAhead
      BY <1>3, <2>1, <2>2
    <2>4. done' <= frame' + InPresent'
      BY <1>3, <1>4, <2>1, <2>2
    <2> QED BY <2>3, <2>4 DEF FramePacing
  <1>9. Ordered(<<>>, done', frame, InPresent')
    <2>1. done' \in Nat /\ InPresent' \in {0, 1} /\ done' >= frame + InPresent'
      BY <1>3, <1>4, <1>7, Facts
    <2> QED BY <2>1, Facts, EmptyOrdered
  <1>10. Owned(<<>>, stagingOf, live)
    BY <1>2, Facts DEF StreamInv
  <1>11. StreamInv'
    BY <1>2, <1>3, <1>9, <1>10, EmptyRest DEF StreamInv, frameVars
  <1>12. Answered'
    BY <1>2, <1>3, <1>4, Facts DEF Answered
  <1> QED BY <1>5, <1>8, <1>11, <1>12, RestatedNext

\* The calls made of such commands.
LEMMA PresentKeeps == IInv /\ Present => IInv'
  <1> SUFFICES ASSUME IInv, Present PROVE IInv'
    OBVIOUS
  <1>1. Begins("present") /\ mpc = "idle" /\ UNCHANGED <<multithreaded, frameVars, stagingOf, staging>>
    BY DEF Present, Begins
  <1>2. CASE Enqueue(Plain("present"))
    BY <1>1, <1>2, PlainWritten DEF Enqueue, PlainLeaves, stagingVars
  <1>3. CASE RunAtOnce(Plain("present"))
    BY <1>1, <1>3, PlainAtOnce DEF RunAtOnce
  <1> QED BY <1>2, <1>3 DEF Present

LEMMA KickAndWaitKeeps == IInv /\ KickAndWait => IInv'
  <1> SUFFICES ASSUME IInv, KickAndWait PROVE IInv'
    OBVIOUS
  <1>1. Begins("wait") /\ mpc = "idle" /\ UNCHANGED <<multithreaded, frameVars, stagingOf, staging>>
    BY DEF KickAndWait, Begins
  <1>2. CASE Enqueue(Plain("wait"))
    BY <1>1, <1>2, PlainWritten DEF Enqueue, PlainLeaves, stagingVars
  <1>3. CASE RunAtOnce(Plain("wait"))
    BY <1>1, <1>3, PlainAtOnce DEF RunAtOnce
  <1> QED BY <1>2, <1>3 DEF KickAndWait

LEMMA TerminateKeeps == IInv /\ (SetSingleThreaded \/ Destroy) => IInv'
  <1> SUFFICES ASSUME IInv, SetSingleThreaded \/ Destroy PROVE IInv'
    OBVIOUS
  <1>1. /\ Begins("terminate") /\ mpc = "idle" /\ UNCHANGED <<multithreaded, frameVars, stagingOf, staging>>
        /\ Enqueue(Plain("terminate"))
    BY DEF SetSingleThreaded, Destroy, Begins
  <1> QED BY <1>1, PlainWritten DEF Enqueue, PlainLeaves, stagingVars

\* An update or a resize is made between other calls: what that says of the
\* stream and of the call's end.
LEMMA IdleFacts ==
    ASSUME IInv, mpc = "idle"
    PROVE  /\ InPresent = 0 /\ IndexedFrame = frame /\ done <= frame
           /\ Ordered(InStream, done, frame, 0) /\ frame - done <= MaxAhead
           /\ SlotsAt(InStream, currentIndex, frame)
           /\ Staged(InStream, live, staging) /\ Owned(InStream, stagingOf, live)
           /\ WaitsLast(InStream, FALSE) /\ event = 0
  <1>1. InPresent = 0 /\ IndexedFrame = frame /\ Waiting = FALSE
    BY DEF InPresent, IndexedFrame, Waiting
  <1>2. StreamInv /\ done <= frame + InPresent /\ frame - done <= MaxAhead
    BY Facts DEF FramePacing
  <1>3. WaitsLast(InStream, FALSE)
    BY <1>1, <1>2 DEF StreamInv, WaitsLast
  <1>4. Ordered(InStream, done, frame, 0) /\ done <= frame
    BY <1>1, <1>2, Facts DEF StreamInv
  <1>5. SlotsAt(InStream, currentIndex, frame)
    BY <1>1, <1>2 DEF StreamInv
  <1>6. event = 0
    BY <1>1, Facts DEF Answered, TypeOK
  <1> QED BY <1>1, <1>2, <1>3, <1>4, <1>5, <1>6 DEF StreamInv

\* What a call that ends at once keeps of the pace.
SamePace == UNCHANGED <<frameVars, semaphore, done, mpc>>

LEMMA PaceKept ==
    ASSUME IInv, mpc = "idle", SamePace
    PROVE  /\ FramePacing' /\ InPresent' = 0 /\ IndexedFrame' = frame /\ Waiting' = FALSE
  BY Facts DEF SamePace, FramePacing, InPresent, IndexedFrame, Waiting, frameVars

LEMMA TypeKept ==
    ASSUME IInv, mpc = "idle", SamePace, UNCHANGED <<event, multithreaded>>,
           batch' \in Seq(Commands) /\ visible' \in Seq(Commands) /\ ran' \in Commands,
           stagingOf' \in [Buffers -> Stagings], live' \subseteq Stagings,
           staging' \in [Stagings -> [FrameSlots -> Nat]], uploaded' \in [Buffers -> Nat]
    PROVE  TypeOK'
  <1>1. InPresent = 0 /\ InPresent' = 0 /\ mpc' = mpc
    BY DEF InPresent, SamePace
  <1>2. frame' \in 0 .. MaxFrames - InPresent' /\ done' \in Nat /\ semaphore' \in Nat
        /\ currentIndex' \in FrameSlots
    BY <1>1, TypeFacts DEF SamePace, frameVars
  <1>3. event' \in {0, 1} /\ multithreaded' \in BOOLEAN
    BY TypeFacts
  <1> QED BY <1>1, <1>2, <1>3 DEF TypeOK

LEMMA UpdateKeeps ==
    ASSUME IInv, NEW b \in Buffers, Update(b)
    PROVE  IInv'
  <1> DEFINE m == Command("update", b, stagingOf[b], currentIndex)
             filled == [staging EXCEPT ![stagingOf[b]][currentIndex] = frame]
  <1>1. /\ mpc = "idle" /\ SamePace /\ staging' = filled /\ Write(m) /\ multithreaded
        /\ UNCHANGED <<live, stagingOf, uploaded, event, multithreaded>>
    BY DEF Update, HasRoom, Fill, Enqueue, SamePace, frameVars, deviceVars
  <1>2. /\ stagingOf[b] \in live /\ stagingOf[b] \in Stagings /\ live \in SUBSET Stagings
        /\ staging \in [Stagings -> [FrameSlots -> Nat]]
    BY Facts DEF StreamInv, Owned, TypeOK
  <1>3. /\ m \in Commands /\ m.kind = "update" /\ m.staging = stagingOf[b]
        /\ m.slot = currentIndex /\ m.frame = frame
    <2>1. frame \in 0 .. MaxFrames
      BY Facts, DeviceAssumption
    <2> QED BY <1>2, <2>1, Facts DEF Command, Commands, CommandKinds
  <1> HIDE DEF m
  <1>4. /\ batch' \in Seq(Commands) /\ visible' \in Seq(Commands) /\ ran' \in Commands
        /\ InStream' = Append(InStream, m)
    BY <1>1, <1>3, Facts, WriteEffect
  <1>5. FramePacing' /\ InPresent' = 0 /\ IndexedFrame' = frame /\ Waiting' = FALSE
    BY <1>1, PaceKept
  <1>6. filled \in [Stagings -> [FrameSlots -> Nat]]
    BY <1>2, Facts
  <1>7. TypeOK'
    BY <1>1, <1>4, <1>6, TypeFacts, TypeKept
  <1>8. StreamInv'
    <2>1. Ordered(Append(InStream, m), done, frame, 0)
      BY <1>1, <1>3, Facts, IdleFacts, OrderedAppend
    <2>2. SlotsAt(Append(InStream, m), currentIndex, frame)
      BY <1>1, <1>3, Facts, IdleFacts, SlotsAppend
    <2>3. Staged(Append(InStream, m), live, filled)
      BY <1>1, <1>2, <1>3, Facts, IdleFacts, StagedFill
    <2>4. Owned(Append(InStream, m), stagingOf, live)
      BY <1>1, <1>2, <1>3, Facts, IdleFacts, OwnedAppend
    <2>5. WaitsLast(Append(InStream, m), FALSE)
      BY <1>1, <1>3, Facts, IdleFacts, WaitsAppend
    <2>6. WaitsLast(InStream', Waiting')
      BY <1>4, <1>5, <2>5 DEF WaitsLast
    <2> QED BY <1>1, <1>4, <1>5, <2>1, <2>2, <2>3, <2>4, <2>6 DEF StreamInv, SamePace, frameVars
  <1>9. Answered'
    BY <1>1, Facts, IdleFacts DEF Answered, SamePace, TypeOK
  <1> QED BY <1>5, <1>7, <1>8, <1>9, RestatedNext

LEMMA ResizeKeeps ==
    ASSUME IInv, NEW b \in Buffers, Resize(b)
    PROVE  IInv'
  <1> DEFINE m == Command("free", b, stagingOf[b], 0)
  <1>1. PICK s \in Stagings \ live :
          /\ stagingOf' = [stagingOf EXCEPT ![b] = s] /\ live' = live \cup {s}
    BY DEF Resize, NewStaging
  <1>2. /\ mpc = "idle" /\ SamePace /\ Write(m) /\ multithreaded
        /\ UNCHANGED <<staging, uploaded, event, multithreaded>>
    BY DEF Resize, HasRoom, SamePace, frameVars, deviceVars
  <1>3. /\ stagingOf \in [Buffers -> Stagings] /\ live \in SUBSET Stagings /\ 0 \in FrameSlots
    BY TypeFacts
  <1>4. /\ m \in Commands /\ m.kind = "free" /\ m.staging = stagingOf[b] /\ m.frame = frame
    <2>1. frame \in 0 .. MaxFrames
      BY Facts, DeviceAssumption
    <2> QED BY <1>3, <2>1, Facts DEF Command, Commands, CommandKinds
  <1> HIDE DEF m
  <1>5. /\ batch' \in Seq(Commands) /\ visible' \in Seq(Commands) /\ ran' \in Commands
        /\ InStream' = Append(InStream, m)
    BY <1>2, <1>4, Facts, WriteEffect
  <1>6. FramePacing' /\ InPresent' = 0 /\ IndexedFrame' = frame /\ Waiting' = FALSE
    BY <1>2, PaceKept
  <1>7. TypeOK'
    <2>1. stagingOf' \in [Buffers -> Stagings] /\ live' \subseteq Stagings
      BY <1>1, <1>3
    <2> QED BY <1>2, <1>5, <2>1, TypeFacts, TypeKept
  <1>8. StreamInv'
    <2>1. Ordered(Append(InStream, m), done, frame, 0)
      BY <1>2, <1>4, Facts, IdleFacts, OrderedAppend
    <2>2. SlotsAt(Append(InStream, m), currentIndex, frame)
      BY <1>2, <1>4, Facts, IdleFacts, SlotsAppend
    <2>3. Staged(Append(InStream, m), live \cup {s}, staging)
      BY <1>2, <1>4, Facts, IdleFacts, StagedAppend
    <2>4. Owned(Append(InStream, m), [stagingOf EXCEPT ![b] = s], live \cup {s})
      BY <1>2, <1>3, <1>4, Facts, IdleFacts, OwnedResize
    <2>5. WaitsLast(Append(InStream, m), FALSE)
      BY <1>2, <1>4, Facts, IdleFacts, WaitsAppend
    <2>6. WaitsLast(InStream', Waiting')
      BY <1>5, <1>6, <2>5 DEF WaitsLast
    <2> QED BY <1>1, <1>2, <1>5, <1>6, <2>1, <2>2, <2>3, <2>4, <2>6 DEF StreamInv, SamePace, frameVars
  <1>9. Answered'
    BY <1>2, Facts, IdleFacts DEF Answered, SamePace, TypeOK
  <1> QED BY <1>6, <1>7, <1>8, <1>9, RestatedNext

\* In immediate mode the stream stays empty.
LEMMA AtOnceKeeps ==
    ASSUME IInv, NEW b \in Buffers, UpdateAtOnce(b) \/ ResizeAtOnce(b)
    PROVE  IInv'
  <1>1. /\ mpc = "idle" /\ SamePace /\ ~multithreaded
        /\ UNCHANGED <<event, multithreaded>>
    BY DEF UpdateAtOnce, ResizeAtOnce, HasRoom, SamePace, frameVars, deviceVars
  <1>2. /\ stagingOf \in [Buffers -> Stagings] /\ live \in SUBSET Stagings /\ 0 \in FrameSlots
        /\ staging \in [Stagings -> [FrameSlots -> Nat]] /\ uploaded \in [Buffers -> Nat]
        /\ currentIndex \in FrameSlots /\ frame \in 0 .. MaxFrames /\ frame \in Nat
        /\ \A a \in Buffers : stagingOf[a] \in live
        /\ \A a, e \in Buffers : stagingOf[a] = stagingOf[e] => a = e
    <2>1. Owned(InStream, stagingOf, live)
      BY Facts DEF StreamInv
    <2> QED BY <2>1, TypeFacts DEF Owned
  <1>3. /\ batch' \in Seq(Commands) /\ visible' \in Seq(Commands) /\ ran' \in Commands
        /\ InStream = <<>> /\ InStream' = <<>>
    <2>1. Command("update", b, stagingOf[b], currentIndex) \in Commands
          /\ Command("free", b, stagingOf[b], 0) \in Commands
      BY <1>2 DEF Command, Commands, CommandKinds
    <2> QED BY <2>1, Facts, DirectEffect DEF UpdateAtOnce, ResizeAtOnce
  <1>4. FramePacing' /\ InPresent' = 0 /\ IndexedFrame' = frame /\ Waiting' = FALSE
    BY <1>1, PaceKept
  <1>5. /\ stagingOf' \in [Buffers -> Stagings] /\ live' \subseteq Stagings
        /\ staging' \in [Stagings -> [FrameSlots -> Nat]] /\ uploaded' \in [Buffers -> Nat]
        /\ (\A a \in Buffers : stagingOf'[a] \in live')
        /\ (\A a, e \in Buffers : stagingOf'[a] = stagingOf'[e] => a = e)
    <2>1. CASE UpdateAtOnce(b)
      <3>1. staging' \in [Stagings -> [FrameSlots -> Nat]]
        BY <1>2, <2>1 DEF UpdateAtOnce, Fill
      <3>2. uploaded' \in [Buffers -> Nat]
        BY <1>2, <2>1, <3>1 DEF UpdateAtOnce
      <3> QED BY <1>2, <2>1, <3>1, <3>2 DEF UpdateAtOnce
    <2>2. CASE ResizeAtOnce(b)
      <3>1. PICK s \in Stagings \ live :
               /\ stagingOf' = [stagingOf EXCEPT ![b] = s]
               /\ live' = (live \ {stagingOf[b]}) \cup {s}
        BY <2>2 DEF ResizeAtOnce, NewStaging
      <3>2. \A a \in Buffers : stagingOf'[a] = IF a = b THEN s ELSE stagingOf[a]
        BY <1>2, <3>1
      <3>3. UNCHANGED <<staging, uploaded>>
        BY <2>2 DEF ResizeAtOnce, deviceVars
      <3> QED BY <1>2, <3>1, <3>2, <3>3
    <2> QED BY <2>1, <2>2
  <1>6. TypeOK'
    BY <1>1, <1>3, <1>5, TypeKept
  <1>7. StreamInv'
    <2>1. Ordered(<<>>, done, frame, 0)
      BY <1>1, <1>3, IdleFacts
    <2>2. Owned(<<>>, stagingOf', live')
      BY <1>5, EmptyRest
    <2> QED BY <1>1, <1>3, <1>4, <2>1, <2>2, EmptyRest DEF StreamInv, SamePace, frameVars
  <1>8. Answered'
    BY <1>1, <1>3, IdleFacts DEF Answered, SamePace
  <1> QED BY <1>4, <1>6, <1>7, <1>8, RestatedNext

\* Going multithreaded, and destroying a device that is not.
LEMMA ModeKeeps == IInv /\ (SetMultithreaded \/ DestroyAtOnce) => IInv'
  <1> SUFFICES ASSUME IInv, SetMultithreaded \/ DestroyAtOnce PROVE IInv'
    OBVIOUS
  <1>1. /\ mpc = "idle" /\ mpc' \in {"idle", "gone"} /\ ~multithreaded /\ multithreaded' \in BOOLEAN
        /\ UNCHANGED <<queueVars, frameVars, stagingVars, deviceVars>>
    <2>1. CASE SetMultithreaded
      BY <2>1 DEF SetMultithreaded
    <2>2. CASE DestroyAtOnce
      BY <2>2, TypeFacts DEF DestroyAtOnce
    <2> QED BY <2>1, <2>2
  <1>2. InStream' = InStream /\ InStream = <<>>
    BY <1>1, Facts DEF InStream, queueVars, Answered
  <1>3. InPresent = 0 /\ InPresent' = 0 /\ IndexedFrame' = IndexedFrame /\ Waiting' = FALSE /\ Waiting = FALSE
    BY <1>1 DEF InPresent, IndexedFrame, Waiting, frameVars
  <1>4. TypeOK'
    BY <1>1, <1>3, Facts DEF TypeOK, queueVars, frameVars, stagingVars, deviceVars
  <1>5. FramePacing'
    BY <1>1, <1>3, Facts DEF FramePacing, frameVars, deviceVars
  <1>6. StreamInv'
    <2>1. /\ Ordered(InStream', done', frame', InPresent')
          /\ SlotsAt(InStream', currentIndex', IndexedFrame')
          /\ Staged(InStream', live', staging') /\ Owned(InStream', stagingOf', live')
      BY <1>1, <1>2, <1>3, Facts DEF StreamInv, frameVars, stagingVars, deviceVars
    <2>2. WaitsLast(InStream', Waiting')
      BY <1>2, EmptyRest
    <2> QED BY <2>1, <2>2 DEF StreamInv
  <1>7. Answered'
    BY <1>1, <1>2, IdleFacts DEF Answered, deviceVars
  <1> QED BY <1>4, <1>5, <1>6, <1>7, RestatedNext

-----------------------------------------------------------------------------
(* The calls that go on. *)

\* The kick of present() moves on to the next frame's slot.
LEMMA PresentKickKeeps == IInv /\ PresentKick => IInv'
  <1> SUFFICES ASSUME IInv, PresentKick PROVE IInv'
    OBVIOUS
  <1>1. /\ mpc = "kick" /\ mpc' = "pace" /\ Publish /\ currentIndex' = (currentIndex + 1) % MaxFrameIndex
        /\ UNCHANGED <<multithreaded, frame, stagingVars, deviceVars>>
    BY DEF PresentKick, NextIndex
  <1>2. /\ batch' \in Seq(Commands) /\ visible' \in Seq(Commands) /\ ran' \in Commands
        /\ InStream' = InStream
    BY <1>1, Facts, PublishEffect
  <1>3. /\ InPresent = 1 /\ InPresent' = 1 /\ IndexedFrame = frame /\ IndexedFrame' = frame + 1
        /\ Waiting = FALSE /\ Waiting' = FALSE
    BY <1>1 DEF InPresent, IndexedFrame, Waiting
  <1>4. currentIndex' \in FrameSlots
    BY <1>1, TypeFacts, NextIndexFacts
  <1>5. TypeOK'
    BY <1>1, <1>2, <1>3, <1>4, Facts DEF TypeOK, stagingVars, deviceVars
  <1>6. FramePacing'
    BY <1>1, <1>3, Facts DEF FramePacing, deviceVars
  <1>7. StreamInv'
    <2>1. Ordered(InStream, done, frame, 1) /\ SlotsAt(InStream, currentIndex, frame)
          /\ frame - done <= MaxAhead
      BY <1>3, Facts DEF StreamInv, FramePacing
    <2>2. SlotsAt(InStream, (currentIndex + 1) % MaxFrameIndex, frame + 1)
      BY <2>1, Facts, SlotsNextIndex
    <2>3. WaitsLast(InStream, Waiting) /\ Staged(InStream, live, staging) /\ Owned(InStream, stagingOf, live)
      BY Facts DEF StreamInv
    <2>4. WaitsLast(InStream', Waiting')
      BY <1>2, <1>3, <2>3
    <2> QED BY <1>1, <1>2, <1>3, <2>1, <2>2, <2>3, <2>4 DEF StreamInv, stagingVars, deviceVars
  <1>8. Answered'
    BY <1>1, <1>2, <1>3, Facts DEF Answered, deviceVars
  <1> QED BY <1>5, <1>6, <1>7, <1>8, RestatedNext

\* The semaphore lets the main thread into the next frame.
LEMMA PresentWaitKeeps == IInv /\ PresentWait => IInv'
  <1> SUFFICES ASSUME IInv, PresentWait PROVE IInv'
    OBVIOUS
  <1>1. /\ mpc = "pace" /\ mpc' = "idle" /\ semaphore > 0 /\ semaphore' = semaphore - 1
        /\ frame' = frame + 1
        /\ UNCHANGED <<queueVars, multithreaded, currentIndex, stagingVars, uploaded, event, done>>
    BY DEF PresentWait, MayGoOn
  <1>2. InStream' = InStream
    BY <1>1 DEF InStream, queueVars
  <1>3. /\ InPresent = 1 /\ InPresent' = 0 /\ IndexedFrame = frame + 1 /\ IndexedFrame' = frame + 1
        /\ Waiting = FALSE /\ Waiting' = FALSE
    BY <1>1 DEF InPresent, IndexedFrame, Waiting
  <1>4. TypeOK'
    <2>1. frame' \in 0 .. MaxFrames - InPresent' /\ semaphore' \in Nat
      BY <1>1, <1>3, Facts, DeviceAssumption
    <2> QED BY <1>1, <1>3, <2>1, Facts DEF TypeOK, queueVars, stagingVars
  <1>5. FramePacing'
    <2>1. semaphore = MaxAhead + done - frame /\ done <= frame + 1
      BY <1>3, Facts DEF FramePacing
    <2> QED BY SMTT(30), <1>1, <1>3, <2>1, Facts, DeviceAssumption DEF FramePacing
  <1>6. StreamInv'
    <2>1. Ordered(InStream, done, frame, 1) /\ SlotsAt(InStream, currentIndex, frame + 1)
      BY <1>3, Facts DEF StreamInv
    <2>2. Ordered(InStream, done, frame + 1, 0)
      BY <2>1, Facts, OrderedNextFrame
    <2>3. WaitsLast(InStream, Waiting) /\ Staged(InStream, live, staging) /\ Owned(InStream, stagingOf, live)
      BY Facts DEF StreamInv
    <2>4. WaitsLast(InStream', Waiting')
      BY <1>2, <1>3, <2>3
    <2> QED BY <1>1, <1>2, <1>3, <2>1, <2>2, <2>3, <2>4 DEF StreamInv, stagingVars
  <1>7. Answered'
    BY <1>1, <1>2, <1>3, Facts DEF Answered
  <1> QED BY <1>4, <1>5, <1>6, <1>7, RestatedNext

\* A waiting call publishes what it wrote.
LEMMA WaitKickKeeps == IInv /\ WaitKick => IInv'
  <1> SUFFICES ASSUME IInv, WaitKick PROVE IInv'
    OBVIOUS
  <1>1. /\ mpc \in {"waitKick", "joinKick", "destroyKick"} /\ mpc' \in {"await", "join", "destroy"}
        /\ Publish /\ UNCHANGED <<multithreaded, frameVars, stagingVars, deviceVars>>
    BY DEF WaitKick
  <1>2. /\ batch' \in Seq(Commands) /\ visible' \in Seq(Commands) /\ ran' \in Commands
        /\ InStream' = InStream
    BY <1>1, Facts, PublishEffect
  <1>3. /\ InPresent' = InPresent /\ IndexedFrame' = IndexedFrame
        /\ Waiting = TRUE /\ Waiting' = TRUE
    BY <1>1 DEF InPresent, IndexedFrame, Waiting, frameVars
  <1>4. TypeOK'
    BY <1>1, <1>2, <1>3, Facts DEF TypeOK, frameVars, stagingVars, deviceVars
  <1>5. FramePacing'
    BY <1>1, <1>3, Facts DEF FramePacing, frameVars, deviceVars
  <1>6. StreamInv'
    <2>1. WaitsLast(InStream', Waiting')
      BY <1>2, <1>3, Facts DEF StreamInv
    <2> QED BY <1>1, <1>2, <1>3, <2>1, Facts DEF StreamInv, frameVars, stagingVars, deviceVars
  <1>7. Answered'
    BY <1>1, <1>2, <1>3, Facts DEF Answered, deviceVars
  <1> QED BY <1>4, <1>5, <1>6, <1>7, RestatedNext

\* It is answered when the stream is empty.
LEMMA WaitDoneKeeps == IInv /\ WaitDone => IInv'
  <1> SUFFICES ASSUME IInv, WaitDone PROVE IInv'
    OBVIOUS
  <1>1. /\ mpc \in {"await", "join", "destroy"} /\ mpc' \in {"idle", "gone"} /\ event = 1 /\ event' = 0
        /\ multithreaded' \in BOOLEAN
        /\ UNCHANGED <<queueVars, frameVars, stagingVars, semaphore, uploaded, done>>
    BY TypeFacts DEF WaitDone
  <1>2. InStream' = InStream /\ InStream = <<>>
    BY <1>1, Facts DEF Answered, InStream, queueVars
  <1>3. /\ InPresent' = InPresent /\ IndexedFrame' = IndexedFrame
    BY <1>1 DEF InPresent, IndexedFrame, frameVars
  <1>4. TypeOK'
    BY <1>1, <1>3, Facts DEF TypeOK, queueVars, frameVars, stagingVars
  <1>5. FramePacing'
    BY <1>1, <1>3, Facts DEF FramePacing, frameVars
  <1>6. StreamInv'
    <2>1. WaitsLast(InStream', Waiting')
      BY <1>2, EmptyRest
    <2> QED BY <1>1, <1>2, <1>3, <2>1, Facts DEF StreamInv, frameVars, stagingVars
  <1>7. Answered'
    BY <1>1, <1>2 DEF Answered
  <1> QED BY <1>4, <1>5, <1>6, <1>7, RestatedNext

-----------------------------------------------------------------------------
(* The device thread. *)

\* What executing a command changes, whatever its kind.
LEMMA EffectFacts ==
    ASSUME IInv, NEW m \in Commands, Effect(m),
           m.kind = "update" => m.staging \in Stagings
    PROVE  /\ live' = (IF m.kind = "free" THEN live \ {m.staging} ELSE live)
           /\ done' = (IF m.kind = "present" THEN done + 1 ELSE done)
           /\ semaphore' = (IF m.kind = "present" THEN semaphore + 1 ELSE semaphore)
           /\ event' = (IF m.kind \in {"wait", "terminate"} THEN 1 ELSE event)
           /\ uploaded' \in [Buffers -> Nat]
  <1>1. CASE ExecuteUpdate(m)
    <2>1. m.kind = "update" /\ UNCHANGED <<live, semaphore, done, event>>
      BY <1>1 DEF ExecuteUpdate
    <2>2. m.slot \in FrameSlots /\ m.staging \in Stagings
      BY <2>1, CommandFields
    <2>3. staging[m.staging][m.slot] \in Nat
      BY <2>2, TypeFacts
    <2>4. uploaded' \in [Buffers -> Nat]
      BY <1>1, <2>3, TypeFacts DEF ExecuteUpdate, UploadFrom
    <2> QED BY <2>1, <2>4
  <1>2. CASE ExecuteFree(m)
    BY <1>2, TypeFacts DEF ExecuteFree
  <1>3. CASE ExecutePresent(m)
    BY <1>3, TypeFacts DEF ExecutePresent, Signalled
  <1>4. CASE ExecuteWait(m)
    BY <1>4, TypeFacts DEF ExecuteWait
  <1> QED BY <1>1, <1>2, <1>3, <1>4 DEF Effect

LEMMA DeviceStepKeeps == IInv /\ DeviceStep => IInv'
  <1> SUFFICES ASSUME IInv, DeviceStep PROVE IInv'
    OBVIOUS
  <1> DEFINE m == Head(InStream)
  <1>1. /\ multithreaded /\ Execute /\ Effect(Head(visible))
        /\ UNCHANGED <<multithreaded, frameVars, stagingOf, staging, mpc>>
    BY DEF DeviceStep
  <1>2. /\ batch' \in Seq(Commands) /\ visible' \in Seq(Commands) /\ ran' \in Commands
        /\ InStream # <<>> /\ InStream' = Tail(InStream) /\ Head(visible) = m
    BY <1>1, Facts, ExecuteEffect
  <1>3. m \in Commands /\ m = InStream[1] /\ 1 \in 1 .. Len(InStream)
    BY <1>2, Facts, TailFacts
  <1> HIDE DEF m
  <1>4. m.kind = "update" => m.staging \in Stagings
    <2>1. m.kind = "update" => m.staging \in live
      BY <1>3, Facts DEF StreamInv, Staged
    <2> QED BY <2>1, TypeFacts
  <1>5. /\ live' = (IF m.kind = "free" THEN live \ {m.staging} ELSE live)
        /\ done' = (IF m.kind = "present" THEN done + 1 ELSE done)
        /\ semaphore' = (IF m.kind = "present" THEN semaphore + 1 ELSE semaphore)
        /\ event' = (IF m.kind \in {"wait", "terminate"} THEN 1 ELSE event)
        /\ uploaded' \in [Buffers -> Nat]
    BY <1>1, <1>2, <1>3, <1>4, EffectFacts
  <1>6. InPresent' = InPresent /\ IndexedFrame' = IndexedFrame /\ Waiting' = Waiting /\ mpc' = mpc
    BY <1>1 DEF InPresent, IndexedFrame, Waiting, frameVars
  <1>7. TypeOK'
    <2>1. live' \subseteq Stagings /\ done' \in Nat /\ semaphore' \in Nat /\ event' \in {0, 1}
      BY <1>5, TypeFacts
    <2> QED BY <1>1, <1>2, <1>5, <1>6, <2>1, Facts DEF TypeOK, frameVars
  <1>8. FramePacing'
    <2>1. m.kind = "present" => done < frame + InPresent
      BY <1>2, Facts, OrderedHead DEF StreamInv, m
    <2>2. /\ semaphore = MaxAhead + done - frame /\ frame - done <= MaxAhead
          /\ done <= frame + InPresent /\ frame' = frame
      BY <1>1, Facts DEF FramePacing, frameVars
    <2>3. done' <= frame + InPresent /\ semaphore' = MaxAhead + done' - frame /\ frame - done' <= MaxAhead
      BY SMTT(30), <1>5, <2>1, <2>2, Facts, DeviceAssumption
    <2> QED BY <1>6, <2>2, <2>3 DEF FramePacing
  <1>9. StreamInv'
    <2>1. Ordered(InStream, done, frame, InPresent) /\ SlotsAt(InStream, currentIndex, IndexedFrame)
          /\ Staged(InStream, live, staging) /\ Owned(InStream, stagingOf, live)
          /\ WaitsLast(InStream, Waiting)
      BY Facts DEF StreamInv
    <2>2. Ordered(Tail(InStream), done', frame, InPresent)
      BY <1>2, <1>5, <2>1, Facts, OrderedTail DEF m
    <2>3. SlotsAt(Tail(InStream), currentIndex, IndexedFrame)
      BY <1>2, <2>1, Facts, SlotsTail
    <2>4. Staged(Tail(InStream), live', staging)
      BY <1>2, <1>5, <2>1, Facts, StagedTail DEF m
    <2>5. Owned(Tail(InStream), stagingOf, live')
      BY <1>2, <1>5, <2>1, Facts, OwnedTail DEF m
    <2>6. WaitsLast(Tail(InStream), Waiting)
      BY <1>2, <2>1, Facts, WaitsTail
    <2>7. WaitsLast(InStream', Waiting')
      BY <1>2, <1>6, <2>6
    <2> QED BY <1>1, <1>2, <1>6, <2>2, <2>3, <2>4, <2>5, <2>7 DEF StreamInv, frameVars
  <1>10. Answered'
    <2>1. m.kind \in {"wait", "terminate"} => Tail(InStream) = <<>> /\ Waiting
      BY <1>2, Facts, WaitsTail DEF StreamInv, m
    <2>2. event = 0 \/ m.kind \in {"wait", "terminate"}
      BY <1>2, Facts DEF Answered, TypeOK
    <2>3. event' = 1 => InStream' = <<>> /\ Waiting'
      BY <1>2, <1>5, <1>6, <2>1, <2>2
    <2>4. multithreaded' /\ mpc' # "gone"
      BY <1>1, <1>2, Facts DEF Answered
    <2> QED BY <2>3, <2>4 DEF Answered
  <1> QED BY <1>7, <1>8, <1>9, <1>10, RestatedNext

-----------------------------------------------------------------------------
(* The theorems. *)

LEMMA StepKeeps == IInv /\ [Next]_vars => IInv'
  <1> SUFFICES ASSUME IInv, [Next]_vars PROVE IInv'
    OBVIOUS
  <1>1. ASSUME NEW b \in Buffers, Update(b) \/ UpdateAtOnce(b) \/ Resize(b) \/ ResizeAtOnce(b)
        PROVE  IInv'
    BY <1>1, UpdateKeeps, ResizeKeeps, AtOnceKeeps
  <1>2. CASE Present \/ KickAndWait \/ SetSingleThreaded \/ Destroy
    BY <1>2, PresentKeeps, KickAndWaitKeeps, TerminateKeeps
  <1>3. CASE SetMultithreaded \/ DestroyAtOnce
    BY <1>3, ModeKeeps
  <1>4. CASE MainStep
    BY <1>4, PresentKickKeeps, PresentWaitKeeps, WaitKickKeeps, WaitDoneKeeps DEF MainStep
  <1>5. CASE DeviceStep
    BY <1>5, DeviceStepKeeps
  <1>6. CASE UNCHANGED vars
    <2>1. TypeOK' /\ FramePacing'
      BY <1>6, Facts DEF vars, queueVars, frameVars, stagingVars, deviceVars, TypeOK, FramePacing, InPresent
    <2>2. InStream' = InStream /\ InPresent' = InPresent /\ IndexedFrame' = IndexedFrame /\ (Waiting' <=> Waiting)
      BY <1>6 DEF vars, queueVars, frameVars, InStream, InPresent, IndexedFrame, Waiting
    <2>3. WaitsLast(InStream', Waiting')
      BY <2>2, Facts DEF StreamInv, WaitsLast
    <2>4. StreamInv'
      BY <1>6, <2>2, <2>3, Facts DEF vars, frameVars, stagingVars, deviceVars, StreamInv
    <2>5. Answered'
      BY <1>6, <2>2, Facts DEF vars, deviceVars, Answered
    <2> QED BY <2>1, <2>4, <2>5, RestatedNext
  <1> QED BY <1>1, <1>2, <1>3, <1>4, <1>5, <1>6 DEF Next, BeginCall

\* The two threads' agreement, IInv, always holds: the inductive invariant of
\* the frame pace, the stream and the staging buffers (DeviceAgent.cpp:152-175,
\* BufferAgent.cpp:82-159).
THEOREM AgreementAlways == Spec => []IInv
  <1>1. Init => IInv
    BY InitIInv
  <1>2. IInv /\ [Next]_vars => IInv'
    BY StepKeeps
  <1> QED BY <1>1, <1>2, PTL DEF Spec

\* Every state of the two threads is well formed.
THEOREM TypeCorrect == Spec => []TypeOK
  <1>1. IInv => TypeOK
    BY DEF IInv
  <1> QED BY <1>1, AgreementAlways, PTL

\* The main thread is never more than MAX_CPU_FRAME_AHEAD frames ahead of the
\* device thread, in either mode (DeviceAgent.cpp:161-173).
THEOREM PaceAlwaysKept == Spec => []FramePacing
  <1>1. IInv => FramePacing
    BY DEF IInv
  <1> QED BY <1>1, AgreementAlways, PTL

\* No update finds another frame's bytes, or a freed staging buffer, however
\* many frames the main thread may run ahead (BufferAgent.cpp:149-153).
THEOREM StagedFramesAlwaysIntact == Spec => []StagedFrameIntact
  <1>1. IInv => StagedFrameIntact
    BY DEF IInv
  <1> QED BY <1>1, AgreementAlways, PTL
=============================================================================
