-------------------------- MODULE CallbackLoopsProofs --------------------------
(* Theorems about the two loops whose callbacks change what they walk over:   *)
(* EventBus and Tween.                                                        *)
(*                                                                            *)
(* EventBus, for any number of listeners and any nesting of broadcasts: the   *)
(* rings stay whole, nothing stays on the side, and a broadcast calls each of *)
(* its listeners once.                                                        *)
(*                                                                            *)
(* Tween, for every number of tweens, all steps and all callbacks: the system *)
(* has exactly the running tweens, updates each of them once a frame and      *)
(* loses none of their time and calls.                                        *)
EXTENDS EventBus, Tween, FiniteSetTheorems, FunctionTheorems, TLAPS

-----------------------------------------------------------------------------
(* Rings.  n and p are the pointers, R the entries on the ring of head.  That *)
(* R has no part closed under n but the whole stands for "n leads from the    *)
(* head through all of R", and asks for no induction over the way.            *)

IsRing(n, p, head, R) ==
    /\ head = Null => R = {}
    /\ head # Null => head \in R
    /\ \A l \in R : n[l] \in R /\ p[l] \in R /\ p[n[l]] = l /\ n[p[l]] = l
    /\ \A S \in SUBSET R : head \in S /\ (\A l \in S : n[l] \in S) => R \subseteq S

LEMMA RingSame ==
    ASSUME NEW n, NEW p, NEW n2, NEW p2, NEW head, NEW R, IsRing(n, p, head, R),
           \A l \in R : n2[l] = n[l] /\ p2[l] = p[l]
    PROVE  IsRing(n2, p2, head, R)
<1>1. \A l \in R : n2[l] \in R /\ p2[l] \in R /\ p2[n2[l]] = l /\ n2[p2[l]] = l
  BY DEF IsRing
<1>2. ASSUME NEW S \in SUBSET R, head \in S, \A l \in S : n2[l] \in S
      PROVE  R \subseteq S
  <2>1. \A l \in S : n[l] \in S
    BY <1>2
  <2>. QED BY <1>2, <2>1 DEF IsRing
<1>. QED BY <1>1, <1>2 DEF IsRing

\* What listAppend makes of the pointers and of the head.
Appended(n, p, head, e, n2, p2, head2) ==
    /\ n2 = IF head = Null THEN [n EXCEPT ![e] = e] ELSE [n EXCEPT ![e] = head, ![p[head]] = e]
    /\ p2 = IF head = Null THEN [p EXCEPT ![e] = e] ELSE [p EXCEPT ![e] = p[head], ![head] = e]
    /\ head2 = IF head = Null THEN e ELSE head

\* It puts an entry at the end of the ring.
LEMMA RingAppend ==
    ASSUME NEW n \in [Listeners -> Listeners \cup {Null}], NEW p \in [Listeners -> Listeners \cup {Null}],
           NEW head, NEW R \in SUBSET Listeners, IsRing(n, p, head, R), NEW e \in Listeners, e \notin R,
           NEW n2, NEW p2, NEW head2, Appended(n, p, head, e, n2, p2, head2)
    PROVE  IsRing(n2, p2, head2, R \cup {e})
<1>0. Null \notin Listeners
  BY BusAssumption
<1>1. CASE head = Null
  <2>1. R = {} /\ n2[e] = e /\ p2[e] = e /\ e # Null /\ head2 = e
        /\ \A x \in Listeners : x # e => n2[x] = n[x] /\ p2[x] = p[x]
    BY <1>0, <1>1 DEF IsRing, Appended
  <2>. QED BY <1>1, <2>1 DEF IsRing
<1>2. CASE head # Null
  <2> DEFINE t == p[head]
  <2>1. head \in R /\ t \in R /\ n[t] = head /\ head \in Listeners /\ t \in Listeners /\ e # t /\ e # head
    BY <1>2 DEF IsRing
  <2>2. /\ n2[e] = head /\ n2[t] = e /\ \A x \in Listeners : x # e /\ x # t => n2[x] = n[x]
        /\ p2[e] = t /\ p2[head] = e /\ \A x \in Listeners : x # e /\ x # head => p2[x] = p[x]
        /\ head2 = head
    BY <1>2, <2>1 DEF Appended
  <2> HIDE DEF t
  <2>3. \A l \in R : n[l] \in R /\ p[l] \in R /\ p[n[l]] = l /\ n[p[l]] = l
    BY DEF IsRing
  <2>4. ASSUME NEW l \in R \cup {e}
        PROVE  n2[l] \in R \cup {e} /\ p2[l] \in R \cup {e} /\ p2[n2[l]] = l /\ n2[p2[l]] = l
    <3>1. CASE l = e
      BY <2>1, <2>2, <3>1
    <3>2. CASE l # e
      <4>1. n2[l] \in R \cup {e} /\ p2[n2[l]] = l
        <5>1. CASE l = t
          BY <2>1, <2>2, <5>1
        <5>2. CASE l # t
          <6>1. n[l] \in R /\ n[l] # e /\ p[n[l]] = l /\ n2[l] = n[l]
            BY <2>2, <2>3, <3>2, <5>2
          <6>2. n[l] # head
            BY <2>1, <2>3, <5>2, <6>1 DEF t
          <6>. QED BY <2>2, <6>1, <6>2
        <5>. QED BY <5>1, <5>2
      <4>2. p2[l] \in R \cup {e} /\ n2[p2[l]] = l
        <5>1. CASE l = head
          BY <2>1, <2>2, <5>1
        <5>2. CASE l # head
          <6>1. p[l] \in R /\ p[l] # e /\ n[p[l]] = l /\ p2[l] = p[l]
            BY <2>2, <2>3, <3>2, <5>2
          <6>2. p[l] # t
            BY <2>1, <5>2, <6>1
          <6>. QED BY <2>2, <6>1, <6>2
        <5>. QED BY <5>1, <5>2
      <4>. QED BY <4>1, <4>2
    <3>. QED BY <3>1, <3>2
  <2>5. ASSUME NEW S \in SUBSET (R \cup {e}), head \in S, \A l \in S : n2[l] \in S
        PROVE  R \cup {e} \subseteq S
    <3> DEFINE U == S \ {e}
    <3>1. U \in SUBSET R /\ head \in U
      BY <2>1, <2>5
    <3>2. ASSUME NEW l \in U PROVE n[l] \in U
      <4>1. l \in R /\ l # e /\ l \in S
        BY <3>1
      <4>2. CASE l = t
        BY <2>1, <3>1, <4>2
      <4>3. CASE l # t
        <5>1. n2[l] = n[l] /\ n2[l] \in S /\ n[l] \in R
          BY <2>2, <2>3, <2>5, <4>1, <4>3
        <5>. QED BY <5>1
      <4>. QED BY <4>2, <4>3
    <3> HIDE DEF U
    <3>3. R \subseteq U
      BY <3>1, <3>2 DEF IsRing
    <3>4. t \in S /\ R \subseteq S
      BY <2>1, <3>3 DEF U
    <3>5. e \in S
      BY <2>2, <2>5, <3>4
    <3>. QED BY <3>4, <3>5
  <2>6. IsRing(n2, p2, head, R \cup {e})
    BY <1>2, <2>1, <2>4, <2>5 DEF IsRing
  <2>. QED BY <2>2, <2>6
<1>. QED BY <1>1, <1>2

\* An entry that is its own neighbour is alone on its ring.
LEMMA RingOfOne ==
    ASSUME NEW n, NEW p, NEW head, NEW R, IsRing(n, p, head, R), head # Null, NEW e \in R, n[e] = e
    PROVE  R = {e} /\ head = e
<1>1. p[e] = e /\ head \in R
  BY DEF IsRing
<1>2. head = e
  <2> SUFFICES ASSUME head # e PROVE FALSE
    OBVIOUS
  <2> DEFINE S == R \ {e}
  <2>1. \A l \in S : n[l] \in S
    BY <1>1 DEF IsRing
  <2>2. S \in SUBSET R /\ head \in S
    BY <1>1
  <2>3. R \subseteq S
    <3> HIDE DEF S
    <3>. QED BY <2>1, <2>2 DEF IsRing
  <2>. QED BY <2>3
<1>3. R \subseteq {e}
  <2>1. {e} \in SUBSET R /\ head \in {e} /\ \A l \in {e} : n[l] \in {e}
    BY <1>2
  <2>. QED BY <2>1 DEF IsRing
<1>. QED BY <1>2, <1>3

\* What detachFromList makes of the pointers and of the head.
Detached(n, p, head, e, n2, p2, head2) ==
    /\ n2 = [n EXCEPT ![p[e]] = n[e], ![e] = Null]
    /\ p2 = [p EXCEPT ![n[e]] = p[e], ![e] = Null]
    /\ head2 = IF n[e] = e /\ p[e] = e THEN Null ELSE IF e = head THEN n[e] ELSE head

\* It takes an entry out and leaves the others alone.
LEMMA RingDetach ==
    ASSUME NEW n \in [Listeners -> Listeners \cup {Null}], NEW p \in [Listeners -> Listeners \cup {Null}],
           NEW head, NEW R \in SUBSET Listeners, IsRing(n, p, head, R), NEW e \in R,
           NEW n2, NEW p2, NEW head2, Detached(n, p, head, e, n2, p2, head2)
    PROVE  /\ IsRing(n2, p2, head2, R \ {e})
           /\ \A x \in Listeners : x \notin R => n2[x] = n[x] /\ p2[x] = p[x]
           /\ n2[e] = Null /\ p2[e] = Null
<1>0. Null \notin Listeners
  BY BusAssumption
<1>1. head # Null /\ head \in R
  BY DEF IsRing
<1>2. \A l \in R : n[l] \in R /\ p[l] \in R /\ p[n[l]] = l /\ n[p[l]] = l
  BY DEF IsRing
<1>3. e \in Listeners /\ n[e] \in Listeners /\ p[e] \in Listeners /\ n[e] \in R /\ p[e] \in R
  BY <1>2
<1>4. n2[e] = Null /\ p2[e] = Null
  BY <1>3 DEF Detached
<1>5. \A x \in Listeners : x \notin R => n2[x] = n[x] /\ p2[x] = p[x]
  BY <1>3 DEF Detached
<1>6. CASE n[e] = e
  <2>1. R \ {e} = {} /\ p[e] = e /\ head2 = Null
    BY <1>1, <1>2, <1>6, RingOfOne DEF Detached
  <2>2. IsRing(n2, p2, Null, {})
    BY DEF IsRing
  <2>. QED BY <1>4, <1>5, <2>1, <2>2
<1>7. CASE n[e] # e
  <2> DEFINE f == n[e]
             b == p[e]
  <2>1. b # e /\ f # e /\ f \in R /\ b \in R /\ p[f] = e /\ n[b] = e /\ f \in Listeners /\ b \in Listeners
    BY <1>2, <1>3, <1>7
  <2>2. /\ n2[b] = f /\ \A x \in Listeners : x # b /\ x # e => n2[x] = n[x]
        /\ p2[f] = b /\ \A x \in Listeners : x # f /\ x # e => p2[x] = p[x]
        /\ head2 = IF e = head THEN f ELSE head
    BY <1>3, <1>7, <2>1 DEF Detached
  <2>n. n[e] = f /\ p[e] = b
    OBVIOUS
  <2> HIDE DEF f, b
  <2>3. head2 # Null /\ head2 \in R \ {e}
    BY <1>0, <1>1, <2>1, <2>2
  <2>4. ASSUME NEW l \in R \ {e}
        PROVE  n2[l] \in R \ {e} /\ p2[l] \in R \ {e} /\ p2[n2[l]] = l /\ n2[p2[l]] = l
    <3>1. n2[l] \in R \ {e} /\ p2[n2[l]] = l
      <4>1. CASE l = b
        BY <2>1, <2>2, <4>1
      <4>2. CASE l # b
        <5>1. n2[l] = n[l] /\ n[l] \in R /\ p[n[l]] = l
          BY <1>2, <2>2, <4>2
        <5>2. n[l] # e /\ n[l] # f
          BY <2>1, <2>n, <4>2, <5>1
        <5>. QED BY <2>2, <5>1, <5>2
      <4>. QED BY <4>1, <4>2
    <3>2. p2[l] \in R \ {e} /\ n2[p2[l]] = l
      <4>1. CASE l = f
        BY <2>1, <2>2, <4>1
      <4>2. CASE l # f
        <5>1. p2[l] = p[l] /\ p[l] \in R /\ n[p[l]] = l
          BY <1>2, <2>2, <4>2
        <5>2. p[l] # e /\ p[l] # b
          BY <2>1, <2>n, <4>2, <5>1
        <5>. QED BY <2>2, <5>1, <5>2
      <4>. QED BY <4>1, <4>2
    <3>. QED BY <3>1, <3>2
  <2>5. ASSUME NEW S \in SUBSET (R \ {e}), head2 \in S, \A l \in S : n2[l] \in S
        PROVE  R \ {e} \subseteq S
    <3> DEFINE U == IF b \in S \/ e = head THEN S \cup {e} ELSE S
    <3>1. U \in SUBSET R /\ head \in U
      BY <2>2, <2>5
    <3>2. ASSUME NEW l \in U PROVE n[l] \in U
      <4>1. CASE l = e
        <5>1. f \in S
          BY <2>2, <2>5, <3>2, <4>1
        <5>. QED BY <2>n, <4>1, <5>1
      <4>2. CASE l # e /\ l = b
        <5>1. b \in S
          BY <4>2
        <5>. QED BY <2>1, <4>2, <5>1
      <4>3. CASE l # e /\ l # b
        <5>1. l \in S
          BY <4>3
        <5>2. n2[l] = n[l] /\ n2[l] \in S
          BY <2>2, <2>5, <4>3, <5>1
        <5>. QED BY <5>2
      <4>. QED BY <4>1, <4>2, <4>3
    <3>3. U \subseteq S \cup {e}
      OBVIOUS
    <3> HIDE DEF U
    <3>4. R \subseteq U
      BY <3>1, <3>2 DEF IsRing
    <3>. QED BY <3>3, <3>4
  <2>6. IsRing(n2, p2, head2, R \ {e})
    BY <2>3, <2>4, <2>5 DEF IsRing
  <2>. QED BY <1>4, <1>5, <2>6
<1>. QED BY <1>6, <1>7

-----------------------------------------------------------------------------
(* The way around a ring.                                                  *)

\* The entries from the head up to, and without, a.
Before(n, head, R, a) ==
    IF a = head THEN {}
    ELSE {l \in R : \A S \in SUBSET R : head \in S /\ (\A m \in S : n[m] \in S \cup {a}) => l \in S}

LEMMA BeforeSame ==
    ASSUME NEW n, NEW n2, NEW head, NEW R, NEW a, \A l \in R : n2[l] = n[l]
    PROVE  Before(n2, head, R, a) = Before(n, head, R, a)
<1>1. ASSUME NEW S \in SUBSET R
      PROVE  (\A m \in S : n[m] \in S \cup {a}) <=> (\A m \in S : n2[m] \in S \cup {a})
  OBVIOUS
<1>2. CASE a = head
  BY <1>2 DEF Before
<1>3. CASE a # head
  <2>1. ASSUME NEW l \in R
        PROVE  (\A S \in SUBSET R : head \in S /\ (\A m \in S : n[m] \in S \cup {a}) => l \in S)
               <=> (\A S \in SUBSET R : head \in S /\ (\A m \in S : n2[m] \in S \cup {a}) => l \in S)
    BY <1>1
  <2>. QED BY <1>3, <2>1 DEF Before
<1>. QED BY <1>2, <1>3

\* It does not come to a before a.
LEMMA BeforeNot ==
    ASSUME NEW n, NEW p, NEW head, NEW R, IsRing(n, p, head, R), NEW a \in R
    PROVE  a \notin Before(n, head, R, a) /\ Before(n, head, R, a) \subseteq R
<1>1. CASE a = head
  BY <1>1 DEF Before
<1>2. CASE a # head
  <2> DEFINE S == R \ {a}
  <2>1. S \in SUBSET R /\ head \in S /\ (\A m \in S : n[m] \in S \cup {a})
    BY <1>2 DEF IsRing
  <2>2. a \notin S
    OBVIOUS
  <2> HIDE DEF S
  <2>. QED BY <1>2, <2>1, <2>2 DEF Before
<1>. QED BY <1>1, <1>2

\* What is before a is closed up to a.
LEMMA BeforeClosed ==
    ASSUME NEW n, NEW p, NEW head, NEW R, IsRing(n, p, head, R), NEW a \in R
    PROVE  LET B == Before(n, head, R, a)
           IN  /\ \A m \in B : n[m] \in B \cup {a}
               /\ head \in B \cup {a}
<1>1. CASE a = head
  BY <1>1 DEF Before
<1>2. CASE a # head
  <2>1. head \in R
    BY DEF IsRing
  <2>2. ASSUME NEW m \in Before(n, head, R, a), n[m] # a
        PROVE  n[m] \in Before(n, head, R, a)
    <3>1. m \in R /\ n[m] \in R
      BY <1>2 DEF Before, IsRing
    <3>2. ASSUME NEW S \in SUBSET R, head \in S, \A k \in S : n[k] \in S \cup {a}
          PROVE  n[m] \in S
      BY <1>2, <2>2, <3>2 DEF Before
    <3>. QED BY <1>2, <3>1, <3>2 DEF Before
  <2>3. head \in Before(n, head, R, a)
    BY <1>2, <2>1 DEF Before
  <2>. QED BY <2>2, <2>3
<1>. QED BY <1>1, <1>2

\* Nothing smaller is.
LEMMA BeforeLeast ==
    ASSUME NEW n, NEW head, NEW R, NEW a, a # head, NEW S \in SUBSET R,
           head \in S, \A m \in S : n[m] \in S \cup {a}
    PROVE  Before(n, head, R, a) \subseteq S
BY DEF Before

\* One step further is one entry more, unless the way is at its end.
LEMMA BeforeNext ==
    ASSUME NEW n, NEW p, NEW head, NEW R, IsRing(n, p, head, R), NEW a \in R
    PROVE  /\ n[a] = head => Before(n, head, R, a) \cup {a} = R
           /\ n[a] # head => Before(n, head, R, n[a]) = Before(n, head, R, a) \cup {a}
<1> DEFINE B == Before(n, head, R, a)
           T == B \cup {a}
<1>1. /\ \A m \in B : n[m] \in T
      /\ head \in T /\ T \in SUBSET R /\ a \notin B
  BY BeforeClosed, BeforeNot
<1>2. CASE n[a] = head
  <2>1. \A m \in T : n[m] \in T
    BY <1>1, <1>2
  <2> HIDE DEF T
  <2>2. R \subseteq T
    BY <1>1, <2>1 DEF IsRing
  <2>. QED BY <1>1, <1>2, <2>2 DEF T
<1>3. CASE n[a] # head
  <2> DEFINE b == n[a]
             U == Before(n, head, R, b)
  <2>1. b \in R /\ p[b] = a /\ b # head
    BY <1>3 DEF IsRing
  <2>2. /\ \A m \in U : n[m] \in U \cup {b}
        /\ head \in U \cup {b} /\ U \subseteq R /\ b \notin U
    BY <2>1, BeforeClosed, BeforeNot
  <2>3. U \subseteq T
    <3>1. \A m \in T : n[m] \in T \cup {b}
      BY <1>1
    <3> HIDE DEF T
    <3>. QED BY <1>1, <2>1, <3>1, BeforeLeast
  <2> HIDE DEF b, U, B
  <2>n. n[a] = b
    BY DEF b
  <2>4. \A m \in R : n[m] = b => m = a
    BY <2>1 DEF IsRing
  <2>5. a \in U
    <3> SUFFICES ASSUME a \notin U PROVE FALSE
      OBVIOUS
    <3>1. \A m \in U : n[m] \in U
      BY <2>2, <2>4
    <3>2. R \subseteq U
      BY <2>1, <2>2, <3>1 DEF IsRing
    <3>. QED BY <2>1, <2>2, <3>2
  <2>6. B \subseteq U
    <3>1. CASE a = head
      BY <3>1 DEF Before, B
    <3>2. CASE a # head
      <4> DEFINE S == U \ {a}
      <4>1. S \in SUBSET R /\ head \in S /\ \A m \in S : n[m] \in S \cup {a}
        BY <2>1, <2>2, <2>4, <3>2
      <4>2. S \subseteq U
        OBVIOUS
      <4> HIDE DEF S
      <4>3. B \subseteq S
        BY <3>2, <4>1, BeforeLeast DEF B
      <4>. QED BY <4>2, <4>3
    <3>. QED BY <3>1, <3>2
  <2>. QED BY <1>3, <2>3, <2>5, <2>6 DEF B, U, b
<1>. QED BY <1>2, <1>3

-----------------------------------------------------------------------------
(* The inductive invariant.                                                *)

Walk == [state : {"visit", "calling", "done"}, at : Listeners \cup {Null}, nextCopy : Listeners \cup {Null},
         members : SUBSET Listeners, due : SUBSET Listeners, called : Seq(Listeners)]
Position == [at : Listeners \cup {Null}, nextCopy : Listeners \cup {Null}, isLast : BOOLEAN]

Types ==
    /\ allocated \subseteq Listeners /\ owned \subseteq allocated /\ on \subseteq owned
    /\ next \in [Listeners -> Listeners \cup {Null}] /\ prev \in [Listeners -> Listeners \cup {Null}]
    /\ toRemove \in Seq(Listeners) /\ walks \in Seq(Walk)
    /\ pc \in {"run", "removing", "detach", "append"} /\ curr \in Position

\* The two rings have the entries, and nothing points from the others.
Rings ==
    /\ IsRing(next, prev, list, OnRing(list)) /\ IsRing(next, prev, toAdd, OnRing(toAdd))
    /\ OnRing(list) \cap OnRing(toAdd) = {}
    /\ OnRing(list) \cup OnRing(toAdd) = allocated \ Moving
    /\ Moving \subseteq allocated
    /\ \A l \in Listeners : l \notin OnRing(list) \cup OnRing(toAdd) => next[l] = Null /\ prev[l] = Null

\* The entries without a listener wait for their removal, from the ring of the
\* listeners.
Removals ==
    /\ Range(toRemove) = allocated \ owned /\ IsInjective(toRemove)
    /\ Range(toRemove) \subseteq OnRing(list)
    /\ pc \in {"detach", "append"} => toRemove = <<>>

\* The pending entries are moved from the last to the first: the one to detach
\* is always the last of those left.
Adding ==
    /\ pc # "run" => walks = <<>>
    /\ pc = "run" /\ walks = <<>> => toRemove = <<>> /\ toAdd = Null
    /\ pc \in {"run", "removing"} => curr = NoEntry
    /\ pc = "detach" => toAdd # Null /\ curr = AddingFrom(prev[toAdd])
    /\ pc = "append" => /\ curr.at \in Listeners /\ curr.nextCopy \in MaybeEntry
                        /\ curr.isLast => toAdd = Null
                        /\ ~curr.isLast => toAdd # Null /\ curr.nextCopy = prev[toAdd]

\* A walk has called the members it passed that were due, each once.
Passed(a) == Before(next, list, OnRing(list), a)
Far(w) == CASE w.state = "visit"   -> Passed(w.at)
            [] w.state = "calling" -> Passed(w.at) \cup {w.at}
            [] w.state = "done"    -> OnRing(list)
WalkOK(w) ==
    /\ w.state # "done" => w.at \in OnRing(list)
    /\ w.state = "calling" => w.nextCopy = next[w.at]
    /\ w.at \in MaybeEntry /\ w.nextCopy \in MaybeEntry
    /\ w.members \subseteq allocated /\ owned \cap OnRing(list) \subseteq w.members
    /\ w.due \subseteq owned \cap on \cap OnRing(list)
    /\ IsInjective(w.called) /\ Range(w.called) \subseteq w.members \cap Far(w)
    /\ w.due \cap Far(w) \subseteq Range(w.called)
Walks ==
    /\ \A i \in 1 .. Len(walks) : WalkOK(walks[i])
    /\ \A i \in 2 .. Len(walks) : walks[i].state = "calling"

IInv == Types /\ Rings /\ Removals /\ Adding /\ Walks

-----------------------------------------------------------------------------
(* Sequences.                                                              *)

LEMMA SeqFacts ==
    ASSUME NEW S, NEW q \in Seq(S)
    PROVE  /\ Range(q) \subseteq S /\ Len(q) \in Nat
           /\ \A x \in S : Append(q, x) \in Seq(S) /\ Range(Append(q, x)) = Range(q) \cup {x}
           /\ IsInjective(q) => \A x \in S : x \notin Range(q) => IsInjective(Append(q, x))
           /\ q # <<>> => /\ Head(q) = q[1] /\ Head(q) \in S /\ Tail(q) \in Seq(S) /\ Len(q) > 0
                          /\ Range(q) = {Head(q)} \cup Range(Tail(q))
                          /\ IsInjective(q) => IsInjective(Tail(q)) /\ Head(q) \notin Range(Tail(q))
           /\ q = <<>> <=> Len(q) = 0
           /\ \A T : Range(q) \subseteq T => q \in Seq(T)
<1>0. /\ Len(q) \in Nat /\ DOMAIN q = 1..Len(q) /\ \A i \in 1..Len(q) : q[i] \in S
      /\ q = <<>> <=> Len(q) = 0
  OBVIOUS
<1>1. Range(q) \subseteq S
  BY <1>0 DEF Range
<1>2. ASSUME NEW x \in S
      PROVE  /\ Append(q, x) \in Seq(S) /\ Range(Append(q, x)) = Range(q) \cup {x}
             /\ IsInjective(q) /\ x \notin Range(q) => IsInjective(Append(q, x))
  <2> DEFINE r == Append(q, x)
  <2>1. /\ r \in Seq(S) /\ DOMAIN r = 1..(Len(q) + 1) /\ r[Len(q) + 1] = x
        /\ \A i \in 1..Len(q) : r[i] = q[i]
    BY <1>0
  <2> HIDE DEF r
  <2>2. Range(r) = Range(q) \cup {x}
    <3>1. Range(r) \subseteq Range(q) \cup {x}
      <4> SUFFICES ASSUME NEW i \in 1..(Len(q) + 1) PROVE r[i] \in Range(q) \cup {x}
        BY <2>1 DEF Range
      <4>1. i \in 1..Len(q) \/ i = Len(q) + 1
        BY <1>0
      <4>. QED BY <1>0, <2>1, <4>1 DEF Range
    <3>2. Range(q) \cup {x} \subseteq Range(r)
      <4>1. x \in Range(r)
        BY <1>0, <2>1 DEF Range
      <4>2. ASSUME NEW i \in 1..Len(q) PROVE q[i] \in Range(r)
        BY <1>0, <2>1 DEF Range
      <4>. QED BY <1>0, <4>1, <4>2 DEF Range
    <3>. QED BY <3>1, <3>2
  <2>3. ASSUME IsInjective(q), x \notin Range(q) PROVE IsInjective(r)
    <3>1. \A i \in 1..Len(q) : q[i] # x
      BY <1>0, <2>3 DEF Range
    <3>2. \A i, j \in 1..Len(q) : q[i] = q[j] => i = j
      BY <1>0, <2>3 DEF IsInjective
    <3>. QED BY <1>0, <2>1, <3>1, <3>2 DEF IsInjective
  <2>. QED BY <2>1, <2>2, <2>3 DEF r
<1>3. ASSUME q # <<>>
      PROVE  /\ Head(q) = q[1] /\ Head(q) \in S /\ Tail(q) \in Seq(S) /\ Len(q) > 0
             /\ Range(q) = {Head(q)} \cup Range(Tail(q))
             /\ IsInjective(q) => IsInjective(Tail(q)) /\ Head(q) \notin Range(Tail(q))
  <2> DEFINE r == Tail(q)
  <2>1. /\ Len(q) \in Nat \ {0} /\ Head(q) = q[1] /\ q[1] \in S
        /\ r \in Seq(S) /\ DOMAIN r = 1..(Len(q) - 1)
        /\ \A i \in 1..(Len(q) - 1) : r[i] = q[i + 1]
    BY <1>0, <1>3
  <2> HIDE DEF r
  <2>2. Range(q) = {q[1]} \cup Range(r)
    <3>1. ASSUME NEW i \in 1..Len(q) PROVE q[i] \in {q[1]} \cup Range(r)
      <4>1. i = 1 \/ (i - 1 \in 1..(Len(q) - 1) /\ (i - 1) + 1 = i)
        BY <2>1
      <4>. QED BY <2>1, <4>1 DEF Range
    <3>2. ASSUME NEW i \in 1..(Len(q) - 1) PROVE r[i] \in Range(q)
      BY <1>0, <2>1 DEF Range
    <3>3. q[1] \in Range(q)
      BY <1>0, <2>1 DEF Range
    <3>4. Range(q) \subseteq {q[1]} \cup Range(r)
      BY <1>0, <3>1 DEF Range
    <3>5. Range(r) \subseteq Range(q)
      BY <2>1, <3>2 DEF Range
    <3>. QED BY <3>3, <3>4, <3>5
  <2>3. ASSUME IsInjective(q) PROVE IsInjective(r) /\ q[1] \notin Range(r)
    <3>1. \A i, j \in 1..Len(q) : q[i] = q[j] => i = j
      BY <1>0, <2>3 DEF IsInjective
    <3>2. ASSUME NEW i \in 1..(Len(q) - 1), NEW j \in 1..(Len(q) - 1), r[i] = r[j] PROVE i = j
      <4>1. i + 1 \in 1..Len(q) /\ j + 1 \in 1..Len(q) /\ q[i + 1] = q[j + 1]
        BY <2>1, <3>2
      <4>2. i + 1 = j + 1
        BY <3>1, <4>1
      <4>. QED BY <4>2
    <3>3. ASSUME NEW i \in 1..(Len(q) - 1), r[i] = q[1] PROVE FALSE
      <4>1. i + 1 \in 1..Len(q) /\ 1 \in 1..Len(q) /\ q[i + 1] = q[1] /\ i + 1 # 1
        BY <2>1, <3>3
      <4>. QED BY <3>1, <4>1
    <3>4. IsInjective(r)
      BY <2>1, <3>2 DEF IsInjective
    <3>5. q[1] \notin Range(r)
      BY <2>1, <3>3 DEF Range
    <3>. QED BY <3>4, <3>5
  <2>. QED BY <2>1, <2>2, <2>3 DEF r
<1>4. ASSUME NEW T, Range(q) \subseteq T PROVE q \in Seq(T)
  <2>1. \A i \in 1..Len(q) : q[i] \in T
    BY <1>0, <1>4 DEF Range
  <2>. QED BY <1>0, <2>1
<1>. QED BY <1>0, <1>1, <1>2, <1>3, <1>4

LEMMA EmptySequence == Range(<<>>) = {} /\ IsInjective(<<>>) /\ Len(<<>>) = 0 /\ \A S : <<>> \in Seq(S)
BY DEF Range, IsInjective

-----------------------------------------------------------------------------
(* What the rings are after a step.                                        *)

\* OnRing, of any pointers.
Reach(n, head) ==
    IF head = Null THEN {}
    ELSE {l \in Listeners : \A S \in SUBSET Listeners :
              head \in S /\ (\A m \in S : n[m] \in S \cup {Null}) => l \in S}

LEMMA OnRingIsReach ==
    /\ OnRing(list) = Reach(next, list) /\ OnRing(toAdd) = Reach(next, toAdd)
    /\ OnRing(list)' = Reach(next', list') /\ OnRing(toAdd)' = Reach(next', toAdd')
BY DEF OnRing, Reach, Follows

\* The entries of a ring are those the pointers reach.
LEMMA ReachIs ==
    ASSUME NEW n, NEW p, NEW head, NEW R \in SUBSET Listeners, IsRing(n, p, head, R)
    PROVE  Reach(n, head) = R
<1>0. Null \notin Listeners
  BY BusAssumption
<1>1. CASE head = Null
  BY <1>1 DEF Reach, IsRing
<1>2. CASE head # Null
  <2>1. head \in R /\ \A m \in R : n[m] \in R \cup {Null}
    BY <1>2 DEF IsRing
  <2>2. Reach(n, head) \subseteq R
    BY <1>2, <2>1 DEF Reach
  <2>3. ASSUME NEW l \in R, NEW S \in SUBSET Listeners, head \in S, \A m \in S : n[m] \in S \cup {Null}
        PROVE  l \in S
    <3> DEFINE U == S \cap R
    <3>1. U \in SUBSET R /\ head \in U
      BY <2>1, <2>3
    <3>2. \A m \in U : n[m] \in U
      BY <1>0, <2>3 DEF IsRing
    <3> HIDE DEF U
    <3>3. R \subseteq U
      BY <3>1, <3>2 DEF IsRing
    <3>. QED BY <2>3, <3>3 DEF U
  <2>4. R \subseteq Reach(n, head)
    BY <1>2, <2>3 DEF Reach
  <2>. QED BY <2>2, <2>4
<1>. QED BY <1>1, <1>2

\* It is enough to name the rings a step leaves.
LEMMA RingsAre ==
    ASSUME NEW L \in SUBSET Listeners, NEW A \in SUBSET Listeners,
           IsRing(next', prev', list', L), IsRing(next', prev', toAdd', A),
           L \cap A = {}, L \cup A = allocated' \ Moving', Moving' \subseteq allocated',
           \A l \in Listeners : l \notin L \cup A => next'[l] = Null /\ prev'[l] = Null
    PROVE  Rings' /\ OnRing(list)' = L /\ OnRing(toAdd)' = A
<1>1. OnRing(list)' = L /\ OnRing(toAdd)' = A
  BY OnRingIsReach, ReachIs
<1>. QED BY <1>1 DEF Rings

LEMMA RingsSame ==
    ASSUME IInv, UNCHANGED <<ringVars, list, toAdd, allocated>>, Moving' = Moving
    PROVE  /\ Rings' /\ OnRing(list)' = OnRing(list) /\ OnRing(toAdd)' = OnRing(toAdd)
           /\ \A a : Passed(a)' = Passed(a)
<1>1. OnRing(list)' = OnRing(list) /\ OnRing(toAdd)' = OnRing(toAdd)
  BY OnRingIsReach DEF ringVars
<1>2. Rings'
  BY <1>1 DEF IInv, Rings, ringVars
<1>3. \A a : Passed(a)' = Passed(a)
  BY <1>1 DEF Passed, ringVars
<1>. QED BY <1>1, <1>2, <1>3

\* The rings before a step, with names.
LEMMA RingsNow ==
    ASSUME IInv
    PROVE  \E L, A \in SUBSET Listeners :
              /\ L = OnRing(list) /\ A = OnRing(toAdd)
              /\ IsRing(next, prev, list, L) /\ IsRing(next, prev, toAdd, A)
              /\ L \cap A = {} /\ L \cup A = allocated \ Moving /\ Moving \subseteq allocated
              /\ \A l \in Listeners : l \notin L \cup A => next[l] = Null /\ prev[l] = Null
              /\ list \in L \cup {Null} /\ toAdd \in A \cup {Null}
<1>1. OnRing(list) \in SUBSET Listeners /\ OnRing(toAdd) \in SUBSET Listeners
  BY DEF OnRing
<1>2. list \in OnRing(list) \cup {Null} /\ toAdd \in OnRing(toAdd) \cup {Null}
  BY DEF IInv, Rings, IsRing
<1>. QED BY <1>1, <1>2 DEF IInv, Rings

-----------------------------------------------------------------------------
(* The walks.                                                              *)

SameWalk(w, v) == v.state = w.state /\ v.at = w.at /\ v.nextCopy = w.nextCopy
                  /\ v.members = w.members /\ v.called = w.called

\* A walk stays as it was while the ring it is on does, and owes no more.
LEMMA WalkKept ==
    ASSUME IInv, OnRing(list)' = OnRing(list), list' = list, \A x \in OnRing(list) : next'[x] = next[x],
           allocated \subseteq allocated', owned' \cap OnRing(list) \subseteq owned
    PROVE  \A w, v : WalkOK(w) /\ SameWalk(w, v) /\ v.due \subseteq w.due \cap owned' \cap on' => WalkOK(v)'
<1>1. PICK L : L = OnRing(list)
  OBVIOUS
<1>2. \A a : Before(next', list, L, a) = Before(next, list, L, a)
  BY <1>1, BeforeSame
<1>3. \A a : Passed(a)' = Passed(a)
  BY <1>1, <1>2 DEF Passed
<1>4. SUFFICES ASSUME NEW w, NEW v, WalkOK(w), SameWalk(w, v), v.due \subseteq w.due \cap owned' \cap on'
      PROVE  WalkOK(v)'
  OBVIOUS
<1>5. Far(v)' = Far(w)
  BY <1>3, <1>4 DEF Far, SameWalk
<1>. QED BY <1>1, <1>4, <1>5 DEF WalkOK, SameWalk, MaybeEntry

\* The same for all of them.
LEMMA WalksKept ==
    ASSUME IInv, OnRing(list)' = OnRing(list), list' = list, \A x \in OnRing(list) : next'[x] = next[x],
           allocated \subseteq allocated', owned' \cap OnRing(list) \subseteq owned,
           Len(walks') = Len(walks),
           \A i \in 1 .. Len(walks) : /\ SameWalk(walks[i], walks'[i])
                                      /\ walks'[i].due \subseteq walks[i].due \cap owned' \cap on'
    PROVE  Walks'
<1>1. \A i \in 1 .. Len(walks) : WalkOK(walks[i])
  BY DEF IInv, Walks
<1>2. \A w, v : WalkOK(w) /\ SameWalk(w, v) /\ v.due \subseteq w.due \cap owned' \cap on' => WalkOK(v)'
  BY WalkKept
<1>3. \A i \in 1 .. Len(walks') : WalkOK(walks[i])'
  BY <1>1, <1>2
<1>4. \A i \in 2 .. Len(walks') : walks'[i].state = "calling"
  <2>1. walks \in Seq(Walk)
    BY DEF IInv, Types
  <2>. QED BY <2>1 DEF IInv, Walks, SameWalk
<1>. QED BY <1>3, <1>4 DEF Walks

-----------------------------------------------------------------------------
(* Every step keeps the invariant.                                         *)

LEMMA InitIInv == Init => IInv
<1> SUFFICES ASSUME Init PROVE IInv
  OBVIOUS
<1>1. Types
  BY BusAssumption DEF Init, Types, Position, NoEntry
<1>2. OnRing(list) = {} /\ OnRing(toAdd) = {} /\ Moving = {}
  BY DEF Init, OnRing, Moving
<1>3. Rings
  BY <1>2 DEF Init, Rings, IsRing
<1>4. Removals
  BY <1>2, EmptySequence DEF Init, Removals
<1>5. Adding
  BY DEF Init, Adding
<1>6. Walks
  BY DEF Init, Walks
<1>. QED BY <1>1, <1>3, <1>4, <1>5, <1>6 DEF IInv

LEMMA SwitchOnStep ==
    ASSUME IInv, NEW l \in Listeners, SwitchOn(l)
    PROVE  IInv'
<1>1. UNCHANGED <<ringVars, allocated, owned, list, toAdd, toRemove, walks, pc, curr>>
      /\ on' = on \cup {l} /\ l \in owned
  BY DEF SwitchOn
<1>2. Moving' = Moving
  BY <1>1 DEF Moving
<1>3. Rings' /\ OnRing(list)' = OnRing(list) /\ OnRing(toAdd)' = OnRing(toAdd)
  BY <1>1, <1>2, RingsSame
<1>4. Types'
  BY <1>1 DEF IInv, Types, ringVars
<1>5. Removals'
  BY <1>1, <1>3 DEF IInv, Removals
<1>6. Adding'
  BY <1>1 DEF IInv, Adding, AddingFrom, MaybeEntry, ringVars
<1>7. Walks'
  <2>1. \A i \in 1 .. Len(walks) : walks[i].due \subseteq owned' \cap on'
    BY <1>1 DEF IInv, Walks, WalkOK
  <2>. QED BY <1>1, <1>3, <2>1, WalksKept DEF SameWalk, ringVars
<1>. QED BY <1>3, <1>4, <1>5, <1>6, <1>7 DEF IInv

\* Excuse only takes a listener from what the walks owe.
LEMMA Excused ==
    ASSUME IInv, NEW l \in Listeners, Excuse(l), owned \ {l} \subseteq owned', on \ {l} \subseteq on'
    PROVE  /\ walks' \in Seq(Walk) /\ Len(walks') = Len(walks) /\ (walks' = <<>> <=> walks = <<>>)
           /\ \A i \in 1 .. Len(walks) : /\ SameWalk(walks[i], walks'[i])
                                         /\ walks'[i].due \subseteq walks[i].due \cap owned' \cap on'
<1>1. walks \in Seq(Walk) /\ Len(walks) \in Nat
  BY DEF IInv, Types
<1>2. ASSUME NEW i \in 1 .. Len(walks)
      PROVE  /\ [walks[i] EXCEPT !.due = @ \ {l}] \in Walk
             /\ SameWalk(walks[i], [walks[i] EXCEPT !.due = @ \ {l}])
             /\ [walks[i] EXCEPT !.due = @ \ {l}].due \subseteq walks[i].due \cap owned' \cap on'
  <2>1. walks[i] \in Walk
    BY <1>1
  <2>2. walks[i].due \subseteq owned \cap on
    BY DEF IInv, Walks, WalkOK
  <2>. QED BY <2>1, <2>2 DEF Walk, SameWalk
<1>3. walks' = [i \in 1 .. Len(walks) |-> [walks[i] EXCEPT !.due = @ \ {l}]]
  BY DEF Excuse
<1>4. walks' \in Seq(Walk) /\ Len(walks') = Len(walks)
  <2>1. DOMAIN walks' = 1 .. Len(walks) /\ walks' \in [1 .. Len(walks) -> Walk]
    BY <1>2, <1>3, Zenon
  <2>. QED BY <1>1, <2>1
<1>5. walks' = <<>> <=> walks = <<>>
  BY <1>1, <1>4
<1>. QED BY <1>2, <1>3, <1>4, <1>5

LEMMA SwitchOffStep ==
    ASSUME IInv, NEW l \in Listeners, SwitchOff(l)
    PROVE  IInv'
<1>1. UNCHANGED <<ringVars, allocated, owned, list, toAdd, toRemove, pc, curr>>
      /\ on' = on \ {l} /\ l \in owned /\ Excuse(l)
  BY DEF SwitchOff
<1>2. Moving' = Moving
  BY <1>1 DEF Moving
<1>3. Rings' /\ OnRing(list)' = OnRing(list) /\ OnRing(toAdd)' = OnRing(toAdd)
  BY <1>1, <1>2, RingsSame
<1>4. /\ walks' \in Seq(Walk) /\ Len(walks') = Len(walks) /\ (walks' = <<>> <=> walks = <<>>)
      /\ \A i \in 1 .. Len(walks) : /\ SameWalk(walks[i], walks'[i])
                                    /\ walks'[i].due \subseteq walks[i].due \cap owned' \cap on'
  BY <1>1, Excused
<1>5. Types'
  BY <1>1, <1>4 DEF IInv, Types, ringVars
<1>6. Removals'
  BY <1>1, <1>3 DEF IInv, Removals
<1>7. Adding'
  BY <1>1, <1>4 DEF IInv, Adding, AddingFrom, MaybeEntry, ringVars
<1>8. Walks'
  BY <1>1, <1>3, <1>4, WalksKept DEF ringVars
<1>. QED BY <1>3, <1>5, <1>6, <1>7, <1>8 DEF IInv

LEMMA DestroyLaterStep ==
    ASSUME IInv, NEW l \in Listeners, DestroyLater(l), ~MayDestroyPending
    PROVE  IInv'
<1>1. UNCHANGED <<ringVars, allocated, list, toAdd, pc, curr>>
      /\ on' = on \ {l} /\ owned' = owned \ {l} /\ l \in owned /\ Excuse(l)
      /\ toRemove' = Append(toRemove, l) /\ l \notin OnRing(toAdd) /\ walks # <<>> /\ pc = "run"
  BY DEF DestroyLater, Running, IsBroadcasting
<1>2. Moving' = Moving /\ Moving = {}
  BY <1>1 DEF Moving
<1>3. Rings' /\ OnRing(list)' = OnRing(list) /\ OnRing(toAdd)' = OnRing(toAdd)
  BY <1>1, <1>2, RingsSame
<1>4. /\ walks' \in Seq(Walk) /\ Len(walks') = Len(walks) /\ (walks' = <<>> <=> walks = <<>>)
      /\ \A i \in 1 .. Len(walks) : /\ SameWalk(walks[i], walks'[i])
                                    /\ walks'[i].due \subseteq walks[i].due \cap owned' \cap on'
  BY <1>1, Excused
<1>5. toRemove \in Seq(Listeners)
  BY DEF IInv, Types
<1>6. /\ toRemove' \in Seq(Listeners) /\ Range(toRemove') = Range(toRemove) \cup {l}
      /\ IsInjective(toRemove')
  <2>1. l \notin Range(toRemove) /\ IsInjective(toRemove)
    BY <1>1 DEF IInv, Removals
  <2>. QED BY <1>1, <1>5, <2>1, SeqFacts
<1>7. l \in OnRing(list)
  BY <1>1, <1>2 DEF IInv, Types, Rings
<1>8. Types'
  BY <1>1, <1>4, <1>6 DEF IInv, Types, ringVars
<1>9. Removals'
  <2>1. Range(toRemove') = allocated' \ owned' /\ Range(toRemove') \subseteq OnRing(list)'
    BY <1>1, <1>3, <1>6, <1>7 DEF IInv, Types, Removals
  <2>. QED BY <1>1, <1>6, <2>1 DEF Removals
<1>10. Adding'
  BY <1>1, <1>4 DEF IInv, Adding, AddingFrom, MaybeEntry, ringVars
<1>11. Walks'
  BY <1>1, <1>3, <1>4, WalksKept DEF ringVars
<1>. QED BY <1>3, <1>8, <1>9, <1>10, <1>11 DEF IInv

\* The steps of a walk leave everything else alone.
LEMMA Steady ==
    ASSUME IInv, UNCHANGED <<ringVars, allocated, owned, on, list, toAdd, toRemove, pc, curr>>,
           walks' \in Seq(Walk), walks' # <<>>, walks # <<>> \/ pc = "run"
    PROVE  /\ Types' /\ Rings' /\ Removals' /\ Adding'
           /\ \A w : WalkOK(w)' <=> WalkOK(w)
<1>1. Moving' = Moving
  BY DEF Moving
<1>2. Rings' /\ OnRing(list)' = OnRing(list) /\ OnRing(toAdd)' = OnRing(toAdd) /\ \A a : Passed(a)' = Passed(a)
  BY <1>1, RingsSame
<1>3. Types'
  BY DEF IInv, Types, ringVars
<1>4. Removals'
  BY <1>2 DEF IInv, Removals
<1>5. Adding'
  BY DEF IInv, Adding, AddingFrom, MaybeEntry, ringVars
<1>6. ASSUME NEW w PROVE WalkOK(w)' <=> WalkOK(w)
  <2>1. Far(w)' = Far(w)
    BY <1>2 DEF Far
  <2>. QED BY <1>2, <2>1 DEF WalkOK, MaybeEntry, ringVars
<1>. QED BY <1>2, <1>3, <1>4, <1>5, <1>6

LEMMA BroadcastStep ==
    ASSUME IInv, Broadcast
    PROVE  IInv'
<1> DEFINE w == [state |-> IF list = Null THEN "done" ELSE "visit", at |-> list, nextCopy |-> Null,
                 members |-> owned \ OnRing(toAdd), due |-> (owned \cap on) \ OnRing(toAdd), called |-> <<>>]
<1>1. /\ UNCHANGED <<ringVars, allocated, owned, on, list, toAdd, toRemove, pc, curr>>
      /\ walks' = <<w>> \o walks /\ pc = "run" /\ (walks # <<>> => Head(walks).state = "calling")
  BY DEF Broadcast, Running
<1>2. WalkOK(w)
  <2>1. PICK L, A \in SUBSET Listeners :
              /\ L = OnRing(list) /\ A = OnRing(toAdd)
              /\ IsRing(next, prev, list, L) /\ IsRing(next, prev, toAdd, A)
              /\ L \cap A = {} /\ L \cup A = allocated \ Moving
              /\ list \in L \cup {Null}
    BY RingsNow
  <2>2. L \cup A = allocated
    BY <1>1, <2>1 DEF Moving
  <2>3. Far(w) = {}
    <3>1. CASE list = Null
      BY <2>1, <3>1 DEF Far, IsRing
    <3>2. CASE list # Null
      BY <3>2 DEF Far, Passed, Before
    <3>. QED BY <3>1, <3>2
  <2>4. owned \subseteq allocated
    BY DEF IInv, Types
  <2>5. list # Null => list \in L
    BY <2>1
  <2>. QED BY <2>1, <2>2, <2>3, <2>4, <2>5, EmptySequence DEF WalkOK, MaybeEntry
<1>3. w \in Walk
  <2>1. owned \subseteq Listeners /\ list \in Listeners \cup {Null}
    BY <1>2 DEF IInv, Types, WalkOK, MaybeEntry
  <2>. QED BY <2>1, EmptySequence DEF Walk
<1> HIDE DEF w
<1>4. walks \in Seq(Walk)
  BY DEF IInv, Types
<1>5. /\ walks' \in Seq(Walk) /\ walks' # <<>> /\ walks'[1] = w /\ Len(walks') = Len(walks) + 1
      /\ \A i \in 2 .. Len(walks') : walks'[i] = walks[i - 1] /\ i - 1 \in 1 .. Len(walks)
  BY <1>1, <1>3, <1>4
<1>6. /\ Types' /\ Rings' /\ Removals' /\ Adding'
      /\ \A v : WalkOK(v)' <=> WalkOK(v)
  BY <1>1, <1>5, Steady
<1>7. Walks'
  <2>1. ASSUME NEW i \in 1 .. Len(walks') PROVE WalkOK(walks[i])'
    <3>1. CASE i = 1
      BY <1>2, <1>5, <1>6, <3>1
    <3>2. CASE i # 1
      <4>1. walks'[i] = walks[i - 1] /\ i - 1 \in 1 .. Len(walks)
        BY <1>4, <1>5, <3>2
      <4>2. WalkOK(walks[i - 1])
        BY <4>1 DEF IInv, Walks
      <4>. QED BY <1>6, <4>1, <4>2
    <3>. QED BY <3>1, <3>2
  <2>2. ASSUME NEW i \in 2 .. Len(walks') PROVE walks'[i].state = "calling"
    <3>1. walks'[i] = walks[i - 1] /\ i - 1 \in 1 .. Len(walks)
      BY <1>5
    <3>2. CASE i - 1 = 1
      <4>1. walks # <<>> /\ Head(walks) = walks[1]
        BY <1>4, <3>1
      <4>. QED BY <1>1, <3>1, <3>2, <4>1
    <3>3. CASE i - 1 # 1
      <4>1. i - 1 \in 2 .. Len(walks)
        BY <3>1, <3>3
      <4>. QED BY <3>1, <4>1 DEF IInv, Walks
    <3>. QED BY <3>2, <3>3
  <2>. QED BY <2>1, <2>2 DEF Walks
<1>. QED BY <1>6, <1>7 DEF IInv

\* A step of the innermost walk.
LEMMA TopWalk ==
    ASSUME IInv, UNCHANGED <<ringVars, allocated, owned, on, list, toAdd, toRemove, pc, curr>>, walks # <<>>,
           NEW v \in Walk, walks' = [walks EXCEPT ![1] = v], WalkOK(v)
    PROVE  IInv'
<1>1. walks \in Seq(Walk) /\ Len(walks) \in Nat /\ Len(walks) > 0
  BY SeqFacts DEF IInv, Types
<1>2. /\ walks' \in Seq(Walk) /\ walks' # <<>> /\ Len(walks') = Len(walks) /\ walks'[1] = v
      /\ \A i \in 2 .. Len(walks) : walks'[i] = walks[i]
  BY <1>1
<1>3. /\ Types' /\ Rings' /\ Removals' /\ Adding'
      /\ \A w : WalkOK(w)' <=> WalkOK(w)
  BY <1>2, Steady
<1>4. ASSUME NEW i \in 1 .. Len(walks') PROVE WalkOK(walks[i])'
  <2>1. CASE i = 1
    BY <1>2, <1>3, <2>1
  <2>2. CASE i # 1
    <3>1. walks'[i] = walks[i] /\ WalkOK(walks[i])
      BY <1>1, <1>2, <2>2 DEF IInv, Walks
    <3>. QED BY <1>3, <3>1
  <2>. QED BY <2>1, <2>2
<1>5. \A i \in 2 .. Len(walks') : walks'[i].state = "calling"
  BY <1>2 DEF IInv, Walks
<1>. QED BY <1>3, <1>4, <1>5 DEF IInv, Walks

LEMMA TopFacts ==
    ASSUME IInv, walks # <<>>, NEW w, w = Head(walks)
    PROVE  w = walks[1] /\ w \in Walk /\ WalkOK(w)
<1>1. walks \in Seq(Walk)
  BY DEF IInv, Types
<1>2. w = walks[1] /\ w \in Walk /\ Len(walks) > 0 /\ Len(walks) \in Nat
  BY <1>1, SeqFacts
<1>. QED BY <1>2 DEF IInv, Walks

LEMMA InvokeStep ==
    ASSUME IInv, Invoke
    PROVE  IInv'
<1>1. PICK w : w = Head(walks)
  OBVIOUS
<1>2. w = walks[1] /\ w \in Walk /\ WalkOK(w) /\ walks # <<>> /\ w.state = "visit"
  BY <1>1, TopFacts DEF Invoke, Visiting
<1> DEFINE v == [w EXCEPT !.state = "calling", !.nextCopy = next[w.at], !.called = Append(@, w.at)]
<1>3. /\ UNCHANGED <<ringVars, allocated, owned, on, list, toAdd, toRemove, pc, curr>>
      /\ w.at \in owned \cap on /\ walks' = [walks EXCEPT ![1] = v]
  BY <1>1 DEF Invoke, Invokes
<1>4. PICK L, A \in SUBSET Listeners :
            /\ L = OnRing(list) /\ IsRing(next, prev, list, L)
            /\ L \cup A = allocated \ Moving
  BY RingsNow
<1>5. w.at \in L /\ next[w.at] \in L /\ w.at \in Listeners /\ next[w.at] \in Listeners
  BY <1>2, <1>4 DEF WalkOK, IsRing
<1>6. w.at \notin Passed(w.at)
  BY <1>4, <1>5, BeforeNot DEF Passed
<1>7. w.called \in Seq(Listeners) /\ Far(w) = Passed(w.at)
  BY <1>2 DEF Walk, Far
<1>8. w.at \notin Range(w.called)
  BY <1>2, <1>6, <1>7 DEF WalkOK
<1>9. /\ v \in Walk /\ v.state = "calling" /\ v.at = w.at /\ v.nextCopy = next[w.at] /\ v.members = w.members
      /\ v.due = w.due /\ v.called = Append(w.called, w.at)
  BY <1>2, <1>5, <1>7, SeqFacts DEF Walk
<1> HIDE DEF v
<1>10. /\ IsInjective(v.called) /\ Range(v.called) = Range(w.called) \cup {w.at}
  BY <1>2, <1>5, <1>7, <1>8, <1>9, SeqFacts DEF WalkOK
<1>11. Far(v) = Far(w) \cup {w.at}
  BY <1>7, <1>9 DEF Far
<1>12. next[w.at] \in MaybeEntry
  BY <1>4, <1>5 DEF MaybeEntry
<1>13. WalkOK(v)
  BY <1>2, <1>3, <1>4, <1>5, <1>9, <1>10, <1>11, <1>12 DEF WalkOK
<1>. QED BY <1>2, <1>3, <1>9, <1>13, TopWalk

\* A walk goes on to the next entry, or has been around.
LEMMA Advance ==
    ASSUME IInv, NEW w \in Walk, WalkOK(w), w.state \in {"visit", "calling"},
           UNCHANGED <<ringVars, allocated, owned, on, list, toAdd, toRemove, pc, curr>>, walks # <<>>,
           w.state = "visit" => w.at \notin w.due,
           w = walks[1], GoTo(next[w.at])
    PROVE  IInv'
<1> DEFINE v == [w EXCEPT !.state = AfterNode(next[w.at]), !.at = next[w.at]]
<1>1. walks' = [walks EXCEPT ![1] = v]
  BY DEF GoTo
<1>4. PICK L, A \in SUBSET Listeners :
            /\ L = OnRing(list) /\ IsRing(next, prev, list, L)
            /\ L \cup A = allocated \ Moving
  BY RingsNow
<1>5. w.at \in L /\ next[w.at] \in L /\ w.at \in Listeners /\ next[w.at] \in Listeners
  BY <1>4 DEF WalkOK, IsRing
<1>6. /\ v \in Walk /\ v.at = next[w.at] /\ v.nextCopy = w.nextCopy /\ v.members = w.members
      /\ v.due = w.due /\ v.called = w.called
      /\ v.state = IF next[w.at] = list THEN "done" ELSE "visit"
  BY <1>5 DEF Walk, AfterNode
<1> HIDE DEF v
<1>7. Far(v) = Passed(w.at) \cup {w.at}
  <2>1. CASE next[w.at] = list
    BY <1>4, <1>5, <1>6, <2>1, BeforeNext DEF Far, Passed
  <2>2. CASE next[w.at] # list
    BY <1>4, <1>5, <1>6, <2>2, BeforeNext DEF Far, Passed
  <2>. QED BY <2>1, <2>2
<1>8. Range(w.called) \subseteq Far(v) /\ w.due \cap Far(v) \subseteq Range(w.called)
  <2>1. CASE w.state = "visit"
    BY <1>7, <2>1 DEF WalkOK, Far
  <2>2. CASE w.state = "calling"
    BY <1>7, <2>2 DEF WalkOK, Far
  <2>. QED BY <2>1, <2>2
<1>9. next[w.at] \in MaybeEntry
  BY <1>4, <1>5 DEF MaybeEntry
<1>10. WalkOK(v)
  BY <1>4, <1>5, <1>6, <1>8, <1>9 DEF WalkOK
<1>. QED BY <1>1, <1>6, <1>10, TopWalk

LEMMA SkipStep ==
    ASSUME IInv, Skip
    PROVE  IInv'
<1>1. PICK w : w = Head(walks)
  OBVIOUS
<1>2. w = walks[1] /\ w \in Walk /\ WalkOK(w) /\ walks # <<>> /\ w.state = "visit"
  BY <1>1, TopFacts DEF Skip, Visiting
<1>3. /\ UNCHANGED <<ringVars, allocated, owned, on, list, toAdd, toRemove, pc, curr>>
      /\ w.at \notin owned \cap on /\ GoTo(next[w.at])
  BY <1>1 DEF Skip, Invokes
<1>4. w.at \notin w.due
  BY <1>2, <1>3 DEF WalkOK
<1>. QED BY <1>2, <1>3, <1>4, Advance

LEMMA CallbackReturnsStep ==
    ASSUME IInv, CallbackReturns
    PROVE  IInv'
<1>1. PICK w : w = Head(walks)
  OBVIOUS
<1>2. w = walks[1] /\ w \in Walk /\ WalkOK(w) /\ walks # <<>> /\ w.state = "calling"
  BY <1>1, TopFacts DEF CallbackReturns
<1>3. /\ UNCHANGED <<ringVars, allocated, owned, on, list, toAdd, toRemove, pc, curr>>
      /\ GoTo(next[w.at])
  BY <1>1, <1>2 DEF CallbackReturns, WalkOK
<1>. QED BY <1>2, <1>3, Advance

LEMMA EndBroadcastStep ==
    ASSUME IInv, EndBroadcast
    PROVE  IInv'
<1>1. /\ UNCHANGED <<ringVars, allocated, owned, on, list, toAdd, toRemove, curr>>
      /\ pc = "run" /\ walks # <<>> /\ walks' = Tail(walks)
      /\ pc' = IF Len(walks) = 1 /\ HasPendingListeners THEN "removing" ELSE "run"
  BY DEF EndBroadcast
<1>2. Moving' = Moving
  BY <1>1 DEF Moving
<1>3. Rings' /\ OnRing(list)' = OnRing(list) /\ OnRing(toAdd)' = OnRing(toAdd) /\ \A a : Passed(a)' = Passed(a)
  BY <1>1, <1>2, RingsSame
<1>4. /\ walks \in Seq(Walk) /\ Len(walks) \in Nat \ {0} /\ walks' \in Seq(Walk) /\ Len(walks') = Len(walks) - 1
      /\ \A i \in 1 .. Len(walks') : walks'[i] = walks[i + 1] /\ i + 1 \in 2 .. Len(walks)
      /\ walks' = <<>> <=> Len(walks) = 1
  <2>1. walks \in Seq(Walk)
    BY DEF IInv, Types
  <2>2. Len(walks) \in Nat /\ Len(walks) > 0 /\ Tail(walks) \in Seq(Walk)
    BY <1>1, <2>1, SeqFacts
  <2>3. Len(Tail(walks)) = Len(walks) - 1 /\ \A i \in 1 .. (Len(walks) - 1) : Tail(walks)[i] = walks[i + 1]
    BY <2>1, <2>2
  <2>4. Tail(walks) = <<>> <=> Len(Tail(walks)) = 0
    BY <2>2, SeqFacts
  <2>. QED BY <1>1, <2>1, <2>2, <2>3, <2>4
<1>5. Types'
  BY <1>1, <1>4 DEF IInv, Types, ringVars
<1>6. Removals'
  BY <1>1, <1>3 DEF IInv, Removals
<1>7. Adding'
  BY <1>1, <1>4 DEF IInv, Adding, HasPendingListeners
<1>8. Walks'
  <2>1. ASSUME NEW w, WalkOK(w) PROVE WalkOK(w)'
    <3>1. Far(w)' = Far(w)
      BY <1>3 DEF Far
    <3>. QED BY <1>1, <1>3, <2>1, <3>1 DEF WalkOK, MaybeEntry, ringVars
  <2>2. \A i \in 1 .. Len(walks') : WalkOK(walks[i])'
    BY <1>4, <2>1 DEF IInv, Walks
  <2>3. ASSUME NEW i \in 2 .. Len(walks') PROVE walks'[i].state = "calling"
    <3>1. walks'[i] = walks[i + 1] /\ i + 1 \in 2 .. Len(walks)
      BY <1>4
    <3>. QED BY <3>1 DEF IInv, Walks
  <2>. QED BY <2>2, <2>3 DEF Walks
<1>. QED BY <1>3, <1>5, <1>6, <1>7, <1>8 DEF IInv

\* Without walks there is nothing to show of them.
LEMMA NoWalks == walks' = <<>> => Walks'
BY EmptySequence DEF Walks

LEMMA RemovalsDoneStep ==
    ASSUME IInv, RemovalsDone
    PROVE  IInv'
<1>1. /\ UNCHANGED <<ringVars, allocated, owned, on, list, toAdd, toRemove, walks>>
      /\ pc = "removing" /\ toRemove = <<>>
      /\ \/ toAdd = Null /\ pc' = "run" /\ UNCHANGED curr
         \/ toAdd # Null /\ pc' = "detach" /\ curr' = AddingFrom(prev[toAdd])
  BY DEF RemovalsDone
<1>2. Moving' = Moving
  BY <1>1 DEF Moving
<1>3. Rings' /\ OnRing(list)' = OnRing(list) /\ OnRing(toAdd)' = OnRing(toAdd)
  BY <1>1, <1>2, RingsSame
<1>4. walks = <<>> /\ curr = NoEntry
  BY <1>1 DEF IInv, Adding
<1>5. curr' \in Position
  <2>1. CASE toAdd = Null
    BY <1>1, <2>1 DEF IInv, Types
  <2>2. CASE toAdd # Null
    <3>1. PICK A \in SUBSET Listeners : A = OnRing(toAdd) /\ IsRing(next, prev, toAdd, A)
      BY RingsNow
    <3>2. prev[toAdd] \in Listeners /\ prev[prev[toAdd]] \in Listeners
      BY <2>2, <3>1 DEF IsRing
    <3>3. (prev[toAdd] = toAdd) \in BOOLEAN
      OBVIOUS
    <3>4. AddingFrom(prev[toAdd]) \in Position
      BY <3>2, <3>3, Zenon DEF AddingFrom, Position
    <3>. QED BY <1>1, <2>2, <3>4
  <2>. QED BY <2>1, <2>2
<1>6. Types'
  BY <1>1, <1>5 DEF IInv, Types, ringVars
<1>7. Removals'
  BY <1>1, <1>3 DEF IInv, Removals
<1>8. Adding'
  BY <1>1, <1>4 DEF IInv, Adding, AddingFrom, ringVars
<1>. QED BY <1>1, <1>3, <1>4, <1>6, <1>7, <1>8, NoWalks DEF IInv

\* What the ring operations make of the pointers.
LEMMA PointersKept ==
    ASSUME Types, NEW l \in Listeners, NEW head \in Listeners \cup {Null},
           ListAppend(head, l) \/ DetachFromList(l)
    PROVE  next' \in [Listeners -> Listeners \cup {Null}] /\ prev' \in [Listeners -> Listeners \cup {Null}]
<1>1. CASE ListAppend(head, l)
  BY <1>1 DEF ListAppend, Types
<1>2. CASE DetachFromList(l)
  BY <1>2 DEF DetachFromList, Types
<1>. QED BY <1>1, <1>2

LEMMA AppendedTo ==
    ASSUME Types, NEW head, NEW R \in SUBSET Listeners, IsRing(next, prev, head, R),
           NEW l \in Listeners, l \notin R, ListAppend(head, l), NEW h, h = HeadWith(head, l)
    PROVE  /\ IsRing(next', prev', h, R \cup {l})
           /\ \A x \in Listeners : x \notin R \cup {l} => next'[x] = next[x] /\ prev'[x] = prev[x]
<1>1. Appended(next, prev, head, l, next', prev', h)
  <2>1. CASE head = Null
    BY <2>1, Zenon DEF ListAppend, HeadWith, Appended
  <2>2. CASE head # Null
    BY <2>2, Zenon DEF ListAppend, HeadWith, Appended
  <2>. QED BY <2>1, <2>2
<1>2. next \in [Listeners -> Listeners \cup {Null}] /\ prev \in [Listeners -> Listeners \cup {Null}]
  BY DEF Types
<1>3. IsRing(next', prev', h, R \cup {l})
  BY <1>1, <1>2, RingAppend
<1>4. ASSUME NEW x \in Listeners, x \notin R \cup {l}
      PROVE  next'[x] = next[x] /\ prev'[x] = prev[x]
  <2>1. CASE head = Null
    BY <1>1, <1>2, <1>4, <2>1 DEF Appended
  <2>2. CASE head # Null
    <3>1. head \in R /\ prev[head] \in R
      BY <2>2 DEF IsRing
    <3>. QED BY <1>1, <1>2, <1>4, <2>2, <3>1 DEF Appended
  <2>. QED BY <2>1, <2>2
<1>. QED BY <1>3, <1>4

LEMMA CreateStep ==
    ASSUME IInv, NEW l \in Listeners, Create(l)
    PROVE  IInv'
<1>1. /\ pc = "run" /\ l \notin allocated
      /\ allocated' = allocated \cup {l} /\ owned' = owned \cup {l}
      /\ ListAppend(IF AddsAside THEN toAdd ELSE list, l)
      /\ list' = IF AddsAside THEN list ELSE HeadWith(list, l)
      /\ toAdd' = IF AddsAside THEN HeadWith(toAdd, l) ELSE toAdd
      /\ UNCHANGED <<on, toRemove, walks, pc, curr>>
      /\ AddsAside <=> walks # <<>>
  BY DEF Create, Running, AddsAside, IsBroadcasting
<1>2. PICK L, A \in SUBSET Listeners :
              /\ L = OnRing(list) /\ A = OnRing(toAdd)
              /\ IsRing(next, prev, list, L) /\ IsRing(next, prev, toAdd, A)
              /\ L \cap A = {} /\ L \cup A = allocated \ Moving
              /\ \A x \in Listeners : x \notin L \cup A => next[x] = Null /\ prev[x] = Null
              /\ list \in L \cup {Null} /\ toAdd \in A \cup {Null}
  BY RingsNow
<1>3. Moving = {} /\ Moving' = {} /\ l \notin L /\ l \notin A /\ L \cup A = allocated
  BY <1>1, <1>2 DEF Moving
<1>t. Types /\ next \in [Listeners -> Listeners \cup {Null}] /\ prev \in [Listeners -> Listeners \cup {Null}]
  BY DEF IInv, Types
<1>4. Types'
  <2>1. next' \in [Listeners -> Listeners \cup {Null}] /\ prev' \in [Listeners -> Listeners \cup {Null}]
    BY <1>1, <1>2, <1>t, PointersKept
  <2>. QED BY <1>1, <2>1 DEF IInv, Types
<1>5. CASE walks = <<>>
  <2>1. toRemove = <<>> /\ toAdd = Null /\ A = {} /\ toAdd' = Null /\ list' = HeadWith(list, l) /\ ListAppend(list, l)
    BY <1>1, <1>2, <1>5 DEF IInv, Adding, IsRing
  <2>2. IsRing(next', prev', list', L \cup {l})
        /\ \A x \in Listeners : x \notin L \cup {l} => next'[x] = next[x] /\ prev'[x] = prev[x]
    <3>1. l \notin L /\ IsRing(next, prev, list, L) /\ list' = HeadWith(list, l)
      BY <1>2, <1>3, <2>1
    <3>. QED BY <1>t, <2>1, <3>1, AppendedTo
  <2>3. IsRing(next', prev', toAdd', {})
    BY <2>1 DEF IsRing
  <2>4. Rings' /\ OnRing(list)' = L \cup {l}
    BY <1>1, <1>2, <1>3, <2>1, <2>2, <2>3, RingsAre
  <2>5. Removals'
    BY <1>1, <1>2, <2>1, <2>4, EmptySequence DEF IInv, Removals
  <2>6. Adding'
    BY <1>1, <1>5, <2>1 DEF IInv, Adding
  <2>. QED BY <1>1, <1>4, <1>5, <2>4, <2>5, <2>6, NoWalks DEF IInv
<1>6. CASE walks # <<>>
  <2>1. list' = list /\ toAdd' = HeadWith(toAdd, l) /\ ListAppend(toAdd, l)
    BY <1>1, <1>6
  <2>2. IsRing(next', prev', toAdd', A \cup {l})
        /\ \A x \in Listeners : x \notin A \cup {l} => next'[x] = next[x] /\ prev'[x] = prev[x]
    <3>1. l \notin A /\ IsRing(next, prev, toAdd, A) /\ toAdd' = HeadWith(toAdd, l)
      BY <1>2, <1>3, <2>1
    <3>. QED BY <1>t, <2>1, <3>1, AppendedTo
  <2>3. \A x \in L : next'[x] = next[x] /\ prev'[x] = prev[x]
    BY <1>2, <1>3, <2>2
  <2>4. IsRing(next', prev', list', L)
    BY <1>2, <2>1, <2>3, RingSame
  <2>5. Rings' /\ OnRing(list)' = L
    BY <1>1, <1>2, <1>3, <2>2, <2>4, RingsAre
  <2>6. Removals'
    BY <1>1, <1>2, <2>5 DEF IInv, Removals
  <2>7. Adding'
    BY <1>1, <1>6 DEF IInv, Adding
  <2>8. Walks'
    <3>1. \A i \in 1 .. Len(walks) : SameWalk(walks[i], walks'[i])
                                     /\ walks'[i].due \subseteq walks[i].due \cap owned' \cap on'
      BY <1>1 DEF IInv, Walks, WalkOK, SameWalk
    <3>2. owned' \cap L \subseteq owned
      BY <1>1, <1>3
    <3>. QED BY <1>1, <1>2, <2>1, <2>3, <2>5, <3>1, <3>2, WalksKept
  <2>. QED BY <1>4, <2>5, <2>6, <2>7, <2>8 DEF IInv
<1>. QED BY <1>5, <1>6

LEMMA DetachedFrom ==
    ASSUME Types, NEW head, NEW R \in SUBSET Listeners, IsRing(next, prev, head, R),
           NEW l \in R, DetachFromList(l), NEW h, h = HeadWithout(head, l)
    PROVE  /\ IsRing(next', prev', h, R \ {l})
           /\ \A x \in Listeners : x \notin R => next'[x] = next[x] /\ prev'[x] = prev[x]
           /\ next'[l] = Null /\ prev'[l] = Null
<1>1. Detached(next, prev, head, l, next', prev', h)
  BY Zenon DEF DetachFromList, HeadWithout, TheOnlyNode, Detached
<1>2. next \in [Listeners -> Listeners \cup {Null}] /\ prev \in [Listeners -> Listeners \cup {Null}]
  BY DEF Types
<1>3. IsRing(next', prev', h, R \ {l})
  BY <1>1, <1>2, RingDetach
<1>4. l \in Listeners /\ next[l] \in R /\ prev[l] \in R
  BY DEF IsRing
<1>5. ASSUME NEW x \in Listeners, x \notin R
      PROVE  next'[x] = next[x] /\ prev'[x] = prev[x]
  BY <1>1, <1>2, <1>4, <1>5 DEF Detached
<1>6. next'[l] = Null /\ prev'[l] = Null
  BY <1>1, <1>2, <1>4 DEF Detached
<1>. QED BY <1>3, <1>5, <1>6

LEMMA DestroyStep ==
    ASSUME IInv, NEW l \in Listeners, Destroy(l)
    PROVE  IInv'
<1>1. /\ pc = "run" /\ walks = <<>> /\ l \in owned /\ DetachFromList(l)
      /\ list' = HeadWithout(list, l) /\ allocated' = allocated \ {l}
      /\ owned' = owned \ {l} /\ on' = on \ {l} /\ Excuse(l)
      /\ UNCHANGED <<toAdd, toRemove, pc, curr>>
  BY DEF Destroy, Running, IsBroadcasting
<1>2. PICK L, A \in SUBSET Listeners :
              /\ L = OnRing(list) /\ A = OnRing(toAdd)
              /\ IsRing(next, prev, list, L) /\ IsRing(next, prev, toAdd, A)
              /\ L \cap A = {} /\ L \cup A = allocated \ Moving
              /\ \A x \in Listeners : x \notin L \cup A => next[x] = Null /\ prev[x] = Null
  BY RingsNow
<1>3. Moving = {} /\ Moving' = {}
  BY <1>1 DEF Moving
<1>4. toRemove = <<>> /\ toAdd = Null /\ A = {}
  BY <1>1, <1>2 DEF IInv, Adding, IsRing
<1>5. Types /\ owned \subseteq allocated
  BY DEF IInv, Types
<1>6. l \in L
  BY <1>1, <1>2, <1>3, <1>4, <1>5
<1>7. /\ IsRing(next', prev', list', L \ {l})
      /\ \A x \in Listeners : x \notin L => next'[x] = next[x] /\ prev'[x] = prev[x]
      /\ next'[l] = Null /\ prev'[l] = Null
  <2>1. IsRing(next, prev, list, L) /\ list' = HeadWithout(list, l) /\ DetachFromList(l)
    BY <1>1, <1>2
  <2>. QED BY <1>5, <1>6, <2>1, DetachedFrom
<1>8. IsRing(next', prev', toAdd', {})
  BY <1>1, <1>4 DEF IsRing
<1>9. Rings'
  <2>1. \A x \in Listeners : x \notin L \ {l} => next'[x] = Null /\ prev'[x] = Null
    BY <1>2, <1>4, <1>7
  <2>2. L \ {l} = allocated' \ Moving'
    BY <1>1, <1>2, <1>3, <1>4
  <2>. QED BY <1>3, <1>7, <1>8, <2>1, <2>2, RingsAre
<1>10. walks' = <<>>
  BY <1>1, Excused
<1>11. Types'
  <2>1. next' \in [Listeners -> Listeners \cup {Null}] /\ prev' \in [Listeners -> Listeners \cup {Null}]
    BY <1>1, <1>2, <1>5, PointersKept
  <2>. QED BY <1>1, <1>10, <2>1, EmptySequence DEF IInv, Types
<1>12. Removals'
  BY <1>1, <1>4, EmptySequence DEF IInv, Removals
<1>13. Adding'
  BY <1>1, <1>4, <1>10 DEF IInv, Adding
<1>. QED BY <1>9, <1>10, <1>11, <1>12, <1>13, NoWalks DEF IInv

LEMMA RemovePendingStep ==
    ASSUME IInv, RemovePending
    PROVE  IInv'
<1>l. PICK l : l = Head(toRemove)
  OBVIOUS
<1>1. /\ pc = "removing" /\ toRemove # <<>> /\ DetachFromList(l)
      /\ list' = HeadWithout(list, l) /\ allocated' = allocated \ {l} /\ toRemove' = Tail(toRemove)
      /\ UNCHANGED <<owned, on, toAdd, walks, pc, curr>>
  BY <1>l DEF RemovePending
<1>2. PICK L, A \in SUBSET Listeners :
              /\ L = OnRing(list) /\ A = OnRing(toAdd)
              /\ IsRing(next, prev, list, L) /\ IsRing(next, prev, toAdd, A)
              /\ L \cap A = {} /\ L \cup A = allocated \ Moving
              /\ \A x \in Listeners : x \notin L \cup A => next[x] = Null /\ prev[x] = Null
  BY RingsNow
<1>3. Moving = {} /\ Moving' = {} /\ walks = <<>>
  BY <1>1 DEF IInv, Adding, Moving
<1>4. Types /\ toRemove \in Seq(Listeners)
  BY DEF IInv, Types
<1>5. /\ l \in Listeners /\ Tail(toRemove) \in Seq(Listeners)
      /\ Range(toRemove) = {l} \cup Range(Tail(toRemove))
      /\ IsInjective(Tail(toRemove)) /\ l \notin Range(Tail(toRemove))
  BY <1>l, <1>1, <1>4, SeqFacts DEF IInv, Removals
<1>6. Range(toRemove) = allocated \ owned /\ Range(toRemove) \subseteq L
  BY <1>2 DEF IInv, Removals
<1>7. /\ IsRing(next', prev', list', L \ {l})
      /\ \A x \in Listeners : x \notin L => next'[x] = next[x] /\ prev'[x] = prev[x]
      /\ next'[l] = Null /\ prev'[l] = Null
  <2>1. l \in L
    BY <1>5, <1>6
  <2>2. IsRing(next, prev, list, L) /\ list' = HeadWithout(list, l) /\ DetachFromList(l)
    BY <1>1, <1>2
  <2>. QED BY <1>4, <2>1, <2>2, DetachedFrom
<1>8. IsRing(next', prev', toAdd', A)
  <2>1. \A x \in A : next'[x] = next[x] /\ prev'[x] = prev[x]
    BY <1>2, <1>7
  <2>. QED BY <1>1, <1>2, <2>1, RingSame
<1>9. Rings' /\ OnRing(list)' = L \ {l}
  <2>1. \A x \in Listeners : x \notin (L \ {l}) \cup A => next'[x] = Null /\ prev'[x] = Null
    BY <1>2, <1>7
  <2>2. (L \ {l}) \cup A = allocated' \ Moving' /\ (L \ {l}) \cap A = {}
    BY <1>1, <1>2, <1>3, <1>5, <1>6
  <2>. QED BY <1>3, <1>7, <1>8, <2>1, <2>2, RingsAre
<1>10. Types'
  <2>1. next' \in [Listeners -> Listeners \cup {Null}] /\ prev' \in [Listeners -> Listeners \cup {Null}]
    BY <1>1, <1>4, <1>5, PointersKept
  <2>2. owned \subseteq allocated'
    BY <1>1, <1>5, <1>6 DEF IInv, Types
  <2>. QED BY <1>1, <1>5, <2>1, <2>2 DEF IInv, Types
<1>11. Removals'
  BY <1>1, <1>5, <1>6, <1>9 DEF IInv, Removals
<1>12. Adding'
  BY <1>1, <1>3 DEF IInv, Adding
<1>. QED BY <1>1, <1>3, <1>9, <1>10, <1>11, <1>12, NoWalks DEF IInv

LEMMA DetachPendingStep ==
    ASSUME IInv, DetachPending
    PROVE  IInv'
<1>e. PICK e : e = curr.at
  OBVIOUS
<1>1. /\ pc = "detach" /\ pc' = "append" /\ DetachFromList(e) /\ toAdd' = HeadWithout(toAdd, e)
      /\ UNCHANGED <<allocated, owned, on, list, toRemove, walks, curr>>
  BY <1>e DEF DetachPending
<1>2. PICK L, A \in SUBSET Listeners :
              /\ L = OnRing(list) /\ A = OnRing(toAdd)
              /\ IsRing(next, prev, list, L) /\ IsRing(next, prev, toAdd, A)
              /\ L \cap A = {} /\ L \cup A = allocated \ Moving
              /\ \A x \in Listeners : x \notin L \cup A => next[x] = Null /\ prev[x] = Null
              /\ list \in L \cup {Null}
  BY RingsNow
<1>3. /\ Types /\ toAdd # Null /\ toRemove = <<>> /\ walks = <<>>
      /\ curr = AddingFrom(prev[toAdd])
  BY <1>1 DEF IInv, Adding, Removals
<1>4. curr.at = prev[toAdd] /\ curr.nextCopy = prev[e] /\ (curr.isLast <=> e = toAdd)
  BY <1>e, <1>3 DEF AddingFrom
<1>5. /\ toAdd \in A /\ e \in A /\ next[e] = toAdd /\ prev[e] \in A /\ prev[toAdd] = e
      /\ next[prev[e]] = e
  BY <1>e, <1>2, <1>3, <1>4 DEF IsRing
<1>6. Moving = {} /\ Moving' = {e} /\ e \in Listeners /\ e \in allocated
  <2>1. Moving = {} /\ Moving' = {e}
    BY <1>1, <1>e DEF Moving
  <2>. QED BY <1>2, <1>5, <2>1
<1>7. /\ IsRing(next', prev', toAdd', A \ {e})
      /\ \A x \in Listeners : x \notin A => next'[x] = next[x] /\ prev'[x] = prev[x]
      /\ next'[e] = Null /\ prev'[e] = Null
  <2>1. IsRing(next, prev, toAdd, A) /\ toAdd' = HeadWithout(toAdd, e) /\ DetachFromList(e)
    BY <1>1, <1>2
  <2>2. Types /\ e \in A
    BY <1>3, <1>5
  <2>. QED BY <2>1, <2>2, DetachedFrom
<1>8. IsRing(next', prev', list', L)
  <2>1. \A x \in L : next'[x] = next[x] /\ prev'[x] = prev[x]
    BY <1>2, <1>7
  <2>. QED BY <1>1, <1>2, <2>1, RingSame
<1>9. Rings' /\ OnRing(list)' = L
  <2>1. \A x \in Listeners : x \notin L \cup (A \ {e}) => next'[x] = Null /\ prev'[x] = Null
    BY <1>2, <1>7
  <2>2. L \cup (A \ {e}) = allocated' \ Moving' /\ L \cap (A \ {e}) = {} /\ Moving' \subseteq allocated'
    BY <1>1, <1>2, <1>5, <1>6
  <2>. QED BY <1>7, <1>8, <2>1, <2>2, RingsAre
<1>10. Types'
  <2>1. next' \in [Listeners -> Listeners \cup {Null}] /\ prev' \in [Listeners -> Listeners \cup {Null}]
    BY <1>1, <1>2, <1>3, <1>6, PointersKept
  <2>. QED BY <1>1, <2>1 DEF IInv, Types
<1>11. Removals'
  BY <1>1, <1>2, <1>3, <1>9, EmptySequence DEF IInv, Removals
<1>12. Adding'
  <2>1. prev \in [Listeners -> Listeners \cup {Null}] /\ e \in Listeners /\ toAdd \in Listeners
    BY <1>2, <1>3, <1>5 DEF Types
  <2>2. CASE e = toAdd
    <3>1. toAdd' = Null
      BY <1>1, <1>5, <2>2 DEF HeadWithout, TheOnlyNode
    <3>. QED BY <1>1, <1>2, <1>3, <1>4, <1>5, <1>6, <1>e, <2>2, <3>1 DEF Adding, MaybeEntry
  <2>3. CASE e # toAdd
    <3>1. toAdd' = toAdd
      BY <1>1, <1>5, <2>3 DEF HeadWithout, TheOnlyNode
    <3>2. prev'[toAdd] = prev[e]
      BY <1>1, <1>5, <2>1, <2>3 DEF DetachFromList
    <3>3. prev[e] \in allocated
      BY <1>2, <1>5
    <3>. QED BY <1>1, <1>3, <1>4, <1>6, <1>e, <2>3, <3>1, <3>2, <3>3 DEF Adding, MaybeEntry
  <2>. QED BY <2>2, <2>3
<1>. QED BY <1>1, <1>3, <1>9, <1>10, <1>11, <1>12, NoWalks DEF IInv

LEMMA AppendPendingStep ==
    ASSUME IInv, AppendPending
    PROVE  IInv'
<1>e. PICK e : e = curr.at
  OBVIOUS
<1>1. /\ pc = "append" /\ ListAppend(list, e) /\ list' = HeadWith(list, e)
      /\ \/ curr.isLast /\ pc' = "run" /\ toAdd' = Null /\ curr' = NoEntry
         \/ ~curr.isLast /\ pc' = "detach" /\ curr' = AddingFrom(curr.nextCopy) /\ UNCHANGED toAdd
      /\ UNCHANGED <<allocated, owned, on, toRemove, walks>>
  BY <1>e DEF AppendPending
<1>2. PICK L, A \in SUBSET Listeners :
              /\ L = OnRing(list) /\ A = OnRing(toAdd)
              /\ IsRing(next, prev, list, L) /\ IsRing(next, prev, toAdd, A)
              /\ L \cap A = {} /\ L \cup A = allocated \ Moving /\ Moving \subseteq allocated
              /\ \A x \in Listeners : x \notin L \cup A => next[x] = Null /\ prev[x] = Null
              /\ list \in L \cup {Null}
  BY RingsNow
<1>3. /\ Types /\ toRemove = <<>> /\ walks = <<>> /\ e \in Listeners
      /\ curr.isLast => toAdd = Null
      /\ ~curr.isLast => toAdd # Null /\ curr.nextCopy = prev[toAdd]
  BY <1>e, <1>1 DEF IInv, Adding, Removals
<1>4. Moving = {e} /\ Moving' = {} /\ e \notin L /\ e \notin A
  <2>1. Moving = {e} /\ Moving' = {}
    BY <1>1, <1>e DEF Moving
  <2>. QED BY <1>2, <2>1
<1>5. toAdd' = toAdd
  BY <1>1, <1>3
<1>6. IsRing(next', prev', list', L \cup {e})
      /\ \A x \in Listeners : x \notin L \cup {e} => next'[x] = next[x] /\ prev'[x] = prev[x]
  <2>1. IsRing(next, prev, list, L) /\ list' = HeadWith(list, e) /\ ListAppend(list, e)
    BY <1>1, <1>2
  <2>2. Types /\ e \in Listeners /\ e \notin L
    BY <1>3, <1>4
  <2>. QED BY <2>1, <2>2, AppendedTo, SMTT(30)
<1>7. \A x \in A : next'[x] = next[x] /\ prev'[x] = prev[x]
  BY <1>2, <1>4, <1>6
<1>8. IsRing(next', prev', toAdd', A)
  BY <1>2, <1>5, <1>7, RingSame
<1>9. Rings' /\ OnRing(list)' = L \cup {e}
  <2>1. \A x \in Listeners : x \notin (L \cup {e}) \cup A => next'[x] = Null /\ prev'[x] = Null
    BY <1>2, <1>6
  <2>2. /\ (L \cup {e}) \cup A = allocated' \ Moving' /\ (L \cup {e}) \cap A = {} /\ Moving' \subseteq allocated'
        /\ L \cup {e} \in SUBSET Listeners
    BY <1>1, <1>2, <1>3, <1>4
  <2>. QED BY <1>6, <1>8, <2>1, <2>2, RingsAre
<1>10. /\ ~curr.isLast => curr' = AddingFrom(prev[toAdd])' /\ curr' \in Position
       /\ curr' \in Position
  <2>1. CASE curr.isLast
    <3>1. NoEntry \in Position
      BY DEF Position, NoEntry
    <3>. QED BY <1>1, <2>1, <3>1
  <2>2. CASE ~curr.isLast
    <3>1. toAdd \in A /\ prev[toAdd] \in A /\ prev[prev[toAdd]] \in A
      BY <1>2, <1>3, <2>2 DEF IsRing
    <3>2. prev'[toAdd] = prev[toAdd] /\ prev'[prev[toAdd]] = prev[prev[toAdd]]
      BY <1>7, <3>1
    <3>3. curr' = AddingFrom(prev[toAdd])
      BY <1>1, <1>3, <2>2
    <3>4. AddingFrom(prev[toAdd])' = AddingFrom(prev[toAdd])
      BY <1>5, <3>2 DEF AddingFrom
    <3>5. (prev[toAdd] = toAdd) \in BOOLEAN
      OBVIOUS
    <3>6. prev[toAdd] \in Listeners /\ prev[prev[toAdd]] \in Listeners
      BY <1>2, <3>1
    <3>7. AddingFrom(prev[toAdd]) \in Position
      BY <3>5, <3>6, Zenon DEF AddingFrom, Position
    <3>. QED BY <3>3, <3>4, <3>7
  <2>. QED BY <2>1, <2>2
<1>11. Types'
  <2>1. next' \in [Listeners -> Listeners \cup {Null}] /\ prev' \in [Listeners -> Listeners \cup {Null}]
    BY <1>1, <1>2, <1>3, PointersKept
  <2>. QED BY <1>1, <1>10, <2>1 DEF IInv, Types
<1>12. Removals'
  BY <1>1, <1>2, <1>3, <1>9, EmptySequence DEF IInv, Removals
<1>13. Adding'
  <2>1. CASE curr.isLast
    BY <1>1, <1>3, <2>1 DEF Adding
  <2>2. CASE ~curr.isLast
    BY <1>1, <1>3, <1>5, <1>10, <2>2 DEF Adding
  <2>. QED BY <2>1, <2>2
<1>. QED BY <1>1, <1>3, <1>9, <1>11, <1>12, <1>13, NoWalks DEF IInv

LEMMA StutterStep == IInv /\ UNCHANGED vars => IInv'
<1> SUFFICES ASSUME IInv, UNCHANGED vars PROVE IInv'
  OBVIOUS
<1>1. Moving' = Moving
  BY DEF vars, Moving
<1>2. Rings' /\ OnRing(list)' = OnRing(list) /\ OnRing(toAdd)' = OnRing(toAdd)
  BY <1>1, RingsSame DEF vars
<1>3. Types'
  BY DEF IInv, Types, vars, ringVars
<1>4. Removals'
  BY <1>2 DEF IInv, Removals, vars
<1>5. Adding'
  BY DEF IInv, Adding, AddingFrom, MaybeEntry, vars, ringVars
<1>6. Walks'
  <2>1. \A i \in 1 .. Len(walks) : SameWalk(walks[i], walks'[i])
                                   /\ walks'[i].due \subseteq walks[i].due \cap owned' \cap on'
    BY DEF IInv, Walks, WalkOK, SameWalk, vars
  <2>. QED BY <1>2, <2>1, WalksKept DEF vars, ringVars
<1>. QED BY <1>2, <1>3, <1>4, <1>5, <1>6 DEF IInv

\* A listener created in a broadcast outlives it, or its entry would be
\* detached from a ring it is not on.
LEMMA Always ==
    ASSUME ~MayDestroyPending
    PROVE  Spec => []IInv
<1>1. IInv /\ [Next]_vars => IInv'
  <2> SUFFICES ASSUME IInv, [Next]_vars PROVE IInv'
    OBVIOUS
  <2>1. ASSUME NEW l \in Listeners, Create(l) PROVE IInv'
    BY <2>1, CreateStep
  <2>2. ASSUME NEW l \in Listeners, SwitchOn(l) PROVE IInv'
    BY <2>2, SwitchOnStep
  <2>3. ASSUME NEW l \in Listeners, SwitchOff(l) PROVE IInv'
    BY <2>3, SwitchOffStep
  <2>4. ASSUME NEW l \in Listeners, Destroy(l) PROVE IInv'
    BY <2>4, DestroyStep
  <2>5. ASSUME NEW l \in Listeners, DestroyLater(l) PROVE IInv'
    BY <2>5, DestroyLaterStep
  <2>6. CASE Broadcast
    BY <2>6, BroadcastStep
  <2>7. CASE Invoke
    BY <2>7, InvokeStep
  <2>8. CASE Skip
    BY <2>8, SkipStep
  <2>9. CASE CallbackReturns
    BY <2>9, CallbackReturnsStep
  <2>10. CASE EndBroadcast
    BY <2>10, EndBroadcastStep
  <2>11. CASE RemovePending
    BY <2>11, RemovePendingStep
  <2>12. CASE RemovalsDone
    BY <2>12, RemovalsDoneStep
  <2>13. CASE DetachPending
    BY <2>13, DetachPendingStep
  <2>14. CASE AppendPending
    BY <2>14, AppendPendingStep
  <2>15. CASE UNCHANGED vars
    BY <2>15, StutterStep
  <2>. QED
    BY <2>1, <2>2, <2>3, <2>4, <2>5, <2>6, <2>7, <2>8, <2>9, <2>10, <2>11, <2>12, <2>13, <2>14, <2>15
    DEF Next, Program, Bus
<1>. QED BY <1>1, InitIInv, PTL DEF Spec

-----------------------------------------------------------------------------
(* What follows for the properties.                                        *)

LEMMA RingsWholeNow == IInv => RingsWhole
<1> SUFFICES ASSUME IInv PROVE RingsWhole
  OBVIOUS
<1>1. PICK L, A \in SUBSET Listeners :
              /\ L = OnRing(list) /\ A = OnRing(toAdd)
              /\ IsRing(next, prev, list, L) /\ IsRing(next, prev, toAdd, A)
              /\ L \cap A = {} /\ L \cup A = allocated \ Moving /\ Moving \subseteq allocated
              /\ \A x \in Listeners : x \notin L \cup A => next[x] = Null /\ prev[x] = Null
              /\ list \in L \cup {Null} /\ toAdd \in A \cup {Null}
  BY RingsNow
<1>2. /\ allocated \subseteq Listeners /\ owned \subseteq allocated /\ on \subseteq owned
      /\ toRemove \in Seq(Listeners) /\ walks \in Seq(Walk)
      /\ pc \in {"run", "removing", "detach", "append"}
  BY DEF IInv, Types
<1>3. \A x \in Listeners : next[x] \in MaybeEntry /\ prev[x] \in MaybeEntry
  <2> SUFFICES ASSUME NEW x \in Listeners PROVE next[x] \in MaybeEntry /\ prev[x] \in MaybeEntry
    OBVIOUS
  <2>1. CASE x \in L \cup A
    <3>1. next[x] \in L \cup A /\ prev[x] \in L \cup A
      BY <1>1, <2>1 DEF IsRing
    <3>. QED BY <1>1, <3>1 DEF MaybeEntry
  <2>2. CASE x \notin L \cup A
    BY <1>1, <2>2 DEF MaybeEntry
  <2>. QED BY <2>1, <2>2
<1>4. list \in MaybeEntry /\ toAdd \in MaybeEntry
  BY <1>1 DEF MaybeEntry
<1>5. toRemove \in Seq(allocated)
  BY <1>2, SeqFacts DEF IInv, Removals
<1>6. ASSUME NEW i \in 1 .. Len(walks)
      PROVE  /\ walks[i].state \in {"visit", "calling", "done"}
             /\ walks[i].at \in MaybeEntry /\ walks[i].nextCopy \in MaybeEntry
             /\ walks[i].members \subseteq allocated /\ walks[i].due \subseteq owned
             /\ walks[i].called \in Seq(Listeners)
  <2>1. walks[i] \in Walk
    BY <1>2
  <2>. QED BY <2>1 DEF IInv, Walks, WalkOK, Walk
<1>7. curr.at \in MaybeEntry /\ curr.nextCopy \in MaybeEntry
  <2>1. CASE pc \in {"run", "removing"}
    BY <2>1 DEF IInv, Adding, NoEntry, MaybeEntry
  <2>2. CASE pc = "detach"
    <3>1. toAdd \in A /\ prev[toAdd] \in A
      BY <1>1, <2>2 DEF IInv, Adding, IsRing
    <3>2. curr.at = prev[toAdd] /\ curr.nextCopy = prev[prev[toAdd]]
      BY <2>2 DEF IInv, Adding, AddingFrom
    <3>3. prev[toAdd] \in Listeners /\ prev[toAdd] \in allocated
      BY <1>1, <3>1
    <3>. QED BY <1>3, <3>2, <3>3 DEF MaybeEntry
  <2>3. CASE pc = "append"
    BY <1>1, <2>3 DEF IInv, Adding, Moving, MaybeEntry
  <2>. QED BY <1>2, <2>1, <2>2, <2>3
<1>8. TypeOK
  BY <1>2, <1>3, <1>4, <1>5, <1>6, <1>7 DEF TypeOK
<1>9. \A x \in allocated \ Moving : prev[next[x]] = x /\ next[prev[x]] = x
  BY <1>1 DEF IsRing
<1>. QED BY <1>1, <1>8, <1>9 DEF RingsWhole

LEMMA NothingPendingNow == IInv => NothingPending
<1> SUFFICES ASSUME IInv, pc = "run", walks = <<>>
             PROVE  OnRing(list) = owned /\ toAdd = Null /\ toRemove = <<>>
  BY DEF NothingPending, IsBroadcasting
<1>1. toAdd = Null /\ toRemove = <<>>
  BY DEF IInv, Adding
<1>2. OnRing(toAdd) = {} /\ Moving = {}
  BY <1>1 DEF OnRing, Moving
<1>3. allocated \ owned = {} /\ owned \subseteq allocated
  BY <1>1, EmptySequence DEF IInv, Removals, Types
<1>. QED BY <1>1, <1>2, <1>3 DEF IInv, Rings

LEMMA CallsEachOnceNow == IInv => CallsEachOnce
<1> SUFFICES ASSUME IInv, NEW i \in 1 .. Len(walks)
             PROVE  /\ IsInjective(walks[i].called)
                    /\ Range(walks[i].called) \subseteq walks[i].members
                    /\ walks[i].state = "done" => walks[i].due \subseteq Range(walks[i].called)
  BY DEF CallsEachOnce
<1>1. PICK w : w = walks[i]
  OBVIOUS
<1>2. WalkOK(w)
  BY <1>1 DEF IInv, Walks
<1>3. w.state = "done" => w.due \subseteq Far(w)
  BY <1>2 DEF WalkOK, Far
<1>. QED BY <1>1, <1>2, <1>3 DEF WalkOK

\* An entry can be detached from the ring it is on.
LEMMA DetachableOn ==
    ASSUME NEW head, NEW R \in SUBSET Listeners, IsRing(next, prev, head, R), NEW l \in R
    PROVE  Detachable(head, l)
<1>1. head # Null /\ next[l] \in R /\ prev[l] \in R
  BY DEF IsRing
<1>2. next[l] # Null /\ prev[l] # Null
  BY <1>1, BusAssumption
<1>3. next[l] = l => l = head
  BY <1>1, RingOfOne
<1>. QED BY <1>1, <1>2, <1>3 DEF Detachable, TheOnlyNode

LEMMA DetachesItsOwnNow == IInv => DetachesItsOwn
<1> SUFFICES ASSUME IInv PROVE DetachesItsOwn
  OBVIOUS
<1>1. PICK L, A \in SUBSET Listeners :
              /\ L = OnRing(list) /\ A = OnRing(toAdd)
              /\ IsRing(next, prev, list, L) /\ IsRing(next, prev, toAdd, A)
  BY RingsNow
<1>2. ASSUME Running, ~IsBroadcasting, NEW l \in owned PROVE Detachable(list, l)
  <2>1. l \in L
    BY <1>1, <1>2, NothingPendingNow DEF NothingPending, Running
  <2>. QED BY <1>1, <2>1, DetachableOn
<1>3. ASSUME pc = "removing", toRemove # <<>> PROVE Detachable(list, Head(toRemove))
  <2>1. toRemove \in Seq(Listeners)
    BY DEF IInv, Types
  <2>2. Head(toRemove) \in L
    BY <1>1, <1>3, <2>1, SeqFacts DEF IInv, Removals
  <2>. QED BY <1>1, <2>2, DetachableOn
<1>4. ASSUME pc = "detach" PROVE Detachable(toAdd, curr.at)
  <2>1. curr.at \in A
    BY <1>1, <1>4 DEF IInv, Adding, AddingFrom, IsRing
  <2>. QED BY <1>1, <2>1, DetachableOn
<1>. QED BY <1>2, <1>3, <1>4 DEF DetachesItsOwn

\* Whatever callbacks do to the listeners, the two rings of entries stay linked
\* both ways and without a deleted entry, also half way through moving one from
\* the pending ring to the other (listAppend and detachFromList, List.h), as
\* long as no listener is destroyed in the broadcast it was created in.
THEOREM RingsWholeAlways ==
    ASSUME ~MayDestroyPending
    PROVE  Spec => []RingsWhole
BY Always, RingsWholeNow, PTL

\* When the outermost broadcast has ended, the ring has the listeners that
\* exist and nothing waits on the side (addOrRemovePendingListeners).
THEOREM NothingPendingAlways ==
    ASSUME ~MayDestroyPending
    PROVE  Spec => []NothingPending
BY Always, NothingPendingNow, PTL

\* A broadcast, nested however deep, calls each listener that was there when it
\* began and is still there and on, once, and none that came later
\* (BusEventBroadcaster::doBroadcast).
THEOREM CallsEachOnceAlways ==
    ASSUME ~MayDestroyPending
    PROVE  Spec => []CallsEachOnce
BY Always, CallsEachOnceNow, PTL

\* The assertion of detachFromList holds at each of its three calls (List.h:
\* 58-60), which is why the model may leave out what happens when it fails.
THEOREM DetachesItsOwnAlways ==
    ASSUME ~MayDestroyPending
    PROVE  Spec => []DetachesItsOwn
BY Always, DetachesItsOwnNow, PTL

-----------------------------------------------------------------------------
(* The tween system.                                                          *)

\* The tween being updated runs, and its time stays within its step, so that
\* what a step leaves of dt is never more than there was; what ran when the
\* frame began, and still does, was updated or is still to be visited.
WithinStep == \A t \in Tweens : step[t] <= Len(Steps[t]) => time[t] <= Steps[t][step[t]].duration

TweenIInv ==
    /\ TweenTypeOK
    /\ doing \in {"advancing", "calling"} => current \in Tweens
    /\ doing = "advancing" => current \in running
    /\ doing = "calling" => ~AtEnd
    /\ WithinStep
    /\ steady \subseteq running
    /\ steady \subseteq updated \cup Range(snapshot)

-----------------------------------------------------------------------------
(* What stopping a tween does to a sequence without repetitions. *)

LEMMA Append1 ==
    ASSUME NEW S, NEW s \in Seq(S), NEW x \in S
    PROVE  Append(s, x) \in Seq(S) /\ Range(Append(s, x)) = Range(s) \cup {x}
<1> DEFINE r == Append(s, x)
<1>1. r \in Seq(S) /\ Len(r) = Len(s) + 1 /\ r[Len(r)] = x
  OBVIOUS
<1>2. \A i \in 1..Len(s) : r[i] = s[i]
  OBVIOUS
<1> HIDE DEF r
<1>3. DOMAIN r = 1..(Len(s) + 1) /\ DOMAIN s = 1..Len(s) /\ Len(s) \in Nat
  BY <1>1
<1>4. \A i \in DOMAIN r : i \in DOMAIN s \/ i = Len(r)
  BY <1>1, <1>3
<1>5. \A y : y \in Range(r) <=> y \in Range(s) \cup {x}
  BY <1>1, <1>2, <1>3, <1>4 DEF Range
<1> QED
  BY <1>1, <1>5 DEF r

LEMMA RemoveOne ==
    ASSUME NEW S, NEW s \in Seq(S), IsInjective(s), NEW i \in DOMAIN s
    PROVE  /\ RemoveAt(s, i) \in Seq(S) /\ IsInjective(RemoveAt(s, i))
           /\ Range(RemoveAt(s, i)) = Range(s) \ {s[i]}
<1> DEFINE r == RemoveAt(s, i)
<1>1. i \in 1..Len(s)
  OBVIOUS
<1>2. r \in Seq(S) /\ Len(r) = Len(s) - 1
  BY SMTT(30), <1>1 DEF RemoveAt
<1>3. \A j \in 1..Len(r) : r[j] = IF j < i THEN s[j] ELSE s[j + 1]
  <2> DEFINE before == SubSeq(s, 1, i - 1)
             after == SubSeq(s, i + 1, Len(s))
  <2>1. before \in Seq(S) /\ Len(before) = i - 1 /\ \A j \in 1..(i - 1) : before[j] = s[j]
    BY <1>1
  <2>2. after \in Seq(S) /\ Len(after) = Len(s) - i /\ \A j \in 1..(Len(s) - i) : after[j] = s[i + j]
    BY <1>1
  <2>3. r = before \o after
    BY DEF RemoveAt
  <2> HIDE DEF before, after, r
  <2> TAKE j \in 1..Len(r)
  <2>4. CASE j < i
    BY <1>1, <2>1, <2>2, <2>3, <2>4
  <2>5. CASE j >= i
    <3>3. j > Len(before) /\ j <= Len(before) + Len(after)
      BY <1>1, <1>2, <2>1, <2>2, <2>5
    <3>4. (before \o after)[j] = after[j - Len(before)]
      BY SMTT(30), <1>2, <2>1, <2>2, <3>3
    <3>1. r[j] = after[j - (i - 1)]
      BY <2>1, <2>3, <3>4
    <3>2. j - (i - 1) \in 1..(Len(s) - i) /\ i + (j - (i - 1)) = j + 1
      BY <1>1, <1>2, <2>5
    <3>5. ~(j < i)
      BY <1>1, <2>5
    <3>6. r[j] = s[j + 1]
      BY <2>2, <3>1, <3>2
    <3> QED
      BY ONLY <3>5, <3>6, Zenon
  <2>6. i \in Nat /\ j \in Nat
    BY <1>1
  <2> QED
    BY <2>4, <2>5, <2>6
<1> HIDE DEF r
<1>4. IsInjective(r)
  <2> SUFFICES ASSUME NEW j \in 1..Len(r), NEW k \in 1..Len(r), r[j] = r[k] PROVE j = k
    BY <1>2 DEF IsInjective
  <2>1. \A m \in 1..Len(r) : (IF m < i THEN m ELSE m + 1) \in DOMAIN s
    BY <1>1, <1>2
  <2>2. \A m \in 1..Len(r) : r[m] = s[IF m < i THEN m ELSE m + 1]
    BY <1>3
  <2>3. (IF j < i THEN j ELSE j + 1) = (IF k < i THEN k ELSE k + 1)
    BY <2>1, <2>2 DEF IsInjective
  <2> QED
    BY <1>1, <1>2, <2>3
<1>5. ASSUME NEW x \in Range(r) PROVE x \in Range(s) \ {s[i]}
  <2>1. PICK j \in 1..Len(r) : x = r[j]
    BY <1>2 DEF Range
  <2>2. x = s[IF j < i THEN j ELSE j + 1] /\ (IF j < i THEN j ELSE j + 1) \in DOMAIN s \ {i}
    BY <1>1, <1>2, <1>3, <2>1
  <2> QED
    BY <1>1, <2>2 DEF Range, IsInjective
<1>6. ASSUME NEW x \in Range(s) \ {s[i]} PROVE x \in Range(r)
  <2>1. PICK k \in 1..Len(s) : x = s[k] /\ k # i
    BY DEF Range
  <2> DEFINE j == IF k < i THEN k ELSE k - 1
  <2>2. j \in 1..Len(r) /\ r[j] = x
    BY <1>1, <1>2, <1>3, <2>1
  <2> QED
    BY <1>2, <2>2 DEF Range
<1> QED
  BY <1>2, <1>4, <1>5, <1>6 DEF r

\* Stopping a running tween takes it, and no other, out of the system.
LEMMA StopRemoves ==
    ASSUME TweenTypeOK, NEW t \in running, Stopped(t)
    PROVE  /\ tweens' \in Seq(Tweens) /\ IsInjective(tweens') /\ Range(tweens') = running'
           /\ running' = running \ {t} /\ steady' = steady \ {t}
<1>1. PlaceOf(t) \in DOMAIN tweens /\ tweens[PlaceOf(t)] = t
  BY DEF TweenTypeOK, Range, PlaceOf
<1>2. tweens' = RemoveAt(tweens, PlaceOf(t))
  BY DEF Stopped, Removed
<1> QED
  BY SMTT(30), <1>1, <1>2, RemoveOne DEF Stopped, TweenTypeOK

-----------------------------------------------------------------------------
(* The game's calls. *)

LEMMA StepsType ==
    ASSUME NEW t \in Tweens
    PROVE  /\ Len(Steps[t]) \in Nat /\ Len(Steps[t]) > 0 /\ End(t) = Len(Steps[t]) + 1
           /\ \A i \in 1..Len(Steps[t]) : Steps[t][i].duration \in Nat
<1> DEFINE Step == [kind : {"call", "timed"}, duration : Nat]
<1>1. Steps[t] \in Seq(Step) /\ Steps[t] # <<>>
  BY TweenAssumption
<1>2. \A r \in Step : r.duration \in Nat
  OBVIOUS
<1> HIDE DEF Step
<1>3. \A i \in 1..Len(Steps[t]) : Steps[t][i] \in Step
  BY <1>1
<1> QED
  BY <1>1, <1>2, <1>3 DEF End

\* A tween that begins a step is within it.
LEMMA EnterStepWithin ==
    ASSUME TweenTypeOK, WithinStep, NEW t \in Tweens, NEW i \in 1..End(t), EnterStep(t, i)
    PROVE  /\ step' \in [Tweens -> Nat] /\ time' \in [Tweens -> Nat]
           /\ \A u \in Tweens : step'[u] \in 1..End(u)
           /\ WithinStep'
<1>1. i \in Nat /\ i > 0
  BY StepsType
<1>2. step' \in [Tweens -> Nat] /\ time' \in [Tweens -> Nat]
  BY <1>1 DEF EnterStep, TweenTypeOK
<1>3. ASSUME NEW u \in Tweens
      PROVE  step'[u] \in 1..End(u) /\ (step'[u] <= Len(Steps[u]) => time'[u] <= Steps[u][step'[u]].duration)
  <2>1. CASE u = t
    <3>1. step'[u] = i /\ time'[u] = 0
      BY <2>1 DEF EnterStep, TweenTypeOK
    <3>2. i <= Len(Steps[t]) => Steps[t][i].duration >= 0
      BY <1>1, StepsType
    <3> QED
      BY <2>1, <3>1, <3>2
  <2>2. CASE u # t
    <3>1. step'[u] = step[u] /\ time'[u] = time[u]
      BY <2>2 DEF EnterStep, TweenTypeOK
    <3> QED
      BY <3>1 DEF TweenTypeOK, WithinStep
  <2> QED
    BY <2>1, <2>2
<1> QED
  BY <1>2, <1>3 DEF WithinStep

LEMMA TweenInitIInv == TweenInit => TweenIInv
<1> SUFFICES ASSUME TweenInit PROVE TweenIInv
  OBVIOUS
<1>1. TweenTypeOK
  <2>1. Range(tweens) = {} /\ IsInjective(tweens) /\ tweens \in Seq(Tweens) /\ snapshot \in Seq(Tweens)
    BY DEF TweenInit, Range, IsInjective
  <2>2. \A t \in Tweens : step[t] \in 1..End(t)
    BY StepsType DEF TweenInit
  <2> QED
    BY <2>1, <2>2, TweenAssumption DEF TweenInit, TweenTypeOK
<1>2. WithinStep
  <2> SUFFICES ASSUME NEW t \in Tweens PROVE 0 <= Steps[t][1].duration
    BY DEF TweenInit, WithinStep
  <2> QED
    BY StepsType
<1> QED
  BY <1>1, <1>2 DEF TweenInit, TweenIInv

LEMMA GameKeeps == TweenIInv /\ Game => TweenIInv'
<1> SUFFICES ASSUME TweenIInv, Game PROVE TweenIInv'
  OBVIOUS
<1> USE DEF passVars, history, Calls
<1>0. TweenTypeOK /\ WithinStep
  BY DEF TweenIInv
<1>1. ASSUME NEW t \in Tweens, Start(t) PROVE TweenIInv'
  <2>1. tweens' \in Seq(Tweens) /\ IsInjective(tweens') /\ Range(tweens') = running'
    <3>1. CASE t \in running
      BY <1>0, <1>1, <3>1 DEF Start, TweenTypeOK
    <3>2. CASE t \notin running
      <4>0. tweens \in Seq(Tweens) /\ \A i \in 1..Len(tweens) : tweens[i] # t
        <5>1. tweens \in Seq(Tweens) /\ t \notin Range(tweens)
          BY <1>0, <3>2 DEF TweenTypeOK
        <5> QED
          BY <5>1 DEF Range
      <4>1. ~Contains(tweens, t)
        BY <4>0 DEF Contains
      <4>2. tweens' = Append(tweens, t) /\ running' = running \cup {t}
        BY <1>1, <3>2, <4>1 DEF Start, Added
      <4>3. tweens' \in Seq(Tweens) /\ Range(tweens') = Range(tweens) \cup {t}
        BY <4>0, <4>2, Append1
      <4>4. IsInjective(tweens')
        <5> DEFINE n == Len(tweens)
        <5>1. DOMAIN tweens' = 1..(n + 1) /\ tweens'[n + 1] = t /\ n \in Nat
          BY <4>0, <4>2
        <5>2. \A i \in 1..n : tweens'[i] = tweens[i]
          BY <4>0, <4>2
        <5>5. IsInjective(tweens) /\ DOMAIN tweens = 1..n
          BY <1>0, <4>0 DEF TweenTypeOK
        <5>3. \A i, j \in 1..n : tweens[i] = tweens[j] => i = j
          BY <5>5 DEF IsInjective
        <5> HIDE DEF n
        <5>4. \A i \in 1..(n + 1) : i \in 1..n \/ i = n + 1
          BY <5>1
        <5> QED
          BY <4>0, <5>1, <5>2, <5>3, <5>4 DEF n, IsInjective
      <4> QED
        BY <1>0, <4>2, <4>3, <4>4 DEF TweenTypeOK
    <3> QED
      BY <3>1, <3>2
  <2>2. cycles' \in [Tweens -> Nat] /\ EnterStep(t, 1)
    BY <1>0, <1>1 DEF Start, TweenTypeOK, EnterStep
  <2>3. 1 \in 1..End(t)
    BY StepsType
  <2>4. /\ step' \in [Tweens -> Nat] /\ time' \in [Tweens -> Nat]
        /\ \A u \in Tweens : step'[u] \in 1..End(u)
        /\ WithinStep'
    BY <1>0, <2>2, <2>3, EnterStepWithin
  <2>5. running \subseteq running' /\ running' \subseteq Tweens
    BY <1>0, <1>1 DEF Start, TweenTypeOK
  <2>6. doing' = "calling" => ~AtEnd'
    <3>1. CASE t = current
      BY <1>0, <1>1, <3>1, StepsType DEF Start, AtEnd, TweenTypeOK
    <3>2. CASE t # current
      BY <1>0, <1>1, <3>2 DEF Start, AtEnd, TweenTypeOK, TweenIInv
    <3> QED
      BY <3>1, <3>2
  <2> QED
    BY <1>1, <2>1, <2>2, <2>4, <2>5, <2>6 DEF TweenIInv, Start, TweenTypeOK
<1>2. ASSUME NEW t \in Tweens, Stop(t) PROVE TweenIInv'
  <2>1. /\ tweens' \in Seq(Tweens) /\ IsInjective(tweens') /\ Range(tweens') = running'
        /\ running' = running \ {t} /\ steady' = steady \ {t}
    BY <1>0, <1>2, StopRemoves DEF Stop
  <2> QED
    BY <1>2, <2>1 DEF TweenIInv, AtEnd, WithinStep, Stop, TweenTypeOK
<1>3. CASE StopAll
  <2>1. Range(tweens') = running' /\ IsInjective(tweens') /\ tweens' \in Seq(Tweens) /\ running' = {}
    BY <1>0, <1>3 DEF StopAll, TweenTypeOK, Range, IsInjective
  <2> QED
    BY <1>3, <2>1 DEF TweenIInv, AtEnd, WithinStep, StopAll, TweenTypeOK
<1> QED
  BY <1>1, <1>2, <1>3 DEF Game

-----------------------------------------------------------------------------
(* The pass and the loop of one tween. *)

\* The head of the snapshot is visited or skipped.
LEMMA HeadAndTail ==
    ASSUME NEW S, NEW s \in Seq(S), s # <<>>
    PROVE  /\ Head(s) \in S /\ Tail(s) \in Seq(S)
           /\ Range(s) = {Head(s)} \cup Range(Tail(s))
<1>1. /\ Len(s) \in Nat /\ Len(s) > 0 /\ Head(s) = s[1]
      /\ Tail(s) \in Seq(S) /\ Len(Tail(s)) = Len(s) - 1
      /\ \A i \in 1..(Len(s) - 1) : Tail(s)[i] = s[i + 1]
  OBVIOUS
<1>2. s[1] \in S /\ DOMAIN s = 1..Len(s) /\ DOMAIN Tail(s) = 1..(Len(s) - 1)
  BY <1>1
<1>3. \A i \in 1..Len(s) : i = 1 \/ (i - 1 \in 1..(Len(s) - 1) /\ s[i] = Tail(s)[i - 1])
  BY <1>1
<1>4. \A i \in 1..(Len(s) - 1) : i + 1 \in 1..Len(s)
  BY <1>1
<1>5. 1 \in 1..Len(s)
  BY <1>1
<1>6. ASSUME NEW x \in Range(s) PROVE x \in {Head(s)} \cup Range(Tail(s))
  <2>1. PICK i \in 1..Len(s) : x = s[i]
    BY <1>2 DEF Range
  <2> QED
    BY <1>1, <1>2, <1>3, <2>1 DEF Range
<1>7. ASSUME NEW x \in Range(Tail(s)) PROVE x \in Range(s)
  <2>1. PICK i \in 1..(Len(s) - 1) : x = Tail(s)[i]
    BY <1>2 DEF Range
  <2>2. x = s[i + 1] /\ i + 1 \in DOMAIN s
    BY <1>1, <1>2, <1>4, <2>1
  <2> QED
    BY <2>2 DEF Range
<1>8. Head(s) \in Range(s)
  BY <1>1, <1>2, <1>5 DEF Range
<1> QED
  BY <1>1, <1>2, <1>6, <1>7, <1>8

LEMMA UpdateKeeps == TweenIInv /\ Update => TweenIInv'
<1> SUFFICES ASSUME TweenIInv, Update PROVE TweenIInv'
  OBVIOUS
<1> USE DEF tweenVars, history, Return
<1>0. TweenTypeOK /\ WithinStep
  BY DEF TweenIInv
<1>c. ASSUME doing = "advancing" PROVE [cycles EXCEPT ![current] = @ + 1] \in [Tweens -> Nat]
  <2>1. cycles \in [Tweens -> Nat]
    BY <1>0 DEF TweenTypeOK
  <2>2. current \in Tweens
    BY <1>c DEF TweenIInv
  <2>3. cycles[current] + 1 \in Nat
    BY <2>1, <2>2
  <2> QED
    BY <2>1, <2>3
<1>1. CASE BeginFrame
  <2>1. Range(snapshot') = Range(tweens) /\ steady' = running /\ Range(tweens) = running
    BY <1>0, <1>1 DEF BeginFrame, TweenTypeOK
  <2> QED
    BY <1>1, <2>1 DEF TweenIInv, WithinStep, BeginFrame, TweenTypeOK
<1>2. CASE SkipStopped
  <2>1. snapshot' \in Seq(Tweens) /\ Range(snapshot) = {Head(snapshot)} \cup Range(snapshot')
    BY <1>0, <1>2, HeadAndTail DEF SkipStopped, TweenTypeOK
  <2> QED
    BY <1>2, <2>1 DEF TweenIInv, WithinStep, SkipStopped, TweenTypeOK
<1>3. CASE Visit
  <2>1. /\ Head(snapshot) \in Tweens /\ snapshot' \in Seq(Tweens)
        /\ Range(snapshot) = {Head(snapshot)} \cup Range(snapshot')
    BY <1>0, <1>3, HeadAndTail DEF Visit, TweenTypeOK
  <2> QED
    BY <1>3, <2>1 DEF TweenIInv, WithinStep, Visit, TweenTypeOK
<1>4. CASE EndFrame
  BY <1>4, TweenAssumption DEF TweenIInv, WithinStep, EndFrame, TweenTypeOK
<1>5. CASE Finish
  <2>1. /\ tweens' \in Seq(Tweens) /\ IsInjective(tweens') /\ Range(tweens') = running'
        /\ running' = running \ {current} /\ steady' = steady \ {current}
    BY <1>0, <1>5, StopRemoves DEF Finish, TweenIInv
  <2>2. cycles' \in [Tweens -> Nat] /\ dt' \in 0..MaxStep
    BY <1>5, <1>c, TweenAssumption DEF Finish
  <2> QED
    BY <1>5, <2>1, <2>2 DEF TweenIInv, WithinStep, Finish, TweenTypeOK
<1>6. CASE Pause
  <2>1. cycles' \in [Tweens -> Nat] /\ dt' \in 0..MaxStep
    BY <1>6, <1>c, TweenAssumption DEF Pause
  <2> QED
    BY <1>6, <2>1 DEF TweenIInv, WithinStep, Pause, TweenTypeOK
<1>7. CASE Wrap
  <2>1. cycles' \in [Tweens -> Nat]
    BY <1>7, <1>c DEF Wrap
  <2>2. /\ step' \in [Tweens -> Nat] /\ time' \in [Tweens -> Nat]
        /\ \A u \in Tweens : step'[u] \in 1..End(u)
        /\ WithinStep'
    <3>1. current \in Tweens /\ EnterStep(current, 1)
      BY <1>7 DEF Wrap, TweenIInv
    <3>2. 1 \in 1..End(current)
      BY <3>1, StepsType
    <3> QED
      BY <1>0, <3>1, <3>2, EnterStepWithin
  <2> QED
    BY <1>7, <2>1, <2>2 DEF TweenIInv, Wrap, TweenTypeOK
<1>8. CASE TimedStep
  <2>1. current \in Tweens /\ dt \in Nat /\ dt <= MaxStep /\ MaxStep \in Nat /\ time[current] \in Nat
    BY <1>0, <1>8, TweenAssumption DEF TimedStep, TweenIInv, TweenTypeOK
  <2>2. step[current] \in 1..Len(Steps[current]) /\ Now.duration \in Nat /\ time[current] <= Now.duration
    <3>1. step[current] \in 1..End(current) /\ ~(step[current] > Len(Steps[current]))
      BY <1>0, <1>8, <2>1 DEF TimedStep, AtEnd, TweenTypeOK
    <3>2. step[current] \in 1..Len(Steps[current])
      BY <2>1, <3>1, StepsType
    <3> QED
      BY <1>0, <2>1, <3>2, StepsType DEF Now, WithinStep
  <2>3. CASE time[current] + dt < Now.duration
    <3>1. time' = [time EXCEPT ![current] = @ + dt] /\ step' = step /\ doing' = "visiting" /\ current' = None /\ dt' = 0
      BY <1>8, <2>3 DEF TimedStep
    <3>2. time' \in [Tweens -> Nat]
      BY <1>0, <2>1, <3>1 DEF TweenTypeOK
    <3>3. WithinStep'
      BY SMTT(30), <1>0, <2>1, <2>2, <2>3, <3>1 DEF WithinStep, TweenTypeOK, Now
    <3> QED
      BY <1>8, <2>1, <3>1, <3>2, <3>3 DEF TweenIInv, TimedStep, TweenTypeOK
  <2>4. CASE ~(time[current] + dt < Now.duration)
    <3>1. dt' = time[current] + dt - Now.duration /\ EnterStep(current, step[current] + 1)
      BY <1>8, <2>4 DEF TimedStep, LeftOf
    <3>2. dt' \in 0..MaxStep
      BY <2>1, <2>2, <2>4, <3>1
    <3>3. step[current] + 1 \in 1..End(current)
      BY <2>1, <2>2, StepsType
    <3>4. /\ step' \in [Tweens -> Nat] /\ time' \in [Tweens -> Nat]
          /\ \A u \in Tweens : step'[u] \in 1..End(u)
          /\ WithinStep'
      BY <1>0, <2>1, <3>1, <3>3, EnterStepWithin
    <3>5. doing' = doing /\ current' = current
      BY <1>8, <2>4 DEF TimedStep
    <3> QED
      BY <1>8, <3>2, <3>4, <3>5 DEF TweenIInv, TimedStep, TweenTypeOK
  <2> QED
    BY <2>3, <2>4
<1>9. CASE CallStep
  BY <1>9 DEF TweenIInv, WithinStep, CallStep, AtEnd, TweenTypeOK, passVars
<1>10. CASE CallReturns
  <2>1. CASE current \in running
    <3>1. current \in Tweens /\ EnterStep(current, step[current] + 1)
      BY <1>10, <2>1 DEF CallReturns, TweenIInv
    <3>2. step[current] + 1 \in 1..End(current)
      <4>1. step[current] \in 1..End(current) /\ ~(step[current] > Len(Steps[current]))
        BY <1>0, <1>10, <3>1 DEF CallReturns, AtEnd, TweenIInv, TweenTypeOK
      <4> QED
        BY <3>1, <4>1, StepsType
    <3>3. /\ step' \in [Tweens -> Nat] /\ time' \in [Tweens -> Nat]
          /\ \A u \in Tweens : step'[u] \in 1..End(u)
          /\ WithinStep'
      BY <1>0, <3>1, <3>2, EnterStepWithin
    <3> QED
      BY <1>10, <2>1, <3>3 DEF TweenIInv, CallReturns, TweenTypeOK
  <2>2. CASE current \notin running
    BY <1>10, <2>2, TweenAssumption DEF TweenIInv, WithinStep, CallReturns, TweenTypeOK
  <2> QED
    BY <2>1, <2>2
<1> QED
  BY <1>1, <1>2, <1>3, <1>4, <1>5, <1>6, <1>7, <1>8, <1>9, <1>10 DEF Update

-----------------------------------------------------------------------------
(* The time and the calls before a step. *)

Duration(t, i) == IF Steps[t][i].kind = "timed" THEN Steps[t][i].duration ELSE 0

\* The ticks before a step are finitely many.
LEMMA TicksFinite ==
    ASSUME NEW t \in Tweens, NEW i \in 1..End(t)
    PROVE  /\ IsFiniteSet(TicksBefore(t, i)) /\ TimeBefore(t, i) \in Nat
           /\ \A j \in 1..(i - 1) : Durations(t)[j] = Duration(t, j) /\ Duration(t, j) \in Nat
<1>1. i \in Nat /\ i - 1 \in Int /\ \A j \in 1..(i - 1) : j \in 1..Len(Steps[t])
  BY StepsType
<1>2. DOMAIN Steps[t] = 1..Len(Steps[t])
  <2>1. Steps[t] \in Seq([kind : {"call", "timed"}, duration : Nat])
    BY TweenAssumption
  <2> QED
    BY <2>1
<1>3. ASSUME NEW j \in 1..(i - 1) PROVE Durations(t)[j] = Duration(t, j) /\ Duration(t, j) \in Nat
  BY <1>1, <1>2, StepsType DEF Durations, Duration
<1> DEFINE S == 1..(i - 1)
           f == [j \in S |-> {j} \X (1..Durations(t)[j])]
           T == {f[j] : j \in S}
<1>4. IsFiniteSet(S)
  BY <1>1, FS_Interval
<1>5. f \in [S -> T] /\ \A x \in T : \E j \in S : f[j] = x
  OBVIOUS
<1>6. ASSUME NEW x \in T PROVE IsFiniteSet(x)
  <2>1. PICK j \in S : x = {j} \X (1..Durations(t)[j])
    OBVIOUS
  <2>2. Durations(t)[j] \in Int
    BY <1>3
  <2>3. IsFiniteSet({j})
    BY FS_Singleton, Zenon
  <2> DEFINE d == Durations(t)[j]
  <2>4. d \in Int /\ 1 \in Int
    BY <2>2
  <2> HIDE DEF d
  <2>5. IsFiniteSet(1..d)
    BY <2>4, FS_Interval
  <2> QED
    BY <2>1, <2>3, <2>5, FS_Product DEF d
<1>7. TicksBefore(t, i) = UNION T
  BY DEF TicksBefore
<1> HIDE DEF f, T, S
<1>8. f \in Surjection(S, T)
  BY <1>5, Fun_IsSurj
<1>9. IsFiniteSet(T)
  BY <1>4, <1>8, FS_Surjection
<1>10. IsFiniteSet(TicksBefore(t, i))
  BY <1>6, <1>7, <1>9, FS_UNION
<1> QED
  BY <1>3, <1>10, FS_CardinalityType DEF TimeBefore

\* No time is before the first step, and a timed step adds its own.
LEMMA TimeOfSteps ==
    ASSUME NEW t \in Tweens
    PROVE  /\ TimeBefore(t, 1) = 0
           /\ \A i \in 1..Len(Steps[t]) : TimeBefore(t, i + 1) = TimeBefore(t, i) + Duration(t, i)
<1>1. TimeBefore(t, 1) = 0
  <2>1. TicksBefore(t, 1) = {}
    BY DEF TicksBefore
  <2> QED
    BY <2>1, FS_EmptySet DEF TimeBefore
<1>2. ASSUME NEW i \in 1..Len(Steps[t]) PROVE TimeBefore(t, i + 1) = TimeBefore(t, i) + Duration(t, i)
  <2> DEFINE A == TicksBefore(t, i)
             d == Duration(t, i)
             B == {i} \X (1..d)
  <2>1. i \in 1..End(t) /\ i + 1 \in 1..End(t) /\ i \in Nat
    BY StepsType
  <2>2. IsFiniteSet(A) /\ TimeBefore(t, i) \in Nat
    BY <2>1, TicksFinite
  <2>3. Durations(t)[i] = d /\ d \in Nat
    BY <2>1, TicksFinite
  <2>4. 1..((i + 1) - 1) = 1..(i - 1) \cup {i}
    BY <2>1
  <2> HIDE DEF d
  <2>5. TicksBefore(t, i + 1) = A \cup B
    BY <2>3, <2>4, Zenon DEF TicksBefore
  <2>6. A \cap B = {}
    BY <2>1 DEF TicksBefore
  <2>7. IsFiniteSet({i}) /\ Cardinality({i}) = 1
    BY FS_Singleton, Zenon
  <2>13. d \in Int /\ 1 \in Int
    BY <2>3
  <2>14. IsFiniteSet(1..d) /\ Cardinality(1..d) = d
    BY <2>3, <2>13, FS_Interval
  <2>8. IsFiniteSet(B) /\ Cardinality(B) = 1 * d
    <3>1. \A P, Q : IsFiniteSet(P) /\ IsFiniteSet(Q)
              => IsFiniteSet(P \X Q) /\ Cardinality(P \X Q) = Cardinality(P) * Cardinality(Q)
      BY FS_Product, Zenon
    <3>2. Cardinality(B) = Cardinality({i}) * Cardinality(1..d) /\ IsFiniteSet(B)
      BY <2>7, <2>14, <3>1, ZenonT(60)
    <3> HIDE DEF B
    <3> QED BY <2>7, <2>14, <3>2
  <2> HIDE DEF A, B
  <2>9. Cardinality(A \cup B) = Cardinality(A) + Cardinality(B) - Cardinality(A \cap B)
    BY <2>2, <2>8, FS_Union
  <2>10. Cardinality(A \cap B) = 0
    BY <2>6, FS_EmptySet
  <2>11. Cardinality(A) = TimeBefore(t, i) /\ Cardinality(A \cup B) = TimeBefore(t, i + 1)
    BY <2>5 DEF TimeBefore, A
  <2>12. TimeBefore(t, i + 1) = TimeBefore(t, i) + d
    BY <2>2, <2>3, <2>8, <2>9, <2>10, <2>11
  <2> QED
    BY <2>12 DEF d
<1> QED
  BY <1>1, <1>2

\* No call is before the first step, and one more after a call.
LEMMA CallsOfSteps ==
    ASSUME NEW t \in Tweens
    PROVE  /\ CallsBefore(t, 1) = 0
           /\ \A i \in 1..End(t) : CallsBefore(t, i) \in Nat
           /\ \A i \in 1..Len(Steps[t]) :
                CallsBefore(t, i + 1) = CallsBefore(t, i) + (IF Steps[t][i].kind = "call" THEN 1 ELSE 0)
<1> DEFINE C(i) == {j \in CallSteps(t) : j < i}
<1>1. DOMAIN Steps[t] = 1..Len(Steps[t]) /\ Len(Steps[t]) \in Nat
  <2>1. Steps[t] \in Seq([kind : {"call", "timed"}, duration : Nat])
    BY TweenAssumption
  <2> QED
    BY <2>1
<1>2. IsFiniteSet(1..Len(Steps[t]))
  BY <1>1, FS_Interval
<1>3. ASSUME NEW i PROVE IsFiniteSet(C(i)) /\ Cardinality(C(i)) \in Nat
  <2>1. C(i) \subseteq 1..Len(Steps[t])
    BY <1>1 DEF CallSteps
  <2> HIDE DEF C
  <2> QED
    BY <1>2, <2>1, FS_Subset, FS_CardinalityType
<1>4. CallsBefore(t, 1) = 0
  <2>1. C(1) = {}
    BY <1>1 DEF CallSteps
  <2> QED
    BY <2>1, FS_EmptySet DEF CallsBefore
<1>5. ASSUME NEW i \in 1..Len(Steps[t])
      PROVE  CallsBefore(t, i + 1) = CallsBefore(t, i) + (IF Steps[t][i].kind = "call" THEN 1 ELSE 0)
  <2>1. CASE Steps[t][i].kind = "call"
    <3>1. C(i + 1) = C(i) \cup {i} /\ i \notin C(i)
      BY <1>1, <2>1 DEF CallSteps
    <3> HIDE DEF C
    <3>2. Cardinality(C(i + 1)) = Cardinality(C(i)) + 1
      BY <1>3, <3>1, FS_AddElement
    <3> QED
      BY <2>1, <3>2 DEF C, CallsBefore
  <2>2. CASE Steps[t][i].kind # "call"
    <3>1. C(i + 1) = C(i)
      BY <1>1, <2>2 DEF CallSteps
    <3>2. CallsBefore(t, i + 1) = Cardinality(C(i + 1)) /\ CallsBefore(t, i) = Cardinality(C(i))
      BY DEF CallsBefore
    <3> HIDE DEF C
    <3> QED
      BY <1>3, <2>2, <3>1, <3>2
  <2> QED
    BY <2>1, <2>2
<1>6. \A i \in 1..End(t) : CallsBefore(t, i) \in Nat
  BY <1>3 DEF CallsBefore
<1> QED
  BY <1>4, <1>5, <1>6

-----------------------------------------------------------------------------
(* No time and no call is lost.  The tween that is updated has gone, since the *)
(* last wrap of this update, as far as dt has become less: when dt is the same *)
(* at the end, the cycle took no time.  A tween at its end, or at a call, has  *)
(* no time in it.                                                              *)

Elapsed(t) ==
    elapsed[t] = cycles[t] * TimeBefore(t, End(t)) + TimeBefore(t, step[t]) + time[t]
                 + (IF t = current THEN dt ELSE 0)
Called(t) ==
    called[t] = cycles[t] * CallsBefore(t, End(t)) + CallsBefore(t, step[t])
                + (IF t = current /\ doing = "calling" THEN 1 ELSE 0)
Kept(t) == t \in running /\ TimeBefore(t, End(t)) > 0 => Elapsed(t) /\ Called(t)

Rests(t) == step[t] = End(t) \/ Steps[t][step[t]].kind = "call" => time[t] = 0
Updating == doing \in {"advancing", "calling"}
SinceWrap == Updating /\ wrapped # NeverWrapped => wrapped = dt + time[current] + TimeBefore(current, step[current])

TimeInv ==
    /\ elapsed \in [Tweens -> Nat] /\ called \in [Tweens -> Nat] /\ wrapped \in Nat \cup {NeverWrapped}
    /\ ~Updating => current = None
    /\ doing = "calling" => Steps[current][step[current]].kind = "call"
    /\ SinceWrap
    /\ \A t \in Tweens : Rests(t) /\ Kept(t)

\* The steps of a tween never change.
LEMMA StepsConstant ==
    ASSUME NEW t
    PROVE  /\ TimeBefore(t, step[t])' = TimeBefore(t, step'[t]) /\ TimeBefore(t, End(t))' = TimeBefore(t, End(t))
           /\ CallsBefore(t, step[t])' = CallsBefore(t, step'[t]) /\ CallsBefore(t, End(t))' = CallsBefore(t, End(t))
           /\ TimeBefore(current, step[current])' = TimeBefore(current', step'[current'])
           /\ End(t)' = End(t)
BY DEF TimeBefore, TicksBefore, Durations, CallsBefore, CallSteps, End

\* A tween that a step does not touch.
LEMMA StayKept ==
    ASSUME NEW t \in Tweens, Kept(t), t \in running' => t \in running,
           elapsed'[t] = elapsed[t], called'[t] = called[t], cycles'[t] = cycles[t],
           step'[t] = step[t], time'[t] = time[t],
           (IF t = current' THEN dt' ELSE 0) = (IF t = current THEN dt ELSE 0),
           t = current' /\ doing' = "calling" <=> t = current /\ doing = "calling"
    PROVE  Kept(t)'
<1> SUFFICES ASSUME t \in running', TimeBefore(t, End(t)) > 0 PROVE Elapsed(t)' /\ Called(t)'
  BY StepsConstant DEF Kept
<1>1. Elapsed(t) /\ Called(t)
  BY DEF Kept
<1>2. Elapsed(t)'
  BY <1>1, StepsConstant DEF Elapsed
<1>3. Called(t)'
  BY <1>1, StepsConstant DEF Called
<1> QED
  BY <1>2, <1>3

\* A tween whose counts a step sets.
LEMMA SetKept ==
    ASSUME NEW t \in Tweens,
           t \in running' /\ TimeBefore(t, End(t)) > 0 =>
             /\ elapsed'[t] = cycles'[t] * TimeBefore(t, End(t)) + TimeBefore(t, step'[t]) + time'[t]
                              + (IF t = current' THEN dt' ELSE 0)
             /\ called'[t] = cycles'[t] * CallsBefore(t, End(t)) + CallsBefore(t, step'[t])
                             + (IF t = current' /\ doing' = "calling" THEN 1 ELSE 0)
    PROVE  Kept(t)'
BY StepsConstant DEF Kept, Elapsed, Called

\* What the lemmas on steps say of the step a tween is at.
LEMMA StepAt ==
    ASSUME TweenTypeOK, NEW t \in Tweens
    PROVE  /\ step[t] \in 1..End(t) /\ step[t] \in Nat /\ End(t) \in 1..End(t) /\ End(t) = Len(Steps[t]) + 1
           /\ 1 \in 1..End(t) /\ End(t) # 1
           /\ TimeBefore(t, step[t]) \in Nat /\ TimeBefore(t, End(t)) \in Nat /\ TimeBefore(t, 1) = 0
           /\ CallsBefore(t, step[t]) \in Nat /\ CallsBefore(t, End(t)) \in Nat /\ CallsBefore(t, 1) = 0
           /\ cycles[t] \in Nat /\ time[t] \in Nat
<1>1. step[t] \in 1..End(t) /\ step[t] \in Nat /\ cycles[t] \in Nat /\ time[t] \in Nat
  BY DEF TweenTypeOK
<1>2. End(t) \in 1..End(t) /\ End(t) = Len(Steps[t]) + 1 /\ 1 \in 1..End(t) /\ End(t) # 1
  BY StepsType
<1> QED
  BY <1>1, <1>2, TicksFinite, TimeOfSteps, CallsOfSteps

\* The game starts and stops tweens, no callback its own.
LEMMA GameKeepsTime ==
    ASSUME ~RestartsItself, TweenIInv, TimeInv, Game
    PROVE  TimeInv'
<1> USE DEF passVars, history, Calls
<1>0. TweenTypeOK /\ (Updating => current \in Tweens)
  BY DEF TweenIInv, Updating
<1>1. ASSUME NEW t \in Tweens, Start(t) PROVE TimeInv'
  <2>1. t # current
    BY <1>1 DEF Start
  <2>2. /\ cycles' = [cycles EXCEPT ![t] = 0] /\ step' = [step EXCEPT ![t] = 1] /\ time' = [time EXCEPT ![t] = 0]
        /\ elapsed' = [elapsed EXCEPT ![t] = 0] /\ called' = [called EXCEPT ![t] = 0] /\ running' = running \cup {t}
        /\ UNCHANGED <<doing, current, dt, wrapped>>
    BY <1>1 DEF Start
  <2>3. ASSUME NEW u \in Tweens, u # t PROVE Kept(u)'
    <3>1. /\ Kept(u) /\ elapsed'[u] = elapsed[u] /\ called'[u] = called[u] /\ cycles'[u] = cycles[u]
          /\ step'[u] = step[u] /\ time'[u] = time[u]
      BY <1>0, <2>2, <2>3 DEF TimeInv, TweenTypeOK
    <3> QED
      BY <2>2, <2>3, <3>1, StayKept
  <2>4. Kept(t)'
    <3>1. cycles'[t] = 0 /\ step'[t] = 1 /\ time'[t] = 0 /\ elapsed'[t] = 0 /\ called'[t] = 0
      BY <1>0, <2>2 DEF TimeInv, TweenTypeOK
    <3>2. /\ TimeBefore(t, 1) = 0 /\ TimeBefore(t, End(t)) \in Nat
          /\ CallsBefore(t, 1) = 0 /\ CallsBefore(t, End(t)) \in Nat
      BY <1>0, StepAt
    <3> QED
      BY <2>1, <2>2, <3>1, <3>2, SetKept
  <2>5. SinceWrap'
    <3>1. Updating => time'[current] = time[current] /\ step'[current] = step[current]
      BY <1>0, <2>1, <2>2 DEF TweenTypeOK
    <3>2. Updating' <=> Updating
      BY <2>2 DEF Updating
    <3> QED
      BY <2>2, <3>1, <3>2, StepsConstant DEF TimeInv, SinceWrap
  <2>6. \A u \in Tweens : Rests(u)'
    BY <1>0, <2>2, StepsConstant DEF TimeInv, TweenTypeOK, Rests
  <2>7. \A u \in Tweens : Kept(u)'
    BY <2>3, <2>4
  <2>8. elapsed' \in [Tweens -> Nat] /\ called' \in [Tweens -> Nat]
    BY <2>2 DEF TimeInv
  <2>9. doing' = "calling" => Steps[current'][step'[current']].kind = "call"
    BY <1>0, <2>1, <2>2 DEF TimeInv, TweenTypeOK, Updating
  <2> QED
    BY <2>2, <2>5, <2>6, <2>7, <2>8, <2>9 DEF TimeInv, Updating
<1>2. ASSUME UNCHANGED <<cycles, step, time, doing, current, dt, wrapped, elapsed, called>>, running' \subseteq running
      PROVE  TimeInv'
  <2>1. ASSUME NEW u \in Tweens PROVE Kept(u)'
    <3>1. Kept(u)
      BY DEF TimeInv
    <3> QED
      BY <1>2, <3>1, StayKept
  <2>2. SinceWrap'
    BY <1>2, StepsConstant DEF TimeInv, SinceWrap, Updating
  <2>3. \A u \in Tweens : Rests(u)'
    BY <1>2, StepsConstant DEF TimeInv, Rests
  <2> QED
    BY <1>2, <2>1, <2>2, <2>3 DEF TimeInv, Updating
<1>3. ASSUME NEW t \in Tweens, Stop(t) PROVE TimeInv'
  BY <1>2, <1>3 DEF Stop, Stopped
<1>4. CASE StopAll
  BY <1>2, <1>4 DEF StopAll
<1> QED
  BY <1>1, <1>3, <1>4 DEF Game

\* The update of a tween goes on from step to step and from cycle to cycle.
LEMMA UpdateKeepsTime ==
    ASSUME TweenIInv, TimeInv, Update
    PROVE  TimeInv'
<1> USE DEF tweenVars, history
<1>0. TweenTypeOK /\ (Updating => current \in Tweens) /\ None \notin Tweens
  BY TweenAssumption DEF TweenIInv, Updating
<1>1. /\ elapsed \in [Tweens -> Nat] /\ called \in [Tweens -> Nat] /\ wrapped \in Nat \cup {NeverWrapped}
      /\ ~Updating => current = None
      /\ \A t \in Tweens : Rests(t)
      /\ \A t \in Tweens : Kept(t)
      /\ dt \in Nat /\ frame \in Nat
  <2>1. dt \in Nat /\ frame \in Nat
    BY <1>0 DEF TweenTypeOK
  <2> QED BY <2>1 DEF TimeInv
<1>2. CASE BeginFrame \/ SkipStopped \/ EndFrame
  <2>1. UNCHANGED <<running, cycles, step, time, current, dt, wrapped, elapsed, called>> /\ ~Updating /\ ~Updating'
    BY <1>2 DEF BeginFrame, SkipStopped, EndFrame, Updating
  <2>2. doing # "calling" /\ doing' # "calling"
    BY <2>1 DEF Updating
  <2>3. ASSUME NEW u \in Tweens PROVE Kept(u)'
    BY <1>1, <2>1, <2>2, StayKept
  <2>4. \A t \in Tweens : Rests(t)'
    BY <1>1, <2>1, StepsConstant DEF Rests
  <2> QED
    BY <1>1, <2>1, <2>2, <2>3, <2>4 DEF TimeInv, SinceWrap
<1>3. CASE Visit
  <2>1. PICK u \in Tweens : u = Head(snapshot)
    BY <1>0, <1>3 DEF Visit, TweenTypeOK
  <2>2. /\ doing = "visiting" /\ doing' = "advancing" /\ current' = u /\ dt' = frame /\ wrapped' = NeverWrapped
        /\ elapsed' = [elapsed EXCEPT ![u] = @ + frame] /\ UNCHANGED <<running, cycles, step, time, called>>
    BY <1>3, <2>1 DEF Visit
  <2>3. current = None
    BY <1>1, <2>2 DEF Updating
  <2>4. elapsed' \in [Tweens -> Nat] /\ elapsed'[u] = elapsed[u] + frame /\ elapsed[u] \in Nat
        /\ \A t \in Tweens : t # u => elapsed'[t] = elapsed[t]
    BY <1>1, <2>2
  <2>5. ASSUME NEW t \in Tweens, t # u PROVE Kept(t)'
    BY <1>0, <1>1, <2>2, <2>3, <2>4, <2>5, StayKept
  <2>6. Kept(u)'
    <3>1. u \in running /\ TimeBefore(u, End(u)) > 0 => Elapsed(u) /\ Called(u)
      BY <1>1 DEF Kept
    <3>2. u # current
      BY <1>0, <2>3
    <3> DEFINE x == cycles[u] * TimeBefore(u, End(u))
    <3>3. x \in Nat /\ TimeBefore(u, step[u]) \in Nat /\ time[u] \in Nat
      BY <1>0, StepAt
    <3>4. Elapsed(u) => elapsed'[u] = x + TimeBefore(u, step[u]) + time[u] + frame
      <4>1. Elapsed(u) => elapsed[u] = x + TimeBefore(u, step[u]) + time[u] + 0
        BY <3>2 DEF Elapsed
      <4> HIDE DEF x
      <4> QED
        BY <1>1, <2>4, <3>3, <4>1
    <3>5. Called(u) => called'[u] = cycles'[u] * CallsBefore(u, End(u)) + CallsBefore(u, step'[u]) + 0
      BY <2>2, <3>2 DEF Called
    <3> QED
      BY <2>2, <3>1, <3>4, <3>5, SetKept
  <2>7. \A t \in Tweens : Kept(t)'
    BY <2>5, <2>6
  <2>8. \A t \in Tweens : Rests(t)'
    BY <1>1, <2>2, StepsConstant DEF Rests
  <2> QED
    BY <1>1, <2>2, <2>4, <2>7, <2>8 DEF TimeInv, SinceWrap, Updating
<1>4. ASSUME Updating, NEW t \in Tweens, t # current, current' \in {current, None},
             elapsed'[t] = elapsed[t], called'[t] = called[t], cycles'[t] = cycles[t],
             step'[t] = step[t], time'[t] = time[t], running' \subseteq running
      PROVE  Kept(t)'
  <2>1. t # current' /\ Kept(t)
    BY <1>0, <1>1, <1>4
  <2> QED
    BY <1>4, <2>1, StayKept
<1>5. CASE Updating /\ doing \notin {"idle", "visiting"} /\ (Finish \/ Pause)
  <2>1. PICK u \in Tweens : u = current
    BY <1>0, <1>5
  <2>2. /\ doing = "advancing" /\ step[u] > Len(Steps[u]) /\ cycles' = [cycles EXCEPT ![u] = @ + 1] /\ Return
        /\ running' \subseteq running /\ UNCHANGED <<step, time, elapsed, called>>
    BY <1>5, <2>1 DEF Finish, Pause, Stopped, AtEnd
  <2>3. current' = None /\ doing' = "visiting" /\ wrapped' = NeverWrapped
    BY <2>2 DEF Return
  <2>4. \A t \in Tweens : t # u => cycles'[t] = cycles[t]
    BY <1>0, <2>2 DEF TweenTypeOK
  <2>5. ASSUME NEW t \in Tweens, t # u PROVE Kept(t)'
    BY <1>4, <1>5, <2>1, <2>2, <2>3, <2>4, <2>5
  <2>6. Kept(u)'
    <3>1. CASE Finish
      <4>1. u \notin running'
        BY <2>1, <3>1 DEF Finish, Stopped
      <4> QED
        BY <4>1 DEF Kept
    <3>2. CASE Pause
      <4>1. dt = wrapped
        BY <3>2 DEF Pause
      <4>2. wrapped # NeverWrapped
        BY <1>1, <4>1 DEF NeverWrapped
      <4>3. wrapped = dt + time[u] + TimeBefore(u, step[u])
        BY <1>5, <2>1, <4>2 DEF TimeInv, SinceWrap
      <4>4. time[u] \in Nat /\ TimeBefore(u, step[u]) \in Nat /\ step[u] = End(u)
        BY <1>0, <2>2, StepAt
      <4>5. TimeBefore(u, End(u)) = 0
        BY <1>1, <4>1, <4>3, <4>4
      <4> QED
        BY <4>5, SetKept
    <3> QED
      BY <1>5, <3>1, <3>2
  <2>7. \A t \in Tweens : Kept(t)'
    BY <2>5, <2>6
  <2>8. \A t \in Tweens : Rests(t)'
    BY <1>1, <2>2, StepsConstant DEF Rests
  <2> QED
    BY <1>1, <2>2, <2>3, <2>7, <2>8 DEF TimeInv, SinceWrap, Updating
<1>6. CASE Wrap
  <2>1. PICK u \in Tweens : u = current
    BY <1>0, <1>6 DEF Wrap, Updating
  <2>2. /\ doing = "advancing" /\ step[u] > Len(Steps[u]) /\ cycles' = [cycles EXCEPT ![u] = @ + 1]
        /\ step' = [step EXCEPT ![u] = 1] /\ time' = [time EXCEPT ![u] = 0] /\ wrapped' = dt
        /\ UNCHANGED <<running, doing, current, dt, elapsed, called>>
    BY <1>6, <2>1 DEF Wrap, AtEnd, EnterStep
  <2>3. Updating /\ Updating'
    BY <2>2 DEF Updating
  <2>4. /\ cycles'[u] = cycles[u] + 1 /\ step'[u] = 1 /\ time'[u] = 0
        /\ \A t \in Tweens : t # u => cycles'[t] = cycles[t] /\ step'[t] = step[t] /\ time'[t] = time[t]
    BY <1>0, <2>2 DEF TweenTypeOK
  <2>5. ASSUME NEW t \in Tweens, t # u PROVE Kept(t)'
    BY <1>4, <2>1, <2>2, <2>3, <2>4, <2>5
  <2>9. step[u] = End(u) /\ time[u] = 0
    <3>1. step[u] = End(u)
      <4>1. step[u] \in 1..End(u) /\ End(u) = Len(Steps[u]) + 1 /\ Len(Steps[u]) \in Nat
        BY <1>0, StepAt, StepsType
      <4> QED
        BY <2>2, <4>1
    <3> QED
      BY <1>1, <3>1 DEF Rests
  <2>6. Kept(u)'
    <3>1. u \in running /\ TimeBefore(u, End(u)) > 0 => Elapsed(u) /\ Called(u)
      BY <1>1 DEF Kept
    <3> DEFINE n == TimeBefore(u, End(u))
               m == CallsBefore(u, End(u))
               c == cycles[u]
    <3>2. n \in Nat /\ m \in Nat /\ c \in Nat /\ TimeBefore(u, 1) = 0 /\ CallsBefore(u, 1) = 0
      BY <1>0, StepAt
    <3>3. Elapsed(u) => elapsed[u] = c * n + n + 0 + dt
      BY <2>1, <2>9 DEF Elapsed
    <3>4. Called(u) => called[u] = c * m + m + 0
      BY <2>1, <2>2, <2>9 DEF Called
    <3> HIDE DEF n, m, c
    <3>5. (c + 1) * n = c * n + n /\ (c + 1) * m = c * m + m /\ c * n \in Nat /\ c * m \in Nat
      BY <3>2
    <3>6. Elapsed(u) => elapsed'[u] = (c + 1) * n + 0 + 0 + dt
      BY <1>1, <2>2, <3>2, <3>3, <3>5
    <3>7. Called(u) => called'[u] = (c + 1) * m + 0 + 0
      BY <2>2, <3>2, <3>4, <3>5
    <3> QED
      BY <2>1, <2>2, <2>4, <3>1, <3>2, <3>6, <3>7, SetKept DEF n, m, c
  <2>7. \A t \in Tweens : Kept(t)'
    BY <2>5, <2>6
  <2>8. \A t \in Tweens : Rests(t)'
    BY <1>1, <2>4, StepsConstant DEF Rests
  <2>10. SinceWrap'
    <3>1. TimeBefore(u, 1) = 0
      BY <1>0, StepAt
    <3> QED
      BY <1>1, <2>1, <2>2, <2>4, <3>1, StepsConstant DEF SinceWrap
  <2> QED
    BY <1>1, <2>2, <2>3, <2>7, <2>8, <2>10 DEF TimeInv
<1>7. CASE TimedStep
  <2>1. PICK u \in Tweens : u = current
    BY <1>0, <1>7 DEF TimedStep, Updating
  <2> DEFINE i == step[u]
             d == Steps[u][i].duration
  <2>2. /\ doing = "advancing" /\ ~(i > Len(Steps[u])) /\ Steps[u][i].kind = "timed"
        /\ UNCHANGED <<running, cycles, elapsed, called>>
    BY <1>7, <2>1 DEF TimedStep, AtEnd, Now
  <2>3. Updating
    BY <2>2 DEF Updating
  <2>4. i \in 1..Len(Steps[u]) /\ d \in Nat /\ time[u] \in Nat
    <3>1. i \in 1..End(u) /\ End(u) = Len(Steps[u]) + 1 /\ time[u] \in Nat
      BY <1>0, StepAt
    <3>2. i \in 1..Len(Steps[u])
      BY <2>2, <3>1, StepsType
    <3> QED
      BY <3>1, <3>2, StepsType
  <2>5. /\ TimeBefore(u, i + 1) = TimeBefore(u, i) + d /\ CallsBefore(u, i + 1) = CallsBefore(u, i)
        /\ TimeBefore(u, i) \in Nat /\ CallsBefore(u, i) \in Nat
    <3>1. TimeBefore(u, i + 1) = TimeBefore(u, i) + d
      BY <2>2, <2>4, TimeOfSteps DEF Duration
    <3>2. CallsBefore(u, i + 1) = CallsBefore(u, i) + 0
      BY <2>2, <2>4, CallsOfSteps
    <3>3. TimeBefore(u, i) \in Nat /\ CallsBefore(u, i) \in Nat
      BY <1>0, StepAt
    <3> QED
      BY <3>1, <3>2, <3>3
  <2>6. u \in running /\ TimeBefore(u, End(u)) > 0 => Elapsed(u) /\ Called(u)
    BY <1>1 DEF Kept
  <2> DEFINE x == cycles[u] * TimeBefore(u, End(u))
  <2>7. x \in Nat
    BY <1>0, StepAt
  <2>8. Elapsed(u) => elapsed[u] = x + TimeBefore(u, i) + time[u] + dt
    BY <2>1 DEF Elapsed
  <2>9. Called(u) => called[u] = cycles[u] * CallsBefore(u, End(u)) + CallsBefore(u, i) + 0
    BY <2>2 DEF Called
  <2>10. CASE time[u] + dt < d
    <3>1. time' = [time EXCEPT ![u] = @ + dt] /\ Return /\ step' = step
      BY <1>7, <2>1, <2>10 DEF TimedStep, Now
    <3>2. time'[u] = time[u] + dt /\ \A t \in Tweens : t # u => time'[t] = time[t]
      BY <1>0, <3>1 DEF TweenTypeOK
    <3>3. current' = None /\ doing' = "visiting" /\ wrapped' = NeverWrapped
      BY <3>1 DEF Return
    <3>4. ASSUME NEW t \in Tweens, t # u PROVE Kept(t)'
      BY <1>4, <2>1, <2>2, <2>3, <3>1, <3>2, <3>3, <3>4
    <3>5. Kept(u)'
      <4>1. Elapsed(u) => elapsed'[u] = x + TimeBefore(u, step'[u]) + time'[u] + 0
        <5> HIDE DEF x
        <5> QED
          BY <1>1, <2>2, <2>4, <2>5, <2>7, <2>8, <3>1, <3>2, SMTT(40)
      <4>2. Called(u) => called'[u] = cycles'[u] * CallsBefore(u, End(u)) + CallsBefore(u, step'[u]) + 0
        BY <2>2, <2>9, <3>1
      <4>3. u # current' /\ cycles'[u] = cycles[u] /\ u \in running' => u \in running
        BY <1>0, <2>2, <3>3
      <4>4. u # current' /\ cycles'[u] = cycles[u] /\ (u \in running' => u \in running)
        BY <1>0, <2>2, <3>3
      <4> QED
        BY <2>6, <4>1, <4>2, <4>4, SetKept
    <3>6. \A t \in Tweens : Kept(t)'
      BY <3>4, <3>5
    <3>7. \A t \in Tweens : Rests(t)'
      <4>1. step'[u] # End(u) /\ Steps[u][step'[u]].kind # "call"
        BY <2>2, <2>4, <3>1, StepsType
      <4> QED
        BY <1>1, <3>1, <3>2, <4>1, StepsConstant DEF Rests
    <3> QED
      BY <1>1, <2>2, <3>3, <3>6, <3>7 DEF TimeInv, SinceWrap, Updating
  <2>11. CASE ~(time[u] + dt < d)
    <3>1. /\ dt' = time[u] + dt - d /\ step' = [step EXCEPT ![u] = i + 1] /\ time' = [time EXCEPT ![u] = 0]
          /\ UNCHANGED <<doing, current, wrapped>>
      BY <1>7, <2>1, <2>11 DEF TimedStep, Now, LeftOf, EnterStep
    <3>2. /\ step'[u] = i + 1 /\ time'[u] = 0
          /\ \A t \in Tweens : t # u => step'[t] = step[t] /\ time'[t] = time[t]
      BY <1>0, <3>1 DEF TweenTypeOK
    <3>3. ASSUME NEW t \in Tweens, t # u PROVE Kept(t)'
      BY <1>4, <2>1, <2>2, <2>3, <3>1, <3>2, <3>3
    <3>4. Kept(u)'
      <4>1. Elapsed(u) => elapsed'[u] = x + TimeBefore(u, step'[u]) + time'[u] + dt'
        <5> HIDE DEF x, i, d
        <5> QED
          BY <1>1, <2>2, <2>4, <2>5, <2>7, <2>8, <3>1, <3>2, SMTT(40)
      <4>2. Called(u) => called'[u] = cycles'[u] * CallsBefore(u, End(u)) + CallsBefore(u, step'[u]) + 0
        BY <2>2, <2>5, <2>9, <3>2
      <4>3. u = current' /\ cycles'[u] = cycles[u] /\ (u \in running' => u \in running) /\ doing' # "calling"
        BY <2>1, <2>2, <3>1
      <4> QED
        BY <2>6, <4>1, <4>2, <4>3, SetKept
    <3>5. \A t \in Tweens : Kept(t)'
      BY <3>3, <3>4
    <3>6. \A t \in Tweens : Rests(t)'
      BY <1>1, <3>2, StepsConstant DEF Rests
    <3>7. SinceWrap'
      <4>1. wrapped # NeverWrapped => wrapped = dt + time[u] + TimeBefore(u, i)
        BY <2>1, <2>3 DEF TimeInv, SinceWrap
      <4>2. dt + time[u] + TimeBefore(u, i) = dt' + 0 + TimeBefore(u, i + 1)
        <5> HIDE DEF i, d
        <5>1. dt \in Nat /\ time[u] \in Nat /\ d \in Nat
          BY <1>1, <2>4
        <5>2. dt' = time[u] + dt - d
          BY <3>1
        <5> QED
          BY ONLY <2>5, <5>1, <5>2
      <4>3. wrapped' # NeverWrapped => wrapped' = dt' + time'[current'] + TimeBefore(current', step'[current'])
        BY <2>1, <3>1, <3>2, <4>1, <4>2
      <4> QED
        BY <4>3, StepsConstant DEF SinceWrap
    <3>8. Updating'
      BY <2>2, <3>1 DEF Updating
    <3> QED
      BY <1>1, <2>2, <3>1, <3>5, <3>6, <3>7, <3>8 DEF TimeInv
  <2> QED
    BY <2>10, <2>11
<1>8. CASE CallStep
  <2>1. PICK u \in Tweens : u = current
    BY <1>0, <1>8 DEF CallStep, Updating
  <2>2. /\ doing = "advancing" /\ doing' = "calling" /\ called' = [called EXCEPT ![u] = @ + 1]
        /\ UNCHANGED <<running, cycles, step, time, current, dt, wrapped, elapsed>>
    BY <1>8, <2>1 DEF CallStep, passVars
  <2>3. Updating /\ Updating'
    BY <2>2 DEF Updating
  <2>4. /\ called' \in [Tweens -> Nat] /\ called[u] \in Nat /\ called'[u] = called[u] + 1
        /\ \A t \in Tweens : t # u => called'[t] = called[t]
    BY <1>1, <2>2
  <2>5. ASSUME NEW t \in Tweens, t # u PROVE Kept(t)'
    BY <1>4, <2>1, <2>2, <2>3, <2>4, <2>5
  <2>6. Kept(u)'
    <3>1. u \in running /\ TimeBefore(u, End(u)) > 0 => Elapsed(u) /\ Called(u)
      BY <1>1 DEF Kept
    <3> DEFINE y == cycles[u] * CallsBefore(u, End(u))
    <3>2. y \in Nat /\ CallsBefore(u, step[u]) \in Nat
      BY <1>0, StepAt
    <3>3. Called(u) => called[u] = y + CallsBefore(u, step[u]) + 0
      BY <2>2 DEF Called
    <3> HIDE DEF y
    <3>4. Called(u) => called'[u] = y + CallsBefore(u, step[u]) + 1
      BY <2>4, <3>2, <3>3
    <3>5. Elapsed(u) => elapsed'[u] = cycles'[u] * TimeBefore(u, End(u)) + TimeBefore(u, step'[u]) + time'[u] + dt'
      BY <2>1, <2>2 DEF Elapsed
    <3> QED
      BY <2>1, <2>2, <3>1, <3>4, <3>5, SetKept DEF y
  <2>7. \A t \in Tweens : Kept(t)'
    BY <2>5, <2>6
  <2>8. \A t \in Tweens : Rests(t)'
    BY <1>1, <2>2, StepsConstant DEF Rests
  <2>9. SinceWrap'
    BY <2>2, <2>3, StepsConstant DEF TimeInv, SinceWrap
  <2>10. Steps[current'][step'[current']].kind = "call"
    BY <1>8, <2>2 DEF CallStep, Now
  <2> QED
    BY <1>1, <2>2, <2>3, <2>4, <2>7, <2>8, <2>9, <2>10 DEF TimeInv
<1>9. CASE CallReturns
  <2>1. PICK u \in Tweens : u = current
    BY <1>0, <1>9 DEF CallReturns, Updating
  <2>2. doing = "calling" /\ UNCHANGED <<running, cycles, elapsed, called>>
    BY <1>9 DEF CallReturns
  <2>3. Updating
    BY <2>2 DEF Updating
  <2>4. CASE u \in running
    <3> DEFINE i == step[u]
    <3>1. /\ doing' = "advancing" /\ step' = [step EXCEPT ![u] = i + 1] /\ time' = [time EXCEPT ![u] = 0]
          /\ UNCHANGED <<current, dt, wrapped>>
      BY <1>9, <2>1, <2>4 DEF CallReturns, EnterStep
    <3>2. /\ step'[u] = i + 1 /\ time'[u] = 0
          /\ \A t \in Tweens : t # u => step'[t] = step[t] /\ time'[t] = time[t]
      BY <1>0, <3>1 DEF TweenTypeOK
    <3>3. ASSUME NEW t \in Tweens, t # u PROVE Kept(t)'
      BY <1>4, <2>1, <2>2, <2>3, <3>1, <3>2, <3>3
    <3>4. i \in 1..Len(Steps[u]) /\ Steps[u][i].kind = "call" /\ time[u] = 0
      <4>1. i \in 1..End(u) /\ End(u) = Len(Steps[u]) + 1 /\ Len(Steps[u]) \in Nat
        BY <1>0, StepAt, StepsType
      <4>2. ~(i > Len(Steps[u]))
        BY <2>1, <2>2 DEF TweenIInv, AtEnd
      <4>3. Steps[u][i].kind = "call"
        BY <2>1, <2>2 DEF TimeInv
      <4>4. time[u] = 0
        BY <1>1, <4>3 DEF Rests
      <4> QED
        BY <4>1, <4>2, <4>3, <4>4
    <3>5. /\ TimeBefore(u, i + 1) = TimeBefore(u, i) /\ CallsBefore(u, i + 1) = CallsBefore(u, i) + 1
          /\ TimeBefore(u, i) \in Nat /\ CallsBefore(u, i) \in Nat
      <4>1. TimeBefore(u, i + 1) = TimeBefore(u, i) + 0
        BY <3>4, TimeOfSteps DEF Duration
      <4>2. CallsBefore(u, i + 1) = CallsBefore(u, i) + 1
        BY <3>4, CallsOfSteps
      <4>3. TimeBefore(u, i) \in Nat /\ CallsBefore(u, i) \in Nat
        BY <1>0, StepAt
      <4> QED
        BY <4>1, <4>2, <4>3
    <3>6. Kept(u)'
      <4>1. u \in running /\ TimeBefore(u, End(u)) > 0 => Elapsed(u) /\ Called(u)
        BY <1>1 DEF Kept
      <4> DEFINE y == cycles[u] * CallsBefore(u, End(u))
      <4>2. y \in Nat
        BY <1>0, StepAt
      <4>3. Called(u) => called[u] = y + CallsBefore(u, i) + 1
        BY <2>1, <2>2 DEF Called
      <4> HIDE DEF y
      <4>4. Called(u) => called'[u] = y + CallsBefore(u, step'[u]) + 0
        BY <2>2, <3>2, <3>5, <4>2, <4>3
      <4>5. Elapsed(u) => elapsed'[u] = cycles'[u] * TimeBefore(u, End(u)) + TimeBefore(u, step'[u]) + time'[u] + dt'
        BY <2>1, <2>2, <3>1, <3>2, <3>4, <3>5 DEF Elapsed
      <4> QED
        BY <2>1, <2>2, <3>1, <4>1, <4>4, <4>5, SetKept DEF y
    <3>7. \A t \in Tweens : Kept(t)'
      BY <3>3, <3>6
    <3>8. \A t \in Tweens : Rests(t)'
      BY <1>1, <3>2, StepsConstant DEF Rests
    <3>9. SinceWrap'
      BY <2>1, <2>3, <3>1, <3>2, <3>4, <3>5, StepsConstant DEF TimeInv, SinceWrap
    <3>10. Updating'
      BY <3>1 DEF Updating
    <3> QED
      BY <1>1, <2>2, <3>1, <3>7, <3>8, <3>9, <3>10 DEF TimeInv
  <2>5. CASE u \notin running
    <3>1. Return /\ step' = step /\ time' = time
      BY <1>9, <2>1, <2>5 DEF CallReturns
    <3>2. current' = None /\ doing' = "visiting" /\ wrapped' = NeverWrapped
      BY <3>1 DEF Return
    <3>3. ASSUME NEW t \in Tweens, t # u PROVE Kept(t)'
      BY <1>4, <2>1, <2>2, <2>3, <3>1, <3>2, <3>3
    <3>4. Kept(u)'
      BY <2>2, <2>5 DEF Kept
    <3>5. \A t \in Tweens : Kept(t)'
      BY <3>3, <3>4
    <3>6. \A t \in Tweens : Rests(t)'
      BY <1>1, <3>1, StepsConstant DEF Rests
    <3> QED
      BY <1>1, <2>2, <3>2, <3>5, <3>6 DEF TimeInv, SinceWrap, Updating
  <2> QED
    BY <2>4, <2>5
<1>10. CASE Finish \/ Pause
  <2>1. Updating /\ doing \notin {"idle", "visiting"}
    BY <1>10 DEF Finish, Pause, Updating
  <2> QED
    BY <1>5, <1>10, <2>1
<1> QED
  BY <1>2, <1>3, <1>6, <1>7, <1>8, <1>9, <1>10 DEF Update

-----------------------------------------------------------------------------

\* TweenIInv is inductive.
LEMMA NextIInv == TweenIInv /\ [TweenNext]_allVars => TweenIInv'
<1>1. TweenIInv /\ UNCHANGED allVars => TweenIInv'
  BY DEF allVars, tweenVars, passVars, history, TweenIInv, WithinStep, AtEnd, TweenTypeOK
<1> QED
  BY <1>1, GameKeeps, UpdateKeeps DEF TweenNext

\* And so, with TweenIInv, is TimeInv.
LEMMA InitTime == TweenInit => TimeInv
<1> SUFFICES ASSUME TweenInit PROVE TimeInv
  OBVIOUS
<1>1. /\ elapsed \in [Tweens -> Nat] /\ called \in [Tweens -> Nat] /\ wrapped = NeverWrapped
      /\ doing = "idle" /\ current = None /\ running = {} /\ \A t \in Tweens : time[t] = 0
  BY DEF TweenInit
<1> QED
  BY <1>1 DEF TimeInv, Updating, SinceWrap, Rests, Kept

LEMMA NextTime == ASSUME ~RestartsItself PROVE TweenIInv /\ TimeInv /\ [TweenNext]_allVars => TimeInv'
<1> SUFFICES ASSUME TweenIInv, TimeInv, [TweenNext]_allVars PROVE TimeInv'
  OBVIOUS
<1>1. CASE UNCHANGED allVars
  <2>1. UNCHANGED <<running, cycles, step, time, doing, current, dt, wrapped, elapsed, called>>
    BY <1>1 DEF allVars, tweenVars, passVars, history
  <2>2. ASSUME NEW t \in Tweens PROVE Rests(t)' /\ Kept(t)'
    <3>1. Rests(t) /\ Kept(t)
      BY DEF TimeInv
    <3>2. Kept(t)'
      BY <2>1, <3>1, StayKept
    <3> QED
      BY <2>1, <3>1, <3>2, StepsConstant DEF Rests
  <2>3. SinceWrap'
    BY <2>1, StepsConstant DEF TimeInv, SinceWrap, Updating
  <2> QED
    BY <2>1, <2>2, <2>3 DEF TimeInv, Updating
<1> QED
  BY <1>1, GameKeepsTime, UpdateKeepsTime DEF TweenNext

-----------------------------------------------------------------------------

\* The system has exactly the running tweens, each once, and a tween that runs
\* through a frame is updated in it, whatever the callbacks start and stop
\* (TweenSystem::update).
THEOREM UpdatedOnceAlways == TweenSpec => []UpdatedOnce
<1>1. TweenIInv => UpdatedOnce
  <2> SUFFICES ASSUME TweenIInv, doing = "visiting", snapshot = <<>> PROVE steady \subseteq updated
    BY DEF TweenIInv, UpdatedOnce
  <2>1. Range(snapshot) = {}
    BY DEF Range
  <2> QED
    BY <2>1 DEF TweenIInv
<1> QED
  BY TweenInitIInv, NextIInv, <1>1, PTL DEF TweenSpec

\* No time is lost and none counted twice where a step or a cycle ends, and
\* every call of a cycle is made once, as long as no callback starts the tween
\* it belongs to (Tween::update, Tween::enterStep).
THEOREM ProgressKeptAlways == ASSUME ~RestartsItself PROVE TweenSpec => []ProgressKept
<1>1. TweenIInv /\ TimeInv => ProgressKept
  <2> SUFFICES ASSUME TweenIInv, TimeInv, NEW t \in running, TimeBefore(t, End(t)) > 0
               PROVE  Elapsed(t) /\ Called(t)
    BY DEF ProgressKept, Elapsed, Called
  <2>1. t \in Tweens
    BY DEF TweenIInv, TweenTypeOK
  <2> QED
    BY <2>1 DEF TimeInv, Kept
<1>2. TweenIInv /\ TimeInv /\ [TweenNext]_allVars => TweenIInv' /\ TimeInv'
  BY NextIInv, NextTime
<1>3. TweenInit => TweenIInv /\ TimeInv
  BY TweenInitIInv, InitTime
<1> QED
  BY <1>1, <1>2, <1>3, PTL DEF TweenSpec
=============================================================================
