------------------------ MODULE ComponentLifecycleProofs ------------------------
(* Theorems about ComponentLifecycle, for any numbers of nodes and components *)
(* and any bounds on calls: between calls flags, lists and tree agree and no  *)
(* pointer is to a deleted component, if the game calls what CallsSafely      *)
(* says; every component sees its hooks in the order ComponentLife promises,  *)
(* if it calls what CallsInOrder says.                                        *)
EXTENDS ComponentLifecycle, FiniteSetTheorems, TLAPS
-----------------------------------------------------------------------------
(* The inductive invariant.  What the flags say of a node or a component may  *)
(* differ from the tree while a call in progress is about to make it agree;   *)
(* each part names the frames that excuse a difference, and MayBeAbove says   *)
(* which calls can be made from within which others.                         *)

Frames == Range(stack)

Phases == {"scene", "starting", "updating", "logic", "lateUpdating"}
Activations == {"activating", "activatingChildren"}
Deactivations == {"deactivatingChildren", "deactivating"}
NodeCalls == Activations \cup Deactivations
CompCalls == {"onLoad", "onEnable", "onDisable", "removing", "onDestroy"}
Runs == {"start", "update", "lateUpdate"}
CallsOff == Deactivations \cup {"onDisable"}

FrameTypes ==
    [at : Phases \cup NodeCalls \cup CompCalls \cup Runs, node : Nodes \cup {Nothing}, comp : Comps \cup {Nothing},
     i : Nat, n : Nat, batch : Seq(Comps), used : Nat]

\* The component is in such a call; the node is being deactivated.
In(at, c) == \E f \in Frames : f.at = at /\ f.comp = c
GoesOff(node) == \E f \in Frames : f.at \in Deactivations /\ f.node = node

\* What was switched off, as far as onEnabled and inHierarchy will soon say.
IsOn(c) == c \in onEnabled /\ ~In("onDisable", c)
IsOff(node) == node \in inHierarchy => GoesOff(node)

\* The tree: the two ends of each link agree.
Tree ==
    /\ parent \in [Nodes -> {Root, Nothing}] /\ parent[Root] = Nothing
    /\ children \in [Nodes -> Seq(Nodes)] /\ comps \in [Nodes -> Seq(Comps)]
    /\ nodeOf \in [Comps -> Nodes \cup {Nothing}]
    /\ active \subseteq Nodes /\ inHierarchy \subseteq Nodes /\ doomed \subseteq Nodes \ {Root}
    /\ active \cap doomed = {}
    /\ enabled \subseteq Comps /\ alive \subseteq created /\ created \subseteq Comps
    /\ \A node \in Nodes : IsInjective(children[node]) /\ IsInjective(comps[node])
    /\ \A node \in Nodes \ {Root} : children[node] = <<>>
    /\ \A node \in Range(children[Root]) : parent[node] = Root
    /\ \A node \in Nodes \ doomed : parent[node] = Root => node \in Range(children[Root])
    /\ \A c \in alive : nodeOf[c] \in Nodes /\ c \in Range(comps[nodeOf[c]])
    /\ \A node \in Nodes : \A c \in Range(comps[node]) : c \in alive /\ nodeOf[c] = node

Flags ==
    /\ onLoaded \subseteq created /\ startCalled \subseteq created
    /\ onEnabled \subseteq alive /\ onEnabled \subseteq onLoaded
    /\ startQueue \in Seq(Comps)
    /\ lists \in [Passes -> [now : Seq(Comps), add : Seq(Comps), remove : Seq(Comps)]]
    /\ life \in [Comps -> [stage : Stages, started : BOOLEAN, broken : BOOLEAN]]

\* g calls, directly or not, f: of the nodes g switches, or whose component it
\* switches, and their parents f switches none.
MayBeAbove(f, g, up, of) ==
    /\ f.at \notin Phases
    /\ f.at = "start" => g.at = "starting" /\ g.i <= g.n /\ f.comp = g.batch[g.i]
    /\ f.at \in Passes => g.at = LoopOf(f.at)
    /\ f.at \in {"removing", "onDestroy"} => g.at \in {"scene", "logic"}
    /\ g.at \in CallsOff \cup {"start"} => f.at \in CallsOff
    /\ g.at = "starting" => f.at \in CallsOff \cup {"start"}
    /\ f.at \in NodeCalls /\ g.at \in NodeCalls => f.node # g.node /\ f.node # up[g.node]
    /\ f.at \in NodeCalls /\ g.at \in CompCalls => f.node # of[g.comp] /\ f.node # up[of[g.comp]]
    /\ f.at \in CompCalls /\ g.at \in CompCalls /\ f.comp = g.comp => f.at = "onDisable" /\ g.at = "removing"

Nested(s, up, of) ==
    /\ s # <<>> /\ s[Len(s)].at \in Phases
    /\ \A j, k \in DOMAIN s : j < k => MayBeAbove(s[j], s[k], up, of)

Stacked == stack \in Seq(FrameTypes) /\ Nested(stack, parent, nodeOf)

\* The places of a loop that are still to come, and those it has been through.
Rest(f, list) == {list[k] : k \in f.i .. f.n}
Been(f, list) == {list[k] : k \in 1 .. f.i - 1}

FrameTyped(f) ==
    /\ f.i >= 1 /\ f.i <= f.n + 1
    /\ f.at \in NodeCalls => f.node \in Nodes
    /\ f.at \notin NodeCalls => f.node = Nothing
    /\ f.at \in CompCalls \cup Runs => f.comp \in alive
    /\ f.at \notin CompCalls \cup Runs => f.comp = Nothing

NodeCallOK(f) ==
    /\ f.at \in Activations => f.node \in inHierarchy
    /\ f.at = "activating" => f.n <= Len(comps[f.node])
    /\ f.at = "activatingChildren" => f.n <= Len(children[f.node])
    /\ f.at = "deactivatingChildren" =>
          f.n = Len(children[f.node]) /\ \A child \in Been(f, children[f.node]) : IsOff(child)
    /\ f.at = "deactivating" =>
          /\ f.n = Len(comps[f.node]) /\ \A c \in Been(f, comps[f.node]) : ~IsOn(c)
          /\ \A child \in Nodes : parent[child] = f.node => IsOff(child)

CompCallOK(f) ==
    /\ f.at \in {"onLoad", "onEnable"} => nodeOf[f.comp] \in inHierarchy
    /\ f.at = "onLoad" => f.comp \notin onLoaded
    /\ f.at = "onEnable" => f.comp \in (onLoaded \cap enabled) \ onEnabled
    /\ f.at = "onDisable" => f.comp \in onEnabled
    /\ f.at \in {"removing", "onDestroy"} => ~IsOn(f.comp)

PhaseOK(f) ==
    /\ f.at = "starting" => startQueue = <<>> /\ f.n = Len(f.batch) /\ Rest(f, f.batch) \subseteq alive
    /\ f.at = "updating" => f.n = Len(lists["update"].now) /\ Range(lists["update"].now) \subseteq startCalled
    /\ f.at = "lateUpdating" => f.n = Len(lists["lateUpdate"].now)

FrameOK(f) == FrameTyped(f) /\ NodeCallOK(f) /\ CompCallOK(f) /\ PhaseOK(f)

FramesOK == \A f \in Frames : FrameTyped(f) /\ NodeCallOK(f) /\ CompCallOK(f) /\ PhaseOK(f)

\* A node that is active in the hierarchy should be, or is being deactivated...
NodesOn ==
    \A node \in inHierarchy \ {Root} :
        GoesOff(node) \/ (node \in active /\ parent[node] = Root /\ Root \in inHierarchy)

\* ... and one that should be is, or its parent is being switched.
WillSwitch(f, node) ==
    \/ f.at = "activating" \/ f.at \in Deactivations
    \/ f.at = "activatingChildren" /\ node \in Rest(f, children[Root])

NodesOff ==
    \A node \in active \ {Root} :
        parent[node] = Root /\ Root \in inHierarchy =>
            \/ node \in inHierarchy /\ ~GoesOff(node)
            \/ \E f \in Frames : f.node = Root /\ WillSwitch(f, node)

\* The same of components.
CompsOn == \A c \in Comps : IsOn(c) => EnabledInHierarchy(c)

Excuses(f, c) ==
    \/ f.at \in {"onLoad", "onEnable", "removing", "onDestroy"} /\ f.comp = c
    \/ f.at = "activating" /\ f.node = nodeOf[c] /\ c \in Rest(f, comps[f.node])
    \/ f.at = "deactivating" /\ f.node = nodeOf[c]

CompsOff == \A c \in alive : EnabledInHierarchy(c) => IsOn(c) \/ \E f \in Frames : Excuses(f, c)

\* The lists of a pass, with its pending changes.
Scheduled(list) == (Range(list.now) \cup Range(list.add)) \ Range(list.remove)

Lists ==
    \A hook \in Passes :
        /\ IsInjective(lists[hook].now) /\ IsInjective(lists[hook].add)
        /\ Range(lists[hook].remove) \subseteq alive
        /\ Range(lists[hook].add) \cap Range(lists[hook].remove) = {}
        /\ ~InPass => lists[hook].add = <<>> /\ lists[hook].remove = <<>>
        /\ \A c \in Comps : c \in Scheduled(lists[hook]) <=> c \in Wants[hook] /\ IsOn(c)

\* The queue of starts, and what is left of the batch.
Waits(c) == c \in Range(startQueue) \/ \E f \in Frames : f.at = "starting" /\ c \in Rest(f, f.batch)

Queue ==
    /\ \A c \in Comps : IsOn(c) /\ c \notin startCalled => Waits(c)
    /\ \A c \in Range(startQueue) : IsOn(c) /\ c \notin startCalled

\* What each component has been told is what the flags and the calls say, and in
\* order, if CallsInOrder; lateUpdate may be told early otherwise.
Lives ==
    \A c \in Comps :
        /\ CallsInOrder => ~life[c].broken
        /\ life[c].stage = "on" <=> IsOn(c) \/ In("onEnable", c)
        /\ life[c].stage = "gone" => c \in created /\ (c \notin alive \/ In("onDestroy", c))
        /\ life[c].stage # "gone" => (life[c].stage = "new" <=> c \notin onLoaded /\ ~In("onLoad", c))
        /\ life[c].started <=> c \in startCalled \/ In("start", c)

IInv == Tree /\ Flags /\ Stacked /\ FramesOK /\ NodesOn /\ NodesOff /\ CompsOn /\ CompsOff /\ Lists /\ Queue /\ Lives

\* From the end of the starts to lateUpdate nothing is switched on, so that nothing
\* waits for a start; then the pass is of components that were started.
Ats == {f.at : f \in Frames}
Late == Ats \cap {"updating", "logic"} # {}
LateCalls == {"updating", "logic", "update", "removing", "onDestroy"} \cup CallsOff

LateReady ==
    /\ Late => startQueue = <<>> /\ Ats \subseteq LateCalls
    /\ "lateUpdating" \in Ats => Range(lists["lateUpdate"].now) \subseteq startCalled
-----------------------------------------------------------------------------
(* Lists: what AddUnique, Without and Applied keep. *)

LEMMA PlacesFinite ==
    ASSUME NEW n \in Nat, NEW P, P \subseteq 1 .. n
    PROVE  /\ IsFiniteSet(P) /\ Cardinality(P) \in Nat
           /\ \A k \in P : Rank(P, k) \in 1 .. Cardinality(P)
  <1>1. IsFiniteSet(P) /\ Cardinality(P) \in Nat
    <2>1. P \in SUBSET (1 .. n) /\ 1 \in Int /\ n \in Int
      OBVIOUS
    <2> QED
      BY <2>1, FS_Interval, FS_Subset, FS_CardinalityType
  <1>2. ASSUME NEW k \in P
        PROVE  Rank(P, k) \in 1 .. Cardinality(P)
    <2> DEFINE Q == {j \in P : j <= k}
    <2>1. Q \in SUBSET P /\ k \in Q
      BY <1>2
    <2> HIDE DEF Q
    <2>2. IsFiniteSet(Q) /\ Cardinality(Q) \in Nat /\ Cardinality(Q) <= Cardinality(P)
      BY <1>1, <2>1, FS_Subset, FS_CardinalityType
    <2>3. Cardinality(Q) # 0
      BY <2>1, <2>2, FS_EmptySet
    <2>4. Cardinality(Q) \in 1 .. Cardinality(P)
      BY <1>1, <2>2, <2>3
    <2> QED
      BY <2>4 DEF Rank, Q
  <1> QED
    BY <1>1, <1>2

LEMMA RanksDiffer ==
    ASSUME NEW n \in Nat, NEW P, P \subseteq 1 .. n, NEW j \in P, NEW k \in P, Rank(P, j) = Rank(P, k)
    PROVE  j = k
  <1>1. ASSUME NEW x \in P, NEW y \in P, x < y
        PROVE  Rank(P, x) # Rank(P, y)
    <2> DEFINE X == {i \in P : i <= x}
               Y == {i \in P : i <= y}
    <2>1. X \in SUBSET Y /\ Y \in SUBSET P /\ y \in Y /\ y \notin X
      <3>1. x \in Nat /\ y \in Nat /\ \A i \in P : i \in Nat
        OBVIOUS
      <3>2. (\A i \in P : i <= x => i <= y) /\ y <= y /\ ~(y <= x)
        BY <1>1, <3>1
      <3> QED
        BY <1>1, <3>2
    <2>2. IsFiniteSet(P)
      BY PlacesFinite
    <2> HIDE DEF X, Y
    <2>3. IsFiniteSet(Y)
      BY <2>1, <2>2, FS_Subset
    <2>4. Cardinality(X) # Cardinality(Y)
      BY <2>1, <2>3, FS_Subset
    <2> QED
      BY <2>4 DEF Rank, X, Y
  <1>2. j \in Nat /\ k \in Nat
    OBVIOUS
  <1> QED
    BY <1>1, <1>2

LEMMA RanksOnto ==
    ASSUME NEW n \in Nat, NEW P, P \subseteq 1 .. n, NEW r \in 1 .. Cardinality(P)
    PROVE  \E k \in P : Rank(P, k) = r
  <1> DEFINE T == 1 .. Cardinality(P)
             f == [k \in P |-> Rank(P, k)]
  <1>1. Cardinality(P) \in Nat /\ \A k \in P : Rank(P, k) \in T
    BY PlacesFinite
  <1>2. f \in [P -> T]
    BY <1>1
  <1>3. \A j, k \in P : f[j] = f[k] => j = k
    BY RanksDiffer
  <1>4. IsFiniteSet(T) /\ Cardinality(T) = Cardinality(P)
    BY <1>1, FS_Interval
  <1> HIDE DEF T
  <1>5. f \in Injection(P, T)
    BY <1>2, <1>3 DEF Injection, IsInjective
  <1> HIDE DEF f
  <1>6. f \in Surjection(P, T)
    BY <1>4, <1>5, FS_Injection
  <1>7. \E k \in P : f[k] = r
    BY <1>6 DEF Surjection, T
  <1> QED
    BY <1>7 DEF f

LEMMA WithoutFacts ==
    ASSUME NEW S, NEW list \in Seq(S), NEW gone
    PROVE  /\ Without(list, gone) \in Seq(S)
           /\ Range(Without(list, gone)) = Range(list) \ gone
           /\ IsInjective(list) => IsInjective(Without(list, gone))
  <1> DEFINE P == {k \in DOMAIN list : list[k] \notin gone}
             s == Without(list, gone)
             at(r) == CHOOSE k \in P : Rank(P, k) = r
  <1>1. Len(list) \in Nat /\ P \subseteq 1 .. Len(list) /\ DOMAIN list = 1 .. Len(list)
    OBVIOUS
  <1>2. s = [r \in 1 .. Cardinality(P) |-> list[at(r)]]
    BY DEF Without, AtPlaces
  <1>3. \A k \in P : k \in 1 .. Len(list) /\ list[k] \in S /\ list[k] \in Range(list) \ gone
    BY <1>1 DEF Range
  <1>4. \A x \in Range(list) \ gone : \E k \in P : list[k] = x
    BY DEF Range
  <1> HIDE DEF P, s
  <1>5. Cardinality(P) \in Nat /\ \A k \in P : Rank(P, k) \in 1 .. Cardinality(P)
    BY <1>1, PlacesFinite
  <1>6. \A r \in 1 .. Cardinality(P) : \E k \in P : Rank(P, k) = r
    BY <1>1, RanksOnto
  <1>7. \A r \in 1 .. Cardinality(P) : at(r) \in P /\ Rank(P, at(r)) = r
    BY <1>6
  <1>8. \A k \in P : at(Rank(P, k)) = k
    <2> TAKE k \in P
    <2>1. at(Rank(P, k)) \in P /\ Rank(P, at(Rank(P, k))) = Rank(P, k)
      BY <1>5, <1>7
    <2> QED
      BY <1>1, <2>1, RanksDiffer
  <1> HIDE DEF at
  <1>9. s \in Seq(S)
    BY <1>2, <1>3, <1>5, <1>7
  <1>10. Range(s) = Range(list) \ gone
    <2>1. Range(s) = {s[r] : r \in 1 .. Cardinality(P)}
      BY <1>2 DEF Range
    <2>2. ASSUME NEW r \in 1 .. Cardinality(P)
          PROVE  s[r] \in Range(list) \ gone
      BY <1>2, <1>3, <1>7
    <2>3. ASSUME NEW x \in Range(list) \ gone
          PROVE  \E r \in 1 .. Cardinality(P) : s[r] = x
      <3>1. PICK k \in P : list[k] = x
        BY <1>4
      <3>2. Rank(P, k) \in 1 .. Cardinality(P) /\ s[Rank(P, k)] = list[k]
        BY <1>2, <1>5, <1>8
      <3> QED
        BY <3>1, <3>2
    <2> QED
      BY <2>1, <2>2, <2>3
  <1>11. ASSUME IsInjective(list)
         PROVE  IsInjective(s)
    <2> SUFFICES ASSUME NEW q \in 1 .. Cardinality(P), NEW r \in 1 .. Cardinality(P), s[q] = s[r]
                 PROVE  q = r
      BY <1>2 DEF IsInjective
    <2>1. list[at(q)] = list[at(r)] /\ at(q) \in DOMAIN list /\ at(r) \in DOMAIN list
      BY <1>1, <1>2, <1>3, <1>7
    <2>2. at(q) = at(r)
      BY <1>11, <2>1 DEF IsInjective
    <2> QED
      BY <1>7, <2>2
  <1> QED
    BY <1>9, <1>10, <1>11 DEF s

LEMMA AddUniqueFacts ==
    ASSUME NEW S, NEW list \in Seq(S), NEW c \in S
    PROVE  /\ AddUnique(list, c) \in Seq(S)
           /\ Range(AddUnique(list, c)) = Range(list) \cup {c}
           /\ IsInjective(list) => IsInjective(AddUnique(list, c))
  <1>1. CASE c \in Range(list)
    BY <1>1 DEF AddUnique
  <1>2. CASE c \notin Range(list)
    <2> DEFINE s == Append(list, c)
    <2>1. s \in Seq(S) /\ Len(s) = Len(list) + 1 /\ DOMAIN s = 1 .. Len(list) + 1 /\ s[Len(list) + 1] = c
          /\ \A k \in 1 .. Len(list) : s[k] = list[k]
      OBVIOUS
    <2>2. AddUnique(list, c) = s
      BY <1>2 DEF AddUnique
    <2>3. DOMAIN list = 1 .. Len(list) /\ Len(list) \in Nat
      OBVIOUS
    <2> HIDE DEF s
    <2>4. Range(s) = Range(list) \cup {c}
      BY <2>1, <2>3 DEF Range
    <2>5. ASSUME IsInjective(list)
          PROVE  IsInjective(s)
      BY <1>2, <2>1, <2>3, <2>5 DEF IsInjective, Range
    <2> QED
      BY <2>1, <2>2, <2>4, <2>5
  <1> QED
    BY <1>1, <1>2

LEMMA AppendFacts ==
    ASSUME NEW S, NEW list \in Seq(S), NEW c \in S
    PROVE  /\ Append(list, c) \in Seq(S) /\ Len(Append(list, c)) = Len(list) + 1
           /\ Range(Append(list, c)) = Range(list) \cup {c}
           /\ \A k \in 1 .. Len(list) : Append(list, c)[k] = list[k]
           /\ IsInjective(list) /\ c \notin Range(list) => IsInjective(Append(list, c))
  <1> DEFINE s == Append(list, c)
  <1>1. s \in Seq(S) /\ Len(s) = Len(list) + 1 /\ DOMAIN s = 1 .. Len(list) + 1 /\ s[Len(list) + 1] = c
        /\ \A k \in 1 .. Len(list) : s[k] = list[k]
    OBVIOUS
  <1>2. DOMAIN list = 1 .. Len(list) /\ Len(list) \in Nat
    OBVIOUS
  <1> HIDE DEF s
  <1>3. Range(s) = Range(list) \cup {c}
    BY <1>1, <1>2 DEF Range
  <1>4. ASSUME IsInjective(list), c \notin Range(list)
        PROVE  IsInjective(s)
    BY <1>1, <1>2, <1>4 DEF IsInjective, Range
  <1> QED
    BY <1>1, <1>3, <1>4 DEF s

LEMMA RangeConcatenated ==
    ASSUME NEW S, NEW s \in Seq(S), NEW t \in Seq(S)
    PROVE  Range(s \o t) = Range(s) \cup Range(t)
  <1> DEFINE u == s \o t
  <1>1. Len(u) = Len(s) + Len(t) /\ DOMAIN u = 1 .. Len(s) + Len(t)
        /\ \A k \in 1 .. Len(u) : u[k] = IF k <= Len(s) THEN s[k] ELSE t[k - Len(s)]
    OBVIOUS
  <1>2. Len(s) \in Nat /\ DOMAIN s = 1 .. Len(s) /\ Len(t) \in Nat /\ DOMAIN t = 1 .. Len(t)
    OBVIOUS
  <1> HIDE DEF u
  <1>3. ASSUME NEW k \in DOMAIN u
        PROVE  u[k] \in Range(s) \cup Range(t)
    <2>1. CASE k <= Len(s)
      BY <1>1, <1>2, <2>1 DEF Range
    <2>2. CASE k > Len(s)
      <3>1. u[k] = t[k - Len(s)] /\ k - Len(s) \in DOMAIN t
        BY <1>1, <1>2, <2>2
      <3> QED
        BY <3>1 DEF Range
    <2> QED
      BY <1>1, <1>2, <2>1, <2>2
  <1>4. ASSUME NEW k \in DOMAIN s
        PROVE  s[k] \in Range(u)
    <2>1. k \in DOMAIN u /\ u[k] = s[k]
      BY <1>1, <1>2
    <2> QED
      BY <2>1 DEF Range
  <1>5. ASSUME NEW k \in DOMAIN t
        PROVE  t[k] \in Range(u)
    <2>1. Len(s) + k \in DOMAIN u /\ u[Len(s) + k] = t[k]
      BY <1>1, <1>2
    <2> QED
      BY <2>1 DEF Range
  <1> QED
    BY <1>3, <1>4, <1>5 DEF Range, u

LEMMA AppliedFacts ==
    ASSUME NEW S, NEW list \in [now : Seq(S), add : Seq(S), remove : Seq(S)],
           IsInjective(list.now), IsInjective(list.add)
    PROVE  /\ Applied(list) \in [now : Seq(S), add : Seq(S), remove : Seq(S)]
           /\ Applied(list).add = <<>> /\ Applied(list).remove = <<>>
           /\ Range(Applied(list).now) = Scheduled(list)
           /\ IsInjective(Applied(list).now)
  <1> DEFINE new == Without(list.add, Range(list.now))
             all == list.now \o new
             now == Without(all, Range(list.remove))
  <1>0. list.now \in Seq(S) /\ list.add \in Seq(S) /\ list.remove \in Seq(S)
    OBVIOUS
  <1>1. new \in Seq(S) /\ Range(new) = Range(list.add) \ Range(list.now) /\ IsInjective(new)
    BY <1>0, WithoutFacts
  <1> HIDE DEF new
  <1>2. all \in Seq(S) /\ Len(all) = Len(list.now) + Len(new) /\ DOMAIN all = 1 .. Len(list.now) + Len(new)
        /\ \A k \in 1 .. Len(all) : all[k] = IF k <= Len(list.now) THEN list.now[k] ELSE new[k - Len(list.now)]
    BY <1>0, <1>1
  <1>3. /\ Len(list.now) \in Nat /\ DOMAIN list.now = 1 .. Len(list.now)
        /\ Len(new) \in Nat /\ DOMAIN new = 1 .. Len(new)
    BY <1>0, <1>1
  <1>4. Range(all) = Range(list.now) \cup Range(list.add)
    <2>1. Range(all) = Range(list.now) \cup Range(new)
      BY <1>0, <1>1, RangeConcatenated
    <2> QED
      BY <1>1, <2>1
  <1> HIDE DEF all
  <1>5. IsInjective(all)
    <2>0. \A j, k \in DOMAIN list.now : list.now[j] = list.now[k] => j = k
      BY DEF IsInjective
    <2> SUFFICES ASSUME NEW j \in DOMAIN all, NEW k \in DOMAIN all, all[j] = all[k], j < k
                 PROVE  FALSE
      <3>1. \A j, k \in DOMAIN all : j < k \/ k < j \/ j = k
        BY <1>2, <1>3
      <3> QED
        BY <3>1 DEF IsInjective
    <2>1. CASE k <= Len(list.now)
      <3>1. j \in DOMAIN list.now /\ k \in DOMAIN list.now /\ list.now[j] = list.now[k]
        BY <1>2, <1>3, <2>1
      <3> QED
        BY <2>0, <3>1
    <2>2. CASE j > Len(list.now)
      <3>1. /\ j - Len(list.now) \in DOMAIN new /\ k - Len(list.now) \in DOMAIN new
            /\ new[j - Len(list.now)] = new[k - Len(list.now)]
        BY <1>2, <1>3, <2>2, SMTT(30)
      <3>2. j - Len(list.now) = k - Len(list.now)
        BY <1>1, <3>1 DEF IsInjective
      <3> QED
        BY <1>2, <1>3, <3>2
    <2>3. CASE j <= Len(list.now) /\ k > Len(list.now)
      <3>1. all[j] = list.now[j] /\ j \in DOMAIN list.now
        BY <1>2, <1>3, <2>3
      <3>2. all[k] = new[k - Len(list.now)] /\ k - Len(list.now) \in DOMAIN new
        BY <1>2, <1>3, <2>3
      <3>3. all[j] \in Range(list.now) /\ all[k] \in Range(new)
        BY <3>1, <3>2 DEF Range
      <3> QED
        BY <1>1, <3>3
    <2> QED
      BY <1>2, <1>3, <2>1, <2>2, <2>3
  <1>6. now \in Seq(S) /\ Range(now) = Range(all) \ Range(list.remove) /\ IsInjective(now)
    BY <1>2, <1>5, WithoutFacts
  <1> HIDE DEF now
  <1>7. Applied(list) = [now |-> now, add |-> <<>>, remove |-> <<>>]
    BY DEF Applied, now, all, new
  <1> QED
    BY <1>4, <1>6, <1>7 DEF Scheduled

LEMMA EmptyRange ==
    ASSUME NEW S, NEW s \in Seq(S)
    PROVE  Range(s) = {} <=> s = <<>>
  <1>1. s # <<>> => 1 \in DOMAIN s
    OBVIOUS
  <1>2. Range(<<>>) = {}
    BY DEF Range
  <1> QED
    BY <1>1, <1>2 DEF Range

-----------------------------------------------------------------------------
(* The stack: a frame pushed, and the frames under it. *)

Shifted(s, f, t) ==
    /\ Len(s) = Len(t) + 1 /\ s[1] = f
    /\ \A k \in 1 .. Len(t) : s[k + 1] = t[k]
    /\ \A k \in 1 .. Len(s) : k = 1 \/ (k - 1 \in 1 .. Len(t) /\ s[k] = t[k - 1])

LEMMA PushedFacts ==
    ASSUME NEW S, NEW f \in S, NEW t \in Seq(S)
    PROVE  /\ Pushed(f, t) \in Seq(S) /\ Pushed(f, t) # <<>>
           /\ Pushed(f, t)[1] = f /\ Tail(Pushed(f, t)) = t /\ Range(Pushed(f, t)) = {f} \cup Range(t)
           /\ Shifted(Pushed(f, t), f, t)
  <1> DEFINE s == Pushed(f, t)
  <1>1. s = <<f>> \o t
    BY DEF Pushed
  <1>2. Len(t) \in Nat /\ <<f>> \in Seq(S) /\ Len(<<f>>) = 1 /\ <<f>>[1] = f
    OBVIOUS
  <1>3. s \in Seq(S) /\ s # <<>> /\ Len(s) = Len(t) + 1 /\ s[1] = f
    BY <1>1, <1>2
  <1>4. \A k \in 1 .. Len(s) : k = 1 \/ (k - 1 \in 1 .. Len(t) /\ s[k] = t[k - 1])
    BY <1>1, <1>2
  <1>5. \A k \in 1 .. Len(t) : s[k + 1] = t[k]
    BY <1>1, <1>2
  <1>6. Range(s) = {f} \cup Range(t)
    <2>1. Range(<<f>>) = {f}
      BY <1>2 DEF Range
    <2>2. Range(<<f>> \o t) = Range(<<f>>) \cup Range(t)
      BY <1>2, RangeConcatenated, ZenonT(60)
    <2> QED
      BY <1>1, <2>1, <2>2
  <1>7. Tail(s) = t
    <2> HIDE DEF s
    <2>1. Tail(s) \in Seq(S) /\ Len(Tail(s)) = Len(t) /\ \A k \in 1 .. Len(t) : Tail(s)[k] = s[k + 1]
      BY <1>2, <1>3
    <2> QED
      BY <1>5, <2>1
  <1> QED
    BY <1>3, <1>4, <1>5, <1>6, <1>7 DEF Shifted

LEMMA TopFacts ==
    ASSUME NEW S, NEW s \in Seq(S), s # <<>>
    PROVE  /\ s[1] \in S /\ Tail(s) \in Seq(S) /\ s = Pushed(s[1], Tail(s))
           /\ Len(s) = Len(Tail(s)) + 1 /\ Range(s) = {s[1]} \cup Range(Tail(s))
  <1> DEFINE t == Tail(s)
  <1>1. s[1] \in S /\ t \in Seq(S) /\ Len(s) \in Nat /\ Len(s) >= 1 /\ Len(t) = Len(s) - 1
        /\ \A k \in 1 .. Len(t) : t[k] = s[k + 1]
    OBVIOUS
  <1> HIDE DEF t
  <1> DEFINE u == Pushed(s[1], t)
  <1>2. u \in Seq(S) /\ Shifted(u, s[1], t) /\ Range(u) = {s[1]} \cup Range(t)
    BY <1>1, PushedFacts, ZenonT(60)
  <1> HIDE DEF u
  <1>3. u \in Seq(S) /\ Len(u) = Len(s) /\ \A k \in 1 .. Len(s) : u[k] = s[k]
    BY <1>1, <1>2 DEF Shifted
  <1>4. u = s
    BY <1>3
  <1> QED
    BY <1>1, <1>2, <1>4 DEF u, t

LEMMA NestedPushed ==
    ASSUME NEW f \in FrameTypes, NEW t \in Seq(FrameTypes), NEW up, NEW of
    PROVE  Nested(Pushed(f, t), up, of) <=>
              IF t = <<>> THEN f.at \in Phases
                          ELSE Nested(t, up, of) /\ \A g \in Range(t) : MayBeAbove(f, g, up, of)
  <1> DEFINE s == Pushed(f, t)
             A(x, y) == MayBeAbove(x, y, up, of)
  <1>1. /\ s \in Seq(FrameTypes) /\ s # <<>> /\ Len(s) = Len(t) + 1 /\ s[1] = f
        /\ \A k \in 1 .. Len(t) : s[k + 1] = t[k]
        /\ \A k \in 1 .. Len(s) : k = 1 \/ (k - 1 \in 1 .. Len(t) /\ s[k] = t[k - 1])
    <2>1. s \in Seq(FrameTypes) /\ s # <<>> /\ s[1] = f /\ Shifted(s, f, t)
      BY PushedFacts
    <2> QED
      BY <2>1 DEF Shifted
  <1>2. Len(t) \in Nat /\ DOMAIN t = 1 .. Len(t) /\ (t = <<>> <=> Len(t) = 0)
    OBVIOUS
  <1>3. DOMAIN s = 1 .. Len(t) + 1
    BY <1>1, <1>2
  <1> HIDE DEF s, A
  <1>4. Nested(s, up, of) <=> s[Len(s)].at \in Phases /\ \A j, k \in DOMAIN s : j < k => A(s[j], s[k])
    BY <1>1 DEF Nested, A
  <1>5. Nested(t, up, of) <=>
            t # <<>> /\ t[Len(t)].at \in Phases /\ \A j, k \in DOMAIN t : j < k => A(t[j], t[k])
    BY DEF Nested, A
  <1>6. CASE t = <<>>
    <2>1. Len(s) = 1 /\ DOMAIN s = 1 .. 1
      BY <1>1, <1>2, <1>3, <1>6
    <2>2. \A j, k \in DOMAIN s : ~(j < k)
      BY <2>1
    <2> QED
      BY <1>1, <1>4, <1>6, <2>1, <2>2 DEF s
  <1>7. CASE t # <<>>
    <2>1. Len(t) \in 1 .. Len(t) /\ s[Len(s)] = t[Len(t)]
      BY <1>1, <1>2, <1>7
    <2>2. (\A j, k \in DOMAIN s : j < k => A(s[j], s[k])) <=>
             (\A j, k \in DOMAIN t : j < k => A(t[j], t[k])) /\ \A k \in DOMAIN t : A(f, t[k])
      <3>1. ASSUME \A j, k \in DOMAIN s : j < k => A(s[j], s[k]), NEW j \in DOMAIN t, NEW k \in DOMAIN t
            PROVE  (j < k => A(t[j], t[k])) /\ A(f, t[k])
        <4>1. j + 1 \in DOMAIN s /\ k + 1 \in DOMAIN s /\ 1 \in DOMAIN s /\ 1 < k + 1 /\ (j < k => j + 1 < k + 1)
          BY <1>2, <1>3
        <4>2. s[j + 1] = t[j] /\ s[k + 1] = t[k] /\ s[1] = f
          BY <1>1, <1>2
        <4> QED
          BY <3>1, <4>1, <4>2
      <3>2. ASSUME \A j, k \in DOMAIN t : j < k => A(t[j], t[k]), \A k \in DOMAIN t : A(f, t[k]),
                   NEW j \in DOMAIN s, NEW k \in DOMAIN s, j < k
            PROVE  A(s[j], s[k])
        <4>1. k - 1 \in DOMAIN t /\ s[k] = t[k - 1]
          BY <1>1, <1>2, <1>3, <3>2
        <4>2. CASE j = 1
          BY <1>1, <3>2, <4>1, <4>2
        <4>3. CASE j # 1
          <5>1. j - 1 \in DOMAIN t /\ s[j] = t[j - 1] /\ j - 1 < k - 1
            BY <1>1, <1>2, <1>3, <3>2, <4>3
          <5> QED
            BY <3>2, <4>1, <5>1
        <4> QED
          BY <4>2, <4>3
      <3>3. \E k \in DOMAIN t : TRUE
        BY <1>2, <2>1
      <3> QED
        BY <3>1, <3>2, <3>3
    <2>3. (\A g \in Range(t) : A(f, g)) <=> \A k \in DOMAIN t : A(f, t[k])
      BY DEF Range
    <2>4. (\A g \in Range(t) : A(f, g)) <=> (\A g \in Range(t) : MayBeAbove(f, g, up, of))
      BY DEF A
    <2> QED
      BY <1>4, <1>5, <1>7, <2>1, <2>2, <2>3, <2>4 DEF s
  <1> QED
    BY <1>6, <1>7

LEMMA NestedKept ==
    ASSUME NEW s \in Seq(FrameTypes), NEW up, NEW of, NEW up2, NEW of2, Nested(s, up, of),
           \A g \in Range(s) : g.at \in NodeCalls => up2[g.node] = up[g.node],
           \A g \in Range(s) : g.at \in CompCalls => of2[g.comp] = of[g.comp] /\ up2[of[g.comp]] = up[of[g.comp]]
    PROVE  Nested(s, up2, of2)
  <1>1. s # <<>> /\ s[Len(s)].at \in Phases /\ \A j, k \in DOMAIN s : j < k => MayBeAbove(s[j], s[k], up, of)
    BY DEF Nested
  <1>2. ASSUME NEW j \in DOMAIN s, NEW k \in DOMAIN s, j < k
        PROVE  MayBeAbove(s[j], s[k], up2, of2)
    <2>1. MayBeAbove(s[j], s[k], up, of)
      BY <1>1, <1>2
    <2>2. s[k] \in Range(s)
      BY DEF Range
    <2> QED
      BY <2>1, <2>2 DEF MayBeAbove
  <1> QED
    BY <1>1, <1>2 DEF Nested

Resumed(a) ==
    /\ a \in FrameTypes /\ a.at = Top.at /\ a.node = Top.node /\ a.comp = Top.comp
    /\ a.n = Top.n /\ a.batch = Top.batch

\* The links that the frames of a stack rely on.
LinksKept(s) ==
    /\ \A g \in Range(s) : g.at \in NodeCalls => parent'[g.node] = parent[g.node]
    /\ \A g \in Range(s) : g.at \in CompCalls =>
          nodeOf'[g.comp] = nodeOf[g.comp] /\ parent'[nodeOf[g.comp]] = parent[nodeOf[g.comp]]

\* The frames of a stack that is as it should be.
LEMMA Context ==
    ASSUME Stacked
    PROVE  /\ Top \in FrameTypes /\ Callers \in Seq(FrameTypes) /\ Frames = {Top} \cup Range(Callers)
           /\ \A g \in Frames : g \in FrameTypes
           /\ Settled <=> Callers = <<>>
           /\ Callers = <<>> => Range(Callers) = {} /\ Top.at \in Phases
           /\ Callers # <<>> => Nested(Callers, parent, nodeOf) /\ Top.at \notin Phases /\ Range(Callers) # {}
           /\ \A g \in Range(Callers) : MayBeAbove(Top, g, parent, nodeOf)
  <1>1. stack \in Seq(FrameTypes) /\ stack # <<>> /\ Nested(stack, parent, nodeOf)
    BY DEF Stacked, Nested
  <1>2. /\ stack[1] \in FrameTypes /\ Tail(stack) \in Seq(FrameTypes) /\ stack = Pushed(stack[1], Tail(stack))
        /\ Len(stack) = Len(Tail(stack)) + 1 /\ Range(stack) = {stack[1]} \cup Range(Tail(stack))
    BY <1>1, TopFacts
  <1>3. /\ Top \in FrameTypes /\ Callers \in Seq(FrameTypes) /\ stack = Pushed(Top, Callers)
        /\ Len(stack) = Len(Callers) + 1 /\ Frames = {Top} \cup Range(Callers)
    BY <1>2 DEF Top, Callers, Frames
  <1> HIDE DEF Top, Callers
  <1>4. Nested(Pushed(Top, Callers), parent, nodeOf) <=>
              IF Callers = <<>> THEN Top.at \in Phases
              ELSE Nested(Callers, parent, nodeOf) /\ \A g \in Range(Callers) : MayBeAbove(Top, g, parent, nodeOf)
    BY <1>3, NestedPushed
  <1>5. Settled <=> Callers = <<>>
    BY <1>3 DEF Settled
  <1>6. Callers = <<>> => Range(Callers) = {}
    BY DEF Range
  <1>7. Callers # <<>> => \E g \in Range(Callers) : TRUE
    <2>1. Callers # <<>> => 1 \in DOMAIN Callers
      BY <1>3
    <2> QED
      BY <2>1 DEF Range
  <1>8. \A g \in Frames : g \in FrameTypes
    <2>1. \A g \in Range(Callers) : g \in FrameTypes
      BY <1>3 DEF Range
    <2> QED
      BY <1>3, <2>1
  <1>9. Callers # <<>> => Nested(Callers, parent, nodeOf) /\ \A g \in Range(Callers) : MayBeAbove(Top, g, parent, nodeOf)
    BY <1>1, <1>3, <1>4
  <1>10. Callers = <<>> => Top.at \in Phases
    BY <1>1, <1>3, <1>4
  <1>11. \A g \in Range(Callers) : MayBeAbove(Top, g, parent, nodeOf)
    BY <1>6, <1>9
  <1>12. Callers # <<>> => Top.at \notin Phases
    BY <1>7, <1>11 DEF MayBeAbove
  <1> QED
    BY <1>3, <1>5, <1>6, <1>7, <1>8, <1>9, <1>10, <1>11, <1>12

\* The caller goes on, with the links of the next state.
LEMMA Resumes ==
    ASSUME Stacked, NEW a, Resumed(a), LinksKept(stack)
    PROVE  /\ Pushed(a, Callers) \in Seq(FrameTypes) /\ Pushed(a, Callers) # <<>>
           /\ Range(Pushed(a, Callers)) = {a} \cup Range(Callers)
           /\ Nested(Pushed(a, Callers), parent', nodeOf')
  <1>1. Top \in FrameTypes /\ Callers \in Seq(FrameTypes) /\ Frames = {Top} \cup Range(Callers)
        /\ (Callers = <<>> => Top.at \in Phases)
        /\ (Callers # <<>> => Nested(Callers, parent, nodeOf))
        /\ \A g \in Range(Callers) : MayBeAbove(Top, g, parent, nodeOf)
    BY Context
  <1>2. a \in FrameTypes /\ a.at = Top.at /\ a.node = Top.node /\ a.comp = Top.comp
    BY DEF Resumed
  <1>3. \A g \in Range(Callers) : g \in Range(stack)
    BY <1>1 DEF Frames
  <1>4. ASSUME Callers # <<>>
        PROVE  Nested(Callers, parent', nodeOf')
    BY <1>1, <1>3, <1>4, NestedKept DEF LinksKept
  <1>5. ASSUME NEW g \in Range(Callers)
        PROVE  MayBeAbove(a, g, parent', nodeOf')
    BY <1>1, <1>2, <1>3, <1>5 DEF MayBeAbove, LinksKept
  <1> HIDE DEF Callers, Top
  <1>6. Nested(Pushed(a, Callers), parent', nodeOf') <=>
              IF Callers = <<>> THEN a.at \in Phases
              ELSE Nested(Callers, parent', nodeOf') /\ \A g \in Range(Callers) : MayBeAbove(a, g, parent', nodeOf')
    BY <1>1, <1>2, NestedPushed
  <1>7. Nested(Pushed(a, Callers), parent', nodeOf')
    BY <1>1, <1>2, <1>4, <1>5, <1>6
  <1> QED
    BY <1>1, <1>2, <1>7, PushedFacts

\* A call returns to its callers.
LEMMA Returns ==
    ASSUME Stacked, Top.at \notin Phases, LinksKept(Callers)
    PROVE  /\ Callers \in Seq(FrameTypes) /\ Callers # <<>>
           /\ Nested(Callers, parent', nodeOf')
  <1>1. Callers \in Seq(FrameTypes) /\ Callers # <<>> /\ Nested(Callers, parent, nodeOf)
    BY Context
  <1> QED
    BY <1>1, NestedKept DEF LinksKept

\* A call begins on a stack.
LEMMA Begins1 ==
    ASSUME NEW f \in FrameTypes, NEW t \in Seq(FrameTypes), t # <<>>, Nested(t, parent', nodeOf'),
           stack' = Pushed(f, t), \A g \in Range(t) : MayBeAbove(f, g, parent', nodeOf')
    PROVE  Stacked' /\ Frames' = {f} \cup Range(t)
  <1>1. Pushed(f, t) \in Seq(FrameTypes) /\ Range(Pushed(f, t)) = {f} \cup Range(t)
    BY PushedFacts, ZenonT(60)
  <1>2. Nested(Pushed(f, t), parent', nodeOf')
    BY NestedPushed
  <1> QED
    BY <1>1, <1>2 DEF Stacked, Frames

\* What the moves of the stack change of the calls in progress.
LEMMA GoesOn ==
    ASSUME Stacked, NEW a, Resumed(a), LinksKept(stack), stack' = Pushed(a, Callers)
    PROVE  /\ Stacked' /\ Frames' = {a} \cup Range(Callers)
           /\ \A at, c : In(at, c)' <=> In(at, c)
           /\ \A node : GoesOff(node)' <=> GoesOff(node)
           /\ InPass' <=> InPass
  <1>1. Stacked' /\ Frames' = {a} \cup Range(Callers)
    BY Resumes DEF Stacked, Frames
  <1>2. Frames = {Top} \cup Range(Callers)
    BY Context
  <1>3. a.at = Top.at /\ a.node = Top.node /\ a.comp = Top.comp
    BY DEF Resumed
  <1> HIDE DEF Top, Callers
  <1>4. \A at, c : In(at, c)' <=> In(at, c)
    BY <1>1, <1>2, <1>3 DEF In
  <1>5. \A node : GoesOff(node)' <=> GoesOff(node)
    BY <1>1, <1>2, <1>3 DEF GoesOff
  <1>6. InPass' <=> InPass
    <2> DEFINE L == {"updating", "lateUpdating"} \cup Passes
    <2>1. (InPass <=> \E f \in Frames : f.at \in L) /\ (InPass' <=> \E f \in Frames' : f.at \in L)
      BY DEF InPass, Frames, Range
    <2> QED
      BY <1>1, <1>2, <1>3, <2>1
  <1> QED
    BY <1>1, <1>4, <1>5, <1>6

LEMMA CallsOn ==
    ASSUME Stacked, NEW a, Resumed(a), LinksKept(stack), NEW f \in FrameTypes,
           stack' = Pushed(f, Pushed(a, Callers)),
           \A g \in {a} \cup Range(Callers) : MayBeAbove(f, g, parent', nodeOf')
    PROVE  /\ Stacked' /\ Frames' = {f, a} \cup Range(Callers)
           /\ \A at, c : In(at, c)' <=> In(at, c) \/ (at = f.at /\ c = f.comp)
           /\ \A node : GoesOff(node)' <=> GoesOff(node) \/ (f.at \in Deactivations /\ node = f.node)
           /\ f.at \notin Passes => (InPass' <=> InPass)
  <1> DEFINE t == Pushed(a, Callers)
  <1>0. t \in Seq(FrameTypes) /\ t # <<>> /\ Range(t) = {a} \cup Range(Callers) /\ Nested(t, parent', nodeOf')
    BY Resumes
  <1> HIDE DEF t
  <1>1. Stacked' /\ Frames' = {f} \cup Range(t)
    <2>1. stack' = Pushed(f, t) /\ \A g \in Range(t) : MayBeAbove(f, g, parent', nodeOf')
      BY <1>0 DEF t
    <2> QED
      BY <1>0, <2>1, Begins1
  <1>2. Frames = {Top} \cup Range(Callers)
    BY Context
  <1>3. a.at = Top.at /\ a.node = Top.node /\ a.comp = Top.comp
    BY DEF Resumed
  <1> HIDE DEF Top, Callers
  <1>4. \A at, c : In(at, c)' <=> In(at, c) \/ (at = f.at /\ c = f.comp)
    BY <1>0, <1>1, <1>2, <1>3 DEF In
  <1>5. \A node : GoesOff(node)' <=> GoesOff(node) \/ (f.at \in Deactivations /\ node = f.node)
    BY <1>0, <1>1, <1>2, <1>3 DEF GoesOff
  <1>6. f.at \notin Passes => (InPass' <=> InPass)
    <2> DEFINE L == {"updating", "lateUpdating"} \cup Passes
    <2>1. (InPass <=> \E g \in Frames : g.at \in L) /\ (InPass' <=> \E g \in Frames' : g.at \in L)
      BY DEF InPass, Frames, Range
    <2>2. f.at \notin {"updating", "lateUpdating"}
      BY <1>0 DEF MayBeAbove, Phases
    <2> QED
      BY <1>0, <1>1, <1>2, <1>3, <2>1, <2>2
  <1> QED
    BY <1>0, <1>1, <1>4, <1>5, <1>6

LEMMA Pops ==
    ASSUME Stacked, Top.at \notin Phases, LinksKept(Callers), stack' = Callers
    PROVE  /\ Stacked' /\ Frames' = Range(Callers)
           /\ \A at, c : In(at, c) <=> In(at, c)' \/ (at = Top.at /\ c = Top.comp)
           /\ \A node : GoesOff(node) <=> GoesOff(node)' \/ (Top.at \in Deactivations /\ node = Top.node)
           /\ InPass' <=> InPass
  <1>1. Callers \in Seq(FrameTypes) /\ Callers # <<>> /\ Nested(Callers, parent', nodeOf')
    BY Returns
  <1>2. Frames = {Top} \cup Range(Callers) /\ Range(Callers) # {} /\ \A g \in Range(Callers) : MayBeAbove(Top, g, parent, nodeOf)
    BY <1>1, Context
  <1> HIDE DEF Top, Callers
  <1>3. Stacked' /\ Frames' = Range(Callers)
    BY <1>1 DEF Stacked, Frames
  <1>4. \A at, c : In(at, c) <=> In(at, c)' \/ (at = Top.at /\ c = Top.comp)
    BY <1>2, <1>3 DEF In
  <1>5. \A node : GoesOff(node) <=> GoesOff(node)' \/ (Top.at \in Deactivations /\ node = Top.node)
    BY <1>2, <1>3 DEF GoesOff
  <1>6. InPass' <=> InPass
    <2> DEFINE L == {"updating", "lateUpdating"} \cup Passes
    <2>1. (InPass <=> \E f \in Frames : f.at \in L) /\ (InPass' <=> \E f \in Frames' : f.at \in L)
      BY DEF InPass, Frames, Range
    <2>2. ASSUME Top.at \in L
          PROVE  \E f \in Range(Callers) : f.at \in L
      <3>1. Top.at \in Passes
        BY <2>2 DEF Phases
      <3>2. \A g \in Range(Callers) : g.at = LoopOf(Top.at)
        BY <1>2, <3>1 DEF MayBeAbove
      <3> QED
        BY <1>2, <3>2 DEF LoopOf
    <2> QED
      BY <1>2, <1>3, <2>1, <2>2
  <1> QED
    BY <1>3, <1>4, <1>5, <1>6

\* A call gives way to another: what may be above a frame may be above what
\* the callers are.
LEMMA GivesWay ==
    ASSUME Stacked, Top.at \notin Phases, LinksKept(Callers), NEW f \in FrameTypes, stack' = Pushed(f, Callers),
           \A g \in Range(Callers) : MayBeAbove(f, g, parent', nodeOf')
    PROVE  Stacked' /\ Frames' = {f} \cup Range(Callers)
  <1>1. Callers \in Seq(FrameTypes) /\ Callers # <<>> /\ Nested(Callers, parent', nodeOf')
    BY Returns
  <1> HIDE DEF Callers
  <1> QED
    BY <1>1, Begins1

\* The calls that what is said of a component depends on.
Noted == {"onLoad", "onEnable", "onDisable", "onDestroy", "start"}

SameHooks ==
    /\ \A at \in Noted : \A c \in Comps : In(at, c)' <=> In(at, c)
    /\ \A c \in Comps : Waits(c) => Waits(c)'
    /\ InPass' <=> InPass

\* A component may have been added.
Grows == created \subseteq created' /\ created' \subseteq Comps /\ alive \subseteq alive' /\ alive' \cap created \subseteq alive

\* No component goes on to another stage; a call may only have come too early.
SameLife ==
    /\ life' \in [Comps -> [stage : Stages, started : BOOLEAN, broken : BOOLEAN]]
    /\ \A c \in Comps : life'[c].stage = life[c].stage /\ life'[c].started = life[c].started
    /\ CallsInOrder => \A c \in Comps : ~life'[c].broken

\* Where no call of a component begins or ends, what is said of hooks, lists
\* and queue stays true.
LEMMA HooksTold ==
    ASSUME Flags, Lists, Queue, Lives, Grows, UNCHANGED <<flagVars, startQueue, lists>>, SameHooks, SameLife
    PROVE  Flags' /\ Lists' /\ Queue' /\ Lives' /\ \A c \in Comps : IsOn(c)' <=> IsOn(c)
  <1> USE DEF flagVars
  <1>0. \A at \in Noted : \A c \in Comps : In(at, c)' <=> In(at, c)
    BY DEF SameHooks
  <1>1. \A c \in Comps : IsOn(c)' <=> IsOn(c)
    BY <1>0 DEF IsOn, Noted
  <1>2. Flags'
    BY DEF Flags, Grows, SameLife
  <1>3. Lists'
    BY <1>1 DEF Lists, Grows, SameHooks
  <1>4. Queue'
    <2>1. \A c \in Range(startQueue) : c \in Comps
      BY DEF Flags, Range
    <2> QED
      BY <1>1, <2>1 DEF Queue, SameHooks
  <1>5. Lives'
    BY <1>0, <1>1 DEF Lives, Grows, Noted, SameLife
  <1> QED
    BY <1>1, <1>2, <1>3, <1>4, <1>5

LEMMA HooksUntouched ==
    ASSUME Flags, Lists, Queue, Lives, Grows, UNCHANGED <<flagVars, startQueue, lists, life>>, SameHooks
    PROVE  Flags' /\ Lists' /\ Queue' /\ Lives' /\ \A c \in Comps : IsOn(c)' <=> IsOn(c)
  <1>1. SameLife
    BY DEF Flags, Lives, SameLife
  <1> QED
    BY <1>1, HooksTold

-----------------------------------------------------------------------------
(* New frames, and what the game's code may call from the current one. *)

LEMMA NewFrames ==
    /\ \A at \in NodeCalls, node \in Nodes, n \in Nat :
          LET f == NodeFrame(at, node, n) IN
          f \in FrameTypes /\ f.at = at /\ f.node = node /\ f.comp = Nothing /\ f.i = 1 /\ f.n = n
    /\ \A c \in Comps, hook \in Hooks :
          LET f == HookFrame(c, hook) IN
          f \in FrameTypes /\ f.at = hook /\ f.node = Nothing /\ f.comp = c /\ f.i = 1 /\ f.n = 0
    /\ \A c \in Comps :
          LET f == Removing(c) IN
          f \in FrameTypes /\ f.at = "removing" /\ f.node = Nothing /\ f.comp = c /\ f.i = 1 /\ f.n = 0
  <1>0. <<>> \in Seq(Comps)
    OBVIOUS
  <1>1. ASSUME NEW at \in NodeCalls, NEW node \in Nodes, NEW n \in Nat
        PROVE  LET f == NodeFrame(at, node, n) IN
               f \in FrameTypes /\ f.at = at /\ f.node = node /\ f.comp = Nothing /\ f.i = 1 /\ f.n = n
    <2>1. NodeFrame(at, node, n) =
            [at |-> at, node |-> node, comp |-> Nothing, i |-> 1, n |-> n, batch |-> <<>>, used |-> 0]
      <3>1. Frame(at) = [at |-> at, node |-> Nothing, comp |-> Nothing, i |-> 1, n |-> 0, batch |-> <<>>, used |-> 0]
        BY DEF Frame
      <3>2. [Frame(at) EXCEPT !.node = node] =
              [at |-> at, node |-> node, comp |-> Nothing, i |-> 1, n |-> 0, batch |-> <<>>, used |-> 0]
        BY <3>1
      <3>3. NodeFrame(at, node, n) = [[Frame(at) EXCEPT !.node = node] EXCEPT !.n = n]
        BY DEF NodeFrame
      <3> QED
        BY <3>2, <3>3
    <2> QED
      BY <1>0, <1>1, <2>1 DEF FrameTypes
  <1>2. ASSUME NEW c \in Comps, NEW hook \in Hooks
        PROVE  LET f == HookFrame(c, hook) IN
               f \in FrameTypes /\ f.at = hook /\ f.node = Nothing /\ f.comp = c /\ f.i = 1 /\ f.n = 0
    <2>1. HookFrame(c, hook) =
            [at |-> hook, node |-> Nothing, comp |-> c, i |-> 1, n |-> 0, batch |-> <<>>, used |-> 0]
      BY DEF HookFrame, Frame
    <2> QED
      BY <1>0, <1>2, <2>1 DEF FrameTypes, Hooks, CompCalls, Runs
  <1>3. ASSUME NEW c \in Comps
        PROVE  LET f == Removing(c) IN
               f \in FrameTypes /\ f.at = "removing" /\ f.node = Nothing /\ f.comp = c /\ f.i = 1 /\ f.n = 0
    <2>1. Removing(c) =
            [at |-> "removing", node |-> Nothing, comp |-> c, i |-> 1, n |-> 0, batch |-> <<>>, used |-> 0]
      BY DEF Removing, Frame
    <2> QED
      BY <1>0, <1>3, <2>1 DEF FrameTypes, CompCalls
  <1> QED
    BY <1>1, <1>2, <1>3

\* A loop goes on to its next entry.
LEMMA LoopGoesOn ==
    ASSUME Stacked, FramesOK, ~LoopEnds
    PROVE  Resumed(Advanced) /\ Advanced.i = Top.i + 1 /\ Top.i <= Top.n /\ Top.i \in Nat /\ Top.n \in Nat /\ Top.i >= 1
  <1>1. Top \in FrameTypes /\ Top \in Frames
    BY Context
  <1>2. Top.i >= 1
    BY <1>1 DEF FramesOK, FrameTyped
  <1> HIDE DEF Top
  <1>3. Top.i \in Nat /\ Top.n \in Nat
    BY <1>1 DEF FrameTypes
  <1>4. Top.i <= Top.n
    BY <1>3 DEF LoopEnds
  <1>5. /\ Advanced \in FrameTypes /\ Advanced.i = Top.i + 1
        /\ Advanced.at = Top.at /\ Advanced.node = Top.node /\ Advanced.comp = Top.comp
        /\ Advanced.n = Top.n /\ Advanced.batch = Top.batch
    BY <1>1, <1>3 DEF FrameTypes, Advanced
  <1> QED
    BY <1>2, <1>3, <1>4, <1>5 DEF Resumed

\* What a call by the game's code leaves alone.
Spared(g, x) ==
    /\ g.at \in NodeCalls => g.node # x /\ parent[g.node] # x
    /\ g.at \in CompCalls => g.comp # x /\ nodeOf[g.comp] # x /\ parent[nodeOf[g.comp]] # x

LEMMA FreeIsSpared ==
    ASSUME ~MayUndo, Tree, FramesOK, NEW x, Free(x), x # Nothing
    PROVE  \A g \in Frames : Spared(g, x)
  <1> SUFFICES ASSUME NEW g \in Frames
               PROVE  Spared(g, x)
    OBVIOUS
  <1>1. FrameTyped(g)
    BY DEF FramesOK
  <1> DEFINE F == {stack[k] : k \in {j \in DOMAIN stack : stack[j].at \notin Passes \cup {"start"}}}
             cs == {f.comp : f \in F} \ {Nothing}
             ns == ({f.node : f \in F} \cup {nodeOf[c] : c \in cs}) \ {Nothing}
  <1>2. x \notin cs /\ x \notin ns /\ x \notin {parent[n] : n \in ns}
    BY DEF Free, BeingSwitched
  <1>3. g.at \notin Passes \cup {"start"} => g \in F
    BY DEF Frames, Range
  <1> HIDE DEF F
  <1>4. ASSUME g.at \in NodeCalls
        PROVE  g.node # x /\ parent[g.node] # x
    <2>1. g \in F /\ g.node \in Nodes /\ g.node # Nothing
      BY <1>1, <1>3, <1>4, LifecycleAssumption DEF FrameTyped, NodeCalls, Activations, Deactivations, Passes
    <2>2. g.node \in ns
      BY <2>1
    <2> HIDE DEF ns
    <2> QED
      BY <1>2, <2>2
  <1>5. ASSUME g.at \in CompCalls
        PROVE  g.comp # x /\ nodeOf[g.comp] # x /\ parent[nodeOf[g.comp]] # x
    <2>1. g \in F /\ g.comp \in alive /\ g.comp # Nothing /\ nodeOf[g.comp] # Nothing
      BY <1>1, <1>3, <1>5, LifecycleAssumption DEF FrameTyped, CompCalls, Passes, Tree
    <2>2. g.comp \in cs
      BY <2>1
    <2> HIDE DEF cs
    <2>3. nodeOf[g.comp] \in ns
      BY <2>1, <2>2
    <2> HIDE DEF ns
    <2> QED
      BY <1>2, <2>2, <2>3
  <1> QED
    BY <1>4, <1>5 DEF Spared

\* The code a call comes from, and where it may not come from.
LEMMA CallFacts ==
    ASSUME CallsSafely, Stacked, FramesOK, NEW op, Calls(op)
    PROVE  LET a == [Top EXCEPT !.used = @ + 1] IN
           /\ Resumed(a) /\ a.i = Top.i /\ Caller = Pushed(a, Callers)
           /\ Top.at \notin NodeCalls \cup {"removing", "starting", "updating", "lateUpdating"}
           /\ op \notin SwitchesOff => \A g \in Frames : g.at \notin CallsOff \cup {"start", "starting"}
           /\ op = "remove" => Top.at \in {"scene", "logic"}
  <1>1. Top \in FrameTypes /\ Frames = {Top} \cup Range(Callers)
        /\ \A g \in Range(Callers) : MayBeAbove(Top, g, parent, nodeOf)
    BY Context
  <1>2. Top.at \in GameCode /\ op \in MayDo[Top.at]
    BY DEF Calls
  <1>3. op \in MayDoSafely[Top.at]
    BY <1>2 DEF CallsSafely
  <1> HIDE DEF Top, Callers
  <1>4. Top.at \in {"start", "onDisable"} => op \in SwitchesOff
    BY <1>2, <1>3 DEF MayDoSafely
  <1>5. op = "remove" => Top.at \in {"scene", "logic"}
    BY <1>2, <1>3 DEF MayDoSafely, SwitchesOff, SwitchesOn
  <1>6. Top.at \notin NodeCalls \cup {"removing", "starting", "updating", "lateUpdating"}
    BY <1>2 DEF GameCode, Hooks, NodeCalls, Activations, Deactivations
  <1>7. ASSUME op \notin SwitchesOff, NEW g \in Frames
        PROVE  g.at \notin CallsOff \cup {"start", "starting"}
    BY <1>1, <1>4, <1>6, <1>7 DEF MayBeAbove, CallsOff, NodeCalls
  <1> DEFINE a == [Top EXCEPT !.used = @ + 1]
  <1>8. Resumed(a) /\ a.i = Top.i
    BY <1>1 DEF FrameTypes, Resumed
  <1>9. Caller = Pushed(a, Callers)
    BY DEF Caller
  <1> QED
    BY <1>5, <1>6, <1>7, <1>8, <1>9

\* The links of spared nodes may change.
LEMMA LinksSpared ==
    ASSUME NEW s, NEW x, \A g \in Range(s) : Spared(g, x) /\ FrameTyped(g), Tree,
           nodeOf' = nodeOf, \A node \in Nodes : node # x => parent'[node] = parent[node]
    PROVE  LinksKept(s)
  BY DEF LinksKept, Spared, FrameTyped, Tree, CompCalls

-----------------------------------------------------------------------------
(* A node other than the root is switched, moved or destroyed by the game's   *)
(* code; it is in none of the calls in progress.                             *)

ChildrenKept(f) ==
    /\ f.n <= Len(children'[f.node])
    /\ \A k \in 1 .. f.n : children'[f.node][k] = children[f.node][k]
    /\ f.at = "deactivatingChildren" => f.n = Len(children'[f.node])

TreeChange(node) ==
    /\ node \in Nodes /\ \A g \in Frames : Spared(g, node)
    /\ \A m \in Nodes : m # node => parent'[m] = parent[m] /\ (m \in active' <=> m \in active)
    /\ UNCHANGED <<comps, compVars, flagVars, startQueue, lists, life>>
    /\ \A f \in Frames : f.at \in {"activatingChildren", "deactivatingChildren"} => ChildrenKept(f)
    /\ \/ parent'[node] \in {Nothing, parent[node]}
       \/ \A g \in Frames : g.at \notin CallsOff

\* The game's code goes on when its call returns.
Caller2(a) == Resumed(a) /\ a.i = Top.i /\ Top.at \notin NodeCalls

ShouldBeOn(node) == node \in active /\ parent[node] = Root /\ Root \in inHierarchy

\* What any of the three ends of such a call leaves true.
LEMMA HooksKeepOn ==
    ASSUME IInv, NEW node, TreeChange(node), NEW a, Caller2(a), NEW N,
           Frames' = {a} \cup Range(Callers) \cup N, \A f \in N : f.at \in NodeCalls,
           \A at, c : c \in Comps => (In(at, c)' <=> In(at, c)), InPass' <=> InPass
    PROVE  Flags' /\ Lists' /\ Queue' /\ Lives' /\ \A c \in Comps : IsOn(c)' <=> IsOn(c)
  <1>1. Flags /\ Lists /\ Queue /\ Lives /\ Stacked
    BY DEF IInv
  <1>2. Frames = {Top} \cup Range(Callers)
    BY <1>1, Context
  <1>3. ASSUME NEW c, Waits(c)
        PROVE  Waits(c)'
    <2>1. startQueue' = startQueue
      BY DEF TreeChange
    <2>2. a.at = Top.at /\ a.batch = Top.batch /\ a.i = Top.i /\ a.n = Top.n
      BY DEF Caller2, Resumed
    <2> HIDE DEF Top, Callers
    <2> QED
      BY <1>2, <1>3, <2>1, <2>2 DEF Waits, Rest
  <1>4. Grows /\ UNCHANGED <<flagVars, startQueue, lists, life>>
    BY DEF TreeChange, compVars, Grows, IInv, Tree
  <1> QED
    BY <1>1, <1>3, <1>4, HooksUntouched DEF SameHooks, Noted

\* The calls in progress stay as they should be.
LEMMA SwitchKeepsFrames ==
    ASSUME Tree, Stacked, FramesOK, NEW node, TreeChange(node), inHierarchy \subseteq inHierarchy',
           (\A m : IsOff(m) => IsOff(m)') \/ (\A f \in Frames : f.at \notin CallsOff),
           \A c \in Comps : IsOn(c)' <=> IsOn(c), NEW g \in Frames
    PROVE  FrameOK(g)'
  <1>1. Tree /\ FramesOK /\ g \in FrameTypes
    BY Context
  <1>2. /\ node \in Nodes /\ \A f \in Frames : Spared(f, node)
        /\ \A m \in Nodes : m # node => parent'[m] = parent[m] /\ (m \in active' <=> m \in active)
        /\ UNCHANGED <<comps, nodeOf, enabled, created, alive, onLoaded, onEnabled, startCalled, startQueue, lists, life>>
        /\ \A f \in Frames : f.at \in {"activatingChildren", "deactivatingChildren"} => ChildrenKept(f)
        /\ (parent'[node] \in {Nothing, parent[node]} \/ \A f \in Frames : f.at \notin CallsOff)
    BY DEF TreeChange, compVars, flagVars
  <1>3. FrameTyped(g) /\ NodeCallOK(g) /\ CompCallOK(g) /\ PhaseOK(g) /\ Spared(g, node)
    BY <1>2 DEF FramesOK
  <1>4. FrameTyped(g)'
    BY <1>2, <1>3 DEF FrameTyped
  <1>5. NodeCallOK(g)'
    <2>1. g.at \in {"activatingChildren", "deactivatingChildren"} => ChildrenKept(g)
      BY <1>2
    <2>2. ASSUME g.at \in Deactivations, NEW m, IsOff(m)
          PROVE  IsOff(m)'
      BY <2>2 DEF CallsOff
    <2>3. g.at = "deactivatingChildren" => \A child \in Been(g, children'[g.node]) : IsOff(child)
      BY <1>1, <1>3, <2>1 DEF NodeCallOK, FrameTyped, Been, ChildrenKept, FrameTypes
    <2>4. g.at = "deactivating" => \A c \in Been(g, comps[g.node]) : ~IsOn(c)'
      <3>1. g.at = "deactivating" => g.node \in Nodes /\ Been(g, comps[g.node]) \subseteq Comps
        BY <1>1, <1>3 DEF NodeCallOK, FrameTyped, Been, FrameTypes, Tree, NodeCalls, Deactivations
      <3> QED
        BY <1>3, <3>1 DEF NodeCallOK
    <2>5. g.at = "deactivating" => \A child \in Nodes : parent'[child] = g.node => IsOff(child)
      <3>1. g.at = "deactivating" => g.node \in Nodes /\ g.at \in CallsOff
        BY <1>3 DEF FrameTyped, NodeCalls, Deactivations, CallsOff
      <3> QED
        BY <1>2, <1>3, <3>1, LifecycleAssumption DEF NodeCallOK
    <2>6. g.at = "deactivatingChildren" => Been(g, children'[g.node]) = Been(g, children[g.node])
      BY <1>1, <1>3, <2>1, SMTT(30) DEF FrameTyped, Been, ChildrenKept, FrameTypes
    <2>7. g.at = "deactivatingChildren" => \A child \in Been(g, children'[g.node]) : IsOff(child)'
      BY <2>2, <2>3 DEF Deactivations
    <2>8. g.at = "deactivating" => \A child \in Nodes : parent'[child] = g.node => IsOff(child)'
      BY <2>2, <2>5 DEF Deactivations
    <2> QED
      BY <1>2, <1>3, <2>1, <2>4, <2>7, <2>8 DEF NodeCallOK, ChildrenKept
  <1>6. CompCallOK(g)'
    BY <1>1, <1>2, <1>3 DEF CompCallOK, FrameTyped, CompCalls, Tree
  <1>7. PhaseOK(g)'
    BY <1>2, <1>3 DEF PhaseOK
  <1> QED
    BY <1>4, <1>5, <1>6, <1>7 DEF FrameOK

\* The caller too, when its call returns.
LEMMA CallerStays ==
    ASSUME NEW top, NEW a, top = Top, Caller2(a), FrameOK(top)'
    PROVE  FrameOK(a)'
  <1>1. a.at = top.at /\ a.node = top.node /\ a.comp = top.comp /\ a.n = top.n /\ a.i = top.i /\ a.batch = top.batch
    BY DEF Caller2, Resumed
  <1> QED
    BY <1>1 DEF FrameOK, FrameTyped, NodeCallOK, CompCallOK, PhaseOK, Been, Rest

\* No call is made...
LEMMA LeftAsItIs ==
    ASSUME IInv, NEW node, node # Root, TreeChange(node), Tree', NEW a, Caller2(a), stack' = Pushed(a, Callers),
           inHierarchy' = inHierarchy, (node \in inHierarchy <=> ShouldBeOn(node)')
    PROVE  IInv'
  <1> DEFINE T == Range(Callers)
  <1>1. Tree /\ Flags /\ Stacked /\ FramesOK /\ NodesOn /\ NodesOff /\ CompsOn /\ CompsOff /\ Lists /\ Queue /\ Lives
    BY DEF IInv
  <1>2. /\ node \in Nodes /\ \A g \in Frames : Spared(g, node)
        /\ \A m \in Nodes : m # node => parent'[m] = parent[m] /\ (m \in active' <=> m \in active)
        /\ UNCHANGED <<comps, nodeOf, enabled, created, alive, onLoaded, onEnabled, startCalled, startQueue, lists, life>>
        /\ \A f \in Frames : f.at \in {"activatingChildren", "deactivatingChildren"} => ChildrenKept(f)
        /\ (parent'[node] \in {Nothing, parent[node]} \/ \A g \in Frames : g.at \notin CallsOff)
    BY DEF TreeChange, compVars, flagVars
  <1>3. Resumed(a) /\ a.i = Top.i /\ Top.at \notin NodeCalls
    BY DEF Caller2
  <1>4. Frames = {Top} \cup T /\ Top \in Frames /\ (\A g \in T : g \in Frames) /\ \A g \in Frames : g \in FrameTypes
    BY <1>1, Context
  <1>5. LinksKept(stack)
    <2>1. \A g \in Range(stack) : Spared(g, node) /\ FrameTyped(g)
      BY <1>1, <1>2 DEF FramesOK, Frames
    <2> QED
      BY <1>1, <1>2, <2>1, LinksSpared
  <1>6. /\ Stacked' /\ Frames' = {a} \cup T
        /\ \A at, c : In(at, c)' <=> In(at, c)
        /\ \A m : GoesOff(m)' <=> GoesOff(m)
        /\ InPass' <=> InPass
    BY <1>1, <1>3, <1>5, GoesOn
  <1>7. Flags' /\ Lists' /\ Queue' /\ Lives' /\ \A c \in Comps : IsOn(c)' <=> IsOn(c)
    <2>1. Frames' = {a} \cup Range(Callers) \cup {} /\ \A f \in {} : f.at \in NodeCalls
      BY <1>6
    <2>2. \A at, c : c \in Comps => (In(at, c)' <=> In(at, c))
      BY <1>6
    <2>3. PICK N : N = {}
      OBVIOUS
    <2>4. Frames' = {a} \cup Range(Callers) \cup N /\ \A f \in N : f.at \in NodeCalls
      BY <2>1, <2>3
    <2> HIDE DEF T
    <2> QED
      BY <1>6, <2>2, <2>4, HooksKeepOn
  <1>8. a.at = Top.at /\ a.node = Top.node /\ a.comp = Top.comp /\ a.n = Top.n /\ a.i = Top.i /\ a.batch = Top.batch
    BY <1>3 DEF Resumed
  <1> HIDE DEF T, Top, Callers
  <1>9. ASSUME NEW g \in Frames
        PROVE  FrameOK(g)'
    <2>1. \A m : IsOff(m)' <=> IsOff(m)
      BY <1>6 DEF IsOff
    <2> QED
      BY <1>1, <1>7, <2>1, SwitchKeepsFrames
  <1>10. FramesOK'
    <2>1. PICK top : top = Top
      OBVIOUS
    <2>2. FrameOK(top)'
      BY <1>4, <1>9, <2>1
    <2>3. FrameOK(a)'
      BY <2>1, <2>2, CallerStays
    <2>4. ASSUME NEW g \in Frames'
          PROVE  FrameOK(g)'
      BY <1>4, <1>6, <1>9, <2>3, <2>4
    <2> QED
      BY <2>4 DEF FramesOK, FrameOK
  <1>11. NodesOn'
    <2> SUFFICES ASSUME NEW m \in inHierarchy' \ {Root}
                 PROVE  GoesOff(m)' \/ (m \in active' /\ parent'[m] = Root /\ Root \in inHierarchy')
      BY DEF NodesOn
    <2>1. m \in Nodes /\ m \in inHierarchy
      BY <1>1 DEF Tree
    <2>2. CASE m = node
      BY <2>1, <2>2 DEF ShouldBeOn
    <2>3. CASE m # node
      BY <1>1, <1>2, <1>6, <2>1, <2>3 DEF NodesOn
    <2> QED
      BY <2>2, <2>3
  <1>12. NodesOff'
    <2> SUFFICES ASSUME NEW m \in active' \ {Root}, parent'[m] = Root, Root \in inHierarchy'
                 PROVE  \/ m \in inHierarchy' /\ ~GoesOff(m)'
                        \/ \E f \in Frames' : f.node = Root /\ WillSwitch(f, m)'
      BY DEF NodesOff
    <2>1. m \in Nodes
      BY DEF Tree
    <2>2. CASE m = node
      <3>1. \A g \in Frames : g.at \in Deactivations => g.node # node
        BY <1>2 DEF Spared, NodeCalls
      <3> QED
        BY <1>2, <1>6, <2>2, <3>1 DEF ShouldBeOn, GoesOff
    <2>3. CASE m # node
      <3>1. m \in active /\ parent[m] = Root /\ Root \in inHierarchy
        BY <1>2, <2>1, <2>3
      <3>2. CASE m \in inHierarchy /\ ~GoesOff(m)
        BY <1>6, <3>2
      <3>3. CASE \E f \in Frames : f.node = Root /\ WillSwitch(f, m)
        <4>1. PICK f \in Frames : f.node = Root /\ WillSwitch(f, m)
          BY <3>3
        <4>2. f.at \in NodeCalls
          BY <4>1 DEF WillSwitch, NodeCalls, Activations, Deactivations
        <4>3. f \in Frames'
          BY <1>3, <1>4, <1>6, <4>2
        <4>4. WillSwitch(f, m)'
          <5>1. f.at = "activatingChildren" => ChildrenKept(f) /\ FrameTyped(f) /\ f \in FrameTypes
            BY <1>1, <1>2, <1>4 DEF FramesOK
          <5>2. f.at = "activatingChildren" /\ m \in Rest(f, children[Root]) => m \in Rest(f, children'[Root])
            BY <4>1, <5>1 DEF Rest, ChildrenKept, FrameTyped, FrameTypes
          <5> QED
            BY <4>1, <5>2 DEF WillSwitch
        <4> QED
          BY <4>1, <4>3, <4>4
      <3> QED
        BY <1>1, <3>1, <3>2, <3>3 DEF NodesOff
    <2> QED
      BY <2>2, <2>3
  <1>13. CompsOn'
    BY <1>1, <1>2, <1>7 DEF CompsOn, EnabledInHierarchy
  <1>14. CompsOff'
    <2> SUFFICES ASSUME NEW c \in alive', EnabledInHierarchy(c)'
                 PROVE  IsOn(c)' \/ \E f \in Frames' : Excuses(f, c)'
      BY DEF CompsOff
    <2>1. c \in alive /\ c \in Comps /\ EnabledInHierarchy(c)
      BY <1>1, <1>2 DEF Tree, EnabledInHierarchy
    <2>2. CASE IsOn(c)
      BY <1>7, <2>1, <2>2
    <2>3. CASE \E f \in Frames : Excuses(f, c)
      <3>1. PICK f \in Frames : Excuses(f, c)
        BY <2>3
      <3>2. Excuses(f, c)'
        BY <1>2, <3>1 DEF Excuses, Rest
      <3>3. CASE f = Top
        <4>1. Excuses(a, c)'
          BY <1>2, <1>3, <1>8, <3>1, <3>3 DEF Excuses, NodeCalls, Activations, Deactivations
        <4> QED
          BY <1>6, <4>1
      <3>4. CASE f # Top
        BY <1>4, <1>6, <3>2, <3>4
      <3> QED
        BY <3>3, <3>4
    <2> QED
      BY <1>1, <2>1, <2>2, <2>3 DEF CompsOff
  <1> QED
    BY <1>6, <1>7, <1>10, <1>11, <1>12, <1>13, <1>14 DEF IInv


\* ... or the node begins to be deactivated: the caller goes on when it is...
LEMMA SwitchedOff ==
    ASSUME IInv, NEW node, TreeChange(node), Tree', NEW a, Caller2(a), inHierarchy' = inHierarchy,
           stack' = Pushed(NodeFrame("deactivatingChildren", node, Len(children'[node])), Pushed(a, Callers)),
           node # Root => ~ShouldBeOn(node)'
    PROVE  IInv'
  <1> DEFINE T == Range(Callers)
  <1>1. Tree /\ Flags /\ Stacked /\ FramesOK /\ NodesOn /\ NodesOff /\ CompsOn /\ CompsOff /\ Lists /\ Queue /\ Lives
    BY DEF IInv
  <1>2. /\ node \in Nodes /\ \A g \in Frames : Spared(g, node)
        /\ \A m \in Nodes : m # node => parent'[m] = parent[m] /\ (m \in active' <=> m \in active)
        /\ UNCHANGED <<comps, nodeOf, enabled, created, alive, onLoaded, onEnabled, startCalled, startQueue, lists, life>>
        /\ \A f \in Frames : f.at \in {"activatingChildren", "deactivatingChildren"} => ChildrenKept(f)
    BY DEF TreeChange, compVars, flagVars
  <1>3. Resumed(a) /\ a.i = Top.i /\ Top.at \notin NodeCalls
    BY DEF Caller2
  <1>4. Frames = {Top} \cup T /\ Top \in Frames /\ (\A g \in T : g \in Frames) /\ \A g \in Frames : g \in FrameTypes
    BY <1>1, Context
  <1>5. LinksKept(stack)
    <2>1. \A g \in Range(stack) : Spared(g, node) /\ FrameTyped(g)
      BY <1>1, <1>2 DEF FramesOK, Frames
    <2> QED
      BY <1>1, <1>2, <2>1, LinksSpared
  <1>6. a.at = Top.at /\ a.node = Top.node /\ a.comp = Top.comp /\ a.n = Top.n /\ a.i = Top.i /\ a.batch = Top.batch
    BY <1>3 DEF Resumed
  <1>7. PICK f : f = NodeFrame("deactivatingChildren", node, Len(children'[node]))
    OBVIOUS
  <1>8. children'[node] \in Seq(Nodes) /\ Len(children'[node]) \in Nat
    BY <1>2 DEF Tree
  <1>9. /\ f \in FrameTypes /\ f.at = "deactivatingChildren" /\ f.node = node /\ f.comp = Nothing /\ f.i = 1
        /\ f.n = Len(children'[node])
    <2>1. PICK n \in Nat : n = Len(children'[node])
      BY <1>8
    <2>2. "deactivatingChildren" \in NodeCalls /\ f = NodeFrame("deactivatingChildren", node, n)
      BY <1>7, <2>1 DEF NodeCalls, Deactivations
    <2> QED
      BY <1>2, <2>1, <2>2, NewFrames
  <1>10. /\ Stacked' /\ Frames' = {f, a} \cup T
         /\ \A at, c : In(at, c)' <=> In(at, c) \/ (at = "deactivatingChildren" /\ c = Nothing)
         /\ \A m : GoesOff(m)' <=> GoesOff(m) \/ m = node
         /\ InPass' <=> InPass
    <2>1. ASSUME NEW g \in {a} \cup Range(Callers)
          PROVE  MayBeAbove(f, g, parent', nodeOf')
      <3>1. Spared(g, node) /\ FrameTyped(g)
        BY <1>1, <1>2, <1>4, <1>6, <2>1 DEF Spared, FrameTyped, FramesOK
      <3> QED
        BY <1>1, <1>2, <1>9, <3>1 DEF MayBeAbove, Spared, FrameTyped, Phases, Passes, CallsOff, CompCalls,
                                      Deactivations, Tree
    <2>2. stack' = Pushed(f, Pushed(a, Callers))
      BY <1>7
    <2> HIDE DEF Top, Callers
    <2>3. /\ Stacked' /\ Frames' = {f, a} \cup Range(Callers)
          /\ \A at, c : In(at, c)' <=> In(at, c) \/ (at = f.at /\ c = f.comp)
          /\ \A m : GoesOff(m)' <=> GoesOff(m) \/ (f.at \in Deactivations /\ m = f.node)
          /\ f.at \notin Passes => (InPass' <=> InPass)
      BY <1>1, <1>3, <1>5, <1>9, <2>1, <2>2, CallsOn
    <2> QED
      BY <1>9, <2>3 DEF Deactivations, Passes
  <1>11. Flags' /\ Lists' /\ Queue' /\ Lives' /\ \A c \in Comps : IsOn(c)' <=> IsOn(c)
    <2>1. PICK N : N = {f}
      OBVIOUS
    <2>2. Frames' = {a} \cup Range(Callers) \cup N /\ \A g \in N : g.at \in NodeCalls
      BY <1>9, <1>10, <2>1 DEF NodeCalls, Deactivations
    <2>3. \A at, c : c \in Comps => (In(at, c)' <=> In(at, c))
      BY <1>10, LifecycleAssumption
    <2> HIDE DEF T
    <2> QED
      BY <1>10, <2>2, <2>3, HooksKeepOn
  <1> HIDE DEF T, Top, Callers
  <1>12. \A m : IsOff(m) => IsOff(m)'
    BY <1>10 DEF IsOff
  <1>13. \A g \in Frames : FrameOK(g)'
    BY <1>1, <1>11, <1>12, SwitchKeepsFrames
  <1>14. FrameOK(f)'
    BY <1>2, <1>8, <1>9 DEF FrameOK, FrameTyped, NodeCallOK, CompCallOK, PhaseOK, Been, NodeCalls,
                            Activations, Deactivations, CompCalls, Runs
  <1>15. FramesOK'
    <2>1. PICK top : top = Top
      OBVIOUS
    <2>2. FrameOK(top)'
      BY <1>4, <1>13, <2>1
    <2>3. FrameOK(a)'
      BY <2>1, <2>2, CallerStays
    <2>4. ASSUME NEW g \in Frames'
          PROVE  FrameOK(g)'
      BY <1>4, <1>10, <1>13, <1>14, <2>3, <2>4
    <2> QED
      BY <2>4 DEF FramesOK, FrameOK
  <1>16. NodesOn'
    <2> SUFFICES ASSUME NEW m \in inHierarchy' \ {Root}
                 PROVE  GoesOff(m)' \/ (m \in active' /\ parent'[m] = Root /\ Root \in inHierarchy')
      BY DEF NodesOn
    <2>1. m \in Nodes /\ m \in inHierarchy
      BY <1>1 DEF Tree
    <2> QED
      BY <1>1, <1>2, <1>10, <2>1 DEF NodesOn
  <1>17. NodesOff'
    <2> SUFFICES ASSUME NEW m \in active' \ {Root}, parent'[m] = Root, Root \in inHierarchy'
                 PROVE  \/ m \in inHierarchy' /\ ~GoesOff(m)'
                        \/ \E g \in Frames' : g.node = Root /\ WillSwitch(g, m)'
      BY DEF NodesOff
    <2>1. m \in Nodes /\ m # node
      BY DEF Tree, ShouldBeOn
    <2>2. m \in active /\ parent[m] = Root /\ Root \in inHierarchy
      BY <1>2, <2>1
    <2>3. CASE m \in inHierarchy /\ ~GoesOff(m)
      BY <1>10, <2>1, <2>3
    <2>4. CASE \E g \in Frames : g.node = Root /\ WillSwitch(g, m)
      <3>1. PICK g \in Frames : g.node = Root /\ WillSwitch(g, m)
        BY <2>4
      <3>2. g.at \in NodeCalls
        BY <3>1 DEF WillSwitch, NodeCalls, Activations, Deactivations
      <3>3. g \in Frames'
        BY <1>3, <1>4, <1>10, <3>2
      <3>4. g.at = "activatingChildren" => ChildrenKept(g) /\ FrameTyped(g) /\ g \in FrameTypes
        BY <1>1, <1>2, <1>4 DEF FramesOK
      <3>5. g.at = "activatingChildren" /\ m \in Rest(g, children[Root]) => m \in Rest(g, children'[Root])
        BY <3>1, <3>4 DEF Rest, ChildrenKept, FrameTyped, FrameTypes
      <3> QED
        BY <3>1, <3>3, <3>5 DEF WillSwitch
    <2> QED
      BY <1>1, <2>2, <2>3, <2>4 DEF NodesOff
  <1>18. CompsOn'
    BY <1>1, <1>2, <1>11 DEF CompsOn, EnabledInHierarchy
  <1>19. CompsOff'
    <2> SUFFICES ASSUME NEW c \in alive', EnabledInHierarchy(c)'
                 PROVE  IsOn(c)' \/ \E g \in Frames' : Excuses(g, c)'
      BY DEF CompsOff
    <2>1. c \in alive /\ c \in Comps /\ EnabledInHierarchy(c)
      BY <1>1, <1>2 DEF Tree, EnabledInHierarchy
    <2>2. CASE IsOn(c)
      BY <1>11, <2>1, <2>2
    <2>3. CASE \E g \in Frames : Excuses(g, c)
      <3>1. PICK g \in Frames : Excuses(g, c)
        BY <2>3
      <3>2. Excuses(g, c)'
        BY <1>2, <3>1 DEF Excuses, Rest
      <3>3. CASE g = Top
        <4>1. Excuses(a, c)'
          BY <1>2, <1>3, <1>6, <3>1, <3>3 DEF Excuses, NodeCalls, Activations, Deactivations
        <4> QED
          BY <1>10, <4>1
      <3>4. CASE g # Top
        BY <1>4, <1>10, <3>2, <3>4
      <3> QED
        BY <3>3, <3>4
    <2> QED
      BY <1>1, <2>1, <2>2, <2>3 DEF CompsOff
  <1> QED
    BY <1>10, <1>11, <1>15, <1>16, <1>17, <1>18, <1>19 DEF IInv

\* ... or activated, by code that no call which switches off has called.
LEMMA SwitchedOn ==
    ASSUME IInv, NEW node, TreeChange(node), Tree', NEW a, Caller2(a),
           inHierarchy' = inHierarchy \cup {node}, node \notin inHierarchy,
           stack' = Pushed(NodeFrame("activating", node, Len(comps[node])), Pushed(a, Callers)),
           node # Root => ShouldBeOn(node)', \A g \in Frames : g.at \notin CallsOff \cup {"start", "starting"}
    PROVE  IInv'
  <1> DEFINE T == Range(Callers)
  <1>1. Tree /\ Flags /\ Stacked /\ FramesOK /\ NodesOn /\ NodesOff /\ CompsOn /\ CompsOff /\ Lists /\ Queue /\ Lives
    BY DEF IInv
  <1>2. /\ node \in Nodes /\ \A g \in Frames : Spared(g, node)
        /\ \A m \in Nodes : m # node => parent'[m] = parent[m] /\ (m \in active' <=> m \in active)
        /\ UNCHANGED <<comps, nodeOf, enabled, created, alive, onLoaded, onEnabled, startCalled, startQueue, lists, life>>
        /\ \A f \in Frames : f.at \in {"activatingChildren", "deactivatingChildren"} => ChildrenKept(f)
    BY DEF TreeChange, compVars, flagVars
  <1>3. Resumed(a) /\ a.i = Top.i /\ Top.at \notin NodeCalls
    BY DEF Caller2
  <1>4. Frames = {Top} \cup T /\ Top \in Frames /\ (\A g \in T : g \in Frames) /\ \A g \in Frames : g \in FrameTypes
    BY <1>1, Context
  <1>5. LinksKept(stack)
    <2>1. \A g \in Range(stack) : Spared(g, node) /\ FrameTyped(g)
      BY <1>1, <1>2 DEF FramesOK, Frames
    <2> QED
      BY <1>1, <1>2, <2>1, LinksSpared
  <1>6. a.at = Top.at /\ a.node = Top.node /\ a.comp = Top.comp /\ a.n = Top.n /\ a.i = Top.i /\ a.batch = Top.batch
    BY <1>3 DEF Resumed
  <1>7. PICK f : f = NodeFrame("activating", node, Len(comps[node]))
    OBVIOUS
  <1>8. comps[node] \in Seq(Comps) /\ Len(comps[node]) \in Nat
    BY <1>1, <1>2 DEF Tree
  <1>9. /\ f \in FrameTypes /\ f.at = "activating" /\ f.node = node /\ f.comp = Nothing /\ f.i = 1
        /\ f.n = Len(comps[node])
    <2>1. PICK n \in Nat : n = Len(comps[node])
      BY <1>8
    <2>2. "activating" \in NodeCalls /\ f = NodeFrame("activating", node, n)
      BY <1>7, <2>1 DEF NodeCalls, Activations
    <2> QED
      BY <1>2, <2>1, <2>2, NewFrames
  <1>10. /\ Stacked' /\ Frames' = {f, a} \cup T
         /\ \A at, c : In(at, c)' <=> In(at, c) \/ (at = "activating" /\ c = Nothing)
         /\ \A m : GoesOff(m)' <=> GoesOff(m)
         /\ InPass' <=> InPass
    <2>1. ASSUME NEW g \in {a} \cup Range(Callers)
          PROVE  MayBeAbove(f, g, parent', nodeOf')
      <3>1. Spared(g, node) /\ FrameTyped(g)
        BY <1>1, <1>2, <1>4, <1>6, <2>1 DEF Spared, FrameTyped, FramesOK
      <3>2. g.at \notin CallsOff \cup {"start", "starting"}
        BY <1>4, <1>6, <2>1
      <3> QED
        BY <1>1, <1>2, <1>9, <3>1, <3>2
           DEF MayBeAbove, Spared, FrameTyped, Phases, Passes, CallsOff, CompCalls, Deactivations, Tree
    <2>2. stack' = Pushed(f, Pushed(a, Callers))
      BY <1>7
    <2> HIDE DEF Top, Callers
    <2>3. /\ Stacked' /\ Frames' = {f, a} \cup Range(Callers)
          /\ \A at, c : In(at, c)' <=> In(at, c) \/ (at = f.at /\ c = f.comp)
          /\ \A m : GoesOff(m)' <=> GoesOff(m) \/ (f.at \in Deactivations /\ m = f.node)
          /\ f.at \notin Passes => (InPass' <=> InPass)
      BY <1>1, <1>3, <1>5, <1>9, <2>1, <2>2, CallsOn
    <2> QED
      BY <1>9, <2>3 DEF Deactivations, Passes
  <1>11. Flags' /\ Lists' /\ Queue' /\ Lives' /\ \A c \in Comps : IsOn(c)' <=> IsOn(c)
    <2>1. PICK N : N = {f}
      OBVIOUS
    <2>2. Frames' = {a} \cup Range(Callers) \cup N /\ \A g \in N : g.at \in NodeCalls
      BY <1>9, <1>10, <2>1 DEF NodeCalls, Activations
    <2>3. \A at, c : c \in Comps => (In(at, c)' <=> In(at, c))
      BY <1>10, LifecycleAssumption
    <2> HIDE DEF T
    <2> QED
      BY <1>10, <2>2, <2>3, HooksKeepOn
  <1> HIDE DEF T, Top, Callers
  <1>12. \A g \in Frames : g.at \notin CallsOff
    OBVIOUS
  <1>13. \A g \in Frames : FrameOK(g)'
    BY <1>1, <1>11, <1>12, SwitchKeepsFrames
  <1>14. FrameOK(f)'
    BY <1>2, <1>8, <1>9 DEF FrameOK, FrameTyped, NodeCallOK, CompCallOK, PhaseOK, Been, NodeCalls,
                            Activations, Deactivations, CompCalls, Runs
  <1>15. FramesOK'
    <2>1. PICK top : top = Top
      OBVIOUS
    <2>2. FrameOK(top)'
      BY <1>4, <1>13, <2>1
    <2>3. FrameOK(a)'
      BY <2>1, <2>2, CallerStays
    <2>4. ASSUME NEW g \in Frames'
          PROVE  FrameOK(g)'
      BY <1>4, <1>10, <1>13, <1>14, <2>3, <2>4
    <2> QED
      BY <2>4 DEF FramesOK, FrameOK
  <1>16. NodesOn'
    <2> SUFFICES ASSUME NEW m \in inHierarchy' \ {Root}
                 PROVE  m \in active' /\ parent'[m] = Root /\ Root \in inHierarchy'
      BY DEF NodesOn
    <2>1. CASE m = node
      BY <2>1 DEF ShouldBeOn
    <2>2. CASE m # node
      <3>1. m \in Nodes /\ m \in inHierarchy
        BY <1>1, <2>2 DEF Tree
      <3>2. ~GoesOff(m)
        BY <1>12 DEF GoesOff, CallsOff
      <3> QED
        BY <1>1, <1>2, <2>2, <3>1, <3>2 DEF NodesOn
    <2> QED
      BY <2>1, <2>2
  <1>17. NodesOff'
    <2> SUFFICES ASSUME NEW m \in active' \ {Root}, parent'[m] = Root, Root \in inHierarchy'
                 PROVE  \/ m \in inHierarchy' /\ ~GoesOff(m)'
                        \/ \E g \in Frames' : g.node = Root /\ WillSwitch(g, m)'
      BY DEF NodesOff
    <2>1. ~GoesOff(m)'
      BY <1>10, <1>12 DEF GoesOff, CallsOff
    <2>2. CASE m = node
      BY <2>1, <2>2
    <2>0. CASE node = Root
      BY <1>9, <1>10, <2>0 DEF WillSwitch
    <2>5. m # node /\ node # Root => m \in active /\ parent[m] = Root /\ Root \in inHierarchy
      BY <1>2 DEF Tree
    <2>3. CASE m \in inHierarchy /\ ~GoesOff(m)
      BY <2>1, <2>3
    <2>4. CASE \E g \in Frames : g.node = Root /\ WillSwitch(g, m)
      <3>1. PICK g \in Frames : g.node = Root /\ WillSwitch(g, m)
        BY <2>4
      <3>2. g.at \in NodeCalls
        BY <3>1 DEF WillSwitch, NodeCalls, Activations, Deactivations
      <3>3. g \in Frames'
        BY <1>3, <1>4, <1>10, <3>2
      <3>4. g.at = "activatingChildren" => ChildrenKept(g) /\ FrameTyped(g) /\ g \in FrameTypes
        BY <1>1, <1>2, <1>4 DEF FramesOK
      <3>5. g.at = "activatingChildren" /\ m \in Rest(g, children[Root]) => m \in Rest(g, children'[Root])
        BY <3>1, <3>4 DEF Rest, ChildrenKept, FrameTyped, FrameTypes
      <3> QED
        BY <3>1, <3>3, <3>5 DEF WillSwitch
    <2> QED
      BY <1>1, <2>0, <2>2, <2>3, <2>4, <2>5 DEF NodesOff
  <1>18. CompsOn'
    BY <1>1, <1>2, <1>11 DEF CompsOn, EnabledInHierarchy
  <1>19. CompsOff'
    <2> SUFFICES ASSUME NEW c \in alive', EnabledInHierarchy(c)'
                 PROVE  IsOn(c)' \/ \E g \in Frames' : Excuses(g, c)'
      BY DEF CompsOff
    <2>0. c \in alive /\ c \in Comps
      BY <1>1, <1>2 DEF Tree
    <2>4. CASE nodeOf[c] = node
      <3>1. c \in Range(comps[node])
        BY <1>1, <2>0, <2>4 DEF Tree
      <3>2. c \in Rest(f, comps'[node])
        BY <1>2, <1>8, <1>9, <3>1 DEF Rest, Range
      <3>3. f \in Frames'
        BY <1>10
      <3> QED
        BY <1>2, <1>9, <2>4, <3>2, <3>3 DEF Excuses
    <2>1. nodeOf[c] # node => EnabledInHierarchy(c)
      BY <1>1, <1>2 DEF EnabledInHierarchy
    <2>2. CASE IsOn(c)
      BY <1>11, <2>0, <2>2
    <2>3. CASE \E g \in Frames : Excuses(g, c)
      <3>1. PICK g \in Frames : Excuses(g, c)
        BY <2>3
      <3>2. Excuses(g, c)'
        BY <1>2, <3>1 DEF Excuses, Rest
      <3>3. CASE g = Top
        <4>1. Excuses(a, c)'
          BY <1>2, <1>3, <1>6, <3>1, <3>3 DEF Excuses, NodeCalls, Activations, Deactivations
        <4> QED
          BY <1>10, <4>1
      <3>4. CASE g # Top
        BY <1>4, <1>10, <3>2, <3>4
      <3> QED
        BY <3>3, <3>4
    <2> QED
      BY <1>1, <2>0, <2>1, <2>2, <2>3, <2>4 DEF CompsOff
  <1> QED
    BY <1>10, <1>11, <1>15, <1>16, <1>17, <1>18, <1>19 DEF IInv

\* Whichever of the three it is.
LEMMA BeginSwitchKeeps ==
    ASSUME CallsSafely, IInv, NEW op, Calls(op), NEW node, TreeChange(node), Tree', NEW on \in BOOLEAN,
           BeginSwitch(node, on, Caller), children'[node] = children[node],
           node # Root => (on <=> ShouldBeOn(node)'), node = Root => (Root \in inHierarchy) # on,
           on => op \notin SwitchesOff
    PROVE  IInv'
  <1>1. Stacked /\ FramesOK
    BY DEF IInv
  <1>2. PICK a : a = [Top EXCEPT !.used = @ + 1]
    OBVIOUS
  <1>3. /\ Caller2(a) /\ Caller = Pushed(a, Callers)
        /\ op \notin SwitchesOff => \A g \in Frames : g.at \notin CallsOff \cup {"start", "starting"}
    BY <1>1, <1>2, CallFacts DEF Caller2
  <1>4. CASE (node \in inHierarchy) = on
    <2>1. node # Root /\ stack' = Pushed(a, Callers) /\ inHierarchy' = inHierarchy
      BY <1>3, <1>4 DEF BeginSwitch
    <2> QED
      BY <1>3, <1>4, <2>1, LeftAsItIs
  <1>5. CASE (node \in inHierarchy) # on /\ on
    <2>1. stack' = Pushed(NodeFrame("activating", node, Len(comps[node])), Pushed(a, Callers))
          /\ inHierarchy' = inHierarchy \cup {node}
      BY <1>3, <1>5 DEF BeginSwitch, BeginActivate
    <2>2. node \notin inHierarchy /\ (node # Root => ShouldBeOn(node)')
      BY <1>5
    <2>3. \A g \in Frames : g.at \notin CallsOff \cup {"start", "starting"}
      BY <1>3, <1>5
    <2> QED
      BY <1>3, <2>1, <2>2, <2>3, SwitchedOn
  <1>6. CASE (node \in inHierarchy) # on /\ ~on
    <2>1. stack' = Pushed(NodeFrame("deactivatingChildren", node, Len(children'[node])), Pushed(a, Callers))
          /\ inHierarchy' = inHierarchy
      BY <1>3, <1>6 DEF BeginSwitch, BeginDeactivate
    <2>2. node # Root => ~ShouldBeOn(node)'
      BY <1>6
    <2> QED
      BY <1>3, <2>1, <2>2, SwitchedOff
  <1> QED
    BY <1>4, <1>5, <1>6

\* Where no link changes, the loops run over the children they began with.
LEMMA SameChildren ==
    ASSUME FramesOK, UNCHANGED children
    PROVE  \A f \in Frames : f.at \in {"activatingChildren", "deactivatingChildren"} => ChildrenKept(f)
  BY DEF FramesOK, NodeCallOK, ChildrenKept

LEMMA SwitchRootKeeps ==
    ASSUME CallsSafely, IInv, NEW on \in BOOLEAN, SwitchRoot(on)
    PROVE  IInv'
  <1>1. Tree /\ Stacked /\ FramesOK
    BY DEF IInv
  <1>2. PICK op : op = IF on THEN "activate" ELSE "deactivate"
    OBVIOUS
  <1>3. /\ Calls(op) /\ Free(Root) /\ (Root \in inHierarchy) # on /\ BeginSwitch(Root, on, Caller)
        /\ UNCHANGED <<treeVars, compVars, flagVars, startQueue, lists, life>>
    BY <1>2 DEF SwitchRoot
  <1>4. on => op \notin SwitchesOff
    BY <1>2 DEF SwitchesOff
  <1>5. Tree'
    <2>1. inHierarchy' \subseteq Nodes
      BY <1>1, <1>3, LifecycleAssumption DEF BeginSwitch, BeginActivate, BeginDeactivate, Tree
    <2> QED
      BY <1>1, <1>3, <2>1 DEF Tree, treeVars, compVars
  <1>6. TreeChange(Root)
    <2>1. \A g \in Frames : Spared(g, Root)
      BY <1>1, <1>3, FreeIsSpared, LifecycleAssumption DEF CallsSafely
    <2> QED
      BY <1>1, <1>3, <2>1, SameChildren, LifecycleAssumption DEF TreeChange, treeVars
  <1>7. PICK node : node = Root
    OBVIOUS
  <1>8. children' = children
    BY <1>3 DEF treeVars
  <1> QED
    BY <1>3, <1>4, <1>5, <1>6, <1>7, <1>8, BeginSwitchKeeps

\* What is spared and should not be on is not.
LEMMA SparedIsOff ==
    ASSUME Tree, NodesOn, NEW node \in Nodes \ {Root}, \A g \in Frames : Spared(g, node), node \in inHierarchy
    PROVE  ShouldBeOn(node)
  <1>1. ~GoesOff(node)
    BY DEF GoesOff, Spared, NodeCalls
  <1> QED
    BY <1>1 DEF NodesOn, ShouldBeOn

\* setActive and what destroy does of it.
LEMMA SwitchKeeps ==
    ASSUME CallsSafely, IInv, NEW op, Calls(op), NEW node \in Nodes \ {Root}, TreeChange(node), Tree',
           NEW on \in BOOLEAN, Switch(node, on), UNCHANGED <<parent, children>>, on => op \notin SwitchesOff
    PROVE  IInv'
  <1>1. Tree /\ Stacked /\ FramesOK /\ NodesOn
    BY DEF IInv
  <1>2. node \in active' <=> on
    BY DEF Switch
  <1>3. CASE parent[node] \in inHierarchy
    <2>1. parent[node] = Root
      BY <1>1, <1>3, LifecycleAssumption DEF Tree
    <2>2. BeginSwitch(node, on, Caller)
      BY <1>3 DEF Switch
    <2>3. Root \in inHierarchy'
      BY <1>3, <2>1, <2>2 DEF BeginSwitch, BeginActivate, BeginDeactivate
    <2>4. on <=> ShouldBeOn(node)'
      BY <1>2, <2>1, <2>3 DEF ShouldBeOn
    <2> QED
      BY <2>2, <2>4, BeginSwitchKeeps
  <1>4. CASE parent[node] \notin inHierarchy
    <2>1. stack' = Caller /\ inHierarchy' = inHierarchy
      BY <1>4 DEF Switch
    <2>2. PICK a : a = [Top EXCEPT !.used = @ + 1]
      OBVIOUS
    <2>3. Caller2(a) /\ Caller = Pushed(a, Callers)
      BY <1>1, <2>2, CallFacts DEF Caller2
    <2>4. node \notin inHierarchy
      BY <1>1, <1>4, SparedIsOff DEF TreeChange, ShouldBeOn
    <2>5. ~ShouldBeOn(node)'
      BY <1>4, <2>1 DEF ShouldBeOn
    <2> QED
      BY <2>1, <2>3, <2>4, <2>5, LeftAsItIs
  <1> QED
    BY <1>3, <1>4

LEMMA SetActiveKeeps ==
    ASSUME CallsSafely, IInv, NEW node \in Nodes, NEW on \in BOOLEAN, SetActive(node, on)
    PROVE  IInv'
  <1>1. Tree /\ Stacked /\ FramesOK
    BY DEF IInv
  <1>2. PICK op : op = IF on THEN "activate" ELSE "deactivate"
    OBVIOUS
  <1>3. /\ Calls(op) /\ node \notin doomed \cup {Root} /\ Free(node) /\ Switch(node, on)
        /\ UNCHANGED <<parent, children, comps, doomed, compVars, flagVars, startQueue, lists, life>>
    BY <1>2 DEF SetActive
  <1>4. on => op \notin SwitchesOff
    BY <1>2 DEF SwitchesOff
  <1>5. \A m \in Nodes : m # node => (m \in active' <=> m \in active)
    BY <1>3 DEF Switch
  <1>6. Tree'
    <2>1. inHierarchy' \subseteq Nodes
      BY <1>1, <1>3 DEF Switch, BeginSwitch, BeginActivate, BeginDeactivate, Tree
    <2>2. active' \subseteq Nodes /\ active' \cap doomed = {}
      BY <1>1, <1>3 DEF Switch, Tree
    <2> QED
      BY <1>1, <1>3, <2>1, <2>2 DEF Tree, compVars
  <1>7. TreeChange(node)
    <2>1. \A g \in Frames : Spared(g, node)
      BY <1>1, <1>3, FreeIsSpared, LifecycleAssumption DEF CallsSafely
    <2> QED
      BY <1>1, <1>3, <1>5, <2>1, SameChildren DEF TreeChange
  <1> QED
    BY <1>3, <1>4, <1>6, <1>7, SwitchKeeps

LEMMA DestroyNodeKeeps ==
    ASSUME CallsSafely, IInv, NEW node \in Nodes, DestroyNode(node)
    PROVE  IInv'
  <1>1. Tree /\ Stacked /\ FramesOK /\ NodesOn
    BY DEF IInv
  <1>2. /\ Calls("destroy") /\ node \notin doomed \cup {Root} /\ Free(node) /\ doomed' = doomed \cup {node}
        /\ UNCHANGED <<parent, children, comps, compVars, flagVars, startQueue, lists, life>>
        /\ IF node \in active THEN Switch(node, FALSE) ELSE stack' = Caller /\ UNCHANGED <<active, inHierarchy>>
    BY DEF DestroyNode
  <1>3. active' = active \ {node}
    BY <1>2 DEF Switch
  <1>4. Tree'
    <2>1. inHierarchy' \subseteq Nodes
      BY <1>1, <1>2 DEF Switch, BeginSwitch, BeginActivate, BeginDeactivate, Tree
    <2>2. active' \subseteq Nodes /\ active' \cap doomed' = {}
      BY <1>1, <1>2, <1>3 DEF Tree
    <2> QED
      BY <1>1, <1>2, <2>1, <2>2 DEF Tree, compVars
  <1>5. TreeChange(node)
    <2>1. \A g \in Frames : Spared(g, node)
      BY <1>1, <1>2, FreeIsSpared, LifecycleAssumption DEF CallsSafely
    <2> QED
      BY <1>1, <1>2, <1>3, <2>1, SameChildren DEF TreeChange
  <1>6. CASE node \in active
    BY <1>2, <1>4, <1>5, <1>6, SwitchKeeps
  <1>7. CASE node \notin active
    <2>1. stack' = Caller /\ inHierarchy' = inHierarchy
      BY <1>2, <1>7
    <2>2. PICK a : a = [Top EXCEPT !.used = @ + 1]
      OBVIOUS
    <2>3. Caller2(a) /\ Caller = Pushed(a, Callers)
      BY <1>1, <1>2, <2>2, CallFacts DEF Caller2
    <2>4. node \notin inHierarchy
      BY <1>1, <1>2, <1>5, <1>7, SparedIsOff DEF TreeChange, ShouldBeOn
    <2>5. ~ShouldBeOn(node)'
      BY <1>3 DEF ShouldBeOn
    <2> QED
      BY <1>2, <1>4, <1>5, <2>1, <2>3, <2>4, <2>5, LeftAsItIs
  <1> QED
    BY <1>6, <1>7

LEMMA SetParentKeeps ==
    ASSUME CallsSafely, IInv, NEW node \in Nodes, NEW new \in {Root, Nothing}, SetParent(node, new)
    PROVE  IInv'
  <1>1. Tree /\ Stacked /\ FramesOK
    BY DEF IInv
  <1>2. PICK op : op = IF new = Root THEN "attach" ELSE "detach"
    OBVIOUS
  <1>3. /\ Calls(op) /\ node \notin doomed \cup {Root} /\ Free(node) /\ parent[node] # new
        /\ new = Nothing => Free(Root)
        /\ parent' = [parent EXCEPT ![node] = new]
        /\ children' = [children EXCEPT ![Root] = Reparented(node, new)]
        /\ BeginSwitch(node, ShouldActive(node, new), Caller)
        /\ UNCHANGED <<comps, active, doomed, compVars, flagVars, startQueue, lists, life>>
    BY <1>2 DEF SetParent
  <1>4. \A g \in Frames : Spared(g, node) /\ (new = Nothing => Spared(g, Root))
    BY <1>1, <1>3, FreeIsSpared, LifecycleAssumption DEF CallsSafely
  <1>5. new = Root => op \notin SwitchesOff /\ \A g \in Frames : g.at \notin CallsOff \cup {"start", "starting"}
    BY <1>1, <1>2, <1>3, CallFacts DEF SwitchesOff
  <1>6. /\ Root \in Nodes /\ Nothing # Root /\ Nothing \notin Nodes /\ children[Root] \in Seq(Nodes)
        /\ IsInjective(children[Root]) /\ parent \in [Nodes -> {Root, Nothing}]
    BY <1>1, LifecycleAssumption DEF Tree
  <1>7. /\ Reparented(node, new) \in Seq(Nodes) /\ IsInjective(Reparented(node, new))
        /\ Range(Reparented(node, new)) = IF new = Root THEN Range(children[Root]) \cup {node}
                                                      ELSE Range(children[Root]) \ {node}
    <2>1. new = Root => node \notin Range(children[Root])
      BY <1>1, <1>3 DEF Tree
    <2>2. CASE new = Root
      BY <1>6, <2>1, <2>2, AppendFacts DEF Reparented
    <2>3. CASE new # Root
      BY <1>6, <2>3, WithoutFacts DEF Reparented
    <2> QED
      BY <2>2, <2>3
  <1>8. /\ children'[Root] = Reparented(node, new) /\ \A m \in Nodes \ {Root} : children'[m] = children[m]
        /\ children' \in [Nodes -> Seq(Nodes)]
    BY <1>1, <1>3, <1>6, <1>7 DEF Tree
  <1>9. /\ parent' \in [Nodes -> {Root, Nothing}] /\ parent'[node] = new
        /\ \A m \in Nodes : m # node => parent'[m] = parent[m]
    BY <1>3, <1>6
  <1>10. Tree'
    <2>1. inHierarchy' \subseteq Nodes
      BY <1>1, <1>3 DEF BeginSwitch, BeginActivate, BeginDeactivate, Tree
    <2>2. \A m \in Nodes : IsInjective(children'[m])
      BY <1>1, <1>7, <1>8 DEF Tree
    <2>3. \A m \in Range(children'[Root]) : parent'[m] = Root
      <3>1. \A m \in Range(children[Root]) : m \in Nodes /\ parent[m] = Root
        BY <1>1, <1>6 DEF Tree, Range
      <3> QED
        BY <1>6, <1>7, <1>8, <1>9, <3>1
    <2>4. \A m \in Nodes \ doomed : parent'[m] = Root => m \in Range(children'[Root])
      BY <1>1, <1>6, <1>7, <1>8, <1>9 DEF Tree
    <2>5. parent'[Root] = Nothing
      BY <1>1, <1>3, <1>6, <1>9 DEF Tree
    <2>6. \A m \in Nodes \ {Root} : children'[m] = <<>>
      BY <1>1, <1>8 DEF Tree
    <2> QED
      BY <1>1, <1>3, <1>8, <1>9, <2>1, <2>2, <2>3, <2>4, <2>5, <2>6 DEF Tree, compVars
  <1>11. TreeChange(node)
    <2>1. ASSUME NEW f \in Frames, f.at \in {"activatingChildren", "deactivatingChildren"}
          PROVE  ChildrenKept(f)
      <3>1. /\ f.node \in Nodes /\ f \in FrameTypes /\ f.n <= Len(children[f.node])
            /\ f.at = "deactivatingChildren" => f.n = Len(children[f.node])
        BY <1>1, <2>1, Context DEF FramesOK, FrameTyped, NodeCallOK, NodeCalls, Activations, Deactivations
      <3>2. CASE f.node # Root
        BY <1>8, <3>1, <3>2 DEF ChildrenKept
      <3>3. CASE f.node = Root /\ new = Nothing
        BY <1>4, <2>1, <3>3 DEF Spared, NodeCalls, Activations, Deactivations
      <3>4. CASE f.node = Root /\ new = Root
        <4>1. f.at = "activatingChildren"
          BY <1>5, <2>1, <3>4 DEF CallsOff, Deactivations
        <4>2. /\ Len(children'[Root]) = Len(children[Root]) + 1
              /\ \A k \in 1 .. Len(children[Root]) : children'[Root][k] = children[Root][k]
          BY <1>6, <1>8, <3>4, AppendFacts DEF Reparented
        <4>3. f.n \in Nat /\ Len(children[Root]) \in Nat
          BY <1>6, <3>1 DEF FrameTypes
        <4> QED
          BY <3>1, <3>4, <4>1, <4>2, <4>3 DEF ChildrenKept
      <3> QED
        BY <3>2, <3>3, <3>4
    <2>2. parent'[node] \in {Nothing, parent[node]} \/ \A g \in Frames : g.at \notin CallsOff
      BY <1>5, <1>9
    <2>3. UNCHANGED <<comps, compVars, flagVars, startQueue, lists, life>> /\ active' = active
      BY <1>3
    <2> QED
      BY <1>4, <1>9, <2>1, <2>2, <2>3 DEF TreeChange
  <1>12. PICK on : on = ShouldActive(node, new)
    OBVIOUS
  <1>13. on \in BOOLEAN /\ (on <=> node \in active /\ new \in inHierarchy)
    BY <1>12 DEF ShouldActive
  <1>14. on => new = Root /\ op \notin SwitchesOff
    BY <1>1, <1>5, <1>6, <1>13 DEF Tree
  <1>15. on <=> ShouldBeOn(node)'
    <2>1. inHierarchy' = inHierarchy \/ inHierarchy' = inHierarchy \cup {node}
      BY <1>3 DEF BeginSwitch, BeginActivate, BeginDeactivate
    <2> QED
      BY <1>1, <1>3, <1>6, <1>9, <1>13, <2>1 DEF ShouldBeOn, Tree
  <1>16. node # Root /\ children'[node] = children[node]
    BY <1>3, <1>8
  <1>17. BeginSwitch(node, on, Caller)
    BY <1>3, <1>12
  <1> QED
    BY <1>3, <1>10, <1>11, <1>13, <1>14, <1>15, <1>16, <1>17, BeginSwitchKeeps

-----------------------------------------------------------------------------
(* What the beginnings of a component's calls do to the lists and the queue.  *)

\* A call of a component begins; others go on.
CallBegins(hook, c) ==
    \A at \in Noted : \A d \in Comps : In(at, d)' <=> In(at, d) \/ (at = hook /\ d = c)

\* No call of the component is in progress, unless it is removed.
Idle(c) == \A at \in CompCalls \ {"removing"} : ~In(at, c)

LEMMA HookCalled ==
    ASSUME life \in [Comps -> [stage : Stages, started : BOOLEAN, broken : BOOLEAN]], NEW c \in Comps, NEW hook,
           CallsHook(c, hook), MayCall(hook, life[c])
    PROVE  /\ life'[c] = After(hook, life[c]) /\ \A d \in Comps : d # c => life'[d] = life[d]
           /\ life' = [life EXCEPT ![c] = After(hook, life[c])]
  BY DEF CallsHook

LEMMA AfterFacts ==
    ASSUME NEW l \in [stage : Stages, started : BOOLEAN, broken : BOOLEAN]
    PROVE  /\ After("onLoad", l) = [stage |-> "off", started |-> l.started, broken |-> l.broken]
           /\ After("onDisable", l) = [stage |-> "off", started |-> l.started, broken |-> l.broken]
           /\ After("onEnable", l) = [stage |-> "on", started |-> l.started, broken |-> l.broken]
           /\ After("onDestroy", l) = [stage |-> "gone", started |-> l.started, broken |-> l.broken]
           /\ After("start", l) = [stage |-> l.stage, started |-> TRUE, broken |-> l.broken]
           /\ After("update", l) = l /\ After("lateUpdate", l) = l
  BY DEF After

LEMMA LoadBegins ==
    ASSUME Flags, Lists, Queue, Lives, Grows, NEW c \in Comps, c \in alive', c \notin onLoaded, Idle(c),
           CallsHook(c, "onLoad"), UNCHANGED <<flagVars, startQueue, lists>>, CallBegins("onLoad", c),
           \A d \in Comps : Waits(d) => Waits(d)', InPass' <=> InPass
    PROVE  Flags' /\ Lists' /\ Queue' /\ Lives' /\ \A d \in Comps : IsOn(d)' <=> IsOn(d)
  <1>0. UNCHANGED <<onLoaded, onEnabled, startCalled, startQueue, lists>>
    BY DEF flagVars
  <1>1. \A at \in {"onLoad", "onEnable", "onDisable", "onDestroy", "start"} : \A d \in Comps :
            In(at, d)' <=> In(at, d) \/ (at = "onLoad" /\ d = c)
    BY DEF CallBegins, Noted
  <1>2. \A d \in Comps : IsOn(d)' <=> IsOn(d)
    BY <1>0, <1>1 DEF IsOn
  <1>3. ~In("onLoad", c) /\ ~In("onEnable", c) /\ ~In("onDisable", c) /\ ~In("onDestroy", c)
    BY DEF Idle, CompCalls
  <1>4. life \in [Comps -> [stage : Stages, started : BOOLEAN, broken : BOOLEAN]]
    BY DEF Flags
  <1>5. life[c].stage = "new"
    <2>1. life[c].stage = "gone" => c \in created /\ c \notin alive
      BY <1>3 DEF Lives
    <2>2. life[c].stage # "gone"
      BY <2>1 DEF Grows
    <2>3. life[c].stage # "gone" => (life[c].stage = "new" <=> c \notin onLoaded /\ ~In("onLoad", c))
      BY DEF Lives
    <2> QED
      BY <1>3, <2>2, <2>3
  <1>6. life'[c] = [stage |-> "off", started |-> life[c].started, broken |-> life[c].broken] /\ \A d \in Comps : d # c => life'[d] = life[d]
    <2>1. MayCall("onLoad", life[c])
      BY <1>5 DEF MayCall
    <2>2. life'[c] = After("onLoad", life[c]) /\ \A d \in Comps : d # c => life'[d] = life[d]
      BY <1>4, <2>1, HookCalled
    <2>3. life[c] \in [stage : Stages, started : BOOLEAN, broken : BOOLEAN]
      BY <1>4
    <2> QED
      BY <2>2, <2>3, AfterFacts
  <1>7. life' \in [Comps -> [stage : Stages, started : BOOLEAN, broken : BOOLEAN]]
    <2>1. life' = [life EXCEPT ![c] = life'[c]]
      BY <1>4 DEF CallsHook
    <2> QED
      BY <1>4, <1>6, <2>1 DEF Stages
  <1>8. Flags'
    BY <1>0, <1>7 DEF Flags, Grows
  <1>9. Lists'
    BY <1>0, <1>2 DEF Lists, Grows
  <1>10. Queue'
    <2>1. \A d \in Range(startQueue) : d \in Comps
      BY DEF Flags, Range
    <2> QED
      BY <1>0, <1>2, <2>1 DEF Queue
  <1>11. Lives'
    <2> SUFFICES ASSUME NEW d \in Comps
                 PROVE  /\ CallsInOrder => ~life'[d].broken
                        /\ life'[d].stage = "on" <=> IsOn(d)' \/ In("onEnable", d)'
                        /\ life'[d].stage = "gone" => d \in created' /\ (d \notin alive' \/ In("onDestroy", d)')
                        /\ life'[d].stage # "gone" => (life'[d].stage = "new" <=> d \notin onLoaded' /\ ~In("onLoad", d)')
                        /\ life'[d].started <=> d \in startCalled' \/ In("start", d)'
      BY DEF Lives
    <2>1. /\ CallsInOrder => ~life[d].broken
          /\ life[d].stage = "on" <=> IsOn(d) \/ In("onEnable", d)
          /\ life[d].stage = "gone" => d \in created /\ (d \notin alive \/ In("onDestroy", d))
          /\ life[d].stage # "gone" => (life[d].stage = "new" <=> d \notin onLoaded /\ ~In("onLoad", d))
          /\ life[d].started <=> d \in startCalled \/ In("start", d)
      BY DEF Lives
    <2>2. CASE d = c
      BY <1>0, <1>1, <1>2, <1>5, <1>6, <2>1, <2>2
    <2>3. CASE d # c
      BY <1>0, <1>1, <1>2, <1>6, <2>1, <2>3 DEF Grows
    <2> QED
      BY <2>2, <2>3
  <1> QED
    BY <1>2, <1>8, <1>9, <1>10, <1>11

LEMMA EnableBegins ==
    ASSUME Flags, Lists, Queue, Lives, NEW c \in Comps, c \in alive, c \in created, c \in onLoaded', c \notin onEnabled,
           \A at \in {"onEnable", "onDestroy", "onDisable"} : ~In(at, c),
           onLoaded' = onLoaded \/ (onLoaded' = onLoaded \cup {c} /\ In("onLoad", c)),
           \A at \in {"onEnable", "onDisable", "onDestroy", "start"} : \A d \in Comps :
              In(at, d)' <=> In(at, d) \/ (at = "onEnable" /\ d = c),
           \A d \in Comps : In("onLoad", d)' <=> In("onLoad", d) /\ ~(d = c /\ onLoaded' # onLoaded),
           onLoaded' = onLoaded => ~In("onLoad", c),
           CallsHook(c, "onEnable"), UNCHANGED <<created, alive, onEnabled, startCalled, startQueue, lists>>,
           \A d \in Comps : Waits(d) => Waits(d)', InPass' <=> InPass
    PROVE  Flags' /\ Lists' /\ Queue' /\ Lives' /\ \A d \in Comps : IsOn(d)' <=> IsOn(d)
  <1>2. \A d \in Comps : IsOn(d)' <=> IsOn(d)
    BY DEF IsOn
  <1>3. ~IsOn(c) /\ (c \in onLoaded \/ In("onLoad", c))
    BY DEF IsOn
  <1>4. life \in [Comps -> [stage : Stages, started : BOOLEAN, broken : BOOLEAN]]
    BY DEF Flags
  <1>5. life[c].stage = "off"
    <2>1. life[c].stage \in Stages
      BY <1>4
    <2>2. life[c].stage # "on" /\ life[c].stage # "gone"
      BY <1>3 DEF Lives
    <2>3. life[c].stage # "new"
      BY <1>3, <2>2 DEF Lives
    <2> QED
      BY <2>1, <2>2, <2>3 DEF Stages
  <1>6. life'[c] = [stage |-> "on", started |-> life[c].started, broken |-> life[c].broken] /\ \A d \in Comps : d # c => life'[d] = life[d]
    <2>1. MayCall("onEnable", life[c])
      BY <1>5 DEF MayCall
    <2>2. life'[c] = After("onEnable", life[c]) /\ \A d \in Comps : d # c => life'[d] = life[d]
      BY <1>4, <2>1, HookCalled
    <2>3. life[c] \in [stage : Stages, started : BOOLEAN, broken : BOOLEAN]
      BY <1>4
    <2> QED
      BY <2>2, <2>3, AfterFacts
  <1>7. life' \in [Comps -> [stage : Stages, started : BOOLEAN, broken : BOOLEAN]]
    <2>1. life' = [life EXCEPT ![c] = life'[c]]
      BY <1>4 DEF CallsHook
    <2> QED
      BY <1>4, <1>6, <2>1 DEF Stages
  <1>8. Flags'
    <2>1. onLoaded' \subseteq created /\ onEnabled \subseteq onLoaded'
      BY DEF Flags
    <2> QED
      BY <1>7, <2>1 DEF Flags
  <1>9. Lists'
    BY <1>2 DEF Lists
  <1>10. Queue'
    <2>1. \A d \in Range(startQueue) : d \in Comps
      BY DEF Flags, Range
    <2> QED
      BY <1>2, <2>1 DEF Queue
  <1>11. Lives'
    <2> SUFFICES ASSUME NEW d \in Comps
                 PROVE  /\ CallsInOrder => ~life'[d].broken
                        /\ life'[d].stage = "on" <=> IsOn(d)' \/ In("onEnable", d)'
                        /\ life'[d].stage = "gone" => d \in created' /\ (d \notin alive' \/ In("onDestroy", d)')
                        /\ life'[d].stage # "gone" => (life'[d].stage = "new" <=> d \notin onLoaded' /\ ~In("onLoad", d)')
                        /\ life'[d].started <=> d \in startCalled' \/ In("start", d)'
      BY DEF Lives
    <2>1. /\ CallsInOrder => ~life[d].broken
          /\ life[d].stage = "on" <=> IsOn(d) \/ In("onEnable", d)
          /\ life[d].stage = "gone" => d \in created /\ (d \notin alive \/ In("onDestroy", d))
          /\ life[d].stage # "gone" => (life[d].stage = "new" <=> d \notin onLoaded /\ ~In("onLoad", d))
          /\ life[d].started <=> d \in startCalled \/ In("start", d)
      BY DEF Lives
    <2>2. CASE d = c
      BY <1>2, <1>5, <1>6, <2>1, <2>2
    <2>3. CASE d # c
      BY <1>2, <1>6, <2>1, <2>3
    <2> QED
      BY <2>2, <2>3
  <1> QED
    BY <1>2, <1>8, <1>9, <1>10, <1>11

LEMMA DisableBegins ==
    ASSUME Flags, Lists, Queue, Lives, NEW c \in Comps, c \in alive, c \in onEnabled, Idle(c),
           CallsHook(c, "onDisable"), CallBegins("onDisable", c), Unschedule(c), startQueue' = Without(startQueue, {c}),
           UNCHANGED <<created, alive, flagVars>>,
           \A d \in Comps : (\E f \in Frames : f.at = "starting" /\ d \in Rest(f, f.batch))
                           => (\E f \in Frames' : f.at = "starting" /\ d \in Rest(f, f.batch)),
           InPass' <=> InPass
    PROVE  /\ Flags' /\ Lists' /\ Queue' /\ Lives' /\ \A d \in Comps : IsOn(d)' <=> IsOn(d) /\ d # c
           /\ InPass => \A pass \in Passes : lists'[pass].now = lists[pass].now
           /\ startQueue = <<>> => startQueue' = <<>>
  <1>0. UNCHANGED <<onLoaded, onEnabled, startCalled>>
    BY DEF flagVars
  <1>1. \A at \in {"onLoad", "onEnable", "onDisable", "onDestroy", "start"} : \A d \in Comps :
            In(at, d)' <=> In(at, d) \/ (at = "onDisable" /\ d = c)
    BY DEF CallBegins, Noted
  <1>2. \A d \in Comps : IsOn(d)' <=> IsOn(d) /\ d # c
    BY <1>0, <1>1 DEF IsOn
  <1>3. IsOn(c)
    BY DEF IsOn, Idle, CompCalls
  <1>4. life \in [Comps -> [stage : Stages, started : BOOLEAN, broken : BOOLEAN]]
    BY DEF Flags
  <1>5. life[c].stage = "on"
    BY <1>3 DEF Lives
  <1>6. life'[c] = [stage |-> "off", started |-> life[c].started, broken |-> life[c].broken] /\ \A d \in Comps : d # c => life'[d] = life[d]
    <2>1. MayCall("onDisable", life[c])
      BY <1>5 DEF MayCall
    <2>2. life'[c] = After("onDisable", life[c]) /\ \A d \in Comps : d # c => life'[d] = life[d]
      BY <1>4, <2>1, HookCalled
    <2>3. life[c] \in [stage : Stages, started : BOOLEAN, broken : BOOLEAN]
      BY <1>4
    <2> QED
      BY <2>2, <2>3, AfterFacts
  <1>7. life' \in [Comps -> [stage : Stages, started : BOOLEAN, broken : BOOLEAN]]
    <2>1. life' = [life EXCEPT ![c] = life'[c]]
      BY <1>4 DEF CallsHook
    <2> QED
      BY <1>4, <1>6, <2>1 DEF Stages
  <1>8. startQueue' \in Seq(Comps) /\ Range(startQueue') = Range(startQueue) \ {c}
    BY WithoutFacts DEF Flags
  <1>9. startQueue = <<>> => startQueue' = <<>>
    <2>1. startQueue = <<>> => Range(startQueue') = {}
      BY <1>8, EmptyRange DEF Flags
    <2> QED
      BY <1>8, <2>1, EmptyRange
  <1>10. ASSUME NEW pass \in Passes
         PROVE  /\ lists'[pass] \in [now : Seq(Comps), add : Seq(Comps), remove : Seq(Comps)]
                /\ IsInjective(lists'[pass].now) /\ IsInjective(lists'[pass].add)
                /\ Range(lists'[pass].remove) \subseteq alive
                /\ Range(lists'[pass].add) \cap Range(lists'[pass].remove) = {}
                /\ ~InPass => lists'[pass].add = <<>> /\ lists'[pass].remove = <<>>
                /\ \A d \in Comps : d \in Scheduled(lists'[pass]) <=> d \in Wants[pass] /\ IsOn(d)'
                /\ InPass => lists'[pass].now = lists[pass].now
    <2> DEFINE l == lists[pass]
    <2>1. /\ l \in [now : Seq(Comps), add : Seq(Comps), remove : Seq(Comps)]
          /\ IsInjective(l.now) /\ IsInjective(l.add)
          /\ Range(l.remove) \subseteq alive
          /\ Range(l.add) \cap Range(l.remove) = {}
          /\ ~InPass => l.add = <<>> /\ l.remove = <<>>
          /\ \A d \in Comps : d \in Scheduled(l) <=> d \in Wants[pass] /\ IsOn(d)
      BY DEF Flags, Lists
    <2>2. lists'[pass] = IF c \in Wants[pass] THEN Unscheduled(l, c) ELSE l
      BY DEF Unschedule
    <2> HIDE DEF l
    <2>3. CASE c \notin Wants[pass]
      BY <1>2, <2>1, <2>2, <2>3 DEF l
    <2>4. l.now \in Seq(Comps) /\ l.add \in Seq(Comps) /\ l.remove \in Seq(Comps)
      BY <2>1
    <2>5. CASE c \in Wants[pass] /\ InPass
      <3>1. AddUnique(l.remove, c) \in Seq(Comps) /\ Range(AddUnique(l.remove, c)) = Range(l.remove) \cup {c}
        BY <2>4, AddUniqueFacts
      <3>2. /\ Without(l.add, {c}) \in Seq(Comps) /\ Range(Without(l.add, {c})) = Range(l.add) \ {c}
            /\ IsInjective(Without(l.add, {c}))
        BY <2>1, <2>4, WithoutFacts
      <3>3. lists'[pass] = [now |-> l.now, add |-> Without(l.add, {c}), remove |-> AddUnique(l.remove, c)]
        <4>1. lists'[pass] = [l EXCEPT !.remove = AddUnique(@, c), !.add = Without(@, {c})]
          BY <2>2, <2>5 DEF Unscheduled
        <4> QED
          BY <2>1, <4>1
      <3>4. /\ lists'[pass].now = l.now /\ lists'[pass].add = Without(l.add, {c})
            /\ lists'[pass].remove = AddUnique(l.remove, c)
        BY <3>3
      <3>5. \A d : d \in Scheduled(lists'[pass]) <=> d \in Scheduled(l) /\ d # c
        BY <3>1, <3>2, <3>4 DEF Scheduled
      <3>6. lists'[pass] \in [now : Seq(Comps), add : Seq(Comps), remove : Seq(Comps)]
        BY <2>4, <3>1, <3>2, <3>3
      <3> QED
        BY <1>2, <2>1, <2>5, <3>1, <3>2, <3>4, <3>5, <3>6 DEF l
    <2>6. CASE c \in Wants[pass] /\ ~InPass
      <3>1. /\ Without(l.now, {c}) \in Seq(Comps) /\ Range(Without(l.now, {c})) = Range(l.now) \ {c}
            /\ IsInjective(Without(l.now, {c}))
        BY <2>1, <2>4, WithoutFacts
      <3>2. lists'[pass] = [now |-> Without(l.now, {c}), add |-> l.add, remove |-> l.remove]
        <4>1. lists'[pass] = [l EXCEPT !.now = Without(@, {c})]
          BY <2>2, <2>6 DEF Unscheduled
        <4> QED
          BY <2>1, <4>1
      <3>3. lists'[pass].now = Without(l.now, {c}) /\ lists'[pass].add = l.add /\ lists'[pass].remove = l.remove
        BY <3>2
      <3>4. Range(l.add) = {} /\ Range(l.remove) = {}
        BY <2>1, <2>6, EmptyRange
      <3>5. \A d : d \in Scheduled(lists'[pass]) <=> d \in Scheduled(l) /\ d # c
        BY <3>1, <3>3, <3>4 DEF Scheduled
      <3>6. lists'[pass] \in [now : Seq(Comps), add : Seq(Comps), remove : Seq(Comps)]
        BY <2>4, <3>1, <3>2
      <3> QED
        BY <1>2, <2>1, <2>6, <3>1, <3>3, <3>5, <3>6
    <2> QED
      BY <2>3, <2>5, <2>6
  <1>11. Lists'
    BY <1>10 DEF Lists
  <1>12. Flags'
    <2>1. lists' \in [Passes -> [now : Seq(Comps), add : Seq(Comps), remove : Seq(Comps)]]
      <3>1. lists' = [pass \in Passes |-> lists'[pass]]
        BY DEF Unschedule
      <3> QED
        BY <1>10, <3>1
    <2> QED
      BY <1>0, <1>7, <1>8, <2>1 DEF Flags
  <1>13. Queue'
    <2>1. ASSUME NEW d \in Comps, IsOn(d)', d \notin startCalled
          PROVE  Waits(d)'
      <3>1. IsOn(d) /\ d # c
        BY <1>2, <2>1
      <3>2. Waits(d)
        BY <2>1, <3>1 DEF Queue
      <3> QED
        BY <1>8, <3>1, <3>2 DEF Waits
    <2>2. ASSUME NEW d \in Range(startQueue')
          PROVE  IsOn(d)' /\ d \notin startCalled
      <3>1. d \in Range(startQueue) /\ d # c
        BY <1>8, <2>2
      <3>2. d \in Comps
        BY <3>1 DEF Range, Flags
      <3> QED
        BY <1>2, <3>1, <3>2 DEF Queue
    <2> QED
      BY <1>0, <2>1, <2>2 DEF Queue
  <1>14. Lives'
    <2> SUFFICES ASSUME NEW d \in Comps
                 PROVE  /\ CallsInOrder => ~life'[d].broken
                        /\ life'[d].stage = "on" <=> IsOn(d)' \/ In("onEnable", d)'
                        /\ life'[d].stage = "gone" => d \in created' /\ (d \notin alive' \/ In("onDestroy", d)')
                        /\ life'[d].stage # "gone" => (life'[d].stage = "new" <=> d \notin onLoaded' /\ ~In("onLoad", d)')
                        /\ life'[d].started <=> d \in startCalled' \/ In("start", d)'
      BY DEF Lives
    <2>1. /\ CallsInOrder => ~life[d].broken
          /\ life[d].stage = "on" <=> IsOn(d) \/ In("onEnable", d)
          /\ life[d].stage = "gone" => d \in created /\ (d \notin alive \/ In("onDestroy", d))
          /\ life[d].stage # "gone" => (life[d].stage = "new" <=> d \notin onLoaded /\ ~In("onLoad", d))
          /\ life[d].started <=> d \in startCalled \/ In("start", d)
      BY DEF Lives
    <2>2. CASE d = c
      <3>1. c \in onLoaded /\ ~In("onEnable", c)
        BY DEF Flags, Idle, CompCalls
      <3> QED
        BY <1>0, <1>1, <1>2, <1>5, <1>6, <2>1, <2>2, <3>1
    <2>3. CASE d # c
      BY <1>0, <1>1, <1>2, <1>6, <2>1, <2>3
    <2> QED
      BY <2>2, <2>3
  <1> QED
    BY <1>2, <1>9, <1>10, <1>11, <1>12, <1>13, <1>14
-----------------------------------------------------------------------------
(* What the calls in progress keep, whatever their innermost does.            *)

Undisturbed(g) ==
    /\ g.at \in Activations => g.node \in inHierarchy'
    /\ g.at = "activating" => Len(comps[g.node]) <= Len(comps'[g.node])
    /\ g.at = "deactivating" => comps'[g.node] = comps[g.node]
    /\ g.at \in Deactivations => (\A m : IsOff(m) => IsOff(m)') /\ \A c \in Comps : IsOn(c)' => IsOn(c)
    /\ g.at \in CompCalls \cup Runs => g.comp \in alive'
    /\ g.at \in {"onLoad", "onEnable"} => nodeOf'[g.comp] \in inHierarchy'
    /\ g.at = "onLoad" => g.comp \notin onLoaded'
    /\ g.at = "onEnable" => g.comp \in (onLoaded' \cap enabled') \ onEnabled'
    /\ g.at = "onDisable" => g.comp \in onEnabled'
    /\ g.at \in {"removing", "onDestroy"} => (IsOn(g.comp)' => IsOn(g.comp))
    /\ g.at = "starting" => startQueue' = <<>>
    /\ g.at = "updating" => lists'["update"].now = lists["update"].now
    /\ g.at = "lateUpdating" => lists'["lateUpdate"].now = lists["lateUpdate"].now
    /\ startCalled \subseteq startCalled' /\ alive \subseteq alive'

LEMMA FrameStays ==
    ASSUME Tree, NEW g \in FrameTypes, FrameOK(g), UNCHANGED <<parent, children>>, comps' \in [Nodes -> Seq(Comps)],
           Undisturbed(g)
    PROVE  FrameOK(g)'
  <1>1. FrameTyped(g) /\ NodeCallOK(g) /\ CompCallOK(g) /\ PhaseOK(g)
    BY DEF FrameOK
  <1>2. FrameTyped(g)'
    BY <1>1 DEF FrameTyped, Undisturbed
  <1>3. NodeCallOK(g)'
    <2>1. g.at = "activating" => g.n <= Len(comps'[g.node])
      <3>1. g.at = "activating" => g.node \in Nodes /\ g.n <= Len(comps[g.node])
        BY <1>1 DEF NodeCallOK, FrameTyped, NodeCalls, Activations
      <3>2. \A m \in Nodes : Len(comps[m]) \in Nat /\ Len(comps'[m]) \in Nat
        BY DEF Tree
      <3> QED
        BY <3>1, <3>2 DEF Undisturbed, FrameTypes
    <2>2. g.at \in {"deactivatingChildren", "deactivating"} => g.at \in Deactivations
      BY DEF Deactivations
    <2>3. g.at = "deactivating" => Been(g, comps[g.node]) \subseteq Comps
      <3>1. g.at = "deactivating" => g.node \in Nodes /\ g.n = Len(comps[g.node]) /\ g.i <= g.n + 1
        BY <1>1 DEF NodeCallOK, FrameTyped, NodeCalls, Deactivations
      <3> QED
        BY <3>1 DEF Been, Tree, FrameTypes
    <2>4. g.at = "deactivating" =>
            /\ g.n = Len(comps'[g.node]) /\ \A c \in Been(g, comps'[g.node]) : ~IsOn(c)'
            /\ \A child \in Nodes : parent'[child] = g.node => IsOff(child)'
      BY <1>1, <2>2, <2>3 DEF NodeCallOK, Undisturbed, Been
    <2>5. g.at = "deactivatingChildren" =>
             g.n = Len(children'[g.node]) /\ \A child \in Been(g, children'[g.node]) : IsOff(child)'
      BY <1>1, <2>2 DEF NodeCallOK, Undisturbed, Been
    <2> QED
      BY <1>1, <2>1, <2>4, <2>5 DEF NodeCallOK, Undisturbed
  <1>4. CompCallOK(g)'
    BY <1>1 DEF CompCallOK, Undisturbed
  <1>5. PhaseOK(g)'
    BY <1>1 DEF PhaseOK, Undisturbed
  <1> QED
    BY <1>2, <1>3, <1>4, <1>5 DEF FrameOK

\* Where no node is switched, the loops over the tree explain what they did.
LEMMA NodesUntouched ==
    ASSUME NodesOn, NodesOff, UNCHANGED <<parent, children, active, inHierarchy>>, \A m : GoesOff(m)' <=> GoesOff(m),
           \A f \in Frames : f.at \in NodeCalls =>
              \E g \in Frames' : g.node = f.node /\ g.at = f.at /\ (f.at = "activatingChildren" => g.i = f.i /\ g.n = f.n)
    PROVE  NodesOn' /\ NodesOff'
  <1>1. NodesOn'
    BY DEF NodesOn
  <1>2. NodesOff'
    <2> SUFFICES ASSUME NEW m \in active \ {Root}, parent[m] = Root, Root \in inHierarchy
                 PROVE  \/ m \in inHierarchy /\ ~GoesOff(m)'
                        \/ \E f \in Frames' : f.node = Root /\ WillSwitch(f, m)'
      BY DEF NodesOff
    <2>1. CASE m \in inHierarchy /\ ~GoesOff(m)
      BY <2>1
    <2>2. CASE \E f \in Frames : f.node = Root /\ WillSwitch(f, m)
      <3>1. PICK f \in Frames : f.node = Root /\ WillSwitch(f, m)
        BY <2>2
      <3>2. f.at \in NodeCalls
        BY <3>1 DEF WillSwitch, NodeCalls, Activations, Deactivations
      <3>3. PICK g \in Frames' : g.node = f.node /\ g.at = f.at /\ (f.at = "activatingChildren" => g.i = f.i /\ g.n = f.n)
        BY <3>2
      <3>4. WillSwitch(g, m)'
        BY <3>1, <3>3 DEF WillSwitch, Rest
      <3> QED
        BY <3>1, <3>3, <3>4
    <2> QED
      BY <2>1, <2>2 DEF NodesOff
  <1> QED
    BY <1>1, <1>2

\* Where no component is switched.
LEMMA QuietFrame ==
    ASSUME Tree, Lists, NEW g \in FrameTypes, FrameOK(g),
           UNCHANGED <<treeVars, compVars, flagVars, startQueue, lists>>, \A c \in Comps : IsOn(c)' <=> IsOn(c),
           g.at \in Deactivations => \A m : IsOff(m) => IsOff(m)',
           g.at \in Activations => g.node \in inHierarchy',
           g.at \in {"onLoad", "onEnable"} => nodeOf[g.comp] \in inHierarchy'
    PROVE  FrameOK(g)'
  <1> USE DEF treeVars, compVars, flagVars
  <1>1. FrameTyped(g) /\ NodeCallOK(g) /\ CompCallOK(g) /\ PhaseOK(g)
    BY DEF FrameOK
  <1>2. \A m \in Nodes : Len(comps[m]) \in Nat
    BY DEF Tree
  <1>3. g.at \in NodeCalls => g.node \in Nodes
    BY <1>1 DEF FrameTyped
  <1>4. g.at \in CompCalls => g.comp \in Comps
    BY <1>1 DEF FrameTyped, Tree
  <1>5. Undisturbed(g)
    BY <1>1, <1>2, <1>3, <1>4
       DEF Undisturbed, FrameTyped, NodeCallOK, CompCallOK, PhaseOK, NodeCalls, Activations, Deactivations,
           CompCalls
  <1>6. comps' \in [Nodes -> Seq(Comps)]
    BY DEF Tree
  <1> QED
    BY <1>5, <1>6, FrameStays

LEMMA ToldKeeps ==
    ASSUME IInv, UNCHANGED <<treeVars, compVars, flagVars, startQueue, lists>>, SameLife, inHierarchy' \subseteq Nodes,
           Stacked', \A g \in Frames' : FrameOK(g)', SameHooks, NodesOn', NodesOff', CompsOn', CompsOff'
    PROVE  IInv'
  <1>1. Tree'
    BY DEF IInv, Tree, treeVars, compVars
  <1>2. FramesOK'
    BY DEF FramesOK, FrameOK
  <1>3. Grows
    BY DEF Grows, IInv, Tree, compVars
  <1>4. Flags' /\ Lists' /\ Queue' /\ Lives'
    BY <1>3, HooksTold DEF IInv
  <1> QED
    BY <1>1, <1>2, <1>4 DEF IInv

LEMMA QuietKeeps ==
    ASSUME IInv, UNCHANGED <<treeVars, compVars, flagVars, startQueue, lists, life>>, inHierarchy' \subseteq Nodes,
           Stacked', \A g \in Frames' : FrameOK(g)', SameHooks, NodesOn', NodesOff', CompsOn', CompsOff'
    PROVE  IInv'
  <1>1. SameLife
    BY DEF IInv, Flags, Lives, SameLife
  <1> QED
    BY <1>1, ToldKeeps
-----------------------------------------------------------------------------
(* The loops over the nodes.                                                  *)

LEMMA Parts ==
    ASSUME IInv, NEW top, NEW T, top = Top, T = Range(Callers)
    PROVE  /\ Tree /\ Flags /\ Stacked /\ FramesOK /\ NodesOn /\ NodesOff /\ CompsOn /\ CompsOff /\ Lists /\ Queue /\ Lives
           /\ Frames = {top} \cup T /\ \A g \in Frames : g \in FrameTypes /\ FrameOK(g)
           /\ \A g \in T : MayBeAbove(top, g, parent, nodeOf)
           /\ top.at \in Phases => T = {} /\ Callers = <<>>
  <1>1. Tree /\ Flags /\ Stacked /\ FramesOK /\ NodesOn /\ NodesOff /\ CompsOn /\ CompsOff /\ Lists /\ Queue /\ Lives
    BY DEF IInv
  <1>2. /\ Frames = {top} \cup T /\ \A g \in Frames : g \in FrameTypes
        /\ \A g \in T : MayBeAbove(top, g, parent, nodeOf)
        /\ Callers = <<>> => T = {}
        /\ Callers # <<>> => top.at \notin Phases
    BY <1>1, Context
  <1>3. \A g \in Frames : FrameOK(g)
    BY <1>1 DEF FramesOK, FrameOK
  <1> QED
    BY <1>1, <1>2, <1>3

\* One loop over a node gives way to the next.
LEMMA NodeGivesWay ==
    ASSUME IInv, NEW top, NEW T, top = Top, T = Range(Callers), top.at \in NodeCalls,
           NEW f \in FrameTypes, f.at \in NodeCalls, f.node = top.node, f.comp = top.comp,
           f.at \in Deactivations <=> top.at \in Deactivations,
           stack' = Pushed(f, Callers), UNCHANGED <<parent, nodeOf, startQueue>>
    PROVE  /\ Stacked' /\ Frames' = {f} \cup T /\ SameHooks
           /\ \A m : GoesOff(m)' <=> GoesOff(m)
  <1>1. /\ Stacked /\ Frames = {top} \cup T /\ \A g \in T : MayBeAbove(top, g, parent, nodeOf)
    BY Parts
  <1>2. Stacked' /\ Frames' = {f} \cup T
    <2>1. \A g \in Range(Callers) : MayBeAbove(f, g, parent', nodeOf')
      BY <1>1 DEF MayBeAbove, NodeCalls, Activations, Deactivations, CallsOff, Phases, Passes, CompCalls
    <2>2. Top.at \notin Phases /\ LinksKept(Callers)
      BY DEF NodeCalls, Activations, Deactivations, Phases, LinksKept
    <2> QED
      BY <1>1, <2>1, <2>2, GivesWay
  <1>3. \A at, c : c \in Comps => (In(at, c)' <=> In(at, c))
    <2>1. \A g \in {top, f} : g.comp = Nothing
      BY <1>1, Parts DEF FrameOK, FrameTyped, NodeCalls, Activations, Deactivations, CompCalls, Runs
    <2> QED
      BY <1>1, <1>2, <2>1, LifecycleAssumption DEF In
  <1>4. \A m : GoesOff(m)' <=> GoesOff(m)
    BY <1>1, <1>2 DEF GoesOff
  <1>5. \A c \in Comps : Waits(c) => Waits(c)'
    BY <1>1, <1>2 DEF Waits, NodeCalls, Activations, Deactivations
  <1>6. InPass' <=> InPass
    <2> DEFINE L == {"updating", "lateUpdating"} \cup Passes
    <2>1. (InPass <=> \E g \in Frames : g.at \in L) /\ (InPass' <=> \E g \in Frames' : g.at \in L)
      BY DEF InPass, Frames, Range
    <2>2. \A at \in NodeCalls : at \notin L
      BY DEF NodeCalls, Activations, Deactivations, Passes
    <2> QED
      BY <1>1, <1>2, <2>1, <2>2
  <1> QED
    BY <1>2, <1>3, <1>4, <1>5, <1>6 DEF SameHooks

\* The three other moves, of calls that what is said of a component does not depend on.
LEMMA GoesOnQuietly ==
    ASSUME IInv, NEW top, NEW T, top = Top, T = Range(Callers), NEW a, Resumed(a), top.at # "starting",
           stack' = Pushed(a, Callers), UNCHANGED <<parent, nodeOf, startQueue>>
    PROVE  /\ Stacked' /\ Frames' = {a} \cup T /\ SameHooks
           /\ \A m : GoesOff(m)' <=> GoesOff(m)
  <1>1. Stacked /\ Frames = {top} \cup T
    BY Parts
  <1>2. LinksKept(stack)
    BY DEF LinksKept
  <1>3. /\ Stacked' /\ Frames' = {a} \cup Range(Callers)
        /\ \A at, c : In(at, c)' <=> In(at, c)
        /\ \A node : GoesOff(node)' <=> GoesOff(node)
        /\ InPass' <=> InPass
    BY <1>1, <1>2, GoesOn
  <1>4. a.at = top.at
    BY DEF Resumed
  <1>5. \A c \in Comps : Waits(c) => Waits(c)'
    BY <1>1, <1>3, <1>4 DEF Waits
  <1> QED
    BY <1>3, <1>5 DEF SameHooks

LEMMA CallsQuietly ==
    ASSUME IInv, NEW top, NEW T, top = Top, T = Range(Callers), NEW a, Resumed(a), top.at # "starting",
           NEW f \in FrameTypes, f.at \notin Noted, f.at \in Passes => top.at \in {"updating", "lateUpdating"},
           \A g \in {a} \cup T : MayBeAbove(f, g, parent, nodeOf),
           stack' = Pushed(f, Pushed(a, Callers)), UNCHANGED <<parent, nodeOf, startQueue>>
    PROVE  /\ Stacked' /\ Frames' = {f, a} \cup T /\ SameHooks
           /\ \A m : GoesOff(m)' <=> GoesOff(m) \/ (f.at \in Deactivations /\ m = f.node)
  <1>1. Stacked /\ Frames = {top} \cup T
    BY Parts
  <1>2. LinksKept(stack)
    BY DEF LinksKept
  <1>3. \A g \in {a} \cup Range(Callers) : MayBeAbove(f, g, parent', nodeOf')
    OBVIOUS
  <1>4. /\ Stacked' /\ Frames' = {f, a} \cup Range(Callers)
        /\ \A at, c : In(at, c)' <=> In(at, c) \/ (at = f.at /\ c = f.comp)
        /\ \A node : GoesOff(node)' <=> GoesOff(node) \/ (f.at \in Deactivations /\ node = f.node)
        /\ f.at \notin Passes => (InPass' <=> InPass)
    BY <1>1, <1>2, <1>3, CallsOn
  <1>5. a.at = top.at
    BY DEF Resumed
  <1>6. \A c \in Comps : Waits(c) => Waits(c)'
    BY <1>1, <1>4, <1>5 DEF Waits
  <1>7. InPass' <=> InPass
    <2> DEFINE L == {"updating", "lateUpdating"} \cup Passes
    <2>1. (InPass <=> \E g \in Frames : g.at \in L) /\ (InPass' <=> \E g \in Frames' : g.at \in L)
      BY DEF InPass, Frames, Range
    <2>2. f.at \in Passes => InPass /\ InPass'
      BY <1>1, <1>4, <1>5, <2>1
    <2> QED
      BY <1>4, <2>2
  <1>8. \A at \in Noted : \A c \in Comps : In(at, c)' <=> In(at, c)
    BY <1>4
  <1> QED
    BY <1>4, <1>6, <1>7, <1>8 DEF SameHooks

LEMMA ReturnsQuietly ==
    ASSUME IInv, NEW top, NEW T, top = Top, T = Range(Callers), top.at \notin Phases, top.at \notin Noted,
           stack' = Callers, UNCHANGED <<parent, nodeOf, startQueue>>
    PROVE  /\ Stacked' /\ Frames' = T /\ SameHooks
           /\ \A m : GoesOff(m) <=> GoesOff(m)' \/ (top.at \in Deactivations /\ m = top.node)
  <1>1. Stacked /\ Frames = {top} \cup T
    BY Parts
  <1>2. LinksKept(Callers)
    BY DEF LinksKept
  <1>3. /\ Stacked' /\ Frames' = Range(Callers)
        /\ \A at, c : In(at, c) <=> In(at, c)' \/ (at = top.at /\ c = top.comp)
        /\ \A node : GoesOff(node) <=> GoesOff(node)' \/ (top.at \in Deactivations /\ node = top.node)
        /\ InPass' <=> InPass
    BY <1>1, <1>2, Pops
  <1>4. \A c \in Comps : Waits(c) => Waits(c)'
    BY <1>1, <1>3 DEF Waits, Phases
  <1>5. \A at \in Noted : \A c \in Comps : In(at, c)' <=> In(at, c)
    BY <1>3
  <1> QED
    BY <1>3, <1>4, <1>5 DEF SameHooks

LEMMA ActivateChildrenKeeps ==
    ASSUME IInv, ActivateChildren
    PROVE  IInv'
  <1>1. PICK top, T : top = Top /\ T = Range(Callers)
    OBVIOUS
  <1>2. /\ Tree /\ Lists /\ NodesOn /\ NodesOff /\ CompsOn /\ CompsOff /\ Frames = {top} \cup T
        /\ \A g \in Frames : g \in FrameTypes /\ FrameOK(g)
    BY <1>1, Parts
  <1>3. PICK f : f = NodeFrame("activatingChildren", top.node, Len(children[top.node]))
    OBVIOUS
  <1>4. /\ top.at = "activating" /\ top.i > top.n /\ stack' = Pushed(f, Callers)
        /\ UNCHANGED <<treeVars, inHierarchy, compVars, flagVars, startQueue, lists, life>>
    BY <1>1, <1>3 DEF ActivateChildren, On, LoopEnds
  <1>5. top \in Frames /\ top.node \in Nodes /\ top.comp = Nothing /\ top.node \in inHierarchy /\ top \in FrameTypes
    BY <1>2, <1>4 DEF FrameOK, FrameTyped, NodeCallOK, NodeCalls, Activations, CompCalls, Runs
  <1>6. children[top.node] \in Seq(Nodes) /\ Len(children[top.node]) \in Nat
    BY <1>2, <1>5 DEF Tree
  <1>7. /\ f \in FrameTypes /\ f.at = "activatingChildren" /\ f.node = top.node /\ f.comp = Nothing /\ f.i = 1
        /\ f.n = Len(children[top.node])
    <2>1. PICK n \in Nat : n = Len(children[top.node])
      BY <1>6
    <2>2. "activatingChildren" \in NodeCalls
      BY DEF NodeCalls, Activations
    <2> QED
      BY <1>3, <1>5, <2>1, <2>2, NewFrames
  <1> USE DEF treeVars, compVars, flagVars
  <1>8. Stacked' /\ Frames' = {f} \cup T /\ SameHooks /\ \A m : GoesOff(m)' <=> GoesOff(m)
    BY <1>1, <1>4, <1>5, <1>7, NodeGivesWay DEF NodeCalls, Activations, Deactivations
  <1>9. \A c \in Comps : IsOn(c)' <=> IsOn(c)
    BY <1>4, <1>8 DEF SameHooks, IsOn, Noted
  <1>10. \A m : IsOff(m)' <=> IsOff(m)
    BY <1>4, <1>8 DEF IsOff
  <1>11. ASSUME NEW g \in Frames'
         PROVE  FrameOK(g)'
    <2>1. CASE g = f
      BY <1>4, <1>5, <1>6, <1>7, <2>1
         DEF FrameOK, FrameTyped, NodeCallOK, CompCallOK, PhaseOK, NodeCalls, Activations, CompCalls, Runs
    <2>2. CASE g \in Frames
      <3>1. FrameOK(g) /\ g \in FrameTypes
        BY <1>2, <2>2
      <3> QED
        BY <1>2, <1>4, <1>9, <1>10, <3>1, QuietFrame DEF FrameOK, NodeCallOK, CompCallOK
    <2> QED
      BY <1>2, <1>8, <2>1, <2>2
  <1>12. NodesOn'
    BY <1>2, <1>4, <1>8 DEF NodesOn
  <1>13. NodesOff'
    <2> SUFFICES ASSUME NEW m \in active \ {Root}, parent[m] = Root, Root \in inHierarchy
                 PROVE  \/ m \in inHierarchy /\ ~GoesOff(m)'
                        \/ \E g \in Frames' : g.node = Root /\ WillSwitch(g, m)'
      BY <1>4 DEF NodesOff
    <2>1. CASE m \in inHierarchy /\ ~GoesOff(m)
      BY <1>8, <2>1
    <2>2. ASSUME NEW g \in Frames, g.node = Root, WillSwitch(g, m)
          PROVE  \E h \in Frames' : h.node = Root /\ WillSwitch(h, m)'
      <3>1. CASE g = top
        <4>1. m \in Range(children[Root])
          BY <1>2 DEF Tree
        <4>2. m \in Rest(f, children[Root])
          BY <1>6, <1>7, <2>2, <3>1, <4>1 DEF Rest, Range
        <4> QED
          BY <1>4, <1>7, <1>8, <2>2, <3>1, <4>2 DEF WillSwitch
      <3>2. CASE g # top
        BY <1>2, <1>4, <1>8, <2>2, <3>2 DEF WillSwitch
      <3> QED
        BY <3>1, <3>2
    <2> QED
      BY <1>2, <2>1, <2>2 DEF NodesOff
  <1>14. CompsOn'
    BY <1>2, <1>4, <1>9 DEF CompsOn, EnabledInHierarchy
  <1>15. CompsOff'
    <2> SUFFICES ASSUME NEW c \in alive, EnabledInHierarchy(c)
                 PROVE  IsOn(c)' \/ \E g \in Frames' : Excuses(g, c)'
      BY <1>4 DEF CompsOff, EnabledInHierarchy
    <2>1. c \in Comps
      BY <1>2 DEF Tree
    <2>2. ~Excuses(top, c)
      BY <1>4, <1>5 DEF Excuses, Rest, FrameTypes
    <2> QED
      BY <1>2, <1>4, <1>8, <1>9, <2>1, <2>2 DEF CompsOff, Excuses
  <1>16. inHierarchy' \subseteq Nodes
    BY <1>2, <1>4 DEF Tree
  <1> QED
    BY <1>4, <1>8, <1>11, <1>12, <1>13, <1>14, <1>15, <1>16, QuietKeeps

\* The next child of a node in a loop is a child of the root that no call below
\* the loop may not switch.
LEMMA NextChild ==
    ASSUME IInv, NEW top, NEW T, top = Top, T = Range(Callers), top.at \in {"activatingChildren", "deactivatingChildren"},
           ~LoopEnds, NEW child, child = children[Top.node][Top.i]
    PROVE  /\ top.node = Root /\ child \in Nodes \ {Root} /\ parent[child] = Root
           /\ \A g \in {top} \cup T :
                 /\ g.at \in NodeCalls => child # g.node /\ child # parent[g.node]
                 /\ g.at \in CompCalls => child # nodeOf[g.comp] /\ child # parent[nodeOf[g.comp]]
  <1>1. /\ Tree /\ Stacked /\ FramesOK /\ Frames = {top} \cup T /\ \A g \in Frames : g \in FrameTypes /\ FrameOK(g)
        /\ \A g \in T : MayBeAbove(top, g, parent, nodeOf)
    BY Parts
  <1>2. top.i <= top.n /\ top.i \in Nat /\ top.n \in Nat /\ top.i >= 1
    BY <1>1, LoopGoesOn
  <1>3. top.node \in Nodes /\ top.n <= Len(children[top.node]) /\ children[top.node] \in Seq(Nodes)
        /\ Len(children[top.node]) \in Nat
    <2>1. FrameOK(top)
      BY <1>1
    <2>2. top.node \in Nodes
      BY <2>1 DEF FrameOK, FrameTyped, NodeCalls, Activations, Deactivations
    <2>3. children[top.node] \in Seq(Nodes)
      BY <1>1, <2>2 DEF Tree
    <2>4. top.n <= Len(children[top.node])
      BY <1>2, <2>1, <2>3 DEF FrameOK, NodeCallOK
    <2> QED
      BY <2>2, <2>3, <2>4
  <1>4. child \in Range(children[top.node])
    BY <1>2, <1>3 DEF Range
  <1>5. top.node = Root
    BY <1>1, <1>3, <1>4, EmptyRange DEF Tree
  <1>6. child \in Nodes /\ parent[child] = Root /\ child # Root /\ parent[Root] = Nothing
    <2>1. child \in Range(children[Root]) /\ children[Root] \in Seq(Nodes)
      BY <1>3, <1>4, <1>5
    <2>2. child \in Nodes
      BY <2>1 DEF Range
    <2>3. parent[child] = Root /\ parent[Root] = Nothing
      BY <1>1, <2>1 DEF Tree
    <2> QED
      BY <2>2, <2>3, LifecycleAssumption
  <1>7. ASSUME NEW g \in T
        PROVE  /\ g.at \in NodeCalls => child # g.node /\ child # parent[g.node]
               /\ g.at \in CompCalls => child # nodeOf[g.comp] /\ child # parent[nodeOf[g.comp]]
    <2>1. MayBeAbove(top, g, parent, nodeOf) /\ FrameOK(g)
      BY <1>1
    <2>2. top.at \in NodeCalls
      BY DEF NodeCalls, Activations, Deactivations
    <2>3. g.at \in NodeCalls => Root # g.node /\ Root # parent[g.node] /\ g.node \in Nodes
      BY <1>5, <2>1, <2>2 DEF MayBeAbove, FrameOK, FrameTyped
    <2>4. g.at \in CompCalls => Root # nodeOf[g.comp] /\ Root # parent[nodeOf[g.comp]] /\ nodeOf[g.comp] \in Nodes
      BY <1>1, <1>5, <2>1, <2>2 DEF MayBeAbove, FrameOK, FrameTyped, Tree
    <2>5. \A m \in Nodes : parent[m] \in {Root, Nothing}
      BY <1>1 DEF Tree
    <2>6. child # Nothing
      BY <1>6, LifecycleAssumption
    <2> QED
      BY <1>6, <2>3, <2>4, <2>5, <2>6
  <1>8. child # top.node /\ child # parent[top.node] /\ top.at \notin CompCalls
    BY <1>5, <1>6, LifecycleAssumption DEF CompCalls
  <1> QED
    BY <1>5, <1>6, <1>7, <1>8

LEMMA ActivateNextChildKeeps ==
    ASSUME IInv, ActivateNextChild
    PROVE  IInv'
  <1>1. PICK top, T : top = Top /\ T = Range(Callers)
    OBVIOUS
  <1>2. PICK a, child : a = Advanced /\ child = children[Top.node][Top.i]
    OBVIOUS
  <1>3. /\ top.at = "activatingChildren" /\ ~LoopEnds
        /\ child \in active => inHierarchy' = inHierarchy \cup {child}
                               /\ stack' = Pushed(NodeFrame("activating", child, Len(comps[child])), Pushed(a, Callers))
        /\ child \notin active => stack' = Pushed(a, Callers) /\ inHierarchy' = inHierarchy
        /\ UNCHANGED <<treeVars, compVars, flagVars, startQueue, lists, life>>
    BY <1>1, <1>2 DEF ActivateNextChild, On, BeginActivate
  <1>4. /\ Tree /\ Stacked /\ FramesOK /\ Lists /\ NodesOn /\ NodesOff /\ CompsOn /\ CompsOff /\ Frames = {top} \cup T
        /\ \A g \in Frames : g \in FrameTypes /\ FrameOK(g)
        /\ \A g \in T : MayBeAbove(top, g, parent, nodeOf)
    BY <1>1, Parts
  <1>5. /\ top.node = Root /\ child \in Nodes \ {Root} /\ parent[child] = Root
        /\ \A g \in {top} \cup T :
              /\ g.at \in NodeCalls => child # g.node /\ child # parent[g.node]
              /\ g.at \in CompCalls => child # nodeOf[g.comp] /\ child # parent[nodeOf[g.comp]]
    BY <1>1, <1>2, <1>3, NextChild
  <1>6. /\ Resumed(a) /\ a.i = top.i + 1 /\ top.i <= top.n /\ top.i \in Nat /\ top.n \in Nat /\ top.i >= 1
        /\ a \in FrameTypes /\ a.at = top.at /\ a.node = top.node /\ a.comp = top.comp /\ a.n = top.n
    <2>1. Resumed(a) /\ a.i = top.i + 1 /\ top.i <= top.n /\ top.i \in Nat /\ top.n \in Nat /\ top.i >= 1
      BY <1>1, <1>2, <1>3, <1>4, LoopGoesOn
    <2> QED
      BY <1>1, <2>1 DEF Resumed
  <1> HIDE DEF Top, Callers
  <1> USE DEF treeVars, compVars, flagVars
  <1>7. \A g \in Frames : g.at \notin CallsOff \cup {"start", "starting"}
    BY <1>3, <1>4 DEF MayBeAbove, CallsOff, Deactivations
  <1>8. Root \in inHierarchy /\ FrameOK(top)
    BY <1>3, <1>4, <1>5 DEF FrameOK, NodeCallOK, Activations
  <1>9. PICK f : f = NodeFrame("activating", child, Len(comps[child]))
    OBVIOUS
  <1>10. /\ f \in FrameTypes /\ f.at = "activating" /\ f.node = child /\ f.comp = Nothing /\ f.i = 1
         /\ f.n = Len(comps[child])
    <2>1. Len(comps[child]) \in Nat
      BY <1>4, <1>5 DEF Tree
    <2>2. PICK n \in Nat : n = Len(comps[child])
      BY <2>1
    <2>3. "activating" \in NodeCalls
      BY DEF NodeCalls, Activations
    <2> QED
      BY <1>5, <1>9, <2>2, <2>3, NewFrames
  <1>11. PICK N : N = IF child \in active THEN {f} ELSE {}
    OBVIOUS
  <1>12. Stacked' /\ Frames' = {a} \cup T \cup N /\ SameHooks /\ \A m : GoesOff(m)' <=> GoesOff(m)
    <2>1. CASE child \in active
      <3>1. \A g \in {a} \cup T : MayBeAbove(f, g, parent, nodeOf)
        <4>1. \A g \in {a} \cup T : g.at \notin CallsOff \cup {"start", "starting"}
          BY <1>4, <1>6, <1>7
        <4>2. \A g \in {a} \cup T : g.at \in NodeCalls => child # g.node /\ child # parent[g.node]
          BY <1>5, <1>6
        <4>3. \A g \in {a} \cup T : g.at \in CompCalls => child # nodeOf[g.comp] /\ child # parent[nodeOf[g.comp]]
          BY <1>5, <1>6
        <4> QED
          BY <1>10, <4>1, <4>2, <4>3 DEF MayBeAbove, Phases, Passes, CompCalls
      <3>2. f.at \notin Noted /\ f.at \notin Passes /\ f.at \notin Deactivations
        BY <1>10 DEF Noted, Passes, Deactivations
      <3>3. stack' = Pushed(f, Pushed(a, Callers)) /\ top.at # "starting"
        BY <1>3, <1>9, <2>1
      <3>4. /\ Stacked' /\ Frames' = {f, a} \cup T /\ SameHooks
            /\ \A m : GoesOff(m)' <=> GoesOff(m) \/ (f.at \in Deactivations /\ m = f.node)
        BY <1>1, <1>3, <1>6, <1>10, <3>1, <3>2, <3>3, CallsQuietly
      <3> QED
        BY <1>11, <2>1, <3>2, <3>4
    <2>2. CASE child \notin active
      <3>1. /\ Stacked' /\ Frames' = {a} \cup T /\ SameHooks /\ \A m : GoesOff(m)' <=> GoesOff(m)
        BY <1>1, <1>3, <1>6, <2>2, GoesOnQuietly
      <3> QED
        BY <1>11, <2>2, <3>1
    <2> QED
      BY <2>1, <2>2
  <1>13. \A c \in Comps : IsOn(c)' <=> IsOn(c)
    BY <1>3, <1>12 DEF SameHooks, IsOn, Noted
  <1>14. inHierarchy \subseteq inHierarchy' /\ inHierarchy' \subseteq Nodes
         /\ \A m : m # child => (m \in inHierarchy' <=> m \in inHierarchy)
    BY <1>3, <1>4, <1>5 DEF Tree
  <1>15. ASSUME NEW g \in Frames'
         PROVE  FrameOK(g)'
    <2>1. CASE g \in N
      <3>1. g = f /\ child \in active
        BY <1>11, <2>1
      <3> QED
        BY <1>3, <1>4, <1>5, <1>10, <3>1, SMTT(30)
           DEF FrameOK, FrameTyped, NodeCallOK, CompCallOK, PhaseOK, NodeCalls, Activations, CompCalls,
               Runs, Tree
    <2>2. ASSUME NEW h \in Frames
          PROVE  FrameOK(h)'
      <3>1. FrameOK(h) /\ h \in FrameTypes /\ h.at \notin Deactivations
        BY <1>4, <1>7 DEF CallsOff
      <3>2. \A c \in Comps : IsOn(c)' <=> IsOn(c)
        BY <1>13
      <3> QED
        BY <1>3, <1>4, <1>14, <3>1, <3>2, QuietFrame DEF FrameOK, NodeCallOK, CompCallOK
    <2>3. CASE g = a
      <3>1. FrameOK(top)'
        BY <1>4, <2>2
      <3> QED
        BY <1>3, <1>6, <2>3, <3>1
           DEF FrameOK, FrameTyped, NodeCallOK, CompCallOK, PhaseOK, NodeCalls, Activations, CompCalls, Runs
    <2> QED
      BY <1>4, <1>12, <2>1, <2>2, <2>3
  <1>16. NodesOn'
    <2> SUFFICES ASSUME NEW m \in inHierarchy' \ {Root}
                 PROVE  m \in active /\ parent[m] = Root /\ Root \in inHierarchy'
      BY <1>3 DEF NodesOn
    <2>1. CASE m \in inHierarchy
      <3>1. ~GoesOff(m)
        BY <1>7 DEF GoesOff, CallsOff
      <3> QED
        BY <1>4, <1>14, <2>1, <3>1 DEF NodesOn
    <2>2. CASE m \notin inHierarchy
      <3>1. m = child /\ child \in active
        BY <1>3, <1>14, <2>2
      <3> QED
        BY <1>5, <1>8, <1>14, <3>1
    <2> QED
      BY <2>1, <2>2
  <1>17. NodesOff'
    <2> SUFFICES ASSUME NEW m \in active \ {Root}, parent[m] = Root, Root \in inHierarchy'
                 PROVE  \/ m \in inHierarchy' /\ ~GoesOff(m)'
                        \/ \E g \in Frames' : g.node = Root /\ WillSwitch(g, m)'
      BY <1>3 DEF NodesOff
    <2>1. ~GoesOff(m)'
      BY <1>7, <1>12 DEF GoesOff, CallsOff
    <2>2. CASE m = child
      BY <1>3, <2>1, <2>2
    <2>3. CASE m \in inHierarchy
      BY <1>14, <2>1, <2>3
    <2>4. ASSUME m # child, NEW g \in Frames, g.node = Root, WillSwitch(g, m)
          PROVE  \E h \in Frames' : h.node = Root /\ WillSwitch(h, m)'
      <3>1. CASE g = top
        <4>1. m \in Rest(top, children[Root])
          BY <1>3, <2>4, <3>1 DEF WillSwitch, Deactivations
        <4>2. PICK k \in top.i .. top.n : m = children[Root][k]
          BY <4>1 DEF Rest
        <4>3. k # top.i
          BY <1>1, <1>2, <1>5, <2>4, <4>2
        <4>4. m \in Rest(a, children'[Root])
          BY <1>3, <1>6, <4>2, <4>3 DEF Rest
        <4> QED
          BY <1>3, <1>5, <1>6, <1>12, <4>4 DEF WillSwitch
      <3>2. CASE g # top
        BY <1>3, <1>4, <1>12, <2>4, <3>2 DEF WillSwitch
      <3> QED
        BY <3>1, <3>2
    <2> QED
      BY <1>4, <1>8, <2>2, <2>3, <2>4 DEF NodesOff
  <1>18. CompsOn'
    BY <1>3, <1>4, <1>13, <1>14 DEF CompsOn, EnabledInHierarchy
  <1>19. CompsOff'
    <2> SUFFICES ASSUME NEW c \in alive, EnabledInHierarchy(c)'
                 PROVE  IsOn(c)' \/ \E g \in Frames' : Excuses(g, c)'
      BY <1>3 DEF CompsOff
    <2>1. c \in Comps /\ nodeOf[c] \in Nodes
      BY <1>4 DEF Tree
    <2>2. CASE nodeOf[c] = child /\ child \in active
      <3>1. c \in Range(comps[child]) /\ comps[child] \in Seq(Comps)
        BY <1>4, <1>5, <2>2 DEF Tree
      <3>2. c \in Rest(f, comps'[child])
        BY <1>3, <1>10, <3>1 DEF Rest, Range
      <3>3. f \in Frames'
        BY <1>11, <1>12, <2>2
      <3> QED
        BY <1>3, <1>10, <2>2, <3>2, <3>3 DEF Excuses
    <2>3. ASSUME ~(nodeOf[c] = child /\ child \in active), ~IsOn(c)
          PROVE  \E g \in Frames' : Excuses(g, c)'
      <3>1. EnabledInHierarchy(c)
        BY <1>3, <1>14, <2>3 DEF EnabledInHierarchy
      <3>2. PICK g \in Frames : Excuses(g, c)
        BY <1>4, <2>3, <3>1 DEF CompsOff
      <3>3. g # top
        BY <1>3, <3>2 DEF Excuses
      <3> QED
        BY <1>3, <1>4, <1>12, <3>2, <3>3 DEF Excuses
    <2> QED
      BY <1>13, <2>1, <2>2, <2>3
  <1> QED
    BY <1>3, <1>12, <1>14, <1>15, <1>16, <1>17, <1>18, <1>19, QuietKeeps

LEMMA ActivateReturnsKeeps ==
    ASSUME IInv, ActivateReturns
    PROVE  IInv'
  <1>1. PICK top, T : top = Top /\ T = Range(Callers)
    OBVIOUS
  <1>2. /\ top.at = "activatingChildren" /\ top.i > top.n /\ stack' = Callers
        /\ UNCHANGED <<treeVars, inHierarchy, compVars, flagVars, startQueue, lists, life>>
    BY <1>1 DEF ActivateReturns, On, LoopEnds
  <1>3. /\ Tree /\ Lists /\ NodesOn /\ NodesOff /\ CompsOn /\ CompsOff /\ Frames = {top} \cup T
        /\ \A g \in Frames : g \in FrameTypes /\ FrameOK(g)
    BY <1>1, Parts
  <1> USE DEF treeVars, compVars, flagVars
  <1>4. Stacked' /\ Frames' = T /\ SameHooks /\ \A m : GoesOff(m)' <=> GoesOff(m)
    <2>1. top.at \notin Phases /\ top.at \notin Noted /\ top.at \notin Deactivations
      BY <1>2 DEF Phases, Noted, Deactivations
    <2> QED
      BY <1>1, <1>2, <2>1, ReturnsQuietly
  <1>5. \A c \in Comps : IsOn(c)' <=> IsOn(c)
    BY <1>2, <1>4 DEF SameHooks, IsOn, Noted
  <1>6. \A m : IsOff(m)' <=> IsOff(m)
    BY <1>2, <1>4 DEF IsOff
  <1>7. ASSUME NEW g \in Frames'
        PROVE  FrameOK(g)'
    BY <1>2, <1>3, <1>4, <1>5, <1>6, QuietFrame DEF FrameOK, NodeCallOK, CompCallOK
  <1>8. NodesOn'
    BY <1>2, <1>3, <1>4 DEF NodesOn
  <1>9. NodesOff'
    <2>1. top \in FrameTypes
      BY <1>3
    <2>2. \A m : ~WillSwitch(top, m)
      BY <1>2, <2>1 DEF WillSwitch, Rest, Deactivations, FrameTypes
    <2> QED
      BY <1>2, <1>3, <1>4, <2>2 DEF NodesOff, WillSwitch
  <1>10. CompsOn'
    BY <1>2, <1>3, <1>5 DEF CompsOn, EnabledInHierarchy
  <1>11. CompsOff'
    <2>1. \A c \in alive : c \in Comps /\ ~Excuses(top, c)
      BY <1>2, <1>3 DEF Excuses, Tree
    <2> QED
      BY <1>2, <1>3, <1>4, <1>5, <2>1 DEF CompsOff, Excuses, EnabledInHierarchy
  <1>12. inHierarchy' \subseteq Nodes
    BY <1>2, <1>3 DEF Tree
  <1> QED
    BY <1>2, <1>4, <1>7, <1>8, <1>9, <1>10, <1>11, <1>12, QuietKeeps

LEMMA DeactivateNextChildKeeps ==
    ASSUME IInv, DeactivateNextChild
    PROVE  IInv'
  <1>1. PICK top, T : top = Top /\ T = Range(Callers)
    OBVIOUS
  <1>2. PICK a, child : a = Advanced /\ child = children[Top.node][Top.i]
    OBVIOUS
  <1>3. /\ top.at = "deactivatingChildren" /\ ~LoopEnds
        /\ child \in inHierarchy =>
              stack' = Pushed(NodeFrame("deactivatingChildren", child, Len(children[child])), Pushed(a, Callers))
        /\ child \notin inHierarchy => stack' = Pushed(a, Callers)
        /\ UNCHANGED <<treeVars, inHierarchy, compVars, flagVars, startQueue, lists, life>>
    BY <1>1, <1>2 DEF DeactivateNextChild, On, BeginDeactivate
  <1>4. /\ Tree /\ Stacked /\ FramesOK /\ Lists /\ NodesOn /\ NodesOff /\ CompsOn /\ CompsOff /\ Frames = {top} \cup T
        /\ \A g \in Frames : g \in FrameTypes /\ FrameOK(g)
        /\ \A g \in T : MayBeAbove(top, g, parent, nodeOf)
    BY <1>1, Parts
  <1>5. /\ top.node = Root /\ child \in Nodes \ {Root} /\ parent[child] = Root
        /\ \A g \in {top} \cup T :
              /\ g.at \in NodeCalls => child # g.node /\ child # parent[g.node]
              /\ g.at \in CompCalls => child # nodeOf[g.comp] /\ child # parent[nodeOf[g.comp]]
    BY <1>1, <1>2, <1>3, NextChild
  <1>6. /\ Resumed(a) /\ a.i = top.i + 1 /\ top.i <= top.n /\ top.i \in Nat /\ top.n \in Nat /\ top.i >= 1
        /\ a \in FrameTypes /\ a.at = top.at /\ a.node = top.node /\ a.comp = top.comp /\ a.n = top.n
    <2>1. Resumed(a) /\ a.i = top.i + 1 /\ top.i <= top.n /\ top.i \in Nat /\ top.n \in Nat /\ top.i >= 1
      BY <1>1, <1>2, <1>3, <1>4, LoopGoesOn
    <2> QED
      BY <1>1, <2>1 DEF Resumed
  <1>7. child = children[top.node][top.i]
    BY <1>1, <1>2
  <1> HIDE DEF Top, Callers
  <1> USE DEF treeVars, compVars, flagVars
  <1>8. PICK f : f = NodeFrame("deactivatingChildren", child, Len(children[child]))
    OBVIOUS
  <1>9. /\ f \in FrameTypes /\ f.at = "deactivatingChildren" /\ f.node = child /\ f.comp = Nothing /\ f.i = 1
        /\ f.n = Len(children[child])
    <2>1. Len(children[child]) \in Nat
      BY <1>4, <1>5 DEF Tree
    <2>2. PICK n \in Nat : n = Len(children[child])
      BY <2>1
    <2>3. "deactivatingChildren" \in NodeCalls
      BY DEF NodeCalls, Deactivations
    <2> QED
      BY <1>5, <1>8, <2>2, <2>3, NewFrames
  <1>10. PICK N : N = IF child \in inHierarchy THEN {f} ELSE {}
    OBVIOUS
  <1>11. /\ Stacked' /\ Frames' = {a} \cup T \cup N /\ SameHooks
         /\ \A m : GoesOff(m)' <=> GoesOff(m) \/ (child \in inHierarchy /\ m = child)
    <2>1. CASE child \in inHierarchy
      <3>1. \A g \in {a} \cup T : MayBeAbove(f, g, parent, nodeOf)
        <4>1. \A g \in {a} \cup T : g.at \in NodeCalls => child # g.node /\ child # parent[g.node]
          BY <1>5, <1>6
        <4>2. \A g \in {a} \cup T : g.at \in CompCalls => child # nodeOf[g.comp] /\ child # parent[nodeOf[g.comp]]
          BY <1>5, <1>6
        <4> QED
          BY <1>9, <4>1, <4>2 DEF MayBeAbove, Phases, Passes, CompCalls, CallsOff, Deactivations
      <3>2. f.at \notin Noted /\ f.at \notin Passes /\ f.at \in Deactivations
        BY <1>9 DEF Noted, Passes, Deactivations
      <3>3. stack' = Pushed(f, Pushed(a, Callers)) /\ top.at # "starting"
        BY <1>3, <1>8, <2>1
      <3>4. /\ Stacked' /\ Frames' = {f, a} \cup T /\ SameHooks
            /\ \A m : GoesOff(m)' <=> GoesOff(m) \/ (f.at \in Deactivations /\ m = f.node)
        BY <1>1, <1>3, <1>6, <1>9, <3>1, <3>2, <3>3, CallsQuietly
      <3> QED
        BY <1>9, <1>10, <2>1, <3>2, <3>4
    <2>2. CASE child \notin inHierarchy
      <3>1. /\ Stacked' /\ Frames' = {a} \cup T /\ SameHooks /\ \A m : GoesOff(m)' <=> GoesOff(m)
        BY <1>1, <1>3, <1>6, <2>2, GoesOnQuietly
      <3> QED
        BY <1>10, <2>2, <3>1
    <2> QED
      BY <2>1, <2>2
  <1>12. \A c \in Comps : IsOn(c)' <=> IsOn(c)
    BY <1>3, <1>11 DEF SameHooks, IsOn, Noted
  <1>13. IsOff(child)' /\ \A m : IsOff(m) => IsOff(m)'
    BY <1>3, <1>11 DEF IsOff
  <1>14. ASSUME NEW g \in Frames'
         PROVE  FrameOK(g)'
    <2>1. CASE g \in N
      <3>1. g = f /\ child \in inHierarchy
        BY <1>10, <2>1
      <3>2. Len(children[child]) \in Nat
        BY <1>4, <1>5 DEF Tree
      <3> QED
        BY <1>3, <1>5, <1>9, <3>1, <3>2
           DEF FrameOK, FrameTyped, NodeCallOK, CompCallOK, PhaseOK, NodeCalls, Activations, Deactivations,
               CompCalls, Runs, Been
    <2>2. ASSUME NEW h \in Frames
          PROVE  FrameOK(h)'
      <3>1. FrameOK(h) /\ h \in FrameTypes
        BY <1>4
      <3> QED
        BY <1>3, <1>4, <1>12, <1>13, <3>1, QuietFrame DEF FrameOK, NodeCallOK, CompCallOK
    <2>3. CASE g = a
      <3>1. FrameOK(top)'
        BY <1>4, <2>2
      <3>2. \A m \in Been(a, children'[Root]) : IsOff(m)'
        <4> SUFFICES ASSUME NEW k \in 1 .. a.i - 1
                     PROVE  IsOff(children[Root][k])'
          BY <1>3 DEF Been
        <4>1. CASE k = top.i
          <5>1. children'[Root][k] = child
            BY <1>3, <1>5, <1>7, <4>1
          <5> QED
            BY <1>13, <5>1
        <4>2. CASE k # top.i
          <5>1. k \in 1 .. top.i - 1
            BY <1>6, <4>2
          <5> QED
            BY <1>3, <1>5, <3>1, <5>1 DEF FrameOK, NodeCallOK, Been
        <4> QED
          BY <4>1, <4>2
      <3> QED
        BY <1>3, <1>5, <1>6, <2>3, <3>1, <3>2
           DEF FrameOK, FrameTyped, NodeCallOK, CompCallOK, PhaseOK, NodeCalls, Activations, Deactivations,
               CompCalls, Runs
    <2> QED
      BY <1>4, <1>11, <2>1, <2>2, <2>3
  <1>15. NodesOn'
    BY <1>3, <1>4, <1>11 DEF NodesOn
  <1>16. NodesOff'
    <2>1. a \in Frames' /\ a.node = Root /\ \A m : WillSwitch(a, m)'
      BY <1>3, <1>5, <1>6, <1>11 DEF WillSwitch, Deactivations
    <2> QED
      BY <2>1 DEF NodesOff
  <1>17. CompsOn'
    BY <1>3, <1>4, <1>12 DEF CompsOn, EnabledInHierarchy
  <1>18. CompsOff'
    <2>1. \A c \in alive : c \in Comps /\ ~Excuses(top, c)
      BY <1>3, <1>4 DEF Excuses, Tree
    <2> QED
      BY <1>3, <1>4, <1>11, <1>12, <2>1 DEF CompsOff, Excuses, EnabledInHierarchy
  <1>19. inHierarchy' \subseteq Nodes
    BY <1>3, <1>4 DEF Tree
  <1> QED
    BY <1>3, <1>11, <1>14, <1>15, <1>16, <1>17, <1>18, <1>19, QuietKeeps

LEMMA DeactivateCompsKeeps ==
    ASSUME IInv, DeactivateComps
    PROVE  IInv'
  <1>1. PICK top, T : top = Top /\ T = Range(Callers)
    OBVIOUS
  <1>2. /\ Tree /\ Lists /\ NodesOn /\ NodesOff /\ CompsOn /\ CompsOff /\ Frames = {top} \cup T
        /\ \A g \in Frames : g \in FrameTypes /\ FrameOK(g)
    BY <1>1, Parts
  <1>3. PICK f : f = NodeFrame("deactivating", top.node, Len(comps[top.node]))
    OBVIOUS
  <1>4. /\ top.at = "deactivatingChildren" /\ top.i > top.n /\ stack' = Pushed(f, Callers)
        /\ UNCHANGED <<treeVars, inHierarchy, compVars, flagVars, startQueue, lists, life>>
    BY <1>1, <1>3 DEF DeactivateComps, On, LoopEnds
  <1>5. /\ top \in Frames /\ top.node \in Nodes /\ top.comp = Nothing /\ top \in FrameTypes
        /\ top.n = Len(children[top.node]) /\ \A child \in Been(top, children[top.node]) : IsOff(child)
    BY <1>2, <1>4 DEF FrameOK, FrameTyped, NodeCallOK, NodeCalls, Deactivations, CompCalls, Runs
  <1>6. Len(comps[top.node]) \in Nat /\ children[top.node] \in Seq(Nodes)
    BY <1>2, <1>5 DEF Tree
  <1>7. /\ f \in FrameTypes /\ f.at = "deactivating" /\ f.node = top.node /\ f.comp = Nothing /\ f.i = 1
        /\ f.n = Len(comps[top.node])
    <2>1. PICK n \in Nat : n = Len(comps[top.node])
      BY <1>6
    <2>2. "deactivating" \in NodeCalls
      BY DEF NodeCalls, Deactivations
    <2> QED
      BY <1>3, <1>5, <2>1, <2>2, NewFrames
  <1> USE DEF treeVars, compVars, flagVars
  <1>8. Stacked' /\ Frames' = {f} \cup T /\ SameHooks /\ \A m : GoesOff(m)' <=> GoesOff(m)
    BY <1>1, <1>4, <1>5, <1>7, NodeGivesWay DEF NodeCalls, Activations, Deactivations
  <1>9. \A c \in Comps : IsOn(c)' <=> IsOn(c)
    BY <1>4, <1>8 DEF SameHooks, IsOn, Noted
  <1>10. \A m : IsOff(m)' <=> IsOff(m)
    BY <1>4, <1>8 DEF IsOff
  <1>11. ASSUME NEW child \in Nodes, parent[child] = top.node
         PROVE  IsOff(child)
    <2>1. top.node = Root /\ child # Root
      BY <1>2, <1>5, <1>11, LifecycleAssumption DEF Tree
    <2>2. CASE child \in doomed
      <3>1. child \notin active
        BY <1>2, <2>2 DEF Tree
      <3> QED
        BY <1>2, <2>1, <3>1 DEF NodesOn, IsOff
    <2>3. CASE child \notin doomed
      <3>1. child \in Range(children[Root])
        BY <1>2, <1>11, <2>1, <2>3 DEF Tree
      <3>2. child \in Been(top, children[Root])
        BY <1>4, <1>5, <1>6, <2>1, <3>1 DEF Been, Range, FrameTypes
      <3> QED
        BY <1>5, <2>1, <3>2
    <2> QED
      BY <2>2, <2>3
  <1>12. ASSUME NEW g \in Frames'
         PROVE  FrameOK(g)'
    <2>1. CASE g = f
      BY <1>4, <1>5, <1>6, <1>7, <1>10, <1>11, <2>1
         DEF FrameOK, FrameTyped, NodeCallOK, CompCallOK, PhaseOK, NodeCalls, Activations, Deactivations,
             CompCalls, Runs, Been
    <2>2. CASE g \in Frames
      <3>1. FrameOK(g) /\ g \in FrameTypes
        BY <1>2, <2>2
      <3> QED
        BY <1>2, <1>4, <1>9, <1>10, <3>1, QuietFrame DEF FrameOK, NodeCallOK, CompCallOK
    <2> QED
      BY <1>2, <1>8, <2>1, <2>2
  <1>13. NodesOn'
    BY <1>2, <1>4, <1>8 DEF NodesOn
  <1>14. NodesOff'
    <2>1. \A m : WillSwitch(f, m)'
      BY <1>7 DEF WillSwitch, Deactivations
    <2> QED
      BY <1>2, <1>4, <1>7, <1>8, <2>1 DEF NodesOff, WillSwitch
  <1>15. CompsOn'
    BY <1>2, <1>4, <1>9 DEF CompsOn, EnabledInHierarchy
  <1>16. CompsOff'
    <2>1. \A c \in alive : c \in Comps /\ ~Excuses(top, c)
      BY <1>2, <1>4 DEF Excuses, Tree
    <2> QED
      BY <1>2, <1>4, <1>8, <1>9, <2>1 DEF CompsOff, Excuses, EnabledInHierarchy
  <1>17. inHierarchy' \subseteq Nodes
    BY <1>2, <1>4 DEF Tree
  <1> QED
    BY <1>4, <1>8, <1>12, <1>13, <1>14, <1>15, <1>16, <1>17, QuietKeeps

LEMMA DeactivateReturnsKeeps ==
    ASSUME IInv, DeactivateReturns
    PROVE  IInv'
  <1>1. PICK top, T : top = Top /\ T = Range(Callers)
    OBVIOUS
  <1>2. /\ top.at = "deactivating" /\ top.i > top.n /\ stack' = Callers /\ inHierarchy' = inHierarchy \ {top.node}
        /\ UNCHANGED <<treeVars, compVars, flagVars, startQueue, lists, life>>
    BY <1>1 DEF DeactivateReturns, On, LoopEnds
  <1>3. /\ Tree /\ Flags /\ Lists /\ NodesOn /\ NodesOff /\ CompsOn /\ CompsOff /\ Frames = {top} \cup T
        /\ \A g \in Frames : g \in FrameTypes /\ FrameOK(g)
        /\ \A g \in T : MayBeAbove(top, g, parent, nodeOf)
    BY <1>1, Parts
  <1>4. /\ top.node \in Nodes /\ top \in FrameTypes /\ top.n = Len(comps[top.node])
        /\ \A c \in Been(top, comps[top.node]) : ~IsOn(c)
        /\ \A child \in Nodes : parent[child] = top.node => IsOff(child)
    BY <1>2, <1>3 DEF FrameOK, FrameTyped, NodeCallOK, NodeCalls, Deactivations
  <1> USE DEF treeVars, compVars, flagVars
  <1>5. Stacked' /\ Frames' = T /\ SameHooks /\ \A m : m # top.node => (GoesOff(m)' <=> GoesOff(m))
    <2>1. top.at \notin Phases /\ top.at \notin Noted
      BY <1>2 DEF Phases, Noted
    <2> QED
      BY <1>1, <1>2, <2>1, ReturnsQuietly
  <1>6. \A c \in Comps : IsOn(c)' <=> IsOn(c)
    BY <1>2, <1>5 DEF SameHooks, IsOn, Noted
  <1>7. \A m : IsOff(m) => IsOff(m)'
    BY <1>2, <1>5 DEF IsOff
  <1>8. ASSUME NEW c \in Comps, IsOn(c)
        PROVE  nodeOf[c] # top.node
    <2>1. c \in alive
      BY <1>3, <1>8 DEF IsOn, Flags
    <2>2. nodeOf[c] = top.node => c \in Range(comps[top.node])
      BY <1>3, <2>1 DEF Tree
    <2>3. comps[top.node] \in Seq(Comps)
      BY <1>3, <1>4 DEF Tree
    <2>4. nodeOf[c] = top.node => c \in Been(top, comps[top.node])
      BY <1>2, <1>4, <2>2, <2>3 DEF Been, Range, FrameTypes
    <2> QED
      BY <1>4, <1>8, <2>4
  <1>9. ASSUME NEW g \in Frames'
        PROVE  FrameOK(g)'
    <2>1. FrameOK(g) /\ g \in FrameTypes /\ MayBeAbove(top, g, parent, nodeOf)
      BY <1>3, <1>5
    <2>2. g.at \in Activations => g.node \in inHierarchy'
      BY <1>2, <2>1 DEF FrameOK, NodeCallOK, MayBeAbove, NodeCalls, Deactivations
    <2>3. g.at \in {"onLoad", "onEnable"} => nodeOf[g.comp] \in inHierarchy'
      BY <1>2, <2>1 DEF FrameOK, CompCallOK, MayBeAbove, NodeCalls, Deactivations, CompCalls
    <2> QED
      BY <1>2, <1>3, <1>6, <1>7, <2>1, <2>2, <2>3, QuietFrame
  <1>10. NodesOn'
    <2> SUFFICES ASSUME NEW m \in inHierarchy' \ {Root}
                 PROVE  GoesOff(m)' \/ (m \in active /\ parent[m] = Root /\ Root \in inHierarchy')
      BY <1>2 DEF NodesOn
    <2>1. m \in inHierarchy /\ m # top.node /\ m \in Nodes
      BY <1>2, <1>3 DEF Tree
    <2>2. CASE GoesOff(m)
      BY <1>5, <2>1, <2>2
    <2>3. CASE ~GoesOff(m)
      <3>1. m \in active /\ parent[m] = Root /\ Root \in inHierarchy
        BY <1>3, <2>1, <2>3 DEF NodesOn
      <3>2. top.node # Root
        BY <1>4, <2>1, <2>3, <3>1 DEF IsOff
      <3> QED
        BY <1>2, <3>1, <3>2
    <2> QED
      BY <2>2, <2>3
  <1>11. NodesOff'
    <2> SUFFICES ASSUME NEW m \in active \ {Root}, parent[m] = Root, Root \in inHierarchy'
                 PROVE  \/ m \in inHierarchy' /\ ~GoesOff(m)'
                        \/ \E g \in Frames' : g.node = Root /\ WillSwitch(g, m)'
      BY <1>2 DEF NodesOff
    <2>1. top.node # Root /\ Root \in inHierarchy
      BY <1>2
    <2>2. GoesOff(top.node)
      BY <1>2, <1>3 DEF GoesOff, Deactivations
    <2>3. CASE m \in inHierarchy /\ ~GoesOff(m)
      BY <1>2, <1>5, <2>2, <2>3
    <2>4. CASE \E g \in Frames : g.node = Root /\ WillSwitch(g, m)
      BY <1>2, <1>3, <1>5, <2>1, <2>4 DEF WillSwitch
    <2> QED
      BY <1>3, <2>1, <2>3, <2>4 DEF NodesOff
  <1>12. CompsOn'
    BY <1>2, <1>3, <1>6, <1>8 DEF CompsOn, EnabledInHierarchy
  <1>13. CompsOff'
    <2> SUFFICES ASSUME NEW c \in alive, EnabledInHierarchy(c)'
                 PROVE  IsOn(c)' \/ \E g \in Frames' : Excuses(g, c)'
      BY <1>2 DEF CompsOff
    <2>1. c \in Comps /\ EnabledInHierarchy(c) /\ nodeOf[c] # top.node
      BY <1>2, <1>3 DEF EnabledInHierarchy, Tree
    <2>2. ~Excuses(top, c)
      BY <1>2, <2>1 DEF Excuses
    <2> QED
      BY <1>2, <1>3, <1>5, <1>6, <2>1, <2>2 DEF CompsOff, Excuses
  <1>14. inHierarchy' \subseteq Nodes
    BY <1>2, <1>3 DEF Tree
  <1> QED
    BY <1>2, <1>5, <1>9, <1>10, <1>11, <1>12, <1>13, <1>14, QuietKeeps
-----------------------------------------------------------------------------
(* The hooks of components.                                                   *)

\* A hook is called from the innermost call in progress.
LEMMA HookBegins ==
    ASSUME IInv, NEW top, NEW T, top = Top, T = Range(Callers), NEW a, Resumed(a), top.at # "starting" \/ a.i = top.i,
           LinksKept(stack), NEW c \in Comps, NEW hook \in {"onLoad", "onEnable", "onDisable"},
           NEW f, f = HookFrame(c, hook), stack' = Pushed(f, Pushed(a, Callers)),
           hook # "onDisable" => \A g \in Frames : g.at \notin CallsOff \cup {"start", "starting"},
           \A g \in Frames : g.at \in CompCalls /\ g.comp = c => hook = "onDisable" /\ g.at = "removing"
    PROVE  /\ f \in FrameTypes /\ f.at = hook /\ f.node = Nothing /\ f.comp = c /\ f.i = 1 /\ f.n = 0
           /\ a \in FrameTypes /\ a.at = top.at /\ a.node = top.node /\ a.comp = top.comp /\ a.n = top.n /\ a.batch = top.batch
           /\ Stacked' /\ Frames' = {f, a} \cup T
           /\ CallBegins(hook, c) /\ \A at \in CompCalls : In(at, c) => hook = "onDisable" /\ at = "removing"
           /\ \A m : GoesOff(m)' <=> GoesOff(m)
           /\ InPass' <=> InPass
           /\ \A d \in Comps : (\E g \in Frames : g.at = "starting" /\ d \in Rest(g, g.batch))
                            => (\E g \in Frames' : g.at = "starting" /\ d \in Rest(g, g.batch))
  <1>1. /\ Stacked /\ Frames = {top} \cup T
    BY Parts
  <1>2. f \in FrameTypes /\ f.at = hook /\ f.node = Nothing /\ f.comp = c /\ f.i = 1 /\ f.n = 0
    BY NewFrames DEF Hooks
  <1>3. a \in FrameTypes /\ a.at = top.at /\ a.node = top.node /\ a.comp = top.comp /\ a.n = top.n /\ a.batch = top.batch
    BY DEF Resumed
  <1>4. ASSUME NEW g \in {a} \cup Range(Callers)
        PROVE  MayBeAbove(f, g, parent', nodeOf')
    <2>1. /\ hook # "onDisable" => g.at \notin CallsOff \cup {"start", "starting"}
          /\ g.at \in CompCalls /\ g.comp = c => hook = "onDisable" /\ g.at = "removing"
      BY <1>1, <1>3
    <2> QED
      BY <1>2, <2>1 DEF MayBeAbove, Phases, Passes, NodeCalls, Activations, Deactivations, CallsOff
  <1>5. hook \notin Passes /\ hook \notin Deactivations
    BY DEF Passes, Deactivations
  <1>6. /\ Stacked' /\ Frames' = {f, a} \cup Range(Callers)
        /\ \A at, d : In(at, d)' <=> In(at, d) \/ (at = f.at /\ d = f.comp)
        /\ \A node : GoesOff(node)' <=> GoesOff(node) \/ (f.at \in Deactivations /\ node = f.node)
        /\ f.at \notin Passes => (InPass' <=> InPass)
    BY <1>1, <1>2, <1>4, CallsOn
  <1>7. CallBegins(hook, c)
    BY <1>2, <1>6 DEF CallBegins
  <1>8. \A at \in CompCalls : In(at, c) => hook = "onDisable" /\ at = "removing"
    BY DEF In
  <1>9. ASSUME NEW d \in Comps, NEW g \in Frames, g.at = "starting", d \in Rest(g, g.batch)
        PROVE  \E h \in Frames' : h.at = "starting" /\ d \in Rest(h, h.batch)
    <2>1. CASE g = top
      <3>1. a.i = top.i
        BY <1>9, <2>1
      <3>2. Rest(a, a.batch) = Rest(top, top.batch)
        BY <1>3, <3>1 DEF Rest
      <3> QED
        BY <1>3, <1>6, <1>9, <2>1, <3>2
    <2>2. CASE g # top
      BY <1>1, <1>6, <1>9, <2>2
    <2> QED
      BY <2>1, <2>2
  <1> QED
    BY <1>2, <1>3, <1>5, <1>6, <1>7, <1>8, <1>9

\* The frame, if any, by which it begins over the caller and the calls below.
Activating(N, a, T, c, on) ==
    /\ \A f \in N : /\ f \in FrameTypes /\ f.at \in {"onLoad", "onEnable"} /\ f.node = Nothing /\ f.comp = c
                    /\ f.i = 1 /\ f.n = 0
                    /\ f.at = "onLoad" => c \notin onLoaded
                    /\ f.at = "onEnable" => on /\ c \in onLoaded \ onEnabled
    /\ N = {} => c \in onEnabled \/ ~on
    /\ Stacked' /\ Frames' = {a} \cup T \cup N
    /\ Flags' /\ Lists' /\ Queue' /\ Lives' /\ \A d \in Comps : IsOn(d)' <=> IsOn(d)
    /\ \A m : GoesOff(m)' <=> GoesOff(m)
    /\ InPass' <=> InPass

\* activateComp, of a component that no call in progress switches.
LEMMA ActivatingBegins ==
    ASSUME IInv, NEW top, NEW T, top = Top, T = Range(Callers), NEW a, Resumed(a), top.at # "starting" \/ a.i = top.i,
           LinksKept(stack), NEW c \in Comps, c \in alive, NEW on, BeginActivateComp(c, on, Pushed(a, Callers)),
           \A g \in Frames : g.at \notin CallsOff \cup {"start", "starting"},
           \A g \in Frames : g.at \in CompCalls => g.comp # c,
           UNCHANGED <<created, alive, flagVars, startQueue, lists>>
    PROVE  \E N : Activating(N, a, T, c, on)
  <1>1. /\ Tree /\ Flags /\ Stacked /\ Lists /\ Queue /\ Lives /\ Frames = {top} \cup T
    BY Parts
  <1>2. c \in created /\ created \subseteq Comps
    BY <1>1 DEF Tree
  <1>3. ASSUME NEW hook \in {"onLoad", "onEnable"}, Enter(c, hook, Pushed(a, Callers)),
               hook = "onLoad" => c \notin onLoaded, hook = "onEnable" => on /\ c \in onLoaded \ onEnabled
        PROVE  \E N : Activating(N, a, T, c, on)
    <2>1. PICK f : f = HookFrame(c, hook)
      OBVIOUS
    <2>2. stack' = Pushed(f, Pushed(a, Callers)) /\ CallsHook(c, hook)
      BY <1>3, <2>1 DEF Enter
    <2>3. hook \in {"onLoad", "onEnable", "onDisable"}
      OBVIOUS
    <2>4. \A g \in Frames : g.at \in CompCalls /\ g.comp = c => hook = "onDisable" /\ g.at = "removing"
      OBVIOUS
    <2>5. /\ f \in FrameTypes /\ f.at = hook /\ f.node = Nothing /\ f.comp = c /\ f.i = 1 /\ f.n = 0
          /\ Stacked' /\ Frames' = {f, a} \cup T
          /\ CallBegins(hook, c) /\ \A at \in CompCalls : In(at, c) => hook = "onDisable" /\ at = "removing"
          /\ \A m : GoesOff(m)' <=> GoesOff(m)
          /\ InPass' <=> InPass
          /\ \A d \in Comps : (\E g \in Frames : g.at = "starting" /\ d \in Rest(g, g.batch))
                           => (\E g \in Frames' : g.at = "starting" /\ d \in Rest(g, g.batch))
      <3> HIDE DEF Top, Callers
      <3> QED
        BY <2>1, <2>2, <2>3, <2>4, HookBegins
    <2>6. \A d \in Comps : Waits(d) => Waits(d)'
      BY <2>5 DEF Waits
    <2>7. \A at \in CompCalls : ~In(at, c)
      BY <2>5
    <2>8. Flags' /\ Lists' /\ Queue' /\ Lives' /\ \A d \in Comps : IsOn(d)' <=> IsOn(d)
      <3>1. CASE hook = "onLoad"
        <4>1. Grows /\ Idle(c)
          BY <1>1, <2>7 DEF Grows, Tree, Idle
        <4>2. CallBegins("onLoad", c) /\ CallsHook(c, "onLoad")
          BY <2>2, <2>5, <3>1
        <4> QED
          BY <1>1, <1>3, <2>5, <2>6, <3>1, <4>1, <4>2, LoadBegins
      <3>2. CASE hook = "onEnable"
        <4>1. CallsHook(c, "onEnable") /\ c \in onLoaded' /\ c \notin onEnabled /\ onLoaded' = onLoaded
          BY <1>3, <2>2, <3>2 DEF flagVars
        <4>2. /\ \A at \in {"onEnable", "onDisable", "onDestroy", "start"} : \A d \in Comps :
                    In(at, d)' <=> In(at, d) \/ (at = "onEnable" /\ d = c)
              /\ \A d \in Comps : In("onLoad", d)' <=> In("onLoad", d) /\ ~(d = c /\ onLoaded' # onLoaded)
          BY <2>5, <3>2, <4>1 DEF CallBegins, Noted
        <4>3. ~In("onLoad", c) /\ \A at \in {"onEnable", "onDestroy", "onDisable"} : ~In(at, c)
          BY <2>7 DEF CompCalls
        <4>4. UNCHANGED <<created, alive, onEnabled, startCalled, startQueue, lists>>
          BY DEF flagVars
        <4> QED
          BY <1>1, <1>2, <2>5, <2>6, <4>1, <4>2, <4>3, <4>4, EnableBegins
      <3> QED
        BY <3>1, <3>2
    <2>9. PICK N : N = {f}
      OBVIOUS
    <2> QED
      BY <1>3, <2>5, <2>8, <2>9 DEF Activating
  <1>4. CASE c \notin onLoaded
    <2>1. Enter(c, "onLoad", Pushed(a, Callers))
      BY <1>4 DEF BeginActivateComp
    <2> QED
      BY <1>3, <1>4, <2>1
  <1>5. CASE c \in onLoaded /\ on /\ c \notin onEnabled
    <2>1. Enter(c, "onEnable", Pushed(a, Callers))
      BY <1>5 DEF BeginActivateComp, EnableOrReturn
    <2> QED
      BY <1>3, <1>5, <2>1
  <1>6. CASE c \in onLoaded /\ ~(on /\ c \notin onEnabled)
    <2>1. stack' = Pushed(a, Callers) /\ life' = life
      BY <1>6 DEF BeginActivateComp, EnableOrReturn
    <2>2. /\ Stacked' /\ Frames' = {a} \cup Range(Callers)
          /\ \A at, d : In(at, d)' <=> In(at, d)
          /\ \A node : GoesOff(node)' <=> GoesOff(node)
          /\ InPass' <=> InPass
      BY <1>1, <2>1, GoesOn
    <2>3. ASSUME NEW d \in Comps, Waits(d)
          PROVE  Waits(d)'
      <3>1. a.at = top.at /\ a.batch = top.batch /\ a.n = top.n
        BY DEF Resumed
      <3> HIDE DEF Top, Callers
      <3>2. top.at = "starting" => Rest(a, a.batch) = Rest(top, top.batch)
        BY <3>1 DEF Rest
      <3> QED
        BY <1>1, <2>2, <2>3, <3>1, <3>2 DEF Waits
    <2>4. Grows /\ SameHooks
      BY <1>1, <2>2, <2>3 DEF Grows, Tree, SameHooks
    <2>5. Flags' /\ Lists' /\ Queue' /\ Lives' /\ \A d \in Comps : IsOn(d)' <=> IsOn(d)
      BY <1>1, <2>1, <2>4, HooksUntouched
    <2>6. PICK N : N = {}
      OBVIOUS
    <2> QED
      BY <1>6, <2>2, <2>5, <2>6 DEF Activating
  <1> QED
    BY <1>4, <1>5, <1>6

LEMMA ActivateNextCompKeeps ==
    ASSUME IInv, ActivateNextComp
    PROVE  IInv'
  <1>1. PICK top, T : top = Top /\ T = Range(Callers)
    OBVIOUS
  <1>2. PICK a, c : a = Advanced /\ c = comps[Top.node][Top.i]
    OBVIOUS
  <1>3. /\ top.at = "activating" /\ ~LoopEnds /\ top.i <= Len(comps[top.node]) /\ c = comps[top.node][top.i]
        /\ BeginActivateComp(c, c \in enabled, Pushed(a, Callers))
        /\ UNCHANGED <<treeVars, inHierarchy, compVars, flagVars, startQueue, lists>>
    BY <1>1, <1>2 DEF ActivateNextComp, On
  <1>4. /\ Tree /\ Flags /\ Stacked /\ FramesOK /\ Lists /\ NodesOn /\ NodesOff /\ CompsOn /\ CompsOff
        /\ Frames = {top} \cup T /\ \A g \in Frames : g \in FrameTypes /\ FrameOK(g)
        /\ \A g \in T : MayBeAbove(top, g, parent, nodeOf)
    BY <1>1, Parts
  <1>5. /\ Resumed(a) /\ a.i = top.i + 1 /\ top.i <= top.n /\ top.i \in Nat /\ top.n \in Nat /\ top.i >= 1
        /\ a \in FrameTypes /\ a.at = top.at /\ a.node = top.node /\ a.comp = top.comp /\ a.n = top.n
    <2>1. Resumed(a) /\ a.i = top.i + 1 /\ top.i <= top.n /\ top.i \in Nat /\ top.n \in Nat /\ top.i >= 1
      BY <1>1, <1>2, <1>3, <1>4, LoopGoesOn
    <2> QED
      BY <1>1, <2>1 DEF Resumed
  <1> USE DEF treeVars, compVars
  <1>6. top.node \in Nodes /\ top.node \in inHierarchy
    BY <1>3, <1>4 DEF FrameOK, FrameTyped, NodeCallOK, NodeCalls, Activations
  <1>7. c \in Comps /\ c \in alive /\ nodeOf[c] = top.node
    <2>1. comps[top.node] \in Seq(Comps)
      BY <1>4, <1>6 DEF Tree
    <2>2. c \in Range(comps[top.node])
      BY <1>3, <1>5, <2>1 DEF Range
    <2> QED
      BY <1>4, <1>6, <2>1, <2>2 DEF Tree, Range
  <1>8. \A g \in Frames : g.at \notin CallsOff \cup {"start", "starting"}
    BY <1>3, <1>4 DEF MayBeAbove, CallsOff, Deactivations
  <1>9. \A g \in Frames : g.at \in CompCalls => g.comp # c
    BY <1>3, <1>4, <1>7 DEF MayBeAbove, NodeCalls, Activations, CompCalls
  <1>10. LinksKept(stack)
    BY <1>3 DEF LinksKept
  <1>11. PICK N : Activating(N, a, T, c, c \in enabled)
    <2>1. top.at # "starting"
      BY <1>3
    <2>2. PICK on : on = (c \in enabled)
      OBVIOUS
    <2>3. BeginActivateComp(c, on, Pushed(a, Callers))
      BY <1>3, <2>2
    <2>4. UNCHANGED <<created, alive, flagVars, startQueue, lists>>
      BY <1>3
    <2> HIDE DEF Top, Callers
    <2>5. \E N : Activating(N, a, T, c, on)
      BY <1>1, <1>5, <1>7, <1>8, <1>9, <1>10, <2>1, <2>3, <2>4, ActivatingBegins
    <2> QED
      BY <2>2, <2>5
  <1> HIDE DEF Top, Callers
  <1>12. /\ \A f \in N : /\ f \in FrameTypes /\ f.at \in {"onLoad", "onEnable"} /\ f.node = Nothing /\ f.comp = c
                         /\ f.i = 1 /\ f.n = 0
                         /\ f.at = "onLoad" => c \notin onLoaded
                         /\ f.at = "onEnable" => c \in enabled /\ c \in onLoaded \ onEnabled
         /\ N = {} => c \in onEnabled \/ c \notin enabled
         /\ Stacked' /\ Frames' = {a} \cup T \cup N
         /\ Flags' /\ Lists' /\ Queue' /\ Lives' /\ \A d \in Comps : IsOn(d)' <=> IsOn(d)
         /\ \A m : GoesOff(m)' <=> GoesOff(m)
    BY <1>11 DEF Activating
  <1>13. \A m : IsOff(m)' <=> IsOff(m)
    BY <1>3, <1>12 DEF IsOff
  <1>14. ASSUME NEW h \in Frames
         PROVE  FrameOK(h)'
    <2>1. FrameOK(h) /\ h \in FrameTypes
      BY <1>4
    <2> QED
      BY <1>3, <1>4, <1>12, <1>13, <2>1, QuietFrame DEF FrameOK, NodeCallOK, CompCallOK
  <1>15. FramesOK'
    <2> SUFFICES ASSUME NEW g \in Frames'
                 PROVE  FrameOK(g)'
      BY DEF FramesOK, FrameOK
    <2>1. CASE g \in N
      BY <1>3, <1>6, <1>7, <1>12, <2>1
         DEF FrameOK, FrameTyped, NodeCallOK, CompCallOK, PhaseOK, NodeCalls, Activations, Deactivations,
             CompCalls, Runs, flagVars
    <2>2. CASE g = a
      <3>1. FrameOK(top)'
        BY <1>4, <1>14
      <3> QED
        BY <1>3, <1>5, <2>2, <3>1
           DEF FrameOK, FrameTyped, NodeCallOK, CompCallOK, PhaseOK, NodeCalls, Activations, CompCalls, Runs
    <2> QED
      BY <1>4, <1>12, <1>14, <2>1, <2>2
  <1>16. Tree'
    BY <1>3, <1>4 DEF Tree
  <1>17. NodesOn' /\ NodesOff'
    <2>1. \A g \in Frames : g.at \in NodeCalls =>
            \E h \in Frames' : h.node = g.node /\ h.at = g.at /\ (g.at = "activatingChildren" => h.i = g.i /\ h.n = g.n)
      BY <1>3, <1>4, <1>5, <1>12
    <2> QED
      BY <1>3, <1>4, <1>12, <2>1, NodesUntouched
  <1>18. CompsOn'
    BY <1>3, <1>4, <1>12 DEF CompsOn, EnabledInHierarchy
  <1>19. CompsOff'
    <2> SUFFICES ASSUME NEW d \in alive, EnabledInHierarchy(d), ~IsOn(d)
                 PROVE  \E g \in Frames' : Excuses(g, d)'
      BY <1>3, <1>4, <1>12 DEF CompsOff, EnabledInHierarchy, Tree
    <2>1. PICK g \in Frames : Excuses(g, d)
      BY <1>4 DEF CompsOff
    <2>2. CASE g # top
      BY <1>3, <1>4, <1>12, <2>1, <2>2 DEF Excuses
    <2>3. CASE g = top /\ d # c
      <3>1. d \in Rest(top, comps[top.node])
        BY <1>3, <2>1, <2>3 DEF Excuses
      <3>2. d \in Rest(a, comps'[top.node])
        BY <1>3, <1>5, <2>3, <3>1 DEF Rest
      <3> QED
        BY <1>3, <1>5, <1>12, <2>1, <2>3, <3>2 DEF Excuses
    <2>4. CASE d = c
      <3>1. ~In("onDisable", c)
        BY <1>8 DEF In, CallsOff
      <3>2. PICK f \in N : TRUE
        BY <1>12, <2>4, <3>1 DEF IsOn, EnabledInHierarchy
      <3> QED
        BY <1>12, <2>4, <3>2 DEF Excuses
    <2> QED
      BY <2>2, <2>3, <2>4
  <1> QED
    BY <1>12, <1>15, <1>16, <1>17, <1>18, <1>19 DEF IInv
-----------------------------------------------------------------------------
(* deactivateComp, on the calls that its caller leaves in progress.           *)

PassCalls == {"updating", "lateUpdating"} \cup Passes

\* The calls B of the stack t are those in progress, as far as hooks, nodes,
\* passes and starts are concerned.
Based(t, B) ==
    /\ t \in Seq(FrameTypes) /\ t # <<>> /\ Range(t) = B /\ Nested(t, parent', nodeOf')
    /\ \A at \in Noted : \A d \in Comps : (\E g \in B : g.at = at /\ g.comp = d) <=> In(at, d)
    /\ \A m : (\E g \in B : g.at \in Deactivations /\ g.node = m) <=> GoesOff(m)
    /\ (\E g \in B : g.at \in PassCalls) <=> InPass
    /\ \A d \in Comps : (\E g \in B : g.at = "starting" /\ d \in Rest(g, g.batch))
                          <=> (\E g \in Frames : g.at = "starting" /\ d \in Rest(g, g.batch))

LEMMA InPassFrames ==
    /\ InPass <=> \E g \in Frames : g.at \in PassCalls
    /\ InPass' <=> \E g \in Frames' : g.at \in PassCalls
  BY DEF InPass, Frames, Range, PassCalls

LEMMA BasedOnCaller ==
    ASSUME IInv, NEW top, NEW T, top = Top, T = Range(Callers), NEW a, Resumed(a), top.at # "starting" \/ a.i = top.i,
           LinksKept(stack)
    PROVE  Based(Pushed(a, Callers), {a} \cup T)
  <1>1. Stacked /\ Frames = {top} \cup T
    BY Parts
  <1>2. a.at = top.at /\ a.node = top.node /\ a.comp = top.comp /\ a.n = top.n /\ a.batch = top.batch
    BY DEF Resumed
  <1>3. /\ Pushed(a, Callers) \in Seq(FrameTypes) /\ Pushed(a, Callers) # <<>>
        /\ Range(Pushed(a, Callers)) = {a} \cup T /\ Nested(Pushed(a, Callers), parent', nodeOf')
    BY <1>1, Resumes
  <1> HIDE DEF Top, Callers
  <1>4. \A at, d : (\E g \in {a} \cup T : g.at = at /\ g.comp = d) <=> In(at, d)
    BY <1>1, <1>2 DEF In
  <1>5. \A m : (\E g \in {a} \cup T : g.at \in Deactivations /\ g.node = m) <=> GoesOff(m)
    BY <1>1, <1>2 DEF GoesOff
  <1>6. (\E g \in {a} \cup T : g.at \in PassCalls) <=> InPass
    BY <1>1, <1>2, InPassFrames
  <1>7. top.at = "starting" => Rest(a, a.batch) = Rest(top, top.batch)
    BY <1>2 DEF Rest
  <1>8. \A d \in Comps : (\E g \in {a} \cup T : g.at = "starting" /\ d \in Rest(g, g.batch))
                          <=> (\E g \in Frames : g.at = "starting" /\ d \in Rest(g, g.batch))
    BY <1>1, <1>2, <1>7
  <1> QED
    BY <1>3, <1>4, <1>5, <1>6, <1>8 DEF Based

\* The frame, if any, by which it begins over the calls B.
Deactivating(N, B, c) ==
    /\ \A f \in N : /\ f \in FrameTypes /\ f.at = "onDisable" /\ f.node = Nothing /\ f.comp = c
                    /\ f.i = 1 /\ f.n = 0 /\ c \in onEnabled
    /\ Stacked' /\ Frames' = B \cup N
    /\ Flags' /\ Lists' /\ Queue' /\ Lives' /\ \A d \in Comps : IsOn(d)' <=> IsOn(d) /\ d # c
    /\ \A m : GoesOff(m)' <=> GoesOff(m)
    /\ InPass' <=> InPass
    /\ InPass => \A pass \in Passes : lists'[pass].now = lists[pass].now
    /\ startQueue = <<>> => startQueue' = <<>>

LEMMA DeactivatingBegins ==
    ASSUME IInv, NEW t, NEW B, Based(t, B), NEW c \in Comps, c \in alive, BeginDeactivateComp(c, t),
           \A g \in B : g.at \in CompCalls /\ g.comp = c => g.at = "removing",
           UNCHANGED <<created, alive, flagVars>>
    PROVE  \E N : Deactivating(N, B, c)
  <1>1. Tree /\ Flags /\ Lists /\ Queue /\ Lives
    BY DEF IInv
  <1>2. /\ t \in Seq(FrameTypes) /\ t # <<>> /\ Range(t) = B /\ Nested(t, parent', nodeOf')
        /\ \A at \in Noted : \A d \in Comps : (\E g \in B : g.at = at /\ g.comp = d) <=> In(at, d)
        /\ \A m : (\E g \in B : g.at \in Deactivations /\ g.node = m) <=> GoesOff(m)
        /\ (\E g \in B : g.at \in PassCalls) <=> InPass
        /\ \A d \in Comps : (\E g \in B : g.at = "starting" /\ d \in Rest(g, g.batch))
                          <=> (\E g \in Frames : g.at = "starting" /\ d \in Rest(g, g.batch))
    BY DEF Based
  <1>3. \A at \in Noted \ {"start"} : ~In(at, c)
    BY <1>2 DEF Noted, CompCalls
  <1>4. CASE c \in onEnabled
    <2>1. PICK f : f = HookFrame(c, "onDisable")
      OBVIOUS
    <2>2. /\ stack' = Pushed(f, t) /\ CallsHook(c, "onDisable") /\ Unschedule(c)
          /\ startQueue' = Without(startQueue, {c})
      BY <1>4, <2>1 DEF BeginDeactivateComp, Enter
    <2>3. f \in FrameTypes /\ f.at = "onDisable" /\ f.node = Nothing /\ f.comp = c /\ f.i = 1 /\ f.n = 0
      BY <2>1, NewFrames DEF Hooks
    <2>4. ASSUME NEW g \in Range(t)
          PROVE  MayBeAbove(f, g, parent', nodeOf')
      <3>1. g.at \in CompCalls /\ g.comp = c => g.at = "removing"
        BY <1>2
      <3> QED
        BY <2>3, <3>1 DEF MayBeAbove, Phases, Passes, NodeCalls, Activations, Deactivations, CallsOff
    <2>5. Stacked' /\ Frames' = {f} \cup B
      BY <1>2, <2>2, <2>3, <2>4, Begins1
    <2>6. CallBegins("onDisable", c)
      <3> SUFFICES ASSUME NEW at \in Noted, NEW d \in Comps
                   PROVE  In(at, d)' <=> In(at, d) \/ (at = "onDisable" /\ d = c)
        BY DEF CallBegins
      <3>1. In(at, d)' <=> (\E g \in B : g.at = at /\ g.comp = d) \/ (at = "onDisable" /\ d = c)
        BY <2>3, <2>5 DEF In
      <3> QED
        BY <1>2, <3>1
    <2>7. \A m : GoesOff(m)' <=> GoesOff(m)
      BY <1>2, <2>3, <2>5 DEF GoesOff, Deactivations
    <2>8. InPass' <=> InPass
      <3>1. f.at \notin PassCalls
        BY <2>3 DEF PassCalls, Passes
      <3> QED
        BY <1>2, <2>5, <3>1, InPassFrames
    <2>9. \A d \in Comps : (\E g \in Frames : g.at = "starting" /\ d \in Rest(g, g.batch))
                        => (\E g \in Frames' : g.at = "starting" /\ d \in Rest(g, g.batch))
      BY <1>2, <2>5
    <2>10. Idle(c)
      <3>1. \A at \in CompCalls \ {"removing"} : at \in Noted \ {"start"}
        BY DEF CompCalls, Noted
      <3> QED
        BY <1>3, <3>1 DEF Idle
    <2>11. /\ Flags' /\ Lists' /\ Queue' /\ Lives' /\ \A d \in Comps : IsOn(d)' <=> IsOn(d) /\ d # c
           /\ InPass => \A pass \in Passes : lists'[pass].now = lists[pass].now
           /\ startQueue = <<>> => startQueue' = <<>>
      BY <1>1, <1>4, <2>2, <2>6, <2>8, <2>9, <2>10, DisableBegins
    <2>12. Frames' = B \cup {f}
      BY <2>5
    <2>13. Deactivating({f}, B, c)
      BY <1>4, <2>3, <2>5, <2>7, <2>8, <2>11, <2>12, Zenon DEF Deactivating
    <2> QED
      BY <2>13
  <1>5. CASE c \notin onEnabled
    <2>1. stack' = t /\ UNCHANGED <<lists, startQueue, life>>
      BY <1>5 DEF BeginDeactivateComp
    <2>2. Stacked' /\ Frames' = B
      BY <1>2, <2>1 DEF Stacked, Frames
    <2>3. \A at \in Noted : \A d \in Comps : In(at, d)' <=> In(at, d)
      BY <1>2, <2>2 DEF In
    <2>4. \A m : GoesOff(m)' <=> GoesOff(m)
      BY <1>2, <2>2 DEF GoesOff
    <2>5. InPass' <=> InPass
      BY <1>2, <2>2, InPassFrames
    <2>6. \A d \in Comps : Waits(d) => Waits(d)'
      BY <1>2, <2>1, <2>2 DEF Waits
    <2>7. Grows /\ SameHooks
      BY <1>1, <2>3, <2>5, <2>6 DEF Grows, SameHooks, Tree
    <2>8. Flags' /\ Lists' /\ Queue' /\ Lives' /\ \A d \in Comps : IsOn(d)' <=> IsOn(d)
      BY <1>1, <2>1, <2>7, HooksUntouched
    <2>9. \A d \in Comps : IsOn(d)' <=> IsOn(d) /\ d # c
      BY <1>5, <2>8 DEF IsOn
    <2>10. Frames' = B \cup {}
      BY <2>2
    <2>11. Deactivating({}, B, c)
      BY <2>1, <2>2, <2>4, <2>5, <2>8, <2>9, <2>10, Zenon DEF Deactivating
    <2> QED
      BY <2>11
  <1> QED
    BY <1>4, <1>5
-----------------------------------------------------------------------------
(* A component that is switched off, by whichever call.                       *)

LEMMA FrameAfterOff ==
    ASSUME IInv, NEW g \in Frames, UNCHANGED <<treeVars, inHierarchy, nodeOf, created, alive, flagVars>>,
           \A d \in Comps : IsOn(d)' => IsOn(d), \A m : GoesOff(m)' <=> GoesOff(m),
           InPass => \A pass \in Passes : lists'[pass].now = lists[pass].now,
           startQueue = <<>> => startQueue' = <<>>, g.at = "onEnable" => g.comp \in enabled'
    PROVE  FrameOK(g)'
  <1> USE DEF treeVars, flagVars
  <1>1. Tree /\ g \in FrameTypes /\ FrameOK(g)
    <2>1. PICK top, T : top = Top /\ T = Range(Callers)
      OBVIOUS
    <2> QED
      BY <2>1, Parts
  <1>2. FrameTyped(g) /\ NodeCallOK(g) /\ CompCallOK(g) /\ PhaseOK(g)
    BY <1>1 DEF FrameOK
  <1>3. \A m : IsOff(m) => IsOff(m)'
    BY DEF IsOff
  <1>4. g.at \in {"updating", "lateUpdating"} => \A pass \in Passes : lists'[pass].now = lists[pass].now
    BY InPassFrames DEF PassCalls
  <1>5. g.at \in CompCalls => g.comp \in Comps
    BY <1>1, <1>2 DEF FrameTyped, Tree
  <1>6. comps' \in [Nodes -> Seq(Comps)] /\ \A m \in Nodes : Len(comps[m]) \in Nat
    BY <1>1 DEF Tree
  <1>7. g.at \in NodeCalls => g.node \in Nodes
    BY <1>2 DEF FrameTyped
  <1>8. Undisturbed(g)
    BY <1>2, <1>3, <1>4, <1>5, <1>6, <1>7
       DEF Undisturbed, FrameTyped, NodeCallOK, CompCallOK, PhaseOK, NodeCalls, Activations, Deactivations,
           CompCalls, Passes
  <1> QED
    BY <1>1, <1>6, <1>8, FrameStays

LEMMA OffKeeps ==
    ASSUME IInv, NEW B, NEW N, NEW c \in Comps, c \in alive, Deactivating(N, B, c),
           UNCHANGED <<treeVars, inHierarchy, nodeOf, created, alive, flagVars>>, enabled' \subseteq enabled,
           \A g \in B : FrameOK(g)',
           \A f \in Frames : f.at \in NodeCalls =>
              \E g \in B : g.node = f.node /\ g.at = f.at /\ (f.at = "activatingChildren" => g.i = f.i /\ g.n = f.n),
           \A d \in alive : d # c /\ (\E g \in Frames : Excuses(g, d)) => \E g \in B : Excuses(g, d),
           \A d \in Comps : d # c => (d \in enabled' <=> d \in enabled),
           EnabledInHierarchy(c)' => \E g \in B : Excuses(g, c)
    PROVE  IInv'
  <1> USE DEF treeVars, flagVars
  <1>1. /\ Tree /\ Flags /\ NodesOn /\ NodesOff /\ CompsOn /\ CompsOff
    BY DEF IInv
  <1>2. /\ \A f \in N : /\ f \in FrameTypes /\ f.at = "onDisable" /\ f.node = Nothing /\ f.comp = c
                        /\ f.i = 1 /\ f.n = 0 /\ c \in onEnabled
        /\ Stacked' /\ Frames' = B \cup N
        /\ Flags' /\ Lists' /\ Queue' /\ Lives' /\ \A d \in Comps : IsOn(d)' <=> IsOn(d) /\ d # c
        /\ \A m : GoesOff(m)' <=> GoesOff(m)
    BY DEF Deactivating
  <1>3. Tree'
    BY <1>1 DEF Tree
  <1>4. FramesOK'
    <2> SUFFICES ASSUME NEW g \in Frames'
                 PROVE  FrameOK(g)'
      BY DEF FramesOK, FrameOK
    <2>1. CASE g \in N
      BY <1>2, <2>1
         DEF FrameOK, FrameTyped, NodeCallOK, CompCallOK, PhaseOK, NodeCalls, Activations, Deactivations,
             CompCalls, Runs
    <2> QED
      BY <1>2, <2>1
  <1>5. NodesOn' /\ NodesOff'
    <2>1. \A f \in Frames : f.at \in NodeCalls =>
              \E g \in Frames' : g.node = f.node /\ g.at = f.at /\ (f.at = "activatingChildren" => g.i = f.i /\ g.n = f.n)
      <3>1. \A g \in B : g \in Frames'
        BY <1>2
      <3> QED
        BY <3>1
    <2> QED
      BY <1>1, <1>2, <2>1, NodesUntouched
  <1>6. CompsOn'
    BY <1>1, <1>2 DEF CompsOn, EnabledInHierarchy
  <1>7. CompsOff'
    <2> SUFFICES ASSUME NEW d \in alive, EnabledInHierarchy(d)'
                 PROVE  IsOn(d)' \/ \E g \in Frames' : Excuses(g, d)'
      BY DEF CompsOff
    <2>1. d \in Comps
      BY <1>1 DEF Tree
    <2>2. \A g \in B : Excuses(g, d) => g \in Frames' /\ Excuses(g, d)'
      BY <1>2 DEF Excuses
    <2>3. CASE d = c
      BY <2>2, <2>3
    <2>4. CASE d # c
      <3>1. EnabledInHierarchy(d)
        BY <2>1, <2>4 DEF EnabledInHierarchy
      <3>2. IsOn(d) \/ \E g \in Frames : Excuses(g, d)
        BY <1>1, <3>1 DEF CompsOff
      <3> QED
        BY <1>2, <2>1, <2>2, <2>4, <3>2
    <2> QED
      BY <2>3, <2>4
  <1> QED
    BY <1>2, <1>3, <1>4, <1>5, <1>6, <1>7 DEF IInv

LEMMA DeactivateNextCompKeeps ==
    ASSUME IInv, DeactivateNextComp
    PROVE  IInv'
  <1>1. PICK top, T : top = Top /\ T = Range(Callers)
    OBVIOUS
  <1>2. PICK a, c, t : a = Advanced /\ c = comps[Top.node][Top.i] /\ t = Pushed(Advanced, Callers)
    OBVIOUS
  <1>3. /\ top.at = "deactivating" /\ ~LoopEnds /\ top.i <= Len(comps[top.node]) /\ c = comps[top.node][top.i]
        /\ BeginDeactivateComp(c, t)
        /\ UNCHANGED <<treeVars, inHierarchy, compVars, flagVars>>
    BY <1>1, <1>2 DEF DeactivateNextComp, On
  <1>4. /\ Tree /\ Flags /\ Stacked /\ FramesOK
        /\ Frames = {top} \cup T /\ \A g \in Frames : g \in FrameTypes /\ FrameOK(g)
        /\ \A g \in T : MayBeAbove(top, g, parent, nodeOf)
    BY <1>1, Parts
  <1>5. /\ Resumed(a) /\ a.i = top.i + 1 /\ top.i <= top.n /\ top.i \in Nat /\ top.n \in Nat /\ top.i >= 1
        /\ a \in FrameTypes /\ a.at = top.at /\ a.node = top.node /\ a.comp = top.comp /\ a.n = top.n
    <2>1. Resumed(a) /\ a.i = top.i + 1 /\ top.i <= top.n /\ top.i \in Nat /\ top.n \in Nat /\ top.i >= 1
      BY <1>1, <1>2, <1>3, <1>4, LoopGoesOn
    <2> QED
      BY <1>1, <2>1 DEF Resumed
  <1>6. Based(t, {a} \cup T)
    <2>1. LinksKept(stack)
      BY <1>3 DEF LinksKept, treeVars, compVars
    <2> QED
      BY <1>1, <1>2, <1>3, <1>5, <2>1, BasedOnCaller
  <1> HIDE DEF Top, Callers
  <1>7. top.node \in Nodes /\ comps[top.node] \in Seq(Comps) /\ comps[top.node][top.i] \in Range(comps[top.node])
    <2>1. top.node \in Nodes
      BY <1>3, <1>4 DEF FrameOK, FrameTyped, NodeCalls, Deactivations
    <2>2. comps[top.node] \in Seq(Comps)
      BY <1>4, <2>1 DEF Tree
    <2> QED
      BY <1>3, <1>5, <2>1, <2>2 DEF Range
  <1>8. c \in Comps /\ c \in alive /\ nodeOf[c] = top.node
    BY <1>3, <1>4, <1>7 DEF Tree
  <1>9. \A g \in {a} \cup T : g.at \in CompCalls => g.comp # c
    BY <1>3, <1>4, <1>5, <1>8 DEF MayBeAbove, NodeCalls, Deactivations, CompCalls
  <1>10. PICK N : Deactivating(N, {a} \cup T, c)
    <2>1. UNCHANGED <<created, alive, flagVars>>
      BY <1>3 DEF compVars
    <2> QED
      BY <1>3, <1>6, <1>8, <1>9, <2>1, DeactivatingBegins
  <1>11. /\ \A d \in Comps : IsOn(d)' <=> IsOn(d) /\ d # c
         /\ \A m : GoesOff(m)' <=> GoesOff(m)
         /\ InPass => \A pass \in Passes : lists'[pass].now = lists[pass].now
         /\ startQueue = <<>> => startQueue' = <<>>
    BY <1>10 DEF Deactivating
  <1>12. UNCHANGED <<treeVars, inHierarchy, nodeOf, created, alive, flagVars>> /\ enabled' = enabled
    BY <1>3 DEF compVars
  <1>13. ASSUME NEW g \in Frames
         PROVE  FrameOK(g)'
    <2>1. g.at = "onEnable" => g.comp \in enabled'
      BY <1>4, <1>12 DEF FrameOK, CompCallOK
    <2> QED
      BY <1>11, <1>12, <2>1, FrameAfterOff
  <1>14. ASSUME NEW g \in {a} \cup T
         PROVE  FrameOK(g)'
    <2>1. CASE g = a
      <3>1. FrameOK(top)'
        BY <1>4, <1>13
      <3>2. \A d \in Been(a, comps'[a.node]) : d = c \/ d \in Been(top, comps'[top.node])
        BY <1>3, <1>5, <1>12 DEF Been, treeVars
      <3>3. ~IsOn(c)'
        BY <1>8, <1>11
      <3>4. \A d \in Been(a, comps'[a.node]) : ~IsOn(d)'
        BY <1>3, <3>1, <3>2, <3>3 DEF FrameOK, NodeCallOK
      <3> QED
        BY <1>3, <1>5, <2>1, <3>1, <3>4
           DEF FrameOK, FrameTyped, NodeCallOK, CompCallOK, PhaseOK, NodeCalls, Activations, Deactivations,
               CompCalls, Runs
    <2> QED
      BY <1>4, <1>13, <2>1
  <1>15. \A f \in Frames : f.at \in NodeCalls =>
            \E g \in {a} \cup T : g.node = f.node /\ g.at = f.at /\ (f.at = "activatingChildren" => g.i = f.i /\ g.n = f.n)
    BY <1>3, <1>4, <1>5
  <1>16. \A d \in alive : (\E g \in Frames : Excuses(g, d)) => \E g \in {a} \cup T : Excuses(g, d)
    <2>1. \A d : Excuses(top, d) => Excuses(a, d)
      BY <1>3, <1>5 DEF Excuses
    <2> QED
      BY <1>4, <2>1
  <1>17. Excuses(a, c)
    BY <1>3, <1>5, <1>8 DEF Excuses
  <1>18. enabled' \subseteq enabled
    BY <1>12
  <1> QED
    BY <1>8, <1>10, <1>12, <1>14, <1>15, <1>16, <1>17, <1>18, OffKeeps
-----------------------------------------------------------------------------
(* What the game's code does to components.                                   *)

\* The frame of the calling code counts the call, and nothing else.
Counted(a, top) ==
    /\ a \in FrameTypes /\ a.at = top.at /\ a.node = top.node /\ a.comp = top.comp
    /\ a.i = top.i /\ a.n = top.n /\ a.batch = top.batch

LEMMA CountedFrame ==
    ASSUME NEW a, NEW top, Counted(a, top)
    PROVE  /\ FrameOK(top)' => FrameOK(a)'
           /\ \A d : Excuses(top, d) <=> Excuses(a, d)
  <1>1. a.at = top.at /\ a.node = top.node /\ a.comp = top.comp /\ a.i = top.i /\ a.n = top.n /\ a.batch = top.batch
    BY DEF Counted
  <1>2. FrameOK(top)' => FrameOK(a)'
    BY <1>1 DEF FrameOK, FrameTyped, NodeCallOK, CompCallOK, PhaseOK, Been, Rest
  <1>3. \A d : Excuses(top, d) <=> Excuses(a, d)
    BY <1>1 DEF Excuses, Rest
  <1> QED
    BY <1>2, <1>3

\* A call begins: where it comes from, and what the calls in progress leave alone.
LEMMA GameCalls ==
    ASSUME CallsSafely, IInv, NEW top, NEW T, top = Top, T = Range(Callers), NEW op, Calls(op)
    PROVE  \E a : /\ Resumed(a) /\ Counted(a, top) /\ Caller = Pushed(a, Callers)
                  /\ top.at \notin NodeCalls \cup {"removing", "starting", "updating", "lateUpdating"}
                  /\ op \notin SwitchesOff => \A g \in Frames : g.at \notin CallsOff \cup {"start", "starting"}
                  /\ op = "remove" => top.at \in {"scene", "logic"}
                  /\ \A x : Free(x) /\ x # Nothing => \A g \in Frames : Spared(g, x)
  <1>1. Stacked /\ FramesOK /\ Tree
    BY Parts
  <1>2. PICK a : a = [Top EXCEPT !.used = @ + 1]
    OBVIOUS
  <1>3. /\ Resumed(a) /\ a.i = Top.i /\ Caller = Pushed(a, Callers)
        /\ Top.at \notin NodeCalls \cup {"removing", "starting", "updating", "lateUpdating"}
        /\ op \notin SwitchesOff => \A g \in Frames : g.at \notin CallsOff \cup {"start", "starting"}
        /\ op = "remove" => Top.at \in {"scene", "logic"}
    BY <1>1, <1>2, CallFacts
  <1>4. \A x : Free(x) /\ x # Nothing => \A g \in Frames : Spared(g, x)
    BY <1>1, FreeIsSpared DEF CallsSafely
  <1>5. Counted(a, top)
    BY <1>3 DEF Resumed, Counted
  <1> QED
    BY <1>3, <1>4, <1>5

LEMMA DisableKeeps ==
    ASSUME CallsSafely, IInv, NEW c \in Comps, Disable(c)
    PROVE  IInv'
  <1>1. PICK top, T : top = Top /\ T = Range(Callers)
    OBVIOUS
  <1>2. /\ Calls("disable") /\ c \in alive \cap enabled /\ Free(c) /\ enabled' = enabled \ {c}
        /\ IF nodeOf[c] \in inHierarchy THEN BeginDeactivateComp(c, Caller)
           ELSE stack' = Caller /\ UNCHANGED <<startQueue, lists, life>>
        /\ UNCHANGED <<treeVars, inHierarchy, nodeOf, created, alive, flagVars>>
    BY DEF Disable
  <1>3. PICK a : /\ Resumed(a) /\ Counted(a, top) /\ Caller = Pushed(a, Callers) /\ top.at # "starting"
                 /\ \A x : Free(x) /\ x # Nothing => \A g \in Frames : Spared(g, x)
    BY <1>1, <1>2, GameCalls
  <1>4. PICK t : t = Caller
    OBVIOUS
  <1>5. \A g \in Frames : Spared(g, c)
    BY <1>2, <1>3, LifecycleAssumption
  <1>6. /\ Tree /\ Flags /\ Stacked /\ CompsOn /\ Lists /\ Queue /\ Lives
        /\ Frames = {top} \cup T /\ \A g \in Frames : g \in FrameTypes /\ FrameOK(g)
    BY <1>1, Parts
  <1>7. a.at = top.at /\ a.node = top.node /\ a.comp = top.comp /\ a.i = top.i /\ a.n = top.n /\ a \in FrameTypes
    BY <1>3 DEF Counted
  <1>8. Based(t, {a} \cup T)
    <2>1. LinksKept(stack)
      BY <1>2 DEF LinksKept, treeVars
    <2> QED
      BY <1>1, <1>3, <1>4, <2>1, BasedOnCaller
  <1>9. \A g \in {a} \cup T : g.at \in CompCalls => g.comp # c
    BY <1>5, <1>6, <1>7 DEF Spared
  <1>10. PICK N : Deactivating(N, {a} \cup T, c)
    <2>0. UNCHANGED <<created, alive, flagVars>>
      BY <1>2
    <2>1. CASE nodeOf[c] \in inHierarchy
      <3>1. BeginDeactivateComp(c, t)
        BY <1>2, <1>4, <2>1
      <3> HIDE DEF Top, Callers
      <3> QED
        BY <1>2, <1>8, <1>9, <2>0, <3>1, DeactivatingBegins
    <2>2. CASE nodeOf[c] \notin inHierarchy
      <3>1. stack' = Pushed(a, Callers) /\ UNCHANGED <<startQueue, lists, life>>
        BY <1>2, <1>3, <2>2
      <3>2. /\ Stacked' /\ Frames' = {a} \cup T /\ SameHooks
            /\ \A m : GoesOff(m)' <=> GoesOff(m)
        BY <1>1, <1>2, <1>3, <3>1, GoesOnQuietly DEF treeVars
      <3> HIDE DEF Top, Callers
      <3>3. Grows
        BY <1>2, <1>6 DEF Grows, Tree
      <3>4. Flags' /\ Lists' /\ Queue' /\ Lives' /\ \A d \in Comps : IsOn(d)' <=> IsOn(d)
        BY <1>2, <1>6, <3>1, <3>2, <3>3, HooksUntouched
      <3>5. ~IsOn(c)
        BY <1>6, <2>2 DEF CompsOn, EnabledInHierarchy
      <3>6. \A d \in Comps : IsOn(d)' <=> IsOn(d) /\ d # c
        BY <3>4, <3>5
      <3>7. (InPass' <=> InPass) /\ Frames' = ({a} \cup T) \cup {}
        BY <3>2 DEF SameHooks
      <3>8. Deactivating({}, {a} \cup T, c)
        BY <3>1, <3>2, <3>4, <3>6, <3>7, Zenon DEF Deactivating
      <3> QED
        BY <3>8
    <2> QED
      BY <2>1, <2>2
  <1> HIDE DEF Top, Callers
  <1>11. /\ \A d \in Comps : IsOn(d)' <=> IsOn(d) /\ d # c
         /\ \A m : GoesOff(m)' <=> GoesOff(m)
         /\ InPass => \A pass \in Passes : lists'[pass].now = lists[pass].now
         /\ startQueue = <<>> => startQueue' = <<>>
    BY <1>10 DEF Deactivating
  <1>12. UNCHANGED <<treeVars, inHierarchy, nodeOf, created, alive, flagVars>>
    BY <1>2
  <1>13. ASSUME NEW g \in Frames
         PROVE  FrameOK(g)'
    <2>1. g.at = "onEnable" => g.comp \in enabled'
      BY <1>2, <1>5, <1>6 DEF FrameOK, CompCallOK, Spared, CompCalls
    <2> QED
      BY <1>11, <1>12, <2>1, FrameAfterOff
  <1>14. \A g \in {a} \cup T : FrameOK(g)'
    <2>1. FrameOK(top)' => FrameOK(a)'
      BY <1>3, CountedFrame
    <2> QED
      BY <1>6, <1>13, <2>1
  <1>15. \A f \in Frames : f.at \in NodeCalls =>
            \E g \in {a} \cup T : g.node = f.node /\ g.at = f.at /\ (f.at = "activatingChildren" => g.i = f.i /\ g.n = f.n)
    BY <1>6, <1>7
  <1>16. \A d \in alive : (\E g \in Frames : Excuses(g, d)) => \E g \in {a} \cup T : Excuses(g, d)
    <2>1. \A d : Excuses(top, d) => Excuses(a, d)
      BY <1>3, CountedFrame
    <2> QED
      BY <1>6, <2>1
  <1>17. ~EnabledInHierarchy(c)' /\ enabled' \subseteq enabled /\ \A d \in Comps : d # c => (d \in enabled' <=> d \in enabled)
    BY <1>2 DEF EnabledInHierarchy
  <1>18. c \in alive
    BY <1>2
  <1> QED
    BY <1>10, <1>12, <1>14, <1>15, <1>16, <1>17, <1>18, OffKeeps

LEMMA RemoveComponentKeeps ==
    ASSUME CallsSafely, IInv, NEW c \in Comps, RemoveComponent(c)
    PROVE  IInv'
  <1>1. PICK top, T : top = Top /\ T = Range(Callers)
    OBVIOUS
  <1>2. /\ Calls("remove") /\ c \in alive /\ BeginDeactivateComp(c, Pushed(Removing(c), Caller))
        /\ UNCHANGED <<treeVars, inHierarchy, compVars, flagVars>>
    BY DEF RemoveComponent
  <1>3. PICK a : /\ Resumed(a) /\ Counted(a, top) /\ Caller = Pushed(a, Callers) /\ top.at \in {"scene", "logic"}
    BY <1>1, <1>2, GameCalls
  <1>4. PICK r, t : r = Removing(c) /\ t = Pushed(Removing(c), Caller)
    OBVIOUS
  <1>6. /\ Tree /\ Flags /\ Stacked /\ T = {} /\ Callers = <<>>
        /\ Frames = {top} /\ \A g \in Frames : g \in FrameTypes /\ FrameOK(g)
    BY <1>1, <1>3, Parts DEF Phases
  <1>7. a.at = top.at /\ a.node = top.node /\ a.comp = top.comp /\ a.i = top.i /\ a.n = top.n /\ a \in FrameTypes
    BY <1>3 DEF Counted
  <1>8. r \in FrameTypes /\ r.at = "removing" /\ r.node = Nothing /\ r.comp = c /\ r.i = 1 /\ r.n = 0
    BY <1>4, NewFrames
  <1>9. Based(t, {r, a})
    <2>1. LinksKept(stack)
      BY <1>2 DEF LinksKept, treeVars, compVars
    <2>2. Based(Caller, {a} \cup T)
      BY <1>1, <1>3, <2>1, BasedOnCaller
    <2> PICK b : b = Caller
      OBVIOUS
    <2>3. /\ b \in Seq(FrameTypes) /\ b # <<>> /\ Range(b) = {a} /\ Nested(b, parent', nodeOf')
          /\ \A at \in Noted : \A d \in Comps : (\E g \in {a} : g.at = at /\ g.comp = d) <=> In(at, d)
          /\ \A m : (\E g \in {a} : g.at \in Deactivations /\ g.node = m) <=> GoesOff(m)
          /\ (\E g \in {a} : g.at \in PassCalls) <=> InPass
          /\ \A d \in Comps : (\E g \in {a} : g.at = "starting" /\ d \in Rest(g, g.batch))
                              <=> (\E g \in Frames : g.at = "starting" /\ d \in Rest(g, g.batch))
      BY <1>6, <2>2 DEF Based
    <2>4. t = Pushed(r, b)
      BY <1>4
    <2> HIDE DEF Top, Callers
    <2>5. t \in Seq(FrameTypes) /\ t # <<>> /\ Range(t) = {r, a}
      <3>1. r \in FrameTypes /\ b \in Seq(FrameTypes) /\ Range(b) = {a}
        BY <1>8, <2>3
      <3>2. Pushed(r, b) \in Seq(FrameTypes) /\ Pushed(r, b) # <<>> /\ Range(Pushed(r, b)) = {r} \cup Range(b)
        BY ONLY <3>1, PushedFacts, ZenonT(60)
      <3> QED
        BY <2>4, <3>1, <3>2
    <2>6. Nested(t, parent', nodeOf')
      <3>1. \A g \in Range(b) : MayBeAbove(r, g, parent', nodeOf')
        BY <1>3, <1>7, <1>8, <2>3 DEF MayBeAbove, Phases, Passes, NodeCalls, Activations, Deactivations,
                                      CallsOff, CompCalls
      <3> QED
        BY <1>8, <2>3, <2>4, <3>1, NestedPushed
    <2>7. r.at \notin Noted /\ r.at \notin Deactivations /\ r.at \notin PassCalls /\ r.at # "starting"
      BY <1>8 DEF Noted, Deactivations, PassCalls, Passes
    <2> QED
      BY <2>3, <2>5, <2>6, <2>7 DEF Based
  <1> HIDE DEF Top, Callers
  <1>10. PICK N : Deactivating(N, {r, a}, c)
    <2>1. BeginDeactivateComp(c, t)
      BY <1>2, <1>4
    <2>2. UNCHANGED <<created, alive, flagVars>>
      BY <1>2 DEF compVars
    <2>3. \A g \in {r, a} : g.at \in CompCalls /\ g.comp = c => g.at = "removing"
      BY <1>3, <1>7, <1>8 DEF CompCalls
    <2> QED
      BY <1>2, <1>9, <2>1, <2>2, <2>3, DeactivatingBegins
  <1>11. /\ \A d \in Comps : IsOn(d)' <=> IsOn(d) /\ d # c
         /\ \A m : GoesOff(m)' <=> GoesOff(m)
         /\ InPass => \A pass \in Passes : lists'[pass].now = lists[pass].now
         /\ startQueue = <<>> => startQueue' = <<>>
    BY <1>10 DEF Deactivating
  <1>12. UNCHANGED <<treeVars, inHierarchy, nodeOf, created, alive, flagVars>> /\ enabled' = enabled
    BY <1>2 DEF compVars
  <1>13. FrameOK(top)'
    <2>1. top \in Frames /\ (top.at = "onEnable" => top.comp \in enabled')
      BY <1>3, <1>6
    <2> QED
      BY <1>11, <1>12, <2>1, FrameAfterOff
  <1>14. \A g \in {r, a} : FrameOK(g)'
    <2>1. FrameOK(a)'
      BY <1>3, <1>13, CountedFrame
    <2>2. FrameOK(r)'
      <3>1. ~IsOn(c)' /\ c \in alive'
        BY <1>2, <1>11, <1>12
      <3> QED
        BY <1>8, <3>1
           DEF FrameOK, FrameTyped, NodeCallOK, CompCallOK, PhaseOK, NodeCalls, Activations, Deactivations,
               CompCalls, Runs
    <2> QED
      BY <2>1, <2>2
  <1>15. \A f \in Frames : f.at \in NodeCalls =>
            \E g \in {r, a} : g.node = f.node /\ g.at = f.at /\ (f.at = "activatingChildren" => g.i = f.i /\ g.n = f.n)
    BY <1>6, <1>7
  <1>16. \A d \in alive : (\E g \in Frames : Excuses(g, d)) => \E g \in {r, a} : Excuses(g, d)
    <2>1. \A d : Excuses(top, d) => Excuses(a, d)
      BY <1>3, CountedFrame
    <2> QED
      BY <1>6, <2>1
  <1>17. Excuses(r, c)
    BY <1>8 DEF Excuses
  <1>18. c \in alive /\ enabled' \subseteq enabled
    BY <1>2, <1>12
  <1> QED
    BY <1>10, <1>12, <1>14, <1>15, <1>16, <1>17, <1>18, OffKeeps
-----------------------------------------------------------------------------
(* Components that are enabled and added.                                     *)

LEMMA EnableKeeps ==
    ASSUME CallsSafely, IInv, NEW c \in Comps, Enable(c)
    PROVE  IInv'
  <1>1. PICK top, T : top = Top /\ T = Range(Callers)
    OBVIOUS
  <1>2. /\ Calls("enable") /\ c \in alive \ enabled /\ Free(c) /\ enabled' = enabled \cup {c}
        /\ IF nodeOf[c] \in inHierarchy THEN BeginActivateComp(c, TRUE, Caller)
           ELSE stack' = Caller /\ UNCHANGED life
        /\ UNCHANGED <<treeVars, inHierarchy, nodeOf, created, alive, flagVars, startQueue, lists>>
    BY DEF Enable
  <1>3. PICK a : /\ Resumed(a) /\ Counted(a, top) /\ Caller = Pushed(a, Callers) /\ top.at # "starting"
                 /\ \A g \in Frames : g.at \notin CallsOff \cup {"start", "starting"}
                 /\ \A x : Free(x) /\ x # Nothing => \A g \in Frames : Spared(g, x)
    <2>1. "enable" \notin SwitchesOff
      BY DEF SwitchesOff
    <2> QED
      BY <1>1, <1>2, <2>1, GameCalls
  <1>5. \A g \in Frames : Spared(g, c)
    BY <1>2, <1>3, LifecycleAssumption
  <1>6. /\ Tree /\ Flags /\ Stacked /\ CompsOn /\ CompsOff /\ Lists /\ Queue /\ Lives /\ NodesOn /\ NodesOff
        /\ Frames = {top} \cup T /\ \A g \in Frames : g \in FrameTypes /\ FrameOK(g)
    BY <1>1, Parts
  <1>7. a.at = top.at /\ a.node = top.node /\ a.comp = top.comp /\ a.i = top.i /\ a.n = top.n /\ a \in FrameTypes
    BY <1>3 DEF Counted
  <1>9. \A g \in Frames : g.at \in CompCalls => g.comp # c
    BY <1>5 DEF Spared
  <1>10. PICK N : /\ nodeOf[c] \in inHierarchy => Activating(N, a, T, c, TRUE)
                  /\ nodeOf[c] \notin inHierarchy => N = {}
                  /\ Stacked' /\ Frames' = {a} \cup T \cup N
                  /\ Flags' /\ Lists' /\ Queue' /\ Lives' /\ \A d \in Comps : IsOn(d)' <=> IsOn(d)
                  /\ \A m : GoesOff(m)' <=> GoesOff(m)
    <2>1. CASE nodeOf[c] \in inHierarchy
      <3>1. BeginActivateComp(c, TRUE, Pushed(a, Callers))
        BY <1>2, <1>3, <2>1
      <3>2. LinksKept(stack) /\ UNCHANGED <<created, alive, flagVars, startQueue, lists>>
        BY <1>2 DEF LinksKept, treeVars
      <3>3. \E N : Activating(N, a, T, c, TRUE)
        <4> HIDE DEF Top, Callers
        <4> QED
          BY <1>1, <1>2, <1>3, <1>9, <3>1, <3>2, ActivatingBegins
      <3> QED
        BY <2>1, <3>3, Zenon DEF Activating
    <2>2. CASE nodeOf[c] \notin inHierarchy
      <3>1. stack' = Pushed(a, Callers) /\ UNCHANGED <<startQueue, lists, life>>
        BY <1>2, <1>3, <2>2
      <3>2. /\ Stacked' /\ Frames' = {a} \cup T /\ SameHooks
            /\ \A m : GoesOff(m)' <=> GoesOff(m)
        BY <1>1, <1>2, <1>3, <3>1, GoesOnQuietly DEF treeVars
      <3> HIDE DEF Top, Callers
      <3>3. Grows
        BY <1>2, <1>6 DEF Grows, Tree
      <3>4. Flags' /\ Lists' /\ Queue' /\ Lives' /\ \A d \in Comps : IsOn(d)' <=> IsOn(d)
        BY <1>2, <1>6, <3>1, <3>2, <3>3, HooksUntouched
      <3>5. Frames' = {a} \cup T \cup {}
        BY <3>2
      <3> QED
        BY <2>2, <3>2, <3>4, <3>5, Zenon
    <2> QED
      BY <2>1, <2>2
  <1> HIDE DEF Top, Callers
  <1>11. \A f \in N : /\ f \in FrameTypes /\ f.at \in {"onLoad", "onEnable"} /\ f.node = Nothing /\ f.comp = c
                      /\ f.i = 1 /\ f.n = 0 /\ nodeOf[c] \in inHierarchy
                      /\ f.at = "onLoad" => c \notin onLoaded
                      /\ f.at = "onEnable" => c \in onLoaded \ onEnabled
    BY <1>10 DEF Activating
  <1>12. nodeOf[c] \in inHierarchy /\ N = {} => c \in onEnabled
    BY <1>10 DEF Activating
  <1> USE DEF treeVars, flagVars
  <1>13. ASSUME NEW g \in Frames
         PROVE  FrameOK(g)'
    <2>1. FrameOK(g) /\ g \in FrameTypes
      BY <1>6
    <2>2. FrameTyped(g) /\ NodeCallOK(g) /\ CompCallOK(g) /\ PhaseOK(g)
      BY <2>1 DEF FrameOK
    <2>3. comps' \in [Nodes -> Seq(Comps)] /\ \A m \in Nodes : Len(comps[m]) \in Nat
      BY <1>2, <1>6 DEF Tree
    <2>4. g.at \in NodeCalls => g.node \in Nodes
      BY <2>2 DEF FrameTyped
    <2>5. g.at \in CompCalls => g.comp \in Comps
      BY <1>6, <2>2 DEF FrameTyped, Tree
    <2>6. Undisturbed(g)
      BY <1>2, <1>3, <1>10, <2>2, <2>3, <2>4, <2>5
         DEF Undisturbed, FrameTyped, NodeCallOK, CompCallOK, PhaseOK, NodeCalls, Activations,
             Deactivations, CompCalls, CallsOff
    <2> QED
      BY <1>2, <1>6, <2>1, <2>3, <2>6, FrameStays
  <1>14. FramesOK'
    <2> SUFFICES ASSUME NEW g \in Frames'
                 PROVE  FrameOK(g)'
      BY DEF FramesOK, FrameOK
    <2>1. CASE g \in N
      BY <1>2, <1>11, <2>1
         DEF FrameOK, FrameTyped, NodeCallOK, CompCallOK, PhaseOK, NodeCalls, Activations, Deactivations,
             CompCalls, Runs
    <2>2. CASE g = a
      <3>1. FrameOK(top)'
        BY <1>6, <1>13
      <3> QED
        BY <1>3, <2>2, <3>1, CountedFrame
    <2> QED
      BY <1>6, <1>10, <1>13, <2>1, <2>2
  <1>15. Tree'
    BY <1>2, <1>6 DEF Tree
  <1>16. NodesOn' /\ NodesOff'
    <2>1. \A g \in Frames : g.at \in NodeCalls =>
            \E h \in Frames' : h.node = g.node /\ h.at = g.at /\ (g.at = "activatingChildren" => h.i = g.i /\ h.n = g.n)
      BY <1>6, <1>7, <1>10
    <2> QED
      BY <1>2, <1>6, <1>10, <2>1, NodesUntouched
  <1>17. CompsOn'
    BY <1>2, <1>6, <1>10 DEF CompsOn, EnabledInHierarchy
  <1>18. CompsOff'
    <2> SUFFICES ASSUME NEW d \in alive, EnabledInHierarchy(d)', ~IsOn(d)'
                 PROVE  \E g \in Frames' : Excuses(g, d)'
      BY <1>2 DEF CompsOff
    <2>0. d \in Comps /\ ~IsOn(d)
      BY <1>6, <1>10 DEF Tree
    <2>1. CASE d = c
      <3>1. ~In("onDisable", c)
        BY <1>9 DEF In, CompCalls
      <3>2. PICK f \in N : TRUE
        BY <1>2, <1>12, <2>0, <2>1, <3>1 DEF IsOn, EnabledInHierarchy
      <3> QED
        BY <1>10, <1>11, <2>1, <3>2 DEF Excuses
    <2>2. CASE d # c
      <3>1. EnabledInHierarchy(d)
        BY <1>2, <2>0, <2>2 DEF EnabledInHierarchy
      <3>2. PICK g \in Frames : Excuses(g, d)
        BY <1>6, <2>0, <3>1 DEF CompsOff
      <3>3. PICK h \in Frames' : Excuses(h, d)
        BY <1>3, <1>6, <1>10, <3>2, CountedFrame
      <3> QED
        BY <1>2, <3>3 DEF Excuses
    <2> QED
      BY <2>1, <2>2
  <1> QED
    BY <1>10, <1>14, <1>15, <1>16, <1>17, <1>18 DEF IInv

LEMMA AddComponentKeeps ==
    ASSUME CallsSafely, IInv, NEW node \in Nodes, NEW c \in Comps, AddComponent(node, c)
    PROVE  IInv'
  <1>1. PICK top, T : top = Top /\ T = Range(Callers)
    OBVIOUS
  <1>2. /\ Calls("add") /\ node \notin doomed /\ c \notin created
        /\ created' = created \cup {c} /\ alive' = alive \cup {c}
        /\ nodeOf' = [nodeOf EXCEPT ![c] = node]
        /\ comps' = [comps EXCEPT ![node] = Append(@, c)]
        /\ IF node \in inHierarchy THEN BeginActivateComp(c, c \in enabled, Caller) ELSE stack' = Caller /\ UNCHANGED life
        /\ UNCHANGED <<parent, children, active, doomed, inHierarchy, enabled, flagVars, startQueue, lists>>
    BY DEF AddComponent
  <1>3. PICK a : /\ Resumed(a) /\ Counted(a, top) /\ Caller = Pushed(a, Callers) /\ top.at # "starting"
                 /\ \A g \in Frames : g.at \notin CallsOff \cup {"start", "starting"}
    <2>1. "add" \notin SwitchesOff
      BY DEF SwitchesOff
    <2> QED
      BY <1>1, <1>2, <2>1, GameCalls
  <1>6. /\ Tree /\ Flags /\ Stacked /\ CompsOn /\ CompsOff /\ Lists /\ Queue /\ Lives /\ NodesOn /\ NodesOff
        /\ Frames = {top} \cup T /\ \A g \in Frames : g \in FrameTypes /\ FrameOK(g)
    BY <1>1, Parts
  <1>7. a.at = top.at /\ a.node = top.node /\ a.comp = top.comp /\ a.i = top.i /\ a.n = top.n /\ a \in FrameTypes
    BY <1>3 DEF Counted
  <1>8. c \notin alive /\ c \notin onLoaded /\ c \notin onEnabled /\ c \notin startCalled /\ \A m \in Nodes : c \notin Range(comps[m])
    BY <1>2, <1>6 DEF Tree, Flags
  <1>9. \A g \in Frames : g.comp # c
    <2>1. \A g \in Frames : g.at \in CompCalls \cup Runs => g.comp \in alive
      BY <1>6 DEF FrameOK, FrameTyped
    <2>2. \A g \in Frames : g.at \notin CompCalls \cup Runs => g.comp = Nothing
      BY <1>6 DEF FrameOK, FrameTyped
    <2> QED
      BY <1>8, <2>1, <2>2, LifecycleAssumption
  <1>10. \A m \in Nodes : /\ comps[m] \in Seq(Comps) /\ comps'[m] \in Seq(Comps) /\ Len(comps[m]) \in Nat /\ Len(comps[m]) <= Len(comps'[m])
                          /\ \A k \in 1 .. Len(comps[m]) : comps'[m][k] = comps[m][k]
                          /\ IsInjective(comps'[m])
                          /\ Range(comps'[m]) = Range(comps[m]) \cup (IF m = node THEN {c} ELSE {})
    <2> TAKE m \in Nodes
    <2>1. comps[m] \in Seq(Comps) /\ Len(comps[m]) \in Nat /\ IsInjective(comps[m])
      BY <1>6 DEF Tree
    <2>2. CASE m = node
      <3>1. comps'[m] = Append(comps[m], c)
        BY <1>2, <1>6, <2>2 DEF Tree
      <3> QED
        BY <1>8, <2>1, <2>2, <3>1, AppendFacts
    <2>3. CASE m # node
      <3>1. comps'[m] = comps[m]
        BY <1>2, <1>6, <2>3 DEF Tree
      <3> QED
        BY <2>1, <2>3, <3>1
    <2> QED
      BY <2>2, <2>3
  <1>11. nodeOf'[c] = node /\ \A d \in Comps : d # c => nodeOf'[d] = nodeOf[d]
    BY <1>2, <1>6 DEF Tree
  <1>12. Tree'
    <2>1. comps' \in [Nodes -> Seq(Comps)]
      <3>1. comps' = [m \in Nodes |-> comps'[m]]
        BY <1>2, <1>6 DEF Tree
      <3> QED
        BY <1>10, <3>1
    <2>2. nodeOf' \in [Comps -> Nodes \cup {Nothing}] /\ alive' \subseteq created' /\ created' \subseteq Comps
      BY <1>2, <1>6 DEF Tree
    <2>3. \A d \in alive' : nodeOf'[d] \in Nodes /\ d \in Range(comps'[nodeOf'[d]])
      <3> TAKE d \in alive'
      <3>1. CASE d = c
        BY <1>10, <1>11, <3>1
      <3>2. CASE d # c
        BY <1>2, <1>6, <1>10, <1>11, <3>2 DEF Tree
      <3> QED
        BY <3>1, <3>2
    <2>4. \A m \in Nodes : \A d \in Range(comps'[m]) : d \in alive' /\ nodeOf'[d] = m
      <3> TAKE m \in Nodes
      <3> TAKE d \in Range(comps'[m])
      <3>1. CASE d \in Range(comps[m])
        <4>1. d \in alive /\ nodeOf[d] = m /\ d \in Comps
          BY <1>6, <3>1 DEF Tree
        <4> QED
          BY <1>2, <1>8, <1>11, <4>1
      <3>2. CASE d \notin Range(comps[m])
        <4>1. m = node /\ d = c
          BY <1>10, <3>2
        <4> QED
          BY <1>2, <1>11, <4>1
      <3> QED
        BY <3>1, <3>2
    <2> QED
      BY <1>2, <1>6, <1>10, <2>1, <2>2, <2>3, <2>4 DEF Tree
  <1>13. LinksKept(stack)
    <2>1. ASSUME NEW g \in Frames, g.at \in CompCalls
          PROVE  nodeOf'[g.comp] = nodeOf[g.comp]
      BY <1>6, <1>9, <1>11, <2>1 DEF FrameOK, FrameTyped, Tree
    <2> QED
      BY <1>2, <2>1 DEF LinksKept, Frames
  <1>14. Grows
    BY <1>2, <1>6 DEF Grows, Tree
  <1>15. PICK N : /\ \A f \in N : /\ f \in FrameTypes /\ f.at = "onLoad" /\ f.node = Nothing /\ f.comp = c
                                  /\ f.i = 1 /\ f.n = 0 /\ node \in inHierarchy
                  /\ node \in inHierarchy => N # {}
                  /\ Stacked' /\ Frames' = {a} \cup T \cup N
                  /\ Flags' /\ Lists' /\ Queue' /\ Lives' /\ \A d \in Comps : IsOn(d)' <=> IsOn(d)
                  /\ \A m : GoesOff(m)' <=> GoesOff(m)
    <2>1. CASE node \in inHierarchy
      <3>1. PICK f : f = HookFrame(c, "onLoad")
        OBVIOUS
      <3>2. stack' = Pushed(f, Pushed(a, Callers)) /\ CallsHook(c, "onLoad")
        BY <1>2, <1>3, <1>8, <2>1, <3>1 DEF BeginActivateComp, Enter
      <3>3. /\ f \in FrameTypes /\ f.at = "onLoad" /\ f.node = Nothing /\ f.comp = c /\ f.i = 1 /\ f.n = 0
            /\ Stacked' /\ Frames' = {f, a} \cup T
            /\ CallBegins("onLoad", c) /\ \A at \in CompCalls : ~In(at, c)
            /\ \A m : GoesOff(m)' <=> GoesOff(m)
            /\ InPass' <=> InPass
            /\ \A d \in Comps : (\E g \in Frames : g.at = "starting" /\ d \in Rest(g, g.batch))
                           => (\E g \in Frames' : g.at = "starting" /\ d \in Rest(g, g.batch))
        <4>1. \A g \in Frames : ~(g.at \in CompCalls /\ g.comp = c)
          BY <1>9
        <4>2. LinksKept(stack) /\ top.at # "starting"
          BY <1>3, <1>13
        <4> HIDE DEF Top, Callers
        <4> QED
          BY <1>1, <1>3, <3>1, <3>2, <4>1, <4>2, HookBegins
      <3> HIDE DEF Top, Callers
      <3>4. \A d \in Comps : Waits(d) => Waits(d)'
        BY <1>2, <3>3 DEF Waits
      <3>5. Idle(c) /\ c \in alive'
        BY <1>2, <3>3 DEF Idle
      <3>6. Flags' /\ Lists' /\ Queue' /\ Lives' /\ \A d \in Comps : IsOn(d)' <=> IsOn(d)
        BY <1>2, <1>6, <1>8, <1>14, <3>2, <3>3, <3>4, <3>5, LoadBegins
      <3>7. Frames' = {a} \cup T \cup {f}
        BY <3>3
      <3>8. PICK N : N = {f}
        OBVIOUS
      <3> QED
        BY <2>1, <3>3, <3>6, <3>7, <3>8
    <2>2. CASE node \notin inHierarchy
      <3>1. stack' = Pushed(a, Callers) /\ UNCHANGED <<startQueue, lists, life>>
        BY <1>2, <1>3, <2>2
      <3>2. /\ Stacked' /\ Frames' = {a} \cup Range(Callers)
            /\ \A at, d : In(at, d)' <=> In(at, d)
            /\ \A m : GoesOff(m)' <=> GoesOff(m)
            /\ InPass' <=> InPass
        BY <1>3, <1>6, <1>13, <3>1, GoesOn
      <3>3. SameHooks
        <4>1. \A d \in Comps : Waits(d) => Waits(d)'
          BY <1>1, <1>3, <1>6, <3>1, <3>2 DEF Waits
        <4> QED
          BY <3>2, <4>1 DEF SameHooks
      <3>4. Flags' /\ Lists' /\ Queue' /\ Lives' /\ \A d \in Comps : IsOn(d)' <=> IsOn(d)
        BY <1>2, <1>6, <1>14, <3>1, <3>3, HooksUntouched
      <3>5. PICK N : N = {}
        OBVIOUS
      <3> QED
        BY <1>1, <2>2, <3>2, <3>4, <3>5
    <2> QED
      BY <2>1, <2>2
  <1> HIDE DEF Top, Callers
  <1> USE DEF flagVars
  <1>16. ASSUME NEW g \in Frames
         PROVE  FrameOK(g)'
    <2>1. FrameOK(g) /\ g \in FrameTypes
      BY <1>6
    <2>2. FrameTyped(g) /\ NodeCallOK(g) /\ CompCallOK(g) /\ PhaseOK(g)
      BY <2>1 DEF FrameOK
    <2>3. comps' \in [Nodes -> Seq(Comps)]
      BY <1>12 DEF Tree
    <2>4. g.at \in NodeCalls => g.node \in Nodes
      BY <2>2 DEF FrameTyped
    <2>5. g.at \in CompCalls => g.comp \in Comps /\ nodeOf'[g.comp] = nodeOf[g.comp]
      BY <1>6, <1>9, <1>11, <2>2 DEF FrameTyped, Tree
    <2>6. g.at = "activating" => Len(comps[g.node]) <= Len(comps'[g.node])
      BY <1>10, <2>4 DEF NodeCalls, Activations
    <2>7. Undisturbed(g)
      BY <1>2, <1>3, <1>15, <2>2, <2>4, <2>5, <2>6
         DEF Undisturbed, FrameTyped, NodeCallOK, CompCallOK, PhaseOK, NodeCalls, Activations,
             Deactivations, CompCalls, CallsOff
    <2> QED
      BY <1>2, <1>6, <2>1, <2>3, <2>7, FrameStays
  <1>17. FramesOK'
    <2> SUFFICES ASSUME NEW g \in Frames'
                 PROVE  FrameOK(g)'
      BY DEF FramesOK, FrameOK
    <2>1. CASE g \in N
      BY <1>2, <1>8, <1>11, <1>15, <2>1
         DEF FrameOK, FrameTyped, NodeCallOK, CompCallOK, PhaseOK, NodeCalls, Activations, Deactivations,
             CompCalls, Runs
    <2>2. CASE g = a
      <3>1. FrameOK(top)'
        BY <1>6, <1>16
      <3> QED
        BY <1>3, <2>2, <3>1, CountedFrame
    <2> QED
      BY <1>6, <1>15, <1>16, <2>1, <2>2
  <1>18. NodesOn' /\ NodesOff'
    <2>1. \A g \in Frames : g.at \in NodeCalls =>
            \E h \in Frames' : h.node = g.node /\ h.at = g.at /\ (g.at = "activatingChildren" => h.i = g.i /\ h.n = g.n)
      BY <1>6, <1>7, <1>15
    <2> QED
      BY <1>2, <1>6, <1>15, <2>1, NodesUntouched
  <1>19. CompsOn'
    <2> SUFFICES ASSUME NEW d \in Comps, IsOn(d)
                 PROVE  EnabledInHierarchy(d)'
      BY <1>15 DEF CompsOn
    <2>1. d # c
      BY <1>8 DEF IsOn
    <2> QED
      BY <1>2, <1>6, <1>11, <2>1 DEF CompsOn, EnabledInHierarchy
  <1>20. CompsOff'
    <2> SUFFICES ASSUME NEW d \in alive', EnabledInHierarchy(d)', ~IsOn(d)'
                 PROVE  \E g \in Frames' : Excuses(g, d)'
      BY DEF CompsOff
    <2>1. CASE d = c
      <3>1. node \in inHierarchy
        BY <1>2, <1>11, <2>1 DEF EnabledInHierarchy
      <3> QED
        BY <1>15, <2>1, <3>1 DEF Excuses
    <2>2. CASE d # c
      <3>1. d \in alive /\ d \in Comps /\ nodeOf'[d] = nodeOf[d]
        BY <1>2, <1>6, <1>11, <2>2 DEF Tree
      <3>2. EnabledInHierarchy(d) /\ ~IsOn(d)
        BY <1>2, <1>15, <3>1 DEF EnabledInHierarchy
      <3>3. PICK g \in Frames : Excuses(g, d)
        BY <1>6, <3>1, <3>2 DEF CompsOff
      <3>4. PICK h \in Frames' : Excuses(h, d) /\ (h.at = "activating" => h.n <= Len(comps[h.node]) /\ h.node \in Nodes /\ h.i >= 1 /\ h \in FrameTypes)
        <4>1. \A f \in Frames : f.at = "activating" => f.n <= Len(comps[f.node]) /\ f.node \in Nodes /\ f.i >= 1 /\ f \in FrameTypes
          BY <1>6 DEF FrameOK, FrameTyped, NodeCallOK, NodeCalls, Activations
        <4> QED
          BY <1>3, <1>6, <1>7, <1>15, <3>3, <4>1, CountedFrame
      <3>5. h.at = "activating" /\ d \in Rest(h, comps[h.node]) => d \in Rest(h, comps'[h.node])
        <4>1. SUFFICES ASSUME h.at = "activating", d \in Rest(h, comps[h.node])
                       PROVE  d \in Rest(h, comps'[h.node])
          OBVIOUS
        <4>2. h.n <= Len(comps[h.node]) /\ h.node \in Nodes /\ h.i >= 1 /\ h.i \in Nat /\ h.n \in Nat /\ Len(comps[h.node]) \in Nat
          BY <1>10, <3>4, <4>1 DEF FrameTypes
        <4>3. PICK k \in h.i .. h.n : d = comps[h.node][k]
          BY <4>1 DEF Rest
        <4>4. comps'[h.node][k] = comps[h.node][k]
          BY <1>10, <4>2, <4>3
        <4> QED
          BY <4>3, <4>4 DEF Rest
      <3> QED
        BY <3>1, <3>4, <3>5 DEF Excuses
    <2> QED
      BY <2>1, <2>2
  <1> QED
    BY <1>12, <1>15, <1>17, <1>18, <1>19, <1>20 DEF IInv
-----------------------------------------------------------------------------
(* The returns of onLoad, onEnable and onDisable.                             *)

\* What is in the lists once a component is enabled.
LEMMA Scheduling ==
    ASSUME Flags, Lists, NEW x \in Comps, Schedule(x), \A d \in Comps : IsOn(d)' <=> IsOn(d) \/ d = x,
           InPass' <=> InPass, alive' = alive
    PROVE  /\ Lists' /\ lists' \in [Passes -> [now : Seq(Comps), add : Seq(Comps), remove : Seq(Comps)]]
           /\ InPass => \A pass \in Passes : lists'[pass].now = lists[pass].now
  <1>1. ASSUME NEW pass \in Passes
        PROVE  /\ lists'[pass] \in [now : Seq(Comps), add : Seq(Comps), remove : Seq(Comps)]
               /\ IsInjective(lists'[pass].now) /\ IsInjective(lists'[pass].add)
               /\ Range(lists'[pass].remove) \subseteq alive
               /\ Range(lists'[pass].add) \cap Range(lists'[pass].remove) = {}
               /\ ~InPass => lists'[pass].add = <<>> /\ lists'[pass].remove = <<>>
               /\ \A d \in Comps : d \in Scheduled(lists'[pass]) <=> d \in Wants[pass] /\ IsOn(d)'
               /\ InPass => lists'[pass].now = lists[pass].now
    <2> DEFINE l == lists[pass]
    <2>1. /\ l \in [now : Seq(Comps), add : Seq(Comps), remove : Seq(Comps)]
          /\ IsInjective(l.now) /\ IsInjective(l.add)
          /\ Range(l.remove) \subseteq alive
          /\ Range(l.add) \cap Range(l.remove) = {}
          /\ ~InPass => l.add = <<>> /\ l.remove = <<>>
          /\ \A d \in Comps : d \in Scheduled(l) <=> d \in Wants[pass] /\ IsOn(d)
      BY DEF Flags, Lists
    <2>2. lists'[pass] = IF x \in Wants[pass] THEN Rescheduled(l, x) ELSE l
      BY DEF Schedule
    <2> HIDE DEF l
    <2>3. CASE x \notin Wants[pass]
      BY <2>1, <2>2, <2>3 DEF l
    <2>4. l.now \in Seq(Comps) /\ l.add \in Seq(Comps) /\ l.remove \in Seq(Comps)
      BY <2>1
    <2>5. CASE x \in Wants[pass] /\ InPass
      <3>1. /\ AddUnique(l.add, x) \in Seq(Comps) /\ Range(AddUnique(l.add, x)) = Range(l.add) \cup {x}
            /\ IsInjective(AddUnique(l.add, x))
        BY <2>1, <2>4, AddUniqueFacts
      <3>2. Without(l.remove, {x}) \in Seq(Comps) /\ Range(Without(l.remove, {x})) = Range(l.remove) \ {x}
        BY <2>1, <2>4, WithoutFacts
      <3>3. lists'[pass] = [now |-> l.now, add |-> AddUnique(l.add, x), remove |-> Without(l.remove, {x})]
        <4>1. lists'[pass] = [l EXCEPT !.add = AddUnique(@, x), !.remove = Without(@, {x})]
          BY <2>2, <2>5 DEF Rescheduled
        <4> QED
          BY <2>1, <4>1
      <3>4. /\ lists'[pass].now = l.now /\ lists'[pass].add = AddUnique(l.add, x)
            /\ lists'[pass].remove = Without(l.remove, {x})
        BY <3>3
      <3>5. \A d : d \in Scheduled(lists'[pass]) <=> d \in Scheduled(l) \/ d = x
        BY <2>1, <3>1, <3>2, <3>4 DEF Scheduled
      <3>6. lists'[pass] \in [now : Seq(Comps), add : Seq(Comps), remove : Seq(Comps)]
        BY <2>4, <3>1, <3>2, <3>3
      <3> QED
        BY <2>1, <2>5, <3>1, <3>2, <3>4, <3>5, <3>6 DEF l
    <2>6. CASE x \in Wants[pass] /\ ~InPass
      <3>1. /\ AddUnique(l.now, x) \in Seq(Comps) /\ Range(AddUnique(l.now, x)) = Range(l.now) \cup {x}
            /\ IsInjective(AddUnique(l.now, x))
        BY <2>1, <2>4, AddUniqueFacts
      <3>2. lists'[pass] = [now |-> AddUnique(l.now, x), add |-> l.add, remove |-> l.remove]
        <4>1. lists'[pass] = [l EXCEPT !.now = AddUnique(@, x)]
          BY <2>2, <2>6 DEF Rescheduled
        <4> QED
          BY <2>1, <4>1
      <3>3. lists'[pass].now = AddUnique(l.now, x) /\ lists'[pass].add = l.add /\ lists'[pass].remove = l.remove
        BY <3>2
      <3>4. Range(l.add) = {} /\ Range(l.remove) = {}
        BY <2>1, <2>6, EmptyRange
      <3>5. \A d : d \in Scheduled(lists'[pass]) <=> d \in Scheduled(l) \/ d = x
        BY <3>1, <3>3, <3>4 DEF Scheduled
      <3>6. lists'[pass] \in [now : Seq(Comps), add : Seq(Comps), remove : Seq(Comps)]
        BY <2>4, <3>1, <3>2
      <3> QED
        BY <2>1, <2>6, <3>1, <3>3, <3>5, <3>6
    <2> QED
      BY <2>3, <2>5, <2>6
  <1>2. Lists'
    BY <1>1 DEF Lists
  <1>3. lists' = [pass \in Passes |-> lists'[pass]]
    BY DEF Schedule
  <1> QED
    BY <1>1, <1>2, <1>3

LEMMA OnEnableReturnsKeeps ==
    ASSUME IInv, OnEnableReturns
    PROVE  IInv'
  <1>1. PICK top, T : top = Top /\ T = Range(Callers)
    OBVIOUS
  <1>2. PICK x : x = Top.comp
    OBVIOUS
  <1>3. /\ top.at = "onEnable" /\ top.comp = x /\ onEnabled' = onEnabled \cup {x} /\ Schedule(x) /\ startQueue' = Queued(x)
        /\ stack' = Callers
        /\ UNCHANGED <<treeVars, inHierarchy, compVars, onLoaded, startCalled, life>>
    BY <1>1, <1>2 DEF OnEnableReturns, On
  <1>4. /\ Tree /\ Flags /\ Stacked /\ Lists /\ Queue /\ Lives /\ NodesOn /\ NodesOff /\ CompsOn /\ CompsOff
        /\ Frames = {top} \cup T /\ \A g \in Frames : g \in FrameTypes /\ FrameOK(g)
        /\ \A g \in T : MayBeAbove(top, g, parent, nodeOf)
    BY <1>1, Parts
  <1> USE DEF treeVars, compVars
  <1>5. x \in alive /\ x \in Comps /\ nodeOf[x] \in inHierarchy /\ x \in onLoaded /\ x \in enabled /\ x \notin onEnabled
    BY <1>3, <1>4 DEF FrameOK, FrameTyped, CompCallOK, CompCalls, Tree
  <1>6. /\ Stacked' /\ Frames' = T
        /\ \A at, d : In(at, d) <=> In(at, d)' \/ (at = "onEnable" /\ d = x)
        /\ \A m : GoesOff(m)' <=> GoesOff(m)
        /\ InPass' <=> InPass
    <2>1. LinksKept(Callers)
      BY <1>3 DEF LinksKept
    <2> QED
      BY <1>1, <1>3, <1>4, <2>1, Pops DEF Phases, Deactivations
  <1> HIDE DEF Top, Callers
  <1>7. \A g \in Frames : g.at \notin CallsOff \cup {"start", "starting"}
    BY <1>3, <1>4 DEF MayBeAbove, CallsOff, Deactivations
  <1>8. \A g \in T : g.at \in CompCalls => g.comp # x
    BY <1>3, <1>4 DEF MayBeAbove, CompCalls
  <1>9. /\ \A d : ~In("onDisable", d) /\ ~In("onDisable", d)'
        /\ ~In("onEnable", x)' /\ ~In("onDestroy", x)
    <2>1. \A d : ~In("onDisable", d)
      BY <1>7 DEF In, CallsOff
    <2>2. ~In("onEnable", x)' /\ ~In("onDestroy", x)
      BY <1>3, <1>4, <1>6, <1>8 DEF In, CompCalls
    <2> QED
      BY <1>6, <2>1, <2>2
  <1>10. \A d \in Comps : IsOn(d)' <=> IsOn(d) \/ d = x
    BY <1>3, <1>9 DEF IsOn
  <1>11. /\ Lists' /\ lists' \in [Passes -> [now : Seq(Comps), add : Seq(Comps), remove : Seq(Comps)]]
         /\ InPass => \A pass \in Passes : lists'[pass].now = lists[pass].now
    BY <1>3, <1>4, <1>5, <1>6, <1>10, Scheduling
  <1>12. /\ startQueue' \in Seq(Comps)
         /\ Range(startQueue') = Range(startQueue) \cup (IF x \in startCalled THEN {} ELSE {x})
    <2>1. startQueue \in Seq(Comps)
      BY <1>4 DEF Flags
    <2> QED
      BY <1>3, <1>5, <2>1, AddUniqueFacts DEF Queued
  <1>13. Flags'
    BY <1>3, <1>4, <1>5, <1>11, <1>12 DEF Flags
  <1>14. Queue'
    <2>1. ASSUME NEW d \in Comps, IsOn(d)', d \notin startCalled
          PROVE  Waits(d)'
      <3>1. CASE d = x
        BY <1>12, <2>1, <3>1 DEF Waits
      <3>2. CASE d # x
        <4>1. Waits(d)
          BY <1>4, <1>10, <2>1, <3>2 DEF Queue
        <4> QED
          BY <1>7, <1>12, <4>1 DEF Waits
      <3> QED
        BY <3>1, <3>2
    <2>2. ASSUME NEW d \in Range(startQueue')
          PROVE  IsOn(d)' /\ d \notin startCalled
      <3>1. d \in Comps
        BY <1>12, <2>2 DEF Range
      <3> QED
        BY <1>4, <1>10, <1>12, <2>2, <3>1 DEF Queue
    <2> QED
      BY <1>3, <2>1, <2>2 DEF Queue
  <1>15. Lives'
    BY <1>3, <1>4, <1>5, <1>6, <1>9, <1>10 DEF Lives
  <1>16. Tree'
    BY <1>3, <1>4 DEF Tree
  <1>17. FramesOK'
    <2> SUFFICES ASSUME NEW g \in T
                 PROVE  FrameOK(g)'
      BY <1>6 DEF FramesOK, FrameOK
    <2>1. FrameOK(g) /\ g \in FrameTypes /\ g \in Frames
      BY <1>4
    <2>2. FrameTyped(g) /\ NodeCallOK(g) /\ CompCallOK(g) /\ PhaseOK(g)
      BY <2>1 DEF FrameOK
    <2>3. comps' \in [Nodes -> Seq(Comps)] /\ \A m \in Nodes : Len(comps[m]) \in Nat
      BY <1>3, <1>4 DEF Tree
    <2>4. g.at \in NodeCalls => g.node \in Nodes
      BY <2>2 DEF FrameTyped
    <2>5. g.at \in CompCalls => g.comp \in Comps /\ g.comp # x
      BY <1>4, <1>8, <2>2 DEF FrameTyped, Tree
    <2>6. g.at \in {"updating", "lateUpdating"} => \A pass \in Passes : lists'[pass].now = lists[pass].now
      BY <1>11, <2>1, InPassFrames DEF PassCalls
    <2>7. g.at # "onDisable" /\ g.at \notin Deactivations /\ g.at # "starting"
      BY <1>7, <2>1 DEF CallsOff
    <2>8. Undisturbed(g)
      BY <1>3, <1>5, <1>10, <2>2, <2>3, <2>4, <2>5, <2>6, <2>7
         DEF Undisturbed, FrameTyped, NodeCallOK, CompCallOK, PhaseOK, NodeCalls, Activations, CompCalls,
             Passes
    <2> QED
      BY <1>3, <1>4, <2>1, <2>3, <2>8, FrameStays
  <1>18. NodesOn' /\ NodesOff'
    <2>1. \A f \in Frames : f.at \in NodeCalls =>
            \E g \in Frames' : g.node = f.node /\ g.at = f.at /\ (f.at = "activatingChildren" => g.i = f.i /\ g.n = f.n)
      BY <1>3, <1>4, <1>6 DEF NodeCalls, Activations, Deactivations
    <2> QED
      BY <1>3, <1>4, <1>6, <2>1, NodesUntouched
  <1>19. CompsOn'
    <2>1. nodeOf[x] # Nothing
      BY <1>4, <1>5, LifecycleAssumption DEF Tree
    <2> QED
      BY <1>3, <1>4, <1>5, <1>10, <2>1 DEF CompsOn, EnabledInHierarchy
  <1>20. CompsOff'
    <2> SUFFICES ASSUME NEW d \in alive, EnabledInHierarchy(d), ~IsOn(d)'
                 PROVE  \E g \in Frames' : Excuses(g, d)'
      BY <1>3 DEF CompsOff, EnabledInHierarchy
    <2>1. d \in Comps /\ d # x /\ ~IsOn(d)
      BY <1>4, <1>5, <1>10 DEF Tree
    <2>2. PICK g \in Frames : Excuses(g, d)
      BY <1>4, <2>1 DEF CompsOff
    <2>3. g # top
      BY <1>3, <2>1, <2>2 DEF Excuses
    <2> QED
      BY <1>3, <1>4, <1>6, <2>2, <2>3 DEF Excuses
  <1> QED
    BY <1>6, <1>11, <1>13, <1>14, <1>15, <1>16, <1>17, <1>18, <1>19, <1>20 DEF IInv

LEMMA OnDisableReturnsKeeps ==
    ASSUME IInv, OnDisableReturns
    PROVE  IInv'
  <1> DEFINE T == Range(Callers)
             x == Top.comp
  <1>1. /\ On("onDisable") /\ onEnabled' = onEnabled \ {x} /\ stack' = Callers
        /\ UNCHANGED <<treeVars, inHierarchy, compVars, onLoaded, startCalled, startQueue, lists, life>>
    BY DEF OnDisableReturns
  <1> USE DEF treeVars, compVars
  <1>2. Tree /\ Flags /\ Stacked /\ FramesOK /\ NodesOn /\ NodesOff /\ CompsOn /\ CompsOff /\ Lists /\ Queue /\ Lives
    BY DEF IInv
  <1>3. /\ Callers \in Seq(FrameTypes) /\ Frames = {Top} \cup T /\ \A g \in Frames : g \in FrameTypes
        /\ \A g \in T : MayBeAbove(Top, g, parent, nodeOf)
    BY <1>2, Context
  <1>4. Top.at = "onDisable" /\ Top \in Frames /\ \A g \in T : g \in Frames
    BY <1>1, <1>3 DEF On
  <1>5. Callers # <<>> /\ Nested(Callers, parent', nodeOf')
    <2>1. LinksKept(Callers)
      BY <1>1 DEF LinksKept
    <2> QED
      BY <1>2, <1>4, <2>1, Returns DEF Phases
  <1>6. Stacked' /\ Frames' = T
    BY <1>1, <1>3, <1>5 DEF Stacked, Frames
  <1> HIDE DEF T, x
  <1>7. x \in Comps /\ x \in onEnabled /\ x \in alive
    <2>1. FrameTyped(Top) /\ CompCallOK(Top)
      BY <1>2, <1>4 DEF FramesOK
    <2> QED
      BY <1>2, <1>4, <2>1 DEF FrameTyped, CompCallOK, CompCalls, Tree, x
  <1>8. /\ \A c : \A at \in {"onEnable", "onLoad", "onDestroy", "start"} : In(at, c)' <=> In(at, c)
        /\ \A c : c # x => (In("onDisable", c)' <=> In("onDisable", c))
    BY <1>3, <1>4, <1>6 DEF In, x
  <1>9. \A c : IsOn(c)' <=> IsOn(c)
    BY <1>1, <1>3, <1>4, <1>8 DEF IsOn, In, x
  <1>10. \A node : GoesOff(node)' <=> GoesOff(node)
    BY <1>3, <1>4, <1>6 DEF GoesOff, Deactivations
  <1>11. Tree'
    BY <1>1, <1>2 DEF Tree
  <1>12. Flags'
    BY <1>1, <1>2 DEF Flags
  <1>13. FramesOK'
    <2> SUFFICES ASSUME NEW g \in T
                 PROVE  (FrameTyped(g) /\ NodeCallOK(g) /\ CompCallOK(g) /\ PhaseOK(g))'
      BY <1>6 DEF FramesOK
    <2>1. FrameTyped(g) /\ NodeCallOK(g) /\ CompCallOK(g) /\ PhaseOK(g)
      BY <1>2, <1>4 DEF FramesOK
    <2>2. FrameTyped(g)'
      BY <1>1, <2>1 DEF FrameTyped
    <2>3. NodeCallOK(g)'
      BY <1>1, <1>9, <1>10, <2>1 DEF NodeCallOK, IsOff
    <2>4. CompCallOK(g)'
      BY <1>1, <1>3, <1>4, <1>9, <2>1 DEF CompCallOK, MayBeAbove, CompCalls, x
    <2>5. PhaseOK(g)'
      BY <1>1, <2>1 DEF PhaseOK
    <2> QED
      BY <2>2, <2>3, <2>4, <2>5
  <1>14. NodesOn'
    BY <1>1, <1>2, <1>10 DEF NodesOn
  <1>15. NodesOff'
    <2>1. \A f \in Frames : f.at \in NodeCalls =>
            \E g \in Frames' : g.node = f.node /\ g.at = f.at /\ (f.at = "activatingChildren" => g.i = f.i /\ g.n = f.n)
      BY <1>3, <1>4, <1>6 DEF NodeCalls, Activations, Deactivations
    <2> QED
      BY <1>1, <1>2, <1>10, <2>1, NodesUntouched
  <1>16. CompsOn'
    BY <1>1, <1>2, <1>9 DEF CompsOn, EnabledInHierarchy
  <1>17. CompsOff'
    BY <1>1, <1>2, <1>3, <1>4, <1>6, <1>9 DEF CompsOff, Excuses, EnabledInHierarchy
  <1>18. Lists'
    <2>1. InPass' <=> InPass
      BY <1>3, <1>4, <1>6, ZenonT(60) DEF InPass, Frames, Passes, Range
    <2> QED
      BY <1>1, <1>2, <1>9, <2>1 DEF Lists
  <1>19. Queue'
    BY <1>1, <1>2, <1>3, <1>4, <1>6, <1>9 DEF Queue, Waits
  <1>20. Lives'
    BY <1>1, <1>2, <1>8, <1>9 DEF Lives
  <1> QED
    BY <1>6, <1>11, <1>12, <1>13, <1>14, <1>15, <1>16, <1>17, <1>18, <1>19, <1>20 DEF IInv
-----------------------------------------------------------------------------
(* The return of onLoad, which goes on to onEnable.                           *)

LEMMA OnLoadReturnsKeeps ==
    ASSUME IInv, OnLoadReturns
    PROVE  IInv'
  <1>1. PICK top, T : top = Top /\ T = Range(Callers)
    OBVIOUS
  <1>2. PICK x : x = Top.comp
    OBVIOUS
  <1>3. /\ top.at = "onLoad" /\ top.comp = x /\ onLoaded' = onLoaded \cup {x}
        /\ EnableOrReturn(x, x \in enabled, Callers)
        /\ UNCHANGED <<treeVars, inHierarchy, compVars, onEnabled, startCalled, startQueue, lists>>
    BY <1>1, <1>2 DEF OnLoadReturns, On
  <1>4. /\ Tree /\ Flags /\ Stacked /\ Lists /\ Queue /\ Lives /\ NodesOn /\ NodesOff /\ CompsOn /\ CompsOff
        /\ Frames = {top} \cup T /\ \A g \in Frames : g \in FrameTypes /\ FrameOK(g)
        /\ \A g \in T : MayBeAbove(top, g, parent, nodeOf)
    BY <1>1, Parts
  <1> USE DEF treeVars, compVars
  <1>5. x \in alive /\ x \in created /\ x \in Comps /\ nodeOf[x] \in inHierarchy /\ x \notin onLoaded /\ x \notin onEnabled
    BY <1>3, <1>4 DEF FrameOK, FrameTyped, CompCallOK, CompCalls, Tree, Flags
  <1>6. LinksKept(Callers) /\ Top.at \notin Phases
    BY <1>1, <1>3 DEF LinksKept, Phases
  <1>7. \A g \in Frames : g.at \notin CallsOff \cup {"start", "starting"}
    BY <1>3, <1>4 DEF MayBeAbove, CallsOff, Deactivations
  <1>8. \A g \in T : g.at \in CompCalls => g.comp # x
    BY <1>3, <1>4 DEF MayBeAbove, CompCalls
  <1>9. In("onLoad", x) /\ \A at \in {"onEnable", "onDestroy", "onDisable"} : ~In(at, x)
    BY <1>3, <1>4, <1>8 DEF In, CompCalls
  <1>10. PICK N : /\ \A f \in N : /\ f \in FrameTypes /\ f.at = "onEnable" /\ f.node = Nothing /\ f.comp = x
                                  /\ f.i = 1 /\ f.n = 0 /\ x \in enabled
                  /\ N = {} => x \notin enabled
                  /\ Stacked' /\ Frames' = T \cup N
                  /\ Flags' /\ Lists' /\ Queue' /\ Lives' /\ \A d \in Comps : IsOn(d)' <=> IsOn(d)
                  /\ \A m : GoesOff(m)' <=> GoesOff(m)
    <2>1. CASE x \in enabled
      <3>1. PICK f : f = HookFrame(x, "onEnable")
        OBVIOUS
      <3>2. stack' = Pushed(f, Callers) /\ CallsHook(x, "onEnable")
        BY <1>3, <1>5, <2>1, <3>1 DEF EnableOrReturn, Enter
      <3>3. f \in FrameTypes /\ f.at = "onEnable" /\ f.node = Nothing /\ f.comp = x /\ f.i = 1 /\ f.n = 0
        BY <1>5, <3>1, NewFrames DEF Hooks
      <3>4. ASSUME NEW g \in Range(Callers)
            PROVE  MayBeAbove(f, g, parent', nodeOf')
        <4>1. g.at \notin CallsOff \cup {"start", "starting"} /\ (g.at \in CompCalls => g.comp # x)
          BY <1>1, <1>4, <1>7, <1>8
        <4> QED
          BY <3>3, <4>1 DEF MayBeAbove, Phases, Passes, NodeCalls, Activations, Deactivations, CallsOff
      <3>5. Stacked' /\ Frames' = {f} \cup T
        BY <1>1, <1>4, <1>6, <3>2, <3>3, <3>4, GivesWay
      <3> HIDE DEF Top, Callers
      <3>6. \A at \in {"onEnable", "onDisable", "onDestroy", "start"} : \A d \in Comps :
              In(at, d)' <=> In(at, d) \/ (at = "onEnable" /\ d = x)
        BY <1>3, <1>4, <3>3, <3>5 DEF In
      <3>7. \A d \in Comps : In("onLoad", d)' <=> In("onLoad", d) /\ ~(d = x /\ onLoaded' # onLoaded)
        BY <1>3, <1>4, <1>5, <1>8, <3>3, <3>5 DEF In, CompCalls
      <3>8. \A m : GoesOff(m)' <=> GoesOff(m)
        BY <1>3, <1>4, <3>3, <3>5 DEF GoesOff, Deactivations
      <3>9. InPass' <=> InPass
        BY <1>3, <1>4, <3>3, <3>5, InPassFrames DEF PassCalls, Passes
      <3>10. \A d \in Comps : Waits(d) => Waits(d)'
        BY <1>3, <1>4, <3>5 DEF Waits
      <3>11. onLoaded' # onLoaded /\ x \in onLoaded'
        BY <1>3, <1>5
      <3>12. Flags' /\ Lists' /\ Queue' /\ Lives' /\ \A d \in Comps : IsOn(d)' <=> IsOn(d)
        BY <1>3, <1>4, <1>5, <1>9, <3>2, <3>6, <3>7, <3>9, <3>10, <3>11, EnableBegins
      <3>13. PICK N : N = {f}
        OBVIOUS
      <3> QED
        BY <2>1, <3>3, <3>5, <3>8, <3>12, <3>13
    <2>2. CASE x \notin enabled
      <3>1. stack' = Callers /\ life' = life
        BY <1>3, <2>2 DEF EnableOrReturn
      <3>2. /\ Stacked' /\ Frames' = T
            /\ \A at, d : In(at, d) <=> In(at, d)' \/ (at = "onLoad" /\ d = x)
            /\ \A m : GoesOff(m)' <=> GoesOff(m)
            /\ InPass' <=> InPass
        BY <1>1, <1>3, <1>4, <1>6, <3>1, Pops DEF Deactivations
      <3> HIDE DEF Top, Callers
      <3>3. \A d \in Comps : IsOn(d)' <=> IsOn(d)
        BY <1>3, <3>2 DEF IsOn
      <3>4. Flags'
        BY <1>3, <1>4, <1>5, <3>1 DEF Flags
      <3>5. Lists'
        BY <1>3, <1>4, <3>2, <3>3 DEF Lists
      <3>6. Queue'
        <4>1. \A d \in Comps : Waits(d) => Waits(d)'
          BY <1>3, <1>4, <3>2 DEF Waits
        <4>2. \A d \in Range(startQueue) : d \in Comps
          BY <1>4 DEF Flags, Range
        <4> QED
          BY <1>3, <1>4, <3>3, <4>1, <4>2 DEF Queue
      <3>7. Lives'
        <4>1. \A d \in Comps : d \notin onLoaded' /\ ~In("onLoad", d)' <=> d \notin onLoaded /\ ~In("onLoad", d)
          BY <1>3, <1>9, <3>2
        <4> QED
          BY <1>3, <1>4, <3>1, <3>2, <3>3, <4>1 DEF Lives
      <3>8. PICK N : N = {}
        OBVIOUS
      <3> QED
        BY <2>2, <3>2, <3>3, <3>4, <3>5, <3>6, <3>7, <3>8
    <2> QED
      BY <2>1, <2>2
  <1> HIDE DEF Top, Callers
  <1>16. Tree'
    BY <1>3, <1>4 DEF Tree
  <1>17. FramesOK'
    <2> SUFFICES ASSUME NEW g \in Frames'
                 PROVE  FrameOK(g)'
      BY DEF FramesOK, FrameOK
    <2>1. CASE g \in N
      BY <1>3, <1>5, <1>10, <2>1
         DEF FrameOK, FrameTyped, NodeCallOK, CompCallOK, PhaseOK, NodeCalls, Activations, Deactivations,
             CompCalls, Runs
    <2>2. CASE g \in T
      <3>1. FrameOK(g) /\ g \in FrameTypes /\ g \in Frames
        BY <1>4, <2>2
      <3>2. FrameTyped(g) /\ NodeCallOK(g) /\ CompCallOK(g) /\ PhaseOK(g)
        BY <3>1 DEF FrameOK
      <3>3. comps' \in [Nodes -> Seq(Comps)] /\ \A m \in Nodes : Len(comps[m]) \in Nat
        BY <1>3, <1>4 DEF Tree
      <3>4. g.at \in NodeCalls => g.node \in Nodes
        BY <3>2 DEF FrameTyped
      <3>5. g.at \in CompCalls => g.comp \in Comps /\ g.comp # x
        BY <1>4, <1>8, <2>2, <3>2 DEF FrameTyped, Tree
      <3>7. g.at # "onDisable" /\ g.at \notin Deactivations /\ g.at # "starting"
        BY <1>7, <3>1 DEF CallsOff
      <3>8. Undisturbed(g)
        BY <1>3, <1>5, <1>10, <3>2, <3>3, <3>4, <3>5, <3>7
           DEF Undisturbed, FrameTyped, NodeCallOK, CompCallOK, PhaseOK, NodeCalls, Activations, CompCalls
      <3> QED
        BY <1>3, <1>4, <3>1, <3>3, <3>8, FrameStays
    <2> QED
      BY <1>10, <2>1, <2>2
  <1>18. NodesOn' /\ NodesOff'
    <2>1. \A f \in Frames : f.at \in NodeCalls =>
            \E g \in Frames' : g.node = f.node /\ g.at = f.at /\ (f.at = "activatingChildren" => g.i = f.i /\ g.n = f.n)
      BY <1>3, <1>4, <1>10 DEF NodeCalls, Activations, Deactivations
    <2> QED
      BY <1>3, <1>4, <1>10, <2>1, NodesUntouched
  <1>19. CompsOn'
    BY <1>3, <1>4, <1>10 DEF CompsOn, EnabledInHierarchy
  <1>20. CompsOff'
    <2> SUFFICES ASSUME NEW d \in alive, EnabledInHierarchy(d), ~IsOn(d)'
                 PROVE  \E g \in Frames' : Excuses(g, d)'
      BY <1>3 DEF CompsOff, EnabledInHierarchy
    <2>1. d \in Comps /\ ~IsOn(d)
      BY <1>4, <1>10 DEF Tree
    <2>2. PICK g \in Frames : Excuses(g, d)
      BY <1>4, <2>1 DEF CompsOff
    <2>3. CASE g = top
      <3>1. d = x
        BY <1>3, <2>2, <2>3 DEF Excuses
      <3>2. PICK f \in N : TRUE
        BY <1>10, <3>1 DEF EnabledInHierarchy
      <3> QED
        BY <1>10, <3>1, <3>2 DEF Excuses
    <2>4. CASE g # top
      BY <1>3, <1>4, <1>10, <2>2, <2>4 DEF Excuses
    <2> QED
      BY <2>3, <2>4
  <1> QED
    BY <1>10, <1>16, <1>17, <1>18, <1>19, <1>20 DEF IInv
-----------------------------------------------------------------------------
(* onDestroy, and the end of removeComponent.                                 *)

LEMMA CallOnDestroyKeeps ==
    ASSUME IInv, CallOnDestroy
    PROVE  IInv'
  <1>1. PICK top, T : top = Top /\ T = Range(Callers)
    OBVIOUS
  <1>2. PICK x : x = Top.comp
    OBVIOUS
  <1>2a. PICK f : f = HookFrame(x, "onDestroy")
    OBVIOUS
  <1>3. /\ top.at = "removing" /\ top.comp = x /\ stack' = Pushed(f, Callers) /\ CallsHook(x, "onDestroy")
        /\ UNCHANGED <<treeVars, inHierarchy, compVars, flagVars, startQueue, lists>>
    BY <1>1, <1>2, <1>2a DEF CallOnDestroy, On, Enter
  <1>4. /\ Tree /\ Flags /\ Stacked /\ Lists /\ Queue /\ Lives /\ NodesOn /\ NodesOff /\ CompsOn /\ CompsOff
        /\ Frames = {top} \cup T /\ \A g \in Frames : g \in FrameTypes /\ FrameOK(g)
        /\ \A g \in T : MayBeAbove(top, g, parent, nodeOf)
    BY <1>1, Parts
  <1> USE DEF treeVars, compVars, flagVars
  <1>5. x \in alive /\ x \in created /\ x \in Comps /\ ~IsOn(x)
    BY <1>3, <1>4 DEF FrameOK, FrameTyped, CompCallOK, CompCalls, Tree
  <1>6. f \in FrameTypes /\ f.at = "onDestroy" /\ f.node = Nothing /\ f.comp = x /\ f.i = 1 /\ f.n = 0
    BY <1>2a, <1>5, NewFrames DEF Hooks
  <1>7. \A g \in T : g.at \in {"scene", "logic"}
    BY <1>3, <1>4 DEF MayBeAbove
  <1>8. Stacked' /\ Frames' = {f} \cup T
    <2>1. \A g \in Range(Callers) : MayBeAbove(f, g, parent', nodeOf')
      BY <1>1, <1>6, <1>7 DEF MayBeAbove, Phases, Passes, NodeCalls, Activations, Deactivations, CallsOff,
                              CompCalls
    <2>2. LinksKept(Callers) /\ Top.at \notin Phases
      BY <1>1, <1>3 DEF LinksKept, Phases
    <2> QED
      BY <1>1, <1>3, <1>4, <1>6, <2>1, <2>2, GivesWay
  <1> HIDE DEF Top, Callers
  <1>9. \A at \in Noted : \A d : ~In(at, d) /\ (In(at, d)' <=> at = "onDestroy" /\ d = x)
    BY <1>3, <1>4, <1>6, <1>7, <1>8 DEF In, Noted
  <1>10. \A m : ~GoesOff(m) /\ ~GoesOff(m)'
    BY <1>3, <1>4, <1>6, <1>7, <1>8 DEF GoesOff, Deactivations
  <1>11. InPass' <=> InPass
    BY <1>3, <1>4, <1>6, <1>7, <1>8, InPassFrames DEF PassCalls, Passes
  <1>12. \A d : Waits(d)' <=> Waits(d)
    BY <1>3, <1>4, <1>6, <1>7, <1>8 DEF Waits
  <1>13. \A d \in Comps : IsOn(d)' <=> IsOn(d)
    BY <1>3, <1>9 DEF IsOn, Noted
  <1>14. life \in [Comps -> [stage : Stages, started : BOOLEAN, broken : BOOLEAN]]
    BY <1>4 DEF Flags
  <1>15. life[x].stage \in {"new", "off"}
    <2>1. life[x].stage \in Stages
      BY <1>5, <1>14
    <2>2. life[x].stage # "on" /\ life[x].stage # "gone"
      BY <1>4, <1>5, <1>9 DEF Lives, Noted
    <2> QED
      BY <2>1, <2>2 DEF Stages
  <1>16. life'[x] = [stage |-> "gone", started |-> life[x].started, broken |-> life[x].broken] /\ \A d \in Comps : d # x => life'[d] = life[d]
    <2>1. MayCall("onDestroy", life[x])
      BY <1>15 DEF MayCall
    <2>2. life'[x] = After("onDestroy", life[x]) /\ \A d \in Comps : d # x => life'[d] = life[d]
      BY <1>3, <1>5, <1>14, <2>1, HookCalled
    <2>3. life[x] \in [stage : Stages, started : BOOLEAN, broken : BOOLEAN]
      BY <1>5, <1>14
    <2> QED
      BY <2>2, <2>3, AfterFacts
  <1>17. life' \in [Comps -> [stage : Stages, started : BOOLEAN, broken : BOOLEAN]]
    <2>1. life' = [life EXCEPT ![x] = life'[x]]
      BY <1>3, <1>5, <1>14 DEF CallsHook
    <2> QED
      BY <1>5, <1>14, <1>16, <2>1 DEF Stages
  <1>18. Flags'
    BY <1>3, <1>4, <1>17 DEF Flags
  <1>19. Lists'
    BY <1>3, <1>4, <1>11, <1>13 DEF Lists
  <1>20. Queue'
    <2>1. \A d \in Range(startQueue) : d \in Comps
      BY <1>4 DEF Flags, Range
    <2> QED
      BY <1>3, <1>4, <1>12, <1>13, <2>1 DEF Queue
  <1>21. Lives'
    <2> SUFFICES ASSUME NEW d \in Comps
                 PROVE  /\ CallsInOrder => ~life'[d].broken
                        /\ life'[d].stage = "on" <=> IsOn(d)' \/ In("onEnable", d)'
                        /\ life'[d].stage = "gone" => d \in created' /\ (d \notin alive' \/ In("onDestroy", d)')
                        /\ life'[d].stage # "gone" => (life'[d].stage = "new" <=> d \notin onLoaded' /\ ~In("onLoad", d)')
                        /\ life'[d].started <=> d \in startCalled' \/ In("start", d)'
      BY DEF Lives
    <2>1. /\ CallsInOrder => ~life[d].broken
          /\ life[d].stage = "on" <=> IsOn(d) \/ In("onEnable", d)
          /\ life[d].stage = "gone" => d \in created /\ (d \notin alive \/ In("onDestroy", d))
          /\ life[d].stage # "gone" => (life[d].stage = "new" <=> d \notin onLoaded /\ ~In("onLoad", d))
          /\ life[d].started <=> d \in startCalled \/ In("start", d)
      BY <1>4 DEF Lives
    <2>2. CASE d = x
      BY <1>3, <1>5, <1>9, <1>13, <1>16, <2>1, <2>2 DEF Noted
    <2>3. CASE d # x
      BY <1>3, <1>9, <1>13, <1>16, <2>1, <2>3 DEF Noted
    <2> QED
      BY <2>2, <2>3
  <1>22. Tree'
    BY <1>3, <1>4 DEF Tree
  <1>23. FramesOK'
    <2> SUFFICES ASSUME NEW g \in Frames'
                 PROVE  FrameOK(g)'
      BY DEF FramesOK, FrameOK
    <2>1. CASE g = f
      BY <1>3, <1>5, <1>6, <1>13, <2>1
         DEF FrameOK, FrameTyped, NodeCallOK, CompCallOK, PhaseOK, NodeCalls, Activations, Deactivations,
             CompCalls, Runs
    <2>2. CASE g \in T
      <3>1. FrameTyped(g)
        BY <1>4, <2>2 DEF FrameOK
      <3> QED
        BY <1>7, <2>2, <3>1
           DEF FrameOK, FrameTyped, NodeCallOK, CompCallOK, PhaseOK, NodeCalls, Activations, Deactivations,
               CompCalls, Runs
    <2> QED
      BY <1>8, <2>1, <2>2
  <1>24. NodesOn' /\ NodesOff'
    <2>1. \A g \in Frames : g.at \in NodeCalls =>
            \E h \in Frames' : h.node = g.node /\ h.at = g.at /\ (g.at = "activatingChildren" => h.i = g.i /\ h.n = g.n)
      BY <1>3, <1>4, <1>8 DEF NodeCalls, Activations, Deactivations
    <2> QED
      BY <1>3, <1>4, <1>10, <2>1, NodesUntouched
  <1>25. CompsOn'
    BY <1>3, <1>4, <1>13 DEF CompsOn, EnabledInHierarchy
  <1>26. CompsOff'
    <2> SUFFICES ASSUME NEW d \in alive, EnabledInHierarchy(d), ~IsOn(d)'
                 PROVE  \E g \in Frames' : Excuses(g, d)'
      BY <1>3 DEF CompsOff, EnabledInHierarchy
    <2>1. d \in Comps /\ ~IsOn(d)
      BY <1>4, <1>13 DEF Tree
    <2>2. PICK g \in Frames : Excuses(g, d)
      BY <1>4, <2>1 DEF CompsOff
    <2>3. CASE g = top
      BY <1>3, <1>6, <1>8, <2>2, <2>3 DEF Excuses
    <2>4. CASE g # top
      BY <1>3, <1>4, <1>8, <2>2, <2>4 DEF Excuses
    <2> QED
      BY <2>3, <2>4
  <1> QED
    BY <1>8, <1>18, <1>19, <1>20, <1>21, <1>22, <1>23, <1>24, <1>25, <1>26 DEF IInv

LEMMA OnDestroyReturnsKeeps ==
    ASSUME IInv, OnDestroyReturns
    PROVE  IInv'
  <1>1. PICK top, T : top = Top /\ T = Range(Callers)
    OBVIOUS
  <1>2. PICK x : x = Top.comp
    OBVIOUS
  <1>3. /\ top.at = "onDestroy" /\ top.comp = x /\ stack' = Callers
        /\ comps' = [comps EXCEPT ![nodeOf[x]] = Without(@, {x})]
        /\ nodeOf' = [nodeOf EXCEPT ![x] = Nothing]
        /\ alive' = alive \ {x}
        /\ UNCHANGED <<parent, children, active, doomed, inHierarchy, enabled, created, flagVars, startQueue, lists, life>>
    BY <1>1, <1>2 DEF OnDestroyReturns, On
  <1>4. /\ Tree /\ Flags /\ Stacked /\ Lists /\ Queue /\ Lives /\ NodesOn /\ NodesOff /\ CompsOn /\ CompsOff
        /\ Frames = {top} \cup T /\ \A g \in Frames : g \in FrameTypes /\ FrameOK(g)
        /\ \A g \in T : MayBeAbove(top, g, parent, nodeOf)
    BY <1>1, Parts
  <1> USE DEF flagVars
  <1>5. x \in alive /\ x \in created /\ x \in Comps /\ ~IsOn(x) /\ nodeOf[x] \in Nodes
    BY <1>3, <1>4 DEF FrameOK, FrameTyped, CompCallOK, CompCalls, Tree
  <1>7. \A g \in T : g.at \in {"scene", "logic"}
    BY <1>3, <1>4 DEF MayBeAbove
  <1>8. /\ Stacked' /\ Frames' = T
        /\ \A at, d : In(at, d) <=> In(at, d)' \/ (at = "onDestroy" /\ d = x)
    <2>1. LinksKept(Callers) /\ Top.at \notin Phases
      BY <1>1, <1>3, <1>7 DEF LinksKept, Phases, NodeCalls, Activations, Deactivations, CompCalls
    <2> QED
      BY <1>1, <1>3, <1>4, <2>1, Pops
  <1> HIDE DEF Top, Callers
  <1>9. \A at \in Noted : \A d : ~In(at, d)' /\ (In(at, d) <=> at = "onDestroy" /\ d = x)
    BY <1>3, <1>4, <1>7, <1>8 DEF In, Noted
  <1>10. \A m : ~GoesOff(m) /\ ~GoesOff(m)'
    BY <1>3, <1>4, <1>7, <1>8 DEF GoesOff, Deactivations
  <1>11. ~InPass' /\ ~InPass
    BY <1>3, <1>4, <1>7, <1>8, InPassFrames DEF PassCalls, Passes
  <1>12. \A d : Waits(d)' <=> Waits(d)
    BY <1>3, <1>4, <1>7, <1>8 DEF Waits
  <1>13. \A d \in Comps : IsOn(d)' <=> IsOn(d)
    BY <1>3, <1>9 DEF IsOn, Noted
  <1>14. x \notin onEnabled
    BY <1>5, <1>9 DEF IsOn, Noted
  <1>15. \A m \in Nodes : /\ comps'[m] \in Seq(Comps) /\ IsInjective(comps'[m])
                          /\ Range(comps'[m]) = Range(comps[m]) \ (IF m = nodeOf[x] THEN {x} ELSE {})
    <2> TAKE m \in Nodes
    <2>1. comps[m] \in Seq(Comps) /\ IsInjective(comps[m])
      BY <1>4 DEF Tree
    <2>2. CASE m = nodeOf[x]
      <3>1. comps'[m] = Without(comps[m], {x})
        BY <1>3, <1>4, <2>2 DEF Tree
      <3> QED
        BY <2>1, <2>2, <3>1, WithoutFacts
    <2>3. CASE m # nodeOf[x]
      <3>1. comps'[m] = comps[m]
        BY <1>3, <1>4, <2>3 DEF Tree
      <3> QED
        BY <2>1, <2>3, <3>1
    <2> QED
      BY <2>2, <2>3
  <1>16. nodeOf'[x] = Nothing /\ \A d \in Comps : d # x => nodeOf'[d] = nodeOf[d]
    BY <1>3, <1>4, <1>5 DEF Tree
  <1>17. Tree'
    <2>1. comps' \in [Nodes -> Seq(Comps)]
      <3>1. comps' = [m \in Nodes |-> comps'[m]]
        BY <1>3, <1>4 DEF Tree
      <3> QED
        BY <1>15, <3>1
    <2>2. nodeOf' \in [Comps -> Nodes \cup {Nothing}] /\ alive' \subseteq created' /\ created' \subseteq Comps
      BY <1>3, <1>4 DEF Tree
    <2>3. \A d \in alive' : nodeOf'[d] \in Nodes /\ d \in Range(comps'[nodeOf'[d]])
      <3> TAKE d \in alive'
      <3>1. d \in alive /\ d # x /\ d \in Comps
        BY <1>3, <1>4 DEF Tree
      <3> QED
        BY <1>4, <1>15, <1>16, <3>1 DEF Tree
    <2>4. \A m \in Nodes : \A d \in Range(comps'[m]) : d \in alive' /\ nodeOf'[d] = m
      <3> TAKE m \in Nodes
      <3> TAKE d \in Range(comps'[m])
      <3>1. d \in Range(comps[m])
        BY <1>15
      <3>2. d \in alive /\ nodeOf[d] = m /\ d \in Comps
        BY <1>4, <3>1 DEF Tree
      <3>3. d # x
        BY <1>15, <3>2
      <3> QED
        BY <1>3, <1>16, <3>2, <3>3
    <2> QED
      BY <1>3, <1>4, <1>15, <2>1, <2>2, <2>3, <2>4 DEF Tree
  <1>18. Flags'
    BY <1>3, <1>4, <1>14 DEF Flags
  <1>19. Lists'
    <2>1. \A pass \in Passes : Range(lists[pass].remove) = {}
      BY <1>4, <1>11 DEF Lists, Range
    <2> QED
      BY <1>3, <1>4, <1>11, <1>13, <2>1 DEF Lists
  <1>20. Queue'
    <2>1. \A d \in Range(startQueue) : d \in Comps
      BY <1>4 DEF Flags, Range
    <2> QED
      BY <1>3, <1>4, <1>12, <1>13, <2>1 DEF Queue
  <1>21. Lives'
    BY <1>3, <1>4, <1>5, <1>9, <1>13 DEF Lives, Noted
  <1>23. FramesOK'
    <2> SUFFICES ASSUME NEW g \in T
                 PROVE  FrameOK(g)'
      BY <1>8 DEF FramesOK, FrameOK
    <2>1. FrameTyped(g)
      BY <1>4 DEF FrameOK
    <2> QED
      BY <1>7, <2>1
         DEF FrameOK, FrameTyped, NodeCallOK, CompCallOK, PhaseOK, NodeCalls, Activations, Deactivations,
             CompCalls, Runs
  <1>24. NodesOn' /\ NodesOff'
    <2>1. \A g \in Frames : g.at \in NodeCalls =>
            \E h \in Frames' : h.node = g.node /\ h.at = g.at /\ (g.at = "activatingChildren" => h.i = g.i /\ h.n = g.n)
      BY <1>3, <1>4, <1>8 DEF NodeCalls, Activations, Deactivations
    <2> QED
      BY <1>3, <1>4, <1>10, <2>1, NodesUntouched
  <1>25. CompsOn'
    <2> SUFFICES ASSUME NEW d \in Comps, IsOn(d)
                 PROVE  EnabledInHierarchy(d)'
      BY <1>13 DEF CompsOn
    <2>1. d # x
      BY <1>5
    <2> QED
      BY <1>3, <1>4, <1>16, <2>1 DEF CompsOn, EnabledInHierarchy
  <1>26. CompsOff'
    <2> SUFFICES ASSUME NEW d \in alive', EnabledInHierarchy(d)', ~IsOn(d)'
                 PROVE  FALSE
      BY DEF CompsOff
    <2>1. d \in alive /\ d \in Comps /\ d # x /\ ~IsOn(d) /\ EnabledInHierarchy(d)
      BY <1>3, <1>4, <1>13, <1>16 DEF Tree, EnabledInHierarchy
    <2>2. PICK g \in Frames : Excuses(g, d)
      BY <1>4, <2>1 DEF CompsOff
    <2> QED
      BY <1>3, <1>4, <1>7, <2>1, <2>2 DEF Excuses
  <1> QED
    BY <1>8, <1>17, <1>18, <1>19, <1>20, <1>21, <1>23, <1>24, <1>25, <1>26 DEF IInv
-----------------------------------------------------------------------------
(* The phases of a frame.                                                     *)

\* Between calls nothing excuses a difference.
LEMMA PhaseAlone ==
    ASSUME IInv, NEW top, top = Top, top.at \in Phases
    PROVE  /\ Frames = {top} /\ Callers = <<>> /\ top \in FrameTypes /\ FrameOK(top)
           /\ top.node = Nothing /\ top.comp = Nothing
           /\ \A at \in Noted : \A d \in Comps : ~In(at, d)
           /\ \A m : ~GoesOff(m)
           /\ \A d \in Comps : IsOn(d) <=> d \in onEnabled
           /\ \A m \in inHierarchy \ {Root} : m \in active /\ parent[m] = Root /\ Root \in inHierarchy
           /\ \A m \in active \ {Root} : parent[m] = Root /\ Root \in inHierarchy => m \in inHierarchy
           /\ \A d \in alive : EnabledInHierarchy(d) => d \in onEnabled
           /\ \A d \in Comps : d \in onEnabled => EnabledInHierarchy(d) /\ d \in alive
           /\ InPass <=> top.at \in {"updating", "lateUpdating"}
           /\ \A d : Waits(d) <=> d \in Range(startQueue) \/ (top.at = "starting" /\ d \in Rest(top, top.batch))
  <1>1. PICK T : T = Range(Callers)
    OBVIOUS
  <1>2. /\ Tree /\ Flags /\ NodesOn /\ NodesOff /\ CompsOn /\ CompsOff
        /\ Frames = {top} /\ Callers = <<>> /\ top \in FrameTypes /\ FrameOK(top)
    BY <1>1, Parts
  <1> HIDE DEF Top, Callers
  <1>3. top.node = Nothing /\ top.comp = Nothing
    BY <1>2 DEF FrameOK, FrameTyped, Phases, NodeCalls, Activations, Deactivations, CompCalls, Runs
  <1>4. /\ \A at \in Noted : \A d \in Comps : ~In(at, d)
        /\ \A m : ~GoesOff(m)
    BY <1>2 DEF In, GoesOff, Deactivations, Noted, Phases
  <1>5. \A d \in Comps : IsOn(d) <=> d \in onEnabled
    BY <1>4 DEF IsOn, Noted
  <1>6. \A d : ~Excuses(top, d)
    BY DEF Excuses, Phases
  <1>7. \A m : ~WillSwitch(top, m)
    BY DEF WillSwitch, Phases, Deactivations
  <1>8. InPass <=> top.at \in {"updating", "lateUpdating"}
    BY <1>2, InPassFrames DEF PassCalls, Passes, Phases
  <1>9. \A d : Waits(d) <=> d \in Range(startQueue) \/ (top.at = "starting" /\ d \in Rest(top, top.batch))
    BY <1>2 DEF Waits
  <1>10. \A m \in inHierarchy \ {Root} : m \in active /\ parent[m] = Root /\ Root \in inHierarchy
    BY <1>2, <1>4 DEF NodesOn
  <1>11. \A m \in active \ {Root} : parent[m] = Root /\ Root \in inHierarchy => m \in inHierarchy
    BY <1>2, <1>7 DEF NodesOff
  <1>12. \A d \in alive : EnabledInHierarchy(d) => d \in onEnabled
    <2>1. \A d \in alive : d \in Comps
      BY <1>2 DEF Tree
    <2> QED
      BY <1>2, <1>5, <1>6, <2>1 DEF CompsOff
  <1>13. \A d \in Comps : d \in onEnabled => EnabledInHierarchy(d) /\ d \in alive
    BY <1>2, <1>5 DEF CompsOn, Flags
  <1> QED
    BY <1>2, <1>3, <1>4, <1>5, <1>8, <1>9, <1>10, <1>11, <1>12, <1>13

LEMMA PhaseBegins ==
    ASSUME NEW f \in FrameTypes, f.at \in Phases, stack' = <<f>>
    PROVE  /\ Stacked' /\ Frames' = {f}
           /\ \A at \in Noted : \A d : In(at, d)' => f.at = at
           /\ \A at \in Noted : \A d : ~In(at, d)'
           /\ \A m : ~GoesOff(m)'
           /\ InPass' <=> f.at \in {"updating", "lateUpdating"}
  <1>1. <<>> \in Seq(FrameTypes) /\ <<f>> = Pushed(f, <<>>) /\ <<f>> \in Seq(FrameTypes)
    BY DEF Pushed
  <1>2. Nested(<<f>>, parent', nodeOf')
    <2>1. PICK t : t = <<>>
      OBVIOUS
    <2>2. t \in Seq(FrameTypes) /\ <<f>> = Pushed(f, t)
      BY <1>1, <2>1
    <2>3. Nested(Pushed(f, t), parent', nodeOf')
      BY ONLY <2>1, <2>2, f \in FrameTypes, f.at \in Phases, NestedPushed
    <2> QED
      BY <2>2, <2>3
  <1>3. Range(<<f>>) = {f}
    <2>1. DOMAIN <<f>> = {1} /\ <<f>>[1] = f
      OBVIOUS
    <2> QED
      BY <2>1 DEF Range
  <1>4. Stacked' /\ Frames' = {f}
    BY <1>1, <1>2, <1>3 DEF Stacked, Frames
  <1>5. /\ \A at \in Noted : \A d : ~In(at, d)'
        /\ \A m : ~GoesOff(m)'
    BY <1>4 DEF In, GoesOff, Deactivations, Noted, Phases
  <1>6. InPass' <=> f.at \in {"updating", "lateUpdating"}
    BY <1>4, InPassFrames DEF PassCalls, Passes, Phases
  <1> QED
    BY <1>4, <1>5, <1>6

\* One phase goes on, or gives way to the next.
LEMMA PhaseKeeps ==
    ASSUME IInv, NEW top, top = Top, top.at \in Phases, NEW f \in FrameTypes, f.at \in Phases, stack' = <<f>>,
           UNCHANGED <<treeVars, inHierarchy, compVars, flagVars, life>>, FrameOK(f)', Flags', Lists',
           startQueue' = startQueue \/ startQueue' = <<>>,
           \A d \in Comps : d \in onEnabled \ startCalled /\ Waits(d) => Waits(d)'
    PROVE  IInv'
  <1> USE DEF treeVars, compVars, flagVars
  <1>1. Tree /\ Lives /\ Queue /\ Flags
    BY DEF IInv
  <1>2. /\ Frames = {top}
        /\ \A at \in Noted : \A d \in Comps : ~In(at, d)
        /\ \A d \in Comps : IsOn(d) <=> d \in onEnabled
        /\ \A m \in inHierarchy \ {Root} : m \in active /\ parent[m] = Root /\ Root \in inHierarchy
        /\ \A m \in active \ {Root} : parent[m] = Root /\ Root \in inHierarchy => m \in inHierarchy
        /\ \A d \in alive : EnabledInHierarchy(d) => d \in onEnabled
        /\ \A d \in Comps : d \in onEnabled => EnabledInHierarchy(d) /\ d \in alive
    BY PhaseAlone
  <1>3. /\ Stacked' /\ Frames' = {f}
        /\ \A at \in Noted : \A d : ~In(at, d)'
        /\ \A m : ~GoesOff(m)'
    BY PhaseBegins
  <1>4. \A d \in Comps : IsOn(d)' <=> IsOn(d)
    BY <1>2, <1>3 DEF IsOn, Noted
  <1>5. Tree'
    BY <1>1 DEF Tree
  <1>6. FramesOK'
    BY <1>3 DEF FramesOK, FrameOK
  <1>7. NodesOn' /\ NodesOff'
    BY <1>2, <1>3 DEF NodesOn, NodesOff
  <1>8. CompsOn' /\ CompsOff'
    <2>1. \A d \in alive : d \in Comps
      BY <1>1 DEF Tree
    <2> QED
      BY <1>2, <1>4, <2>1 DEF CompsOn, CompsOff, EnabledInHierarchy
  <1>9. Queue'
    <2>1. \A d \in Range(startQueue') : d \in Range(startQueue) /\ d \in Comps
      <3>1. Range(<<>>) = {}
        BY DEF Range
      <3>2. \A d \in Range(startQueue) : d \in Comps
        BY <1>1 DEF Flags, Range
      <3> QED
        BY <3>1, <3>2
    <2>2. \A d \in Comps : IsOn(d)' /\ d \notin startCalled => Waits(d)'
      BY <1>1, <1>2, <1>4 DEF Queue
    <2>3. \A d \in Range(startQueue') : IsOn(d)' /\ d \notin startCalled
      BY <1>1, <1>4, <2>1 DEF Queue
    <2> QED
      BY <2>2, <2>3 DEF Queue
  <1>10. Lives'
    BY <1>1, <1>2, <1>3, <1>4 DEF Lives, Noted
  <1> QED
    BY <1>3, <1>5, <1>6, <1>7, <1>8, <1>9, <1>10 DEF IInv

LoopFrame(at, n) == [Frame(at) EXCEPT !.n = n]
BatchFrame(at, n, b) == [Frame(at) EXCEPT !.batch = b, !.n = n]

LEMMA LoopFrames ==
    /\ \A at \in Phases : \A n \in Nat :
          LET f == LoopFrame(at, n) IN
          f \in FrameTypes /\ f.at = at /\ f.node = Nothing /\ f.comp = Nothing /\ f.i = 1 /\ f.n = n
    /\ \A at \in Phases : LET f == Frame(at) IN
          f \in FrameTypes /\ f.at = at /\ f.node = Nothing /\ f.comp = Nothing /\ f.i = 1 /\ f.n = 0
    /\ \A at \in Phases : \A n \in Nat : \A b \in Seq(Comps) :
          LET f == BatchFrame(at, n, b) IN
          f \in FrameTypes /\ f.at = at /\ f.node = Nothing /\ f.comp = Nothing /\ f.i = 1 /\ f.n = n /\ f.batch = b
  <1>0. <<>> \in Seq(Comps)
    OBVIOUS
  <1>1. ASSUME NEW at \in Phases, NEW n \in Nat
        PROVE  LET f == LoopFrame(at, n) IN
               f \in FrameTypes /\ f.at = at /\ f.node = Nothing /\ f.comp = Nothing /\ f.i = 1 /\ f.n = n
    <2>1. PICK f : f = [at |-> at, node |-> Nothing, comp |-> Nothing, i |-> 1, n |-> n, batch |-> <<>>, used |-> 0]
      OBVIOUS
    <2>2. f = LoopFrame(at, n)
      BY <2>1 DEF Frame, LoopFrame
    <2>3. f \in FrameTypes /\ f.at = at /\ f.node = Nothing /\ f.comp = Nothing /\ f.i = 1 /\ f.n = n
      BY <1>0, <1>1, <2>1 DEF FrameTypes
    <2> QED
      BY <2>2, <2>3, Zenon
  <1>2. ASSUME NEW at \in Phases
        PROVE  LET f == Frame(at) IN
               f \in FrameTypes /\ f.at = at /\ f.node = Nothing /\ f.comp = Nothing /\ f.i = 1 /\ f.n = 0
    BY <1>0, <1>2 DEF FrameTypes, Frame
  <1>3. ASSUME NEW at \in Phases, NEW n \in Nat, NEW b \in Seq(Comps)
        PROVE  LET f == BatchFrame(at, n, b) IN
               f \in FrameTypes /\ f.at = at /\ f.node = Nothing /\ f.comp = Nothing /\ f.i = 1 /\ f.n = n /\ f.batch = b
    <2>1. PICK f : f = [at |-> at, node |-> Nothing, comp |-> Nothing, i |-> 1, n |-> n, batch |-> b, used |-> 0]
      OBVIOUS
    <2>2. f = BatchFrame(at, n, b)
      <3>1. PICK g : g = [at |-> at, node |-> Nothing, comp |-> Nothing, i |-> 1, n |-> 0, batch |-> b, used |-> 0]
        OBVIOUS
      <3>2. g = [Frame(at) EXCEPT !.batch = b]
        BY <3>1 DEF Frame
      <3>3. f = [g EXCEPT !.n = n]
        BY <2>1, <3>1
      <3>4. [Frame(at) EXCEPT !.batch = b, !.n = n] = [[Frame(at) EXCEPT !.batch = b] EXCEPT !.n = n]
        OBVIOUS
      <3> QED
        BY <3>2, <3>3, <3>4, Zenon DEF BatchFrame
    <2>3. f \in FrameTypes /\ f.at = at /\ f.node = Nothing /\ f.comp = Nothing /\ f.i = 1 /\ f.n = n /\ f.batch = b
      BY <1>3, <2>1 DEF FrameTypes
    <2> QED
      BY <2>2, <2>3, Zenon
  <1> QED
    BY <1>1, <1>2, <1>3
-----------------------------------------------------------------------------
(* The steps from phase to phase.                                             *)

\* What a frame of a phase has to satisfy.
LEMMA PhaseFrame ==
    ASSUME NEW f, f.at \in Phases, f.node = Nothing, f.comp = Nothing, f.i >= 1, f.i <= f.n + 1, PhaseOK(f)'
    PROVE  FrameOK(f)'
  BY DEF FrameOK, FrameTyped, NodeCallOK, CompCallOK, Phases, NodeCalls, Activations, Deactivations,
         CompCalls, Runs

LEMMA BeginStartsKeeps ==
    ASSUME IInv, BeginStarts
    PROVE  IInv'
  <1>1. PICK top, f : top = Top /\ f = BatchFrame("starting", Len(startQueue), startQueue)
    OBVIOUS
  <1>2. /\ top.at = "scene" /\ stack' = <<f>> /\ startQueue' = <<>>
        /\ UNCHANGED <<treeVars, inHierarchy, compVars, flagVars, lists, life>>
    BY <1>1 DEF BeginStarts, On, BatchFrame
  <1>3. Tree /\ Flags /\ Lists /\ Queue /\ startQueue \in Seq(Comps) /\ Len(startQueue) \in Nat /\ top.at \in Phases
    BY <1>2 DEF IInv, Flags, Phases
  <1>4. /\ f \in FrameTypes /\ f.at = "starting" /\ f.node = Nothing /\ f.comp = Nothing /\ f.i = 1
        /\ f.n = Len(startQueue) /\ f.batch = startQueue /\ f.at \in Phases
    BY <1>1, <1>3, LoopFrames DEF Phases
  <1>5. /\ \A d \in Comps : IsOn(d) <=> d \in onEnabled
        /\ InPass <=> top.at \in {"updating", "lateUpdating"}
        /\ \A d : Waits(d) <=> d \in Range(startQueue) \/ (top.at = "starting" /\ d \in Rest(top, top.batch))
    BY <1>1, <1>3, PhaseAlone
  <1>6. /\ Frames' = {f} /\ (InPass' <=> f.at \in {"updating", "lateUpdating"})
        /\ \A at \in Noted : \A d : ~In(at, d)'
    BY <1>2, <1>4, PhaseBegins
  <1> HIDE DEF Top, Callers
  <1> USE DEF flagVars
  <1>7. Rest(f, f.batch) = Range(startQueue)
    <2>1. DOMAIN startQueue = 1 .. Len(startQueue)
      BY <1>3
    <2> QED
      BY <1>4, <2>1 DEF Rest, Range
  <1>8. Rest(f, f.batch) \subseteq alive
    <2>1. \A d \in Range(startQueue) : d \in Comps /\ IsOn(d)
      BY <1>3 DEF Queue, Range
    <2> QED
      BY <1>3, <1>5, <1>7, <2>1 DEF Flags
  <1>9. FrameOK(f)'
    <2>1. PhaseOK(f)'
      BY <1>2, <1>4, <1>8 DEF PhaseOK, compVars
    <2> QED
      BY <1>3, <1>4, <2>1, PhaseFrame
  <1>10. Flags'
    BY <1>2, <1>3 DEF Flags, compVars
  <1>11. Lists'
    <2>1. ~InPass /\ ~InPass'
      BY <1>2, <1>4, <1>5, <1>6
    <2>2. \A d \in Comps : IsOn(d)' <=> IsOn(d)
      BY <1>2, <1>5, <1>6 DEF IsOn, Noted
    <2> QED
      BY <1>2, <1>3, <2>1, <2>2 DEF Lists, compVars
  <1>12. \A d \in Comps : Waits(d) => Waits(d)'
    BY <1>2, <1>4, <1>5, <1>6, <1>7 DEF Waits
  <1> QED
    BY <1>1, <1>2, <1>3, <1>4, <1>9, <1>10, <1>11, <1>12, PhaseKeeps

LEMMA BeginUpdateKeeps ==
    ASSUME IInv, BeginUpdate
    PROVE  IInv'
  <1>1. PICK top, f : top = Top /\ f = LoopFrame("updating", Len(lists["update"].now))
    OBVIOUS
  <1>2. /\ top.at = "starting" /\ top.i > top.n /\ stack' = <<f>>
        /\ UNCHANGED <<treeVars, inHierarchy, compVars, flagVars, startQueue, lists, life>>
    BY <1>1 DEF BeginUpdate, Begins, On, LoopFrame, LoopEnds
  <1>3. Tree /\ Flags /\ Lists /\ Queue /\ top.at \in Phases
    BY <1>2 DEF IInv, Phases
  <1>4. lists["update"] \in [now : Seq(Comps), add : Seq(Comps), remove : Seq(Comps)] /\ Len(lists["update"].now) \in Nat
    BY <1>3 DEF Flags, Passes
  <1>5. /\ f \in FrameTypes /\ f.at = "updating" /\ f.node = Nothing /\ f.comp = Nothing /\ f.i = 1
        /\ f.n = Len(lists["update"].now) /\ f.at \in Phases
    BY <1>1, <1>4, LoopFrames DEF Phases
  <1>6. /\ \A d \in Comps : IsOn(d) <=> d \in onEnabled
        /\ top \in FrameTypes /\ FrameOK(top)
        /\ InPass <=> top.at \in {"updating", "lateUpdating"}
        /\ \A d : Waits(d) <=> d \in Range(startQueue) \/ (top.at = "starting" /\ d \in Rest(top, top.batch))
    BY <1>1, <1>3, PhaseAlone
  <1>7. /\ Frames' = {f} /\ (InPass' <=> f.at \in {"updating", "lateUpdating"})
        /\ \A at \in Noted : \A d : ~In(at, d)'
    BY <1>2, <1>5, PhaseBegins
  <1> HIDE DEF Top, Callers
  <1> USE DEF flagVars
  <1>8. \A d : ~Waits(d)
    <2>1. startQueue = <<>>
      BY <1>2, <1>6 DEF FrameOK, PhaseOK
    <2>2. Range(startQueue) = {}
      BY <2>1 DEF Range
    <2>3. Rest(top, top.batch) = {}
      BY <1>2, <1>6 DEF Rest, FrameTypes
    <2> QED
      BY <1>6, <2>2, <2>3
  <1>9. Range(lists["update"].now) \subseteq startCalled
    <2>1. "update" \in Passes /\ ~InPass
      BY <1>2, <1>6 DEF Passes
    <2>2. lists["update"].remove = <<>>
      BY <1>3, <2>1 DEF Lists
    <2>3. Range(lists["update"].remove) = {}
      BY <2>2 DEF Range
    <2>4. Range(lists["update"].now) \subseteq Comps
      BY <1>4 DEF Range
    <2>5. \A d \in Range(lists["update"].now) : d \in Comps /\ d \in Scheduled(lists["update"])
      BY <2>3, <2>4 DEF Scheduled
    <2>6. \A d \in Range(lists["update"].now) : IsOn(d)
      BY <1>3, <2>1, <2>5 DEF Lists
    <2> QED
      BY <1>3, <1>8, <2>5, <2>6 DEF Queue
  <1>10. FrameOK(f)'
    <2>1. PhaseOK(f)'
      BY <1>2, <1>5, <1>9 DEF PhaseOK
    <2> QED
      BY <1>4, <1>5, <2>1, PhaseFrame
  <1>11. Flags'
    BY <1>2, <1>3 DEF Flags, compVars
  <1>12. Lists'
    <2>1. ~InPass /\ InPass'
      BY <1>2, <1>5, <1>6, <1>7
    <2>2. \A d \in Comps : IsOn(d)' <=> IsOn(d)
      BY <1>2, <1>6, <1>7 DEF IsOn, Noted
    <2> QED
      BY <1>2, <1>3, <2>1, <2>2 DEF Lists, compVars
  <1> QED
    BY <1>1, <1>2, <1>3, <1>5, <1>8, <1>10, <1>11, <1>12, PhaseKeeps

LEMMA BeginLateUpdateKeeps ==
    ASSUME IInv, BeginLateUpdate
    PROVE  IInv'
  <1>1. PICK top, f : top = Top /\ f = LoopFrame("lateUpdating", Len(lists["lateUpdate"].now))
    OBVIOUS
  <1>2. /\ top.at = "logic" /\ stack' = <<f>>
        /\ UNCHANGED <<treeVars, inHierarchy, compVars, flagVars, startQueue, lists, life>>
    BY <1>1 DEF BeginLateUpdate, Begins, On, LoopFrame
  <1>3. Tree /\ Flags /\ Lists /\ Queue /\ top.at \in Phases
    BY <1>2 DEF IInv, Phases
  <1>4. lists["lateUpdate"] \in [now : Seq(Comps), add : Seq(Comps), remove : Seq(Comps)] /\ Len(lists["lateUpdate"].now) \in Nat
    BY <1>3 DEF Flags, Passes
  <1>5. /\ f \in FrameTypes /\ f.at = "lateUpdating" /\ f.node = Nothing /\ f.comp = Nothing /\ f.i = 1
        /\ f.n = Len(lists["lateUpdate"].now) /\ f.at \in Phases
    BY <1>1, <1>4, LoopFrames DEF Phases
  <1>6. /\ \A d \in Comps : IsOn(d) <=> d \in onEnabled
        /\ InPass <=> top.at \in {"updating", "lateUpdating"}
        /\ \A d : Waits(d) <=> d \in Range(startQueue) \/ (top.at = "starting" /\ d \in Rest(top, top.batch))
    BY <1>1, <1>3, PhaseAlone
  <1>7. /\ Frames' = {f} /\ (InPass' <=> f.at \in {"updating", "lateUpdating"})
        /\ \A at \in Noted : \A d : ~In(at, d)'
    BY <1>2, <1>5, PhaseBegins
  <1> HIDE DEF Top, Callers
  <1> USE DEF flagVars
  <1>10. FrameOK(f)'
    <2>1. PhaseOK(f)'
      BY <1>2, <1>5 DEF PhaseOK
    <2> QED
      BY <1>4, <1>5, <2>1, PhaseFrame
  <1>11. Flags'
    BY <1>2, <1>3 DEF Flags, compVars
  <1>12. Lists'
    <2>1. ~InPass /\ InPass'
      BY <1>2, <1>5, <1>6, <1>7
    <2>2. \A d \in Comps : IsOn(d)' <=> IsOn(d)
      BY <1>2, <1>6, <1>7 DEF IsOn, Noted
    <2> QED
      BY <1>2, <1>3, <2>1, <2>2 DEF Lists, compVars
  <1>13. \A d \in Comps : Waits(d) => Waits(d)'
    BY <1>2, <1>6 DEF Waits
  <1> QED
    BY <1>1, <1>2, <1>3, <1>5, <1>10, <1>11, <1>12, <1>13, PhaseKeeps

\* The pending changes applied, outside a pass.
LEMMA Applying ==
    ASSUME Flags, Lists, ApplyPending, ~InPass', \A d \in Comps : IsOn(d)' <=> IsOn(d)
    PROVE  Lists' /\ lists' \in [Passes -> [now : Seq(Comps), add : Seq(Comps), remove : Seq(Comps)]]
  <1>1. ASSUME NEW pass \in Passes
        PROVE  /\ lists'[pass] \in [now : Seq(Comps), add : Seq(Comps), remove : Seq(Comps)]
               /\ IsInjective(lists'[pass].now) /\ lists'[pass].add = <<>> /\ lists'[pass].remove = <<>>
               /\ Range(lists'[pass].now) = Scheduled(lists[pass])
    <2>1. lists'[pass] = Applied(lists[pass])
      BY DEF ApplyPending
    <2>2. /\ lists[pass] \in [now : Seq(Comps), add : Seq(Comps), remove : Seq(Comps)]
          /\ IsInjective(lists[pass].now) /\ IsInjective(lists[pass].add)
      BY DEF Flags, Lists
    <2> QED
      BY <2>1, <2>2, AppliedFacts
  <1>2. Range(<<>>) = {} /\ IsInjective(<<>>)
    BY DEF Range, IsInjective
  <1>3. \A pass \in Passes : Scheduled(lists'[pass]) = Scheduled(lists[pass])
    <2> TAKE pass \in Passes
    <2>1. Range(lists'[pass].now) = Scheduled(lists[pass]) /\ Range(lists'[pass].add) = {} /\ Range(lists'[pass].remove) = {}
      BY <1>1, <1>2
    <2>2. Scheduled(lists'[pass]) = Range(lists'[pass].now)
      BY <2>1 DEF Scheduled
    <2> QED
      BY <2>1, <2>2
  <1>4. Lists'
    BY <1>1, <1>2, <1>3 DEF Lists
  <1>5. lists' = [pass \in Passes |-> lists'[pass]]
    BY DEF ApplyPending
  <1> QED
    BY <1>1, <1>4, <1>5

LEMMA EndUpdateKeeps ==
    ASSUME IInv, EndUpdate
    PROVE  IInv'
  <1>1. PICK top, f : top = Top /\ f = Frame("logic")
    OBVIOUS
  <1>2. /\ top.at = "updating" /\ stack' = <<f>> /\ ApplyPending
        /\ UNCHANGED <<treeVars, inHierarchy, compVars, flagVars, startQueue, life>>
    BY <1>1 DEF EndUpdate, On
  <1>3. Tree /\ Flags /\ Lists /\ Queue /\ top.at \in Phases
    BY <1>2 DEF IInv, Phases
  <1>5. f \in FrameTypes /\ f.at = "logic" /\ f.node = Nothing /\ f.comp = Nothing /\ f.i = 1 /\ f.n = 0 /\ f.at \in Phases
    BY <1>1, LoopFrames DEF Phases
  <1>6. /\ \A d \in Comps : IsOn(d) <=> d \in onEnabled
        /\ \A d : Waits(d) <=> d \in Range(startQueue) \/ (top.at = "starting" /\ d \in Rest(top, top.batch))
    BY <1>1, <1>3, PhaseAlone
  <1>7. /\ Frames' = {f} /\ (InPass' <=> f.at \in {"updating", "lateUpdating"})
        /\ \A at \in Noted : \A d : ~In(at, d)'
    BY <1>2, <1>5, PhaseBegins
  <1> HIDE DEF Top, Callers
  <1> USE DEF flagVars
  <1>10. FrameOK(f)'
    <2>1. PhaseOK(f)'
      BY <1>5 DEF PhaseOK
    <2> QED
      BY <1>5, <2>1, PhaseFrame
  <1>11. Lists' /\ lists' \in [Passes -> [now : Seq(Comps), add : Seq(Comps), remove : Seq(Comps)]]
    <2>1. ~InPass'
      BY <1>5, <1>7
    <2>2. \A d \in Comps : IsOn(d)' <=> IsOn(d)
      BY <1>2, <1>6, <1>7 DEF IsOn, Noted
    <2> QED
      BY <1>2, <1>3, <2>1, <2>2, Applying
  <1>12. Flags'
    BY <1>2, <1>3, <1>11 DEF Flags, compVars
  <1>13. \A d \in Comps : Waits(d) => Waits(d)'
    BY <1>2, <1>6 DEF Waits
  <1> QED
    BY <1>1, <1>2, <1>3, <1>5, <1>10, <1>11, <1>12, <1>13, PhaseKeeps
-----------------------------------------------------------------------------
(* The loops of a frame: starts, updates and late updates.                    *)

LEMMA NextStartKeeps ==
    ASSUME IInv, NextStart
    PROVE  IInv'
  <1>1. PICK top, c : top = Top /\ c = Top.batch[Top.i]
    OBVIOUS
  <1>2. /\ top.at = "starting" /\ ~LoopEnds /\ c = top.batch[top.i] /\ c \in alive
        /\ IF Startable(c) THEN Enter(c, "start", stack)
           ELSE stack' = Pushed(Advanced, Callers) /\ UNCHANGED life
        /\ UNCHANGED <<treeVars, inHierarchy, compVars, flagVars, startQueue, lists>>
    BY <1>1 DEF NextStart, On
  <1>3. /\ Tree /\ Flags /\ Stacked /\ FramesOK /\ Lists /\ Queue /\ Lives /\ top.at \in Phases
        /\ c \in Comps /\ c \in created
    BY <1>2 DEF IInv, Phases, Tree
  <1>4. /\ Frames = {top} /\ Callers = <<>> /\ top \in FrameTypes /\ FrameOK(top)
        /\ top.node = Nothing /\ top.comp = Nothing
        /\ \A at \in Noted : \A d \in Comps : ~In(at, d)
        /\ \A m : ~GoesOff(m)
        /\ \A d \in Comps : IsOn(d) <=> d \in onEnabled
        /\ \A m \in inHierarchy \ {Root} : m \in active /\ parent[m] = Root /\ Root \in inHierarchy
        /\ \A m \in active \ {Root} : parent[m] = Root /\ Root \in inHierarchy => m \in inHierarchy
        /\ \A d \in alive : EnabledInHierarchy(d) => d \in onEnabled
        /\ \A d \in Comps : d \in onEnabled => EnabledInHierarchy(d) /\ d \in alive
        /\ InPass <=> top.at \in {"updating", "lateUpdating"}
        /\ \A d : Waits(d) <=> d \in Range(startQueue) \/ (top.at = "starting" /\ d \in Rest(top, top.batch))
    BY <1>1, <1>3, PhaseAlone
  <1>5. /\ Resumed(Advanced) /\ Advanced.i = top.i + 1 /\ top.i <= top.n /\ top.i \in Nat /\ top.n \in Nat /\ top.i >= 1
    BY <1>1, <1>2, <1>3, LoopGoesOn
  <1> USE DEF flagVars
  <1>6. CASE Startable(c)
    <2>1. PICK f : f = HookFrame(c, "start")
      OBVIOUS
    <2>2. stack' = Pushed(f, stack) /\ CallsHook(c, "start")
      BY <1>2, <1>6, <2>1 DEF Enter
    <2>3. f \in FrameTypes /\ f.at = "start" /\ f.node = Nothing /\ f.comp = c /\ f.i = 1 /\ f.n = 0
      BY <1>3, <2>1, NewFrames DEF Hooks
    <2>4. Stacked' /\ Frames' = {f, top}
      <3>1. stack \in Seq(FrameTypes) /\ stack # <<>> /\ Nested(stack, parent', nodeOf') /\ Range(stack) = {top}
        BY <1>2, <1>3, <1>4 DEF Stacked, Nested, Frames, treeVars, compVars
      <3>2. MayBeAbove(f, top, parent', nodeOf')
        BY <1>2, <1>4, <1>5, <2>3 DEF MayBeAbove, Phases, Passes, NodeCalls, Activations, Deactivations,
                                      CallsOff, CompCalls
      <3>3. \A g \in Range(stack) : MayBeAbove(f, g, parent', nodeOf')
        BY <3>1, <3>2
      <3> QED
        BY <2>2, <2>3, <3>1, <3>3, Begins1
    <2> HIDE DEF Top, Callers
    <2>5. \A at \in Noted : \A d \in Comps : In(at, d)' <=> at = "start" /\ d = c
      BY <1>2, <2>3, <2>4 DEF In, Noted
    <2>6. \A m : ~GoesOff(m)'
      BY <1>2, <2>3, <2>4 DEF GoesOff, Deactivations
    <2>7. \A d \in Comps : IsOn(d)' <=> IsOn(d)
      BY <1>2, <1>4, <2>5 DEF IsOn, Noted
    <2>8. ~InPass /\ ~InPass'
      BY <1>2, <1>4, <2>3, <2>4, InPassFrames DEF PassCalls, Passes
    <2>9. \A d : Waits(d) => Waits(d)'
      BY <1>2, <1>4, <2>4 DEF Waits
    <2>10. life \in [Comps -> [stage : Stages, started : BOOLEAN, broken : BOOLEAN]]
      BY <1>3 DEF Flags
    <2>11. IsOn(c) /\ c \notin startCalled
      BY <1>2, <1>3, <1>4, <1>6 DEF Startable
    <2>12. life[c].stage = "on" /\ ~life[c].started
      BY <1>3, <1>4, <2>11 DEF Lives, Noted
    <2>13. /\ life'[c] = [stage |-> life[c].stage, started |-> TRUE, broken |-> life[c].broken] /\ \A d \in Comps : d # c => life'[d] = life[d]
           /\ life' \in [Comps -> [stage : Stages, started : BOOLEAN, broken : BOOLEAN]]
      <3>1. MayCall("start", life[c])
        BY <2>12 DEF MayCall
      <3>2. /\ life'[c] = After("start", life[c]) /\ \A d \in Comps : d # c => life'[d] = life[d]
            /\ life' = [life EXCEPT ![c] = After("start", life[c])]
        BY <1>3, <2>2, <2>10, <3>1, HookCalled
      <3>3. life[c] \in [stage : Stages, started : BOOLEAN, broken : BOOLEAN]
        BY <1>3, <2>10
      <3>4. After("start", life[c]) = [stage |-> life[c].stage, started |-> TRUE, broken |-> life[c].broken]
        BY <3>3, AfterFacts
      <3>5. life'[c] = [stage |-> life[c].stage, started |-> TRUE, broken |-> life[c].broken] /\ life' = [life EXCEPT ![c] = life'[c]]
        BY <3>2, <3>4
      <3>6. life'[c] \in [stage : Stages, started : BOOLEAN, broken : BOOLEAN]
        BY <3>3, <3>5
      <3>7. life' \in [Comps -> [stage : Stages, started : BOOLEAN, broken : BOOLEAN]]
        BY <1>3, <2>10, <3>5, <3>6
      <3> QED
        BY <3>2, <3>5, <3>7
    <2>14. Tree' /\ Flags'
      BY <1>2, <1>3, <2>13 DEF Tree, Flags, treeVars, compVars
    <2>15. Lists'
      BY <1>2, <1>3, <2>7, <2>8 DEF Lists, compVars
    <2>16. Queue'
      <3>1. \A d \in Range(startQueue) : d \in Comps
        BY <1>3 DEF Flags, Range
      <3> QED
        BY <1>2, <1>3, <2>7, <2>9, <3>1 DEF Queue
    <2>17. Lives'
      <3> SUFFICES ASSUME NEW d \in Comps
                   PROVE  /\ CallsInOrder => ~life'[d].broken
                          /\ life'[d].stage = "on" <=> IsOn(d)' \/ In("onEnable", d)'
                          /\ life'[d].stage = "gone" => d \in created' /\ (d \notin alive' \/ In("onDestroy", d)')
                          /\ life'[d].stage # "gone" => (life'[d].stage = "new" <=> d \notin onLoaded' /\ ~In("onLoad", d)')
                          /\ life'[d].started <=> d \in startCalled' \/ In("start", d)'
        BY DEF Lives
      <3>1. /\ CallsInOrder => ~life[d].broken
            /\ life[d].stage = "on" <=> IsOn(d) \/ In("onEnable", d)
            /\ life[d].stage = "gone" => d \in created /\ (d \notin alive \/ In("onDestroy", d))
            /\ life[d].stage # "gone" => (life[d].stage = "new" <=> d \notin onLoaded /\ ~In("onLoad", d))
            /\ life[d].started <=> d \in startCalled \/ In("start", d)
        BY <1>3 DEF Lives
      <3>2. CASE d = c
        BY <1>2, <1>4, <2>5, <2>7, <2>13, <3>1, <3>2 DEF Noted, compVars
      <3>3. CASE d # c
        BY <1>2, <1>4, <2>5, <2>7, <2>13, <3>1, <3>3 DEF Noted, compVars
      <3> QED
        BY <3>2, <3>3
    <2>18. FramesOK'
      <3>1. FrameOK(f)'
        BY <1>2, <2>3
           DEF FrameOK, FrameTyped, NodeCallOK, CompCallOK, PhaseOK, NodeCalls, Activations, Deactivations,
               CompCalls, Runs, compVars
      <3>2. FrameOK(top)'
        BY <1>2, <1>3, <1>4, <2>7, QuietFrame DEF Activations, Deactivations
      <3> QED
        BY <2>4, <3>1, <3>2 DEF FramesOK, FrameOK
    <2>19. NodesOn' /\ NodesOff'
      BY <1>2, <1>4, <2>6 DEF NodesOn, NodesOff, treeVars
    <2>20. CompsOn' /\ CompsOff'
      <3>1. \A d \in alive : d \in Comps
        BY <1>3 DEF Tree
      <3> QED
        BY <1>2, <1>4, <2>7, <3>1 DEF CompsOn, CompsOff, EnabledInHierarchy, compVars
    <2> QED
      BY <2>4, <2>14, <2>15, <2>16, <2>17, <2>18, <2>19, <2>20 DEF IInv
  <1>7. CASE ~Startable(c)
    <2>1. PICK a : a = Advanced
      OBVIOUS
    <2>2. stack' = <<a>> /\ life' = life
      BY <1>2, <1>4, <1>7, <2>1 DEF Pushed
    <2>3. /\ a \in FrameTypes /\ a.at = "starting" /\ a.node = Nothing /\ a.comp = Nothing /\ a.n = top.n /\ a.batch = top.batch
          /\ a.i = top.i + 1 /\ a.at \in Phases
      BY <1>1, <1>2, <1>4, <1>5, <2>1 DEF Resumed, Phases
    <2> HIDE DEF Top, Callers
    <2>4. \A d \in Rest(top, top.batch) : d = c \/ d \in Rest(a, a.batch)
      BY <1>2, <1>5, <2>3 DEF Rest
    <2>5. ~(IsOn(c) /\ c \notin startCalled)
      BY <1>3, <1>4, <1>7 DEF Startable
    <2>6. FrameOK(a)'
      <3>1. PhaseOK(top)
        BY <1>4 DEF FrameOK
      <3>2. Rest(a, a.batch) \subseteq Rest(top, top.batch)
        BY <1>5, <2>3 DEF Rest
      <3>3. PhaseOK(a)'
        BY <1>2, <2>3, <3>1, <3>2 DEF PhaseOK, compVars
      <3> QED
        BY <1>5, <2>3, <3>3, PhaseFrame
    <2>7. /\ Frames' = {a} /\ (InPass' <=> a.at \in {"updating", "lateUpdating"})
          /\ \A at \in Noted : \A d : ~In(at, d)'
      BY <2>2, <2>3, PhaseBegins
    <2>8. Flags'
      BY <1>2, <1>3, <2>2 DEF Flags, compVars
    <2>9. Lists'
      <3>1. ~InPass /\ ~InPass'
        BY <1>2, <1>4, <2>3, <2>7
      <3>2. \A d \in Comps : IsOn(d)' <=> IsOn(d)
        BY <1>2, <1>4, <2>7 DEF IsOn, Noted
      <3> QED
        BY <1>2, <1>3, <3>1, <3>2 DEF Lists, compVars
    <2>10. \A d \in Comps : d \in onEnabled \ startCalled /\ Waits(d) => Waits(d)'
      BY <1>2, <1>4, <2>3, <2>4, <2>5, <2>7 DEF Waits
    <2> QED
      BY <1>1, <1>2, <1>3, <2>2, <2>3, <2>6, <2>8, <2>9, <2>10, PhaseKeeps
  <1> QED
    BY <1>6, <1>7

LEMMA NextInPassKeeps ==
    ASSUME IInv, CallsInOrder => LateReady, NEW pass \in Passes, NextInPass(pass)
    PROVE  IInv'
  <1>1. PICK top, T, c, a : top = Top /\ T = Range(Callers) /\ c = lists[pass].now[Top.i] /\ a = Advanced
    OBVIOUS
  <1>2. /\ top.at = LoopOf(pass) /\ ~LoopEnds /\ c = lists[pass].now[top.i] /\ c \in alive
        /\ IF EnabledInHierarchy(c) THEN Enter(c, pass, Pushed(a, Callers))
           ELSE stack' = Pushed(a, Callers) /\ UNCHANGED life
        /\ UNCHANGED <<treeVars, inHierarchy, compVars, flagVars, startQueue, lists>>
    BY <1>1 DEF NextInPass, On
  <1>3. /\ Tree /\ Flags /\ Stacked /\ FramesOK /\ NodesOn /\ NodesOff /\ CompsOn /\ CompsOff /\ Lists /\ Queue /\ Lives
        /\ top.at \in Phases /\ top.at \in {"updating", "lateUpdating"} /\ c \in Comps
    BY <1>2 DEF IInv, Phases, Tree, LoopOf
  <1>4. /\ Frames = {top} /\ T = {} /\ top \in FrameTypes /\ FrameOK(top)
        /\ \A at \in Noted : \A d \in Comps : ~In(at, d)
        /\ \A m : ~GoesOff(m)
        /\ \A d \in Comps : IsOn(d) <=> d \in onEnabled
        /\ \A d \in alive : EnabledInHierarchy(d) => d \in onEnabled
    <2>1. T = {}
      BY <1>1, <1>3, Parts DEF IInv
    <2> QED
      BY <1>1, <1>3, <2>1, PhaseAlone
  <1>5. /\ Resumed(a) /\ a.i = top.i + 1 /\ top.i <= top.n /\ top.i \in Nat /\ top.n \in Nat /\ top.i >= 1
        /\ a \in FrameTypes /\ a.at = top.at /\ a.node = top.node /\ a.comp = top.comp /\ a.n = top.n
    <2>1. Resumed(a) /\ a.i = top.i + 1 /\ top.i <= top.n /\ top.i \in Nat /\ top.n \in Nat /\ top.i >= 1
      BY <1>1, <1>2, <1>3, LoopGoesOn
    <2> QED
      BY <1>1, <2>1 DEF Resumed
  <1> USE DEF flagVars
  <1>6. PICK N : /\ \A f \in N : f \in FrameTypes /\ f.at = pass /\ f.node = Nothing /\ f.comp = c /\ f.i = 1 /\ f.n = 0
                 /\ Stacked' /\ Frames' = {a} \cup N /\ SameHooks /\ (\A m : ~GoesOff(m)') /\ SameLife
    <2>1. CASE EnabledInHierarchy(c)
      <3>1. PICK f : f = HookFrame(c, pass)
        OBVIOUS
      <3>2. stack' = Pushed(f, Pushed(a, Callers)) /\ CallsHook(c, pass)
        BY <1>2, <2>1, <3>1 DEF Enter
      <3>3. f \in FrameTypes /\ f.at = pass /\ f.node = Nothing /\ f.comp = c /\ f.i = 1 /\ f.n = 0
        BY <1>3, <3>1, NewFrames DEF Hooks, Passes
      <3>4. \A g \in {a} \cup T : MayBeAbove(f, g, parent, nodeOf)
        BY <1>2, <1>4, <1>5, <3>3
           DEF MayBeAbove, Phases, Passes, NodeCalls, Activations, Deactivations, CallsOff, CompCalls, LoopOf
      <3>5. f.at \notin Noted /\ f.at \notin Deactivations /\ top.at # "starting"
        BY <1>3, <3>3 DEF Noted, Passes, Deactivations
      <3>6. /\ Stacked' /\ Frames' = {f, a} \cup T /\ SameHooks
            /\ \A m : GoesOff(m)' <=> GoesOff(m) \/ (f.at \in Deactivations /\ m = f.node)
        <4> HIDE DEF Top, Callers
        <4> QED
          BY <1>1, <1>2, <1>3, <1>5, <3>2, <3>3, <3>4, <3>5, CallsQuietly DEF treeVars, compVars
      <3> HIDE DEF Top, Callers
      <3>7. life[c].stage = "on"
        BY <1>2, <1>3, <1>4, <2>1 DEF Lives
      <3>8. CallsInOrder => life[c].started
        <4>1. SUFFICES ASSUME CallsInOrder
                       PROVE  c \in startCalled
          BY <1>3 DEF Lives
        <4>2. top.n = Len(lists[pass].now)
          BY <1>2, <1>4 DEF FrameOK, PhaseOK, LoopOf, Passes
        <4>3. Range(lists[pass].now) \subseteq startCalled
          <5>1. pass = "update" => Range(lists["update"].now) \subseteq startCalled
            BY <1>2, <1>4 DEF FrameOK, PhaseOK, LoopOf
          <5>2. pass = "lateUpdate" => "lateUpdating" \in Ats
            BY <1>2, <1>4 DEF Ats, LoopOf
          <5> QED
            BY <4>1, <5>1, <5>2 DEF LateReady, Passes
        <4>4. lists[pass].now \in Seq(Comps)
          BY <1>3 DEF Flags
        <4>5. c \in Range(lists[pass].now)
          BY <1>2, <1>5, <4>2, <4>4 DEF Range
        <4> QED
          BY <4>3, <4>5
      <3>9. SameLife
        <4>1. /\ life \in [Comps -> [stage : Stages, started : BOOLEAN, broken : BOOLEAN]]
              /\ CallsInOrder => \A d \in Comps : ~life[d].broken
          BY <1>3 DEF Flags, Lives
        <4>2. CallsInOrder => MayCall(pass, life[c])
          BY <3>7, <3>8 DEF MayCall, Passes
        <4>3. After(pass, life[c]) = life[c]
          BY DEF After, Passes
        <4>4. life' = life \/ (life' = [life EXCEPT ![c] = [life[c] EXCEPT !.broken = TRUE]] /\ ~CallsInOrder)
          <5>1. CASE MayCall(pass, life[c])
            BY <1>3, <3>2, <4>1, <4>3, <5>1, HookCalled
          <5>2. CASE ~MayCall(pass, life[c])
            BY <3>2, <4>1, <4>2, <4>3, <5>2 DEF CallsHook
          <5> QED
            BY <5>1, <5>2
        <4>5. CASE life' = life
          BY <4>1, <4>5 DEF SameLife
        <4>6. CASE life' = [life EXCEPT ![c] = [life[c] EXCEPT !.broken = TRUE]] /\ ~CallsInOrder
          <5>1. /\ [life[c] EXCEPT !.broken = TRUE].stage = life[c].stage
                /\ [life[c] EXCEPT !.broken = TRUE].started = life[c].started
                /\ [life[c] EXCEPT !.broken = TRUE] \in [stage : Stages, started : BOOLEAN, broken : BOOLEAN]
            BY <1>3, <4>1
          <5>2. life'[c] = [life[c] EXCEPT !.broken = TRUE] /\ \A d \in Comps : d # c => life'[d] = life[d]
            BY <1>3, <4>1, <4>6
          <5>3. life' \in [Comps -> [stage : Stages, started : BOOLEAN, broken : BOOLEAN]]
            BY <1>3, <4>1, <4>6, <5>1
          <5> QED
            BY <4>6, <5>1, <5>2, <5>3 DEF SameLife
        <4> QED
          BY <4>4, <4>5, <4>6
      <3>10. PICK N : N = {f}
        OBVIOUS
      <3>11. Frames' = {a} \cup N
        BY <1>4, <3>6, <3>10
      <3>12. \A m : ~GoesOff(m)'
        BY <1>4, <3>5, <3>6
      <3> QED
        BY <3>3, <3>6, <3>9, <3>10, <3>11, <3>12
    <2>2. CASE ~EnabledInHierarchy(c)
      <3>1. stack' = Pushed(a, Callers) /\ life' = life /\ top.at # "starting"
        BY <1>2, <1>3, <2>2
      <3>2. /\ Stacked' /\ Frames' = {a} \cup T /\ SameHooks
            /\ \A m : GoesOff(m)' <=> GoesOff(m)
        BY <1>1, <1>2, <1>5, <3>1, GoesOnQuietly DEF treeVars, compVars
      <3> HIDE DEF Top, Callers
      <3>3. PICK N : N = {}
        OBVIOUS
      <3>4. SameLife
        BY <1>3, <3>1 DEF Flags, Lives, SameLife
      <3> QED
        BY <1>4, <3>1, <3>2, <3>3, <3>4
    <2> QED
      BY <2>1, <2>2
  <1> HIDE DEF Top, Callers
  <1>7. \A d \in Comps : IsOn(d)' <=> IsOn(d)
    BY <1>2, <1>6 DEF IsOn, SameHooks, Noted
  <1>8. ASSUME NEW g \in Frames'
        PROVE  FrameOK(g)'
    <2>1. CASE g \in N
      BY <1>2, <1>6, <2>1
         DEF FrameOK, FrameTyped, NodeCallOK, CompCallOK, PhaseOK, NodeCalls, Activations, Deactivations,
             CompCalls, Runs, Passes, compVars
    <2>2. CASE g = a
      <3>1. FrameOK(top)'
        BY <1>2, <1>3, <1>4, <1>7, QuietFrame DEF Activations, Deactivations
      <3> QED
        BY <1>3, <1>5, <2>2, <3>1
           DEF FrameOK, FrameTyped, NodeCallOK, CompCallOK, PhaseOK, NodeCalls, Activations, Deactivations,
               CompCalls, Runs
    <2> QED
      BY <1>6, <2>1, <2>2
  <1>9. NodesOn' /\ NodesOff'
    <2>1. \A f \in Frames : f.at \notin NodeCalls
      BY <1>3, <1>4 DEF NodeCalls, Activations, Deactivations
    <2> QED
      BY <1>2, <1>3, <1>4, <1>6, <2>1, NodesUntouched DEF treeVars
  <1>10. CompsOn'
    BY <1>2, <1>3, <1>7 DEF CompsOn, EnabledInHierarchy, compVars
  <1>11. CompsOff'
    BY <1>2, <1>3, <1>4, <1>7 DEF CompsOff, EnabledInHierarchy, compVars, Tree
  <1>12. inHierarchy' \subseteq Nodes
    BY <1>2, <1>3 DEF Tree
  <1> QED
    BY <1>2, <1>6, <1>8, <1>9, <1>10, <1>11, <1>12, ToldKeeps

LEMMA UpdateReturnsKeeps ==
    ASSUME IInv, UpdateReturns
    PROVE  IInv'
  <1>1. PICK top, T : top = Top /\ T = Range(Callers)
    OBVIOUS
  <1>2. /\ top.at \in Passes /\ stack' = Callers
        /\ UNCHANGED <<treeVars, inHierarchy, compVars, flagVars, startQueue, lists, life>>
    BY <1>1 DEF UpdateReturns
  <1>3. /\ Tree /\ Flags /\ Lists /\ NodesOn /\ NodesOff /\ CompsOn /\ CompsOff /\ Frames = {top} \cup T
        /\ \A g \in Frames : g \in FrameTypes /\ FrameOK(g)
    BY <1>1, Parts
  <1>5. Stacked' /\ Frames' = T /\ SameHooks /\ \A m : GoesOff(m)' <=> GoesOff(m)
    <2>1. top.at \notin Phases /\ top.at \notin Noted /\ top.at \notin Deactivations
      BY <1>2 DEF Phases, Noted, Passes, Deactivations
    <2>2. UNCHANGED <<parent, nodeOf, startQueue>>
      BY <1>2 DEF treeVars, compVars
    <2> QED
      BY <1>1, <1>2, <2>1, <2>2, ReturnsQuietly
  <1> HIDE DEF Top, Callers
  <1> USE DEF flagVars
  <1>6. \A c \in Comps : IsOn(c)' <=> IsOn(c)
    BY <1>2, <1>5 DEF SameHooks, IsOn, Noted
  <1>7. ASSUME NEW g \in Frames'
        PROVE  FrameOK(g)'
    <2>1. FrameOK(g) /\ g \in FrameTypes
      BY <1>3, <1>5
    <2>2. \A m : IsOff(m) => IsOff(m)'
      BY <1>2, <1>5 DEF IsOff
    <2> QED
      BY <1>2, <1>3, <1>6, <2>1, <2>2, QuietFrame DEF FrameOK, NodeCallOK, CompCallOK, compVars
  <1>8. NodesOn' /\ NodesOff'
    <2>1. top.at \notin NodeCalls
      BY <1>2 DEF NodeCalls, Activations, Deactivations, Passes
    <2>2. \A f \in Frames : f.at \in NodeCalls =>
            \E g \in Frames' : g.node = f.node /\ g.at = f.at /\ (f.at = "activatingChildren" => g.i = f.i /\ g.n = f.n)
      BY <1>3, <1>5, <2>1
    <2> QED
      BY <1>2, <1>3, <1>5, <2>2, NodesUntouched DEF treeVars
  <1>9. CompsOn'
    BY <1>2, <1>3, <1>6 DEF CompsOn, EnabledInHierarchy, compVars
  <1>10. CompsOff'
    <2> SUFFICES ASSUME NEW d \in alive, EnabledInHierarchy(d), ~IsOn(d)'
                 PROVE  \E g \in Frames' : Excuses(g, d)'
      BY <1>2 DEF CompsOff, EnabledInHierarchy, compVars
    <2>1. d \in Comps /\ ~IsOn(d)
      BY <1>3, <1>6 DEF Tree
    <2>2. PICK g \in Frames : Excuses(g, d)
      BY <1>3, <2>1 DEF CompsOff
    <2>3. g # top
      BY <1>2, <2>2 DEF Excuses, Passes
    <2> QED
      BY <1>2, <1>3, <1>5, <2>2, <2>3 DEF Excuses, treeVars, compVars
  <1>11. inHierarchy' \subseteq Nodes
    BY <1>2, <1>3 DEF Tree
  <1> QED
    BY <1>2, <1>5, <1>7, <1>8, <1>9, <1>10, <1>11, QuietKeeps
-----------------------------------------------------------------------------
(* The return of start, and the end of a frame.                               *)

LEMMA StartReturnsKeeps ==
    ASSUME IInv, StartReturns
    PROVE  IInv'
  <1>1. PICK top, T, x, g : top = Top /\ T = Range(Callers) /\ x = Top.comp /\ g = Callers[1]
    OBVIOUS
  <1>2. PICK h : h = [g EXCEPT !.i = @ + 1]
    OBVIOUS
  <1>3. /\ top.at = "start" /\ top.comp = x /\ startCalled' = startCalled \cup {x}
        /\ stack' = Pushed(h, Tail(Callers))
        /\ UNCHANGED <<treeVars, inHierarchy, compVars, onLoaded, onEnabled, startQueue, lists, life>>
    BY <1>1, <1>2 DEF StartReturns, On
  <1>4. /\ Tree /\ Flags /\ Stacked /\ Lists /\ Queue /\ Lives /\ NodesOn /\ NodesOff /\ CompsOn /\ CompsOff
        /\ Frames = {top} \cup T /\ \A f \in Frames : f \in FrameTypes /\ FrameOK(f)
        /\ \A f \in T : MayBeAbove(top, f, parent, nodeOf)
    BY <1>1, Parts
  <1>5. Callers \in Seq(FrameTypes) /\ Callers # <<>> /\ Nested(Callers, parent, nodeOf)
    BY <1>1, <1>3, <1>4, Context DEF Phases
  <1>6. \A f \in T : f.at = "starting" /\ f.i <= f.n /\ x = f.batch[f.i]
    BY <1>3, <1>4 DEF MayBeAbove
  <1>7. Tail(Callers) = <<>> /\ T = {g}
    <2>1. PICK s, t : s = Callers /\ t = Tail(Callers)
      OBVIOUS
    <2>2. s \in Seq(FrameTypes) /\ s # <<>> /\ s[1] = g /\ Range(s) = T /\ Nested(s, parent, nodeOf)
      BY <1>1, <1>5, <2>1
    <2>3. Tail(s) = t
      BY <2>1
    <2> HIDE DEF Callers, Top
    <2>4. g \in FrameTypes /\ t \in Seq(FrameTypes) /\ s = Pushed(g, t) /\ T = {g} \cup Range(t)
      BY <2>2, <2>3, TopFacts
    <2>5. t = <<>>
      <3> SUFFICES ASSUME t # <<>>
                   PROVE  FALSE
        OBVIOUS
      <3>1. \A f \in Range(t) : MayBeAbove(g, f, parent, nodeOf)
        BY <2>2, <2>4, NestedPushed
      <3>2. PICK f \in Range(t) : TRUE
        <4>1. Range(t) # {}
          BY <2>4, EmptyRange
        <4> QED
          BY <4>1
      <3>3. g \in T
        BY <2>4
      <3> QED
        BY <1>6, <3>1, <3>2, <3>3 DEF MayBeAbove, Phases
    <2>6. Range(t) = {}
      BY <2>5 DEF Range
    <2> QED
      BY <2>1, <2>4, <2>5, <2>6
  <1>8. /\ g.at = "starting" /\ g.i <= g.n /\ x = g.batch[g.i] /\ g \in Frames /\ g \in FrameTypes /\ FrameOK(g)
        /\ Frames = {top, g}
    BY <1>4, <1>6, <1>7
  <1>9. /\ h \in FrameTypes /\ h.at = "starting" /\ h.i = g.i + 1 /\ h.n = g.n /\ h.batch = g.batch
        /\ h.node = Nothing /\ h.comp = Nothing /\ h.i >= 1 /\ h.i <= h.n + 1 /\ h.at \in Phases
        /\ g.i \in Nat /\ g.n \in Nat /\ g.i >= 1
    <2>1. g.node = Nothing /\ g.comp = Nothing /\ g.i >= 1
      BY <1>8 DEF FrameOK, FrameTyped, NodeCalls, Activations, Deactivations, CompCalls, Runs
    <2>2. h = [g EXCEPT !.i = g.i + 1] /\ g.i \in Nat /\ g.n \in Nat
      BY <1>2, <1>8 DEF FrameTypes
    <2>3. h \in FrameTypes /\ h.at = "starting" /\ h.i = g.i + 1 /\ h.n = g.n /\ h.batch = g.batch /\ h.node = g.node /\ h.comp = g.comp
      BY <1>8, <2>2 DEF FrameTypes
    <2> QED
      BY <1>8, <2>1, <2>2, <2>3 DEF Phases
  <1>10. stack' = <<h>>
    <2>1. \A t : t = <<>> => Pushed(h, t) = <<h>>
      BY <1>9 DEF Pushed
    <2>2. stack' = Pushed(h, Tail(Callers))
      BY <1>1, <1>2, <1>3
    <2> QED
      BY <1>7, <2>1, <2>2
  <1>11. /\ Stacked' /\ Frames' = {h}
         /\ \A at \in Noted : \A d : ~In(at, d)'
         /\ \A m : ~GoesOff(m)'
         /\ InPass' <=> h.at \in {"updating", "lateUpdating"}
    BY <1>9, <1>10, PhaseBegins
  <1> HIDE DEF Top, Callers
  <1>12. x \in Comps /\ x \in alive /\ x \in created
    BY <1>3, <1>4 DEF FrameOK, FrameTyped, Runs, Tree
  <1>13. /\ \A at \in Noted : \A d \in Comps : In(at, d) <=> at = "start" /\ d = x
         /\ \A m : ~GoesOff(m)
    BY <1>3, <1>8 DEF In, GoesOff, Deactivations, Noted
  <1>14. ~InPass /\ ~InPass'
    BY <1>3, <1>8, <1>9, <1>11, InPassFrames DEF PassCalls, Passes
  <1>15. \A d \in Comps : IsOn(d)' <=> IsOn(d)
    BY <1>3, <1>11, <1>13 DEF IsOn, Noted
  <1>16. Tree' /\ Flags'
    BY <1>3, <1>4, <1>12 DEF Tree, Flags, treeVars, compVars
  <1>17. Lists'
    BY <1>3, <1>4, <1>14, <1>15 DEF Lists, compVars
  <1>18. startQueue = <<>> /\ Range(startQueue) = {}
    BY <1>8 DEF FrameOK, PhaseOK, Range
  <1>19. Queue'
    <2>1. ASSUME NEW d \in Comps, IsOn(d), d \notin startCalled'
          PROVE  Waits(d)'
      <3>1. d \notin startCalled /\ d # x
        BY <1>3, <2>1
      <3>2. Waits(d)
        BY <1>4, <2>1, <3>1 DEF Queue
      <3>3. d \in Rest(g, g.batch)
        BY <1>3, <1>8, <1>18, <3>2 DEF Waits
      <3>4. d \in Rest(h, h.batch)
        BY <1>8, <1>9, <3>1, <3>3 DEF Rest
      <3> QED
        BY <1>9, <1>11, <3>4 DEF Waits
    <2> QED
      BY <1>3, <1>15, <1>18, <2>1 DEF Queue
  <1>20. Lives'
    BY <1>3, <1>4, <1>11, <1>13, <1>15 DEF Lives, Noted, compVars
  <1>21. FramesOK'
    <2>1. PhaseOK(g)
      BY <1>8 DEF FrameOK
    <2>2. Rest(h, h.batch) \subseteq Rest(g, g.batch)
      BY <1>9 DEF Rest
    <2>3. PhaseOK(h)'
      BY <1>3, <1>8, <1>9, <2>1, <2>2 DEF PhaseOK, compVars
    <2>4. FrameOK(h)'
      BY <1>9, <2>3, PhaseFrame
    <2> QED
      BY <1>11, <2>4 DEF FramesOK, FrameOK
  <1>22. NodesOn' /\ NodesOff'
    <2>1. \A f \in Frames : f.at \notin NodeCalls
      BY <1>3, <1>8 DEF NodeCalls, Activations, Deactivations
    <2> QED
      BY <1>3, <1>4, <1>11, <1>13, <2>1, NodesUntouched DEF treeVars
  <1>23. CompsOn'
    BY <1>3, <1>4, <1>15 DEF CompsOn, EnabledInHierarchy, compVars
  <1>24. CompsOff'
    <2>1. \A d : ~Excuses(top, d) /\ ~Excuses(g, d)
      BY <1>3, <1>8 DEF Excuses
    <2>2. \A d \in alive : d \in Comps
      BY <1>4 DEF Tree
    <2> QED
      BY <1>3, <1>4, <1>8, <1>15, <2>1, <2>2 DEF CompsOff, EnabledInHierarchy, compVars
  <1> QED
    BY <1>11, <1>16, <1>17, <1>19, <1>20, <1>21, <1>22, <1>23, <1>24 DEF IInv

LEMMA EndFrameKeeps ==
    ASSUME IInv, EndFrame
    PROVE  IInv'
  <1>1. PICK top, f : top = Top /\ f = Frame("scene")
    OBVIOUS
  <1>2. /\ top.at = "lateUpdating" /\ stack' = <<f>> /\ ApplyPending
        /\ children' = [n \in Nodes |-> Without(children[n], doomed)]
        /\ alive' = {c \in alive : nodeOf[c] \notin doomed}
        /\ comps' = [n \in Nodes |-> IF n \in doomed THEN <<>> ELSE comps[n]]
        /\ UNCHANGED <<parent, active, doomed, inHierarchy, nodeOf, enabled, created, flagVars, startQueue, life>>
    BY <1>1 DEF EndFrame, On
  <1>3. Tree /\ Flags /\ Lists /\ Queue /\ Lives /\ top.at \in Phases
    BY <1>2 DEF IInv, Phases
  <1>4. /\ \A at \in Noted : \A d \in Comps : ~In(at, d)
        /\ \A d \in Comps : IsOn(d) <=> d \in onEnabled
        /\ \A m \in inHierarchy \ {Root} : m \in active /\ parent[m] = Root /\ Root \in inHierarchy
        /\ \A m \in active \ {Root} : parent[m] = Root /\ Root \in inHierarchy => m \in inHierarchy
        /\ \A d \in alive : EnabledInHierarchy(d) => d \in onEnabled
        /\ \A d \in Comps : d \in onEnabled => EnabledInHierarchy(d) /\ d \in alive
        /\ \A d : Waits(d) <=> d \in Range(startQueue) \/ (top.at = "starting" /\ d \in Rest(top, top.batch))
    BY <1>1, <1>3, PhaseAlone
  <1>5. f \in FrameTypes /\ f.at = "scene" /\ f.node = Nothing /\ f.comp = Nothing /\ f.i = 1 /\ f.n = 0 /\ f.at \in Phases
    BY <1>1, LoopFrames DEF Phases
  <1>6. /\ Stacked' /\ Frames' = {f}
        /\ \A at \in Noted : \A d : ~In(at, d)'
        /\ \A m : ~GoesOff(m)'
        /\ InPass' <=> f.at \in {"updating", "lateUpdating"}
    BY <1>2, <1>5, PhaseBegins
  <1> HIDE DEF Top, Callers
  <1> USE DEF flagVars
  <1>7. \A d \in Comps : IsOn(d)' <=> IsOn(d)
    BY <1>2, <1>4, <1>6 DEF IsOn, Noted
  <1>8. Lists' /\ lists' \in [Passes -> [now : Seq(Comps), add : Seq(Comps), remove : Seq(Comps)]]
    <2>1. ~InPass'
      BY <1>5, <1>6
    <2> QED
      BY <1>2, <1>3, <1>7, <2>1, Applying
  <1>9. onEnabled \subseteq alive'
    <2> SUFFICES ASSUME NEW d \in onEnabled
                 PROVE  d \in alive'
      OBVIOUS
    <2>1. d \in Comps /\ d \in alive
      BY <1>3 DEF Flags, Tree
    <2>2. nodeOf[d] \in inHierarchy
      BY <1>4, <2>1 DEF EnabledInHierarchy
    <2>3. nodeOf[d] \notin doomed
      BY <1>3, <1>4, <2>2 DEF Tree
    <2> QED
      BY <1>2, <2>1, <2>3
  <1>10. Flags'
    BY <1>2, <1>3, <1>8, <1>9 DEF Flags
  <1>11. \A m \in Nodes : /\ children'[m] \in Seq(Nodes) /\ IsInjective(children'[m])
                          /\ Range(children'[m]) = Range(children[m]) \ doomed
                          /\ comps'[m] \in Seq(Comps) /\ IsInjective(comps'[m])
                          /\ Range(comps'[m]) = IF m \in doomed THEN {} ELSE Range(comps[m])
    <2> TAKE m \in Nodes
    <2>1. /\ children[m] \in Seq(Nodes) /\ IsInjective(children[m]) /\ comps[m] \in Seq(Comps) /\ IsInjective(comps[m])
          /\ children'[m] = Without(children[m], doomed) /\ comps'[m] = IF m \in doomed THEN <<>> ELSE comps[m]
      BY <1>2, <1>3 DEF Tree
    <2>2. children'[m] \in Seq(Nodes) /\ IsInjective(children'[m]) /\ Range(children'[m]) = Range(children[m]) \ doomed
      BY <2>1, WithoutFacts
    <2>3. Range(<<>>) = {} /\ IsInjective(<<>>) /\ <<>> \in Seq(Comps)
      BY DEF Range, IsInjective
    <2> QED
      BY <2>1, <2>2, <2>3
  <1>12. Tree'
    <2>1. comps' \in [Nodes -> Seq(Comps)] /\ children' \in [Nodes -> Seq(Nodes)]
      <3>1. comps' = [m \in Nodes |-> comps'[m]] /\ children' = [m \in Nodes |-> children'[m]]
        BY <1>2
      <3> QED
        BY <1>11, <3>1
    <2>2. alive' \subseteq created /\ alive' \subseteq alive
      BY <1>2, <1>3 DEF Tree
    <2>3. \A m \in Nodes \ {Root} : children'[m] = <<>>
      <3> TAKE m \in Nodes \ {Root}
      <3>1. Range(children[m]) = {}
        BY <1>3 DEF Tree, Range
      <3> QED
        BY <1>11, <3>1, EmptyRange
    <2>4. /\ \A m \in Range(children'[Root]) : parent'[m] = Root
          /\ \A m \in Nodes \ doomed' : parent'[m] = Root => m \in Range(children'[Root])
      BY <1>2, <1>3, <1>11, LifecycleAssumption DEF Tree
    <2>5. \A d \in alive' : nodeOf'[d] \in Nodes /\ d \in Range(comps'[nodeOf'[d]])
      <3> TAKE d \in alive'
      <3>1. d \in alive /\ nodeOf[d] \notin doomed /\ nodeOf'[d] = nodeOf[d]
        BY <1>2
      <3>2. nodeOf[d] \in Nodes /\ d \in Range(comps[nodeOf[d]])
        BY <1>3, <3>1 DEF Tree
      <3> QED
        BY <1>11, <3>1, <3>2
    <2>6. \A m \in Nodes : \A d \in Range(comps'[m]) : d \in alive' /\ nodeOf'[d] = m
      <3> TAKE m \in Nodes
      <3> TAKE d \in Range(comps'[m])
      <3>1. m \notin doomed /\ d \in Range(comps[m])
        BY <1>11
      <3>2. d \in alive /\ nodeOf[d] = m
        BY <1>3, <3>1 DEF Tree
      <3> QED
        BY <1>2, <3>1, <3>2
    <2> QED
      BY <1>2, <1>3, <1>11, <2>1, <2>2, <2>3, <2>4, <2>5, <2>6 DEF Tree
  <1>13. FramesOK'
    <2>1. PhaseOK(f)'
      BY <1>5 DEF PhaseOK
    <2>2. FrameOK(f)'
      BY <1>5, <2>1, PhaseFrame
    <2> QED
      BY <1>6, <2>2 DEF FramesOK, FrameOK
  <1>14. NodesOn' /\ NodesOff'
    BY <1>2, <1>4, <1>6 DEF NodesOn, NodesOff
  <1>15. CompsOn' /\ CompsOff'
    <2>1. \A d \in alive' : d \in alive /\ d \in Comps
      BY <1>2, <1>3 DEF Tree
    <2> QED
      BY <1>2, <1>4, <1>7, <2>1 DEF CompsOn, CompsOff, EnabledInHierarchy
  <1>16. Queue'
    <2>1. \A d \in Range(startQueue) : d \in Comps
      BY <1>3 DEF Flags, Range
    <2>2. \A d : Waits(d) => Waits(d)'
      BY <1>2, <1>4 DEF Waits
    <2> QED
      BY <1>2, <1>3, <1>7, <2>1, <2>2 DEF Queue
  <1>17. Lives'
    BY <1>2, <1>3, <1>4, <1>6, <1>7 DEF Lives, Noted
  <1> QED
    BY <1>6, <1>8, <1>10, <1>12, <1>13, <1>14, <1>15, <1>16, <1>17 DEF IInv
-----------------------------------------------------------------------------
(* Between the starts and lateUpdate nothing is switched on, if CallsInOrder. *)

LEMMA InOrderIsSafe == CallsInOrder => CallsSafely
  BY DEF CallsInOrder, CallsSafely, MayDoInOrder, MayDoSafely, GameCode, Hooks, SwitchesOn, SwitchesOff, OpNames

AtsOf(s) == {f.at : f \in Range(s)}

LEMMA AtsPushed ==
    ASSUME NEW S, NEW f, NEW t \in Seq(S)
    PROVE  Pushed(f, t) \in Seq(S \cup {f}) /\ AtsOf(Pushed(f, t)) = {f.at} \cup AtsOf(t)
  <1>1. f \in S \cup {f} /\ t \in Seq(S \cup {f})
    OBVIOUS
  <1>2. Pushed(f, t) \in Seq(S \cup {f}) /\ Range(Pushed(f, t)) = {f} \cup Range(t)
    BY <1>1, PushedFacts, ZenonT(60)
  <1> QED
    BY <1>2 DEF AtsOf

LEMMA StackAts ==
    ASSUME Stacked
    PROVE  /\ Callers \in Seq(FrameTypes) /\ Ats = {Top.at} \cup AtsOf(Callers) /\ Ats' = AtsOf(stack')
           /\ stack \in Seq(FrameTypes) /\ AtsOf(stack) = Ats
           /\ Pushed(Advanced, Callers) \in Seq(FrameTypes \cup {Advanced}) /\ AtsOf(Pushed(Advanced, Callers)) = Ats
           /\ Caller \in Seq(FrameTypes \cup {[Top EXCEPT !.used = @ + 1]}) /\ AtsOf(Caller) = Ats
  <1>1. Callers \in Seq(FrameTypes) /\ Top \in FrameTypes /\ Frames = {Top} \cup Range(Callers)
    BY Context
  <1>2. Ats = {Top.at} \cup AtsOf(Callers) /\ Ats' = AtsOf(stack') /\ AtsOf(stack) = Ats
    BY <1>1 DEF Ats, AtsOf, Frames
  <1>3. stack \in Seq(FrameTypes)
    BY DEF Stacked
  <1>4. Advanced.at = Top.at /\ [Top EXCEPT !.used = @ + 1].at = Top.at
    BY <1>1 DEF Advanced, FrameTypes
  <1> HIDE DEF Callers
  <1>5. ASSUME NEW a, a.at = Top.at
        PROVE  Pushed(a, Callers) \in Seq(FrameTypes \cup {a}) /\ AtsOf(Pushed(a, Callers)) = Ats
    <2>1. Pushed(a, Callers) \in Seq(FrameTypes \cup {a}) /\ AtsOf(Pushed(a, Callers)) = {a.at} \cup AtsOf(Callers)
      BY <1>1, AtsPushed
    <2> QED
      BY <1>2, <1>5, <2>1
  <1>6. Caller \in Seq(FrameTypes \cup {[Top EXCEPT !.used = @ + 1]}) /\ AtsOf(Caller) = Ats
    BY <1>4, <1>5 DEF Caller
  <1>7. Pushed(Advanced, Callers) \in Seq(FrameTypes \cup {Advanced}) /\ AtsOf(Pushed(Advanced, Callers)) = Ats
    BY <1>4, <1>5
  <1> QED
    BY <1>1, <1>2, <1>3, <1>6, <1>7

\* Which calls the beginning of a call puts on its callers.
LEMMA AtsOfHook ==
    ASSUME NEW S, NEW callers \in Seq(S), NEW c, NEW hook, Enter(c, hook, callers)
    PROVE  AtsOf(stack') = {hook} \cup AtsOf(callers)
  <1>1. PICK f : f = HookFrame(c, hook)
    OBVIOUS
  <1>2. f.at = hook
    BY <1>1 DEF HookFrame, Frame
  <1>3. AtsOf(Pushed(f, callers)) = {f.at} \cup AtsOf(callers)
    BY AtsPushed
  <1> QED
    BY <1>1, <1>2, <1>3 DEF Enter

LEMMA AtsOfNodeCall ==
    ASSUME NEW S, NEW callers \in Seq(S), NEW at, NEW node, NEW n, stack' = Pushed(NodeFrame(at, node, n), callers)
    PROVE  AtsOf(stack') = {at} \cup AtsOf(callers)
  <1>1. PICK f : f = NodeFrame(at, node, n)
    OBVIOUS
  <1>2. f.at = at
    BY <1>1 DEF NodeFrame, Frame
  <1>3. AtsOf(Pushed(f, callers)) = {f.at} \cup AtsOf(callers)
    BY AtsPushed
  <1> QED
    BY <1>1, <1>2, <1>3

LEMMA AtsOfBeginnings ==
    ASSUME NEW S, NEW callers \in Seq(S), NEW x
    PROVE  /\ BeginActivateComp(x, x \in enabled, callers) \/ BeginActivateComp(x, TRUE, callers)
              \/ EnableOrReturn(x, x \in enabled, callers)
                => AtsOf(stack') \subseteq {"onLoad", "onEnable"} \cup AtsOf(callers)
           /\ BeginDeactivateComp(x, callers) => AtsOf(stack') \subseteq {"onDisable"} \cup AtsOf(callers)
           /\ BeginActivate(x, callers) \/ BeginSwitch(x, TRUE, callers)
                => AtsOf(stack') \subseteq {"activating"} \cup AtsOf(callers)
           /\ BeginDeactivate(x, callers) \/ BeginSwitch(x, FALSE, callers)
                => AtsOf(stack') \subseteq {"deactivatingChildren"} \cup AtsOf(callers)
  <1>1. ASSUME NEW hook, Enter(x, hook, callers)
        PROVE  AtsOf(stack') = {hook} \cup AtsOf(callers)
    BY <1>1, AtsOfHook
  <1>2. ASSUME BeginActivateComp(x, x \in enabled, callers) \/ BeginActivateComp(x, TRUE, callers)
               \/ EnableOrReturn(x, x \in enabled, callers)
        PROVE  AtsOf(stack') \subseteq {"onLoad", "onEnable"} \cup AtsOf(callers)
    <2>1. Enter(x, "onLoad", callers) \/ Enter(x, "onEnable", callers) \/ stack' = callers
      BY <1>2 DEF BeginActivateComp, EnableOrReturn
    <2> QED
      BY <1>1, <2>1
  <1>3. ASSUME BeginDeactivateComp(x, callers)
        PROVE  AtsOf(stack') \subseteq {"onDisable"} \cup AtsOf(callers)
    <2>1. Enter(x, "onDisable", callers) \/ stack' = callers
      BY <1>3 DEF BeginDeactivateComp
    <2> QED
      BY <1>1, <2>1
  <1>4. BeginActivate(x, callers) => AtsOf(stack') = {"activating"} \cup AtsOf(callers)
    BY AtsOfNodeCall DEF BeginActivate
  <1>5. BeginDeactivate(x, callers) => AtsOf(stack') = {"deactivatingChildren"} \cup AtsOf(callers)
    BY AtsOfNodeCall DEF BeginDeactivate
  <1>6. BeginSwitch(x, TRUE, callers) => BeginActivate(x, callers) \/ stack' = callers
    BY DEF BeginSwitch
  <1>7. BeginSwitch(x, FALSE, callers) => BeginDeactivate(x, callers) \/ stack' = callers
    BY DEF BeginSwitch
  <1> QED
    BY <1>2, <1>3, <1>4, <1>5, <1>6, <1>7

\* A step that begins calls, and no phase.
LEMMA LateStep ==
    ASSUME LateReady, NEW New, Ats' \subseteq Ats \cup New, New \cap Phases = {},
           Late => New \subseteq LateCalls,
           startQueue = <<>> /\ Late => startQueue' = <<>>,
           "lateUpdating" \in Ats => lists'["lateUpdate"].now = lists["lateUpdate"].now,
           startCalled \subseteq startCalled'
    PROVE  LateReady'
  <1>1. Late' => Late
    BY DEF Late, Phases
  <1>2. "lateUpdating" \in Ats' => "lateUpdating" \in Ats
    BY DEF Phases
  <1> QED
    BY <1>1, <1>2 DEF LateReady

\* A step that ends calls.
LEMMA LateReturn ==
    ASSUME LateReady, Ats' \subseteq Ats, UNCHANGED <<startQueue, lists>>, startCalled \subseteq startCalled'
    PROVE  LateReady'
  <1>1. PICK New : New = {}
    OBVIOUS
  <1> QED
    BY <1>1, LateStep

\* What switching a component off leaves of the queue and the pass.
LEMMA OffLate ==
    ASSUME Stacked, Flags, NEW c, NEW callers, BeginDeactivateComp(c, callers)
    PROVE  /\ startQueue = <<>> => startQueue' = <<>>
           /\ "lateUpdating" \in Ats => lists'["lateUpdate"].now = lists["lateUpdate"].now
  <1>1. startQueue = <<>> => startQueue' = <<>>
    <2>1. startQueue \in Seq(Comps)
      BY DEF Flags
    <2>2. Without(startQueue, {c}) \in Seq(Comps) /\ Range(Without(startQueue, {c})) = Range(startQueue) \ {c}
      BY <2>1, WithoutFacts
    <2>3. startQueue = <<>> => Without(startQueue, {c}) = <<>>
      BY <2>1, <2>2, EmptyRange
    <2> QED
      BY <2>3 DEF BeginDeactivateComp
  <1>2. "lateUpdating" \in Ats => InPass
    BY DEF Ats, InPass, Frames, Range
  <1>3. lists \in [Passes -> [now : Seq(Comps), add : Seq(Comps), remove : Seq(Comps)]]
    BY DEF Flags
  <1>4. InPass /\ Unschedule(c) => lists'["lateUpdate"].now = lists["lateUpdate"].now
    BY <1>3 DEF Unschedule, Unscheduled, Passes
  <1> QED
    BY <1>1, <1>2, <1>4 DEF BeginDeactivateComp

LEMMA AtsOfSwitch ==
    ASSUME NEW S, NEW callers \in Seq(S), NEW node, NEW on \in BOOLEAN, BeginSwitch(node, on, callers)
    PROVE  /\ AtsOf(stack') \subseteq {"activating", "deactivatingChildren"} \cup AtsOf(callers)
           /\ ~on => AtsOf(stack') \subseteq {"deactivatingChildren"} \cup AtsOf(callers)
  <1>1. stack' = callers \/ (BeginActivate(node, callers) /\ on) \/ BeginDeactivate(node, callers)
    BY DEF BeginSwitch
  <1> QED
    BY <1>1, AtsOfBeginnings
-----------------------------------------------------------------------------
(* Each step keeps what lateUpdate relies on.                                 *)

\* Where something is switched on, no phase before lateUpdate is in progress.
LEMMA NotLate ==
    ASSUME LateReady, NEW at \in Ats, at \notin LateCalls
    PROVE  ~Late
  BY DEF LateReady

LEMMA ActivationsLate ==
    ASSUME IInv, LateReady, ActivateNextComp \/ ActivateChildren \/ ActivateNextChild \/ ActivateReturns
    PROVE  LateReady'
  <1>0. PICK T, top, A, S : T = Callers /\ top = Top /\ A = Pushed(Advanced, Callers) /\ S = FrameTypes \cup {Advanced}
    OBVIOUS
  <1>1. /\ T \in Seq(FrameTypes) /\ Ats = {top.at} \cup AtsOf(T) /\ Ats' = AtsOf(stack')
        /\ A \in Seq(S) /\ AtsOf(A) = Ats
    BY <1>0, StackAts DEF IInv
  <1>2. top.at \in Activations
    BY <1>0 DEF ActivateNextComp, ActivateChildren, ActivateNextChild, ActivateReturns, On, Activations
  <1>3. ~Late
    BY <1>1, <1>2, NotLate DEF LateCalls, CallsOff, Activations, Deactivations
  <1>4. PICK New : New = {"onLoad", "onEnable", "activating", "activatingChildren"}
    OBVIOUS
  <1>5. New \cap Phases = {}
    BY <1>4 DEF Phases
  <1>6. AtsOf(stack') \subseteq Ats \cup New
    <2>1. CASE ActivateNextComp
      <3>1. PICK c : BeginActivateComp(c, c \in enabled, A)
        BY <1>0, <2>1 DEF ActivateNextComp
      <3> QED
        BY <1>1, <1>4, <3>1, AtsOfBeginnings
    <2>2. CASE ActivateChildren
      <3>1. PICK node, n : stack' = Pushed(NodeFrame("activatingChildren", node, n), T)
        BY <1>0, <2>2 DEF ActivateChildren
      <3> QED
        BY <1>1, <1>4, <3>1, AtsOfNodeCall
    <2>3. CASE ActivateNextChild
      <3>1. PICK node : BeginActivate(node, A) \/ stack' = A
        BY <1>0, <2>3 DEF ActivateNextChild
      <3> QED
        BY <1>1, <1>4, <3>1, AtsOfBeginnings
    <2>4. CASE ActivateReturns
      BY <1>0, <1>1, <2>4 DEF ActivateReturns
    <2> QED
      BY <2>1, <2>2, <2>3, <2>4
  <1>7. UNCHANGED <<lists, startCalled>>
    BY DEF ActivateNextComp, ActivateChildren, ActivateNextChild, ActivateReturns, flagVars
  <1> QED
    BY <1>1, <1>3, <1>5, <1>6, <1>7, LateStep

LEMMA DeactivationsLate ==
    ASSUME IInv, LateReady, DeactivateNextChild \/ DeactivateComps \/ DeactivateNextComp \/ DeactivateReturns
    PROVE  LateReady'
  <1>0. PICK T, top, A, S : T = Callers /\ top = Top /\ A = Pushed(Advanced, Callers) /\ S = FrameTypes \cup {Advanced}
    OBVIOUS
  <1>1. /\ T \in Seq(FrameTypes) /\ Ats = {top.at} \cup AtsOf(T) /\ Ats' = AtsOf(stack')
        /\ A \in Seq(S) /\ AtsOf(A) = Ats
    BY <1>0, StackAts DEF IInv
  <1>2. CallsOff \cap Phases = {} /\ CallsOff \subseteq LateCalls
    BY DEF CallsOff, Deactivations, Phases, LateCalls
  <1>3. AtsOf(stack') \subseteq Ats \cup CallsOff
    <2>1. CASE DeactivateNextComp
      <3>1. PICK c : BeginDeactivateComp(c, A)
        BY <1>0, <2>1 DEF DeactivateNextComp
      <3> QED
        BY <1>1, <3>1, AtsOfBeginnings DEF CallsOff
    <2>2. CASE DeactivateComps
      <3>1. PICK node, n : stack' = Pushed(NodeFrame("deactivating", node, n), T)
        BY <1>0, <2>2 DEF DeactivateComps
      <3> QED
        BY <1>1, <3>1, AtsOfNodeCall DEF CallsOff, Deactivations
    <2>3. CASE DeactivateNextChild
      <3>1. PICK node : BeginDeactivate(node, A) \/ stack' = A
        BY <1>0, <2>3 DEF DeactivateNextChild
      <3> QED
        BY <1>1, <3>1, AtsOfBeginnings DEF CallsOff, Deactivations
    <2>4. CASE DeactivateReturns
      BY <1>0, <1>1, <2>4 DEF DeactivateReturns
    <2> QED
      BY <2>1, <2>2, <2>3, <2>4
  <1>4. /\ startQueue = <<>> => startQueue' = <<>>
        /\ "lateUpdating" \in Ats => lists'["lateUpdate"].now = lists["lateUpdate"].now
    <2>1. CASE DeactivateNextComp
      <3>1. PICK c, s : BeginDeactivateComp(c, s)
        BY <2>1 DEF DeactivateNextComp
      <3> QED
        BY <3>1, OffLate DEF IInv
    <2>2. CASE ~DeactivateNextComp
      BY <2>2 DEF DeactivateNextChild, DeactivateComps, DeactivateReturns
    <2> QED
      BY <2>1, <2>2
  <1>5. startCalled' = startCalled
    BY DEF DeactivateNextChild, DeactivateComps, DeactivateNextComp, DeactivateReturns, flagVars
  <1> QED
    BY <1>1, <1>2, <1>3, <1>4, <1>5, LateStep

LEMMA HooksLate ==
    ASSUME IInv, LateReady, OnLoadReturns \/ OnEnableReturns \/ OnDisableReturns \/ CallOnDestroy \/ OnDestroyReturns
    PROVE  LateReady'
  <1>0. PICK T, top : T = Callers /\ top = Top
    OBVIOUS
  <1>1. T \in Seq(FrameTypes) /\ Ats = {top.at} \cup AtsOf(T) /\ Ats' = AtsOf(stack')
    BY <1>0, StackAts DEF IInv
  <1>2. CASE OnLoadReturns
    <2>1. ~Late
      BY <1>0, <1>1, <1>2, NotLate DEF OnLoadReturns, On, LateCalls, CallsOff, Deactivations
    <2>2. PICK c : EnableOrReturn(c, c \in enabled, T)
      BY <1>0, <1>2 DEF OnLoadReturns
    <2>3. AtsOf(stack') \subseteq Ats \cup {"onLoad", "onEnable"}
      BY <1>1, <2>2, AtsOfBeginnings
    <2>4. UNCHANGED <<lists, startCalled>> /\ {"onLoad", "onEnable"} \cap Phases = {}
      BY <1>2 DEF OnLoadReturns, Phases
    <2> QED
      BY <1>1, <2>1, <2>3, <2>4, LateStep
  <1>3. CASE OnEnableReturns
    <2>0. PICK New : New = {}
      OBVIOUS
    <2>1. ~Late
      BY <1>0, <1>1, <1>3, NotLate DEF OnEnableReturns, On, LateCalls, CallsOff, Deactivations
    <2>2. AtsOf(stack') \subseteq Ats \cup New /\ startCalled' = startCalled
      BY <1>0, <1>1, <1>3 DEF OnEnableReturns
    <2>3. "lateUpdating" \in Ats => lists'["lateUpdate"].now = lists["lateUpdate"].now
      <3>1. "lateUpdating" \in Ats => InPass
        BY DEF Ats, InPass, Frames, Range
      <3>2. lists \in [Passes -> [now : Seq(Comps), add : Seq(Comps), remove : Seq(Comps)]]
        BY DEF IInv, Flags
      <3>3. PICK c : Schedule(c)
        BY <1>3 DEF OnEnableReturns
      <3>4. lists'["lateUpdate"] \in {lists["lateUpdate"], Rescheduled(lists["lateUpdate"], c)}
        BY <3>3 DEF Schedule, Passes
      <3>5. lists["lateUpdate"] \in [now : Seq(Comps), add : Seq(Comps), remove : Seq(Comps)]
        BY <3>2 DEF Passes
      <3>6. PICK list : list = lists["lateUpdate"]
        OBVIOUS
      <3>7. InPass => Rescheduled(list, c).now = list.now
        BY <3>5, <3>6 DEF Rescheduled
      <3> QED
        BY <3>1, <3>4, <3>6, <3>7
    <2>4. New \cap Phases = {} /\ startCalled \subseteq startCalled' /\ Ats' \subseteq Ats \cup New
      BY <1>1, <2>0, <2>2
    <2> QED
      BY <2>1, <2>3, <2>4, LateStep
  <1>4. CASE OnDisableReturns \/ OnDestroyReturns
    <2>1. stack' = T
      BY <1>0, <1>4 DEF OnDisableReturns, OnDestroyReturns
    <2>2. UNCHANGED <<startCalled, startQueue, lists>>
      <3>1. CASE OnDisableReturns
        BY <3>1 DEF OnDisableReturns
      <3>2. CASE OnDestroyReturns
        BY <3>2 DEF OnDestroyReturns, flagVars
      <3> QED
        BY <1>4, <3>1, <3>2
    <2> QED
      BY <1>1, <2>1, <2>2, LateReturn
  <1>5. CASE CallOnDestroy
    <2>1. PICK c : Enter(c, "onDestroy", T)
      BY <1>0, <1>5 DEF CallOnDestroy
    <2>2. AtsOf(stack') \subseteq Ats \cup {"onDestroy"}
      BY <1>1, <2>1, AtsOfHook
    <2>3. UNCHANGED <<startCalled, startQueue, lists>> /\ {"onDestroy"} \cap Phases = {} /\ {"onDestroy"} \subseteq LateCalls
      BY <1>5 DEF CallOnDestroy, flagVars, Phases, LateCalls
    <2> QED
      BY <1>1, <2>2, <2>3, LateStep
  <1> QED
    BY <1>2, <1>3, <1>4, <1>5

\* The loops of a frame.  When update begins the queue of starts is empty.
LEMMA StartsLate ==
    ASSUME IInv, LateReady, NextStart \/ StartReturns
    PROVE  LateReady'
  <1>0. PICK T, top, A, S : T = Callers /\ top = Top /\ A = Pushed(Advanced, Callers) /\ S = FrameTypes \cup {Advanced}
    OBVIOUS
  <1>1. /\ T \in Seq(FrameTypes) /\ Ats = {top.at} \cup AtsOf(T) /\ Ats' = AtsOf(stack')
        /\ A \in Seq(S) /\ AtsOf(A) = Ats /\ stack \in Seq(FrameTypes) /\ AtsOf(stack) = Ats
    BY <1>0, StackAts DEF IInv
  <1>2. top.at \in {"starting", "start"}
    BY <1>0 DEF NextStart, StartReturns, On
  <1>3. ~Late
    BY <1>1, <1>2, NotLate DEF LateCalls, CallsOff, Deactivations
  <1>4. CASE NextStart
    <2>1. PICK c : Enter(c, "start", stack) \/ stack' = A
      BY <1>0, <1>4 DEF NextStart
    <2>2. Ats' \subseteq Ats \cup {"start"}
      BY <1>1, <2>1, AtsOfHook
    <2>3. UNCHANGED <<lists, startCalled>> /\ {"start"} \cap Phases = {}
      BY <1>4 DEF NextStart, flagVars, Phases
    <2> QED
      BY <1>3, <2>2, <2>3, LateStep
  <1>5. CASE StartReturns
    <2>1. PICK g, t : g = T[1] /\ t = Tail(T)
      OBVIOUS
    <2>2. T # <<>>
      BY <1>0, <1>5, Context DEF IInv, StartReturns, On, Phases
    <2>3. g \in FrameTypes /\ t \in Seq(FrameTypes) /\ Range(T) = {g} \cup Range(t)
      BY <1>1, <2>1, <2>2, TopFacts
    <2>4. PICK h : h = [g EXCEPT !.i = @ + 1]
      OBVIOUS
    <2>5. h.at = g.at
      BY <2>3, <2>4 DEF FrameTypes
    <2>6. stack' = Pushed(h, t)
      BY <1>0, <1>5, <2>1, <2>4 DEF StartReturns
    <2>7. AtsOf(stack') = {h.at} \cup AtsOf(t)
      BY <2>3, <2>6, AtsPushed
    <2>8. Ats' \subseteq Ats
      BY <1>1, <2>3, <2>5, <2>7 DEF AtsOf
    <2>9. UNCHANGED <<startQueue, lists>> /\ startCalled \subseteq startCalled'
      BY <1>5 DEF StartReturns
    <2> QED
      BY <2>8, <2>9, LateReturn
  <1> QED
    BY <1>4, <1>5

LEMMA PassesLate ==
    ASSUME IInv, LateReady, UpdateReturns \/ \E pass \in Passes : NextInPass(pass)
    PROVE  LateReady'
  <1>0. PICK T, top, A, S : T = Callers /\ top = Top /\ A = Pushed(Advanced, Callers) /\ S = FrameTypes \cup {Advanced}
    OBVIOUS
  <1>1. /\ T \in Seq(FrameTypes) /\ Ats = {top.at} \cup AtsOf(T) /\ Ats' = AtsOf(stack')
        /\ A \in Seq(S) /\ AtsOf(A) = Ats
    BY <1>0, StackAts DEF IInv
  <1>2. CASE UpdateReturns
    <2>1. Ats' \subseteq Ats /\ UNCHANGED <<startQueue, lists, startCalled>>
      BY <1>0, <1>1, <1>2 DEF UpdateReturns, flagVars
    <2> QED
      BY <2>1, LateReturn
  <1>3. ASSUME NEW pass \in Passes, NextInPass(pass)
        PROVE  LateReady'
    <2>1. top.at = LoopOf(pass) /\ top.at \in Phases
      BY <1>0, <1>3 DEF NextInPass, On, LoopOf, Phases
    <2>2. PICK c : Enter(c, pass, A) \/ stack' = A
      BY <1>0, <1>3 DEF NextInPass
    <2>3. Ats' \subseteq Ats \cup {pass}
      BY <1>1, <2>2, AtsOfHook
    <2>4. Ats = {top.at}
      BY <1>0, <2>1, PhaseAlone DEF Ats
    <2>5. Late => pass = "update"
      BY <2>1, <2>4 DEF Late, LoopOf, Passes
    <2>6. {pass} \cap Phases = {} /\ (Late => {pass} \subseteq LateCalls)
      BY <2>5 DEF Passes, Phases, LateCalls
    <2>7. UNCHANGED <<startQueue, lists, startCalled>>
      BY <1>3 DEF NextInPass, flagVars
    <2> QED
      BY <2>3, <2>6, <2>7, LateStep
  <1> QED
    BY <1>2, <1>3

LEMMA PhaseAts ==
    ASSUME NEW f, stack' = <<f>>
    PROVE  Ats' = {f.at}
  <1>1. Range(<<f>>) = {f}
    BY DEF Range
  <1> QED
    BY <1>1 DEF Ats, Frames

LEMMA PhasesLate ==
    ASSUME IInv, LateReady, BeginStarts \/ BeginUpdate \/ BeginLateUpdate \/ EndUpdate \/ EndFrame
    PROVE  LateReady'
  <1>0. PICK top : top = Top
    OBVIOUS
  <1>1. top.at \in Phases
    BY <1>0 DEF BeginStarts, BeginUpdate, BeginLateUpdate, EndUpdate, EndFrame, On, Phases
  <1>2. /\ Frames = {top} /\ FrameOK(top) /\ Ats = {top.at}
        /\ \A d \in Comps : IsOn(d) <=> d \in onEnabled
        /\ InPass <=> top.at \in {"updating", "lateUpdating"}
        /\ \A d : Waits(d) <=> d \in Range(startQueue) \/ (top.at = "starting" /\ d \in Rest(top, top.batch))
    BY <1>0, <1>1, PhaseAlone DEF Ats
  <1>3. ASSUME NEW at, Ats' = {at}, at \in {"starting", "scene"}
        PROVE  LateReady'
    BY <1>3 DEF LateReady, Late
  <1>4. CASE BeginStarts
    <2>1. PICK f : f = [Frame("starting") EXCEPT !.batch = startQueue, !.n = Len(startQueue)]
      OBVIOUS
    <2>2. f.at = "starting"
      BY <2>1 DEF Frame
    <2>3. stack' = <<f>>
      BY <1>4, <2>1 DEF BeginStarts
    <2> QED
      BY <1>3, <2>2, <2>3, PhaseAts
  <1>5. CASE EndFrame
    <2>1. PICK f : f = Frame("scene")
      OBVIOUS
    <2>2. f.at = "scene"
      BY <2>1 DEF Frame
    <2>3. stack' = <<f>>
      BY <1>5, <2>1 DEF EndFrame
    <2> QED
      BY <1>3, <2>2, <2>3, PhaseAts
  <1>6. ASSUME BeginUpdate \/ EndUpdate, NEW at, Ats' = {at}, at \in {"updating", "logic"}
        PROVE  LateReady'
    <2>1. startQueue = <<>>
      <3>1. CASE BeginUpdate
        BY <1>0, <1>2, <3>1 DEF BeginUpdate, On, FrameOK, PhaseOK
      <3>2. CASE EndUpdate
        BY <1>0, <1>2, <3>2 DEF EndUpdate, On, LateReady, Late
      <3> QED
        BY <1>6, <3>1, <3>2
    <2>2. startQueue' = startQueue
      BY <1>6 DEF BeginUpdate, EndUpdate
    <2> QED
      BY <1>6, <2>1, <2>2 DEF LateReady, LateCalls
  <1>7. CASE BeginUpdate
    <2>1. PICK f : f = [Frame("updating") EXCEPT !.n = Len(lists["update"].now)]
      OBVIOUS
    <2>2. f.at = "updating"
      BY <2>1 DEF Frame
    <2>3. stack' = <<f>>
      BY <1>7, <2>1 DEF BeginUpdate, Begins
    <2> QED
      BY <1>6, <1>7, <2>2, <2>3, PhaseAts
  <1>8. CASE EndUpdate
    <2>1. PICK f : f = Frame("logic")
      OBVIOUS
    <2>2. f.at = "logic"
      BY <2>1 DEF Frame
    <2>3. stack' = <<f>>
      BY <1>8, <2>1 DEF EndUpdate
    <2> QED
      BY <1>6, <1>8, <2>2, <2>3, PhaseAts
  <1>9. CASE BeginLateUpdate
    <2>1. PICK f : f = [Frame("lateUpdating") EXCEPT !.n = Len(lists["lateUpdate"].now)]
      OBVIOUS
    <2>2. f.at = "lateUpdating"
      BY <2>1 DEF Frame
    <2>3. stack' = <<f>> /\ UNCHANGED <<lists, startCalled>>
      BY <1>9, <2>1 DEF BeginLateUpdate, Begins, flagVars
    <2>4. Ats' = {"lateUpdating"}
      BY <2>2, <2>3, PhaseAts
    <2>5. top.at = "logic"
      BY <1>0, <1>9 DEF BeginLateUpdate, On
    <2>6. startQueue = <<>> /\ Range(startQueue) = {}
      BY <1>2, <2>5 DEF LateReady, Late, Range
    <2>7. PICK list : list = lists["lateUpdate"]
      OBVIOUS
    <2>8. /\ list.add = <<>> /\ list.remove = <<>> /\ list.now \in Seq(Comps)
          /\ \A c \in Comps : c \in Scheduled(list) => IsOn(c)
      BY <1>2, <2>5, <2>7 DEF IInv, Flags, Lists, Passes
    <2>9. ASSUME NEW c \in Range(list.now)
          PROVE  c \in startCalled
      <3>1. c \in Comps
        BY <2>8, <2>9 DEF Range
      <3>2. Range(<<>>) = {}
        BY DEF Range
      <3>3. IsOn(c)
        BY <2>8, <2>9, <3>1, <3>2 DEF Scheduled
      <3>4. ~Waits(c)
        BY <1>2, <2>5, <2>6
      <3> QED
        BY <3>1, <3>3, <3>4 DEF IInv, Queue
    <2> QED
      BY <2>3, <2>4, <2>7, <2>9 DEF LateReady, Late
  <1> QED
    BY <1>4, <1>5, <1>7, <1>8, <1>9

\* Game code: where it may switch something on, nothing is late.
LEMMA GameLate ==
    ASSUME CallsInOrder, IInv, LateReady, Game
    PROVE  LateReady'
  <1>0. PICK K, S, at : K = Caller /\ S = FrameTypes \cup {[Top EXCEPT !.used = @ + 1]} /\ at = Top.at
    OBVIOUS
  <1>1. K \in Seq(S) /\ AtsOf(K) = Ats /\ Ats' = AtsOf(stack') /\ at \in Ats
    BY <1>0, StackAts DEF IInv
  <1>2. ASSUME NEW op, Calls(op)
        PROVE  at \in GameCode /\ op \in MayDoInOrder[at]
    BY <1>0, <1>2 DEF Calls, CallsInOrder
  <1>3. ASSUME NEW op \in SwitchesOn, Calls(op)
        PROVE  ~Late
    <2> SUFFICES ASSUME Late PROVE FALSE
      OBVIOUS
    <2>1. at \in LateCalls \cap GameCode /\ op \in MayDoInOrder[at]
      BY <1>1, <1>2, <1>3 DEF LateReady
    <2>2. at \in {"logic", "update", "onDestroy", "onDisable"}
      BY <2>1 DEF LateCalls, CallsOff, Deactivations, GameCode, Hooks
    <2>3. MayDoInOrder[at] \subseteq SwitchesOff \cup {"remove"}
      BY <2>2 DEF MayDoInOrder, MayDoSafely, GameCode, Hooks
    <2> QED
      BY <1>3, <2>1, <2>3 DEF SwitchesOn, SwitchesOff
  <1>4. PICK Ons, Offs : Ons = {"onLoad", "onEnable", "activating", "deactivatingChildren"} /\ Offs = CallsOff \cup {"removing"}
    OBVIOUS
  <1>5. Ons \cap Phases = {} /\ Offs \cap Phases = {} /\ Offs \subseteq LateCalls
    BY <1>4 DEF Phases, CallsOff, Deactivations, LateCalls
  <1>6. ASSUME ~Late, AtsOf(stack') \subseteq Ats \cup Ons, UNCHANGED <<startCalled, lists>>
        PROVE  LateReady'
    BY <1>1, <1>5, <1>6, LateStep
  <1>7. ASSUME AtsOf(stack') \subseteq Ats \cup Offs, UNCHANGED startCalled,
               UNCHANGED <<startQueue, lists>> \/ \E c, s : BeginDeactivateComp(c, s)
        PROVE  LateReady'
    <2>1. /\ startQueue = <<>> => startQueue' = <<>>
          /\ "lateUpdating" \in Ats => lists'["lateUpdate"].now = lists["lateUpdate"].now
      BY <1>7, OffLate DEF IInv
    <2> QED
      BY <1>1, <1>5, <1>7, <2>1, LateStep
  <1>8. ASSUME NEW node \in Nodes, NEW c \in Comps, AddComponent(node, c)
        PROVE  LateReady'
    <2>1. ~Late /\ UNCHANGED <<startCalled, lists>>
      BY <1>3, <1>8 DEF AddComponent, SwitchesOn, flagVars
    <2>2. BeginActivateComp(c, c \in enabled, K) \/ stack' = K
      BY <1>0, <1>8 DEF AddComponent
    <2>3. AtsOf(stack') \subseteq Ats \cup Ons
      BY <1>1, <1>4, <2>2, AtsOfBeginnings
    <2> QED
      BY <1>6, <2>1, <2>3
  <1>9. ASSUME NEW c \in Comps, Enable(c)
        PROVE  LateReady'
    <2>1. ~Late /\ UNCHANGED <<startCalled, lists>>
      BY <1>3, <1>9 DEF Enable, SwitchesOn, flagVars
    <2>2. BeginActivateComp(c, TRUE, K) \/ stack' = K
      BY <1>0, <1>9 DEF Enable
    <2>3. AtsOf(stack') \subseteq Ats \cup Ons
      BY <1>1, <1>4, <2>2, AtsOfBeginnings
    <2> QED
      BY <1>6, <2>1, <2>3
  <1>10. ASSUME NEW c \in Comps, Disable(c)
         PROVE  LateReady'
    <2>1. BeginDeactivateComp(c, K) \/ (stack' = K /\ UNCHANGED <<startQueue, lists>>)
      BY <1>0, <1>10 DEF Disable
    <2>2. AtsOf(stack') \subseteq Ats \cup Offs
      BY <1>1, <1>4, <2>1, AtsOfBeginnings DEF CallsOff
    <2>3. UNCHANGED startCalled
      BY <1>10 DEF Disable, flagVars
    <2> QED
      BY <1>7, <2>1, <2>2, <2>3
  <1>11. ASSUME NEW c \in Comps, RemoveComponent(c)
         PROVE  LateReady'
    <2>1. PICK f, R, U : f = Removing(c) /\ R = Pushed(Removing(c), Caller) /\ U = S \cup {Removing(c)}
      OBVIOUS
    <2>2. f.at = "removing"
      BY <2>1, NewFrames
    <2>3. R \in Seq(U) /\ AtsOf(R) = {"removing"} \cup Ats
      <3>1. R = Pushed(f, K) /\ U = S \cup {f}
        BY <1>0, <2>1
      <3>2. Pushed(f, K) \in Seq(S \cup {f}) /\ AtsOf(Pushed(f, K)) = {f.at} \cup AtsOf(K)
        BY <1>1, AtsPushed
      <3> QED
        BY <1>1, <2>2, <3>1, <3>2
    <2>4. BeginDeactivateComp(c, R)
      BY <1>11, <2>1 DEF RemoveComponent
    <2>5. AtsOf(stack') \subseteq Ats \cup Offs
      BY <1>4, <2>3, <2>4, AtsOfBeginnings DEF CallsOff
    <2>6. UNCHANGED startCalled
      BY <1>11 DEF RemoveComponent, flagVars
    <2> QED
      BY <1>7, <2>4, <2>5, <2>6
  <1>12. ASSUME NEW node, NEW on \in BOOLEAN, on => ~Late, BeginSwitch(node, on, K) \/ stack' = K,
                UNCHANGED <<startCalled, startQueue, lists>>
         PROVE  LateReady'
    <2>1. CASE ~Late
      <3>1. AtsOf(stack') \subseteq Ats \cup Ons
        BY <1>1, <1>4, <1>12, AtsOfSwitch
      <3> QED
        BY <1>6, <1>12, <2>1, <3>1
    <2>2. CASE ~on
      <3>1. AtsOf(stack') \subseteq Ats \cup Offs
        BY <1>1, <1>4, <1>12, <2>2, AtsOfSwitch DEF CallsOff, Deactivations
      <3> QED
        BY <1>7, <1>12, <3>1
    <2> QED
      BY <1>12, <2>1, <2>2
  <1>13. ASSUME NEW on \in BOOLEAN, SwitchRoot(on)
         PROVE  LateReady'
    <2>1. on => ~Late
      BY <1>3, <1>13 DEF SwitchRoot, SwitchesOn
    <2>2. BeginSwitch(Root, on, K) /\ UNCHANGED <<startCalled, startQueue, lists>>
      BY <1>0, <1>13 DEF SwitchRoot, flagVars
    <2> QED
      BY <1>12, <2>1, <2>2
  <1>14. ASSUME NEW on \in BOOLEAN, NEW node \in Nodes, SetActive(node, on)
         PROVE  LateReady'
    <2>1. on => ~Late
      BY <1>3, <1>14 DEF SetActive, SwitchesOn
    <2>2. (BeginSwitch(node, on, K) \/ stack' = K) /\ UNCHANGED <<startCalled, startQueue, lists>>
      BY <1>0, <1>14 DEF SetActive, Switch, flagVars
    <2> QED
      BY <1>12, <2>1, <2>2
  <1>15. ASSUME NEW node \in Nodes, DestroyNode(node)
         PROVE  LateReady'
    <2>1. PICK on \in BOOLEAN : on = FALSE
      OBVIOUS
    <2>2. BeginSwitch(node, on, K) \/ stack' = K
      BY <1>0, <1>15, <2>1 DEF DestroyNode, Switch
    <2>3. UNCHANGED <<startCalled, startQueue, lists>>
      BY <1>15 DEF DestroyNode, flagVars
    <2> QED
      BY <1>12, <2>1, <2>2, <2>3
  <1>16. ASSUME NEW node \in Nodes, NEW new \in {Root, Nothing}, SetParent(node, new)
         PROVE  LateReady'
    <2>1. PICK on \in BOOLEAN : on = ShouldActive(node, new)
      BY DEF ShouldActive
    <2>2. on => ~Late
      <3>1. CASE new = Root
        BY <1>3, <1>16, <3>1 DEF SetParent, SwitchesOn
      <3>2. CASE new = Nothing
        BY <2>1, <3>2, LifecycleAssumption DEF ShouldActive, IInv, Tree
      <3> QED
        BY <3>1, <3>2
    <2>3. BeginSwitch(node, on, K) /\ UNCHANGED <<startCalled, startQueue, lists>>
      BY <1>0, <1>16, <2>1 DEF SetParent, flagVars
    <2> QED
      BY <1>12, <2>2, <2>3
  <1> QED
    BY <1>8, <1>9, <1>10, <1>11, <1>13, <1>14, <1>15, <1>16 DEF Game
-----------------------------------------------------------------------------
(* The invariant holds of the initial state, and every step keeps it.         *)

LEMMA InitIInv == Init => IInv
  <1> SUFFICES ASSUME Init PROVE IInv
    OBVIOUS
  <1>1. PICK f : f = Frame("scene")
    OBVIOUS
  <1>2. /\ f \in FrameTypes /\ f.at = "scene" /\ f.node = Nothing /\ f.comp = Nothing
        /\ f.i = 1 /\ f.n = 0
    BY <1>1 DEF Frame, FrameTypes, Phases
  <1>3. stack = <<f>> /\ Frames = {f}
    BY <1>1 DEF Init, Frames, Range
  <1>4. Stacked
    BY <1>2, <1>3 DEF Stacked, Nested, Phases
  <1>5. \A n \in Nodes : Range(children[n]) = {} /\ Range(comps[n]) = {}
    BY DEF Init, Range
  <1>6. Tree
    BY <1>5, LifecycleAssumption DEF Init, Tree, IsInjective
  <1>7. Flags
    BY DEF Init, Flags, LifeInit, Unborn, Stages
  <1>8. FramesOK
    BY <1>2, <1>3 DEF FramesOK, FrameTyped, NodeCallOK, CompCallOK, PhaseOK, Phases, NodeCalls,
                      Activations, Deactivations, CompCalls, Runs
  <1>9. NodesOn /\ NodesOff
    BY LifecycleAssumption DEF Init, NodesOn, NodesOff
  <1>10. \A c \in Comps : ~IsOn(c)
    BY DEF Init, IsOn
  <1>11. CompsOn /\ CompsOff
    BY <1>10 DEF Init, CompsOn, CompsOff
  <1>12. Lists
    <2>1. \A hook \in Passes : lists[hook] = [now |-> <<>>, add |-> <<>>, remove |-> <<>>]
      BY DEF Init
    <2>2. Range(<<>>) = {} /\ IsInjective(<<>>)
      BY DEF Range, IsInjective
    <2>3. \A hook \in Passes : Scheduled(lists[hook]) = {}
      BY <2>1, <2>2 DEF Scheduled
    <2> QED
      BY <1>10, <2>1, <2>2, <2>3 DEF Lists
  <1>13. Queue
    BY <1>10 DEF Init, Queue, Range
  <1>14. Lives
    <2>1. \A c \in Comps : life[c] = Unborn
      BY DEF Init, LifeInit
    <2>2. \A at \in Noted : \A c \in Comps : ~In(at, c)
      BY <1>2, <1>3 DEF In, Noted
    <2> QED
      BY <1>10, <2>1, <2>2 DEF Init, Lives, Unborn, Noted
  <1> QED
    BY <1>4, <1>6, <1>7, <1>8, <1>9, <1>11, <1>12, <1>13, <1>14 DEF IInv

LEMMA StutterKeeps ==
    ASSUME IInv, UNCHANGED vars
    PROVE  IInv'
  <1> USE DEF vars, treeVars, compVars, flagVars
  <1>1. Tree' /\ Flags'
    BY DEF IInv, Tree, Flags
  <1>2. Stacked'
    BY DEF IInv, Stacked
  <1>3. Frames' = Frames
    BY DEF Frames
  <1>4. /\ \A at : \A c : In(at, c)' <=> In(at, c)
        /\ \A c : IsOn(c)' <=> IsOn(c)
        /\ \A n : GoesOff(n)' <=> GoesOff(n)
    BY <1>3 DEF In, IsOn, GoesOff
  <1>5. FramesOK'
    BY <1>3, <1>4 DEF IInv, FramesOK, FrameTyped, NodeCallOK, CompCallOK, PhaseOK, IsOff
  <1>6. NodesOn' /\ NodesOff'
    BY <1>3, <1>4 DEF IInv, NodesOn, NodesOff, WillSwitch
  <1>7. CompsOn' /\ CompsOff'
    BY <1>3, <1>4 DEF IInv, CompsOn, CompsOff, EnabledInHierarchy, Excuses
  <1>8. Lists'
    BY <1>4 DEF IInv, Lists, InPass
  <1>9. Queue' /\ Lives'
    BY <1>3, <1>4 DEF IInv, Queue, Waits, Lives
  <1> QED
    BY <1>1, <1>2, <1>5, <1>6, <1>7, <1>8, <1>9 DEF IInv

LEMMA GameKeeps ==
    ASSUME CallsSafely, IInv, Game
    PROVE  IInv'
  <1>1. CASE \E node \in Nodes, c \in Comps : AddComponent(node, c)
    BY <1>1, AddComponentKeeps
  <1>2. CASE \E c \in Comps : RemoveComponent(c) \/ Enable(c) \/ Disable(c)
    BY <1>2, RemoveComponentKeeps, EnableKeeps, DisableKeeps
  <1>3. CASE \E on \in BOOLEAN : SwitchRoot(on) \/ \E node \in Nodes : SetActive(node, on)
    BY <1>3, SwitchRootKeeps, SetActiveKeeps
  <1>4. CASE \E node \in Nodes : DestroyNode(node) \/ \E new \in {Root, Nothing} : SetParent(node, new)
    BY <1>4, DestroyNodeKeeps, SetParentKeeps
  <1> QED
    BY <1>1, <1>2, <1>3, <1>4 DEF Game

LEMMA EngineKeeps ==
    ASSUME IInv, CallsInOrder => LateReady, Engine
    PROVE  IInv'
  <1>1. CASE ActivateNextComp \/ ActivateChildren \/ ActivateNextChild \/ ActivateReturns
    BY <1>1, ActivateNextCompKeeps, ActivateChildrenKeeps, ActivateNextChildKeeps, ActivateReturnsKeeps
  <1>2. CASE DeactivateNextChild \/ DeactivateComps \/ DeactivateNextComp \/ DeactivateReturns
    BY <1>2, DeactivateNextChildKeeps, DeactivateCompsKeeps, DeactivateNextCompKeeps, DeactivateReturnsKeeps
  <1>3. CASE OnLoadReturns \/ OnEnableReturns \/ OnDisableReturns
    BY <1>3, OnLoadReturnsKeeps, OnEnableReturnsKeeps, OnDisableReturnsKeeps
  <1>4. CASE CallOnDestroy \/ OnDestroyReturns
    BY <1>4, CallOnDestroyKeeps, OnDestroyReturnsKeeps
  <1>5. CASE BeginStarts \/ NextStart \/ StartReturns
    BY <1>5, BeginStartsKeeps, NextStartKeeps, StartReturnsKeeps
  <1>6. CASE BeginUpdate \/ BeginLateUpdate \/ UpdateReturns \/ EndUpdate \/ EndFrame
    BY <1>6, BeginUpdateKeeps, BeginLateUpdateKeeps, UpdateReturnsKeeps, EndUpdateKeeps, EndFrameKeeps
  <1>7. CASE \E pass \in Passes : NextInPass(pass)
    BY <1>7, NextInPassKeeps
  <1> QED
    BY <1>1, <1>2, <1>3, <1>4, <1>5, <1>6, <1>7 DEF Engine

LEMMA InitLate == Init => LateReady
  <1> SUFFICES ASSUME Init PROVE LateReady
    OBVIOUS
  <1>1. PICK f : f = Frame("scene")
    OBVIOUS
  <1>2. f.at = "scene" /\ stack = <<f>>
    BY <1>1 DEF Frame, Init
  <1>3. Ats = {"scene"}
    BY <1>2 DEF Ats, Frames, Range
  <1> QED
    BY <1>3 DEF LateReady, Late

LEMMA EngineLate ==
    ASSUME IInv, LateReady, Engine
    PROVE  LateReady'
  <1>1. CASE \/ ActivateNextComp \/ ActivateChildren \/ ActivateNextChild \/ ActivateReturns
             \/ DeactivateNextChild \/ DeactivateComps \/ DeactivateNextComp \/ DeactivateReturns
    BY <1>1, ActivationsLate, DeactivationsLate
  <1>2. CASE OnLoadReturns \/ OnEnableReturns \/ OnDisableReturns \/ CallOnDestroy \/ OnDestroyReturns
    BY <1>2, HooksLate
  <1>3. CASE NextStart \/ StartReturns
    BY <1>3, StartsLate
  <1>4. CASE UpdateReturns \/ \E pass \in Passes : NextInPass(pass)
    BY <1>4, PassesLate
  <1>5. CASE BeginStarts \/ BeginUpdate \/ BeginLateUpdate \/ EndUpdate \/ EndFrame
    BY <1>5, PhasesLate
  <1> QED
    BY <1>1, <1>2, <1>3, <1>4, <1>5 DEF Engine

LEMMA NextLate ==
    ASSUME CallsInOrder, IInv, LateReady, [Next]_vars
    PROVE  LateReady'
  <1>1. CASE UNCHANGED vars
    BY <1>1 DEF vars, flagVars, LateReady, Late, Ats, Frames
  <1> QED
    BY <1>1, GameLate, EngineLate DEF Next

\* The inductive invariant: that nothing is switched on before lateUpdate is part
\* of it if the game keeps to what CallsInOrder allows.
Inductive == IInv /\ (CallsInOrder => LateReady)

LEMMA NextInductive ==
    ASSUME CallsSafely, Inductive, [Next]_vars
    PROVE  Inductive'
  <1>1. IInv'
    BY GameKeeps, EngineKeeps, StutterKeeps DEF Next, Inductive
  <1>2. CallsInOrder => LateReady'
    BY NextLate DEF Inductive
  <1>3. CallsInOrder' <=> CallsInOrder
    BY DEF CallsInOrder, MayDoInOrder
  <1> QED
    BY <1>1, <1>2, <1>3 DEF Inductive

\* The invariant the other results rest on: whatever is being switched, and from
\* whichever hook, each difference between tree, flags, lists and what the
\* components were told belongs to a call in progress that will end it.  The game
\* calls what CallsSafely allows; within CallsInOrder the hooks also come in order.
THEOREM IInvAlways == ASSUME CallsSafely PROVE Spec => []IInv
  <1>1. Init => Inductive
    BY InitIInv, InitLate DEF Inductive
  <1>2. Inductive => IInv
    BY DEF Inductive
  <1> QED
    BY <1>1, <1>2, NextInductive, PTL DEF Spec
-----------------------------------------------------------------------------
(* What the invariant says of the scheduler's pointers and lists.             *)

LEMMA SeqOfRange ==
    ASSUME NEW S, NEW R, NEW s \in Seq(S), Range(s) \subseteq R
    PROVE  s \in Seq(R)
  BY DEF Range

LEMMA RangeOfRest ==
    ASSUME NEW S, NEW s \in Seq(S), NEW i \in Nat, i >= 1, i <= Len(s) + 1
    PROVE  Range(SubSeq(s, i, Len(s))) = {s[k] : k \in i .. Len(s)}
  <1>1. PICK m : m = Len(s) - i + 1
    OBVIOUS
  <1>2. m \in Nat /\ Len(s) \in Nat
    BY <1>1
  <1>3. PICK t : t = SubSeq(s, i, Len(s))
    OBVIOUS
  <1>4. DOMAIN t = 1 .. m /\ \A j \in 1 .. m : t[j] = s[i + j - 1]
    BY <1>1, <1>2, <1>3
  <1>5. \A k \in i .. Len(s) : k - i + 1 \in 1 .. m /\ i + (k - i + 1) - 1 = k
    BY <1>1, <1>2
  <1>6. \A j \in 1 .. m : i + j - 1 \in i .. Len(s)
    BY <1>1, <1>2
  <1>7. \A k \in i .. Len(s) : s[k] \in Range(t)
    <2> SUFFICES ASSUME NEW k \in i .. Len(s) PROVE s[k] \in Range(t)
      OBVIOUS
    <2>1. t[k - i + 1] = s[k] /\ k - i + 1 \in DOMAIN t
      BY <1>4, <1>5
    <2> QED
      BY <2>1 DEF Range
  <1>8. \A x \in Range(t) : \E k \in i .. Len(s) : x = s[k]
    BY <1>4, <1>6 DEF Range
  <1> QED
    BY <1>3, <1>7, <1>8

LEMMA ListsAlive ==
    ASSUME IInv, NEW hook \in Passes
    PROVE  /\ lists[hook] \in [now : Seq(Comps), add : Seq(Comps), remove : Seq(Comps)]
           /\ Range(lists[hook].now) \cup Range(lists[hook].add) \cup Range(lists[hook].remove) \subseteq alive
           /\ \A c : c \in Scheduled(lists[hook]) <=> c \in Wants[hook] /\ IsOn(c)
  <1>1. Flags /\ Lists
    BY DEF IInv
  <1>2. PICK list : list = lists[hook]
    OBVIOUS
  <1>3. list \in [now : Seq(Comps), add : Seq(Comps), remove : Seq(Comps)]
    BY <1>1, <1>2 DEF Flags
  <1>4. Range(list.now) \subseteq Comps /\ Range(list.add) \subseteq Comps
    BY <1>3 DEF Range
  <1>5. Wants[hook] \subseteq Comps
    BY LifecycleAssumption
  <1>6. \A c : c \in Scheduled(list) <=> c \in Wants[hook] /\ IsOn(c)
    BY <1>1, <1>2, <1>4, <1>5 DEF Lists, Scheduled
  <1>7. \A c : IsOn(c) => c \in alive
    BY <1>1 DEF Flags, IsOn
  <1> QED
    BY <1>1, <1>2, <1>3, <1>6, <1>7 DEF Lists, Scheduled

LEMMA QueueAlive ==
    ASSUME IInv
    PROVE  startQueue \in Seq(Comps) /\ Range(startQueue) \subseteq alive
  BY DEF IInv, Flags, Queue, IsOn, Range

LEMMA SettledTop ==
    ASSUME IInv, Settled
    PROVE  Top.at \in Phases
  BY Context DEF IInv

LEMMA IInvFlags == ASSUME IInv PROVE FlagsAgree
  <1>1. Tree /\ Flags /\ Stacked
    BY DEF IInv
  <1>2. TypeOK
    <2>1. alive \subseteq created
      BY <1>1 DEF Tree
    <2>2. startQueue \in Seq(created)
      <3>1. Range(startQueue) \subseteq created
        BY <2>1, QueueAlive
      <3> QED
        BY <3>1, QueueAlive, SeqOfRange
    <2>3. lists \in [Passes -> [now : Seq(created), add : Seq(created), remove : Seq(created)]]
      <3>1. ASSUME NEW hook \in Passes
            PROVE  lists[hook] \in [now : Seq(created), add : Seq(created), remove : Seq(created)]
        <4>1. PICK list : list = lists[hook]
          OBVIOUS
        <4>2. /\ list \in [now : Seq(Comps), add : Seq(Comps), remove : Seq(Comps)]
              /\ Range(list.now) \subseteq created /\ Range(list.add) \subseteq created
              /\ Range(list.remove) \subseteq created
          BY <2>1, <4>1, ListsAlive
        <4>3. list.now \in Seq(created) /\ list.add \in Seq(created) /\ list.remove \in Seq(created)
          BY <4>2, SeqOfRange
        <4> QED
          BY <4>1, <4>2, <4>3
      <3>2. lists = [hook \in Passes |-> lists[hook]]
        BY <1>1 DEF Flags
      <3> QED
        BY <3>1, <3>2
    <2>4. /\ parent \in [Nodes -> {Root, Nothing}] /\ children \in [Nodes -> Seq(Nodes)]
          /\ comps \in [Nodes -> Seq(Comps)] /\ nodeOf \in [Comps -> Nodes \cup {Nothing}]
          /\ active \subseteq Nodes /\ inHierarchy \subseteq Nodes /\ doomed \subseteq Nodes \ {Root}
          /\ enabled \subseteq Comps /\ alive \subseteq created /\ created \subseteq Comps
          /\ \A node \in Nodes : IsInjective(children[node]) /\ IsInjective(comps[node])
          /\ \A c \in alive : c \in Range(comps[nodeOf[c]])
          /\ \A node \in Nodes \ doomed : node \in Range(children[Root]) <=> parent[node] = Root
      BY <1>1 DEF Tree
    <2>5. /\ onLoaded \cup onEnabled \cup startCalled \subseteq created
          /\ life \in [Comps -> [stage : Stages, started : BOOLEAN, broken : BOOLEAN]]
      BY <1>1, <2>1 DEF Flags
    <2>6. stack # <<>>
      BY <1>1 DEF Stacked, Nested
    <2> QED
      BY <2>2, <2>3, <2>4, <2>5, <2>6 DEF TypeOK
  <1>3. ActiveAgrees
    <2> SUFFICES ASSUME Settled, NEW node \in Nodes \ {Root}
                 PROVE  node \in inHierarchy <=> node \in active /\ parent[node] \in inHierarchy
      BY DEF ActiveAgrees
    <2>1. PICK top : top = Top
      OBVIOUS
    <2>2. /\ \A m \in inHierarchy \ {Root} : m \in active /\ parent[m] = Root /\ Root \in inHierarchy
          /\ \A m \in active \ {Root} : parent[m] = Root /\ Root \in inHierarchy => m \in inHierarchy
      BY <2>1, SettledTop, PhaseAlone
    <2>3. parent[node] \in inHierarchy => parent[node] = Root
      BY <1>1, LifecycleAssumption DEF Tree
    <2> QED
      BY <2>2, <2>3
  <1>4. EnabledAgrees
    <2> SUFFICES ASSUME Settled, NEW c \in alive
                 PROVE  c \in onEnabled <=> EnabledInHierarchy(c)
      BY DEF EnabledAgrees
    <2>1. PICK top : top = Top
      OBVIOUS
    <2>2. /\ \A d \in alive : EnabledInHierarchy(d) => d \in onEnabled
          /\ \A d \in Comps : d \in onEnabled => EnabledInHierarchy(d)
      BY <2>1, SettledTop, PhaseAlone
    <2>3. c \in Comps
      BY <1>1 DEF Tree
    <2> QED
      BY <2>2, <2>3
  <1> QED
    BY <1>2, <1>3, <1>4 DEF FlagsAgree

LEMMA IInvScheduler == ASSUME IInv PROVE SchedulerAgrees
  <1>1. PICK top : top = Top
    OBVIOUS
  <1>2. Settled => top.at \in Phases
    BY <1>1, SettledTop
  <1>3. Settled => \A d \in Comps : IsOn(d) <=> d \in onEnabled
    BY <1>1, <1>2, PhaseAlone
  <1>4. ScheduleAgrees
    <2> SUFFICES ASSUME Settled, NEW hook \in Passes
                 PROVE  /\ Range(Applied(lists[hook]).now) = Wants[hook] \cap onEnabled
                        /\ IsInjective(Applied(lists[hook]).now)
      BY DEF ScheduleAgrees
    <2>1. IsInjective(lists[hook].now) /\ IsInjective(lists[hook].add)
      BY DEF IInv, Lists
    <2>2. /\ Range(Applied(lists[hook]).now) = Scheduled(lists[hook])
          /\ IsInjective(Applied(lists[hook]).now)
      BY <2>1, ListsAlive, AppliedFacts
    <2>3. Wants[hook] \subseteq Comps
      BY LifecycleAssumption
    <2>4. \A c : c \in Scheduled(lists[hook]) <=> c \in Wants[hook] /\ IsOn(c)
      BY ListsAlive
    <2> QED
      BY <1>3, <2>2, <2>3, <2>4
  <1>5. QueueAgrees
    <2> SUFFICES ASSUME Settled
                 PROVE  /\ onEnabled \ startCalled \subseteq Range(startQueue) \cup Range(Batch)
                        /\ Range(startQueue) \subseteq onEnabled \ startCalled
      BY DEF QueueAgrees
    <2>1. Queue /\ onEnabled \subseteq Comps
      BY DEF IInv, Flags, Tree
    <2>2. Range(startQueue) \subseteq onEnabled \ startCalled
      BY <2>1 DEF Queue, IsOn
    <2>3. top.at = "starting" => Rest(top, top.batch) = Range(Batch)
      <3> SUFFICES ASSUME top.at = "starting" PROVE Rest(top, top.batch) = Range(Batch)
        OBVIOUS
      <3>1. top \in FrameTypes /\ FrameOK(top)
        BY <1>1, <1>2, PhaseAlone
      <3>2. /\ top.batch \in Seq(Comps) /\ top.i \in Nat /\ top.n = Len(top.batch)
            /\ top.i >= 1 /\ top.i <= Len(top.batch) + 1
        BY <3>1 DEF FrameTypes, FrameOK, FrameTyped, PhaseOK
      <3>3. Batch = SubSeq(top.batch, top.i, Len(top.batch))
        BY <1>1, <3>2 DEF Batch, On
      <3> QED
        BY <3>2, <3>3, RangeOfRest DEF Rest
    <2>4. \A d : Waits(d) => d \in Range(startQueue) \/ (top.at = "starting" /\ d \in Rest(top, top.batch))
      BY <1>1, <1>2, PhaseAlone
    <2> QED
      BY <1>3, <2>1, <2>2, <2>3, <2>4 DEF Queue
  <1> QED
    BY <1>4, <1>5 DEF SchedulerAgrees

LEMMA IInvPointees == ASSUME IInv PROVE NothingDangling
  <1> SUFFICES ASSUME NEW x \in Pointees, x # Nothing PROVE x \in alive
    BY DEF NothingDangling
  <1>1. CASE x \in Range(startQueue)
    BY <1>1, QueueAlive
  <1>2. ASSUME NEW hook \in Passes, x \in HeldByPass(lists[hook])
        PROVE  x \in alive
    BY <1>2, ListsAlive DEF HeldByPass
  <1>3. ASSUME NEW k \in DOMAIN stack, x \in HeldByCall(stack[k])
        PROVE  x \in alive
    <2>1. PICK f : f = stack[k]
      OBVIOUS
    <2>2. f \in FrameTypes /\ FrameTyped(f) /\ PhaseOK(f)
      <3>1. f \in Frames
        BY <2>1 DEF Frames, Range
      <3> QED
        BY <3>1, Context DEF IInv, FramesOK
    <2>3. CASE f.at = "starting"
      <3>1. /\ f.batch \in Seq(Comps) /\ f.i \in Nat /\ f.n = Len(f.batch)
            /\ f.i >= 1 /\ f.i <= Len(f.batch) + 1 /\ Rest(f, f.batch) \subseteq alive
        BY <2>2, <2>3 DEF FrameTypes, FrameTyped, PhaseOK
      <3>2. Range(SubSeq(f.batch, f.i, Len(f.batch))) = Rest(f, f.batch)
        <4>1. Range(SubSeq(f.batch, f.i, Len(f.batch))) = {f.batch[m] : m \in f.i .. Len(f.batch)}
          BY <3>1, RangeOfRest
        <4> QED
          BY <3>1, <4>1 DEF Rest
      <3> QED
        BY <1>3, <2>1, <2>3, <3>1, <3>2 DEF HeldByCall
    <2>4. CASE f.at # "starting"
      BY <1>3, <2>1, <2>2, <2>4 DEF FrameTyped, HeldByCall
    <2> QED
      BY <2>3, <2>4
  <1>4. CASE x \in UNION {HeldByPass(lists[hook]) : hook \in Passes}
    <2>1. PICK hook \in Passes : x \in HeldByPass(lists[hook])
      BY <1>4
    <2> QED
      BY <1>2, <2>1
  <1>5. CASE x \in UNION {HeldByCall(stack[k]) : k \in DOMAIN stack}
    <2>1. PICK k \in DOMAIN stack : x \in HeldByCall(stack[k])
      BY <1>5
    <2> QED
      BY <1>3, <2>1
  <1>6. \/ x \in Range(startQueue)
        \/ x \in UNION {HeldByPass(lists[hook]) : hook \in Passes}
        \/ x \in UNION {HeldByCall(stack[k]) : k \in DOMAIN stack}
    BY DEF Pointees
  <1> QED
    BY <1>1, <1>4, <1>5, <1>6
-----------------------------------------------------------------------------
(* The results, for any numbers of nodes and components, any bounds on the    *)
(* calls, and game code that calls only what CallsSafely allows it.           *)

\* Between calls a component has been told onEnable and not yet onDisable exactly
\* when it is enabled on a node that is active up to the root, and a node is
\* active in the hierarchy exactly when it and its parent are, whatever hooks and
\* game code switched, within CallsSafely, inside the loops of NodeActivator.
THEOREM FlagsAgreeAlways == ASSUME CallsSafely PROVE Spec => []FlagsAgree
  <1>1. IInv => FlagsAgree
    BY IInvFlags
  <1> QED
    BY <1>1, IInvAlways, PTL

\* Between calls the lists of the two passes, once their pending changes are
\* applied, have each enabled component that wants the pass, once, and the
\* enabled components that were not started wait in the queue or in the batch.
THEOREM SchedulerAgreesAlways == ASSUME CallsSafely PROVE Spec => []SchedulerAgrees
  <1>1. IInv => SchedulerAgrees
    BY IInvScheduler
  <1> QED
    BY <1>1, IInvAlways, PTL

\* No raw pointer of the scheduler, of its pending lists, of the queue of starts
\* or of a call in progress is to a deleted component; a component that update()
\* removes (PassEntryAlive) is outside CallsSafely.
THEOREM NothingDanglingAlways == ASSUME CallsSafely PROVE Spec => []NothingDangling
  <1>1. IInv => NothingDangling
    BY IInvPointees
  <1> QED
    BY <1>1, IInvAlways, PTL

-----------------------------------------------------------------------------
(* The implementation of ComponentLife.                                       *)

\* A hook that is called without breaking the component's life is a step of
\* ComponentLife.
LEMMA UnbrokenCall ==
    ASSUME CallsInOrder, NEW c \in Comps, NEW hook \in Hooks, Flags, Lives', CallsHook(c, hook)
    PROVE  LifeNext
  <1>1. life \in [Comps -> [stage : Stages, started : BOOLEAN, broken : BOOLEAN]]
    BY DEF Flags
  <1>2. MayCall(hook, life[c])
    <2> SUFFICES ASSUME ~MayCall(hook, life[c]) PROVE FALSE
      OBVIOUS
    <2>1. PICK l : l = After(hook, life[c])
      OBVIOUS
    <2>2. l \in [stage : Stages, started : BOOLEAN, broken : BOOLEAN]
      <3>1. life[c] \in [stage : Stages, started : BOOLEAN, broken : BOOLEAN]
        BY <1>1
      <3> QED
        BY <2>1, <3>1 DEF After, Hooks, Stages
    <2>3. life'[c] = [l EXCEPT !.broken = TRUE]
      BY <1>1, <2>1 DEF CallsHook
    <2>4. life'[c].broken = TRUE
      BY <2>2, <2>3
    <2>5. CallsInOrder'
      BY DEF CallsInOrder, MayDoInOrder
    <2> QED
      BY <2>4, <2>5 DEF Lives
  <1>3. life' = [life EXCEPT ![c] = After(hook, life[c])]
    BY <1>1, <1>2, HookCalled
  <1> QED
    BY <1>2, <1>3 DEF LifeNext, Call

Hooked == UNCHANGED life \/ \E c \in Comps, hook \in Hooks : CallsHook(c, hook)

\* The steps that may call a hook call it of a component, and one hook at most.
LEMMA SwitchesOneHook ==
    ASSUME NEW c \in Comps, NEW on, NEW callers
    PROVE  /\ BeginActivateComp(c, on, callers) => Hooked
           /\ EnableOrReturn(c, on, callers) => Hooked
           /\ BeginDeactivateComp(c, callers) => Hooked
  BY DEF BeginActivateComp, EnableOrReturn, BeginDeactivateComp, Enter, Hooked, Hooks

LEMMA GameHooks == ASSUME Game PROVE Hooked
  <1>1. ASSUME NEW node \in Nodes, NEW c \in Comps, AddComponent(node, c) PROVE Hooked
    BY <1>1, SwitchesOneHook DEF AddComponent, Hooked
  <1>2. ASSUME NEW c \in Comps, RemoveComponent(c) \/ Enable(c) \/ Disable(c) PROVE Hooked
    BY <1>2, SwitchesOneHook DEF RemoveComponent, Enable, Disable, Hooked
  <1>3. ASSUME NEW on \in BOOLEAN, SwitchRoot(on) PROVE Hooked
    BY <1>3 DEF SwitchRoot, Hooked
  <1>4. ASSUME NEW on \in BOOLEAN, NEW node \in Nodes, SetActive(node, on) PROVE Hooked
    BY <1>4 DEF SetActive, Hooked
  <1>5. ASSUME NEW node \in Nodes, DestroyNode(node) PROVE Hooked
    BY <1>5 DEF DestroyNode, Hooked
  <1>6. ASSUME NEW node \in Nodes, NEW new \in {Root, Nothing}, SetParent(node, new) PROVE Hooked
    BY <1>6 DEF SetParent, Hooked
  <1> QED
    BY <1>1, <1>2, <1>3, <1>4, <1>5, <1>6 DEF Game

LEMMA EngineHooks == ASSUME IInv, Engine PROVE Hooked
  <1> USE DEF Hooked
  <1>1. PICK top : top = Top
    OBVIOUS
  <1>2. Tree /\ Flags /\ top \in FrameTypes /\ FrameOK(top)
    BY <1>1, Context DEF IInv, FramesOK, FrameOK
  <1>3. CASE ActivateChildren \/ ActivateNextChild \/ ActivateReturns \/ DeactivateNextChild \/ DeactivateComps
             \/ DeactivateReturns \/ OnEnableReturns \/ OnDisableReturns \/ OnDestroyReturns
    BY <1>3 DEF ActivateChildren, ActivateNextChild, ActivateReturns, DeactivateNextChild, DeactivateComps,
                DeactivateReturns, OnEnableReturns, OnDisableReturns, OnDestroyReturns
  <1>4. CASE BeginStarts \/ StartReturns \/ BeginUpdate \/ BeginLateUpdate \/ UpdateReturns \/ EndUpdate \/ EndFrame
    BY <1>4 DEF BeginStarts, StartReturns, BeginUpdate, BeginLateUpdate, UpdateReturns, EndUpdate, EndFrame
  <1>5. CASE ActivateNextComp \/ DeactivateNextComp
    <2>1. top.at \in {"activating", "deactivating"} /\ top.i <= Len(comps[top.node])
      BY <1>1, <1>5 DEF ActivateNextComp, DeactivateNextComp, On
    <2>2. top.node \in Nodes /\ top.i \in Nat /\ top.i >= 1
      BY <1>2, <2>1 DEF FrameOK, FrameTyped, FrameTypes, NodeCalls, Activations, Deactivations
    <2>3. comps[top.node] \in Seq(Comps)
      BY <1>2, <2>2 DEF Tree
    <2>4. comps[top.node][top.i] \in Comps
      BY <2>1, <2>2, <2>3
    <2> QED
      BY <1>1, <1>5, <2>4, SwitchesOneHook DEF ActivateNextComp, DeactivateNextComp
  <1>6. CASE OnLoadReturns
    <2>1. top.comp \in Comps
      BY <1>1, <1>2, <1>6 DEF OnLoadReturns, On, FrameOK, FrameTyped, CompCalls, Tree
    <2> QED
      BY <1>1, <1>6, <2>1, SwitchesOneHook DEF OnLoadReturns
  <1>7. CASE CallOnDestroy
    <2>1. top.comp \in Comps
      BY <1>1, <1>2, <1>7 DEF CallOnDestroy, On, FrameOK, FrameTyped, CompCalls, Tree
    <2> QED
      BY <1>1, <1>7, <2>1 DEF CallOnDestroy, Enter, Hooks
  <1>8. CASE NextStart
    BY <1>2, <1>8 DEF NextStart, Enter, Hooks, Tree
  <1>9. ASSUME NEW pass \in Passes, NextInPass(pass) PROVE Hooked
    BY <1>2, <1>9 DEF NextInPass, Enter, Hooks, Tree, Passes
  <1> QED
    BY <1>3, <1>4, <1>5, <1>6, <1>7, <1>8, <1>9 DEF Engine

LEMMA StepsOfLife == ASSUME CallsInOrder, IInv, IInv', [Next]_vars PROVE [LifeNext]_life
  <1>1. Flags /\ Lives'
    BY DEF IInv
  <1>2. CASE UNCHANGED vars
    BY <1>2 DEF vars
  <1>3. CASE Next
    BY <1>1, <1>3, GameHooks, EngineHooks, UnbrokenCall DEF Next, Hooked
  <1> QED
    BY <1>2, <1>3

\* Each component sees its hooks in the order Component.h promises, as long as
\* nothing is switched on between a frame's starts and its lateUpdate: the engine
\* implements ComponentLife.
THEOREM KeepsContractAlways == ASSUME CallsInOrder PROVE Spec => KeepsContract
  <1>1. Init => LifeInit
    BY DEF Init
  <1>2. IInv /\ IInv' /\ [Next]_vars => [LifeNext]_life
    BY StepsOfLife
  <1> QED
    BY <1>1, <1>2, InOrderIsSafe, IInvAlways, PTL DEF Spec, KeepsContract, LifeSpec
=============================================================================
