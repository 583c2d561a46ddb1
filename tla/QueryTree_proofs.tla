-------------------------- MODULE QueryTree_proofs --------------------------
(***************************************************************************)
(* The published view of QueryView is one revision of the server's tree,   *)
(* outside the scopes it calls stale: for every tree, scope, budget,       *)
(* number of goroutines, and whatever pages and batches the server sends.  *)
(***************************************************************************)
EXTENDS QueryContents_proofs, WellFoundedInduction

----------------------------------------------------------------------------
(***************************************************************************)
(* Paths                                                                   *)
(***************************************************************************)

\* A set of numbers has a least one.
LEMMA Least == ASSUME NEW T \in SUBSET Nat, T # {} PROVE \E m \in T : \A k \in T : m <= k
<1> DEFINE R == StrictSubsetOrdering(Nat)
           S == FiniteSubsetsOf(Nat)
           I == {0 .. m : m \in T}
<1>1. IsWellFoundedOn(R, S) BY FS_StrictSubsetOrderingWellFounded
<1>2. I \subseteq S
  <2>1. ASSUME NEW m \in T PROVE 0 .. m \in S
    BY FS_Interval, 0 .. m \subseteq Nat, m \in Int, 0 \in Int DEF FiniteSubsetsOf
  <2> QED BY <2>1
<1>3. I # {}
  <2>1. PICK n \in T : TRUE OBVIOUS
  <2>2. 0 .. n \in I OBVIOUS
  <2> QED BY <2>2
<1> HIDE DEF R, S, I
<1>4. PICK x \in I : \A y \in I : ~(<<y, x>> \in R) BY <1>1, <1>2, <1>3, WFMin
<1>5. PICK m \in T : x = 0 .. m BY DEF I
<1>6. ASSUME NEW k \in T, k < m PROVE FALSE
  <2>1. 0 .. k \in I /\ 0 .. k \in SUBSET Nat /\ 0 .. m \in SUBSET Nat BY DEF I
  <2>2. 0 .. k \subseteq 0 .. m /\ 0 .. k # 0 .. m BY <1>6
  <2> QED BY <1>4, <1>5, <2>1, <2>2 DEF R, StrictSubsetOrdering
<1> QED BY <1>6

\* A path is under another when it begins with its names.
LEMMA UnderMeans ==
    ASSUME NEW p \in Paths, NEW q \in Paths
    PROVE  /\ p \in Seq(STRING) /\ q \in Seq(STRING) /\ Len(p) \in Nat /\ Len(q) \in Nat
           /\ Under(p, q) <=> Len(q) <= Len(p) /\ \A i \in 1 .. Len(q) : p[i] = q[i]
<1>1. p \in Seq(STRING) /\ q \in Seq(STRING) /\ Len(p) \in Nat /\ Len(q) \in Nat
  BY QueryAssumption
<1>2. ASSUME Len(q) <= Len(p)
      PROVE  SubSeq(p, 1, Len(q)) = q <=> \A i \in 1 .. Len(q) : p[i] = q[i]
  <2> DEFINE s == SubSeq(p, 1, Len(q))
  <2>1. \A i \in 1 .. Len(q) : p[i] \in STRING BY <1>1, <1>2
  <2>2. s \in Seq(STRING) /\ Len(s) = Len(q) /\ \A i \in 1 .. Len(q) : s[i] = p[i]
    BY <1>1, <2>1, SubSeqProperties
  <2> HIDE DEF s
  <2>3. (\A i \in 1 .. Len(q) : s[i] = q[i]) => s = q BY <1>1, <2>2, SeqEqual
  <2>4. s = q <=> \A i \in 1 .. Len(q) : p[i] = q[i] BY <2>2, <2>3
  <2> QED BY <2>4 DEF s
<1> QED BY <1>1, <1>2 DEF Under

LEMMA UnderOrder ==
    ASSUME NEW p \in Paths, NEW q \in Paths, NEW x \in Paths
    PROVE  /\ Under(p, p)
           /\ Under(p, q) /\ Under(q, x) => Under(p, x)
           /\ Under(p, q) /\ Under(p, x) /\ Len(x) <= Len(q) => Under(q, x)
           /\ Under(p, q) /\ Len(p) <= Len(q) => p = q
           /\ Len(p) \in Nat /\ Len(q) \in Nat /\ Len(x) \in Nat
<1>1. Len(p) \in Nat /\ Len(q) \in Nat /\ Len(x) \in Nat BY UnderMeans
<1>2. Under(p, p) BY <1>1, UnderMeans
<1>3. Under(p, q) /\ Under(q, x) => Under(p, x) BY <1>1, UnderMeans
<1>4. Under(p, q) /\ Under(p, x) /\ Len(x) <= Len(q) => Under(q, x) BY <1>1, UnderMeans
<1>5. ASSUME Under(p, q), Len(p) <= Len(q) PROVE p = q
  <2>1. p \in Seq(STRING) /\ q \in Seq(STRING) /\ Len(p) = Len(q)
        /\ \A i \in 1 .. Len(p) : p[i] = q[i]
    BY <1>1, <1>5, UnderMeans
  <2> QED BY <2>1, SeqEqual
<1> QED BY <1>1, <1>2, <1>3, <1>4, <1>5

LEMMA ParentAbove ==
    ASSUME NEW p \in Paths, p # <<>>
    PROVE  Parent(p) \in Paths /\ Under(p, Parent(p)) /\ Len(Parent(p)) = Len(p) - 1
<1>1. Parent(p) \in Paths BY PathFacts
<1>2. p \in Seq(STRING) /\ Len(p) \in Nat /\ Len(p) >= 1 BY QueryAssumption
<1>3. \A i \in 1 .. Len(p) - 1 : p[i] \in STRING BY <1>2
<1>4. Len(Parent(p)) = Len(p) - 1 /\ \A i \in 1 .. Len(p) - 1 : Parent(p)[i] = p[i]
  <2> DEFINE n == Len(p) - 1
             s == SubSeq(p, 1, n)
  <2>1. n \in Nat BY <1>2
  <2>2. \A i \in 1 .. n : p[i] \in STRING BY <1>3
  <2> HIDE DEF n
  <2>3. Len(s) = n /\ \A i \in 1 .. n : s[i] = p[i] BY <2>1, <2>2, SubSeqProperties
  <2> QED BY <2>3 DEF Parent, n
<1> QED BY <1>1, <1>2, <1>4, UnderMeans

LEMMA FlowAbove ==
    ASSUME NEW p \in Paths
    PROVE  /\ p # <<>> => Under(p, Flow(p)) /\ Flow(p) \in Flows /\ Flow(p) \in Paths
           /\ \A f \in Flows : Under(p, f) => p # <<>> /\ Flow(p) = f
<1>1. p \in Seq(STRING) BY QueryAssumption
<1>2. ASSUME p # <<>> PROVE Under(p, Flow(p)) /\ Flow(p) \in Flows /\ Flow(p) \in Paths
  <2>1. Flow(p) \in Flows /\ Flow(p) \in Paths BY <1>2, PathFacts DEF Flows
  <2>2. Len(p) >= 1 BY <1>1, <1>2
  <2>3. Len(Flow(p)) = 1 /\ Flow(p)[1] = p[1] BY DEF Flow
  <2> QED BY <2>1, <2>2, <2>3, UnderMeans
<1>3. ASSUME NEW f \in Flows, Under(p, f) PROVE p # <<>> /\ Flow(p) = f
  <2>1. f \in Paths /\ Len(f) = 1 /\ f \in Seq(STRING) BY QueryAssumption DEF Flows
  <2>2. Len(p) >= 1 /\ p[1] = f[1] BY <1>3, <2>1, UnderMeans
  <2>3. p # <<>> BY <2>2
  <2>4. f = <<f[1]>> BY <2>1
  <2> QED BY <2>2, <2>3, <2>4 DEF Flow
<1> QED BY <1>2, <1>3

----------------------------------------------------------------------------
(***************************************************************************)
(* The server's tree from one revision to another                          *)
(***************************************************************************)

Closed(state) == \A p \in Paths, x \in Paths : Exists(state, p) /\ Under(p, x) => Exists(state, x)

Sound(state) ==
    /\ Closed(state)
    /\ state.change.op = "remove" =>
          state.change.path # <<>> /\ ~Exists(state, state.change.path)

\* What revision b, made by change (op, q), is to the revision a before it.
Successor(a, b, op, q) ==
    /\ b.change.op = op /\ b.change.path = q
    /\ \A p \in Paths : ~Exists(a, p) /\ Exists(b, p) => op = "add" /\ p = q
    /\ \A p \in Paths : Exists(a, p) /\ ~Exists(b, p) => op = "remove" /\ Under(p, q)
    /\ \A p \in Paths : Exists(a, p) /\ Exists(b, p) /\ a.tree[p] # b.tree[p] =>
          (op = "status" /\ Under(q, p)) \/ (op = "replace" /\ Under(p, q))
    /\ \A f \in Flows : a.gens[f] <= b.gens[f]
    /\ \A f \in Flows : a.gens[f] # b.gens[f] => op \in {"add", "replace"} /\ q = f
    /\ \A f \in Flows : op = "add" /\ q = f => a.gens[f] < b.gens[f]
    /\ op = "remove" => Exists(a, q)

Changed(h, r, t, op, q) == \E i \in r + 1 .. t : h[i].change.op = op /\ h[i].change.path = q

Uprooted(h, r, t, p) ==
    \E q \in Paths : Under(p, q) /\ (Changed(h, r, t, "add", q) \/ Changed(h, r, t, "remove", q))

Touched(h, r, t, p) ==
    \E q \in Paths : \/ Changed(h, r, t, "status", q) /\ Under(q, p)
                     \/ Changed(h, r, t, "replace", q) /\ Under(p, q)

\* The same of revisions r and t of a session h, and all the changes between.
Stretch(h, r, t) ==
    /\ \A p \in Paths : ~Exists(h[r], p) /\ Exists(h[t], p) => Changed(h, r, t, "add", p)
    /\ \A p \in Paths : Exists(h[r], p) /\ ~Exists(h[t], p) =>
          \E q \in Paths : Under(p, q) /\ Changed(h, r, t, "remove", q)
    /\ \A p \in Paths : Exists(h[r], p) /\ Exists(h[t], p) /\ h[r].tree[p] # h[t].tree[p] =>
          Touched(h, r, t, p) \/ Uprooted(h, r, t, p)
    /\ \A f \in Flows : h[r].gens[f] <= h[t].gens[f]
    /\ \A f \in Flows : h[r].gens[f] # h[t].gens[f] =>
          Changed(h, r, t, "add", f) \/ Changed(h, r, t, "replace", f)
    /\ \A f \in Flows : Changed(h, r, t, "add", f) => h[r].gens[f] < h[t].gens[f]
    /\ \A p \in Paths : p # <<>> /\ Changed(h, r, t, "remove", p) =>
          Exists(h[r], Flow(p)) \/ Changed(h, r, t, "add", Flow(p))

Story(h) ==
    /\ \A i \in DOMAIN h : Sound(h[i])
    /\ \A r \in DOMAIN h, t \in DOMAIN h : r <= t => Stretch(h, r, t)

LEMMA StretchOfOne == ASSUME NEW h \in Seq(Trees), NEW r \in DOMAIN h PROVE Stretch(h, r, r)
<1>1. h[r] \in Trees /\ r \in Nat OBVIOUS
<1>2. r + 1 .. r = {} BY <1>1
<1> QED BY <1>1, <1>2 DEF Stretch, Changed, Trees

LEMMA StoryGrows ==
    ASSUME NEW h \in Seq(Trees), h # <<>>, Story(h), NEW b \in Trees, Sound(b),
           NEW op, NEW q \in Paths, Successor(h[Len(h)], b, op, q)
    PROVE  Story(Append(h, b))
<1> DEFINE n == Len(h)
           k == Append(h, b)
<1>1. n \in Nat /\ n >= 1 /\ n \in DOMAIN h /\ DOMAIN h = 1 .. n OBVIOUS
<1>2. k \in Seq(Trees) /\ DOMAIN k = 1 .. n + 1 /\ k[n + 1] = b /\ \A i \in 1 .. n : k[i] = h[i]
  OBVIOUS
<1> HIDE DEF k
<1>3. \A i \in DOMAIN k : Sound(k[i])
  <2>1. ASSUME NEW i \in DOMAIN k PROVE Sound(k[i])
    <3>1. CASE i = n + 1 BY <1>2, <3>1
    <3>2. CASE i \in 1 .. n BY <1>2, <3>2 DEF Story
    <3> QED BY <1>1, <1>2, <3>1, <3>2
  <2> QED BY <2>1
<1>4. ASSUME NEW r \in 1 .. n, NEW t \in 1 .. n, r <= t PROVE Stretch(k, r, t)
  <2>1. Stretch(h, r, t) BY <1>1, <1>4 DEF Story
  <2>2. \A x, y : Changed(k, r, t, x, y) <=> Changed(h, r, t, x, y)
    BY <1>1, <1>2, <1>4 DEF Changed
  <2>3. \A p : Touched(k, r, t, p) <=> Touched(h, r, t, p) BY <2>2 DEF Touched
  <2>4. \A p : Uprooted(k, r, t, p) <=> Uprooted(h, r, t, p) BY <2>2 DEF Uprooted
  <2>5. k[r] = h[r] /\ k[t] = h[t] BY <1>2, <1>4
  <2> QED BY <2>1, <2>2, <2>3, <2>4, <2>5 DEF Stretch
<1>5. ASSUME NEW r \in 1 .. n PROVE Stretch(k, r, n + 1)
  <2> DEFINE C(x, y) == Changed(k, r, n + 1, x, y)
             B(x, y) == Changed(k, r, n, x, y)
  <2>1. Stretch(k, r, n) BY <1>1, <1>4, <1>5
  <2>2. \A x, y : C(x, y) <=> B(x, y) \/ (op = x /\ q = y)
    <3>1. r + 1 .. n + 1 = (r + 1 .. n) \cup {n + 1} BY <1>1, <1>5
    <3>2. k[n + 1].change.op = op /\ k[n + 1].change.path = q BY <1>2 DEF Successor
    <3> QED BY <3>1, <3>2 DEF Changed
  <2>3. Successor(k[n], k[n + 1], op, q) BY <1>1, <1>2
  <2>4. k[r] \in Trees /\ k[n] \in Trees /\ k[n + 1] \in Trees BY <1>1, <1>2, <1>5
  <2>5. \A f \in Flows : k[r].gens[f] \in Nat /\ k[n].gens[f] \in Nat /\ k[n + 1].gens[f] \in Nat
    BY <2>4 DEF Trees
  <2>6. \A p : Touched(k, r, n, p) => Touched(k, r, n + 1, p) BY <2>2 DEF Touched
  <2>7. \A p : Uprooted(k, r, n, p) => Uprooted(k, r, n + 1, p) BY <2>2 DEF Uprooted
  <2> HIDE DEF C, B
  <2> DEFINE a == k[r]
             m == k[n]
             z == k[n + 1]
  <2>8. ASSUME NEW p \in Paths, ~Exists(a, p), Exists(z, p) PROVE C("add", p)
    BY <2>1, <2>2, <2>3, <2>8 DEF Stretch, Successor, B
  <2>9. ASSUME NEW p \in Paths, Exists(a, p), ~Exists(z, p)
        PROVE  \E x \in Paths : Under(p, x) /\ C("remove", x)
    BY <2>1, <2>2, <2>3, <2>9 DEF Stretch, Successor, B
  <2>10. ASSUME NEW p \in Paths, Exists(a, p), Exists(z, p), a.tree[p] # z.tree[p]
         PROVE  Touched(k, r, n + 1, p) \/ Uprooted(k, r, n + 1, p)
    <3>1. CASE ~Exists(m, p)
      <4>1. PICK x \in Paths : Under(p, x) /\ B("remove", x) BY <2>1, <2>10, <3>1 DEF Stretch, B
      <4> QED BY <2>2, <4>1 DEF Uprooted, C
    <3>2. CASE Exists(m, p) /\ a.tree[p] # m.tree[p]
      BY <2>1, <2>6, <2>7, <2>10, <3>2 DEF Stretch
    <3>3. CASE Exists(m, p) /\ m.tree[p] # z.tree[p]
      BY <2>2, <2>3, <2>10, <3>3 DEF Successor, Touched, C
    <3> QED BY <2>10, <3>1, <3>2, <3>3
  <2>11. ASSUME NEW f \in Flows
         PROVE  /\ a.gens[f] <= z.gens[f]
                /\ a.gens[f] # z.gens[f] => C("add", f) \/ C("replace", f)
                /\ C("add", f) => a.gens[f] < z.gens[f]
    <3>1. a.gens[f] <= m.gens[f] /\ m.gens[f] <= z.gens[f] BY <2>1, <2>3 DEF Stretch, Successor
    <3>2. a.gens[f] # m.gens[f] => B("add", f) \/ B("replace", f) BY <2>1 DEF Stretch, B
    <3>3. m.gens[f] # z.gens[f] => op \in {"add", "replace"} /\ q = f BY <2>3 DEF Successor
    <3>4. B("add", f) => a.gens[f] < m.gens[f] BY <2>1 DEF Stretch, B
    <3>5. op = "add" /\ q = f => m.gens[f] < z.gens[f] BY <2>3 DEF Successor
    <3> QED BY <2>2, <2>5, <3>1, <3>2, <3>3, <3>4, <3>5
  <2>12. ASSUME NEW p \in Paths, p # <<>>, C("remove", p)
         PROVE  Exists(a, Flow(p)) \/ C("add", Flow(p))
    <3>1. CASE B("remove", p) BY <2>1, <2>2, <2>12, <3>1 DEF Stretch, B
    <3>2. CASE op = "remove" /\ q = p
      <4>1. Exists(m, p) BY <2>3, <3>2 DEF Successor
      <4>2. Closed(m) BY <1>1, <1>2 DEF Story, Sound
      <4>3. Flow(p) \in Paths /\ Under(p, Flow(p)) BY <2>12, FlowAbove
      <4>4. Exists(m, Flow(p)) BY <4>1, <4>2, <4>3 DEF Closed
      <4>5. Exists(a, Flow(p)) \/ B("add", Flow(p)) BY <2>1, <4>3, <4>4 DEF Stretch, B
      <4> QED BY <2>2, <4>5
    <3> QED BY <2>2, <2>12, <3>1, <3>2
  <2> QED BY <2>8, <2>9, <2>10, <2>11, <2>12 DEF Stretch, C
<1>6. Stretch(k, n + 1, n + 1) BY <1>1, <1>2, StretchOfOne
<1>7. ASSUME NEW r \in DOMAIN k, NEW t \in DOMAIN k, r <= t PROVE Stretch(k, r, t)
  <2>1. CASE t \in 1 .. n BY <1>1, <1>2, <1>4, <1>7, <2>1
  <2>2. CASE t = n + 1 /\ r \in 1 .. n BY <1>5, <2>2
  <2>3. CASE t = n + 1 /\ r = n + 1 BY <1>6, <2>3
  <2> QED BY <1>1, <1>2, <1>7, <2>1, <2>2, <2>3
<1> QED BY <1>3, <1>7 DEF Story, k

----------------------------------------------------------------------------
(***************************************************************************)
(* The server's steps                                                      *)
(***************************************************************************)

\* Every session is a story.
StoryInv == \A s \in DOMAIN hist : Story(hist[s])

LEMMA CommitTells ==
    ASSUME HistInv, StoryInv, NEW tree \in [Paths -> Statuses \cup {Absent}],
           NEW gens \in [Flows -> Nat], NEW op \in {"none", "status", "remove", "add", "replace"},
           NEW q \in Paths, Commit(tree, gens, op, q),
           \A b : b = [tree |-> tree, gens |-> gens, change |-> [op |-> op, path |-> q]] =>
                    Sound(b) /\ Successor(ServerState, b, op, q)
    PROVE  StoryInv'
<1> DEFINE b == [tree |-> tree, gens |-> gens, change |-> [op |-> op, path |-> q]]
           h == hist[Session]
<1>1. b \in Trees BY DEF Trees
<1>2. hist' = [hist EXCEPT ![Session] = Append(h, b)] BY DEF Commit
<1>3. Sound(b) /\ Successor(ServerState, b, op, q) OBVIOUS
<1> HIDE DEF b
<1>4. h \in Seq(Trees) /\ h # <<>> /\ Story(h) /\ ServerState = h[Len(h)] /\ Session \in DOMAIN hist
  BY HeadFacts DEF HistInv, StoryInv, ServerState, StateAt, ServerHead, Revision
<1> HIDE DEF h
<1>5. Story(Append(h, b)) BY <1>1, <1>3, <1>4, StoryGrows
<1> QED BY <1>2, <1>4, <1>5 DEF StoryInv

\* What is true of the server before any step.
LEMMA ServerNow ==
    ASSUME HistInv, StoryInv
    PROVE  /\ ServerState \in Trees /\ Closed(ServerState)
           /\ ServerState.tree \in [Paths -> Statuses \cup {Absent}]
           /\ ServerState.gens \in [Flows -> Nat]
           /\ \A p : /\ Renewed(p) \in [Flows -> Nat]
                     /\ \A f \in Flows : Renewed(p)[f] = ServerState.gens[f] + (IF p = f THEN 1 ELSE 0)
<1>1. ServerState \in Trees BY HeadFacts
<1>2. Closed(ServerState)
  BY HeadFacts DEF StoryInv, Story, Sound, ServerState, StateAt, ServerHead
<1>3. ServerState.tree \in [Paths -> Statuses \cup {Absent}] /\ ServerState.gens \in [Flows -> Nat]
  BY <1>1 DEF Trees
<1> QED BY <1>1, <1>2, <1>3 DEF Renewed

LEMMA UpdateTells ==
    ASSUME HistInv, StoryInv, NEW p \in Paths, NEW s \in Statuses, ServerUpdates(p, s)
    PROVE  StoryInv'
<1> DEFINE a == ServerState
           tree == [q \in Paths |-> IF Under(p, q) THEN s ELSE a.tree[q]]
<1>1. /\ a \in Trees /\ Closed(a) /\ a.tree \in [Paths -> Statuses \cup {Absent}]
      /\ a.gens \in [Flows -> Nat]
  BY ServerNow
<1>2. Exists(a, p) /\ Commit(tree, a.gens, "status", p) BY DEF ServerUpdates
<1> HIDE DEF a
<1>3. tree \in [Paths -> Statuses \cup {Absent}] BY <1>1
<1>4. ASSUME NEW b, b = [tree |-> tree, gens |-> a.gens, change |-> [op |-> "status", path |-> p]]
      PROVE  Sound(b) /\ Successor(a, b, "status", p)
  <2>1. \A q \in Paths : Exists(b, q) <=> Exists(a, q)
    BY <1>1, <1>2, <1>4, QueryAssumption DEF Exists, Closed
  <2>2. \A q \in Paths : b.tree[q] # a.tree[q] => Under(p, q) BY <1>4
  <2>3. b.gens = a.gens /\ b.change.op = "status" /\ b.change.path = p BY <1>4
  <2>4. \A f \in Flows : a.gens[f] \in Nat BY <1>1
  <2>5. Sound(b) BY <1>1, <2>1, <2>3 DEF Sound, Closed
  <2> QED BY <2>1, <2>2, <2>3, <2>4, <2>5 DEF Successor
<1> QED BY <1>1, <1>2, <1>3, <1>4, CommitTells DEF a

LEMMA RemovalTells ==
    ASSUME HistInv, StoryInv, NEW p \in Paths, ServerRemoves(p)
    PROVE  StoryInv'
<1> DEFINE a == ServerState
           tree == [q \in Paths |-> IF Under(q, p) THEN Absent ELSE a.tree[q]]
<1>1. /\ a \in Trees /\ Closed(a) /\ a.tree \in [Paths -> Statuses \cup {Absent}]
      /\ a.gens \in [Flows -> Nat]
  BY ServerNow
<1>2. p # <<>> /\ Exists(a, p) /\ Commit(tree, a.gens, "remove", p) BY DEF ServerRemoves
<1> HIDE DEF a
<1>3. tree \in [Paths -> Statuses \cup {Absent}] BY <1>1
<1>4. ASSUME NEW b, b = [tree |-> tree, gens |-> a.gens, change |-> [op |-> "remove", path |-> p]]
      PROVE  Sound(b) /\ Successor(a, b, "remove", p)
  <2>1. \A q \in Paths : b.tree[q] = IF Under(q, p) THEN Absent ELSE a.tree[q] BY <1>4
  <2>2. \A q \in Paths : Exists(b, q) <=> Exists(a, q) /\ ~Under(q, p) BY <2>1 DEF Exists
  <2>3. b.gens = a.gens /\ b.change.op = "remove" /\ b.change.path = p BY <1>4
  <2>4. \A f \in Flows : a.gens[f] \in Nat BY <1>1
  <2>5. Closed(b)
    <3>1. ASSUME NEW q \in Paths, NEW x \in Paths, Exists(b, q), Under(q, x) PROVE Exists(b, x)
      <4>1. Exists(a, x) BY <1>1, <2>2, <3>1 DEF Closed
      <4>2. ~Under(x, p) BY <2>2, <3>1, UnderOrder
      <4> QED BY <2>2, <4>1, <4>2
    <3> QED BY <3>1 DEF Closed
  <2>6. Sound(b) BY <1>2, <2>2, <2>3, <2>5, UnderOrder DEF Sound
  <2> QED BY <1>2, <2>1, <2>2, <2>3, <2>4, <2>6 DEF Successor
<1> QED BY <1>1, <1>2, <1>3, <1>4, CommitTells DEF a

LEMMA AdditionTells ==
    ASSUME HistInv, StoryInv, NEW p \in Paths, NEW s \in Statuses, ServerAdds(p, s)
    PROVE  StoryInv'
<1> DEFINE a == ServerState
           tree == [a.tree EXCEPT ![p] = s]
           gens == Renewed(p)
<1>1. /\ a \in Trees /\ Closed(a) /\ a.tree \in [Paths -> Statuses \cup {Absent}]
      /\ \A f \in Flows : a.gens[f] \in Nat
      /\ gens \in [Flows -> Nat]
      /\ \A f \in Flows : gens[f] = a.gens[f] + (IF p = f THEN 1 ELSE 0)
  BY ServerNow
<1>2. p # <<>> /\ ~Exists(a, p) /\ Exists(a, Parent(p)) /\ Commit(tree, gens, "add", p)
  BY DEF ServerAdds
<1> HIDE DEF a, gens
<1>3. tree \in [Paths -> Statuses \cup {Absent}] BY <1>1
<1>4. ASSUME NEW b, b = [tree |-> tree, gens |-> gens, change |-> [op |-> "add", path |-> p]]
      PROVE  Sound(b) /\ Successor(a, b, "add", p)
  <2>1. \A q \in Paths : b.tree[q] = IF q = p THEN s ELSE a.tree[q] BY <1>1, <1>4
  <2>2. \A q \in Paths : Exists(b, q) <=> Exists(a, q) \/ q = p
    BY <2>1, QueryAssumption DEF Exists
  <2>3. b.gens = gens /\ b.change.op = "add" /\ b.change.path = p BY <1>4
  <2>4. Closed(b)
    <3>1. ASSUME NEW q \in Paths, NEW x \in Paths, Exists(b, q), Under(q, x) PROVE Exists(b, x)
      <4>1. CASE Exists(a, q) BY <1>1, <2>2, <3>1, <4>1 DEF Closed
      <4>2. CASE q = p /\ x = p BY <2>2, <4>2
      <4>3. CASE q = p /\ x # p
        <5>1. /\ Parent(p) \in Paths /\ Under(p, Parent(p)) /\ Len(Parent(p)) = Len(p) - 1
          BY <1>2, ParentAbove
        <5>2. Len(x) \in Nat /\ Len(p) \in Nat /\ ~(Len(p) <= Len(x)) BY <3>1, <4>3, UnderOrder
        <5>3. Under(Parent(p), x) BY <3>1, <4>3, <5>1, <5>2, UnderOrder
        <5> QED BY <1>1, <1>2, <2>2, <5>1, <5>3 DEF Closed
      <4> QED BY <2>2, <3>1, <4>1, <4>2, <4>3
    <3> QED BY <3>1 DEF Closed
  <2>5. Sound(b) BY <2>3, <2>4 DEF Sound
  <2> QED BY <1>1, <1>2, <2>1, <2>2, <2>3, <2>5 DEF Successor
<1> QED BY <1>1, <1>2, <1>3, <1>4, CommitTells DEF a

LEMMA ReplacementTells ==
    ASSUME HistInv, StoryInv, NEW p \in Flows, NEW s \in Statuses, ServerReplaces(p, s)
    PROVE  StoryInv'
<1> DEFINE a == ServerState
           tree == [q \in Paths |-> IF Under(q, p) /\ Exists(a, q) THEN s ELSE a.tree[q]]
           gens == Renewed(p)
<1>1. /\ a \in Trees /\ Closed(a) /\ a.tree \in [Paths -> Statuses \cup {Absent}]
      /\ \A f \in Flows : a.gens[f] \in Nat
      /\ gens \in [Flows -> Nat]
      /\ \A f \in Flows : gens[f] = a.gens[f] + (IF p = f THEN 1 ELSE 0)
  BY ServerNow
<1>2. p \in Paths /\ Commit(tree, gens, "replace", p) BY DEF ServerReplaces, Flows
<1> HIDE DEF a, gens
<1>3. tree \in [Paths -> Statuses \cup {Absent}] BY <1>1
<1>4. ASSUME NEW b, b = [tree |-> tree, gens |-> gens, change |-> [op |-> "replace", path |-> p]]
      PROVE  Sound(b) /\ Successor(a, b, "replace", p)
  <2>1. \A q \in Paths : b.tree[q] = IF Under(q, p) /\ Exists(a, q) THEN s ELSE a.tree[q] BY <1>4
  <2>2. \A q \in Paths : Exists(b, q) <=> Exists(a, q) BY <2>1, QueryAssumption DEF Exists
  <2>3. b.gens = gens /\ b.change.op = "replace" /\ b.change.path = p BY <1>4
  <2>4. Sound(b) BY <1>1, <2>2, <2>3 DEF Sound, Closed
  <2> QED BY <1>1, <2>1, <2>2, <2>3, <2>4 DEF Successor
<1> QED BY <1>1, <1>2, <1>3, <1>4, CommitTells DEF a

\* A session of one revision, which no change has made.
LEMMA FirstRevision ==
    ASSUME NEW t \in Trees, Closed(t), t.change = NoChange
    PROVE  Story(<<t>>)
<1>1. <<t>> \in Seq(Trees) /\ DOMAIN <<t>> = {1} /\ <<t>>[1] = t OBVIOUS
<1>2. Sound(t) BY DEF Sound, NoChange
<1>3. Stretch(<<t>>, 1, 1) BY <1>1, StretchOfOne
<1> QED BY <1>1, <1>2, <1>3 DEF Story

LEMMA RestartTells == ASSUME HistInv, StoryInv, ServerRestarts PROVE StoryInv'
<1> DEFINE a == ServerState
           t == [a EXCEPT !.change = NoChange]
<1>1. a \in Trees /\ Closed(a) BY ServerNow
<1>2. hist' = Append(hist, <<t>>) BY DEF ServerRestarts
<1> HIDE DEF a
<1>3. t \in Trees /\ t.tree = a.tree /\ t.change = NoChange BY <1>1, PathFacts DEF Trees, NoChange
<1> HIDE DEF t
<1>4. Closed(t) BY <1>1, <1>3 DEF Closed, Exists
<1> DEFINE h == <<t>>
<1>5. Story(h) /\ h \in Seq(Trees) BY <1>3, <1>4, FirstRevision
<1> HIDE DEF h
<1>6. hist' = Append(hist, h) BY <1>2 DEF h
<1>7. \A s \in DOMAIN hist' : hist'[s] = h \/ (s \in DOMAIN hist /\ hist'[s] = hist[s])
  BY <1>5, <1>6 DEF HistInv
<1> QED BY <1>5, <1>7 DEF StoryInv

LEMMA StoryInit == Init => StoryInv
<1> SUFFICES ASSUME Init PROVE StoryInv OBVIOUS
<1> DEFINE t == InitialState
<1>1. hist = <<<<t>>>> BY DEF Init
<1>2. (CHOOSE s \in Statuses : TRUE) \in Statuses BY QueryAssumption
<1>3. \A p \in Paths : Exists(t, p) <=> p \in InitialPaths
  BY <1>2, QueryAssumption DEF InitialState, Exists
<1>4. t \in Trees /\ t.change = NoChange
  BY QueryAssumption, PathFacts DEF InitialState, Trees, NoChange
<1>5. Closed(t)
  <2>1. ASSUME NEW p \in Paths, NEW x \in Paths, p \in InitialPaths, Under(p, x)
        PROVE  x \in InitialPaths
    <3>1. Len(x) \in 0 .. Len(p) /\ x = SubSeq(p, 1, Len(x)) BY <2>1, UnderMeans DEF Under
    <3> QED BY <2>1, <3>1, QueryAssumption
  <2> QED BY <1>3, <2>1 DEF Closed
<1> HIDE DEF t
<1> QED BY <1>1, <1>4, <1>5, FirstRevision DEF StoryInv

LEMMA StoryStep == ASSUME HistInv, StoryInv, [Next]_vars PROVE StoryInv'
<1>1. CASE hist' = hist BY <1>1 DEF StoryInv
<1>2. CASE Server
  <2>1. CASE \E p \in Paths, s \in Statuses : ServerUpdates(p, s) BY <2>1, UpdateTells
  <2>2. CASE \E p \in Paths, s \in Statuses : ServerAdds(p, s) BY <2>2, AdditionTells
  <2>3. CASE \E p \in Paths : ServerRemoves(p) BY <2>3, RemovalTells
  <2>4. CASE \E f \in Flows, s \in Statuses : ServerReplaces(f, s) BY <2>4, ReplacementTells
  <2>5. CASE ServerRestarts BY <2>5, RestartTells
  <2> QED BY <1>2, <2>1, <2>2, <2>3, <2>4, <2>5 DEF Server
<1>3. CASE \E w \in Workers : Worker(w) BY <1>1, <1>3, WorkerKeepsHist
<1>4. CASE UNCHANGED vars BY <1>1, <1>4 DEF vars
<1> QED BY <1>2, <1>3, <1>4 DEF Next

----------------------------------------------------------------------------
(***************************************************************************)
(* A batch brings a view to the revision it is for                         *)
(***************************************************************************)

\* v shows, without a stale part, revision r of session h.
Shows(v, state) ==
    \A p \in Paths : InView(p) =>
        /\ HasNode(v, p) <=> Exists(state, p)
        /\ HasNode(v, p) => Node(v, p) = state.tree[p]
        /\ HasNode(v, p) /\ p # <<>> /\ Flow(p) \in DOMAIN v.gens =>
              v.gens[Flow(p)] = state.gens[Flow(p)]

\* Above a path of the view there is the scope, and what is between.
LEMMA AboveTheView ==
    ASSUME NEW p \in Paths, InView(p), NEW q \in Paths, Under(p, q)
    PROVE  InView(q) \/ (q # Scope /\ Under(Scope, q))
<1>1. Scope \in Paths /\ Under(p, Scope) /\ Len(p) - Len(Scope) <= Depth
  BY PathFacts DEF InView
<1>2. Len(p) \in Nat /\ Len(q) \in Nat /\ Len(Scope) \in Nat /\ Depth \in Nat
  BY <1>1, UnderOrder, QueryAssumption
<1>3. Len(q) <= Len(p) BY DEF Under
<1>4. CASE Len(Scope) <= Len(q)
  <2>1. Under(q, Scope) BY <1>1, <1>4, UnderOrder
  <2> QED BY <1>1, <1>2, <1>3, <1>4, <2>1 DEF InView
<1>5. CASE Len(q) < Len(Scope)
  <2>1. Under(Scope, q) BY <1>1, <1>2, <1>5, UnderOrder
  <2> QED BY <1>2, <1>5, <2>1
<1> QED BY <1>2, <1>4, <1>5

\* The parts of Operations, in the words of a session's story.
LEMMA OperationsMean ==
    ASSUME HistInv, NEW session \in DOMAIN hist, NEW r \in Nat, NEW t \in DOMAIN hist[session]
    PROVE  LET h == hist[session]
               ops == Operations(session, r, t)
               up == PathsOf(ops, "upsert_summary")
               marked == PathsOf(ops, "invalidate_scope")
           IN  /\ \A q : q \in PathsOf(ops, "remove_subtree") <=>
                            InView(q) /\ Changed(h, r, t, "remove", q)
               /\ \A q \in Paths : q \in up <=>
                     /\ InView(q) /\ Exists(h[t], q)
                     /\ Touched(h, r, t, q) /\ ~Uprooted(h, r, t, q)
               /\ \A q : InView(q) /\ Changed(h, r, t, "add", q) =>
                            (IF q = Scope THEN q ELSE Parent(q)) \in marked
               /\ \A q : /\ q # Scope /\ Under(Scope, q)
                         /\ Changed(h, r, t, "add", q) \/ Changed(h, r, t, "remove", q)
                         => Scope \in marked
               /\ \A o \in ops : /\ o.op \in {"upsert_summary", "remove_subtree", "invalidate_scope"}
                                 /\ o.gen = IF o.path = <<>> THEN 0 ELSE h[t].gens[Flow(o.path)]
                                 /\ o.op = "upsert_summary" => o.status = h[t].tree[o.path]
<1> DEFINE h == hist[session]
           now == hist[session][t]
           changes == {hist[session][i].change : i \in r + 1 .. t}
           changed(op) == {c.path : c \in {d \in changes : d.op = op}}
           gone == changed("remove")
           new == changed("add")
           above(p) == p # Scope /\ Under(Scope, p)
           touched == {p \in Paths : \/ \E q \in changed("status") : Under(q, p)
                                     \/ UnderAny(p, changed("replace"))}
           gen(p) == IF p = <<>> THEN 0 ELSE now.gens[Flow(p)]
           operation(op, p, s) == [op |-> op, path |-> p, gen |-> gen(p), status |-> s]
           upserted == {p \in touched : InView(p) /\ Exists(now, p) /\ ~UnderAny(p, gone \cup new)}
           invalidated == {IF p = Scope THEN p ELSE Parent(p) : p \in {q \in new : InView(q)}}
                          \cup {Scope : p \in {q \in gone \cup new : above(q)}}
           removed == {q \in gone : InView(q)}
           ops == Operations(session, r, t)
<1>1. ops = {operation("upsert_summary", p, now.tree[p]) : p \in upserted}
              \cup {operation("remove_subtree", p, Absent) : p \in removed}
              \cup {operation("invalidate_scope", p, Absent) : p \in invalidated}
  BY Zenon DEF Operations
<1>2. \A op, q : q \in changed(op) <=> Changed(h, r, t, op, q) BY DEF Changed
<1>3. ASSUME NEW op, NEW q, Changed(h, r, t, op, q) PROVE q \in Paths
  <2>1. PICK i \in r + 1 .. t : h[i].change.path = q BY <1>3 DEF Changed
  <2>2. h \in Seq(Trees) /\ i \in DOMAIN h BY DEF HistInv
  <2>3. h[i] \in Trees BY <2>2
  <2> QED BY <2>1, <2>3 DEF Trees
<1>4. \A q \in Paths : q \in touched <=> Touched(h, r, t, q)
  BY <1>2, <1>3 DEF Touched, UnderAny
<1>5. \A q \in Paths : UnderAny(q, gone \cup new) <=> Uprooted(h, r, t, q)
  BY <1>2, <1>3 DEF Uprooted, UnderAny
<1>6. \A q \in Paths : q \in upserted <=>
        InView(q) /\ Exists(h[t], q) /\ Touched(h, r, t, q) /\ ~Uprooted(h, r, t, q)
  BY <1>4, <1>5
<1>7. \A q : q \in removed <=> InView(q) /\ Changed(h, r, t, "remove", q) BY <1>2
<1>8. \A q : InView(q) /\ Changed(h, r, t, "add", q) =>
        (IF q = Scope THEN q ELSE Parent(q)) \in invalidated
  BY <1>2
<1>9. \A q : /\ q # Scope /\ Under(Scope, q)
             /\ Changed(h, r, t, "add", q) \/ Changed(h, r, t, "remove", q)
             => Scope \in invalidated
  BY <1>2
<1> HIDE DEF upserted, removed, invalidated, ops
<1>10. ASSUME NEW o \in ops
       PROVE  \/ o.op = "upsert_summary" /\ o.path \in upserted
              \/ o.op = "remove_subtree" /\ o.path \in removed
              \/ o.op = "invalidate_scope" /\ o.path \in invalidated
  BY <1>1, <1>10
<1>11. \A p \in upserted : \E o \in ops : o.op = "upsert_summary" /\ o.path = p
  <2>1. ASSUME NEW p \in upserted PROVE \E o \in ops : o.op = "upsert_summary" /\ o.path = p
    <3>1. operation("upsert_summary", p, now.tree[p]) \in ops BY <1>1, <2>1
    <3> QED BY <3>1
  <2> QED BY <2>1
<1>12. \A p \in removed : \E o \in ops : o.op = "remove_subtree" /\ o.path = p
  <2>1. ASSUME NEW p \in removed PROVE \E o \in ops : o.op = "remove_subtree" /\ o.path = p
    <3>1. operation("remove_subtree", p, Absent) \in ops BY <1>1, <2>1
    <3> QED BY <3>1
  <2> QED BY <2>1
<1>13. \A p \in invalidated : \E o \in ops : o.op = "invalidate_scope" /\ o.path = p
  <2>1. ASSUME NEW p \in invalidated PROVE \E o \in ops : o.op = "invalidate_scope" /\ o.path = p
    <3>1. operation("invalidate_scope", p, Absent) \in ops BY <1>1, <2>1
    <3> QED BY <3>1
  <2> QED BY <2>1
<1>14. /\ PathsOf(ops, "upsert_summary") = upserted
       /\ PathsOf(ops, "remove_subtree") = removed
       /\ PathsOf(ops, "invalidate_scope") = invalidated
  BY <1>10, <1>11, <1>12, <1>13 DEF PathsOf
<1>15. \A o \in ops : /\ o.op \in {"upsert_summary", "remove_subtree", "invalidate_scope"}
                      /\ o.gen = IF o.path = <<>> THEN 0 ELSE h[t].gens[Flow(o.path)]
                      /\ o.op = "upsert_summary" => o.status = h[t].tree[o.path]
  BY <1>1
<1> QED BY <1>6, <1>7, <1>8, <1>9, <1>14, <1>15 DEF ops

\* The view after a batch, whichever of the two ways it is made.
LEMMA NextViewMeans ==
    ASSUME NEW v, IsView(v), NEW t, NEW ops, UpsertsKnown(v, ops), ops \subseteq Ops, BatchFits(v, ops)
    PROVE  LET n == NextView(v, t, ops)
               up == PathsOf(ops, "upsert_summary")
               gone == PathsOf(ops, "remove_subtree")
           IN  /\ n.session = v.session /\ n.revision = t
               /\ \A p : HasNode(n, p) <=> HasNode(v, p) /\ ~UnderAny(p, gone)
               /\ \A p : HasNode(n, p) => Node(n, p) = IF p \in up THEN StatusMap(ops)[p] ELSE Node(v, p)
               /\ DOMAIN n.gens \subseteq DOMAIN v.gens
               /\ \A f \in DOMAIN n.gens : n.gens[f] = v.gens[f]
               /\ \A p : p \in n.stale <=>
                     p \in v.stale \cup PathsOf(ops, "invalidate_scope") /\ ~UnderAny(p, gone)
               /\ HasNode(v, Scope) => HasNode(n, Scope)
               /\ ~UnderAny(Scope, gone)
               /\ \A f \in DOMAIN v.gens : HasNode(n, f) => f \in DOMAIN n.gens
               /\ \A f \in DOMAIN n.gens \ DOMAIN n.nodes : gone = {}
<1> DEFINE n == NextView(v, t, ops)
           up == PathsOf(ops, "upsert_summary")
           gone == PathsOf(ops, "remove_subtree")
           marked == PathsOf(ops, "invalidate_scope")
           over == Overlay(v.over, StatusMap(ops))
<1>1. DOMAIN v = {"id", "session", "revision", "nodes", "over", "gens", "stale"} BY DEF IsView
<1>2. up \subseteq DOMAIN v.nodes /\ DOMAIN StatusMap(ops) = up BY StatusMapTyped
<1>3. /\ DOMAIN over = DOMAIN v.over \cup up
      /\ \A p \in DOMAIN over : over[p] = IF p \in up THEN StatusMap(ops)[p] ELSE v.over[p]
  BY <1>2 DEF Overlay
<1>4. CASE gone = {}
  <2>1. n = WithOverrides(v, t, ops) BY <1>4 DEF NextView
  <2>2. /\ n.session = v.session /\ n.revision = t /\ n.nodes = v.nodes
        /\ n.over = over /\ n.gens = v.gens /\ n.stale = v.stale \cup marked
    BY <1>1, <2>1 DEF WithOverrides
  <2>3. \A p : ~UnderAny(p, gone) BY <1>4 DEF UnderAny
  <2> HIDE DEF n, over, up, gone, marked
  <2>4. \A p : HasNode(n, p) => Node(n, p) = IF p \in up THEN StatusMap(ops)[p] ELSE Node(v, p)
    BY <1>3, <2>2 DEF Node
  <2> QED BY <1>4, <2>2, <2>3, <2>4 DEF HasNode, n, up, gone, marked
<1>5. CASE gone # {}
  <2> DEFINE kept == Remaining(v, ops)
             upserted == Overlay(v.nodes, over)
  <2>1. n = WithoutRemoved(v, t, ops) BY <1>5 DEF NextView
  <2>2. /\ n.session = v.session /\ n.revision = t
        /\ n.nodes = [p \in kept |-> upserted[p]] /\ n.over = EmptyMap
        /\ n.gens = [f \in DOMAIN v.gens \cap kept |-> v.gens[f]]
        /\ n.stale = {p \in v.stale \cup marked : ~UnderAny(p, gone)}
    BY <1>1, <2>1 DEF WithoutRemoved
  <2>3. \A p : p \in kept <=> p \in DOMAIN v.nodes /\ ~UnderAny(p, gone) BY DEF Remaining
  <2>4. \A p \in DOMAIN v.nodes : upserted[p] = IF p \in DOMAIN over THEN over[p] ELSE v.nodes[p]
    BY DEF Overlay
  <2>5. Scope \in kept BY <1>5 DEF BatchFits, RemovalFits
  <2> HIDE DEF n, over, up, gone, marked, kept, upserted
  <2>6. DOMAIN n.nodes = kept /\ DOMAIN n.over = {} /\ DOMAIN n.gens = DOMAIN v.gens \cap kept
    BY <2>2 DEF EmptyMap
  <2>7. \A p : HasNode(n, p) => Node(n, p) = IF p \in up THEN StatusMap(ops)[p] ELSE Node(v, p)
    BY <1>3, <2>2, <2>3, <2>4, <2>6 DEF Node, HasNode
  <2>8. \A f \in DOMAIN n.gens : n.gens[f] = v.gens[f] BY <2>2
  <2>9. \A p : p \in n.stale <=> p \in v.stale \cup marked /\ ~UnderAny(p, gone) BY <2>2
  <2>10. \A p : HasNode(n, p) <=> HasNode(v, p) /\ ~UnderAny(p, gone)
    BY <2>3, <2>6 DEF HasNode
  <2>11. HasNode(n, Scope) /\ ~UnderAny(Scope, gone) BY <2>3, <2>5, <2>6 DEF HasNode
  <2>12. /\ DOMAIN n.gens \subseteq DOMAIN v.gens
         /\ \A f \in DOMAIN v.gens : HasNode(n, f) => f \in DOMAIN n.gens
         /\ DOMAIN n.gens \ DOMAIN n.nodes = {}
    BY <2>6 DEF HasNode
  <2>13. n.session = v.session /\ n.revision = t BY <2>2
  <2> QED BY <2>7, <2>8, <2>9, <2>10, <2>11, <2>12, <2>13 DEF n, up, gone, marked
<1> QED BY <1>4, <1>5

\* The value that a batch gives to a node is the server's.
LEMMA StatusMapMeans ==
    ASSUME NEW state, NEW ops, \A o \in ops : o.op = "upsert_summary" => o.status = state.tree[o.path],
           NEW p \in PathsOf(ops, "upsert_summary")
    PROVE  StatusMap(ops)[p] = state.tree[p]
<1>1. \E o \in ops : o.op = "upsert_summary" /\ o.path = p BY DEF PathsOf
<1> DEFINE m == CHOOSE o \in ops : o.op = "upsert_summary" /\ o.path = p
<1>2. m \in ops /\ m.op = "upsert_summary" /\ m.path = p BY <1>1
<1>3. StatusMap(ops)[p] = m.status BY DEF StatusMap
<1> HIDE DEF m
<1> QED BY <1>2, <1>3

\* The whole batch, applied to the tree of revision r, shows that of revision t
\* wherever it leaves the view's parts fresh.
LEMMA BatchShows ==
    ASSUME HistInv, StoryInv, NEW session \in DOMAIN hist,
           NEW r \in DOMAIN hist[session], NEW t \in DOMAIN hist[session], r <= t,
           NEW j, IsView(j.view), j.view.stale = {}, Shows(j.view, hist[session][r]),
           NEW ops, ops = Operations(session, r, t), UpsertsKnown(j.view, ops), BatchFits(j.view, ops),
           \A o \in ops : FlowKept(j, o)
    PROVE  \A p \in Paths : InView(p) /\ ~IsStale(NextView(j.view, t, ops), p) =>
              LET n == NextView(j.view, t, ops) IN
              /\ HasNode(n, p) <=> Exists(hist[session][t], p)
              /\ HasNode(n, p) => Node(n, p) = hist[session][t].tree[p]
              /\ HasNode(n, p) /\ p # <<>> /\ Flow(p) \in DOMAIN n.gens =>
                    n.gens[Flow(p)] = hist[session][t].gens[Flow(p)]
<1> DEFINE h == hist[session]
           v == j.view
           n == NextView(v, t, ops)
           up == PathsOf(ops, "upsert_summary")
           gone == PathsOf(ops, "remove_subtree")
           marked == PathsOf(ops, "invalidate_scope")
           C(op, q) == Changed(h, r, t, op, q)
<1>1. /\ h \in Seq(Trees) /\ r \in Nat /\ t \in Nat /\ r \in DOMAIN h /\ t \in DOMAIN h
      /\ DOMAIN h = 1 .. Len(h) /\ Len(h) \in Nat
  BY DEF HistInv
<1>2. ops \subseteq Ops BY <1>1, OperationsTyped
<1>3. /\ \A q : q \in gone <=> InView(q) /\ C("remove", q)
      /\ \A q \in Paths : q \in up <=>
            InView(q) /\ Exists(h[t], q) /\ Touched(h, r, t, q) /\ ~Uprooted(h, r, t, q)
      /\ \A q : InView(q) /\ C("add", q) => (IF q = Scope THEN q ELSE Parent(q)) \in marked
      /\ \A q : q # Scope /\ Under(Scope, q) /\ (C("add", q) \/ C("remove", q)) => Scope \in marked
      /\ \A o \in ops : /\ o.gen = IF o.path = <<>> THEN 0 ELSE h[t].gens[Flow(o.path)]
                        /\ o.op = "upsert_summary" => o.status = h[t].tree[o.path]
  BY <1>1, OperationsMean
<1>4. /\ \A p : HasNode(n, p) <=> HasNode(v, p) /\ ~UnderAny(p, gone)
      /\ \A p : HasNode(n, p) => Node(n, p) = IF p \in up THEN StatusMap(ops)[p] ELSE Node(v, p)
      /\ DOMAIN n.gens \subseteq DOMAIN v.gens
      /\ \A f \in DOMAIN n.gens : n.gens[f] = v.gens[f]
      /\ \A p : p \in n.stale <=> p \in marked /\ ~UnderAny(p, gone)
      /\ ~UnderAny(Scope, gone)
  BY <1>2, NextViewMeans
<1>5. Stretch(h, r, t) BY <1>1 DEF StoryInv, Story
<1>6. Closed(h[t]) /\ \A i \in DOMAIN h : Sound(h[i]) BY <1>1 DEF StoryInv, Story, Sound
<1>7. marked \subseteq Paths /\ gone \subseteq Paths BY <1>2 DEF PathsOf, Ops
<1>8. Scope \in Paths BY PathFacts
<1>9. \A p \in up : StatusMap(ops)[p] = h[t].tree[p] BY <1>3, StatusMapMeans
<1> SUFFICES ASSUME NEW p \in Paths, InView(p), ~IsStale(n, p)
             PROVE  /\ HasNode(n, p) <=> Exists(h[t], p)
                    /\ HasNode(n, p) => Node(n, p) = h[t].tree[p]
                    /\ HasNode(n, p) /\ p # <<>> /\ Flow(p) \in DOMAIN n.gens =>
                          n.gens[Flow(p)] = h[t].gens[Flow(p)]
  OBVIOUS
<1>10. Shows(v, h[r]) /\ v.stale = {} OBVIOUS
<1>11. \A o \in ops : o.op = "invalidate_scope" \/ (o.op = "upsert_summary" /\ o.path = <<>>)
                      \/ (o.path # <<>> /\ SameGeneration(v, o))
  BY DEF FlowKept
<1> HIDE DEF n, up, gone, marked, C, h, v
\* Nothing above the scope was added or removed.
<1>12. \A q \in marked : Under(p, q) => UnderAny(q, gone)
  BY <1>4 DEF IsStale, UnderAny
<1>13. Scope \notin marked BY <1>4, <1>12 DEF InView
<1>14. ASSUME NEW q \in Paths, Under(p, q), C("add", q) \/ C("remove", q) PROVE InView(q)
  BY <1>3, <1>13, <1>14, AboveTheView
\* What was added under p's eyes was removed with something above it.
<1>15. ASSUME NEW q \in Paths, Under(p, q), C("add", q)
       PROVE  /\ q # Scope /\ q # <<>> /\ UnderAny(Parent(q), gone)
              /\ Parent(q) \in Paths /\ Under(p, Parent(q)) /\ Len(Parent(q)) = Len(q) - 1
              /\ Under(q, Parent(q))
  <2>1. InView(q) BY <1>14, <1>15
  <2>2. q # Scope BY <1>3, <1>13, <1>15, <2>1
  <2>3. Parent(q) \in marked BY <1>3, <1>15, <2>1, <2>2
  <2>4. q # <<>>
    <3>1. ASSUME q = <<>> PROVE FALSE
      <4>1. Len(q) = 0 /\ Under(q, Scope) /\ Len(Scope) \in Nat
        BY <1>8, <2>1, <3>1, UnderOrder DEF InView
      <4>2. Len(q) <= Len(Scope) BY <4>1
      <4> QED BY <1>8, <2>2, <4>1, <4>2, UnderOrder
    <3> QED BY <3>1
  <2>5. Parent(q) \in Paths /\ Under(q, Parent(q)) /\ Len(Parent(q)) = Len(q) - 1
    BY <2>4, ParentAbove
  <2>6. Under(p, Parent(q)) BY <1>15, <2>5, UnderOrder
  <2> QED BY <1>12, <2>2, <2>3, <2>4, <2>5, <2>6
\* What was removed and is fresh is not there.
<1>16. CASE UnderAny(p, gone)
  <2> DEFINE T == {Len(q) : q \in {x \in gone : Under(p, x)}}
  <2>1. T \in SUBSET Nat /\ T # {}
    <3>1. \A x \in gone : Len(x) \in Nat BY <1>7, UnderOrder
    <3>2. PICK x \in gone : Under(p, x) BY <1>16 DEF UnderAny
    <3>3. Len(x) \in T BY <3>2
    <3> QED BY <3>1, <3>3
  <2>2. PICK m \in T : \A k \in T : m <= k BY <2>1, Least
  <2>3. PICK x \in gone : Under(p, x) /\ Len(x) = m BY <2>2
  <2>4. \A y \in gone : Under(p, y) => Len(x) <= Len(y) BY <2>2, <2>3
  <2>5. x \in Paths /\ C("remove", x) BY <1>3, <1>7, <2>3
  <2>6. ASSUME Exists(h[t], p) PROVE FALSE
    <3>1. Exists(h[t], x) BY <1>6, <2>3, <2>5, <2>6 DEF Closed
    <3>2. PICK i \in r + 1 .. t : h[i].change.op = "remove" /\ h[i].change.path = x
      BY <2>5 DEF C, Changed
    <3>3. i \in DOMAIN h /\ i <= t BY <1>1
    <3>4. ~Exists(h[i], x) BY <1>6, <3>2, <3>3 DEF Sound
    <3>5. Stretch(h, i, t) BY <1>1, <3>3 DEF StoryInv, Story, h
    <3>6. Changed(h, i, t, "add", x) BY <2>5, <3>1, <3>4, <3>5 DEF Stretch
    <3>7. C("add", x) BY <1>1, <3>6 DEF C, Changed
    <3>8. /\ UnderAny(Parent(x), gone) /\ Parent(x) \in Paths /\ Under(p, Parent(x))
          /\ Len(Parent(x)) = Len(x) - 1
      BY <1>15, <2>3, <2>5, <3>7
    <3>9. PICK y \in gone : Under(Parent(x), y) BY <3>8 DEF UnderAny
    <3>10. y \in Paths BY <1>7
    <3>11. Under(p, y) BY <3>8, <3>9, <3>10, UnderOrder
    <3>12. Len(y) <= Len(Parent(x)) BY <3>9 DEF Under
    <3>13. Len(x) \in Nat /\ Len(y) \in Nat BY <2>5, <3>10, UnderOrder
    <3> QED BY <2>4, <3>8, <3>11, <3>12, <3>13
  <2> QED BY <1>4, <1>16, <2>6
\* Everything else is as it was, or among the operations.
<1>17. CASE ~UnderAny(p, gone)
  <2>1. ASSUME NEW q \in Paths, Under(p, q), C("remove", q) PROVE FALSE
    BY <1>3, <1>14, <1>17, <2>1 DEF UnderAny
  <2>2. ASSUME NEW q \in Paths, Under(p, q), C("add", q) PROVE FALSE
    <3>1. UnderAny(Parent(q), gone) /\ Parent(q) \in Paths /\ Under(p, Parent(q)) BY <1>15, <2>2
    <3>2. PICK y \in gone : Under(Parent(q), y) BY <3>1 DEF UnderAny
    <3>3. Under(p, y) BY <1>7, <3>1, <3>2, UnderOrder
    <3> QED BY <1>17, <3>3 DEF UnderAny
  <2>3. ~Uprooted(h, r, t, p) BY <2>1, <2>2 DEF Uprooted, C
  <2>4. Exists(h[r], p) <=> Exists(h[t], p)
    BY <1>5, <2>1, <2>2, UnderOrder DEF Stretch, C
  <2>5. HasNode(n, p) <=> Exists(h[t], p) BY <1>4, <1>10, <1>17, <2>4 DEF Shows
  <2>6. ASSUME HasNode(n, p) PROVE Node(n, p) = h[t].tree[p]
    <3>1. CASE p \in up BY <1>4, <1>9, <2>6, <3>1
    <3>2. CASE p \notin up
      <4>1. ~Touched(h, r, t, p) BY <1>3, <2>3, <2>5, <2>6, <3>2
      <4>2. h[r].tree[p] = h[t].tree[p] BY <1>5, <2>3, <2>4, <2>5, <2>6, <4>1 DEF Stretch
      <4> QED BY <1>4, <1>10, <2>6, <3>2, <4>2 DEF Shows
    <3> QED BY <3>1, <3>2
  <2>7. ASSUME HasNode(n, p), p # <<>>, Flow(p) \in DOMAIN n.gens
        PROVE  n.gens[Flow(p)] = h[t].gens[Flow(p)]
    <3> DEFINE f == Flow(p)
    <3>1. f \in Flows /\ f \in Paths /\ Under(p, f) BY <2>7, FlowAbove
    <3>2. n.gens[f] = v.gens[f] /\ v.gens[f] = h[r].gens[f]
      BY <1>4, <1>10, <2>7 DEF Shows
    <3>3. ~C("add", f) BY <2>2, <3>1
    <3>4. CASE C("replace", f)
      <4>1. Touched(h, r, t, p) BY <3>1, <3>4 DEF Touched, C
      <4>2. p \in up BY <1>3, <2>3, <2>5, <2>7, <4>1
      <4>3. PICK o \in ops : o.op = "upsert_summary" /\ o.path = p BY <4>2 DEF up, PathsOf
      <4>4. SameGeneration(v, o) BY <1>11, <2>7, <4>3
      <4>5. o.gen = h[t].gens[f] BY <1>3, <2>7, <4>3
      <4> QED BY <3>2, <4>3, <4>4, <4>5 DEF SameGeneration
    <3>5. CASE ~C("replace", f) BY <1>5, <3>1, <3>2, <3>3, <3>5 DEF Stretch, C
    <3> QED BY <3>4, <3>5
  <2> QED BY <2>5, <2>6, <2>7
<1> QED BY <1>16, <1>17

----------------------------------------------------------------------------
(***************************************************************************)
(* What a goroutine holds                                                  *)
(***************************************************************************)

\* A view that can hold flows knows the generations of those it holds.
FlowsKnown(v) ==
    Len(Scope) <= 1 => \A f \in Flows : InView(f) => (f \in DOMAIN v.gens <=> HasNode(v, f))

\* A published view is one revision, with its root and no loose node.
Whole(v) ==
    /\ Matches(v)
    /\ HasNode(v, Scope)
    /\ \A p \in DOMAIN v.nodes : InView(p) /\ (p # Scope => HasNode(v, Parent(p)))
    /\ FlowsKnown(v)

SummaryAt(cap, p) ==
    [path |-> p, status |-> StateAt(cap).tree[p],
     gen |-> IF p = <<>> THEN 0 ELSE StateAt(cap).gens[Flow(p)]]

\* The summaries read so far are those of one capture.
Captured(cap, got) ==
    \A n \in got :
        /\ InView(n.path) /\ Exists(StateAt(cap), n.path) /\ n = SummaryAt(cap, n.path)
        /\ n.path = Scope \/ Parent(n.path) \in {m.path : m \in got}

TreeJob(j) ==
    /\ j.pc \in {"lockSince", "since"} => j.view.stale = {}
    /\ j.pc = "snapshot" => Captured(j.cap, j.got) /\ (j.index = 0 => j.got = {})
    /\ j.pc = "since" => \A o \in j.got : FlowKept(j, o)
    /\ Given(j) => /\ IsView(j.view) /\ Valid(Watermark(j.view))
                   /\ j.view.stale = {} /\ Matches(j.view)
    /\ j.outcome = "flow identity changed" =>
          Valid(Watermark(j.view)) /\ (FlowReallyChanged(j) \/ FlowForgotten(j.view))

TreeInv ==
    /\ lastId > 0 => Whole(current)
    /\ \A w \in Workers : TreeJob(job[w])

LEMMA PublishWhole ==
    ASSUME NEW v, IsView(v), Whole(v), Allocate(v), hist' = hist
    PROVE  Whole(current)' /\ Matches(current') /\ current'.stale = v.stale
<1>1. DOMAIN v = {"id", "session", "revision", "nodes", "over", "gens", "stale"} BY DEF IsView
<1>2. current' = [v EXCEPT !.id = lastId + 1] BY DEF Allocate
<1>3. /\ current'.session = v.session /\ current'.revision = v.revision
      /\ current'.nodes = v.nodes /\ current'.over = v.over /\ current'.stale = v.stale
      /\ current'.gens = v.gens
  BY <1>1, <1>2
<1> QED BY <1>3 DEF Whole, FlowsKnown, Matches, HasNode, Node, IsStale, StateAt

\* Calling more of a view stale makes it no less true.
LEMMA StaleWhole ==
    ASSUME NEW v, IsView(v), Whole(v), NEW scope
    PROVE  Whole([v EXCEPT !.stale = @ \cup {scope}])
<1> DEFINE n == [v EXCEPT !.stale = @ \cup {scope}]
<1>1. DOMAIN v = {"id", "session", "revision", "nodes", "over", "gens", "stale"} BY DEF IsView
<1>2. /\ n.session = v.session /\ n.revision = v.revision
      /\ n.nodes = v.nodes /\ n.over = v.over /\ n.stale = v.stale \cup {scope}
      /\ n.gens = v.gens
  BY <1>1
<1> HIDE DEF n
<1>3. \A p : IsStale(v, p) => IsStale(n, p) BY <1>2 DEF IsStale, UnderAny
<1>4. Whole(n) BY <1>2, <1>3 DEF Whole, FlowsKnown, Matches, HasNode, Node
<1> QED BY <1>4 DEF n

\* A page that passes the tests continues the capture.
LEMMA PageCaptured ==
    ASSUME NEW j, j.index \in Nat, Captured(j.cap, j.got), j.index = 0 => j.got = {},
           NEW page \in SnapshotPages(j), PageAccepted(j, page)
    PROVE  LET cap == IF j.index = 0 THEN page.cap ELSE j.cap
           IN  page.cap = cap /\ Captured(cap, j.got \cup Summaries(page))
<1> DEFINE cap == IF j.index = 0 THEN page.cap ELSE j.cap
           got == j.got \cup Summaries(page)
<1>1. page.index \in {j.index, j.index + 1} /\ page.nodes \in SUBSET Paths
      /\ \A p \in page.nodes : Exists(StateAt(page.cap), p)
  BY DEF SnapshotPages
<1>2. /\ j.index > 0 => page.cap = j.cap
      /\ \A p \in page.nodes : InView(p) /\ (p = Scope \/ Parent(p) \in {n.path : n \in j.got} \cup page.nodes)
  BY DEF PageAccepted, NodesFit
<1>3. Summaries(page) = {SummaryAt(page.cap, p) : p \in page.nodes} BY DEF Summaries, SummaryAt
<1>4. \A p : SummaryAt(page.cap, p).path = p BY DEF SummaryAt
<1>5. {n.path : n \in got} = {n.path : n \in j.got} \cup page.nodes BY <1>3, <1>4
<1>6. page.cap = cap /\ (j.got # {} => page.cap = j.cap) BY <1>2
<1> HIDE DEF cap, got
<1>7. ASSUME NEW n \in got
      PROVE  /\ InView(n.path) /\ Exists(StateAt(cap), n.path) /\ n = SummaryAt(cap, n.path)
             /\ n.path = Scope \/ Parent(n.path) \in {m.path : m \in got}
  <2>1. CASE n \in j.got BY <1>5, <1>6, <2>1 DEF Captured
  <2>2. CASE n \in Summaries(page)
    <3>1. PICK p \in page.nodes : n = SummaryAt(page.cap, p) /\ n.path = p BY <1>3, <1>4, <2>2
    <3> QED BY <1>1, <1>2, <1>5, <1>6, <3>1
  <2> QED BY <1>7, <2>1, <2>2 DEF got
<1>8. Captured(cap, got) BY <1>7 DEF Captured
<1> QED BY <1>6, <1>8 DEF cap, got

\* A capture with its root and as many nodes as the server counts is whole.
LEMMA SnapshotWhole ==
    ASSUME HistInv, StoryInv, NEW cap \in Nat \X Nat, Valid(cap), NEW got, got \subseteq Nodes,
           IsFiniteSet(got), Captured(cap, got), SnapshotComplete(cap, got)
    PROVE  Whole(SnapshotView(cap, got)) /\ SnapshotView(cap, got).stale = {}
<1> DEFINE v == SnapshotView(cap, got)
           state == StateAt(cap)
           paths == {n.path : n \in got}
           flows == {Flow(p) : p \in paths \ {<<>>}}
           all == {p \in Paths : Exists(state, p) /\ InView(p)}
           f == [p \in paths |-> SummaryAt(cap, p)]
<1>1. /\ v.session = cap[1] /\ v.revision = cap[2] /\ v.over = EmptyMap /\ v.stale = {}
      /\ v.nodes = [p \in paths |-> (CHOOSE n \in got : n.path = p).status]
      /\ v.gens = [g \in flows |-> (CHOOSE n \in got : n.path # <<>> /\ Flow(n.path) = g).gen]
  BY DEF SnapshotView
<1>2. StateAt(<<v.session, v.revision>>) = state BY <1>1 DEF StateAt
<1> HIDE DEF v, state
<1>3. paths \subseteq all BY DEF Captured, Nodes, state
<1>4. got = {f[p] : p \in paths}
  <2>1. \A n \in got : n = f[n.path] BY DEF Captured
  <2> HIDE DEF f
  <2> QED BY <2>1
<1>5. IsFiniteSet(all) /\ Cardinality(all) \in Nat BY QueryAssumption, FS_Subset, FS_CardinalityType
<1>6. Cardinality(got) = Cardinality(all) /\ Scope \in paths
  BY DEF SnapshotComplete, TotalNodes, state
<1>7. DOMAIN f = paths OBVIOUS
<1> HIDE DEF f
<1>8. paths = all
  <2>1. IsFiniteSet(paths) /\ Cardinality(paths) <= Cardinality(all) /\ Cardinality(paths) \in Nat
    BY <1>3, <1>5, FS_Subset, FS_CardinalityType
  <2>2. Cardinality(got) <= Cardinality(paths) BY <1>4, <1>7, <2>1, ImageFits
  <2>3. Cardinality(paths) = Cardinality(all) BY <1>5, <1>6, <2>1, <2>2
  <2> HIDE DEF all, paths
  <2> QED BY <1>3, <1>5, <2>3, FS_Subset
<1>9. ASSUME NEW p \in paths PROVE v.nodes[p] = state.tree[p]
  <2> DEFINE m == CHOOSE n \in got : n.path = p
  <2>1. m \in got /\ m.path = p BY <1>9
  <2>2. v.nodes[p] = m.status BY <1>1, <1>9
  <2> HIDE DEF m
  <2>3. m = SummaryAt(cap, p) BY <2>1 DEF Captured
  <2> QED BY <2>2, <2>3 DEF SummaryAt, state
<1>10. ASSUME NEW g \in flows PROVE v.gens[g] = state.gens[g]
  <2> DEFINE m == CHOOSE n \in got : n.path # <<>> /\ Flow(n.path) = g
  <2>1. m \in got /\ m.path # <<>> /\ Flow(m.path) = g BY <1>10
  <2>2. v.gens[g] = m.gen BY <1>1, <1>10
  <2> HIDE DEF m
  <2>3. m = SummaryAt(cap, m.path) BY <2>1 DEF Captured
  <2> QED BY <2>1, <2>2, <2>3 DEF SummaryAt, state
<1>11. DOMAIN v.nodes = paths /\ DOMAIN v.gens = flows /\ DOMAIN v.over = {} BY <1>1 DEF EmptyMap
<1>12. \A p \in paths : InView(p) /\ (p # Scope => Parent(p) \in paths) BY DEF Captured
<1>13. Matches(v)
  <2> HIDE DEF paths, flows
  <2>1. \A p \in Paths : InView(p) => (HasNode(v, p) <=> Exists(state, p))
    BY <1>8, <1>11 DEF HasNode
  <2>2. \A p : HasNode(v, p) => Node(v, p) = state.tree[p] BY <1>9, <1>11 DEF HasNode, Node
  <2> QED BY <1>2, <1>10, <1>11, <2>1, <2>2 DEF Matches
<1>14. FlowsKnown(v)
  <2>1. ASSUME NEW g \in Flows, InView(g), Len(Scope) <= 1, g \in flows PROVE g \in paths
    <3>1. PICK p \in paths : p # <<>> /\ g = Flow(p) BY <2>1
    <3>2. p \in Paths /\ Exists(state, p) BY <1>8, <3>1
    <3>3. g \in Paths /\ Under(p, g) BY <3>1, <3>2, FlowAbove
    <3>4. Closed(state) BY DEF state, StateAt, Valid, StoryInv, Story, Sound
    <3>5. Exists(state, g) BY <3>2, <3>3, <3>4 DEF Closed
    <3> QED BY <1>8, <2>1, <3>3, <3>5
  <2>2. ASSUME NEW g \in Flows, g \in paths PROVE g \in flows
    <3>1. Len(g) = 1 /\ g \in Paths BY DEF Flows
    <3>2. g # <<>> /\ Flow(g) = g BY <3>1, UnderOrder, FlowAbove
    <3> QED BY <2>2, <3>2
  <2> HIDE DEF paths, flows
  <2> QED BY <1>11, <2>1, <2>2 DEF FlowsKnown, HasNode
<1> HIDE DEF paths, flows
<1> QED BY <1>1, <1>6, <1>11, <1>12, <1>13, <1>14 DEF Whole, HasNode, v

LEMMA SameViewWhole ==
    ASSUME TreeInv, UNCHANGED <<current, lastId>>, hist' = hist
    PROVE  lastId' > 0 => Whole(current)'
BY DEF TreeInv, Whole, FlowsKnown, Matches, StateAt

OwnTree(w) == (lastId' > 0 => Whole(current)') /\ TreeJob(job[w])'

LEMMA ReturnTree ==
    ASSUME ContentsInv, NEW w \in Workers, NEW outcome, outcome \notin {"ok", "flow identity changed"},
           Return(w, outcome)
    PROVE  TreeJob(job[w])'
<1>1. DOMAIN job = Workers /\ DOMAIN job[w] = JobFields BY DEF ContentsInv, JobInv
<1>2. job'[w].pc = "done" /\ job'[w].outcome = outcome BY <1>1 DEF Return, JobFields
<1> QED BY <1>2 DEF TreeJob, Given

LEMMA PollingTree ==
    ASSUME ContentsInv, NEW w \in Workers, NEW v, Polling(w, v), job[w].pc \in Reading, hist' = hist,
           IsView(v), Valid(Watermark(v)), v.stale = {}, Matches(v)
    PROVE  TreeJob(job[w])'
<1>1. /\ DOMAIN job = Workers /\ DOMAIN job[w] = JobFields /\ job[w].outcome = "running"
  BY DEF ContentsInv, JobInv, Reading
<1>2. /\ job'[w].pc = (IF job[w].polls = 0 THEN "returning" ELSE "lockSince")
      /\ job'[w].outcome = "running"
      /\ job'[w].view = v
  BY <1>1 DEF Polling, JobFields
<1>3. job'[w].pc \notin {"snapshot", "since"} /\ job'[w].outcome # "flow identity changed" BY <1>2
<1>4. job'[w].pc = "lockSince" => v.stale = {} OBVIOUS
<1>5. IsView(v)' /\ Valid(Watermark(v))' /\ Matches(v)' BY DEF Valid, Matches, StateAt, Watermark
<1> QED BY <1>2, <1>3, <1>5 DEF TreeJob, Given, Valid, Matches, StateAt, Watermark

LEMMA SinceReturnsTree ==
    ASSUME ContentsInv, NEW w \in Workers, NEW v, SinceReturns(w, v), job[w].pc \in Reading, hist' = hist,
           IsView(v), Valid(Watermark(v)), Matches(v)
    PROVE  TreeJob(job[w])'
<1>1. CASE v.stale = {} BY <1>1, PollingTree DEF SinceReturns
<1>2. CASE v.stale # {}
  <2>1. /\ DOMAIN job = Workers /\ DOMAIN job[w] = JobFields /\ job[w].outcome = "running"
    BY DEF ContentsInv, JobInv, Reading
  <2>2. job'[w].pc = "lockSnapshot" /\ job'[w].outcome = "running"
    BY <1>2, <2>1 DEF SinceReturns, JobFields
  <2> QED BY <2>2 DEF TreeJob, Given
<1> QED BY <1>1, <1>2

LEMMA MarkStaleTree ==
    ASSUME ContentsInv, TreeInv, NEW w \in Workers, job[w].pc = "since", current.id = job[w].view.id,
           NEW scope, MarkStale(job[w].view, scope), hist' = hist
    PROVE  Whole(current)'
<1>1. current = job[w].view /\ lastId > 0 /\ IsView(current)
  BY DEF ContentsInv, JobInv, OwnView
<1> DEFINE v == [current EXCEPT !.stale = @ \cup {scope}]
<1>2. Whole(current) BY <1>1 DEF TreeInv
<1>3. Whole(v) BY <1>1, <1>2, StaleWhole
<1>4. Allocate(v) BY <1>1 DEF MarkStale
<1>5. IsView(current) /\ DOMAIN v = DOMAIN current /\ v.stale = current.stale \cup {scope}
  BY <1>1 DEF IsView
<1>6. /\ current'.session = current.session /\ current'.revision = current.revision
      /\ current'.nodes = current.nodes /\ current'.over = current.over
      /\ current'.stale = v.stale /\ current'.gens = current.gens
  BY <1>4, <1>5 DEF Allocate, IsView
<1>7. /\ v.session = current.session /\ v.revision = current.revision
      /\ v.nodes = current.nodes /\ v.over = current.over /\ v.gens = current.gens
  BY <1>5 DEF IsView
<1> HIDE DEF v
<1> QED BY <1>3, <1>6, <1>7 DEF Whole, FlowsKnown, Matches, HasNode, Node, IsStale, StateAt

----------------------------------------------------------------------------
(***************************************************************************)
(* One goroutine's steps                                                   *)
(***************************************************************************)

LEMMA ReadSnapshotPageTree ==
    ASSUME HistInv, StoryInv, ContentsInv, TreeInv, NEW w \in Workers, ReadSnapshotPage(w),
           OwnStep(w), hist' = hist
    PROVE  OwnTree(w)
<1> DEFINE j == job[w]
<1>1. /\ DOMAIN job = Workers /\ DOMAIN j = JobFields /\ IsJob(j) /\ SnapshotInv(j)
      /\ j.pc = "snapshot" /\ j.outcome = "running" /\ TreeJob(j) /\ ViewInv
      /\ j.got \subseteq Nodes /\ j.index \in Nat /\ j.cap \in Nat \X Nat
  BY DEF ContentsInv, JobInv, ReadSnapshotPage, IsJob, Nodes, TreeInv
<1>2. Captured(j.cap, j.got) /\ (j.index = 0 => j.got = {}) BY <1>1 DEF TreeJob
<1>3. PICK page \in SnapshotPages(j) :
        LET got == j.got \cup Summaries(page)
            cap == IF j.index = 0 THEN page.cap ELSE j.cap
        IN  \/ /\ PageAccepted(j, page)
               /\ job' = [job EXCEPT ![w] = [@ EXCEPT !.got = got, !.index = j.index + 1, !.cap = cap]]
               /\ UNCHANGED <<current, lastId, mutex>>
            \/ /\ PageAccepted(j, page) /\ SnapshotComplete(page.cap, got)
               /\ Allocate(SnapshotView(cap, got))
               /\ Polling(w, current')
            \/ /\ Return(w, "snapshot failed")
               /\ UNCHANGED <<current, lastId>>
  BY DEF ReadSnapshotPage
<1> DEFINE sum == Summaries(page)
           got == j.got \cup sum
           cap == IF j.index = 0 THEN page.cap ELSE j.cap
<1>4. PageAccepted(j, page) => page.cap = cap /\ Captured(cap, got)
  BY <1>1, <1>2, PageCaptured
<1>5. /\ page.cap \in {IF j.index = 0 THEN ServerHead ELSE j.cap, ServerHead}
      /\ page.nodes \in SUBSET Paths
      /\ \A p \in page.nodes : Exists(StateAt(page.cap), p)
  BY DEF SnapshotPages
<1>6. Valid(ServerHead) /\ ServerHead \in Nat \X Nat BY HeadFacts DEF ServerHead
<1>7. Valid(page.cap) /\ Valid(cap) /\ cap \in Nat \X Nat
  BY <1>1, <1>5, <1>6 DEF SnapshotInv
<1>8. sum \subseteq Nodes /\ IsFiniteSet(sum) BY <1>5, <1>7, SummariesFit
<1> HIDE DEF sum, cap
<1>9. got \subseteq Nodes /\ IsFiniteSet(got) BY <1>1, <1>8, FS_Union DEF SnapshotInv
<1> HIDE DEF got
<1>10. CASE /\ PageAccepted(j, page)
            /\ job' = [job EXCEPT ![w] = [@ EXCEPT !.got = got, !.index = j.index + 1, !.cap = cap]]
            /\ UNCHANGED <<current, lastId, mutex>>
  <2>1. /\ job'[w].pc = "snapshot" /\ job'[w].got = got /\ job'[w].index = j.index + 1
        /\ job'[w].outcome = "running" /\ job'[w].cap = cap
    BY <1>1, <1>10 DEF JobFields
  <2>2. Captured(cap, got) BY <1>4, <1>10
  <2>3. job'[w].index # 0 BY <1>1, <2>1
  <2>4. TreeJob(job[w])' BY <2>1, <2>2, <2>3 DEF TreeJob, Given, Captured, SummaryAt, StateAt
  <2> QED BY <1>10, <2>4, SameViewWhole DEF OwnTree
<1>11. CASE /\ PageAccepted(j, page) /\ SnapshotComplete(page.cap, got)
            /\ Allocate(SnapshotView(cap, got)) /\ Polling(w, current')
  <2> DEFINE v == SnapshotView(cap, got)
  <2>1. Whole(v) /\ v.stale = {} BY <1>4, <1>7, <1>9, <1>11, SnapshotWhole
  <2>2. Allocate(v) BY <1>11
  <2>3. IsView(v) BY <1>7, <1>9, SnapshotViewTyped
  <2> HIDE DEF v
  <2>4. Whole(current)' /\ Matches(current') /\ current'.stale = {}
    BY <2>1, <2>2, <2>3, PublishWhole
  <2>5. ViewInv' /\ lastId' = lastId + 1 /\ lastId \in Nat
    BY <1>1, <2>2 DEF OwnStep, Allocate, ViewInv
  <2>6. GoodView(current)' BY <2>5 DEF ViewInv
  <2>7. IsView(current') /\ Valid(Watermark(current')) BY <2>6 DEF GoodView, Valid
  <2>8. TreeJob(job[w])' BY <1>1, <1>11, <2>4, <2>7, PollingTree DEF Reading
  <2> QED BY <2>4, <2>8 DEF OwnTree
<1>12. CASE Return(w, "snapshot failed") /\ UNCHANGED <<current, lastId>>
  BY <1>12, ReturnTree, SameViewWhole DEF OwnTree
<1> QED BY <1>3, <1>10, <1>11, <1>12 DEF got, cap, sum

----------------------------------------------------------------------------
(***************************************************************************)
(* Since batches                                                           *)
(***************************************************************************)

\* The whole batch makes a whole view of a whole view.
LEMMA BatchWhole ==
    ASSUME HistInv, StoryInv, NEW j, GoodView(j.view), Whole(j.view), j.view.stale = {},
           NEW t \in Nat, Valid(<<j.view.session, t>>), t >= j.view.revision,
           NEW ops, ops = Operations(j.view.session, j.view.revision, t), ops \subseteq Ops,
           UpsertsKnown(j.view, ops), BatchFits(j.view, ops), \A o \in ops : FlowKept(j, o)
    PROVE  Whole(NextView(j.view, t, ops))
<1> DEFINE v == j.view
           n == NextView(v, t, ops)
           gone == PathsOf(ops, "remove_subtree")
<1>1. /\ v.session \in DOMAIN hist /\ v.revision \in DOMAIN hist[v.session]
      /\ t \in DOMAIN hist[v.session] /\ v.revision <= t /\ v.revision \in Nat /\ IsView(v)
  BY DEF GoodView, Valid, Watermark, IsView
<1>2. \A p : ~IsStale(v, p) BY DEF IsStale, UnderAny
<1>3. Shows(v, hist[v.session][v.revision])
  BY <1>2 DEF Whole, Matches, Shows, StateAt
<1>4. \A p \in Paths : InView(p) /\ ~IsStale(n, p) =>
        /\ HasNode(n, p) <=> Exists(hist[v.session][t], p)
        /\ HasNode(n, p) => Node(n, p) = hist[v.session][t].tree[p]
        /\ HasNode(n, p) /\ p # <<>> /\ Flow(p) \in DOMAIN n.gens =>
              n.gens[Flow(p)] = hist[v.session][t].gens[Flow(p)]
  BY <1>1, <1>3, BatchShows
<1>5. /\ n.session = v.session /\ n.revision = t
      /\ \A p : HasNode(n, p) <=> HasNode(v, p) /\ ~UnderAny(p, gone)
      /\ HasNode(v, Scope) => HasNode(n, Scope)
      /\ DOMAIN n.gens \subseteq DOMAIN v.gens
      /\ \A f \in DOMAIN v.gens : HasNode(n, f) => f \in DOMAIN n.gens
      /\ \A f \in DOMAIN n.gens \ DOMAIN n.nodes : gone = {}
  BY <1>1, NextViewMeans
<1>6. /\ HasNode(v, Scope)
      /\ \A p \in DOMAIN v.nodes : InView(p) /\ (p # Scope => HasNode(v, Parent(p)))
  BY DEF Whole
<1>7. gone \subseteq Paths /\ Scope \in Paths /\ DOMAIN v.nodes \subseteq Paths
  BY <1>1, PathFacts DEF PathsOf, Ops, IsView, IsStatusMap
<1> HIDE DEF n, gone
<1>8. Matches(n) BY <1>4, <1>5 DEF Matches, StateAt
<1>9. ASSUME NEW p \in DOMAIN n.nodes PROVE InView(p) /\ (p # Scope => HasNode(n, Parent(p)))
  <2>1. HasNode(v, p) /\ ~UnderAny(p, gone) /\ p \in Paths BY <1>5, <1>7, <1>9 DEF HasNode
  <2>2. InView(p) BY <1>6, <2>1 DEF HasNode
  <2>3. ASSUME p # Scope PROVE HasNode(n, Parent(p))
    <3>1. HasNode(v, Parent(p)) BY <1>6, <2>1, <2>3 DEF HasNode
    <3>2. p # <<>>
      <4>1. ASSUME p = <<>> PROVE FALSE
        <5>1. Under(p, Scope) /\ Len(p) = 0 /\ Len(Scope) \in Nat
          BY <1>7, <2>1, <2>2, <4>1, UnderOrder DEF InView
        <5>2. Len(p) <= Len(Scope) BY <5>1
        <5> QED BY <1>7, <2>1, <2>3, <5>1, <5>2, UnderOrder
      <4> QED BY <4>1
    <3>3. Parent(p) \in Paths /\ Under(p, Parent(p)) BY <2>1, <3>2, ParentAbove
    <3>4. ~UnderAny(Parent(p), gone)
      BY <1>7, <2>1, <3>3, UnderOrder DEF UnderAny
    <3> QED BY <1>5, <3>1, <3>4
  <2> QED BY <2>2, <2>3
<1>10. FlowsKnown(n)
  <2>1. ASSUME NEW f \in Flows, InView(f), Len(Scope) <= 1
        PROVE  f \in DOMAIN n.gens <=> HasNode(n, f)
    <3>1. f \in DOMAIN v.gens <=> HasNode(v, f) BY <2>1 DEF Whole, FlowsKnown
    <3>2. gone = {} => ~UnderAny(f, gone) BY DEF UnderAny
    <3> QED BY <1>5, <3>1, <3>2 DEF HasNode
  <2> QED BY <2>1 DEF FlowsKnown
<1> QED BY <1>5, <1>6, <1>8, <1>9, <1>10 DEF Whole, n

\* The last page of a batch makes it the whole batch.
LEMMA SinceComplete ==
    ASSUME NEW j, j.index \in Nat, j.cap \in Nat \X Nat, NEW page \in SincePages(j),
           SincePageAccepted(j, page), page.complete
    PROVE  LET cap == IF j.index = 0 THEN page.cap ELSE j.cap
           IN  j.got \cup page.ops = Operations(j.view.session, j.view.revision, cap[2])
<1> DEFINE same == IF j.index = 0 THEN Revision ELSE j.cap[2]
           cap == IF j.index = 0 THEN page.cap ELSE j.cap
<1>1. page.index = j.index /\ (j.index > 0 => page.cap = j.cap)
  BY DEF SincePageAccepted, BatchIdentity
<1>2. Session = j.view.session
  <2>1. Session # j.view.session => page.cap = ServerHead BY DEF SincePages
  <2> QED BY <2>1 DEF SincePageAccepted, BatchIdentity, ServerHead
<1>3. PICK t \in {same, Revision} :
        /\ page \in [cap : {<<Session, t>>}, index : {j.index - 1, j.index, j.index + 1},
                     ops : SUBSET Operations(Session, j.view.revision, t), complete : BOOLEAN]
        /\ page.index = j.index /\ t = same =>
              page.complete = (j.got \cup page.ops = Operations(Session, j.view.revision, t))
  BY <1>2 DEF SincePages
<1>4. page.cap = <<Session, t>> BY <1>3
<1>5. t = same /\ cap[2] = t BY <1>1, <1>3, <1>4
<1> HIDE DEF same
<1>6. j.got \cup page.ops = Operations(Session, j.view.revision, t) BY <1>1, <1>3, <1>5
<1> QED BY <1>2, <1>5, <1>6

LEMMA ApplyBatchTree ==
    ASSUME HistInv, StoryInv, ContentsInv, TreeInv, NEW w \in Workers, job[w].pc = "since",
           current.id = job[w].view.id, OwnStep(w), hist' = hist,
           NEW t \in Nat, Valid(<<job[w].view.session, t>>), t >= job[w].view.revision,
           NEW ops, ops \subseteq Ops, UpsertsKnown(job[w].view, ops),
           ops = Operations(job[w].view.session, job[w].view.revision, t),
           \A o \in ops : FlowKept(job[w], o), ApplyBatch(w, t, ops)
    PROVE  OwnTree(w)
<1> DEFINE j == job[w]
           v == j.view
<1>1. /\ ViewInv /\ lastId \in Nat /\ lastId > 0 /\ current = v /\ IsView(v) /\ GoodView(v)
      /\ TreeJob(j)
  BY DEF ContentsInv, JobInv, OwnView, ViewInv, TreeInv
<1>2. Whole(v) /\ v.stale = {} /\ Matches(v) BY <1>1 DEF TreeInv, TreeJob, Whole
<1>3. Valid(Watermark(v)) BY <1>1 DEF GoodView
<1> HIDE DEF v
<1>4. CASE SinceReturns(w, v) /\ UNCHANGED <<current, lastId>>
  <2>1. TreeJob(job[w])' BY <1>1, <1>2, <1>3, <1>4, SinceReturnsTree DEF Reading
  <2> QED BY <1>4, <2>1, SameViewWhole DEF OwnTree
<1>5. CASE BatchFits(v, ops) /\ Allocate(NextView(v, t, ops)) /\ SinceReturns(w, current')
  <2> DEFINE n == NextView(v, t, ops)
  <2>1. Whole(n) BY <1>1, <1>2, <1>5, BatchWhole DEF v
  <2>2. IsView(n) BY <1>1, <1>5, NextViewGood DEF v, GoodView
  <2>3. Allocate(n) BY <1>5
  <2> HIDE DEF n
  <2>4. Whole(current)' /\ Matches(current') BY <2>1, <2>2, <2>3, PublishWhole
  <2>5. ViewInv' /\ lastId' = lastId + 1 /\ lastId \in Nat
    BY <1>1, <2>3 DEF OwnStep, Allocate
  <2>6. GoodView(current)' BY <2>5 DEF ViewInv
  <2>7. IsView(current') /\ Valid(Watermark(current')) BY <2>6 DEF GoodView, Valid
  <2>8. TreeJob(job[w])' BY <1>5, <2>4, <2>7, SinceReturnsTree DEF Reading
  <2> QED BY <2>4, <2>8 DEF OwnTree
<1>6. CASE SinceFails(w, "since failed")
  BY <1>6, MarkStaleTree, ReturnTree DEF SinceFails, OwnTree
<1> QED BY <1>4, <1>5, <1>6, Zenon DEF ApplyBatch, v

LEMMA FlowInView ==
    ASSUME NEW p \in Paths, p # <<>>, InView(p), Len(Scope) <= 1
    PROVE  InView(Flow(p))
<1>1. /\ Flow(p) \in Paths /\ Under(p, Flow(p)) /\ Scope \in Paths /\ Len(Flow(p)) = 1
      /\ Under(p, Scope) /\ Len(p) - Len(Scope) <= Depth /\ Depth \in Nat
  BY FlowAbove, PathFacts, QueryAssumption DEF Flow, InView
<1>2. Len(p) \in Nat /\ Len(Scope) \in Nat /\ Len(p) >= 1 BY <1>1, UnderOrder DEF Under
<1>3. Under(Flow(p), Scope) BY <1>1, <1>2, UnderOrder
<1> QED BY <1>1, <1>2, <1>3 DEF InView

\* An operation that is not of the view's flow is of a flow that was added or
\* replaced since.
LEMMA StrangeFlow ==
    ASSUME HistInv, StoryInv, NEW j, IsView(j.view), Valid(Watermark(j.view)), Whole(j.view),
           j.view.stale = {}, Len(Scope) <= 1,
           NEW t \in Nat, Valid(<<j.view.session, t>>), t >= j.view.revision,
           NEW o \in Operations(j.view.session, j.view.revision, t), KnownOperation(j, o), ~FlowKept(j, o)
    PROVE  FlowReallyChanged(j)
<1> DEFINE v == j.view
           h == hist[v.session]
           r == v.revision
           ops == Operations(v.session, r, t)
           f == Flow(o.path)
<1>1. /\ v.session \in DOMAIN hist /\ r \in DOMAIN h /\ t \in DOMAIN h /\ r <= t /\ r \in Nat
      /\ h \in Seq(Trees) /\ DOMAIN h = 1 .. Len(h)
  BY DEF Valid, Watermark, HistInv, IsView
<1>2. o \in Ops BY <1>1, OperationsTyped
<1>3. /\ o.op \in {"upsert_summary", "remove_subtree", "invalidate_scope"}
      /\ o.gen = IF o.path = <<>> THEN 0 ELSE h[t].gens[f]
      /\ o.op = "remove_subtree" => Changed(h, r, t, "remove", o.path)
  <2>1. o.op = "remove_subtree" => o.path \in PathsOf(ops, "remove_subtree") BY DEF PathsOf
  <2> QED BY <1>1, <2>1, OperationsMean
<1>4. /\ Stretch(h, r, t) /\ \A i \in DOMAIN h : Closed(h[i]) /\ Sound(h[i])
  BY <1>1 DEF StoryInv, Story, Sound
<1>5. /\ o.path \in Paths /\ InView(o.path) /\ (o.op = "upsert_summary" => HasNode(v, o.path))
      /\ o.op # "invalidate_scope" /\ ~(o.op = "upsert_summary" /\ o.path = <<>>)
      /\ o.path = <<>> \/ f \notin DOMAIN v.gens \/ v.gens[f] # o.gen
  BY <1>2 DEF KnownOperation, FlowKept, SameGeneration, Ops
<1>6. o.path # <<>>
  <2>1. ASSUME o.op = "remove_subtree" PROVE o.path # <<>>
    <3>1. PICK i \in r + 1 .. t : h[i].change.op = "remove" /\ h[i].change.path = o.path
      BY <1>3, <2>1 DEF Changed
    <3>2. i \in DOMAIN h BY <1>1
    <3> QED BY <1>4, <3>1, <3>2 DEF Sound
  <2> QED BY <1>3, <1>5, <2>1
<1>7. f \in Flows /\ f \in Paths /\ Under(o.path, f) /\ InView(f) /\ f # <<>> /\ Flow(f) = f
  <2>1. f \in Flows /\ f \in Paths /\ Under(o.path, f) /\ InView(f) BY <1>5, <1>6, FlowAbove, FlowInView
  <2> QED BY <2>1, UnderOrder, FlowAbove
<1>8. Matches(v) /\ (f \in DOMAIN v.gens <=> HasNode(v, f)) BY <1>7 DEF Whole, FlowsKnown
<1>9. \A p \in Paths : InView(p) =>
        /\ HasNode(v, p) <=> Exists(h[r], p)
        /\ HasNode(v, p) /\ p # <<>> /\ Flow(p) \in DOMAIN v.gens => v.gens[Flow(p)] = h[r].gens[Flow(p)]
  BY <1>8 DEF Matches, StateAt, IsStale, UnderAny
<1> HIDE DEF v, h, r, ops, f
<1>10. h[t].gens[f] # h[r].gens[f]
  <2>1. CASE f \in DOMAIN v.gens
    BY <1>3, <1>5, <1>6, <1>7, <1>8, <1>9, <2>1
  <2>2. CASE f \notin DOMAIN v.gens
    <3>1. ~Exists(h[r], f) BY <1>7, <1>8, <1>9, <2>2
    <3>2. o.op = "remove_subtree"
      <4>1. ASSUME o.op = "upsert_summary" PROVE FALSE
        <5>1. Exists(h[r], o.path) BY <1>5, <1>9, <4>1
        <5> QED BY <1>1, <1>4, <1>5, <1>7, <3>1, <5>1 DEF Closed
      <4> QED BY <1>3, <1>5, <4>1
    <3>3. Changed(h, r, t, "add", f) BY <1>3, <1>4, <1>5, <1>6, <3>1, <3>2 DEF Stretch, f
    <3>4. h[r].gens[f] < h[t].gens[f] BY <1>4, <1>7, <3>3 DEF Stretch
    <3>5. h[r] \in Trees /\ h[t] \in Trees BY <1>1
    <3> QED BY <1>7, <3>4, <3>5 DEF Trees
  <2> QED BY <2>1, <2>2
<1>11. t > r BY <1>1, <1>10
<1> QED BY <1>1, <1>7, <1>10, <1>11 DEF FlowReallyChanged, StateAt, v, h, r

\* Below a flow this needs a view that knows the flow.
LEMMA StrangeFlowBelow ==
    ASSUME HistInv, NEW j, IsView(j.view), Valid(Watermark(j.view)), Whole(j.view),
           j.view.stale = {}, Len(Scope) > 1, Flow(Scope) \in DOMAIN j.view.gens,
           NEW t \in Nat, Valid(<<j.view.session, t>>), t >= j.view.revision,
           NEW o \in Operations(j.view.session, j.view.revision, t), KnownOperation(j, o), ~FlowKept(j, o)
    PROVE  FlowReallyChanged(j)
<1> DEFINE v == j.view
           h == hist[v.session]
           r == v.revision
           f == Flow(Scope)
<1>1. /\ v.session \in DOMAIN hist /\ r \in DOMAIN h /\ t \in DOMAIN h /\ r <= t /\ r \in Nat
      /\ h \in Seq(Trees) /\ DOMAIN h = 1 .. Len(h)
  BY DEF Valid, Watermark, HistInv, IsView
<1>2. o \in Ops BY <1>1, OperationsTyped
<1>3. Scope \in Paths /\ Scope # <<>> /\ f \in Flows BY PathFacts
<1>4. /\ o.path \in Paths /\ Under(o.path, Scope) /\ InView(o.path)
      /\ o.op # "invalidate_scope" /\ ~(o.op = "upsert_summary" /\ o.path = <<>>)
      /\ o.path = <<>> \/ Flow(o.path) \notin DOMAIN v.gens \/ v.gens[Flow(o.path)] # o.gen
  BY <1>2 DEF KnownOperation, FlowKept, SameGeneration, Ops, InView
<1>5. o.path # <<>> /\ Flow(o.path) = f BY <1>3, <1>4, UnderOrder, FlowAbove DEF Under, Flow
<1>6. o.gen = h[t].gens[f] BY <1>1, <1>5, OperationsMean
<1>7. v.gens[f] = h[r].gens[f]
  <2>1. HasNode(v, Scope) /\ Matches(v) BY DEF Whole
  <2>2. InView(Scope) BY <1>3, AboveTheView, QueryAssumption DEF InView, Under
  <2> QED BY <1>3, <2>1, <2>2 DEF Matches, StateAt, IsStale, UnderAny
<1>8. h[t].gens[f] # h[r].gens[f] BY <1>4, <1>5, <1>6, <1>7
<1>9. t > r BY <1>1, <1>8
<1> HIDE DEF v, h, r, f
<1> QED BY <1>1, <1>3, <1>8, <1>9 DEF FlowReallyChanged, StateAt, v, h, r

\* What changed of the flows is a matter of the history and the view alone.
LEMMA SameFlows ==
    ASSUME NEW w \in Workers, hist' = hist, job'[w].view = job[w].view, FlowReallyChanged(job[w])
    PROVE  FlowReallyChanged(job[w])'
<1> DEFINE v == job[w].view
<1>1. PICK f \in Flows, r \in 1 .. Len(hist[v.session]) :
        r > v.revision /\ hist[v.session][r].gens[f] # hist[v.session][v.revision].gens[f]
  BY DEF FlowReallyChanged, StateAt
<1>2. /\ r \in 1 .. Len(hist'[job'[w].view.session]) /\ r > job'[w].view.revision
      /\ hist'[job'[w].view.session][r].gens[f]
         # hist'[job'[w].view.session][job'[w].view.revision].gens[f]
  BY <1>1
<1> QED BY <1>2 DEF FlowReallyChanged, StateAt

\* The page is of the view's session, and of a revision not before the view's.
LEMMA IdentityTree ==
    ASSUME HistInv, StoryInv, ContentsInv, TreeInv, NEW w \in Workers, job[w].pc = "since",
           current.id = job[w].view.id, NEW page \in SincePages(job[w]),
           ~SincePageAccepted(job[w], page), SinceFails(w, Reason(job[w], page)), hist' = hist
    PROVE  TreeJob(job[w])'
<1> DEFINE j == job[w]
<1>1. /\ DOMAIN job = Workers /\ DOMAIN j = JobFields /\ JobInv(j) /\ IsJob(j) /\ TreeJob(j) /\ ViewInv
      /\ lastId > 0 /\ current = j.view /\ IsView(j.view) /\ SinceInv(j)
  BY DEF ContentsInv, JobInv, OwnView, TreeInv
<1>2. CASE Reason(j, page) = "since failed" BY <1>2, ReturnTree DEF SinceFails
<1>3. CASE Reason(j, page) # "since failed"
  <2>1. BatchIdentity(j, page) /\ (\A o \in page.ops : KnownOperation(j, o))
        /\ Reason(j, page) = "flow identity changed"
    BY <1>3 DEF Reason
  <2>2. PICK o \in page.ops : ~FlowKept(j, o) BY <2>1 DEF SincePageAccepted
  <2>3. /\ Valid(Watermark(j.view)) /\ Whole(j.view) /\ j.view.stale = {}
    BY <1>1 DEF ViewInv, GoodView, TreeInv, TreeJob
  <2>4. Session = j.view.session
    <3>1. Session # j.view.session => page.cap = ServerHead BY DEF SincePages
    <3>2. page.cap[1] = j.view.session BY <2>1 DEF BatchIdentity
    <3>3. ServerHead[1] = Session BY DEF ServerHead
    <3> QED BY <3>1, <3>2, <3>3
  <2>5. PICK t \in {IF j.index = 0 THEN Revision ELSE j.cap[2], Revision} :
          page \in [cap : {<<Session, t>>}, index : {j.index - 1, j.index, j.index + 1},
                    ops : SUBSET Operations(Session, j.view.revision, t), complete : BOOLEAN]
    BY <2>4 DEF SincePages
  <2>6. o \in Operations(j.view.session, j.view.revision, t) BY <2>2, <2>4, <2>5
  <2>7. t \in Nat /\ Valid(<<j.view.session, t>>) /\ t >= j.view.revision
    <3>1. /\ Session \in DOMAIN hist /\ Revision \in DOMAIN hist[Session] /\ Revision \in Nat
          /\ DOMAIN hist[Session] = 1 .. Revision
      BY HeadFacts DEF Revision
    <3>2. j.view.revision \in Nat /\ j.view.revision <= Revision
      BY <1>1, <2>3, <2>4, <3>1 DEF Valid, Watermark, IsView
    <3>3. j.index \in Nat /\ j.cap \in Nat \X Nat BY <1>1 DEF IsJob
    <3>4. j.index > 0 => Valid(j.cap) /\ j.cap[1] = Session /\ j.cap[2] >= j.view.revision
      BY <1>1, <2>4 DEF SinceInv
    <3> QED BY <2>4, <2>5, <3>1, <3>2, <3>3, <3>4 DEF Valid
  <2>8. FlowReallyChanged(j) \/ FlowForgotten(j.view)
    <3>1. Len(Scope) \in Nat BY QueryAssumption
    <3>2. CASE Len(Scope) <= 1 BY <1>1, <2>1, <2>2, <2>3, <2>6, <2>7, <3>2, StrangeFlow
    <3>3. CASE Len(Scope) > 1
      BY <1>1, <2>1, <2>2, <2>3, <2>6, <2>7, <3>3, StrangeFlowBelow DEF FlowForgotten
    <3> QED BY <3>1, <3>2, <3>3
  <2>9. job'[w].pc = "done" /\ job'[w].view = j.view /\ job'[w].outcome = "flow identity changed"
    BY <1>1, <2>1 DEF SinceFails, Return, JobFields
  <2>10. Valid(Watermark(job[w].view))' /\ (FlowReallyChanged(job[w])' \/ FlowForgotten(job[w].view)')
    <3>1. hist' = hist OBVIOUS
    <3>2. Valid(Watermark(job[w].view))' BY <2>3, <2>9, <3>1 DEF Valid, Watermark
    <3>3. FlowReallyChanged(j) => FlowReallyChanged(job[w])' BY <2>9, <3>1, SameFlows
    <3>4. FlowForgotten(j.view) => FlowForgotten(job[w].view)' BY <2>9 DEF FlowForgotten
    <3> QED BY <2>8, <3>2, <3>3, <3>4
  <2> QED BY <2>9, <2>10 DEF TreeJob, Given
<1> QED BY <1>2, <1>3

LEMMA ReadSincePageTree ==
    ASSUME HistInv, StoryInv, ContentsInv, TreeInv, NEW w \in Workers, ReadSincePage(w),
           current.id = job[w].view.id, OwnStep(w), hist' = hist
    PROVE  OwnTree(w)
<1> DEFINE j == job[w]
<1>1. /\ DOMAIN job = Workers /\ DOMAIN j = JobFields /\ IsJob(j) /\ JobInv(j)
      /\ j.pc = "since" /\ j.outcome = "running" /\ OwnView(j) /\ ViewInv /\ TreeJob(j)
      /\ current = j.view /\ j.index \in Nat /\ j.cap \in Nat \X Nat
  BY DEF ContentsInv, JobInv, OwnView, ReadSincePage, TreeInv, IsJob
<1>2. PICK page \in SincePages(j) :
        LET got == j.got \cup page.ops
            cap == IF j.index = 0 THEN page.cap ELSE j.cap
        IN  \/ /\ job' = [job EXCEPT ![w] = [@ EXCEPT !.replays = j.replays + 1]]
               /\ UNCHANGED <<current, lastId, mutex>>
            \/ /\ SincePageAccepted(j, page)
               /\ job' = [job EXCEPT ![w] = [@ EXCEPT !.cap = cap, !.index = j.index + 1, !.replays = 0,
                                                      !.got = got, !.last = page.ops]]
               /\ UNCHANGED <<current, lastId, mutex>>
            \/ SincePageAccepted(j, page) /\ page.complete /\ ApplyBatch(w, cap[2], got)
            \/ ~SincePageAccepted(j, page) /\ SinceFails(w, Reason(j, page))
  BY DEF ReadSincePage
<1> DEFINE got == j.got \cup page.ops
           cap == IF j.index = 0 THEN page.cap ELSE j.cap
<1>3. SincePageAccepted(j, page) =>
        /\ cap \in Nat \X Nat /\ Valid(cap)
        /\ cap[1] = j.view.session /\ cap[2] >= j.view.revision
        /\ got \subseteq Ops /\ UpsertsKnown(j.view, got)
  BY <1>1, SincePageShape
<1>4. SincePageAccepted(j, page) => \A o \in got : FlowKept(j, o)
  BY <1>1 DEF TreeJob, SincePageAccepted
<1>5. SincePageAccepted(j, page) /\ page.complete =>
        got = Operations(j.view.session, j.view.revision, cap[2])
  BY <1>1, SinceComplete
<1>6. /\ j.view.stale = {} /\ \A o \in j.got : FlowKept(j, o)
  BY <1>1 DEF TreeJob
<1> HIDE DEF cap, got
<1>7. CASE /\ job' = [job EXCEPT ![w] = [@ EXCEPT !.replays = j.replays + 1]]
           /\ UNCHANGED <<current, lastId, mutex>>
  <2>1. /\ job'[w].pc = "since" /\ job'[w].got = j.got /\ job'[w].view = j.view
        /\ job'[w].outcome = "running"
    BY <1>1, <1>7 DEF JobFields
  <2>2. TreeJob(job[w])' BY <1>6, <2>1 DEF TreeJob, Given, FlowKept, SameGeneration
  <2> QED BY <1>7, <2>2, SameViewWhole DEF OwnTree
<1>8. CASE /\ SincePageAccepted(j, page)
           /\ job' = [job EXCEPT ![w] = [@ EXCEPT !.cap = cap, !.index = j.index + 1, !.replays = 0,
                                                  !.got = got, !.last = page.ops]]
           /\ UNCHANGED <<current, lastId, mutex>>
  <2>1. /\ job'[w].pc = "since" /\ job'[w].got = got /\ job'[w].view = j.view
        /\ job'[w].outcome = "running"
    BY <1>1, <1>8 DEF JobFields
  <2>2. TreeJob(job[w])' BY <1>4, <1>6, <1>8, <2>1 DEF TreeJob, Given, FlowKept, SameGeneration
  <2> QED BY <1>8, <2>2, SameViewWhole DEF OwnTree
<1>9. CASE SincePageAccepted(j, page) /\ page.complete /\ ApplyBatch(w, cap[2], got)
  <2>1. cap[2] \in Nat /\ Valid(<<j.view.session, cap[2]>>) BY <1>3, <1>9 DEF Valid
  <2> QED BY <1>1, <1>3, <1>4, <1>5, <1>9, <2>1, ApplyBatchTree
<1>10. CASE ~SincePageAccepted(j, page) /\ SinceFails(w, Reason(j, page))
  BY <1>1, <1>10, MarkStaleTree, IdentityTree DEF SinceFails, OwnTree
<1> QED BY <1>2, <1>7, <1>8, <1>9, <1>10, Zenon DEF cap, got

\* The steps that publish nothing new.
LEMMA OtherStepsTree ==
    ASSUME HistInv, ContentsInv, TreeInv, NEW w \in Workers, hist' = hist,
           job[w].pc = "since" => current.id = job[w].view.id,
           \/ BeginSnapshot(w) \/ SnapshotCallFails(w) \/ BeginSince(w) \/ RefuseSince(w)
           \/ SinceNotBegun(w) \/ SinceCallFails(w) \/ SinceReset(w) \/ SyncReturns(w)
    PROVE  OwnTree(w)
<1>1. DOMAIN job = Workers /\ DOMAIN job[w] = JobFields /\ JobInv(job[w]) /\ TreeJob(job[w])
  BY DEF ContentsInv, JobInv, TreeInv
<1>2. CASE BeginSnapshot(w)
  <2>1. job'[w].pc = "snapshot" /\ job'[w].got = {} /\ job'[w].outcome = "running"
    BY <1>1, <1>2 DEF BeginSnapshot, JobInv, JobFields
  <2>2. TreeJob(job[w])' BY <2>1 DEF TreeJob, Given, Captured
  <2> QED BY <1>2, <2>2, SameViewWhole DEF OwnTree, BeginSnapshot
<1>3. CASE BeginSince(w)
  <2>1. /\ job'[w].pc = "since" /\ job'[w].got = {} /\ job'[w].outcome = "running"
        /\ job'[w].view = job[w].view /\ job[w].view.stale = {}
    BY <1>1, <1>3 DEF BeginSince, JobInv, JobFields, TreeJob
  <2>2. TreeJob(job[w])' BY <2>1 DEF TreeJob, Given
  <2> QED BY <1>3, <2>2, SameViewWhole DEF OwnTree, BeginSince
<1>4. CASE SnapshotCallFails(w) \/ RefuseSince(w) \/ SinceNotBegun(w)
  BY <1>4, ReturnTree, SameViewWhole DEF SnapshotCallFails, RefuseSince, SinceNotBegun, OwnTree
<1>5. CASE SinceCallFails(w)
  BY <1>5, MarkStaleTree, ReturnTree DEF SinceCallFails, SinceFails, OwnTree
<1>6. CASE SinceReset(w)
  <2>1. Whole(current)' BY <1>6, MarkStaleTree DEF SinceReset
  <2>2. job'[w].pc = "lockSnapshot" /\ job'[w].outcome = "running"
    BY <1>1, <1>6 DEF SinceReset, JobInv, JobFields
  <2> QED BY <2>1, <2>2 DEF TreeJob, Given, OwnTree
<1>7. CASE SyncReturns(w)
  <2>1. job[w].pc = "returning" BY <1>7 DEF SyncReturns
  <2>2. job'[w].pc = "done" /\ job'[w].outcome = "ok" /\ job'[w].view = job[w].view
    BY <1>1, <1>7 DEF SyncReturns, JobFields
  <2>3. TreeJob(job[w])' BY <1>1, <2>1, <2>2 DEF TreeJob, Given, Valid, Matches, StateAt, Watermark
  <2> QED BY <1>7, <2>3, SameViewWhole DEF SyncReturns, OwnTree
<1> QED BY <1>2, <1>3, <1>4, <1>5, <1>6, <1>7

----------------------------------------------------------------------------
(***************************************************************************)
(* The invariant                                                           *)
(***************************************************************************)

LEMMA WorkerKeepsTree ==
    ASSUME IInv, StoryInv, TreeInv, NEW w \in Workers, Worker(w)
    PROVE  TreeInv'
<1>1. hist' = hist BY WorkerKeepsHist
<1>2. OwnStep(w) BY WorkerStep
<1>3. HistInv /\ LockInv /\ ContentsInv BY DEF IInv
<1>4. job[w].pc = "since" => current.id = job[w].view.id
  BY <1>3 DEF LockInv, OneReadAtATime
<1>5. OwnTree(w)
  <2>1. CASE ReadSnapshotPage(w) BY <1>1, <1>2, <1>3, <2>1, ReadSnapshotPageTree
  <2>2. CASE ReadSincePage(w)
    <3>1. job[w].pc = "since" BY <2>2 DEF ReadSincePage
    <3> QED BY <1>1, <1>2, <1>3, <1>4, <2>2, <3>1, ReadSincePageTree
  <2> QED BY <1>1, <1>3, <1>4, <2>1, <2>2, OtherStepsTree DEF Worker
<1>6. DOMAIN job' = Workers /\ \A u \in Workers \ {w} : job'[u] = job[u]
  BY <1>3, WorkerLockStep DEF LockStep, OthersKept, JobShape
<1>7. ASSUME NEW u \in Workers \ {w} PROVE TreeJob(job[u])'
  <2>1. TreeJob(job[u]) /\ job'[u] = job[u] BY <1>6 DEF TreeInv
  <2>2. FlowReallyChanged(job[u]) => FlowReallyChanged(job[u])' BY <1>1, <2>1, SameFlows
  <2>3. Valid(Watermark(job[u].view)) => Valid(Watermark(job[u].view))' BY <1>1, <2>1 DEF Valid, Watermark
  <2> QED BY <1>1, <2>1, <2>2, <2>3
          DEF TreeJob, Given, Captured, SummaryAt, StateAt, FlowKept, SameGeneration, Matches
<1> QED BY <1>5, <1>7 DEF TreeInv, OwnTree

\* A view, and a capture, is of a revision that the server had and that no
\* later one changes.
LEMMA ServerKeepsTree ==
    ASSUME HistInv, HistInv', ContentsInv, TreeInv, HistGrows,
           UNCHANGED <<current, lastId, mutex, job>>
    PROVE  TreeInv'
<1>1. ASSUME NEW cap, Valid(cap) PROVE StateAt(cap)' = StateAt(cap) /\ Valid(cap)'
  BY <1>1, ValidKept DEF StateAt, Valid, HistGrows
<1>2. ASSUME NEW v, Valid(Watermark(v)) PROVE Matches(v) => Matches(v)'
  BY <1>1, <1>2 DEF Matches, Watermark
<1>3. lastId' > 0 => Whole(current)'
  <2>1. lastId > 0 => Whole(current) /\ Valid(Watermark(current))
    BY DEF ContentsInv, ViewInv, GoodView, TreeInv
  <2>2. lastId > 0 => Matches(current)' BY <1>1, <2>1 DEF Whole, Matches, Watermark
  <2> QED BY <2>1, <2>2 DEF Whole, FlowsKnown, HasNode
<1>4. ASSUME NEW w \in Workers PROVE TreeJob(job[w])'
  <2> DEFINE j == job[w]
  <2>1. TreeJob(j) /\ JobInv(j) /\ job'[w] = j BY DEF TreeInv, ContentsInv
  <2>2. j.pc \in {"lockSince", "since"} => j.view.stale = {} BY <2>1 DEF TreeJob
  <2>3. j.pc = "since" => \A o \in j.got : FlowKept(j, o) BY <2>1 DEF TreeJob
  <2>4. ASSUME j.pc = "snapshot"
        PROVE  Captured(j.cap, j.got)' /\ (j.index = 0 => j.got = {})
    <3>1. Captured(j.cap, j.got) /\ (j.index = 0 => j.got = {}) BY <2>1, <2>4 DEF TreeJob
    <3>2. CASE j.got = {} BY <2>1, <3>1, <3>2 DEF Captured
    <3>3. CASE j.got # {}
      <4>1. j.index > 0
        <5>1. j.index \in Nat BY <2>1 DEF JobInv, IsJob
        <5>2. j.index # 0 BY <3>1, <3>3
        <5> QED BY <5>1, <5>2
      <4>2. Valid(j.cap) BY <2>1, <2>4, <4>1 DEF JobInv, SnapshotInv
      <4>3. StateAt(j.cap)' = StateAt(j.cap) BY <1>1, <2>1, <4>2
      <4> QED BY <2>1, <3>1, <4>3 DEF Captured, SummaryAt
    <3> QED BY <3>2, <3>3
  <2>5. ASSUME Given(j)
        PROVE  IsView(j.view) /\ Valid(Watermark(j.view))' /\ j.view.stale = {} /\ Matches(j.view)'
    <3>1. IsView(j.view) /\ Valid(Watermark(j.view)) /\ j.view.stale = {} /\ Matches(j.view)
      BY <2>1, <2>5 DEF TreeJob
    <3>2. Valid(Watermark(j.view))' BY <1>1, <2>1, <3>1 DEF Watermark
    <3>3. Matches(j.view)' BY <1>1, <2>1, <3>1 DEF Matches, Watermark
    <3> QED BY <3>1, <3>2, <3>3
  <2>6. ASSUME Valid(Watermark(j.view)), FlowReallyChanged(j)
        PROVE  Valid(Watermark(j.view))' /\ FlowReallyChanged(j)'
    <3> DEFINE s == j.view.session
    <3>1. s \in DOMAIN hist /\ s \in DOMAIN hist' /\ hist[s] \in Seq(Trees) /\ hist'[s] \in Seq(Trees)
      BY <2>6 DEF Valid, Watermark, HistInv, HistGrows
    <3>2. PICK f \in Flows, r \in 1 .. Len(hist[s]) :
            /\ r > j.view.revision
            /\ hist[s][r].gens[f] # StateAt(<<s, j.view.revision>>).gens[f]
      BY <2>6 DEF FlowReallyChanged
    <3>3. r \in DOMAIN hist[s] BY <3>1
    <3>4. r \in 1 .. Len(hist'[s]) /\ hist'[s][r] = hist[s][r] BY <3>1, <3>3 DEF HistGrows
    <3>5. StateAt(<<s, j.view.revision>>)' = StateAt(<<s, j.view.revision>>) /\ Valid(Watermark(j.view))'
      BY <1>1, <2>1, <2>6 DEF Watermark
    <3> QED BY <2>1, <3>2, <3>4, <3>5 DEF FlowReallyChanged
  <2>7. ASSUME j.outcome = "flow identity changed"
        PROVE  Valid(Watermark(j.view))' /\ (FlowReallyChanged(j)' \/ FlowForgotten(j.view)')
    <3>1. Valid(Watermark(j.view)) /\ (FlowReallyChanged(j) \/ FlowForgotten(j.view))
      BY <2>1, <2>7 DEF TreeJob
    <3>2. Valid(Watermark(j.view))' BY <1>1, <2>1, <3>1 DEF Watermark
    <3>3. FlowForgotten(j.view) => FlowForgotten(j.view)' BY <2>1 DEF FlowForgotten
    <3> QED BY <2>6, <3>1, <3>2, <3>3
  <2> QED BY <2>1, <2>2, <2>3, <2>4, <2>5, <2>7 DEF TreeJob, Given, FlowKept, SameGeneration
<1> QED BY <1>3, <1>4 DEF TreeInv

TreeIInv == IInv /\ StoryInv /\ TreeInv

LEMMA TreeInit == Init => TreeIInv
<1> SUFFICES ASSUME Init PROVE TreeIInv OBVIOUS
<1>1. IInv /\ StoryInv BY IInvInit, StoryInit
<1>2. lastId = 0 /\ \A w \in Workers : job[w] = Idle BY DEF Init
<1>3. Idle.pc = "lockSnapshot" /\ Idle.outcome = "running" BY DEF Idle
<1> HIDE DEF Idle
<1>4. ASSUME NEW w \in Workers PROVE TreeJob(job[w])
  <2>1. job[w].pc = "lockSnapshot" /\ job[w].outcome = "running" BY <1>2, <1>3
  <2>2. ~(job[w].outcome = "flow identity changed") BY <2>1
  <2> QED BY <2>1, <2>2 DEF TreeJob, Given
<1> QED BY <1>1, <1>2, <1>4 DEF TreeIInv, TreeInv

LEMMA TreeStep == TreeIInv /\ [Next]_vars => TreeIInv'
<1> SUFFICES ASSUME TreeIInv, [Next]_vars PROVE TreeIInv' OBVIOUS
<1>1. IInv /\ StoryInv /\ TreeInv /\ HistInv /\ ContentsInv BY DEF TreeIInv, IInv
<1>2. IInv' /\ HistInv' BY <1>1, IInvStep DEF IInv
<1>3. StoryInv' /\ HistGrows BY <1>1, StoryStep, HistStep
<1>4. CASE Server BY <1>1, <1>2, <1>3, <1>4, ServerKeepsClient, ServerKeepsTree DEF TreeIInv
<1>5. CASE \E w \in Workers : Worker(w) BY <1>1, <1>2, <1>3, <1>5, WorkerKeepsTree DEF TreeIInv
<1>6. CASE UNCHANGED vars BY <1>1, <1>2, <1>3, <1>6, ServerKeepsTree DEF TreeIInv, vars
<1> QED BY <1>4, <1>5, <1>6 DEF Next

\* The invariant that says what every view and every half-read answer shows: the
\* tree of one revision, from which every later one follows change by change.
THEOREM TreeSafe == Spec => []TreeIInv
BY TreeInit, TreeStep, PTL DEF Spec

----------------------------------------------------------------------------
(***************************************************************************)
(* What follows                                                            *)
(***************************************************************************)

\* The published view (storeQuery) is one revision of the server: whatever pages
\* were lost, sent twice, mixed with another capture or refused, and in whatever
\* order the server added, removed, replaced and changed its nodes, outside the
\* scopes it calls stale it shows the tree of its watermark and nothing else.
THEOREM ViewTrue == Spec => []ViewIsOneRevision
<1>1. TreeIInv => ViewIsOneRevision
  <2>1. TreeIInv /\ current # NoView => lastId > 0 /\ Whole(current)
    BY DEF TreeIInv, IInv, ContentsInv, ViewInv, TreeInv
  <2> QED BY <2>1 DEF ViewIsOneRevision, Whole
<1> QED BY <1>1, TreeSafe, PTL

\* What SyncQuery returns is the whole selected tree of one revision, with no
\* stale part: a view that a batch left stale is read again before it is handed out.
THEOREM SyncTrue == Spec => []SyncReturnsWholeTree
<1>1. TreeIInv => SyncReturnsWholeTree
  BY DEF TreeIInv, TreeInv, TreeJob, Given, SyncReturnsWholeTree
<1> QED BY <1>1, TreeSafe, PTL

\* A sync of "/" or of a whole flow says "query delta flow identity changed" only
\* when a flow was added or replaced after the view's revision. Below a flow this
\* is false: WithoutRemoved forgets the generation of a flow that is no node.
THEOREM IdentityTrue ==
    ASSUME Len(Scope) <= 1
    PROVE  Spec => []IdentityErrorsAreTrue
<1>1. TreeIInv => IdentityErrorsAreTrue
  <2>1. ~(Len(Scope) > 1) BY QueryAssumption
  <2> QED BY <2>1 DEF TreeIInv, TreeInv, TreeJob, IdentityErrorsAreTrue, FlowForgotten
<1> QED BY <1>1, TreeSafe, PTL

\* For any scope: a sync that says so without such a change is one of a scope below
\* its flow, with a view that has forgotten the flow.
THEOREM IdentityExplained == Spec => []IdentityErrorsHaveACause
<1>1. TreeIInv => IdentityErrorsHaveACause
  BY DEF TreeIInv, TreeInv, TreeJob, IdentityErrorsHaveACause
<1> QED BY <1>1, TreeSafe, PTL

----------------------------------------------------------------------------
(***************************************************************************)
(* QueryView implements Replica                                            *)
(***************************************************************************)

\* A view that shows a revision of the server is a copy of it.
LEMMA TrueViewIsCopy ==
    ASSUME HistInv, NEW v, IsView(v), Valid(Watermark(v)), Matches(v)
    PROVE  Shared!IsCopy(Copy(v))
<1> DEFINE c == Copy(v)
           fresh == {p \in Paths : InView(p) /\ ~IsStale(v, p)}
           state == hist[v.session][v.revision]
<1>1. /\ c.session = v.session /\ c.revision = v.revision
      /\ c.shown = [p \in fresh |-> IF HasNode(v, p) THEN Node(v, p) ELSE Absent]
      /\ c = [session |-> c.session, revision |-> c.revision, shown |-> c.shown]
  BY DEF Copy
<1>2. v.session \in DOMAIN hist /\ v.revision \in DOMAIN hist[v.session]
  BY DEF Valid, Watermark
<1>3. /\ DOMAIN History = DOMAIN hist /\ DOMAIN History[v.session] = DOMAIN hist[v.session]
      /\ History[v.session][v.revision] = state.tree
  BY <1>2 DEF History
<1>4. ASSUME NEW p \in fresh PROVE (IF HasNode(v, p) THEN Node(v, p) ELSE Absent) = state.tree[p]
  BY <1>4 DEF Matches, StateAt, Exists
<1> HIDE DEF c, fresh, state
<1>5. c.shown = [p \in fresh |-> state.tree[p]] BY <1>1, <1>4
<1>6. DOMAIN c.shown = fresh BY <1>1
<1>7. fresh \subseteq {p \in Paths : InView(p)} BY DEF fresh
<1>8. c = Shared!Of(c.session, c.revision, DOMAIN c.shown)
  BY <1>1, <1>3, <1>5, <1>6 DEF Shared!Of
<1>9. c.session \in DOMAIN History /\ c.revision \in DOMAIN History[c.session]
  BY <1>1, <1>2, <1>3
<1> QED BY <1>6, <1>7, <1>8, <1>9 DEF Shared!IsCopy, c

LEMMA CopyStarts == Init => Shared!Init
<1> SUFFICES ASSUME Init PROVE Shared!Init OBVIOUS
<1>1. hist = <<<<InitialState>>>> /\ lastId = 0 /\ \A w \in Workers : job[w] = Idle BY DEF Init
<1> HIDE DEF InitialState
<1>2. DOMAIN History = {1} /\ DOMAIN History[1] = {1} BY <1>1 DEF History
<1>3. SharedCopy = NoCopy BY <1>1 DEF SharedCopy
<1>4. Taken = [w \in Workers |-> NoCopy] /\ Results = [w \in Workers |-> NoCopy]
  BY <1>1 DEF Taken, Given, Results, Idle
<1> QED BY <1>2, <1>3, <1>4 DEF Shared!Init

LEMMA ServerChangesCopy ==
    ASSUME HistInv, HistGrows, UNCHANGED <<current, lastId, mutex, job>>
    PROVE  Shared!Change
<1>1. ASSUME NEW s \in DOMAIN History, NEW r \in DOMAIN History[s]
      PROVE  s \in DOMAIN History' /\ r \in DOMAIN History'[s] /\ History'[s][r] = History[s][r]
  <2>1. s \in DOMAIN hist /\ r \in DOMAIN hist[s] BY <1>1 DEF History
  <2>2. s \in DOMAIN hist' /\ r \in DOMAIN hist'[s] /\ hist'[s][r] = hist[s][r]
    BY <2>1 DEF HistGrows
  <2> QED BY <2>1, <2>2 DEF History
<1>2. SharedCopy' = SharedCopy /\ Taken' = Taken /\ Results' = Results
  BY DEF SharedCopy, Taken, Given, Results, Copy, HasNode, Node, IsStale
<1> QED BY <1>1, <1>2 DEF Shared!Change

\* The last read of a call ends well only with the view that is published then.
LEMMA LastReadTakesCopy ==
    ASSUME ContentsInv, LockInv, NEW w \in Workers, Worker(w), Given(job'[w]), ~SyncReturns(w)
    PROVE  /\ ~Given(job[w]) /\ job[w].outcome = "running"
           /\ job'[w].outcome # "ok" /\ job'[w].view = current' /\ lastId' > 0
<1> DEFINE j == job[w]
<1>1. DOMAIN job = Workers /\ DOMAIN j = JobFields /\ JobInv(j) /\ lastId \in Nat
  BY DEF ContentsInv, JobInv, ViewInv
<1>2. j.outcome = "running" /\ j.pc \notin {"done", "returning"} /\ ~Given(j)
  BY <1>1 DEF JobInv, Worker, BeginSnapshot, ReadSnapshotPage, SnapshotCallFails, BeginSince,
              RefuseSince, SinceNotBegun, ReadSincePage, SinceCallFails, SinceReset, Given
<1>3. ASSUME NEW v, Polling(w, v) PROVE job'[w].view = v /\ job'[w].outcome = "running"
  BY <1>1, <1>2, <1>3 DEF Polling, JobFields
<1>4. ASSUME NEW outcome, outcome # "ok", Return(w, outcome) PROVE FALSE
  BY <1>1, <1>4 DEF Return, JobFields, Given
<1>5. ASSUME NEW v, SinceReturns(w, v) PROVE job'[w].view = v /\ job'[w].outcome = "running"
  BY <1>1, <1>2, <1>3, <1>5 DEF SinceReturns, JobFields
<1>6. CASE ReadSnapshotPage(w)
  <2>1. PICK page \in SnapshotPages(j) :
          \/ \E got, cap : job' = [job EXCEPT ![w] = [@ EXCEPT !.got = got, !.index = j.index + 1, !.cap = cap]]
          \/ lastId' = lastId + 1 /\ Polling(w, current')
          \/ Return(w, "snapshot failed")
    BY <1>6 DEF ReadSnapshotPage, Allocate
  <2>2. CASE \E got, cap : job' = [job EXCEPT ![w] = [@ EXCEPT !.got = got, !.index = j.index + 1, !.cap = cap]]
    BY <1>1, <1>2, <2>2 DEF JobFields, Given
  <2>3. CASE lastId' = lastId + 1 /\ Polling(w, current')
    <3>1. job'[w].view = current' /\ job'[w].outcome = "running" BY <1>3, <2>3
    <3> QED BY <1>1, <1>2, <2>3, <3>1
  <2>4. CASE Return(w, "snapshot failed") BY <1>4, <2>4
  <2> QED BY <2>1, <2>2, <2>3, <2>4
<1>7. CASE ReadSincePage(w)
  <2>1. j.pc = "since" /\ current = j.view /\ lastId > 0
    BY <1>1, <1>7 DEF ReadSincePage, JobInv, OwnView, LockInv, OneReadAtATime
  <2>2. PICK page \in SincePages(j) :
          \/ job' = [job EXCEPT ![w] = [@ EXCEPT !.replays = j.replays + 1]]
          \/ \E cap : job' = [job EXCEPT ![w] = [@ EXCEPT !.cap = cap, !.index = j.index + 1,
                                                          !.replays = 0, !.got = j.got \cup page.ops,
                                                          !.last = page.ops]]
          \/ \E t : ApplyBatch(w, t, j.got \cup page.ops)
          \/ SinceFails(w, Reason(j, page))
    BY <1>7 DEF ReadSincePage
  <2>3. CASE \E t : ApplyBatch(w, t, j.got \cup page.ops)
    <3>1. \/ SinceReturns(w, j.view) /\ UNCHANGED <<current, lastId>>
          \/ lastId' = lastId + 1 /\ SinceReturns(w, current')
          \/ Return(w, "since failed")
      BY <2>3 DEF ApplyBatch, Allocate, SinceFails
    <3>2. CASE SinceReturns(w, j.view) /\ UNCHANGED <<current, lastId>>
      <4>1. job'[w].view = j.view /\ job'[w].outcome = "running" BY <1>5, <3>2
      <4> QED BY <1>2, <2>1, <3>2, <4>1
    <3>3. CASE lastId' = lastId + 1 /\ SinceReturns(w, current')
      <4>1. job'[w].view = current' /\ job'[w].outcome = "running" BY <1>5, <3>3
      <4> QED BY <1>1, <1>2, <3>3, <4>1
    <3> QED BY <1>4, <3>1, <3>2, <3>3
  <2>4. CASE SinceFails(w, Reason(j, page)) BY <1>4, <2>4 DEF SinceFails, Reason
  <2> QED BY <1>1, <1>2, <2>2, <2>3, <2>4 DEF JobFields, Given
<1>8. CASE BeginSnapshot(w) \/ BeginSince(w) \/ SinceReset(w)
  BY <1>1, <1>2, <1>8 DEF BeginSnapshot, BeginSince, SinceReset, JobFields, Given
<1>9. CASE SnapshotCallFails(w) \/ RefuseSince(w) \/ SinceNotBegun(w) \/ SinceCallFails(w)
  BY <1>4, <1>9 DEF SnapshotCallFails, RefuseSince, SinceNotBegun, SinceCallFails, SinceFails
<1> QED BY <1>6, <1>7, <1>8, <1>9 DEF Worker

LEMMA WorkerMovesCopy ==
    ASSUME TreeIInv, TreeIInv', NEW w \in Workers, Worker(w)
    PROVE  [Shared!Next]_(Shared!vars)
<1>1. IInv /\ LockInv /\ ContentsInv /\ ViewInv /\ HistInv /\ HistInv' /\ ContentsInv' /\ ViewInv' /\ TreeInv'
  BY DEF TreeIInv, IInv, ContentsInv
<1>2. hist' = hist /\ History' = History BY WorkerKeepsHist DEF History
<1>3. OwnStep(w) BY <1>1, WorkerStep
<1>4. DOMAIN job' = Workers /\ \A u \in Workers \ {w} : job'[u] = job[u]
  BY <1>1, WorkerLockStep DEF LockStep, OthersKept, JobShape
<1>5. /\ DOMAIN Results = Workers /\ DOMAIN Results' = Workers
      /\ DOMAIN Taken = Workers /\ DOMAIN Taken' = Workers
      /\ \A u \in Workers \ {w} : Results'[u] = Results[u] /\ Taken'[u] = Taken[u]
  BY <1>4 DEF Taken, Given, Results, Copy, HasNode, Node, IsStale
<1>6. UNCHANGED <<current, lastId>> => SharedCopy' = SharedCopy
  BY DEF SharedCopy, Copy, HasNode, Node, IsStale
<1>7. ASSUME lastId' > 0 PROVE Shared!Move
  <2>1. Whole(current)' /\ GoodView(current)' BY <1>1, <1>7 DEF TreeInv, ViewInv
  <2>2. Shared!IsCopy(Copy(current))'
    <3>1. HistInv /\ IsView(current') /\ Valid(Watermark(current')) /\ Matches(current')
      BY <1>1, <1>2, <2>1 DEF GoodView, Whole, Matches, Valid, StateAt
    <3>2. Shared!IsCopy(Copy(current')) BY <3>1, TrueViewIsCopy
    <3> QED BY <1>2, <3>2
            DEF Shared!IsCopy, Shared!Of, Copy, HasNode, Node, IsStale
  <2>3. SharedCopy' = Copy(current)' BY <1>1, <1>7 DEF SharedCopy, ViewInv
  <2>4. Shared!IsCopy(SharedCopy') BY <1>2, <2>2, <2>3 DEF Shared!IsCopy, Shared!Of
  <2>5. Shared!NotBefore(SharedCopy', SharedCopy)
    <3>1. /\ SharedCopy'.session = current'.session /\ SharedCopy'.revision = current'.revision
          /\ current'.session \in Nat /\ current'.session > 0 /\ current'.revision \in Nat
      BY <1>1, <2>1, <2>3 DEF Copy, GoodView, IsView, Valid, Watermark, HistInv
    <3>2. CASE lastId = 0 BY <3>1, <3>2 DEF SharedCopy, NoCopy, Shared!NotBefore
    <3>3. CASE lastId # 0
      <4>1. SharedCopy.session = current.session /\ SharedCopy.revision = current.revision
        BY <3>3 DEF SharedCopy, Copy
      <4>2. lastId > 0 BY <1>1, <3>3 DEF ViewInv
      <4>3. CASE UNCHANGED <<current, lastId>> BY <3>1, <4>1, <4>3 DEF Shared!NotBefore
      <4>4. CASE Publishes(w)
        BY <3>1, <4>1, <4>2, <4>4 DEF Publishes, AtLeast, Watermark, Shared!NotBefore
      <4> QED BY <1>3, <4>3, <4>4 DEF OwnStep
    <3> QED BY <3>2, <3>3
  <2> QED BY <1>2, <2>4, <2>5 DEF Shared!Move
<1>8. /\ Taken' = [u \in Workers |-> Taken'[u]] /\ Taken = [u \in Workers |-> Taken[u]]
      /\ Results' = [u \in Workers |-> Results'[u]] /\ Results = [u \in Workers |-> Results[u]]
  BY DEF Taken, Results
<1>9. CASE Given(job'[w]) /\ ~SyncReturns(w)
  <2>1. /\ ~Given(job[w]) /\ job[w].outcome = "running" /\ job'[w].outcome # "ok"
        /\ job'[w].view = current' /\ lastId' > 0
    BY <1>1, <1>9, LastReadTakesCopy
  <2>2. SharedCopy' = Copy(current') BY <1>1, <2>1 DEF SharedCopy, ViewInv, Copy, HasNode, Node, IsStale
  <2>3. Taken[w] = NoCopy /\ Taken'[w] = SharedCopy' /\ Results'[w] = Results[w]
    BY <1>9, <2>1, <2>2 DEF Taken, Given, Results, Copy, HasNode, Node, IsStale
  <2>4. current'.stale = {} BY <1>1, <1>9, <2>1 DEF TreeInv, TreeJob, Given
  <2>5. DOMAIN SharedCopy'.shown = {p \in Paths : InView(p)}
    <3>1. DOMAIN Copy(current').shown = {p \in Paths : InView(p) /\ ~IsStale(current', p)} BY DEF Copy
    <3>2. \A p : ~IsStale(current', p) BY <2>4 DEF IsStale, UnderAny
    <3> QED BY <2>2, <3>1, <3>2
  <2>6. Taken' = [Taken EXCEPT ![w] = SharedCopy'] /\ Results' = Results BY <1>5, <1>8, <2>3
  <2> QED BY <1>7, <2>1, <2>3, <2>5, <2>6 DEF Shared!Take, Shared!Next
<1>10. CASE SyncReturns(w)
  <2>1. job[w].pc = "returning" /\ JobInv(job[w]) /\ DOMAIN job = Workers
    BY <1>1, <1>10 DEF SyncReturns, ContentsInv
  <2>2. job[w].outcome = "running" /\ OwnView(job[w]) /\ Valid(Watermark(job[w].view))
    BY <1>1, <2>1 DEF JobInv, TreeIInv, TreeInv, TreeJob, Given
  <2>3. job'[w].outcome = "ok" /\ job'[w].view = job[w].view
    BY <1>10, <2>1 DEF SyncReturns, JobInv, JobFields
  <2>4. Taken'[w] = Taken[w] /\ Taken[w] = Copy(job[w].view) /\ Results[w] = NoCopy
        /\ Results'[w] = Taken[w]
    BY <2>1, <2>2, <2>3 DEF Taken, Given, Results, Copy, HasNode, Node, IsStale
  <2>5. Taken[w] # NoCopy
    <3>1. job[w].view.session > 0 BY <1>1, <2>2 DEF Valid, Watermark, HistInv
    <3> QED BY <2>4, <3>1 DEF Copy, NoCopy
  <2>6. Taken' = Taken /\ Results' = [Results EXCEPT ![w] = Taken[w]] BY <1>5, <1>8, <2>4
  <2>7. SharedCopy' = SharedCopy BY <1>6, <1>10 DEF SyncReturns
  <2> QED BY <1>2, <2>4, <2>5, <2>6, <2>7 DEF Shared!Give, Shared!Next
<1>11. CASE ~Given(job'[w]) /\ ~SyncReturns(w)
  <2>1. ~Given(job[w])
    BY <1>1, <1>11 DEF ContentsInv, JobInv, Worker, BeginSnapshot, ReadSnapshotPage,
                SnapshotCallFails, BeginSince, RefuseSince, SinceNotBegun, ReadSincePage,
                SinceCallFails, SinceReset, Given
  <2>2. Taken'[w] = Taken[w] /\ Results'[w] = Results[w] BY <1>11, <2>1 DEF Taken, Results, Given
  <2>3. Taken' = Taken /\ Results' = Results BY <1>5, <1>8, <2>2
  <2>4. CASE lastId' > 0 BY <1>7, <2>3, <2>4 DEF Shared!Refresh, Shared!Next
  <2>5. CASE UNCHANGED <<current, lastId>> BY <1>2, <1>6, <2>3, <2>5 DEF Shared!vars
  <2> QED BY <1>1, <1>3, <2>4, <2>5 DEF OwnStep, Publishes, ViewInv
<1> QED BY <1>9, <1>10, <1>11

\* Under queryMu, SyncQuery by any number of goroutines is one replica of the
\* server's tree: each of its results is the whole published view as it was when
\* the call's last read ended, whatever is published before it returns, and the
\* view that they share only moves on.
THEOREM ImplementsReplica == Spec => KeepsReplica
<1>1. ASSUME TreeIInv, TreeIInv', [Next]_vars PROVE [Shared!Next]_(Shared!vars)
  <2>1. HistInv /\ HistGrows BY <1>1, HistStep DEF TreeIInv, IInv
  <2>2. CASE Server BY <2>1, <2>2, ServerKeepsClient, ServerChangesCopy DEF Shared!Next
  <2>3. CASE \E w \in Workers : Worker(w) BY <1>1, <2>3, WorkerMovesCopy
  <2>4. CASE UNCHANGED vars
    BY <2>1, <2>4, ServerChangesCopy DEF vars, Shared!Next
  <2> QED BY <1>1, <2>2, <2>3, <2>4 DEF Next
<1> QED BY <1>1, CopyStarts, TreeSafe, PTL DEF Spec, KeepsReplica, Shared!Spec

----------------------------------------------------------------------------
(***************************************************************************)
(* What goroutines may conclude from each other's results                  *)
(***************************************************************************)

\* Every view that a call returned, or is about to return, is of the published
\* view's revision or an earlier one.
ResultsAreOld ==
    \A w \in Workers : Given(job[w]) => lastId > 0 /\ AtLeast(Watermark(current), job[w].view)

\* The published view moves on.
LEMMA CurrentAdvances ==
    ASSUME IInv, [Next]_vars
    PROVE  lastId > 0 => lastId' > 0 /\ AtLeast(Watermark(current'), current)
<1>1. lastId \in Nat /\ (lastId > 0 => IsView(current))
  BY DEF IInv, ContentsInv, ViewInv, GoodView
<1>2. CASE UNCHANGED <<current, lastId>> BY <1>1, <1>2 DEF AtLeast, Watermark, IsView
<1>3. CASE \E w \in Workers : Worker(w)
  <2>1. PICK w \in Workers : OwnStep(w) BY <1>3, WorkerStep
  <2>2. CASE Publishes(w) BY <1>1, <2>2 DEF Publishes
  <2> QED BY <1>2, <2>1, <2>2 DEF OwnStep
<1>4. CASE Server BY <1>2, <1>4, ServerKeepsClient
<1>5. CASE UNCHANGED vars BY <1>2, <1>5 DEF vars
<1> QED BY <1>3, <1>4, <1>5 DEF Next

\* A call that has been given a view had it before, or takes it at this moment.
LEMMA NewResultIsCurrent ==
    ASSUME TreeIInv, [Next]_vars, NEW w \in Workers, Given(job'[w])
    PROVE  \/ Given(job[w]) /\ job'[w].view = job[w].view
           \/ ~Given(job[w]) /\ job'[w].view = current' /\ lastId' > 0
<1>1. CASE Server BY <1>1, ServerKeepsClient
<1>2. CASE \E u \in Workers : Worker(u)
  <2>1. PICK u \in Workers : Worker(u) BY <1>2
  <2>2. CASE u = w
    <3>1. CASE SyncReturns(w)
      <4>1. DOMAIN job = Workers /\ DOMAIN job[w] = JobFields
        BY DEF TreeIInv, IInv, ContentsInv, JobInv
      <4> QED BY <3>1, <4>1 DEF SyncReturns, Given, JobFields
    <3> QED BY <2>1, <2>2, <3>1, LastReadTakesCopy DEF TreeIInv, IInv
  <2>3. CASE u # w BY <2>1, <2>3, WorkerLockStep DEF TreeIInv, IInv, LockStep, OthersKept
  <2> QED BY <2>2, <2>3
<1>3. CASE UNCHANGED vars BY <1>3 DEF vars
<1> QED BY <1>1, <1>2, <1>3 DEF Next

\* Revisions are ordered.
LEMMA AtLeastOrder ==
    ASSUME NEW a, NEW b, NEW c, IsView(a), IsView(b), IsView(c)
    PROVE  /\ AtLeast(Watermark(a), a)
           /\ AtLeast(Watermark(a), b) /\ AtLeast(Watermark(b), c) => AtLeast(Watermark(a), c)
<1>1. \A v \in {a, b, c} : v.session \in Nat /\ v.revision \in Nat BY DEF IsView
<1> QED BY <1>1 DEF AtLeast, Watermark

\* So what was given before stays older than, or the same as, what is published.
LEMMA ResultsStep ==
    ASSUME TreeIInv, TreeIInv', ResultsAreOld, [Next]_vars
    PROVE  ResultsAreOld'
<1> SUFFICES ASSUME NEW w \in Workers, Given(job'[w])
             PROVE  lastId' > 0 /\ AtLeast(Watermark(current'), job'[w].view)
  BY DEF ResultsAreOld, Watermark, AtLeast, Given
<1>1. CASE Given(job[w]) /\ job'[w].view = job[w].view
  <2>1. lastId > 0 /\ AtLeast(Watermark(current), job[w].view) BY <1>1 DEF ResultsAreOld
  <2>2. lastId' > 0 /\ AtLeast(Watermark(current'), current)
    BY <2>1, CurrentAdvances DEF TreeIInv
  <2>3. IsView(current) /\ IsView(current') /\ IsView(job[w].view)
    BY <1>1, <2>1, <2>2
       DEF TreeIInv, TreeInv, TreeJob, IInv, ContentsInv, ViewInv, GoodView, IsView, IsStatusMap
  <2> QED BY <1>1, <2>1, <2>2, <2>3, AtLeastOrder
<1>2. CASE job'[w].view = current' /\ lastId' > 0
  <2>1. IsView(current')
    BY <1>2 DEF TreeIInv, IInv, ContentsInv, ViewInv, GoodView, IsView, IsStatusMap
  <2> QED BY <1>2, <2>1, AtLeastOrder
<1> QED BY <1>1, <1>2, NewResultIsCurrent

\* No view that SyncQuery ever handed out is newer than the published one.
THEOREM ResultsSafe == Spec => [](TreeIInv /\ ResultsAreOld)
<1>1. Init => ResultsAreOld BY DEF Init, Idle, ResultsAreOld, Given
<1>2. TreeIInv /\ TreeIInv' /\ ResultsAreOld /\ [Next]_vars => ResultsAreOld' BY ResultsStep
<1> QED BY <1>1, <1>2, TreeSafe, PTL DEF Spec

\* SyncQuery on a shared client: two goroutines that are handed views of one
\* revision are handed the same tree, whichever of them read it, by whatever
\* pages and batches.
THEOREM ResultsAgree == Spec => []SyncsAgree
<1>1. ASSUME NEW u, NEW v, u.stale = {}, v.stale = {}, Matches(u), Matches(v),
             Watermark(u) = Watermark(v)
      PROVE  Copy(u) = Copy(v)
  <2> DEFINE S == {p \in Paths : InView(p)}
             tree == StateAt(Watermark(u)).tree
  <2>1. \A p : ~IsStale(u, p) /\ ~IsStale(v, p) BY <1>1 DEF IsStale, UnderAny
  <2>2. \A p \in S : (IF HasNode(u, p) THEN Node(u, p) ELSE Absent) = tree[p]
    BY <1>1, <2>1 DEF Matches, Exists, Watermark
  <2>3. \A p \in S : (IF HasNode(v, p) THEN Node(v, p) ELSE Absent) = tree[p]
    BY <1>1, <2>1 DEF Matches, Exists, Watermark
  <2>4. Copy(u) = [session |-> u.session, revision |-> u.revision,
                   shown |-> [p \in S |-> IF HasNode(u, p) THEN Node(u, p) ELSE Absent]]
    BY <2>1 DEF Copy
  <2>5. Copy(v) = [session |-> v.session, revision |-> v.revision,
                   shown |-> [p \in S |-> IF HasNode(v, p) THEN Node(v, p) ELSE Absent]]
    BY <2>1 DEF Copy
  <2>6. u.session = v.session /\ u.revision = v.revision BY <1>1 DEF Watermark
  <2>7. [p \in S |-> IF HasNode(u, p) THEN Node(u, p) ELSE Absent]
          = [p \in S |-> IF HasNode(v, p) THEN Node(v, p) ELSE Absent]
    BY <2>2, <2>3
  <2> QED BY <2>4, <2>5, <2>6, <2>7
<1>2. TreeIInv => SyncsAgree BY <1>1 DEF TreeIInv, TreeInv, TreeJob, Given, SyncsAgree, Watermark
<1> QED BY <1>2, TreeSafe, PTL

\* And a goroutine whose last read ends after another's is given no older view
\* than the other was, in whichever order they return.
THEOREM SyncsMoveOn == Spec => NoSyncGoesBack
<1> DEFINE Newer ==
             \A u, w \in Workers :
                Given(job[u]) /\ ~Given(job[w]) /\ Given(job'[w]) =>
                    \/ job'[w].view.session > job[u].view.session
                    \/ /\ job'[w].view.session = job[u].view.session
                       /\ job'[w].view.revision >= job[u].view.revision
<1>1. ASSUME TreeIInv, TreeIInv', ResultsAreOld, [Next]_vars PROVE Newer
  <2> SUFFICES ASSUME NEW u \in Workers, NEW w \in Workers,
                      Given(job[u]), ~Given(job[w]), Given(job'[w])
               PROVE  AtLeast(Watermark(job'[w].view), job[u].view)
    BY DEF AtLeast, Watermark
  <2>1. job'[w].view = current' BY <1>1, NewResultIsCurrent
  <2>2. lastId > 0 /\ AtLeast(Watermark(current), job[u].view) BY <1>1 DEF ResultsAreOld
  <2>3. lastId' > 0 /\ AtLeast(Watermark(current'), current)
    BY <1>1, <2>2, CurrentAdvances DEF TreeIInv
  <2>4. IsView(current) /\ IsView(current') /\ IsView(job[u].view)
    BY <1>1, <2>2, <2>3
       DEF TreeIInv, TreeInv, TreeJob, IInv, ContentsInv, ViewInv, GoodView, IsView, IsStatusMap
  <2> QED BY <2>1, <2>2, <2>3, <2>4, AtLeastOrder
<1>2. TreeIInv /\ ResultsAreOld /\ TreeIInv' /\ [Next]_vars => [Newer]_vars BY <1>1
<1> QED BY <1>2, ResultsSafe, PTL DEF Spec, NoSyncGoesBack

=============================================================================
