------------------------ MODULE QueryContents_proofs ------------------------
(***************************************************************************)
(* What queryMu protects (QueryView_proofs) put to use: the published view *)
(* of QueryView keeps its type, its budget and its direction, for every    *)
(* tree, scope, budget, number of goroutines and behaviour of the server,  *)
(* and no behaviour of the server keeps a SyncQuery call going.            *)
(***************************************************************************)
EXTENDS QueryView_proofs, FiniteSetTheorems, SequenceTheorems, FunctionTheorems

----------------------------------------------------------------------------
(***************************************************************************)
(* The server                                                              *)
(***************************************************************************)

Valid(cap) == cap[1] \in DOMAIN hist /\ cap[2] \in DOMAIN hist[cap[1]]

HistInv ==
    /\ hist \in Seq(Seq(Trees)) /\ hist # <<>>
    /\ \A s \in DOMAIN hist : hist[s] # <<>>

\* No session and no revision is ever forgotten or changed.
HistGrows ==
    \A s \in DOMAIN hist : \A r \in DOMAIN hist[s] :
        s \in DOMAIN hist' /\ r \in DOMAIN hist'[s] /\ hist'[s][r] = hist[s][r]

\* Every path but "/" is in a flow, and every node but "/" has a parent.
LEMMA PathFacts ==
    /\ <<>> \in Paths /\ Scope \in Paths
    /\ \A p \in Paths : p # <<>> => Flow(p) \in Flows /\ Parent(p) \in Paths
<1> USE QueryAssumption
<1>1. <<>> \in Paths /\ Scope \in Paths OBVIOUS
<1>2. ASSUME NEW p \in Paths, p # <<>> PROVE Flow(p) \in Flows /\ Parent(p) \in Paths
  <2>1. p \in Seq(STRING) /\ Len(p) \in Nat /\ Len(p) >= 1 BY <1>2
  <2>2. SubSeq(p, 1, 1) \in Paths /\ SubSeq(p, 1, Len(p) - 1) \in Paths BY <2>1
  <2>3. SubSeq(p, 1, 1) = <<p[1]>>
    <3> DEFINE q == SubSeq(p, 1, 1)
    <3>1. \A i \in 1 .. 1 : p[i] \in STRING BY <2>1
    <3>2. q \in Seq(STRING) /\ Len(q) = 1 /\ q[1] = p[1]
      BY <2>1, <3>1, SubSeqProperties
    <3>3. <<p[1]>> \in Seq(STRING) BY <3>1
    <3> HIDE DEF q
    <3>4. q = <<p[1]>> BY <3>2, <3>3, SeqEqual
    <3> QED BY <3>4 DEF q
  <2> QED BY <2>2, <2>3 DEF Flow, Flows, Parent
<1> QED BY <1>1, <1>2

LEMMA HeadFacts ==
    ASSUME HistInv
    PROVE  /\ Session \in DOMAIN hist /\ Session \in Nat
           /\ hist[Session] \in Seq(Trees) /\ Revision \in DOMAIN hist[Session] /\ Revision \in Nat
           /\ ServerState \in Trees /\ Valid(ServerHead)
<1>1. Session \in DOMAIN hist /\ Session \in Nat BY DEF HistInv, Session
<1>2. hist[Session] \in Seq(Trees) /\ hist[Session] # <<>> BY <1>1 DEF HistInv
<1>3. Revision \in DOMAIN hist[Session] /\ Revision \in Nat BY <1>2 DEF Revision
<1> QED BY <1>1, <1>2, <1>3 DEF ServerState, StateAt, ServerHead, Valid

\* Any state the server had is one of Trees.
LEMMA StateTyped ==
    ASSUME HistInv, NEW cap, Valid(cap)
    PROVE  StateAt(cap) \in Trees
<1>1. hist[cap[1]] \in Seq(Trees) BY DEF HistInv, Valid
<1> QED BY <1>1 DEF StateAt, Valid

LEMMA CommitKeeps ==
    ASSUME HistInv, NEW tree \in [Paths -> Statuses \cup {Absent}], NEW gens \in [Flows -> Nat],
           NEW op \in {"none", "status", "remove", "add", "replace"}, NEW p \in Paths,
           Commit(tree, gens, op, p)
    PROVE  HistInv' /\ HistGrows
<1> DEFINE t == [tree |-> tree, gens |-> gens, change |-> [op |-> op, path |-> p]]
           h == Append(hist[Session], t)
<1>1. t \in Trees BY DEF Trees
<1>2. hist' = [hist EXCEPT ![Session] = h] BY DEF Commit
<1> HIDE DEF t
<1>3. h \in Seq(Trees) /\ h # <<>> /\ DOMAIN h = 1 .. Len(hist[Session]) + 1
      /\ \A r \in DOMAIN hist[Session] : r \in DOMAIN h /\ h[r] = hist[Session][r]
  BY <1>1, HeadFacts
<1> HIDE DEF h
<1>4. HistInv' BY <1>2, <1>3, HeadFacts DEF HistInv
<1>5. HistGrows BY <1>2, <1>3, HeadFacts DEF HistGrows, HistInv
<1> QED BY <1>4, <1>5

LEMMA RestartKeeps == ASSUME HistInv, ServerRestarts PROVE HistInv' /\ HistGrows
<1> DEFINE t == [ServerState EXCEPT !.change = NoChange]
<1>1. t \in Trees BY HeadFacts, PathFacts DEF Trees, NoChange
<1>2. hist' = Append(hist, <<t>>) BY DEF ServerRestarts
<1> HIDE DEF t
<1>3. <<t>> \in Seq(Trees) /\ <<t>> # <<>> BY <1>1
<1> DEFINE h == <<t>>
<1> HIDE DEF h
<1>4. h \in Seq(Trees) /\ h # <<>> /\ hist' = Append(hist, h) BY <1>2, <1>3 DEF h
<1>5. HistInv'
  <2>1. hist' \in Seq(Seq(Trees)) /\ hist' # <<>> BY <1>4 DEF HistInv
  <2>2. \A s \in DOMAIN hist' : hist'[s] = h \/ (s \in DOMAIN hist /\ hist'[s] = hist[s])
    BY <1>4 DEF HistInv
  <2> QED BY <1>4, <2>1, <2>2 DEF HistInv
<1>6. HistGrows BY <1>4 DEF HistGrows, HistInv
<1> QED BY <1>5, <1>6

LEMMA ServerKeepsHist == ASSUME HistInv, Server PROVE HistInv' /\ HistGrows
<1> DEFINE T == [Paths -> Statuses \cup {Absent}]
<1>1. ServerState.tree \in T /\ ServerState.gens \in [Flows -> Nat] BY HeadFacts DEF Trees
<1>2. \A p : Renewed(p) \in [Flows -> Nat] BY <1>1 DEF Renewed
<1>3. ASSUME NEW p \in Paths, NEW s \in Statuses, ServerUpdates(p, s) PROVE HistInv' /\ HistGrows
  <2>1. [q \in Paths |-> IF Under(p, q) THEN s ELSE ServerState.tree[q]] \in T BY <1>1
  <2> QED BY <1>1, <1>3, <2>1, CommitKeeps DEF ServerUpdates
<1>4. ASSUME NEW p \in Paths, NEW s \in Statuses, ServerAdds(p, s) PROVE HistInv' /\ HistGrows
  <2>1. [ServerState.tree EXCEPT ![p] = s] \in T BY <1>1
  <2> QED BY <1>2, <1>4, <2>1, CommitKeeps DEF ServerAdds
<1>5. ASSUME NEW p \in Paths, ServerRemoves(p) PROVE HistInv' /\ HistGrows
  <2>1. [q \in Paths |-> IF Under(q, p) THEN Absent ELSE ServerState.tree[q]] \in T BY <1>1
  <2> QED BY <1>1, <1>5, <2>1, CommitKeeps DEF ServerRemoves
<1>6. ASSUME NEW f \in Flows, NEW s \in Statuses, ServerReplaces(f, s) PROVE HistInv' /\ HistGrows
  <2>1. [q \in Paths |-> IF Under(q, f) /\ Exists(ServerState, q) THEN s ELSE ServerState.tree[q]] \in T
    BY <1>1
  <2>2. f \in Paths BY DEF Flows
  <2> QED BY <1>2, <1>6, <2>1, <2>2, CommitKeeps DEF ServerReplaces
<1> QED BY <1>3, <1>4, <1>5, <1>6, RestartKeeps DEF Server

LEMMA HistInit == Init => HistInv
<1> SUFFICES ASSUME Init PROVE HistInv OBVIOUS
<1>1. InitialState \in Trees
  BY QueryAssumption, PathFacts DEF InitialState, Trees, NoChange
<1>2. hist = <<<<InitialState>>>> BY DEF Init
<1> HIDE DEF InitialState
<1> QED BY <1>1, <1>2 DEF HistInv

\* A step of a goroutine leaves the server alone.
LEMMA WorkerKeepsHist == ASSUME NEW w, Worker(w) PROVE hist' = hist
BY DEF Worker, BeginSnapshot, ReadSnapshotPage, SnapshotCallFails, BeginSince, RefuseSince,
       SinceNotBegun, ReadSincePage, SinceCallFails, SinceReset, SyncReturns

LEMMA HistStep == ASSUME HistInv, [Next]_vars PROVE HistInv' /\ HistGrows
<1>1. CASE hist' = hist BY <1>1 DEF HistInv, HistGrows
<1>2. CASE Server BY <1>2, ServerKeepsHist
<1>3. CASE \E w \in Workers : Worker(w) BY <1>1, <1>3, WorkerKeepsHist
<1>4. CASE UNCHANGED vars BY <1>1, <1>4 DEF vars
<1> QED BY <1>2, <1>3, <1>4 DEF Next

LEMMA ValidKept == ASSUME HistGrows, NEW cap, Valid(cap) PROVE Valid(cap)'
BY DEF HistGrows, Valid
----------------------------------------------------------------------------
(***************************************************************************)
(* The client                                                              *)
(***************************************************************************)

Watermark(v) == <<v.session, v.revision>>
AtLeast(cap, v) == cap[1] > v.session \/ (cap[1] = v.session /\ cap[2] >= v.revision)

ViewFits(v) ==
    /\ IsFiniteSet(DOMAIN v.nodes) /\ IsFiniteSet(DOMAIN v.over)
    /\ Size(v) <= ViewBudget

GoodView(v) == IsView(v) /\ Valid(Watermark(v)) /\ ViewFits(v)

\* The published view: there is one as soon as one was allocated.
ViewInv ==
    /\ lastId \in Nat
    /\ lastId = 0 => current = NoView
    /\ lastId > 0 => GoodView(current) /\ current.id <= lastId

\* A goroutine's own view is an old one, or the very view that is published.
OwnView(j) ==
    /\ lastId > 0
    /\ IsView(j.view) /\ j.view.id <= lastId
    /\ current.id = j.view.id => current = j.view

SnapshotInv(j) ==
    /\ IsFiniteSet(j.got) /\ OldSize + Cardinality(j.got) <= ViewBudget
    /\ j.index > 0 => Valid(j.cap) /\ (lastId > 0 => AtLeast(j.cap, current))

UpsertsKnown(v, ops) ==
    \A o \in ops : o.op = "upsert_summary" => o.path \in DOMAIN v.nodes /\ o.status \in Statuses

SinceInv(j) ==
    /\ j.index > 0 => /\ Valid(j.cap)
                      /\ j.cap[1] = j.view.session /\ j.cap[2] >= j.view.revision
    /\ UpsertsKnown(j.view, j.got)

JobFields == {"pc", "polls", "view", "cap", "got", "index", "last", "replays", "outcome"}

JobInv(j) ==
    /\ DOMAIN j = JobFields /\ IsJob(j)
    /\ j.pc # "done" => j.outcome = "running"
    /\ j.pc \in {"lockSnapshot", "lockSince", "returning"} => j.got = {}
    /\ j.pc = "lockSince" => j.polls > 0
    /\ j.pc \in {"lockSince", "since", "returning"} => OwnView(j)
    /\ j.pc = "snapshot" => SnapshotInv(j)
    /\ j.pc = "since" => SinceInv(j)

ContentsInv ==
    /\ ViewInv
    /\ DOMAIN job = Workers /\ \A w \in Workers : JobInv(job[w])

IInv == HistInv /\ LockInv /\ ContentsInv

LEMMA OldSizeFits == ASSUME ViewInv PROVE OldSize \in Nat /\ OldSize <= ViewBudget
<1>1. CASE current = NoView BY <1>1, QueryAssumption DEF OldSize
<1>2. CASE current # NoView
  <2>1. ViewFits(current) BY <1>2 DEF ViewInv, GoodView
  <2>2. Cardinality(DOMAIN current.nodes) \in Nat /\ Cardinality(DOMAIN current.over) \in Nat
    BY <2>1, FS_CardinalityType DEF ViewFits
  <2> QED BY <1>2, <2>1, <2>2 DEF OldSize, ViewFits, Size
<1> QED BY <1>1, <1>2

\* A published view is new, and as good as it was made.
LEMMA PublishKeeps ==
    ASSUME ViewInv, NEW v, GoodView(v), Allocate(v), hist' = hist
    PROVE  /\ ViewInv' /\ lastId' = lastId + 1 /\ current'.id = lastId + 1
           /\ IsView(current)' /\ GoodView(current)'
           /\ current'.session = v.session /\ current'.revision = v.revision
           /\ current'.nodes = v.nodes /\ current'.over = v.over /\ current'.stale = v.stale
<1>1. current' = [v EXCEPT !.id = lastId + 1] /\ lastId' = lastId + 1 /\ lastId \in Nat
  BY DEF Allocate, ViewInv
<1>2. DOMAIN v = {"id", "session", "revision", "nodes", "over", "gens", "stale"}
  BY DEF GoodView, IsView
<1>3. /\ DOMAIN current' = {"id", "session", "revision", "nodes", "over", "gens", "stale"}
      /\ current'.id = lastId + 1
      /\ current'.session = v.session /\ current'.revision = v.revision
      /\ current'.nodes = v.nodes /\ current'.over = v.over /\ current'.stale = v.stale
      /\ current'.gens = v.gens
  BY <1>1, <1>2
<1>4. IsView(current)' BY <1>1, <1>3 DEF GoodView, IsView
<1>5. GoodView(current)' BY <1>3, <1>4 DEF GoodView, ViewFits, Size, Valid, Watermark, IsView
<1> QED BY <1>1, <1>3, <1>4, <1>5 DEF ViewInv

\* What a step of goroutine w does to the others: while w publishes a view it
\* holds queryMu, and nobody else is inside a read.
LEMMA OthersKeep ==
    ASSUME NEW u, job'[u] = job[u], JobInv(job[u]), ViewInv, hist' = hist,
           \/ UNCHANGED <<current, lastId>>
           \/ job[u].pc \notin Reading /\ lastId' = lastId + 1 /\ current'.id = lastId + 1
    PROVE  JobInv(job[u])'
<1>1. CASE UNCHANGED <<current, lastId>>
  BY <1>1 DEF JobInv, OwnView, SnapshotInv, SinceInv, Valid, OldSize
<1>2. CASE job[u].pc \notin Reading /\ lastId' = lastId + 1 /\ current'.id = lastId + 1
  <2>1. lastId \in Nat BY DEF ViewInv
  <2>2. job[u].pc \in {"lockSince", "since", "returning"} => OwnView(job[u])'
    BY <1>2, <2>1 DEF JobInv, OwnView, IsView
  <2> QED BY <1>2, <2>2 DEF JobInv, Reading
<1> QED BY <1>1, <1>2
----------------------------------------------------------------------------
(***************************************************************************)
(* One goroutine's steps                                                   *)
(***************************************************************************)

Outcomes == {"running", "ok", "snapshot failed", "since failed", "not current", "not begun",
             "flow identity changed"}

\* A step of goroutine w: its own part of the invariant, and what it does to the
\* published view.
Publishes(w) ==
    /\ job[w].pc \in Reading
    /\ lastId' = lastId + 1 /\ current'.id = lastId + 1
    /\ lastId > 0 => AtLeast(Watermark(current'), current)

OwnStep(w) ==
    /\ ViewInv' /\ JobInv(job[w])'
    /\ UNCHANGED <<current, lastId>> \/ Publishes(w)

LEMMA ReturnKeeps ==
    ASSUME ContentsInv, NEW w \in Workers, NEW outcome \in Outcomes, Return(w, outcome)
    PROVE  JobInv(job[w])'
<1>1. DOMAIN job = Workers /\ DOMAIN job[w] = JobFields /\ IsJob(job[w]) BY DEF ContentsInv, JobInv
<1>2. /\ DOMAIN job'[w] = JobFields
      /\ job'[w].pc = "done" /\ job'[w].outcome = outcome /\ job'[w].got = {} /\ job'[w].last = {}
      /\ job'[w].polls = job[w].polls /\ job'[w].view = job[w].view /\ job'[w].cap = <<0, 0>>
      /\ job'[w].index = 0 /\ job'[w].replays = 0
  BY <1>1 DEF Return, JobFields
<1>3. job'[w].cap \in Nat \X Nat /\ job'[w].index \in Nat /\ job'[w].replays \in 0 .. 2 BY <1>2
<1>4. IsJob(job[w])' BY <1>1, <1>2, <1>3 DEF IsJob, Outcomes
<1> QED BY <1>2, <1>4 DEF JobInv

\* SyncQuery is handed a view: the published one, or an older one.
LEMMA PollingKeeps ==
    ASSUME ContentsInv, NEW w \in Workers, NEW v, Polling(w, v), job[w].pc \in Reading,
           IsView(v), lastId' > 0, v.id <= lastId', current'.id = v.id => current' = v
    PROVE  JobInv(job[w])'
<1>1. /\ DOMAIN job = Workers /\ DOMAIN job[w] = JobFields /\ IsJob(job[w])
      /\ job[w].outcome = "running"
  BY DEF ContentsInv, JobInv, Reading
<1>2. /\ DOMAIN job'[w] = JobFields
      /\ job'[w].pc = (IF job[w].polls = 0 THEN "returning" ELSE "lockSince")
      /\ job'[w].outcome = "running"
      /\ job'[w].got = {} /\ job'[w].last = {} /\ job'[w].view = v
      /\ job'[w].polls = job[w].polls /\ job'[w].cap = <<0, 0>>
      /\ job'[w].index = 0 /\ job'[w].replays = 0
  BY <1>1 DEF Polling, JobFields
<1>3. IsJob(job[w])' BY <1>1, <1>2 DEF IsJob, IsView, IsStatusMap
<1>4. OwnView(job[w])' /\ (job'[w].pc = "lockSince" => job'[w].polls > 0)
  BY <1>1, <1>2 DEF IsJob, OwnView, IsView, IsStatusMap
<1> QED BY <1>2, <1>3, <1>4 DEF JobInv

LEMMA SinceReturnsKeeps ==
    ASSUME ContentsInv, NEW w \in Workers, NEW v, SinceReturns(w, v), job[w].pc \in Reading,
           IsView(v), lastId' > 0, v.id <= lastId', current'.id = v.id => current' = v
    PROVE  JobInv(job[w])'
<1>1. CASE v.stale = {} BY <1>1, PollingKeeps DEF SinceReturns
<1>2. CASE v.stale # {}
  <2>1. /\ DOMAIN job = Workers /\ DOMAIN job[w] = JobFields /\ IsJob(job[w])
        /\ job[w].outcome = "running"
    BY DEF ContentsInv, JobInv, Reading
  <2>2. /\ DOMAIN job'[w] = JobFields
        /\ job'[w].pc = "lockSnapshot" /\ job'[w].outcome = "running"
        /\ job'[w].got = {} /\ job'[w].last = {} /\ job'[w].view = v
        /\ job'[w].polls = job[w].polls /\ job'[w].cap = <<0, 0>>
        /\ job'[w].index = 0 /\ job'[w].replays = 0
    BY <1>2, <2>1 DEF SinceReturns, JobFields
  <2>3. IsJob(job[w])' BY <2>1, <2>2 DEF IsJob, IsView, IsStatusMap
  <2> QED BY <2>2, <2>3 DEF JobInv
<1> QED BY <1>1, <1>2

\* A mark changes nothing of the view but what it calls stale.
LEMMA MarkStaleKeeps ==
    ASSUME ContentsInv, NEW w \in Workers, job[w].pc = "since", current.id = job[w].view.id,
           NEW scope \in Paths, MarkStale(job[w].view, scope), hist' = hist
    PROVE  /\ ViewInv' /\ Publishes(w)
           /\ current'.nodes = current.nodes /\ scope \in current'.stale
           /\ current'.session = current.session /\ current'.revision = current.revision
<1> DEFINE v == [current EXCEPT !.stale = @ \cup {scope}]
<1>1. /\ current = job[w].view /\ lastId \in Nat /\ lastId > 0
      /\ GoodView(current)
  BY DEF ContentsInv, JobInv, OwnView, ViewInv
<1>2. /\ DOMAIN v = DOMAIN current /\ v.stale = current.stale \cup {scope}
      /\ v.id = current.id /\ v.session = current.session /\ v.revision = current.revision
      /\ v.nodes = current.nodes /\ v.over = current.over /\ v.gens = current.gens
  BY <1>1 DEF GoodView, IsView
<1>3. Allocate(v) BY <1>1 DEF MarkStale
<1> HIDE DEF v
<1>4. IsView(v) BY <1>1, <1>2 DEF GoodView, IsView
<1>5. GoodView(v) BY <1>1, <1>2, <1>4 DEF GoodView, Watermark, ViewFits, Size
<1>6. ViewInv BY DEF ContentsInv
<1>7. /\ ViewInv' /\ lastId' = lastId + 1 /\ current'.id = lastId + 1
      /\ current'.session = v.session /\ current'.revision = v.revision
      /\ current'.nodes = v.nodes /\ current'.stale = v.stale
  BY <1>3, <1>5, <1>6, PublishKeeps
<1>8. AtLeast(Watermark(current'), current)
  BY <1>1, <1>2, <1>7 DEF AtLeast, Watermark, GoodView, IsView
<1> QED BY <1>2, <1>7, <1>8 DEF Publishes, Reading

LEMMA SinceFailsKeeps ==
    ASSUME ContentsInv, NEW w \in Workers, job[w].pc = "since", current.id = job[w].view.id,
           NEW outcome \in Outcomes, SinceFails(w, outcome), hist' = hist
    PROVE  /\ OwnStep(w)
           /\ current'.nodes = current.nodes /\ Scope \in current'.stale
           /\ current'.session = current.session /\ current'.revision = current.revision
BY PathFacts, ReturnKeeps, MarkStaleKeeps DEF SinceFails, OwnStep

LEMMA BeginSnapshotKeeps ==
    ASSUME ContentsInv, NEW w \in Workers, BeginSnapshot(w), hist' = hist
    PROVE  OwnStep(w)
<1>1. /\ DOMAIN job = Workers /\ DOMAIN job[w] = JobFields /\ IsJob(job[w])
      /\ job[w].outcome = "running" /\ ViewInv
  BY DEF ContentsInv, JobInv, BeginSnapshot
<1>2. /\ DOMAIN job'[w] = JobFields
      /\ job'[w].pc = "snapshot" /\ job'[w].got = {} /\ job'[w].index = 0
      /\ job'[w].outcome = "running" /\ job'[w].last = job[w].last /\ job'[w].view = job[w].view
      /\ job'[w].polls = job[w].polls /\ job'[w].cap = job[w].cap
      /\ job'[w].replays = job[w].replays
  BY <1>1 DEF BeginSnapshot, JobFields
<1>3. UNCHANGED <<current, lastId>> BY DEF BeginSnapshot
<1>4. IsJob(job[w])' BY <1>1, <1>2 DEF IsJob
<1>5. ViewInv' BY <1>1, <1>3 DEF ViewInv, GoodView, Valid
<1>6. SnapshotInv(job[w])'
  <2>1. OldSize \in Nat /\ OldSize <= ViewBudget /\ OldSize' = OldSize
    BY <1>1, <1>3, OldSizeFits DEF OldSize
  <2>2. IsFiniteSet({}) /\ Cardinality({}) = 0 BY FS_EmptySet
  <2> QED BY <1>2, <2>1, <2>2 DEF SnapshotInv
<1> QED BY <1>2, <1>3, <1>4, <1>5, <1>6 DEF OwnStep, JobInv

LEMMA BeginSinceKeeps ==
    ASSUME ContentsInv, NEW w \in Workers, BeginSince(w), hist' = hist
    PROVE  OwnStep(w)
<1>1. /\ DOMAIN job = Workers /\ DOMAIN job[w] = JobFields /\ IsJob(job[w])
      /\ job[w].outcome = "running" /\ job[w].got = {} /\ job[w].polls > 0 /\ OwnView(job[w]) /\ ViewInv
  BY DEF ContentsInv, JobInv, BeginSince
<1>2. /\ DOMAIN job'[w] = JobFields
      /\ job'[w].pc = "since" /\ job'[w].got = {} /\ job'[w].index = 0
      /\ job'[w].outcome = "running" /\ job'[w].last = job[w].last /\ job'[w].view = job[w].view
      /\ job'[w].polls = job[w].polls - 1 /\ job'[w].cap = job[w].cap
      /\ job'[w].replays = 0
  BY <1>1 DEF BeginSince, JobFields
<1>3. UNCHANGED <<current, lastId>> BY DEF BeginSince
<1>4. IsJob(job[w])' BY <1>1, <1>2, QueryAssumption DEF IsJob
<1>5. ViewInv' /\ OwnView(job[w])' BY <1>1, <1>2, <1>3 DEF ViewInv, GoodView, Valid, OwnView
<1>6. SinceInv(job[w])' BY <1>2 DEF SinceInv, UpsertsKnown
<1> QED BY <1>2, <1>3, <1>4, <1>5, <1>6 DEF OwnStep, JobInv
----------------------------------------------------------------------------
(***************************************************************************)
(* Snapshot pages                                                          *)
(***************************************************************************)

\* The values of a function are not more than its arguments.
LEMMA ImageFits ==
    ASSUME NEW S, IsFiniteSet(S), NEW f, DOMAIN f = S, NEW T, T = {f[x] : x \in S}
    PROVE  /\ IsFiniteSet(T) /\ Cardinality(T) <= Cardinality(S)
           /\ Cardinality(T) \in Nat /\ Cardinality(S) \in Nat
<1> DEFINE g == [x \in S |-> f[x]]
<1>1. g \in Surjection(S, T) BY DEF Surjection
<1>2. IsFiniteSet(T) /\ Cardinality(T) <= Cardinality(S) BY <1>1, FS_Surjection
<1> QED BY <1>2, FS_CardinalityType

Nodes == [path : Paths, status : Statuses, gen : Nat]

\* What a page may hold, whatever the server answers.
LEMMA SummariesFit ==
    ASSUME HistInv, NEW page, Valid(page.cap), page.nodes \in SUBSET Paths,
           \A p \in page.nodes : Exists(StateAt(page.cap), p)
    PROVE  /\ Summaries(page) \subseteq Nodes
           /\ IsFiniteSet(Summaries(page)) /\ IsFiniteSet(page.nodes)
           /\ Cardinality(Summaries(page)) <= Cardinality(page.nodes)
           /\ Cardinality(Summaries(page)) \in Nat /\ Cardinality(page.nodes) \in Nat
<1> DEFINE f == [p \in page.nodes |->
                    [path |-> p, status |-> StateAt(page.cap).tree[p],
                     gen |-> IF p = <<>> THEN 0 ELSE StateAt(page.cap).gens[Flow(p)]]]
<1>1. StateAt(page.cap) \in Trees BY StateTyped
<1>2. ASSUME NEW p \in page.nodes PROVE f[p] \in Nodes
  <2>1. StateAt(page.cap).tree[p] \in Statuses BY <1>1, <1>2 DEF Trees, Exists
  <2>2. p # <<>> => StateAt(page.cap).gens[Flow(p)] \in Nat BY <1>1, <1>2, PathFacts DEF Trees
  <2> QED BY <1>2, <2>1, <2>2 DEF Nodes
<1>3. Summaries(page) = {f[p] : p \in page.nodes} BY Zenon DEF Summaries
<1>4. IsFiniteSet(page.nodes) BY QueryAssumption, FS_Subset
<1>5. DOMAIN f = page.nodes OBVIOUS
<1> HIDE DEF f
<1> QED BY <1>2, <1>3, <1>4, <1>5, ImageFits

\* The view that a complete snapshot makes.
LEMMA SnapshotViewTyped ==
    ASSUME NEW cap \in Nat \X Nat, NEW got, got \subseteq Nodes, IsFiniteSet(got)
    PROVE  /\ IsView(SnapshotView(cap, got))
           /\ IsFiniteSet(DOMAIN SnapshotView(cap, got).nodes)
           /\ DOMAIN SnapshotView(cap, got).over = {}
           /\ Cardinality(DOMAIN SnapshotView(cap, got).nodes) <= Cardinality(got)
           /\ Cardinality(DOMAIN SnapshotView(cap, got).nodes) \in Nat /\ Cardinality(got) \in Nat
           /\ Watermark(SnapshotView(cap, got)) = cap
<1> DEFINE v == SnapshotView(cap, got)
           paths == {n.path : n \in got}
           flows == {Flow(p) : p \in paths \ {<<>>}}
<1>1. paths \subseteq Paths BY DEF Nodes
<1>2. flows \subseteq Flows BY <1>1, PathFacts
<1>3. /\ DOMAIN v = {"id", "session", "revision", "nodes", "over", "gens", "stale"}
      /\ v.id = 0 /\ v.session = cap[1] /\ v.revision = cap[2] /\ v.over = EmptyMap /\ v.stale = {}
      /\ v.nodes = [p \in paths |-> (CHOOSE n \in got : n.path = p).status]
      /\ v.gens = [f \in flows |-> (CHOOSE n \in got : n.path # <<>> /\ Flow(n.path) = f).gen]
  BY DEF SnapshotView
<1> HIDE DEF v
<1>4. ASSUME NEW p \in paths PROVE v.nodes[p] \in Statuses
  <2>1. \E n \in got : n.path = p BY <1>4
  <2> DEFINE m == CHOOSE n \in got : n.path = p
  <2>2. m \in got BY <2>1
  <2> QED BY <1>3, <1>4, <2>2 DEF Nodes
<1>5. ASSUME NEW f \in flows PROVE v.gens[f] \in Nat
  <2>1. \E n \in got : n.path # <<>> /\ Flow(n.path) = f BY <1>5
  <2> DEFINE m == CHOOSE n \in got : n.path # <<>> /\ Flow(n.path) = f
  <2>2. m \in got BY <2>1
  <2> QED BY <1>3, <1>5, <2>2 DEF Nodes
<1>6. DOMAIN v.nodes = paths /\ DOMAIN v.gens = flows /\ DOMAIN v.over = {}
  BY <1>3 DEF EmptyMap
<1>7. IsView(v)
  <2>1. IsStatusMap(v.nodes)
    <3>1. v.nodes \in [paths -> Statuses] BY <1>3, <1>4
    <3> QED BY <1>1, <1>6, <3>1 DEF IsStatusMap
  <2>2. IsStatusMap(v.over) BY <1>3 DEF IsStatusMap, EmptyMap
  <2>3. v.gens \in [flows -> Nat] BY <1>3, <1>5
  <2> HIDE DEF paths, flows
  <2> QED BY <1>2, <1>3, <1>6, <2>1, <2>2, <2>3 DEF IsView
<1>8. /\ IsFiniteSet(paths) /\ Cardinality(paths) <= Cardinality(got)
      /\ Cardinality(paths) \in Nat /\ Cardinality(got) \in Nat
  <2> DEFINE g == [n \in got |-> n.path]
  <2>1. paths = {g[n] : n \in got} /\ DOMAIN g = got OBVIOUS
  <2> HIDE DEF g, paths
  <2> QED BY <2>1, ImageFits
<1>9. Watermark(v) = cap BY <1>3 DEF Watermark
<1> HIDE DEF paths
<1> QED BY <1>6, <1>7, <1>8, <1>9 DEF v

LEMMA SnapshotViewGood ==
    ASSUME NEW cap \in Nat \X Nat, Valid(cap), NEW got, got \subseteq Nodes,
           IsFiniteSet(got), Cardinality(got) <= ViewBudget
    PROVE  /\ GoodView(SnapshotView(cap, got))
           /\ Watermark(SnapshotView(cap, got)) = cap
<1> DEFINE v == SnapshotView(cap, got)
<1>1. /\ IsView(v) /\ IsFiniteSet(DOMAIN v.nodes) /\ DOMAIN v.over = {} /\ Watermark(v) = cap
      /\ Cardinality(DOMAIN v.nodes) <= Cardinality(got)
      /\ Cardinality(DOMAIN v.nodes) \in Nat /\ Cardinality(got) \in Nat
  BY SnapshotViewTyped
<1> HIDE DEF v
<1>2. ViewFits(v) BY <1>1, FS_EmptySet, QueryAssumption DEF ViewFits, Size
<1> QED BY <1>1, <1>2 DEF GoodView, v

LEMMA ReadSnapshotPageKeeps ==
    ASSUME HistInv, ContentsInv, NEW w \in Workers, ReadSnapshotPage(w), hist' = hist
    PROVE  OwnStep(w)
<1>1. /\ DOMAIN job = Workers /\ DOMAIN job[w] = JobFields /\ IsJob(job[w])
      /\ job[w].pc = "snapshot" /\ job[w].outcome = "running" /\ SnapshotInv(job[w]) /\ ViewInv
      /\ job[w].got \subseteq Nodes
  BY DEF ContentsInv, JobInv, ReadSnapshotPage, IsJob, Nodes
<1> DEFINE j == job[w]
<1>2. PICK page \in SnapshotPages(j) :
        LET got == j.got \cup Summaries(page)
            cap == IF j.index = 0 THEN page.cap ELSE j.cap
        IN  \/ /\ PageAccepted(j, page)
               /\ job' = [job EXCEPT ![w] = [@ EXCEPT !.got = got, !.index = j.index + 1, !.cap = cap]]
               /\ UNCHANGED <<current, lastId, mutex>>
            \/ /\ PageAccepted(j, page)
               /\ Allocate(SnapshotView(cap, got))
               /\ Polling(w, current')
            \/ /\ Return(w, "snapshot failed")
               /\ UNCHANGED <<current, lastId>>
  BY DEF ReadSnapshotPage
<1> DEFINE sum == Summaries(page)
           got == j.got \cup sum
           cap == IF j.index = 0 THEN page.cap ELSE j.cap
<1>3. /\ page.cap \in {IF j.index = 0 THEN ServerHead ELSE j.cap, ServerHead}
      /\ page.index \in {j.index, j.index + 1} /\ page.nodes \in SUBSET Paths
      /\ \A p \in page.nodes : Exists(StateAt(page.cap), p)
  BY DEF SnapshotPages
<1>4. /\ Valid(ServerHead) /\ ServerHead \in Nat \X Nat
      /\ lastId > 0 => AtLeast(ServerHead, current)
  <2>1. Valid(ServerHead) /\ ServerHead \in Nat \X Nat BY HeadFacts DEF ServerHead
  <2>2. ASSUME lastId > 0 PROVE AtLeast(ServerHead, current)
    <3>1. current.session \in DOMAIN hist /\ current.revision \in DOMAIN hist[current.session]
      BY <1>1, <2>2 DEF ViewInv, GoodView, Watermark, Valid
    <3>2. current.session \in Nat /\ current.session <= Session BY <3>1 DEF HistInv, Session
    <3>3. current.session = Session => current.revision \in Nat /\ current.revision <= Revision
      BY <3>1, HeadFacts DEF Revision
    <3> QED BY <3>2, <3>3, HeadFacts DEF AtLeast, ServerHead
  <2> QED BY <2>1, <2>2
<1>5. /\ Valid(page.cap) /\ Valid(cap) /\ cap \in Nat \X Nat
      /\ lastId > 0 => AtLeast(cap, current)
  BY <1>1, <1>3, <1>4 DEF SnapshotInv, IsJob
<1>6. /\ sum \subseteq Nodes /\ IsFiniteSet(sum) /\ Cardinality(sum) <= Cardinality(page.nodes)
      /\ Cardinality(sum) \in Nat /\ Cardinality(page.nodes) \in Nat
  BY <1>3, <1>5, SummariesFit
<1> HIDE DEF sum, cap
<1>7. got \subseteq Nodes /\ IsFiniteSet(got) /\ Cardinality(got) \in Nat
      /\ Cardinality(got) <= Cardinality(j.got) + Cardinality(sum)
  <2>1. IsFiniteSet(j.got) /\ Cardinality(j.got) \in Nat
    BY <1>1, FS_CardinalityType DEF SnapshotInv
  <2>2. Cardinality(j.got \cap sum) \in Nat BY <2>1, FS_Intersection, FS_CardinalityType
  <2>3. IsFiniteSet(got) /\ Cardinality(got) = Cardinality(j.got) + Cardinality(sum) - Cardinality(j.got \cap sum)
    BY <1>6, <2>1, FS_Union
  <2> QED BY <1>1, <1>6, <2>1, <2>2, <2>3, FS_CardinalityType
<1>8. PageAccepted(j, page) => OldSize + Cardinality(got) <= ViewBudget
  <2>1. OldSize \in Nat /\ Cardinality(j.got) \in Nat
    BY <1>1, OldSizeFits, FS_CardinalityType DEF SnapshotInv
  <2> QED BY <1>6, <1>7, <2>1, QueryAssumption DEF PageAccepted, SizeWith
<1> HIDE DEF got
<1>9. CASE /\ PageAccepted(j, page)
           /\ job' = [job EXCEPT ![w] = [@ EXCEPT !.got = got, !.index = j.index + 1, !.cap = cap]]
           /\ UNCHANGED <<current, lastId, mutex>>
  <2>1. /\ DOMAIN job'[w] = JobFields
        /\ job'[w].pc = "snapshot" /\ job'[w].got = got /\ job'[w].index = j.index + 1
        /\ job'[w].outcome = "running" /\ job'[w].last = j.last /\ job'[w].view = j.view
        /\ job'[w].polls = j.polls /\ job'[w].cap = cap /\ job'[w].replays = j.replays
    BY <1>1, <1>9 DEF JobFields
  <2>2. IsJob(job[w])' BY <1>1, <1>5, <1>7, <2>1 DEF IsJob, Nodes
  <2>3. SnapshotInv(job[w])'
    BY <1>5, <1>7, <1>8, <1>9, <2>1 DEF SnapshotInv, OldSize, Valid
  <2>4. ViewInv' BY <1>1, <1>9 DEF ViewInv, GoodView, Valid
  <2> QED BY <1>9, <2>1, <2>2, <2>3, <2>4 DEF OwnStep, JobInv
<1>10. CASE PageAccepted(j, page) /\ Allocate(SnapshotView(cap, got)) /\ Polling(w, current')
  <2> DEFINE v == SnapshotView(cap, got)
  <2>1. Cardinality(got) <= ViewBudget
    BY <1>1, <1>7, <1>8, <1>10, OldSizeFits, QueryAssumption
  <2>2. GoodView(v) /\ Watermark(v) = cap BY <1>5, <1>7, <2>1, SnapshotViewGood
  <2> HIDE DEF v
  <2>3. Allocate(v) BY <1>10 DEF v
  <2>4. /\ ViewInv' /\ lastId' = lastId + 1 /\ current'.id = lastId + 1 /\ IsView(current)'
        /\ current'.session = v.session /\ current'.revision = v.revision
    BY <1>1, <2>2, <2>3, PublishKeeps
  <2>5. lastId > 0 => AtLeast(Watermark(current'), current)
    BY <1>5, <2>2, <2>4 DEF Watermark
  <2>6. lastId \in Nat BY <1>1 DEF ViewInv
  <2>7. JobInv(job[w])' BY <1>1, <1>10, <2>4, <2>6, PollingKeeps DEF Reading
  <2> QED BY <1>1, <2>4, <2>5, <2>7 DEF OwnStep, Publishes, Reading
<1>11. CASE Return(w, "snapshot failed") /\ UNCHANGED <<current, lastId>>
  <2>1. ViewInv' BY <1>1, <1>11 DEF ViewInv, GoodView, Valid
  <2> QED BY <1>11, <2>1, ReturnKeeps DEF OwnStep, Outcomes
<1> QED BY <1>2, <1>9, <1>10, <1>11 DEF got, cap, sum

LEMMA UnchangedViewKeeps ==
    ASSUME ViewInv, UNCHANGED <<current, lastId>>, hist' = hist
    PROVE  ViewInv'
BY DEF ViewInv, GoodView, Valid

LEMMA ReturnsKeep ==
    ASSUME ContentsInv, NEW w \in Workers, hist' = hist,
           SnapshotCallFails(w) \/ RefuseSince(w) \/ SinceNotBegun(w)
    PROVE  OwnStep(w)
<1>1. \E outcome \in Outcomes : Return(w, outcome)
  BY DEF SnapshotCallFails, RefuseSince, SinceNotBegun, Outcomes
<1>2. UNCHANGED <<current, lastId>> BY DEF SnapshotCallFails, RefuseSince, SinceNotBegun
<1>3. ViewInv BY DEF ContentsInv
<1>4. ViewInv' BY <1>2, <1>3, UnchangedViewKeeps
<1> QED BY <1>1, <1>2, <1>4, ReturnKeeps DEF OwnStep

LEMMA SinceCallFailsKeeps ==
    ASSUME ContentsInv, NEW w \in Workers, current.id = job[w].view.id, SinceCallFails(w)
    PROVE  OwnStep(w)
BY SinceFailsKeeps DEF SinceCallFails, Outcomes

LEMMA SinceResetKeeps ==
    ASSUME ContentsInv, NEW w \in Workers, current.id = job[w].view.id, SinceReset(w)
    PROVE  OwnStep(w)
<1>1. job[w].pc = "since" /\ hist' = hist BY DEF SinceReset
<1>2. PICK scope \in Paths : MarkStale(job[w].view, scope) BY DEF SinceReset
<1>3. ViewInv' /\ Publishes(w) BY <1>1, <1>2, MarkStaleKeeps
<1>4. DOMAIN job = Workers /\ DOMAIN job[w] = JobFields /\ IsJob(job[w]) /\ job[w].outcome = "running"
  BY <1>1 DEF ContentsInv, JobInv
<1>5. /\ DOMAIN job'[w] = JobFields
      /\ job'[w].pc = "lockSnapshot" /\ job'[w].got = {} /\ job'[w].last = {}
      /\ job'[w].outcome = "running" /\ job'[w].view = job[w].view
      /\ job'[w].polls = job[w].polls /\ job'[w].cap = <<0, 0>>
      /\ job'[w].index = 0 /\ job'[w].replays = 0
  BY <1>4 DEF SinceReset, JobFields
<1>6. IsJob(job[w])' BY <1>4, <1>5 DEF IsJob
<1> QED BY <1>3, <1>5, <1>6 DEF OwnStep, JobInv

LEMMA SyncReturnsKeeps ==
    ASSUME ContentsInv, NEW w \in Workers, SyncReturns(w)
    PROVE  OwnStep(w)
<1>1. /\ DOMAIN job = Workers /\ DOMAIN job[w] = JobFields /\ IsJob(job[w])
      /\ job[w].got = {} /\ ViewInv
  BY DEF ContentsInv, JobInv, SyncReturns
<1>2. /\ DOMAIN job'[w] = JobFields
      /\ job'[w].pc = "done" /\ job'[w].outcome = "ok"
      /\ job'[w].got = job[w].got /\ job'[w].last = job[w].last /\ job'[w].view = job[w].view
      /\ job'[w].polls = job[w].polls /\ job'[w].cap = job[w].cap
      /\ job'[w].index = job[w].index /\ job'[w].replays = job[w].replays
  BY <1>1 DEF SyncReturns, JobFields
<1>3. IsJob(job[w])' BY <1>1, <1>2 DEF IsJob
<1>4. hist' = hist /\ UNCHANGED <<current, lastId>> BY DEF SyncReturns
<1>5. ViewInv' BY <1>1, <1>4, UnchangedViewKeeps
<1> QED BY <1>2, <1>3, <1>4, <1>5 DEF OwnStep, JobInv
----------------------------------------------------------------------------
(***************************************************************************)
(* Since pages                                                             *)
(***************************************************************************)

\* What an operation of the server's may be.
LEMMA OperationsTyped ==
    ASSUME HistInv, NEW session \in DOMAIN hist, NEW t \in DOMAIN hist[session], NEW r \in Nat,
           NEW o \in Operations(session, r, t)
    PROVE  o \in Ops /\ (o.op = "upsert_summary" => o.status \in Statuses)
<1> DEFINE now == hist[session][t]
           changes == {hist[session][i].change : i \in r + 1 .. t}
           changed(op) == {c.path : c \in {d \in changes : d.op = op}}
           gone == changed("remove")
           new == changed("add")
           above(p) == p # Scope /\ Under(Scope, p)
           touched == {p \in Paths : \/ \E q \in changed("status") : Under(q, p)
                                     \/ UnderAny(p, changed("replace"))}
           gen(p) == IF p = <<>> THEN 0 ELSE now.gens[Flow(p)]
           operation(op, p, s) == [op |-> op, path |-> p, gen |-> gen(p), status |-> s]
           upserted == {p \in touched : InView(p) /\ Exists(now, p) /\ ~UnderAny(p, gone \cup new)}
           invalidated == {IF p = Scope THEN p ELSE Parent(p) : p \in {q \in new : InView(q)}}
                          \cup {Scope : p \in {q \in gone \cup new : above(q)}}
<1>1. hist[session] \in Seq(Trees) BY DEF HistInv
<1>2. now \in Trees BY <1>1
<1>3. ASSUME NEW c \in changes PROVE c.path \in Paths
  <2>1. PICK i \in r + 1 .. t : c = hist[session][i].change BY <1>3
  <2>2. i \in DOMAIN hist[session] BY <1>1
  <2>3. hist[session][i] \in Trees BY <1>1, <2>2
  <2> QED BY <2>1, <2>3 DEF Trees
<1>4. gone \subseteq Paths /\ new \subseteq Paths BY <1>3
<1>5. \A p \in Paths : gen(p) \in Nat BY <1>2, PathFacts DEF Trees
<1>6. \A p \in upserted : p \in Paths /\ now.tree[p] \in Statuses BY <1>2 DEF Trees, Exists
<1>7. ASSUME NEW q \in new, InView(q) PROVE (IF q = Scope THEN q ELSE Parent(q)) \in Paths
  <2>1. Scope \in Seq(STRING) /\ q \in Seq(STRING) BY <1>4, PathFacts, QueryAssumption
  <2>2. q = <<>> => q = Scope BY <1>7, <2>1 DEF InView, Under
  <2> QED BY <1>4, <2>2, PathFacts
<1>8. invalidated \subseteq Paths BY <1>7, PathFacts
<1>9. o \in {operation("upsert_summary", p, now.tree[p]) : p \in upserted}
        \cup {operation("remove_subtree", p, Absent) : p \in {q \in gone : InView(q)}}
        \cup {operation("invalidate_scope", p, Absent) : p \in invalidated}
  BY Zenon DEF Operations
<1> HIDE DEF now, gone, new, upserted, invalidated, gen
<1>10. CASE o \in {operation("upsert_summary", p, now.tree[p]) : p \in upserted}
  BY <1>5, <1>6, <1>10 DEF Ops
<1>11. CASE o \in {operation("remove_subtree", p, Absent) : p \in {q \in gone : InView(q)}}
  BY <1>4, <1>5, <1>11 DEF Ops
<1>12. CASE o \in {operation("invalidate_scope", p, Absent) : p \in invalidated}
  BY <1>5, <1>8, <1>12 DEF Ops
<1> QED BY <1>9, <1>10, <1>11, <1>12

\* The new statuses of a batch, and the two ways to put them into a view.
LEMMA StatusMapTyped ==
    ASSUME NEW v, NEW ops, ops \subseteq Ops, UpsertsKnown(v, ops)
    PROVE  /\ DOMAIN StatusMap(ops) = PathsOf(ops, "upsert_summary")
           /\ PathsOf(ops, "upsert_summary") \subseteq DOMAIN v.nodes
           /\ \A p \in DOMAIN StatusMap(ops) : StatusMap(ops)[p] \in Statuses
<1>1. ASSUME NEW p \in PathsOf(ops, "upsert_summary")
      PROVE  StatusMap(ops)[p] \in Statuses /\ p \in DOMAIN v.nodes
  <2>1. PICK o \in ops : o.op = "upsert_summary" /\ o.path = p BY <1>1 DEF PathsOf
  <2> DEFINE m == CHOOSE q \in ops : q.op = "upsert_summary" /\ q.path = p
  <2>2. m \in ops /\ m.op = "upsert_summary" BY <2>1
  <2>3. StatusMap(ops)[p] = m.status BY <1>1 DEF StatusMap
  <2> HIDE DEF m
  <2> QED BY <2>1, <2>2, <2>3 DEF UpsertsKnown
<1> QED BY <1>1 DEF StatusMap

LEMMA OverlayTyped ==
    ASSUME NEW f, IsStatusMap(f), NEW g, DOMAIN g \subseteq Paths, \A p \in DOMAIN g : g[p] \in Statuses
    PROVE  IsStatusMap(Overlay(f, g)) /\ DOMAIN Overlay(f, g) = DOMAIN f \cup DOMAIN g
BY DEF Overlay, IsStatusMap

\* A batch within the budget makes a good view of a good view.
LEMMA NextViewGood ==
    ASSUME NEW v, GoodView(v), NEW t \in Nat, Valid(<<v.session, t>>),
           NEW ops, ops \subseteq Ops, UpsertsKnown(v, ops), BatchFits(v, ops)
    PROVE  /\ GoodView(NextView(v, t, ops))
           /\ Watermark(NextView(v, t, ops)) = <<v.session, t>>
<1> DEFINE n == NextView(v, t, ops)
           up == PathsOf(ops, "upsert_summary")
           marked == PathsOf(ops, "invalidate_scope")
           over == Overlay(v.over, StatusMap(ops))
<1>1. /\ DOMAIN v = {"id", "session", "revision", "nodes", "over", "gens", "stale"}
      /\ IsStatusMap(v.nodes) /\ IsStatusMap(v.over) /\ v.stale \subseteq Paths
      /\ v.id \in Nat /\ v.session \in Nat
      /\ DOMAIN v.gens \subseteq Flows /\ v.gens \in [DOMAIN v.gens -> Nat]
      /\ DOMAIN v.nodes \subseteq Paths /\ DOMAIN v.over \subseteq Paths
  BY DEF GoodView, IsView, IsStatusMap
<1>2. marked \subseteq Paths BY DEF PathsOf, Ops
<1>3. up \subseteq DOMAIN v.nodes BY StatusMapTyped
<1>4. IsStatusMap(over) /\ DOMAIN over = DOMAIN v.over \cup up
  BY <1>1, <1>3, StatusMapTyped, OverlayTyped
<1>5. IsFiniteSet(DOMAIN v.nodes) /\ Cardinality(DOMAIN v.nodes) \in Nat
      /\ IsFiniteSet(DOMAIN v.over) /\ Cardinality(DOMAIN v.over) \in Nat
      /\ IsFiniteSet(DOMAIN v.over \cup up) /\ Cardinality(DOMAIN v.over \cup up) \in Nat
      /\ Size(v) \in Nat
  <2>1. IsFiniteSet(Paths) BY QueryAssumption
  <2>2. \A S \in SUBSET Paths : IsFiniteSet(S) /\ Cardinality(S) \in Nat
    BY <2>1, FS_Subset, FS_CardinalityType
  <2> QED BY <1>1, <1>3, <2>2 DEF Size
<1>6. CASE PathsOf(ops, "remove_subtree") = {}
  <2>1. n = WithOverrides(v, t, ops) BY <1>6 DEF NextView
  <2>2. /\ DOMAIN n = DOMAIN v
        /\ n.id = v.id /\ n.session = v.session /\ n.revision = t /\ n.nodes = v.nodes
        /\ n.over = over /\ n.gens = v.gens /\ n.stale = v.stale \cup marked
    BY <1>1, <2>1 DEF WithOverrides
  <2> HIDE DEF n, over
  <2>3. IsView(n) BY <1>1, <1>2, <1>4, <2>2 DEF IsView
  <2>4. Cardinality(DOMAIN v.nodes) + 2 * Cardinality(DOMAIN v.over \cup up) <= ViewBudget
    BY <1>6 DEF BatchFits, OverridesFit
  <2> HIDE DEF up
  <2>5. ViewFits(n) BY <1>4, <1>5, <2>2, <2>4, QueryAssumption DEF ViewFits, Size
  <2> QED BY <2>2, <2>3, <2>5 DEF GoodView, Watermark, n
<1>7. CASE PathsOf(ops, "remove_subtree") # {}
  <2> DEFINE kept == Remaining(v, ops)
             upserted == Overlay(v.nodes, over)
  <2>1. n = WithoutRemoved(v, t, ops) BY <1>7 DEF NextView
  <2>2. /\ DOMAIN n = DOMAIN v
        /\ n.id = v.id /\ n.session = v.session /\ n.revision = t
        /\ n.nodes = [p \in kept |-> upserted[p]] /\ n.over = EmptyMap
        /\ n.gens = [f \in DOMAIN v.gens \cap kept |-> v.gens[f]]
        /\ n.stale \subseteq v.stale \cup marked
    BY <1>1, <2>1 DEF WithoutRemoved
  <2>3. kept \subseteq DOMAIN v.nodes BY DEF Remaining
  <2>4. IsStatusMap(upserted) /\ kept \subseteq DOMAIN upserted
    <3> HIDE DEF n, kept, over, up, marked
    <3>1. DOMAIN over \subseteq Paths /\ \A p \in DOMAIN over : over[p] \in Statuses
      BY <1>4 DEF IsStatusMap
    <3>2. IsStatusMap(upserted) /\ DOMAIN upserted = DOMAIN v.nodes \cup DOMAIN over
      BY <1>1, <3>1, OverlayTyped
    <3> QED BY <2>3, <3>2
  <2>5. Size(v) + Cardinality(kept) <= ViewBudget /\ IsFiniteSet(kept) /\ Cardinality(kept) \in Nat
    BY <1>5, <1>7, <2>3, FS_Subset, FS_CardinalityType DEF BatchFits, RemovalFits
  <2> HIDE DEF n, kept, upserted, over, up, marked
  <2>6. IsStatusMap(n.nodes) /\ DOMAIN n.nodes = kept BY <1>1, <2>2, <2>3, <2>4 DEF IsStatusMap
  <2>7. IsStatusMap(n.over) /\ DOMAIN n.over = {} BY <2>2 DEF EmptyMap, IsStatusMap
  <2>8. DOMAIN n.gens \subseteq Flows /\ n.gens \in [DOMAIN n.gens -> Nat] BY <1>1, <2>2
  <2>9. IsView(n) BY <1>1, <1>2, <2>2, <2>6, <2>7, <2>8 DEF IsView
  <2>10. ViewFits(n)
    BY <1>5, <2>5, <2>6, <2>7, FS_EmptySet, QueryAssumption DEF ViewFits, Size
  <2> QED BY <2>2, <2>9, <2>10 DEF GoodView, Watermark, n
<1> QED BY <1>6, <1>7

\* The operations of a page are among the server's.
LEMMA SincePageShape ==
    ASSUME HistInv, NEW j, JobInv(j), j.pc = "since", ViewInv, current = j.view,
           NEW page \in SincePages(j), SincePageAccepted(j, page)
    PROVE  LET cap == IF j.index = 0 THEN page.cap ELSE j.cap
               got == j.got \cup page.ops
           IN  /\ page.cap = cap /\ cap \in Nat \X Nat /\ Valid(cap)
               /\ cap[1] = j.view.session /\ cap[2] >= j.view.revision
               /\ page.ops \subseteq Ops /\ got \subseteq Ops
               /\ UpsertsKnown(j.view, got)
<1>1. /\ IsJob(j) /\ IsView(j.view) /\ SinceInv(j) /\ lastId > 0
      /\ j.view.session \in Nat /\ j.view.revision \in Nat
  BY DEF JobInv, OwnView, IsView
<1>2. Valid(Watermark(j.view)) BY <1>1 DEF ViewInv, GoodView
<1>3. /\ Session \in DOMAIN hist /\ Session \in Nat /\ Revision \in DOMAIN hist[Session]
      /\ Revision \in Nat /\ DOMAIN hist[Session] = 1 .. Revision
  BY HeadFacts DEF Revision
<1>4. BatchIdentity(j, page) /\ \A o \in page.ops : KnownOperation(j, o)
  BY DEF SincePageAccepted
<1>5. Session = j.view.session
  <2>1. CASE Session # j.view.session
    <3>1. page.cap = ServerHead BY <2>1 DEF SincePages
    <3> QED BY <1>4, <2>1, <3>1 DEF BatchIdentity, ServerHead
  <2> QED BY <2>1
<1>6. PICK t \in {IF j.index = 0 THEN Revision ELSE j.cap[2], Revision} :
        page \in [cap : {<<Session, t>>}, index : {j.index - 1, j.index, j.index + 1},
                  ops : SUBSET Operations(Session, j.view.revision, t), complete : BOOLEAN]
  BY <1>5 DEF SincePages
<1>7. page.cap = <<Session, t>> /\ page.ops \subseteq Operations(Session, j.view.revision, t)
  BY <1>6
<1>8. Revision >= j.view.revision BY <1>2, <1>3, <1>5 DEF Valid, Watermark
<1>9. j.index > 0 => Valid(j.cap) /\ j.cap[1] = Session /\ j.cap[2] >= j.view.revision
  BY <1>1, <1>5 DEF SinceInv
<1>10. j.index \in Nat /\ j.cap \in Nat \X Nat BY <1>1 DEF IsJob
<1>11. t \in DOMAIN hist[Session] /\ t \in Nat /\ t >= j.view.revision
  BY <1>3, <1>6, <1>8, <1>9, <1>10 DEF Valid
<1>12. j.index > 0 => page.cap = j.cap BY <1>4 DEF BatchIdentity
<1>13. \A o \in page.ops : o \in Ops /\ (o.op = "upsert_summary" => o.status \in Statuses)
  BY <1>1, <1>3, <1>7, <1>11, OperationsTyped
<1>14. UpsertsKnown(j.view, page.ops)
  BY <1>4, <1>13 DEF UpsertsKnown, KnownOperation, HasNode
<1>15. j.got \subseteq Ops BY <1>1 DEF IsJob
<1>16. UpsertsKnown(j.view, j.got \cup page.ops) BY <1>1, <1>14 DEF SinceInv, UpsertsKnown
<1> DEFINE cap == IF j.index = 0 THEN page.cap ELSE j.cap
<1>17. cap = <<Session, t>> /\ page.cap = cap BY <1>7, <1>10, <1>12
<1>18. Valid(cap) BY <1>3, <1>11, <1>17 DEF Valid
<1> HIDE DEF cap
<1>19. cap \in Nat \X Nat /\ cap[1] = j.view.session /\ cap[2] >= j.view.revision
  BY <1>3, <1>5, <1>11, <1>17
<1>20. page.ops \subseteq Ops BY <1>13
<1> DEFINE got == j.got \cup page.ops
<1>21. got \subseteq Ops /\ UpsertsKnown(j.view, got) BY <1>15, <1>16, <1>20
<1> HIDE DEF got
<1>22. /\ page.cap = cap /\ cap \in Nat \X Nat /\ Valid(cap)
       /\ cap[1] = j.view.session /\ cap[2] >= j.view.revision
       /\ page.ops \subseteq Ops /\ got \subseteq Ops
       /\ UpsertsKnown(j.view, got)
  BY <1>17, <1>18, <1>19, <1>20, <1>21
<1> QED BY <1>22, Zenon DEF cap, got

LEMMA ApplyBatchKeeps ==
    ASSUME ContentsInv, NEW w \in Workers, job[w].pc = "since", current.id = job[w].view.id,
           NEW t \in Nat, Valid(<<job[w].view.session, t>>), t >= job[w].view.revision,
           NEW ops, ops \subseteq Ops, UpsertsKnown(job[w].view, ops),
           ApplyBatch(w, t, ops), hist' = hist
    PROVE  OwnStep(w)
<1> DEFINE v == job[w].view
<1>1. /\ ViewInv /\ lastId \in Nat /\ lastId > 0 /\ current = v /\ v.id <= lastId
      /\ IsView(v) /\ GoodView(v)
  BY DEF ContentsInv, JobInv, OwnView, ViewInv
<1> HIDE DEF v
<1>2. CASE SinceReturns(w, v) /\ UNCHANGED <<current, lastId>>
  <2>1. JobInv(job[w])' BY <1>1, <1>2, SinceReturnsKeeps DEF Reading
  <2> QED BY <1>1, <1>2, <2>1, UnchangedViewKeeps DEF OwnStep
<1>3. CASE BatchFits(v, ops) /\ Allocate(NextView(v, t, ops)) /\ SinceReturns(w, current')
  <2> DEFINE n == NextView(v, t, ops)
  <2>1. GoodView(n) /\ Watermark(n) = <<v.session, t>> BY <1>1, <1>3, NextViewGood DEF v
  <2>2. n.session = v.session /\ n.revision = t BY <2>1 DEF Watermark
  <2>3. Allocate(n) BY <1>3
  <2> HIDE DEF n
  <2>4. /\ ViewInv' /\ lastId' = lastId + 1 /\ current'.id = lastId + 1 /\ IsView(current)'
        /\ current'.session = n.session /\ current'.revision = n.revision
    BY <1>1, <2>1, <2>3, PublishKeeps
  <2>5. AtLeast(Watermark(current'), current)
    BY <1>1, <2>2, <2>4 DEF AtLeast, Watermark, v
  <2>6. JobInv(job[w])' BY <1>1, <1>3, <2>4, SinceReturnsKeeps DEF Reading
  <2> QED BY <2>4, <2>5, <2>6 DEF OwnStep, Publishes, Reading
<1>4. CASE SinceFails(w, "since failed")
  BY <1>4, SinceFailsKeeps DEF Outcomes
<1> QED BY <1>2, <1>3, <1>4, Zenon DEF ApplyBatch, v

LEMMA ReadSincePageKeeps ==
    ASSUME HistInv, ContentsInv, NEW w \in Workers, ReadSincePage(w), current.id = job[w].view.id
    PROVE  OwnStep(w)
<1> DEFINE j == job[w]
<1>1. /\ DOMAIN job = Workers /\ DOMAIN j = JobFields /\ IsJob(j) /\ JobInv(j)
      /\ j.pc = "since" /\ j.outcome = "running" /\ SinceInv(j) /\ OwnView(j) /\ ViewInv
      /\ current = j.view /\ hist' = hist
  BY DEF ContentsInv, JobInv, OwnView, ReadSincePage
<1>2. PICK page \in SincePages(j) :
        LET got == j.got \cup page.ops
            cap == IF j.index = 0 THEN page.cap ELSE j.cap
        IN  \/ /\ IsReplay(j, page)
               /\ job' = [job EXCEPT ![w] = [@ EXCEPT !.replays = j.replays + 1]]
               /\ UNCHANGED <<current, lastId, mutex>>
            \/ /\ SincePageAccepted(j, page)
               /\ job' = [job EXCEPT ![w] = [@ EXCEPT !.cap = cap, !.index = j.index + 1, !.replays = 0,
                                                      !.got = got, !.last = page.ops]]
               /\ UNCHANGED <<current, lastId, mutex>>
            \/ SincePageAccepted(j, page) /\ ApplyBatch(w, cap[2], got)
            \/ SinceFails(w, Reason(j, page))
  BY DEF ReadSincePage
<1> DEFINE got == j.got \cup page.ops
           cap == IF j.index = 0 THEN page.cap ELSE j.cap
<1>3. SincePageAccepted(j, page) =>
        /\ cap \in Nat \X Nat /\ Valid(cap)
        /\ cap[1] = j.view.session /\ cap[2] >= j.view.revision
        /\ page.ops \subseteq Ops /\ got \subseteq Ops
        /\ UpsertsKnown(j.view, got)
  BY <1>1, SincePageShape
<1> HIDE DEF cap, got
<1>4. /\ IsView(j.view) /\ j.polls \in 0 .. Polls /\ j.cap \in Nat \X Nat /\ j.index \in Nat
      /\ j.replays \in 0 .. 2 /\ j.got \subseteq Ops /\ j.last \subseteq Ops
  BY <1>1 DEF IsJob, OwnView
<1>5. CASE /\ IsReplay(j, page)
           /\ job' = [job EXCEPT ![w] = [@ EXCEPT !.replays = j.replays + 1]]
           /\ UNCHANGED <<current, lastId, mutex>>
  <2>1. /\ DOMAIN job'[w] = JobFields
        /\ job'[w].pc = "since" /\ job'[w].got = j.got /\ job'[w].index = j.index
        /\ job'[w].outcome = "running" /\ job'[w].last = j.last /\ job'[w].view = j.view
        /\ job'[w].polls = j.polls /\ job'[w].cap = j.cap /\ job'[w].replays = j.replays + 1
    BY <1>1, <1>5 DEF JobFields
  <2>2. IsJob(job[w])' BY <1>4, <2>1, <1>5 DEF IsJob, IsReplay
  <2>3. SinceInv(job[w])' /\ OwnView(job[w])'
    BY <1>1, <1>5, <2>1 DEF SinceInv, OwnView, Valid, UpsertsKnown
  <2>4. ViewInv' BY <1>1, <1>5, UnchangedViewKeeps
  <2> QED BY <1>5, <2>1, <2>2, <2>3, <2>4 DEF OwnStep, JobInv
<1>6. CASE /\ SincePageAccepted(j, page)
           /\ job' = [job EXCEPT ![w] = [@ EXCEPT !.cap = cap, !.index = j.index + 1, !.replays = 0,
                                                  !.got = got, !.last = page.ops]]
           /\ UNCHANGED <<current, lastId, mutex>>
  <2>1. /\ DOMAIN job'[w] = JobFields
        /\ job'[w].pc = "since" /\ job'[w].got = got /\ job'[w].index = j.index + 1
        /\ job'[w].outcome = "running" /\ job'[w].last = page.ops /\ job'[w].view = j.view
        /\ job'[w].polls = j.polls /\ job'[w].cap = cap /\ job'[w].replays = 0
    BY <1>1, <1>6 DEF JobFields
  <2>2. IsJob(job[w])'
    <3>1. cap \in Nat \X Nat /\ got \subseteq Ops /\ page.ops \subseteq Ops BY <1>3, <1>6
    <3> QED BY <1>4, <2>1, <3>1 DEF IsJob
  <2>3. SinceInv(job[w])' /\ OwnView(job[w])'
    BY <1>1, <1>3, <1>6, <2>1 DEF SinceInv, OwnView, Valid, UpsertsKnown
  <2>4. ViewInv' BY <1>1, <1>6, UnchangedViewKeeps
  <2> QED BY <1>6, <2>1, <2>2, <2>3, <2>4 DEF OwnStep, JobInv
<1>7. CASE SincePageAccepted(j, page) /\ ApplyBatch(w, cap[2], got)
  <2>1. cap[2] \in Nat /\ Valid(<<j.view.session, cap[2]>>) BY <1>3, <1>7 DEF Valid
  <2> QED BY <1>1, <1>3, <1>7, <2>1, ApplyBatchKeeps
<1>8. CASE SinceFails(w, Reason(j, page))
  BY <1>1, <1>8, SinceFailsKeeps DEF Reason, Outcomes
<1> QED BY <1>2, <1>5, <1>6, <1>7, <1>8, Zenon DEF cap, got
----------------------------------------------------------------------------
(***************************************************************************)
(* The invariant                                                           *)
(***************************************************************************)

LEMMA WorkerStep ==
    ASSUME IInv, NEW w \in Workers, Worker(w)
    PROVE  OwnStep(w)
<1>1. hist' = hist BY WorkerKeepsHist
<1>2. job[w].pc = "since" => current.id = job[w].view.id BY DEF IInv, LockInv, OneReadAtATime
<1>3. HistInv /\ ContentsInv BY DEF IInv
<1>4. CASE BeginSnapshot(w) BY <1>1, <1>3, <1>4, BeginSnapshotKeeps
<1>5. CASE ReadSnapshotPage(w) BY <1>1, <1>3, <1>5, ReadSnapshotPageKeeps
<1>6. CASE SnapshotCallFails(w) \/ RefuseSince(w) \/ SinceNotBegun(w)
  BY <1>1, <1>3, <1>6, ReturnsKeep
<1>7. CASE BeginSince(w) BY <1>1, <1>3, <1>7, BeginSinceKeeps
<1>8. CASE ReadSincePage(w) BY <1>2, <1>3, <1>8, ReadSincePageKeeps DEF ReadSincePage
<1>9. CASE SinceCallFails(w) BY <1>2, <1>3, <1>9, SinceCallFailsKeeps DEF SinceCallFails
<1>10. CASE SinceReset(w) BY <1>2, <1>3, <1>10, SinceResetKeeps DEF SinceReset
<1>11. CASE SyncReturns(w) BY <1>3, <1>11, SyncReturnsKeeps
<1> QED BY <1>4, <1>5, <1>6, <1>7, <1>8, <1>9, <1>10, <1>11 DEF Worker

LEMMA WorkerKeepsContents ==
    ASSUME IInv, NEW w \in Workers, Worker(w)
    PROVE  ContentsInv'
<1>1. hist' = hist BY WorkerKeepsHist
<1>2. OwnStep(w) BY WorkerStep
<1>3. LockInv /\ ContentsInv BY DEF IInv
<1>4. DOMAIN job' = Workers /\ \A u \in Workers \ {w} : job'[u] = job[u]
  BY <1>3, WorkerLockStep DEF LockStep, OthersKept, JobShape
<1>5. ASSUME NEW u \in Workers \ {w} PROVE JobInv(job[u])'
  <2>1. JobInv(job[u]) /\ ViewInv BY <1>3 DEF ContentsInv
  <2>2. \/ UNCHANGED <<current, lastId>>
        \/ job[u].pc \notin Reading /\ lastId' = lastId + 1 /\ current'.id = lastId + 1
    BY <1>2, <1>3, <1>5 DEF OwnStep, Publishes, LockInv, OneReadAtATime, Reading
  <2> QED BY <1>1, <1>4, <1>5, <2>1, <2>2, OthersKeep
<1> QED BY <1>2, <1>4, <1>5 DEF ContentsInv, OwnStep

LEMMA ContentsInit == Init => ContentsInv
<1> SUFFICES ASSUME Init PROVE ContentsInv OBVIOUS
<1>1. current = NoView /\ lastId = 0 /\ DOMAIN job = Workers /\ \A w \in Workers : job[w] = Idle
  BY DEF Init
<1>2. ViewInv BY <1>1 DEF ViewInv
<1>3. DOMAIN Idle = JobFields /\ IsJob(Idle)
  BY QueryAssumption DEF Idle, IsJob, JobFields
<1>4. Idle.pc = "lockSnapshot" /\ Idle.got = {} /\ Idle.outcome = "running" BY DEF Idle
<1> HIDE DEF Idle
<1> QED BY <1>1, <1>2, <1>3, <1>4 DEF ContentsInv, JobInv

LEMMA ServerKeepsContents ==
    ASSUME HistInv, ContentsInv, HistGrows, UNCHANGED <<current, lastId, mutex, job>>
    PROVE  ContentsInv'
<1>1. ViewInv'
  <2>1. lastId > 0 => GoodView(current)' BY ValidKept DEF ContentsInv, ViewInv, GoodView
  <2> QED BY <2>1 DEF ContentsInv, ViewInv
<1>2. ASSUME NEW w \in Workers PROVE JobInv(job[w])'
  <2>1. JobInv(job[w]) /\ job'[w] = job[w] BY DEF ContentsInv
  <2>2. Valid(job[w].cap) => Valid(job[w].cap)' BY <2>1, ValidKept
  <2>3. job[w].pc = "snapshot" => SnapshotInv(job[w])'
    BY <2>1, <2>2 DEF JobInv, SnapshotInv, OldSize, Valid
  <2>4. job[w].pc = "since" => SinceInv(job[w])'
    BY <2>1, <2>2 DEF JobInv, SinceInv, Valid
  <2> QED BY <2>1, <2>3, <2>4 DEF JobInv, OwnView
<1> QED BY <1>1, <1>2 DEF ContentsInv

LEMMA IInvInit == Init => IInv
BY HistInit, LockInvInit, ContentsInit DEF IInv

LEMMA IInvStep == IInv /\ [Next]_vars => IInv'
<1> SUFFICES ASSUME IInv, [Next]_vars PROVE IInv' OBVIOUS
<1>1. HistInv' /\ HistGrows BY HistStep DEF IInv
<1>2. LockInv' BY LockInvStep DEF IInv
<1>3. CASE Server
  BY <1>1, <1>2, <1>3, ServerKeepsClient, ServerKeepsContents DEF IInv
<1>4. CASE \E w \in Workers : Worker(w) BY <1>1, <1>2, <1>4, WorkerKeepsContents DEF IInv
<1>5. CASE UNCHANGED vars
  BY <1>1, <1>2, <1>5, ServerKeepsContents DEF IInv, vars
<1> QED BY <1>3, <1>4, <1>5 DEF Next

\* The invariant that says where every view and every half-read answer comes
\* from: a revision that the server had, of the server's nodes, in the budget.
THEOREM ContentsSafe == Spec => []IInv
BY IInvInit, IInvStep, PTL DEF Spec

----------------------------------------------------------------------------
(***************************************************************************)
(* What follows                                                            *)
(***************************************************************************)

\* The variables stay in their types: a published view is one of nodes, statuses
\* and generations that the server knows, whatever it was put together from.
THEOREM TypeCorrect == Spec => []TypeOK
<1>1. IInv => TypeOK
  BY DEF IInv, HistInv, LockInv, ContentsInv, ViewInv, GoodView, JobInv, TypeOK
<1> QED BY <1>1, ContentsSafe, PTL

\* QueryClientViewBudget holds (readQuerySnapshot, applySinceBatch): the published
\* view and the one being read beside it never take more than the budget together.
THEOREM MemoryBounded == Spec => []MemoryIsBounded
<1>1. ContentsInv => MemoryIsBounded
  BY OldSizeFits DEF ContentsInv, JobInv, SnapshotInv, MemoryIsBounded
<1> QED BY <1>1, ContentsSafe, PTL DEF IInv

\* The watermark of the published view never goes back (storeQuery): a read is
\* never overtaken, because the view it started from is the published one still.
THEOREM ViewAdvances == Spec => WatermarkAdvances
<1> DEFINE Advances ==
             current # NoView =>
               \/ current'.session > current.session
               \/ current'.session = current.session /\ current'.revision >= current.revision
<1>1. ASSUME IInv, [Next]_vars PROVE Advances \/ UNCHANGED vars
  <2>1. CASE UNCHANGED vars BY <2>1
  <2>2. CASE current # NoView /\ current' = current
    <3>1. IsView(current)
      BY <1>1, <2>2 DEF IInv, ContentsInv, ViewInv, GoodView
    <3> QED BY <2>2, <3>1 DEF IsView
  <2>3. CASE \E w \in Workers : Worker(w)
    <3>1. PICK w \in Workers : OwnStep(w) BY <1>1, <2>3, WorkerStep
    <3>2. CASE UNCHANGED <<current, lastId>> BY <2>2, <3>2
    <3>3. CASE Publishes(w)
      BY <1>1, <3>3 DEF Publishes, AtLeast, Watermark, IInv, ContentsInv, ViewInv
    <3> QED BY <3>1, <3>2, <3>3 DEF OwnStep
  <2>4. CASE Server BY <2>2, <2>4, ServerKeepsClient
  <2> QED BY <1>1, <2>1, <2>3, <2>4 DEF Next
<1>2. IInv /\ [Next]_vars => [Advances]_vars BY <1>1
<1> QED BY <1>2, ContentsSafe, PTL DEF Spec, WatermarkAdvances

Failures == {"since failed", "flow identity changed"}

\* A since read that ends with an error has gone through SinceFails.
LEMMA FailureFails ==
    ASSUME ContentsInv, NEW w \in Workers, Worker(w), job[w].pc = "since", job'[w].outcome \in Failures
    PROVE  hist' = hist /\ \E outcome \in Outcomes : SinceFails(w, outcome)
<1> DEFINE j == job[w]
<1>1. DOMAIN job = Workers /\ DOMAIN j = JobFields /\ j.outcome = "running"
  BY DEF ContentsInv, JobInv
<1>2. ASSUME NEW v, SinceReturns(w, v) PROVE FALSE
  BY <1>1, <1>2 DEF SinceReturns, Polling, Failures, JobFields
<1>3. hist' = hist BY WorkerKeepsHist
<1>4. CASE ReadSincePage(w)
  <2>1. PICK page \in SincePages(j) :
          \/ job' = [job EXCEPT ![w] = [@ EXCEPT !.replays = j.replays + 1]]
          \/ \E cap : job' = [job EXCEPT ![w] = [@ EXCEPT !.cap = cap, !.index = j.index + 1,
                                                          !.replays = 0, !.got = j.got \cup page.ops,
                                                          !.last = page.ops]]
          \/ \E t : ApplyBatch(w, t, j.got \cup page.ops)
          \/ SinceFails(w, Reason(j, page))
    BY <1>4 DEF ReadSincePage
  <2>2. CASE \E t : ApplyBatch(w, t, j.got \cup page.ops)
    BY <1>2, <1>3, <2>2 DEF ApplyBatch, Outcomes
  <2>3. CASE SinceFails(w, Reason(j, page))
    BY <1>3, <2>3 DEF Reason, Outcomes
  <2> QED BY <1>1, <2>1, <2>2, <2>3 DEF Failures, JobFields
<1>5. CASE SinceCallFails(w) BY <1>3, <1>5 DEF SinceCallFails, Outcomes
<1>6. CASE SinceReset(w) BY <1>1, <1>6 DEF SinceReset, Failures, JobFields
<1> QED BY <1>4, <1>5, <1>6
        DEF Worker, BeginSnapshot, ReadSnapshotPage, SnapshotCallFails, BeginSince, RefuseSince,
            SinceNotBegun, SyncReturns

\* The deferred markQueryStale of readQuerySince: whatever ends with an error a
\* since read that has begun, that is with the mark deferred, the view keeps its
\* nodes and its watermark, and all of the selected tree is stale in it.
THEOREM FailureVisible == Spec => FailureIsVisible
<1> DEFINE Visible(w) ==
             job'[w].outcome \in Failures /\ job[w].pc = "since" =>
               /\ <<current'.session, current'.revision>> = <<current.session, current.revision>>
               /\ \A p \in Paths : HasNode(current', p) <=> HasNode(current, p)
               /\ \A p \in Paths : InView(p) => IsStale(current', p)
<1>1. ASSUME IInv, [Next]_vars, NEW w \in Workers PROVE Visible(w)
  <2> SUFFICES ASSUME job'[w].outcome \in Failures, job[w].pc = "since"
               PROVE  /\ current'.session = current.session /\ current'.revision = current.revision
                      /\ current'.nodes = current.nodes /\ Scope \in current'.stale
    BY DEF HasNode, InView, IsStale, UnderAny
  <2>1. job'[w] # job[w] BY <1>1 DEF IInv, ContentsInv, JobInv, Failures
  <2>2. Worker(w)
    <3>1. CASE Server BY <2>1, <3>1, ServerKeepsClient
    <3>2. CASE \E u \in Workers : Worker(u)
      BY <1>1, <2>1, <3>2, WorkerLockStep DEF IInv, LockStep, OthersKept
    <3>3. CASE UNCHANGED vars BY <2>1, <3>3 DEF vars
    <3> QED BY <1>1, <3>1, <3>2, <3>3 DEF Next
  <2>3. hist' = hist /\ \E outcome \in Outcomes : SinceFails(w, outcome)
    BY <1>1, <2>2, FailureFails DEF IInv
  <2>4. current.id = job[w].view.id BY <1>1 DEF IInv, LockInv, OneReadAtATime
  <2> QED BY <1>1, <2>3, <2>4, SinceFailsKeeps DEF IInv
<1>2. IInv /\ [Next]_vars => [\A w \in Workers : Visible(w)]_vars BY <1>1
<1> QED BY <1>2, ContentsSafe, PTL DEF Spec, FailureIsVisible, Failures

----------------------------------------------------------------------------
(***************************************************************************)
(* The way to the end of a call                                            *)
(***************************************************************************)

\* There are finitely many operations on the paths.
LEMMA KeysAreFinite == IsFiniteSet(OperationKeys)
<1> DEFINE A == {"upsert_summary"}
           B == {"remove_subtree"}
           C == {"invalidate_scope"}
           K == {"upsert_summary", "remove_subtree", "invalidate_scope"}
<1>1. IsFiniteSet(A) /\ IsFiniteSet(B) /\ IsFiniteSet(C) BY FS_Singleton
<1>2. K = (A \cup B) \cup C OBVIOUS
<1>3. OperationKeys = K \X Paths BY DEF OperationKeys
<1> HIDE DEF A, B, C, K
<1>4. IsFiniteSet(A \cup B) BY <1>1, FS_Union
<1>5. IsFiniteSet((A \cup B) \cup C) BY <1>1, <1>4, FS_Union
<1> QED BY <1>2, <1>3, <1>5, FS_Product, QueryAssumption

\* The measures are natural numbers, and what a page loop has left fits in the
\* share that LongestPoll gives it.
LEMMA MeasureTypes ==
    /\ Cardinality(Paths) \in Nat /\ Cardinality(OperationKeys) \in Nat /\ LongestPoll \in Nat
    /\ \A j : PathsLeft(j) \in 0 .. Cardinality(Paths)
              /\ OperationsLeft(j) \in 0 .. Cardinality(OperationKeys)
<1>1. IsFiniteSet(Paths) BY QueryAssumption
<1>2. IsFiniteSet(OperationKeys) BY KeysAreFinite
<1>3. ASSUME NEW S, IsFiniteSet(S), NEW T PROVE Cardinality(S \ T) \in 0 .. Cardinality(S)
  <2>1. IsFiniteSet(S \ T) /\ Cardinality(S \ T) <= Cardinality(S) BY <1>3, FS_Subset
  <2> QED BY <1>3, <2>1, FS_CardinalityType
<1>4. Cardinality(Paths) \in Nat /\ Cardinality(OperationKeys) \in Nat
  BY <1>1, <1>2, FS_CardinalityType
<1>5. LongestPoll \in Nat BY <1>4 DEF LongestPoll
<1> QED BY <1>1, <1>2, <1>3, <1>4, <1>5 DEF PathsLeft, OperationsLeft

\* A set that loses an element is smaller.
LEMMA LessLeft ==
    ASSUME NEW S, IsFiniteSet(S), NEW T, NEW U, T \subseteq U, NEW e \in S, e \in U, e \notin T
    PROVE  Cardinality(S \ U) < Cardinality(S \ T)
<1>1. IsFiniteSet(S \ T) /\ S \ U \subseteq S \ T /\ S \ U # S \ T BY FS_Subset
<1>2. IsFiniteSet(S \ U) /\ Cardinality(S \ U) <= Cardinality(S \ T) BY <1>1, FS_Subset
<1>3. Cardinality(S \ U) \in Nat /\ Cardinality(S \ T) \in Nat BY <1>1, <1>2, FS_CardinalityType
<1>4. Cardinality(S \ U) # Cardinality(S \ T) BY <1>1, FS_Subset
<1> QED BY <1>2, <1>3, <1>4

\* The fields of a call that its measure reads.
Measured(j) ==
    /\ j.pc \in {"lockSnapshot", "snapshot", "lockSince", "since", "returning", "done"}
    /\ j.polls \in Nat /\ j.replays \in 0 .. 2

\* What a step of a call may do: go on to a later stage of the poll, take in a page
\* with something new or a replay, or begin the next poll.
Nearer(j, k) ==
    \/ k.polls = j.polls /\ j.pc # "done" /\ k.pc = "done"
    \/ k.polls = j.polls /\ j.pc \in Reading /\ k.pc \in {"lockSince", "returning"}
    \/ k.polls = j.polls /\ j.pc = "lockSnapshot" /\ k.pc = "snapshot"
    \/ k.polls = j.polls /\ j.pc = "since" /\ k.pc = "lockSnapshot"
    \/ k.polls = j.polls /\ j.pc = "snapshot" /\ k.pc = "snapshot" /\ PathsLeft(k) < PathsLeft(j)
    \/ k.polls = j.polls /\ j.pc = "since" /\ k.pc = "since" /\ OperationsLeft(k) < OperationsLeft(j)
    \/ /\ k.polls = j.polls /\ j.pc = "since" /\ k.pc = "since"
       /\ OperationsLeft(k) = OperationsLeft(j) /\ k.replays = j.replays + 1
    \/ j.pc = "lockSince" /\ k.pc = "since" /\ j.polls > 0 /\ k.polls = j.polls - 1

\* What is left of a poll is less than the share of a poll.
LEMMA LeftOfPollType ==
    ASSUME NEW j, Measured(j)
    PROVE  LeftOfPoll(j) \in Nat /\ LeftOfPoll(j) < LongestPoll + 2 /\ Left(j) \in Nat
<1> DEFINE n == Cardinality(Paths)
           m == Cardinality(OperationKeys)
           a == PathsLeft(j)
           b == OperationsLeft(j)
<1>1. n \in Nat /\ m \in Nat /\ a \in 0 .. n /\ b \in 0 .. m /\ LongestPoll \in Nat BY MeasureTypes
<1>2. LongestPoll = 6 + n + 3 * m BY DEF LongestPoll
<1>3. LeftOfPoll(j) = IF j.pc = "done" THEN 0
                      ELSE IF j.pc = "returning" THEN 1
                      ELSE IF j.pc = "lockSince" THEN 2
                      ELSE IF j.pc = "snapshot" THEN 3 + a
                      ELSE IF j.pc = "lockSnapshot" THEN 4 + n
                      ELSE 5 + n + 3 * b + (2 - j.replays)
  BY DEF LeftOfPoll
<1> HIDE DEF n, m, a, b
<1>4. LeftOfPoll(j) \in Nat /\ LeftOfPoll(j) < LongestPoll + 2
  BY <1>1, <1>2, <1>3 DEF Measured
<1>5. j.polls * LongestPoll \in Nat BY <1>1 DEF Measured
<1> QED BY <1>4, <1>5 DEF Left

\* Each such step lowers the measure: what it may add is less than what it gives up.
LEMMA NearerLowers ==
    ASSUME NEW j, NEW k, Measured(j), Measured(k), Nearer(j, k)
    PROVE  Left(k) < Left(j)
<1> DEFINE n == Cardinality(Paths)
           m == Cardinality(OperationKeys)
           a == PathsLeft(j)
           b == OperationsLeft(j)
           c == PathsLeft(k)
           d == OperationsLeft(k)
           B == LongestPoll
<1>1. n \in Nat /\ m \in Nat /\ a \in 0 .. n /\ b \in 0 .. m /\ c \in 0 .. n /\ d \in 0 .. m /\ B \in Nat
  BY MeasureTypes
<1>2. B = 6 + n + 3 * m BY DEF LongestPoll
<1>3. LeftOfPoll(j) = IF j.pc = "done" THEN 0
                      ELSE IF j.pc = "returning" THEN 1
                      ELSE IF j.pc = "lockSince" THEN 2
                      ELSE IF j.pc = "snapshot" THEN 3 + a
                      ELSE IF j.pc = "lockSnapshot" THEN 4 + n
                      ELSE 5 + n + 3 * b + (2 - j.replays)
  BY DEF LeftOfPoll
<1>4. LeftOfPoll(k) = IF k.pc = "done" THEN 0
                      ELSE IF k.pc = "returning" THEN 1
                      ELSE IF k.pc = "lockSince" THEN 2
                      ELSE IF k.pc = "snapshot" THEN 3 + c
                      ELSE IF k.pc = "lockSnapshot" THEN 4 + n
                      ELSE 5 + n + 3 * d + (2 - k.replays)
  BY DEF LeftOfPoll
<1>5. Left(j) = j.polls * B + LeftOfPoll(j) /\ Left(k) = k.polls * B + LeftOfPoll(k) BY DEF Left
<1>6. LeftOfPoll(j) \in Nat /\ LeftOfPoll(k) \in Nat BY LeftOfPollType
<1>7. CASE k.polls = j.polls
  <2>1. \/ j.pc # "done" /\ k.pc = "done"
        \/ j.pc \in Reading /\ k.pc \in {"lockSince", "returning"}
        \/ j.pc = "lockSnapshot" /\ k.pc = "snapshot"
        \/ j.pc = "since" /\ k.pc = "lockSnapshot"
        \/ j.pc = "snapshot" /\ k.pc = "snapshot" /\ c < a
        \/ j.pc = "since" /\ k.pc = "since" /\ d < b
        \/ j.pc = "since" /\ k.pc = "since" /\ d = b /\ k.replays = j.replays + 1
    BY <1>7 DEF Nearer, Measured
  <2> HIDE DEF n, m, a, b, c, d, B
  <2>2. LeftOfPoll(k) < LeftOfPoll(j) BY <1>1, <1>3, <1>4, <2>1 DEF Measured, Reading
  <2>3. j.polls * B \in Nat BY <1>1 DEF Measured
  <2> QED BY <1>5, <1>6, <1>7, <2>2, <2>3
<1>8. CASE j.pc = "lockSince" /\ k.pc = "since" /\ j.polls > 0 /\ k.polls = j.polls - 1
  <2> HIDE DEF n, m, a, b, c, d, B
  <2>1. LeftOfPoll(j) = 2 /\ LeftOfPoll(k) <= B + 1 BY <1>1, <1>2, <1>3, <1>4, <1>8 DEF Measured
  <2>2. PICK p \in Nat : p = k.polls /\ j.polls = p + 1 BY <1>8 DEF Measured
  <2>3. (p + 1) * B = p * B + B /\ p * B \in Nat BY <1>1, <2>2
  <2> QED BY <1>1, <1>5, <1>6, <2>1, <2>2, <2>3
<1> QED BY <1>7, <1>8 DEF Nearer

\* A call of the right type can be measured.
LEMMA JobMeasured == ASSUME NEW j, IsJob(j) PROVE Measured(j)
<1>1. Polls \in Nat BY QueryAssumption
<1>2. /\ j.pc \in {"lockSnapshot", "snapshot", "lockSince", "since", "returning", "done"}
      /\ j.polls \in 0 .. Polls /\ j.replays \in 0 .. 2
  BY DEF IsJob
<1> QED BY <1>1, <1>2 DEF Measured

\* Leaving a read, with an error or with a view.
LEMMA ReturnNearer ==
    ASSUME ContentsInv, NEW w \in Workers, NEW outcome, Return(w, outcome), job[w].pc # "done"
    PROVE  Nearer(job[w], job'[w])
<1>1. DOMAIN job = Workers /\ DOMAIN job[w] = JobFields BY DEF ContentsInv, JobInv
<1>2. job'[w].pc = "done" /\ job'[w].polls = job[w].polls BY <1>1 DEF Return, JobFields
<1> QED BY <1>2 DEF Nearer

\* SyncQuery goes on with the view it was handed, or is about to return it.
LEMMA PollingNearer ==
    ASSUME ContentsInv, NEW w \in Workers, NEW v, Polling(w, v), job[w].pc \in Reading
    PROVE  Nearer(job[w], job'[w])
<1>1. DOMAIN job = Workers /\ DOMAIN job[w] = JobFields BY DEF ContentsInv, JobInv
<1>2. job'[w].pc \in {"returning", "lockSince"} /\ job'[w].polls = job[w].polls
  BY <1>1 DEF Polling, JobFields
<1> QED BY <1>2 DEF Nearer, Reading

\* The same, or a stale view is read again, which is a stage of the same poll.
LEMMA SinceReturnsNearer ==
    ASSUME ContentsInv, NEW w \in Workers, NEW v, SinceReturns(w, v), job[w].pc = "since"
    PROVE  Nearer(job[w], job'[w])
<1>1. DOMAIN job = Workers /\ DOMAIN job[w] = JobFields BY DEF ContentsInv, JobInv
<1>2. CASE v.stale = {} BY <1>2, PollingNearer DEF SinceReturns, Reading
<1>3. CASE v.stale # {}
  <2>1. job'[w].pc = "lockSnapshot" /\ job'[w].polls = job[w].polls
    BY <1>1, <1>3 DEF SinceReturns, JobFields
  <2> QED BY <2>1 DEF Nearer
<1> QED BY <1>2, <1>3

\* A page of a snapshot that is not the last one has a path that is new.
LEMMA SnapshotPageNearer ==
    ASSUME ContentsInv, NEW w \in Workers, ReadSnapshotPage(w)
    PROVE  Nearer(job[w], job'[w])
<1> DEFINE j == job[w]
<1>1. /\ DOMAIN job = Workers /\ DOMAIN j = JobFields /\ j.pc = "snapshot"
  BY DEF ContentsInv, JobInv, ReadSnapshotPage
<1>2. PICK page \in SnapshotPages(j) :
         \/ /\ PageAccepted(j, page) /\ ~page.complete
            /\ \E cap : job' = [job EXCEPT ![w] = [@ EXCEPT !.got = j.got \cup Summaries(page),
                                                           !.index = j.index + 1, !.cap = cap]]
         \/ Polling(w, current')
         \/ Return(w, "snapshot failed")
  BY DEF ReadSnapshotPage
<1>3. CASE /\ PageAccepted(j, page) /\ ~page.complete
           /\ \E cap : job' = [job EXCEPT ![w] = [@ EXCEPT !.got = j.got \cup Summaries(page),
                                                          !.index = j.index + 1, !.cap = cap]]
  <2> DEFINE sum == Summaries(page)
             known == {n.path : n \in j.got}
  <2>1. PICK p \in page.nodes : p \in Paths /\ p \notin known
    BY <1>3 DEF SnapshotPages, PageAccepted, NodesFit
  <2>2. \E n \in sum : n.path = p
    <3> DEFINE summary(q) == [path |-> q, status |-> StateAt(page.cap).tree[q],
                              gen |-> IF q = <<>> THEN 0 ELSE StateAt(page.cap).gens[Flow(q)]]
    <3>1. sum = {summary(q) : q \in page.nodes} BY DEF Summaries
    <3>2. summary(p).path = p OBVIOUS
    <3> HIDE DEF summary
    <3> QED BY <2>1, <3>1, <3>2
  <2> HIDE DEF sum
  <2>3. /\ job'[w].pc = "snapshot" /\ job'[w].polls = j.polls
        /\ job'[w].got = j.got \cup sum
    BY <1>1, <1>3 DEF JobFields, sum
  <2> DEFINE news == {n.path : n \in job'[w].got}
  <2>4. known \subseteq news /\ p \in news BY <2>2, <2>3
  <2>5. PathsLeft(j) = Cardinality(Paths \ known) /\ PathsLeft(job'[w]) = Cardinality(Paths \ news)
    BY DEF PathsLeft
  <2> HIDE DEF known, news
  <2>6. PathsLeft(job'[w]) < PathsLeft(j) BY <2>1, <2>4, <2>5, LessLeft, QueryAssumption
  <2> QED BY <1>1, <2>3, <2>6 DEF Nearer
<1>4. CASE Polling(w, current') BY <1>1, <1>4, PollingNearer DEF Reading
<1>5. CASE Return(w, "snapshot failed") BY <1>1, <1>5, ReturnNearer
<1> QED BY <1>2, <1>3, <1>4, <1>5

\* A page of a batch that is not the last one has an operation that is new, unless
\* it is a replay, of which there are two between new ones.
LEMMA SincePageNearer ==
    ASSUME HistInv, ContentsInv, NEW w \in Workers, ReadSincePage(w), current.id = job[w].view.id
    PROVE  Nearer(job[w], job'[w])
<1> DEFINE j == job[w]
<1>1. /\ DOMAIN job = Workers /\ DOMAIN j = JobFields /\ JobInv(j) /\ j.pc = "since"
      /\ ViewInv /\ current = j.view
  BY DEF ContentsInv, JobInv, OwnView, ReadSincePage
<1>2. PICK page \in SincePages(j) :
         \/ job' = [job EXCEPT ![w] = [@ EXCEPT !.replays = j.replays + 1]]
         \/ /\ SincePageAccepted(j, page) /\ ~page.complete
            /\ \E cap : job' = [job EXCEPT ![w] = [@ EXCEPT !.cap = cap, !.index = j.index + 1,
                                                            !.replays = 0, !.got = j.got \cup page.ops,
                                                            !.last = page.ops]]
         \/ \E t : ApplyBatch(w, t, j.got \cup page.ops)
         \/ SinceFails(w, Reason(j, page))
  BY DEF ReadSincePage
<1>3. CASE job' = [job EXCEPT ![w] = [@ EXCEPT !.replays = j.replays + 1]]
  <2>1. /\ job'[w].pc = "since" /\ job'[w].polls = j.polls /\ job'[w].got = j.got
        /\ job'[w].replays = j.replays + 1
    BY <1>1, <1>3 DEF JobFields
  <2> QED BY <1>1, <2>1 DEF Nearer, OperationsLeft
<1>4. CASE /\ SincePageAccepted(j, page) /\ ~page.complete
           /\ \E cap : job' = [job EXCEPT ![w] = [@ EXCEPT !.cap = cap, !.index = j.index + 1,
                                                           !.replays = 0, !.got = j.got \cup page.ops,
                                                           !.last = page.ops]]
  <2> DEFINE known == {<<o.op, o.path>> : o \in j.got}
  <2>1. page.ops \subseteq Ops BY <1>1, <1>4, SincePageShape
  <2>2. page.ops # {}
    <3>1. CASE Session # j.view.session BY <1>4, <3>1 DEF SincePages
    <3>2. CASE Session = j.view.session BY <1>4, <3>2 DEF SincePages
    <3> QED BY <3>1, <3>2
  <2>3. PICK o \in page.ops : o \in Ops /\ KnownOperation(j, o)
    BY <1>4, <2>1, <2>2 DEF SincePageAccepted
  <2>4. <<o.op, o.path>> \in OperationKeys /\ <<o.op, o.path>> \notin known
    BY <2>3 DEF Ops, OperationKeys, KnownOperation
  <2>5. /\ job'[w].pc = "since" /\ job'[w].polls = j.polls
        /\ job'[w].got = j.got \cup page.ops
    BY <1>1, <1>4 DEF JobFields
  <2> DEFINE news == {<<q.op, q.path>> : q \in job'[w].got}
             e == <<o.op, o.path>>
  <2>6. known \subseteq news /\ e \in news BY <2>3, <2>5
  <2>7. /\ OperationsLeft(j) = Cardinality(OperationKeys \ known)
        /\ OperationsLeft(job'[w]) = Cardinality(OperationKeys \ news)
    BY DEF OperationsLeft
  <2>8. e \in OperationKeys /\ e \notin known BY <2>4
  <2> HIDE DEF known, news, e
  <2>9. OperationsLeft(job'[w]) < OperationsLeft(j)
    BY <2>6, <2>7, <2>8, LessLeft, KeysAreFinite
  <2> QED BY <1>1, <2>5, <2>9 DEF Nearer
<1>5. CASE \E t : ApplyBatch(w, t, j.got \cup page.ops)
  <2>1. (\E v : SinceReturns(w, v)) \/ (\E outcome : Return(w, outcome))
    BY <1>5 DEF ApplyBatch, SinceFails
  <2> QED BY <1>1, <2>1, SinceReturnsNearer, ReturnNearer
<1>6. CASE SinceFails(w, Reason(j, page)) BY <1>1, <1>6, ReturnNearer DEF SinceFails
<1> QED BY <1>2, <1>3, <1>4, <1>5, <1>6

\* So every step of a goroutine is one of those that bring its call closer to its end.
LEMMA WorkerNearer ==
    ASSUME IInv, NEW w \in Workers, Worker(w)
    PROVE  Nearer(job[w], job'[w])
<1>1. HistInv /\ ContentsInv BY DEF IInv
<1>2. /\ DOMAIN job = Workers /\ DOMAIN job[w] = JobFields /\ job[w].polls \in Nat
      /\ job[w].pc = "lockSince" => job[w].polls > 0
      /\ job[w].pc = "since" => current.id = job[w].view.id
  BY <1>1, JobMeasured DEF ContentsInv, JobInv, Measured, IInv, LockInv, OneReadAtATime
<1>3. CASE BeginSnapshot(w)
  <2>1. /\ job[w].pc = "lockSnapshot" /\ job'[w].pc = "snapshot" /\ job'[w].polls = job[w].polls
    BY <1>2, <1>3 DEF BeginSnapshot, JobFields
  <2> QED BY <2>1 DEF Nearer
<1>4. CASE ReadSnapshotPage(w) BY <1>1, <1>4, SnapshotPageNearer
<1>5. CASE SnapshotCallFails(w) BY <1>1, <1>5, ReturnNearer DEF SnapshotCallFails
<1>6. CASE BeginSince(w)
  <2>1. /\ job[w].pc = "lockSince" /\ job'[w].pc = "since" /\ job'[w].polls = job[w].polls - 1
    BY <1>2, <1>6 DEF BeginSince, JobFields
  <2> QED BY <1>2, <2>1 DEF Nearer
<1>7. CASE RefuseSince(w) \/ SinceNotBegun(w)
  BY <1>1, <1>7, ReturnNearer DEF RefuseSince, SinceNotBegun
<1>8. CASE ReadSincePage(w) BY <1>1, <1>2, <1>8, SincePageNearer DEF ReadSincePage
<1>9. CASE SinceCallFails(w) BY <1>1, <1>9, ReturnNearer DEF SinceCallFails, SinceFails
<1>10. CASE SinceReset(w)
  <2>1. /\ job[w].pc = "since" /\ job'[w].pc = "lockSnapshot" /\ job'[w].polls = job[w].polls
    BY <1>2, <1>10 DEF SinceReset, JobFields
  <2> QED BY <2>1 DEF Nearer
<1>11. CASE SyncReturns(w)
  <2>1. /\ job[w].pc = "returning" /\ job'[w].pc = "done" /\ job'[w].polls = job[w].polls
    BY <1>2, <1>11 DEF SyncReturns, JobFields
  <2> QED BY <2>1 DEF Nearer
<1> QED BY <1>3, <1>4, <1>5, <1>6, <1>7, <1>8, <1>9, <1>10, <1>11 DEF Worker

\* Only its own steps change a call, and they lower its measure.
LEMMA SyncStep ==
    ASSUME IInv, IInv', [Next]_vars, NEW w \in Workers, Worker(w) \/ job'[w] # job[w]
    PROVE  Left(job'[w]) < Left(job[w])
<1>1. Worker(w)
  <2>1. CASE Server BY <2>1, ServerKeepsClient
  <2>2. CASE \E u \in Workers : Worker(u)
    BY <2>2, WorkerLockStep DEF IInv, LockStep, OthersKept
  <2>3. CASE UNCHANGED vars BY <2>3 DEF vars
  <2> QED BY <2>1, <2>2, <2>3 DEF Next
<1>2. Nearer(job[w], job'[w]) BY <1>1, WorkerNearer
<1>3. Measured(job[w]) /\ Measured(job'[w]) BY JobMeasured DEF IInv, ContentsInv, JobInv
<1> DEFINE j == job[w]
           k == job'[w]
<1>4. Nearer(j, k) /\ Measured(j) /\ Measured(k) BY <1>2, <1>3
<1> HIDE DEF j, k
<1>5. Left(k) < Left(j) BY <1>4, NearerLowers
<1> QED BY <1>5 DEF j, k

\* SyncQuery, readQuerySnapshot and readQuerySince: each page, replay, reset or
\* stale view brings a call closer to its end, whatever the server sends and the
\* other goroutines do; what is left of it is a natural number.  Hence no server
\* can keep a call going.
THEOREM SyncApproachesItsEnd ==
    Spec => [](\A w \in Workers : Left(job[w]) \in Nat) /\ SyncProgresses
<1> DEFINE Lower == \A w \in Workers : Worker(w) \/ job'[w] # job[w] => Left(job'[w]) < Left(job[w])
<1>1. IInv => \A w \in Workers : Left(job[w]) \in Nat
  BY JobMeasured, LeftOfPollType DEF IInv, ContentsInv, JobInv
<1>2. IInv /\ IInv' /\ [Next]_vars => [Lower]_vars BY SyncStep
<1> QED BY <1>1, <1>2, ContentsSafe, PTL DEF Spec, SyncProgresses

=============================================================================
