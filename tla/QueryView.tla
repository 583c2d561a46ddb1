----------------------------- MODULE QueryView -----------------------------
(***************************************************************************)
(* The cached query view of one TaklerServiceClient (query_client.go,      *)
(* query_since.go): goroutines that run SyncQuery on a shared client read  *)
(* a paged snapshot, then apply since batches to it, under queryMu, while  *)
(* the server's node tree changes between any two requests.                *)
(*                                                                         *)
(* A path is the sequence of its names, <<>> being "/".  A node's summary  *)
(* is reduced to its status.  Sizes are counted in nodes.                  *)
(***************************************************************************)
EXTENDS Naturals, FiniteSets, Sequences

CONSTANTS
    Paths,        \* every path the server's tree may ever hold, <<>> included
    InitialPaths, \* the paths it holds first
    Statuses,     \* node statuses
    Workers,      \* goroutines calling SyncQuery on one client
    Scope,        \* the selected scope path
    Depth,        \* the selected depth; nil is any number above the tree's height
    Polls,        \* SyncQuery's polls
    ViewBudget,   \* QueryClientViewBudget, in nodes
    MaxRevision,  \* bound on the revisions of one server session
    MaxSessions,  \* bound on server restarts
    Absent,       \* the status of a path the tree does not hold
    Free,         \* c.queryMu has no holder
    NoView        \* nil

ASSUME QueryAssumption ==
    /\ Paths \subseteq Seq(STRING) /\ IsFiniteSet(Paths)
    /\ <<>> \in InitialPaths /\ Scope \in InitialPaths /\ InitialPaths \subseteq Paths
    /\ \A p \in Paths : \A n \in 0 .. Len(p) : SubSeq(p, 1, n) \in Paths
    /\ \A p \in InitialPaths : \A n \in 0 .. Len(p) : SubSeq(p, 1, n) \in InitialPaths
    /\ Statuses # {} /\ Absent \notin Statuses /\ Free \notin Workers
    /\ Depth \in Nat /\ ViewBudget \in Nat
    /\ Polls \in Nat \ {0} /\ MaxRevision \in Nat \ {0} /\ MaxSessions \in Nat \ {0}

----------------------------------------------------------------------------
(***************************************************************************)
(* Paths and views                                                         *)
(***************************************************************************)

Under(p, root) == Len(root) <= Len(p) /\ SubSeq(p, 1, Len(root)) = root
UnderAny(p, roots) == \E root \in roots : Under(p, root)
Parent(p) == SubSeq(p, 1, Len(p) - 1)
Flow(p) == <<p[1]>>
Flows == {p \in Paths : Len(p) = 1}

\* queryPathInView, and the same test on the nodes of a page
InView(p) == Under(p, Scope) /\ Len(p) - Len(Scope) <= Depth

\* QuerySnapshot: id is the pointer, which ReadQuerySince compares; session and
\* revision are the watermark; nodes is the base map and over the overrides.
HasNode(v, p) == p \in DOMAIN v.nodes
Node(v, p) == IF p \in DOMAIN v.over THEN v.over[p] ELSE v.nodes[p]
IsStale(v, p) == UnderAny(p, v.stale)

EmptyMap == [p \in {} |-> Absent]

\* f with the entries of g put over its own.
Overlay(f, g) == [p \in DOMAIN f \cup DOMAIN g |-> IF p \in DOMAIN g THEN g[p] ELSE f[p]]

\* EstimatedBytes: the base map plus one entry per override.
Size(v) == Cardinality(DOMAIN v.nodes) + Cardinality(DOMAIN v.over)

----------------------------------------------------------------------------
VARIABLES
    hist,     \* hist[s][r]: the server's tree in session s at revision r
    current,  \* c.queryCurrent
    lastId,   \* how many views were allocated
    mutex,    \* the holder of c.queryMu, or Free
    job       \* what each goroutine is doing

vars == <<hist, current, lastId, mutex, job>>

\* A goroutine's SyncQuery call.  polls: since reads still to make; view: its
\* local view; cap: <<session, revision>> of the first page; got: the summaries or
\* operations accepted so far; index, last, replays: the page loop's state.  What a
\* read keeps while it runs is gone when it ends.
Idle == [pc |-> "lockSnapshot", polls |-> Polls, view |-> NoView, cap |-> <<0, 0>>,
         got |-> {}, index |-> 0, last |-> {}, replays |-> 0, outcome |-> "running"]

Session == Len(hist)
Revision == Len(hist[Session])
ServerHead == <<Session, Revision>>
StateAt(cap) == hist[cap[1]][cap[2]]
ServerState == StateAt(ServerHead)
Exists(state, p) == state.tree[p] # Absent

NoChange == [op |-> "none", path |-> <<>>]

InitialState ==
    [tree |-> [p \in Paths |-> IF p \in InitialPaths THEN CHOOSE s \in Statuses : TRUE ELSE Absent],
     gens |-> [f \in Flows |-> 1],
     change |-> NoChange]

Init ==
    /\ hist = <<<<InitialState>>>>
    /\ current = NoView
    /\ lastId = 0
    /\ mutex = Free
    /\ job = [w \in Workers |-> Idle]

----------------------------------------------------------------------------
(***************************************************************************)
(* The server: its tree changes, one revision at a time                    *)
(***************************************************************************)

Commit(tree, gens, op, p) ==
    /\ Revision < MaxRevision
    /\ hist' = [hist EXCEPT ![Session] =
                  Append(@, [tree |-> tree, gens |-> gens, change |-> [op |-> op, path |-> p]])]
    /\ UNCHANGED <<current, lastId, mutex, job>>

\* A flow that is added or replaced gets a new generation.
Renewed(p) == [f \in Flows |-> ServerState.gens[f] + (IF p = f THEN 1 ELSE 0)]

\* A node's status becomes that of the nodes above it, in the same revision.
ServerUpdates(p, s) ==
    /\ Exists(ServerState, p) /\ ServerState.tree[p] # s
    /\ Commit([q \in Paths |-> IF Under(p, q) THEN s ELSE ServerState.tree[q]],
              ServerState.gens, "status", p)

ServerRemoves(p) ==
    /\ p # <<>> /\ Exists(ServerState, p)
    /\ Commit([q \in Paths |-> IF Under(q, p) THEN Absent ELSE ServerState.tree[q]],
              ServerState.gens, "remove", p)

ServerAdds(p, s) ==
    /\ p # <<>> /\ ~Exists(ServerState, p) /\ Exists(ServerState, Parent(p))
    /\ Commit([ServerState.tree EXCEPT ![p] = s], Renewed(p), "add", p)

\* A flow is replaced by one with the same paths.
ServerReplaces(f, s) ==
    /\ Exists(ServerState, f)
    /\ Commit([q \in Paths |-> IF Under(q, f) /\ Exists(ServerState, q) THEN s ELSE ServerState.tree[q]],
              Renewed(f), "replace", f)

\* A restarted server numbers its revisions from one again.
ServerRestarts ==
    /\ Session < MaxSessions
    /\ hist' = Append(hist, <<[ServerState EXCEPT !.change = NoChange]>>)
    /\ UNCHANGED <<current, lastId, mutex, job>>

Server ==
    \/ \E p \in Paths, s \in Statuses : ServerUpdates(p, s) \/ ServerAdds(p, s)
    \/ \E p \in Paths : ServerRemoves(p)
    \/ \E f \in Flows, s \in Statuses : ServerReplaces(f, s)
    \/ ServerRestarts

----------------------------------------------------------------------------
(***************************************************************************)
(* Since batches, as the server computes them                              *)
(***************************************************************************)

\* The operations that take a view of revision r to revision t.  A change above
\* the scope invalidates the scope; a node that appeared invalidates its parent.
Operations(session, r, t) ==
    LET now == hist[session][t]
        changes == {hist[session][i].change : i \in r + 1 .. t}
        changed(op) == {c.path : c \in {d \in changes : d.op = op}}
        gone == changed("remove")
        new == changed("add")
        above(p) == p # Scope /\ Under(Scope, p)
        touched == {p \in Paths : \/ \E q \in changed("status") : Under(q, p)
                                  \/ UnderAny(p, changed("replace"))}
        gen(p) == IF p = <<>> THEN 0 ELSE now.gens[Flow(p)]
        operation(op, p, s) == [op |-> op, path |-> p, gen |-> gen(p), status |-> s]
        upserted == {p \in touched : InView(p) /\ Exists(now, p) /\ ~UnderAny(p, gone \cup new)}
        invalidated == {IF p = Scope THEN p ELSE Parent(p) : p \in {q \in new : InView(q)}}
                       \cup {Scope : p \in {q \in gone \cup new : above(q)}}
    IN  {operation("upsert_summary", p, now.tree[p]) : p \in upserted}
        \cup {operation("remove_subtree", p, Absent) : p \in {q \in gone : InView(q)}}
        \cup {operation("invalidate_scope", p, Absent) : p \in invalidated}

----------------------------------------------------------------------------
(***************************************************************************)
(* ReadQuerySnapshot                                                       *)
(***************************************************************************)

Allocate(v) == lastId' = lastId + 1 /\ current' = [v EXCEPT !.id = lastId + 1]

\* Leave the read with queryMu unlocked, and SyncQuery with its error.
Return(w, outcome) ==
    /\ job' = [job EXCEPT ![w] = [@ EXCEPT !.pc = "done", !.outcome = outcome, !.cap = <<0, 0>>,
                                           !.got = {}, !.index = 0, !.last = {}, !.replays = 0]]
    /\ mutex' = Free

\* SyncQuery goes on with the view v it was given, without the lock: other
\* goroutines may publish before it reads again, or returns.
Polling(w, v) ==
    /\ job' = [job EXCEPT ![w] =
                 [@ EXCEPT !.pc = IF job[w].polls = 0 THEN "returning" ELSE "lockSince",
                           !.view = v, !.cap = <<0, 0>>, !.got = {}, !.index = 0, !.last = {},
                           !.replays = 0]]
    /\ mutex' = Free

\* Mutant: ReadQuerySnapshot does not take queryMu.
BeginSnapshotUnlocked(w) ==
    /\ job[w].pc = "lockSnapshot"
    /\ job' = [job EXCEPT ![w] = [@ EXCEPT !.pc = "snapshot", !.got = {}, !.index = 0]]
    /\ UNCHANGED <<hist, current, lastId, mutex>>

BeginSnapshot(w) ==
    /\ job[w].pc = "lockSnapshot"
    /\ mutex = Free
    /\ mutex' = w
    /\ job' = [job EXCEPT ![w] = [@ EXCEPT !.pc = "snapshot", !.got = {}, !.index = 0]]
    /\ UNCHANGED <<hist, current, lastId>>

\* A page of a captured snapshot: the first one of the server's present state,
\* a later one of the same capture or, the capture being lost, of a new one.
\* A page that is not the last holds a node (DecodeQueryV1).
SnapshotPages(j) ==
    {page \in [cap : {IF j.index = 0 THEN ServerHead ELSE j.cap, ServerHead},
               index : {j.index, j.index + 1},
               nodes : SUBSET Paths, complete : BOOLEAN] :
        /\ page.nodes # {} \/ page.complete
        /\ \A p \in page.nodes : Exists(StateAt(page.cap), p)}

OldSize == IF current = NoView THEN 0 ELSE Size(current)

\* The checks on the nodes of a page: duplicates, scope, depth, parents.
NodesFit(j, page) ==
    LET known == {n.path : n \in j.got} IN
    /\ page.nodes \cap known = {}
    /\ \A p \in page.nodes : InView(p) /\ (p = Scope \/ Parent(p) \in known \cup page.nodes)

\* The view so far, with the page.
SizeWith(j, page) == Cardinality(j.got) + Cardinality(page.nodes)

\* Mutants: the pages of two captures are mixed; the old view is not counted.
PageAcceptedFromAnyCapture(j, page) ==
    page.index = j.index /\ NodesFit(j, page) /\ OldSize + SizeWith(j, page) <= ViewBudget
PageAcceptedAlone(j, page) ==
    /\ page.index = j.index
    /\ j.index > 0 => page.cap = j.cap
    /\ NodesFit(j, page)
    /\ SizeWith(j, page) <= ViewBudget

\* The checks on a page: order, capture identity, nodes, budget.
PageAccepted(j, page) ==
    /\ page.index = j.index
    /\ j.index > 0 => page.cap = j.cap
    /\ NodesFit(j, page)
    /\ OldSize + SizeWith(j, page) <= ViewBudget

\* The checks after the last page: the scope's root, and TotalNodes.
TotalNodes(cap) == Cardinality({p \in Paths : Exists(StateAt(cap), p) /\ InView(p)})
\* Mutant: the nodes are not counted.
SnapshotHasRoot(cap, got) == \E n \in got : n.path = Scope

SnapshotComplete(cap, got) ==
    (\E n \in got : n.path = Scope) /\ Cardinality(got) = TotalNodes(cap)

\* The summaries of a page, as the server had them at the page's capture.
Summaries(page) ==
    {[path |-> p, status |-> StateAt(page.cap).tree[p],
      gen |-> IF p = <<>> THEN 0 ELSE StateAt(page.cap).gens[Flow(p)]] : p \in page.nodes}

SnapshotView(cap, got) ==
    LET summary(p) == CHOOSE n \in got : n.path = p
        paths == {n.path : n \in got}
    IN  [id |-> 0, session |-> cap[1], revision |-> cap[2],
         nodes |-> [p \in paths |-> summary(p).status], over |-> EmptyMap,
         gens |-> [f \in {Flow(p) : p \in paths \ {<<>>}} |->
                     (CHOOSE n \in got : n.path # <<>> /\ Flow(n.path) = f).gen],
         stale |-> {}]

ReadSnapshotPage(w) ==
    /\ job[w].pc = "snapshot"
    /\ \E page \in SnapshotPages(job[w]) :
        LET got == job[w].got \cup Summaries(page)
            cap == IF job[w].index = 0 THEN page.cap ELSE job[w].cap
            accepted == PageAccepted(job[w], page)
            complete == page.complete /\ SnapshotComplete(page.cap, got)
        IN  \/ /\ accepted /\ ~page.complete
               /\ job' = [job EXCEPT ![w] = [@ EXCEPT !.got = got, !.index = job[w].index + 1, !.cap = cap]]
               /\ UNCHANGED <<current, lastId, mutex>>
            \/ /\ accepted /\ complete
               /\ Allocate(SnapshotView(cap, got))
               /\ Polling(w, current')
            \/ /\ ~accepted \/ (page.complete /\ ~complete)
               /\ Return(w, "snapshot failed")
               /\ UNCHANGED <<current, lastId>>
    /\ UNCHANGED hist

\* Mutant: an early return that leaves queryMu locked.
SnapshotCallFailsLocked(w) ==
    /\ job[w].pc = "snapshot"
    /\ job' = [job EXCEPT ![w] = [@ EXCEPT !.pc = "done", !.outcome = "snapshot failed",
                                           !.cap = <<0, 0>>, !.got = {}, !.index = 0, !.last = {},
                                           !.replays = 0]]
    /\ UNCHANGED <<hist, current, lastId, mutex>>

\* The call fails, or is answered by a failure document.
SnapshotCallFails(w) ==
    /\ job[w].pc = "snapshot"
    /\ Return(w, "snapshot failed")
    /\ UNCHANGED <<hist, current, lastId>>

----------------------------------------------------------------------------
(***************************************************************************)
(* ReadQuerySince                                                          *)
(***************************************************************************)

\* The view handed in is the published one (the same pointer) and its root is
\* not stale.
SinceAllowed(v) == current.id = v.id /\ ~IsStale(v, Scope)

BeginSince(w) ==
    /\ job[w].pc = "lockSince"
    /\ mutex = Free
    /\ SinceAllowed(job[w].view)
    /\ mutex' = w
    /\ job' = [job EXCEPT ![w] = [@ EXCEPT !.pc = "since", !.polls = job[w].polls - 1, !.index = 0,
                                           !.replays = 0]]
    /\ UNCHANGED <<hist, current, lastId>>

\* A read refused before its mark is deferred, or not begun because the transport
\* does not open or the view has no revision: the view stays as it is.
RefuseSince(w) ==
    /\ job[w].pc = "lockSince"
    /\ mutex = Free
    /\ ~SinceAllowed(job[w].view)
    /\ Return(w, "not current")
    /\ UNCHANGED <<hist, current, lastId>>

SinceNotBegun(w) ==
    /\ job[w].pc = "lockSince"
    /\ mutex = Free
    /\ Return(w, "not begun")
    /\ UNCHANGED <<hist, current, lastId>>

\* markQueryStale, with its test that the view is still the published one.
MarkStale(v, scope) ==
    IF current.id = v.id THEN Allocate([v EXCEPT !.stale = @ \cup {scope}])
                         ELSE UNCHANGED <<current, lastId>>

\* Mutant: no deferred mark.
SinceFailsQuietly(w, outcome) == Return(w, outcome) /\ UNCHANGED <<current, lastId>>

\* An error leaves the deferred mark on the root.
SinceFails(w, outcome) ==
    /\ Return(w, outcome)
    /\ MarkStale(job[w].view, Scope)

\* A page the server can send: of the batch asked for, of a newer batch when the
\* batch was lost, out of place, or of another session.  A server that sends the
\* page asked for says it is the last one exactly when the batch is exhausted.
SincePages(j) ==
    LET v == j.view
        same == IF j.index = 0 THEN Revision ELSE j.cap[2]
    IN  IF Session # v.session
        THEN {[cap |-> ServerHead, index |-> j.index, ops |-> {}, complete |-> TRUE]}
        ELSE UNION {{page \in [cap : {<<Session, t>>}, index : {j.index - 1, j.index, j.index + 1},
                               ops : SUBSET Operations(Session, v.revision, t), complete : BOOLEAN] :
                        /\ page.ops # {} \/ page.complete
                        /\ page.index = j.index /\ t = same =>
                              page.complete = (j.got \cup page.ops = Operations(Session, v.revision, t))} :
                    t \in {same, Revision}}

\* Mutant: tolerated forever.
IsReplayForever(j, page) ==
    /\ j.index > 0 /\ page.index = j.index - 1
    /\ page.cap = j.cap /\ page.ops = j.last /\ ~page.complete

\* An identical copy of the page before, tolerated twice.
IsReplay(j, page) ==
    /\ j.index > 0 /\ page.index = j.index - 1
    /\ page.cap = j.cap /\ page.ops = j.last /\ ~page.complete
    /\ j.replays < 2

SameGeneration(v, o) == Flow(o.path) \in DOMAIN v.gens /\ v.gens[Flow(o.path)] = o.gen

\* Mutants: two batches are mixed; the session is not compared.
BatchIdentityOfFirstPage(j, page) == page.cap[1] = j.view.session /\ page.index = j.index
BatchIdentityOfAnySession(j, page) == page.index = j.index /\ (j.index > 0 => page.cap = j.cap)

BatchIdentity(j, page) ==
    /\ page.cap[1] = j.view.session
    /\ page.index = j.index
    /\ j.index > 0 => page.cap = j.cap

KnownOperation(j, o) ==
    /\ \A q \in j.got : <<q.op, q.path>> # <<o.op, o.path>>
    /\ InView(o.path)
    /\ o.op = "upsert_summary" => HasNode(j.view, o.path)

FlowKept(j, o) ==
    \/ o.op = "invalidate_scope"
    \/ o.op = "upsert_summary" /\ o.path = <<>>
    \/ o.path # <<>> /\ SameGeneration(j.view, o)

SincePageAccepted(j, page) ==
    /\ BatchIdentity(j, page)
    /\ \A o \in page.ops : KnownOperation(j, o) /\ FlowKept(j, o)

PathsOf(ops, op) == {o.path : o \in {q \in ops : q.op = op}}
StatusMap(ops) ==
    [p \in PathsOf(ops, "upsert_summary") |->
        (CHOOSE o \in ops : o.op = "upsert_summary" /\ o.path = p).status]

\* No node was removed: the overrides grow.
WithOverrides(v, t, ops) ==
    [v EXCEPT !.revision = t, !.over = Overlay(v.over, StatusMap(ops)),
              !.stale = @ \cup PathsOf(ops, "invalidate_scope")]
OverridesFit(v, ops) ==
    Cardinality(DOMAIN v.nodes)
      + 2 * Cardinality(DOMAIN v.over \cup PathsOf(ops, "upsert_summary")) <= ViewBudget

\* Some were: the node map is built anew without them.
Remaining(v, ops) == {p \in DOMAIN v.nodes : ~UnderAny(p, PathsOf(ops, "remove_subtree"))}
\* Mutant: the generations are rebuilt from the operations alone.
WithoutRemovedOrFlows(v, t, ops) ==
    LET kept == Remaining(v, ops)
        upserted == Overlay(v.nodes, Overlay(v.over, StatusMap(ops)))
    IN  [v EXCEPT !.revision = t, !.over = EmptyMap,
                  !.nodes = [p \in kept |-> upserted[p]],
                  !.gens = [f \in {} |-> 0],
                  !.stale = {p \in @ \cup PathsOf(ops, "invalidate_scope") :
                                ~UnderAny(p, PathsOf(ops, "remove_subtree"))}]

WithoutRemoved(v, t, ops) ==
    LET kept == Remaining(v, ops)
        upserted == Overlay(v.nodes, Overlay(v.over, StatusMap(ops)))
    IN  [v EXCEPT !.revision = t, !.over = EmptyMap,
                  !.nodes = [p \in kept |-> upserted[p]],
                  !.gens = [f \in DOMAIN v.gens \cap kept |-> v.gens[f]],
                  !.stale = {p \in @ \cup PathsOf(ops, "invalidate_scope") :
                                ~UnderAny(p, PathsOf(ops, "remove_subtree"))}]
RemovalFits(v, ops) ==
    /\ 2 * Size(v) <= ViewBudget
    /\ PathsOf(ops, "upsert_summary") \subseteq Remaining(v, ops)
    /\ Scope \in Remaining(v, ops)
    /\ Size(v) + Cardinality(Remaining(v, ops)) <= ViewBudget

NextView(v, t, ops) ==
    IF PathsOf(ops, "remove_subtree") = {} THEN WithOverrides(v, t, ops) ELSE WithoutRemoved(v, t, ops)
BatchFits(v, ops) ==
    IF PathsOf(ops, "remove_subtree") = {} THEN OverridesFit(v, ops) ELSE RemovalFits(v, ops)

\* Mutant: a stale view is kept.
SinceReturnsStale(w, v) == Polling(w, v)

\* SyncQuery after a since read: a stale view is read again, at once.
SinceReturns(w, v) ==
    IF v.stale = {} THEN Polling(w, v)
    ELSE /\ job' = [job EXCEPT ![w] = [@ EXCEPT !.pc = "lockSnapshot", !.view = v, !.cap = <<0, 0>>,
                                              !.got = {}, !.index = 0, !.last = {}, !.replays = 0]]
         /\ mutex' = Free

\* The whole batch is in: superseded, unchanged, refused by the budget, or published.
ApplyBatch(w, t, ops) ==
    LET v == job[w].view IN
    \/ /\ current.id = v.id /\ t = v.revision
       /\ SinceReturns(w, v)
       /\ UNCHANGED <<current, lastId>>
    \/ /\ current.id = v.id /\ t # v.revision /\ BatchFits(v, ops)
       /\ Allocate(NextView(v, t, ops))
       /\ SinceReturns(w, current')
    \/ /\ current.id # v.id \/ (t # v.revision /\ ~BatchFits(v, ops))
       /\ SinceFails(w, "since failed")

Reason(j, page) ==
    IF BatchIdentity(j, page) /\ \A o \in page.ops : KnownOperation(j, o)
    THEN "flow identity changed" ELSE "since failed"

ReadSincePage(w) ==
    /\ job[w].pc = "since"
    /\ \E page \in SincePages(job[w]) :
        LET j == job[w]
            got == j.got \cup page.ops
            cap == IF j.index = 0 THEN page.cap ELSE j.cap
        IN  \/ /\ IsReplay(j, page)
               /\ job' = [job EXCEPT ![w] = [@ EXCEPT !.replays = job[w].replays + 1]]
               /\ UNCHANGED <<current, lastId, mutex>>
            \/ /\ SincePageAccepted(j, page) /\ ~page.complete
               /\ job' = [job EXCEPT ![w] = [@ EXCEPT !.cap = cap, !.index = job[w].index + 1, !.replays = 0,
                                                      !.got = got, !.last = page.ops]]
               /\ UNCHANGED <<current, lastId, mutex>>
            \/ SincePageAccepted(j, page) /\ page.complete /\ ApplyBatch(w, cap[2], got)
            \/ /\ ~IsReplay(j, page) /\ ~SincePageAccepted(j, page)
               /\ SinceFails(w, Reason(j, page))
    /\ UNCHANGED hist

\* The capabilities call or a since call fails, or is answered by a failure
\* document, by a server without since, or by a reset of another request.
SinceCallFails(w) ==
    /\ job[w].pc = "since"
    /\ SinceFails(w, "since failed")
    /\ UNCHANGED hist

\* The server cannot continue from the view's revision.
SinceReset(w) ==
    /\ job[w].pc = "since"
    /\ \E scope \in Paths : MarkStale(job[w].view, scope)
    /\ job' = [job EXCEPT ![w] = [@ EXCEPT !.pc = "lockSnapshot", !.cap = <<0, 0>>, !.got = {}, !.index = 0,
                                           !.last = {}, !.replays = 0]]
    /\ mutex' = Free
    /\ UNCHANGED hist

\* SyncQuery returns the view of its last read, which may have been replaced.
SyncReturns(w) ==
    /\ job[w].pc = "returning"
    /\ job' = [job EXCEPT ![w] = [@ EXCEPT !.pc = "done", !.outcome = "ok"]]
    /\ UNCHANGED <<hist, current, lastId, mutex>>

----------------------------------------------------------------------------
Worker(w) ==
    \/ BeginSnapshot(w) \/ ReadSnapshotPage(w) \/ SnapshotCallFails(w)
    \/ BeginSince(w) \/ RefuseSince(w) \/ SinceNotBegun(w)
    \/ ReadSincePage(w) \/ SinceCallFails(w) \/ SinceReset(w) \/ SyncReturns(w)

Next == Server \/ \E w \in Workers : Worker(w)

\* A call on a server that does not answer ends at its retry window, so a
\* goroutine that holds the lock, or finds it free, goes on.
Spec == Init /\ [][Next]_vars /\ \A w \in Workers : WF_vars(Worker(w))

----------------------------------------------------------------------------
(***************************************************************************)
(* Properties                                                              *)
(***************************************************************************)

Trees == [tree : [Paths -> Statuses \cup {Absent}], gens : [Flows -> Nat],
          change : [op : {"none", "status", "remove", "add", "replace"}, path : Paths]]

IsStatusMap(f) == DOMAIN f \subseteq Paths /\ f \in [DOMAIN f -> Statuses]
IsView(v) ==
    /\ DOMAIN v = {"id", "session", "revision", "nodes", "over", "gens", "stale"}
    /\ v.id \in Nat /\ v.session \in Nat /\ v.revision \in Nat
    /\ IsStatusMap(v.nodes) /\ IsStatusMap(v.over)
    /\ DOMAIN v.gens \subseteq Flows /\ v.gens \in [DOMAIN v.gens -> Nat]
    /\ v.stale \subseteq Paths

Ops == [op : {"upsert_summary", "remove_subtree", "invalidate_scope"}, path : Paths,
        gen : Nat, status : Statuses \cup {Absent}]
IsJob(j) ==
    /\ j.pc \in {"lockSnapshot", "snapshot", "lockSince", "since", "returning", "done"}
    /\ j.polls \in 0 .. Polls
    /\ j.view = NoView \/ IsView(j.view)
    /\ j.cap \in Nat \X Nat /\ j.index \in Nat /\ j.replays \in 0 .. 2
    /\ j.got \subseteq IF j.pc = "snapshot" THEN [path : Paths, status : Statuses, gen : Nat] ELSE Ops
    /\ j.last \subseteq Ops
    /\ j.outcome \in {"running", "ok", "snapshot failed", "since failed", "not current",
                      "not begun", "flow identity changed"}

\* The variables stay in their types.
TypeOK ==
    /\ hist \in Seq(Seq(Trees))
    /\ current = NoView \/ IsView(current)
    /\ lastId \in Nat
    /\ mutex \in Workers \cup {Free}
    /\ DOMAIN job = Workers /\ \A w \in Workers : IsJob(job[w])

\* queryMu does its work: only its holder is inside a read, and the view that a
\* since read works on stays the published one until the read ends, so that the
\* "superseded query" test of readQuerySince never fails.
OneReadAtATime ==
    \A w \in Workers :
        /\ job[w].pc \in {"snapshot", "since"} <=> mutex = w
        /\ job[w].pc = "since" => current.id = job[w].view.id

\* v holds no node that the server did not have at v's revision with that
\* status, outside the scopes v calls stale.
Matches(v) ==
    LET state == StateAt(<<v.session, v.revision>>) IN
    \A p \in Paths : InView(p) /\ ~IsStale(v, p) =>
        /\ HasNode(v, p) <=> Exists(state, p)
        /\ HasNode(v, p) => Node(v, p) = state.tree[p]
        /\ HasNode(v, p) /\ p # <<>> /\ Flow(p) \in DOMAIN v.gens =>
              v.gens[Flow(p)] = state.gens[Flow(p)]

\* The published view is one revision of the server: whatever pages were lost,
\* sent twice, mixed with another capture or refused, outside the scopes it
\* calls stale it shows the tree of its watermark, complete and with nothing
\* else, and at least the selected scope's root with every node's parent.
ViewIsOneRevision ==
    current # NoView =>
        /\ Matches(current)
        /\ HasNode(current, Scope)
        /\ \A p \in DOMAIN current.nodes \ {Scope} : HasNode(current, Parent(p))

\* What SyncQuery returns (and sync prints) has no stale part: it is the whole
\* selected tree of one revision.
SyncReturnsWholeTree ==
    \A w \in Workers : job[w].outcome = "ok" =>
        job[w].view.stale = {} /\ Matches(job[w].view)

\* The client says that a flow's identity changed only when it did between the
\* view's revision and the batch's.
FlowReallyChanged(j) ==
    \E f \in Flows, r \in 1 .. Len(hist[j.view.session]) :
        /\ r > j.view.revision
        /\ hist[j.view.session][r].gens[f] # StateAt(<<j.view.session, j.view.revision>>).gens[f]

IdentityErrorsAreTrue ==
    \A w \in Workers : job[w].outcome = "flow identity changed" => FlowReallyChanged(job[w])

\* With a scope below its flow there is one other cause: the view has forgotten
\* the flow, which WithoutRemoved does.
FlowForgotten(v) == Len(Scope) > 1 /\ Flow(Scope) \notin DOMAIN v.gens
IdentityErrorsHaveACause ==
    \A w \in Workers : job[w].outcome = "flow identity changed" =>
        FlowReallyChanged(job[w]) \/ FlowForgotten(job[w].view)

\* The view and the one being read beside it stay within the budget.
MemoryIsBounded ==
    /\ OldSize <= ViewBudget
    /\ \A w \in Workers :
          job[w].pc = "snapshot" => OldSize + Cardinality(job[w].got) <= ViewBudget

\* The watermark never goes back: not by a slow read overtaken by another
\* goroutine's, not by a batch applied to a view it was not made for.
WatermarkAdvances ==
    [][current # NoView =>
         \/ current'.session > current.session
         \/ current'.session = current.session /\ current'.revision >= current.revision]_vars

\* A since read that fails after it has begun, that is with its mark deferred,
\* leaves the published view with its nodes and its watermark, and calls all of it
\* stale; one that fails before (RefuseSince, SinceNotBegun) does not touch it.
FailureIsVisible ==
    [][\A w \in Workers :
         job'[w].outcome \in {"since failed", "flow identity changed"} /\ job[w].pc = "since" =>
            /\ <<current'.session, current'.revision>> = <<current.session, current.revision>>
            /\ \A p \in Paths : HasNode(current', p) <=> HasNode(current, p)
            /\ \A p \in Paths : InView(p) => IsStale(current', p)]_vars

\* A call has been given its view when its last read has ended.
Given(j) == j.pc = "returning" \/ j.outcome = "ok"

\* The view as Replica sees it: the selected paths that are not stale.
Copy(v) ==
    [session |-> v.session, revision |-> v.revision,
     shown |-> [p \in {q \in Paths : InView(q) /\ ~IsStale(v, q)} |->
                   IF HasNode(v, p) THEN Node(v, p) ELSE Absent]]
NoCopy == [session |-> 0, revision |-> 0, shown |-> EmptyMap]
SharedCopy == IF lastId = 0 THEN NoCopy ELSE Copy(current)
Taken == [w \in Workers |-> IF Given(job[w]) THEN Copy(job[w].view) ELSE NoCopy]
Results == [w \in Workers |-> IF job[w].outcome = "ok" THEN Copy(job[w].view) ELSE NoCopy]
History == [s \in DOMAIN hist |-> [r \in DOMAIN hist[s] |-> hist[s][r].tree]]

Shared == INSTANCE Replica WITH
    Selected <- {p \in Paths : InView(p)}, Callers <- Workers, Nothing <- NoCopy,
    history <- History, copy <- SharedCopy, taken <- Taken, result <- Results

\* The goroutines share one copy of the server's tree that only moves on, and
\* SyncQuery returns that copy, whole, as it was when the call's last read ended:
\* never a mixture and never one that was not published, though another goroutine
\* may have published a later one before SyncQuery returns.
KeepsReplica == Shared!Spec

\* Goroutines whose calls ended well at one revision have the same tree, and a
\* call whose last read ends after another call's is given no older view.  The
\* calls may return in the other order.
SyncsAgree ==
    \A u, w \in Workers :
        /\ job[u].outcome = "ok" /\ job[w].outcome = "ok"
        /\ <<job[u].view.session, job[u].view.revision>> = <<job[w].view.session, job[w].view.revision>>
        => Copy(job[u].view) = Copy(job[w].view)
NoSyncGoesBack ==
    [][\A u, w \in Workers :
         Given(job[u]) /\ ~Given(job[w]) /\ Given(job'[w]) =>
            \/ job'[w].view.session > job[u].view.session
            \/ /\ job'[w].view.session = job[u].view.session
               /\ job'[w].view.revision >= job[u].view.revision]_vars

\* What a page loop has not seen yet: the paths of a snapshot, the operations of
\* a batch, which differ in kind and path.
PathsLeft(j) == Cardinality(Paths \ {n.path : n \in j.got})
OperationKeys == {"upsert_summary", "remove_subtree", "invalidate_scope"} \X Paths
OperationsLeft(j) == Cardinality(OperationKeys \ {<<o.op, o.path>> : o \in j.got})

\* What is left of a SyncQuery call: it takes at most so many steps more.  A page
\* brings something new, or it is one of two replays of the page before.
LeftOfPoll(j) ==
    IF j.pc = "done" THEN 0
    ELSE IF j.pc = "returning" THEN 1
    ELSE IF j.pc = "lockSince" THEN 2
    ELSE IF j.pc = "snapshot" THEN 3 + PathsLeft(j)
    ELSE IF j.pc = "lockSnapshot" THEN 4 + Cardinality(Paths)
    ELSE 5 + Cardinality(Paths) + 3 * OperationsLeft(j) + (2 - j.replays)
LongestPoll == 6 + Cardinality(Paths) + 3 * Cardinality(OperationKeys)
Left(j) == j.polls * LongestPoll + LeftOfPoll(j)

\* Whatever a server sends, and whatever the other goroutines do, each step of a
\* SyncQuery call brings it closer to its end and no step takes it back: no server
\* can keep it going by pages, replays, resets or stale scopes.
SyncProgresses ==
    [][\A w \in Workers :
         Worker(w) \/ job'[w] # job[w] => Left(job'[w]) < Left(job[w])]_vars

\* Every SyncQuery call returns: the page loops end whatever the server sends.
EverySyncReturns == \A w \in Workers : <>(job[w].pc = "done")

=============================================================================
