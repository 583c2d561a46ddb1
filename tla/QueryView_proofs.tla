-------------------------- MODULE QueryView_proofs --------------------------
(***************************************************************************)
(* queryMu protects the reads of QueryView, for every tree, scope, budget, *)
(* number of goroutines and behaviour of the server.                       *)
(***************************************************************************)
EXTENDS QueryView, TLAPS

Reading == {"snapshot", "since"}

\* The fields of a call that the lock is about exist.
JobShape ==
    /\ DOMAIN job = Workers
    /\ \A w \in Workers : {"pc", "view"} \subseteq DOMAIN job[w]

\* OneReadAtATime with the types its proof needs: it is inductive.
LockInv ==
    /\ JobShape
    /\ mutex \in Workers \cup {Free}
    /\ OneReadAtATime

\* What a step of goroutine w is to the lock.
OthersKept(w) == \A u \in Workers \ {w} : job'[u] = job[u]

Enters(w) ==
    /\ mutex = Free /\ mutex' = w
    /\ job'[w].pc \in Reading
    /\ current' = current
    /\ job'[w].pc = "since" => current.id = job'[w].view.id

Continues(w) ==
    /\ job[w].pc \in Reading
    /\ job'[w].pc = job[w].pc /\ job'[w].view = job[w].view
    /\ UNCHANGED <<mutex, current>>

Leaves(w) ==
    /\ job[w].pc \in Reading \/ mutex = Free
    /\ mutex' = Free
    /\ job'[w].pc \notin Reading

Outside(w) ==
    /\ job[w].pc \notin Reading /\ job'[w].pc \notin Reading
    /\ UNCHANGED <<mutex, current>>

LockStep(w) ==
    JobShape' /\ OthersKept(w) /\ (Enters(w) \/ Continues(w) \/ Leaves(w) \/ Outside(w))

\* A step that enters, continues or leaves a read, or is outside one, keeps the
\* lock invariant.
LEMMA LockStepKeeps ==
    ASSUME LockInv, NEW w \in Workers, LockStep(w)
    PROVE  LockInv'
<1> USE QueryAssumption DEF LockInv, LockStep, OthersKept, OneReadAtATime, Reading
<1>1. CASE Enters(w) BY <1>1 DEF Enters
<1>2. CASE Continues(w) BY <1>2 DEF Continues
<1>3. CASE Leaves(w)
  <2>1. mutex \in {w, Free} BY <1>3 DEF Leaves
  <2>2. \A u \in Workers : job'[u].pc \notin Reading BY <2>1, <1>3 DEF Leaves
  <2> QED BY <2>2, <1>3 DEF Leaves
<1>4. CASE Outside(w) BY <1>4 DEF Outside
<1> QED BY <1>1, <1>2, <1>3, <1>4

----------------------------------------------------------------------------
\* Leaving a read by Return, or by handing a view to SyncQuery.
LEMMA ReturnLeaves ==
    ASSUME JobShape, NEW w \in Workers, NEW outcome, Return(w, outcome),
           job[w].pc \in Reading \/ mutex = Free
    PROVE  LockStep(w)
BY DEF JobShape, Return, LockStep, OthersKept, Leaves, Reading

LEMMA PollingLeaves ==
    ASSUME JobShape, NEW w \in Workers, NEW v, Polling(w, v), job[w].pc \in Reading
    PROVE  LockStep(w)
BY DEF JobShape, Polling, LockStep, OthersKept, Leaves, Reading

LEMMA SinceReturnsLeaves ==
    ASSUME JobShape, NEW w \in Workers, NEW v, SinceReturns(w, v), job[w].pc \in Reading
    PROVE  LockStep(w)
<1>1. CASE v.stale = {} BY <1>1, PollingLeaves DEF SinceReturns
<1>2. CASE v.stale # {}
  BY <1>2 DEF JobShape, SinceReturns, LockStep, OthersKept, Leaves, Reading
<1> QED BY <1>1, <1>2

\* Every step of a goroutine enters a read, continues it, leaves it or is outside
\* one.
LEMMA WorkerLockStep ==
    ASSUME LockInv, NEW w \in Workers, Worker(w)
    PROVE  LockStep(w)
<1> USE DEF LockInv
<1>1. CASE BeginSnapshot(w)
  BY <1>1 DEF BeginSnapshot, JobShape, LockStep, OthersKept, Enters, Reading
<1>2. CASE ReadSnapshotPage(w)
  <2>1. job[w].pc \in Reading BY <1>2 DEF ReadSnapshotPage, Reading
  <2>2. PICK page \in SnapshotPages(job[w]) :
          \/ /\ \E cap : job' = [job EXCEPT ![w] = [@ EXCEPT !.got = job[w].got \cup Summaries(page),
                                                             !.index = job[w].index + 1, !.cap = cap]]
             /\ UNCHANGED <<current, lastId, mutex>>
          \/ Polling(w, current')
          \/ Return(w, "snapshot failed")
    BY <1>2 DEF ReadSnapshotPage
  <2> QED
    BY <2>1, <2>2, PollingLeaves, ReturnLeaves DEF JobShape, LockStep, OthersKept, Continues
<1>3. CASE SnapshotCallFails(w)
  BY <1>3, ReturnLeaves DEF SnapshotCallFails, Reading
<1>4. CASE BeginSince(w)
  BY <1>4 DEF BeginSince, SinceAllowed, JobShape, LockStep, OthersKept, Enters, Reading
<1>5. CASE RefuseSince(w)
  BY <1>5, ReturnLeaves DEF RefuseSince
<1>6. CASE ReadSincePage(w)
  <2>1. job[w].pc \in Reading BY <1>6 DEF ReadSincePage, Reading
  <2>2. PICK page \in SincePages(job[w]) :
          \/ /\ job' = [job EXCEPT ![w] = [@ EXCEPT !.replays = job[w].replays + 1]]
             /\ UNCHANGED <<current, lastId, mutex>>
          \/ /\ \E cap : job' = [job EXCEPT ![w] = [@ EXCEPT !.cap = cap, !.index = job[w].index + 1,
                                                             !.replays = 0,
                                                             !.got = job[w].got \cup page.ops,
                                                             !.last = page.ops]]
             /\ UNCHANGED <<current, lastId, mutex>>
          \/ \E t : ApplyBatch(w, t, job[w].got \cup page.ops)
          \/ SinceFails(w, Reason(job[w], page))
    BY <1>6 DEF ReadSincePage
  <2>3. CASE \E t : ApplyBatch(w, t, job[w].got \cup page.ops)
    BY <2>1, <2>3, SinceReturnsLeaves, ReturnLeaves DEF ApplyBatch, SinceFails
  <2>4. CASE SinceFails(w, Reason(job[w], page))
    BY <2>1, <2>4, ReturnLeaves DEF SinceFails
  <2> QED BY <2>1, <2>2, <2>3, <2>4 DEF JobShape, LockStep, OthersKept, Continues
<1>7. CASE SinceCallFails(w)
  BY <1>7, ReturnLeaves DEF SinceCallFails, SinceFails, Reading
<1>8. CASE SinceReset(w)
  BY <1>8 DEF SinceReset, JobShape, LockStep, OthersKept, Leaves, Reading
<1>9. CASE SinceNotBegun(w)
  BY <1>9, ReturnLeaves DEF SinceNotBegun
<1>10. CASE SyncReturns(w)
  BY <1>10 DEF SyncReturns, JobShape, LockStep, OthersKept, Outside, Reading
<1> QED BY <1>1, <1>2, <1>3, <1>4, <1>5, <1>6, <1>7, <1>8, <1>9, <1>10 DEF Worker

\* The server's steps touch nothing of the client's.
LEMMA ServerKeepsClient ==
    ASSUME Server PROVE UNCHANGED <<current, lastId, mutex, job>>
<1>1. ASSUME NEW p, NEW s, ServerUpdates(p, s) PROVE UNCHANGED <<current, lastId, mutex, job>>
  BY <1>1 DEF ServerUpdates, Commit
<1>2. ASSUME NEW p, NEW s, ServerAdds(p, s) PROVE UNCHANGED <<current, lastId, mutex, job>>
  BY <1>2 DEF ServerAdds, Commit
<1>3. ASSUME NEW p, ServerRemoves(p) PROVE UNCHANGED <<current, lastId, mutex, job>>
  BY <1>3 DEF ServerRemoves, Commit
<1>4. ASSUME NEW f, NEW s, ServerReplaces(f, s) PROVE UNCHANGED <<current, lastId, mutex, job>>
  BY <1>4 DEF ServerReplaces, Commit
<1>5. ServerRestarts => UNCHANGED <<current, lastId, mutex, job>> BY DEF ServerRestarts
<1> QED BY <1>1, <1>2, <1>3, <1>4, <1>5 DEF Server

LEMMA LockInvInit == Init => LockInv
BY QueryAssumption DEF Init, Idle, LockInv, JobShape, OneReadAtATime

LEMMA LockInvStep == LockInv /\ [Next]_vars => LockInv'
<1> SUFFICES ASSUME LockInv, [Next]_vars PROVE LockInv' OBVIOUS
<1>1. ASSUME UNCHANGED <<current, lastId, mutex, job>> PROVE LockInv'
  BY <1>1 DEF LockInv, JobShape, OneReadAtATime
<1>2. CASE Server BY <1>1, <1>2, ServerKeepsClient
<1>3. CASE \E w \in Workers : Worker(w) BY <1>3, WorkerLockStep, LockStepKeeps
<1>4. CASE UNCHANGED vars BY <1>1, <1>4 DEF vars
<1> QED BY <1>2, <1>3, <1>4 DEF Next

\* The inductive invariant of queryMu.
THEOREM LockSafe == Spec => []LockInv
BY LockInvInit, LockInvStep, PTL DEF Spec

\* Only the holder of queryMu is inside a read, and the view a since read works
\* on is the published one until the read ends (ReadQuerySnapshot,
\* ReadQuerySince).
THEOREM ReadsExclude == Spec => []OneReadAtATime
<1>1. LockInv => OneReadAtATime BY DEF LockInv
<1> QED BY <1>1, LockSafe, PTL
=============================================================================
