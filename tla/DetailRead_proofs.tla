-------------------------- MODULE DetailRead_proofs --------------------------
(***************************************************************************)
(* Proofs about DetailRead, for every tree, set of groups, size and bound  *)
(* that DetailAssumption allows: the output is all or nothing, every row   *)
(* is a sample of the node of the view, and the work is bounded.           *)
(***************************************************************************)
EXTENDS DetailRead, TLAPS, FiniteSetTheorems

----------------------------------------------------------------------------
(***************************************************************************)
(* All or nothing                                                          *)
(***************************************************************************)

\* Before the end nothing is put out, and the copy starts with all the rows.
StagingInv ==
    /\ pc = "begin" => staged = <<>>
    /\ pc # "done" => outcome = "running"
    /\ outcome \in {"running", "failed"} => output = <<>>
    /\ outcome \in {"running", "failed", "ok", "write failed"}
    /\ pc = "copy" => Len(staged) = Len(plan)

AllOrNothingInv == StagingInv /\ AllOrNothing

\* The invariant holds at the beginning.
LEMMA StagedInit == Init => AllOrNothingInv
BY DEF Init, AllOrNothingInv, StagingInv, AllOrNothing

\* A failure keeps the output as it is, which is empty.
LEMMA FailKeepsStaging == ASSUME AllOrNothingInv, pc # "done", Fail PROVE AllOrNothingInv'
BY DEF AllOrNothingInv, StagingInv, AllOrNothing, Fail

\* A read that begins has staged nothing.
LEMMA BeginKeepsStaging ==
    ASSUME AllOrNothingInv, pc = "begin", NEW v, NEW rows, Begin(v, rows) PROVE AllOrNothingInv'
BY DEF AllOrNothingInv, StagingInv, AllOrNothing, Begin

\* A row that is staged is not put out, and the copy begins after the last one.
LEMMA StageKeepsStaging ==
    ASSUME AllOrNothingInv, pc \in {"row", "blob"}, NEW values, Stage(values) PROVE AllOrNothingInv'
BY DEF AllOrNothingInv, StagingInv, AllOrNothing, Stage

\* No step of the server, the client or nobody puts out a part of the rows.
LEMMA StagedNext == AllOrNothingInv /\ [Next]_vars => AllOrNothingInv'
<1> SUFFICES ASSUME AllOrNothingInv, [Next]_vars PROVE AllOrNothingInv'
  OBVIOUS
<1> USE DEF AllOrNothingInv, StagingInv, AllOrNothing
<1>1. CASE Server
  BY <1>1 DEF Server, ServerUpdates, ServerStartsAttempt, ServerReplaces, ServerRestarts, Commit
<1>2. CASE UNCHANGED vars
  BY <1>2 DEF vars
<1>3. CASE BeginShow
  BY <1>3, BeginKeepsStaging, FailKeepsStaging DEF BeginShow
<1>4. CASE BeginSyncShow
  BY <1>4, BeginKeepsStaging DEF BeginSyncShow
<1>5. CASE BeginDetail
  BY <1>5, BeginKeepsStaging, FailKeepsStaging DEF BeginDetail
<1>6. CASE BeginFails \/ DetailCallFails \/ RefuseRef \/ ChunkCallFails \/ StagingFails
  BY <1>6, FailKeepsStaging
     DEF BeginFails, DetailCallFails, RefuseRef, ChunkCallFails, StagingFails
<1>7. CASE PrintSummary
  BY <1>7, StageKeepsStaging DEF PrintSummary
<1>8. CASE ReadDetail
  <2>1. CASE pc = "row" /\ Fail
    BY <2>1, FailKeepsStaging
  <2>2. CASE pc = "row" /\ \E values : Stage(values)
    BY <2>2, StageKeepsStaging
  <2>3. CASE pc = "row" /\ pc' = "blob" /\ UNCHANGED <<hist, view, plan, data, staged, output, entry, outcome>>
    BY <2>3
  <2> QED
    BY <1>8, <2>1, <2>2, <2>3 DEF ReadDetail
<1>9. CASE ReadChunk
  <2>1. CASE pc = "blob" /\ Fail
    BY <2>1, FailKeepsStaging
  <2>2. CASE pc = "blob" /\ \E values : Stage(values)
    BY <2>2, StageKeepsStaging
  <2>3. CASE pc = "blob" /\ UNCHANGED <<plan, staged, output, pc, outcome>>
    BY <2>3
  <2>4. ASSUME NEW bytes, Resolve(bytes)
        PROVE (\E values : Stage(values)) \/ UNCHANGED <<plan, staged, output, pc, outcome>>
    BY <2>4 DEF Resolve
  <2> QED
    BY <1>9, <2>1, <2>2, <2>3, <2>4 DEF ReadChunk
<1>10. CASE Copy
  BY <1>10 DEF Copy, Deliver
<1>11. CASE CopyFails
  BY <1>11 DEF CopyFails, Deliver
<1> QED
  BY <1>1, <1>2, <1>3, <1>4, <1>5, <1>6, <1>7, <1>8, <1>9, <1>10, <1>11 DEF Next, Client

\* The caller gets all the rows, or an error and none, unless the copy itself
\* breaks (RunInitialQueryShow, RunQuerySyncShow, ReadQueryDetail).
THEOREM OutputIsAllOrNothing == Spec => []AllOrNothing
<1>1. AllOrNothingInv => AllOrNothing
  BY DEF AllOrNothingInv
<1> QED
  BY StagedInit, StagedNext, <1>1, PTL DEF Spec

----------------------------------------------------------------------------
(***************************************************************************)
(* Every row is a sample                                                   *)
(***************************************************************************)

\* A row is missing while one is made, and none is there at the beginning.
PlaceInv ==
    /\ pc = "begin" => staged = <<>>
    /\ pc \in {"row", "blob"} => Len(staged) < Len(plan)

\* values are what the target had in the k-th state of the server, but for those
\* that one of refs will bring.
PartlySampled(k, values, refs) ==
    /\ Target.groups # {} => SameNode(hist[k], Target.node)
    /\ \A i \in DOMAIN refs : refs[i][2] = hist[k].content[Target.node]
    /\ \A g \in DOMAIN values :
          \/ values[g] = <<g, hist[k].content[Target.node]>>
          \/ \E i \in DOMAIN refs : refs[i][1] = g

\* The detail under way is part of one sample, and lacks what its refs name.
BlobInv ==
    pc = "blob" =>
        /\ detail.refs # <<>>
        /\ DOMAIN detail.values = Target.groups
        /\ \E k \in DOMAIN hist : PartlySampled(k, detail.values, detail.refs)

SampleInv == TypeOK /\ PlaceInv /\ BlobInv /\ RowsAreSamples

\* A text says the field it was made of: every field has at least one byte.
LEMMA DecodedText == ASSUME NEW f \in Fields PROVE Decoded(Bytes(f)) = f
<1>1. \A g \in Fields : FieldSize(g) \in Nat \ {0}
  BY DetailAssumption DEF Fields, FieldSize
<1>2. \A g \in Fields : 1 \in DOMAIN Bytes(g) /\ Bytes(g)[1] = <<g, 1>>
  BY <1>1 DEF Bytes
<1>3. \A g \in Fields : Bytes(f) = Bytes(g) => g = f
  BY <1>2
<1> QED
  BY <1>3 DEF Decoded

\* Nodes and flows are what Order and FlowOf say.
LEMMA TreeTypes ==
    /\ Order \in Seq(Nodes)
    /\ \A n \in Nodes \ {Root} : FlowOf[n] \in Flows
BY DetailAssumption DEF Flows

\* The empty detail has its type at any time.
LEMMA NoDetailType ==
    NoDetail \in Details
<1>1. [g \in {} |-> Pending] \in ValueMaps(Fields \cup {Pending})
  BY DEF ValueMaps
<1> QED
  BY <1>1 DEF NoDetail, Details

\* The first state, the first view and the first detail have their types.
LEMMA SampleInit == Init => SampleInv
<1> SUFFICES ASSUME Init PROVE SampleInv
  OBVIOUS
<1>1. InitialState \in States
  BY DetailAssumption DEF InitialState, States
<1> QED
  BY <1>1, NoDetailType DEF Init, SampleInv, TypeOK, PlaceInv, BlobInv, RowsAreSamples

\* A new state of the server leaves the samples of the old ones.
LEMMA CommitKeepsSamples ==
    ASSUME SampleInv, NEW state \in States, Commit(state) PROVE SampleInv'
<1> USE DEF SampleInv
<1>1. hist' = Append(hist, state) /\ hist \in Seq(States)
  BY DEF Commit, TypeOK
<1>2. hist' \in Seq(States) /\ hist' # <<>> /\ DOMAIN hist \subseteq DOMAIN hist'
  BY <1>1
<1>3. \A k \in DOMAIN hist : hist'[k] = hist[k]
  BY <1>1
<1>4. TypeOK'
  BY <1>2 DEF TypeOK, Commit
<1>5. PlaceInv'
  BY DEF PlaceInv, Commit
<1>6. Target' = Target
  BY DEF Target, Commit
<1>7. BlobInv'
  BY <1>2, <1>3, <1>6 DEF BlobInv, PartlySampled, SameNode, SameFlow, Commit
<1>8. RowsAreSamples'
  BY <1>2, <1>3 DEF RowsAreSamples, IsSample, SameNode, SameFlow, Commit
<1> QED
  BY <1>4, <1>5, <1>7, <1>8

\* There is a present state of the server.
LEMMA NowType == ASSUME SampleInv PROVE Len(hist) \in DOMAIN hist /\ Now \in States
<1>1. hist \in Seq(States) /\ hist # <<>>
  BY DEF SampleInv, TypeOK
<1> QED
  BY <1>1 DEF Now

\* The server's states keep their type.
LEMMA ServerKeepsSamples == ASSUME SampleInv, Server PROVE SampleInv'
<1>1. Now \in States
  BY NowType
<1>2. ASSUME NEW n \in Nodes, NEW v \in Contents, ServerUpdates(n, v) PROVE SampleInv'
  <2>1. [Now EXCEPT !.content[n] = v] \in States
    BY <1>1 DEF States
  <2> QED
    BY <1>2, <2>1, CommitKeepsSamples DEF ServerUpdates
<1>3. ASSUME NEW n \in Nodes, ServerStartsAttempt(n) PROVE SampleInv'
  <2>1. [Now EXCEPT !.attempts[n] = @ + 1] \in States
    BY <1>1 DEF States
  <2> QED
    BY <1>3, <2>1, CommitKeepsSamples DEF ServerStartsAttempt
<1>4. ASSUME NEW f \in Flows, NEW v \in Contents, ServerReplaces(f, v) PROVE SampleInv'
  <2> DEFINE replaced(n) == n # Root /\ FlowOf[n] = f
             state == [session |-> Now.session, gens |-> [Now.gens EXCEPT ![f] = @ + 1],
                       attempts |-> [n \in Nodes |-> IF replaced(n) THEN 0 ELSE Now.attempts[n]],
                       content |-> [n \in Nodes |-> IF replaced(n) THEN v ELSE Now.content[n]]]
  <2>1. state \in States
    BY <1>1 DEF States
  <2>2. Commit(state)
    BY <1>4 DEF ServerReplaces
  <2> QED
    BY <2>1, <2>2, CommitKeepsSamples
<1>5. CASE ServerRestarts
  <2>1. [Now EXCEPT !.session = @ + 1, !.gens = [f \in Flows |-> 1]] \in States
    <3>1. [f \in Flows |-> 1] \in [Flows -> Nat] /\ Now.session + 1 \in Nat
      BY <1>1 DEF States
    <3> DEFINE gens == [f \in Flows |-> 1]
    <3> HIDE DEF gens
    <3>2. [Now EXCEPT !.session = @ + 1, !.gens = gens] \in States
      BY <1>1, <3>1 DEF States, gens
    <3> QED
      BY <3>2 DEF gens
  <2> QED
    BY <1>5, <2>1, CommitKeepsSamples DEF ServerRestarts
<1> QED
  BY <1>2, <1>3, <1>4, <1>5 DEF Server

\* A failure stages no row.
LEMMA FailKeepsSamples == ASSUME SampleInv, calls' \in Nat, Fail PROVE SampleInv'
<1> USE DEF SampleInv
<1>1. TypeOK'
  <2>1. UNCHANGED <<hist, view, plan, staged, output, entry>>
    BY DEF Fail
  <2>2. detail' \in Details
    BY NoDetailType DEF Fail
  <2>3. data' \in Seq(Fields \X Nat) /\ pc' = "done" /\ outcome' = "failed"
    BY DEF Fail
  <2> QED
    BY <2>1, <2>2, <2>3 DEF TypeOK
<1>2. RowsAreSamples'
  BY DEF RowsAreSamples, IsSample, SameNode, SameFlow, Fail
<1> QED
  BY <1>1, <1>2 DEF PlaceInv, BlobInv, Fail

----------------------------------------------------------------------------
\* A read that begins has no rows yet.
LEMMA BeginKeepsSamples ==
    ASSUME SampleInv, pc = "begin", UNCHANGED calls, NEW v \in Views,
           NEW rows \in Seq(PlannedRows), Begin(v, rows)
    PROVE  SampleInv'
<1>1. staged = <<>> /\ staged' = <<>> /\ pc' \in {"copy", "row"} /\ (pc' = "row" => rows # <<>>)
  BY DEF SampleInv, PlaceInv, Begin
<1>2. Len(rows) \in Nat /\ (rows # <<>> => Len(rows) > 0)
  OBVIOUS
<1>3. TypeOK'
  <2>1. view' = v /\ plan' = rows /\ UNCHANGED <<hist, detail, data, staged, output, calls, entry, outcome>>
    BY DEF Begin
  <2>2. Len(staged') <= Len(plan')
    BY <1>1, <1>2, <2>1
  <2> QED
    BY <1>1, <2>1, <2>2 DEF SampleInv, TypeOK
<1>4. PlaceInv'
  BY <1>1, <1>2 DEF PlaceInv, Begin
<1>5. BlobInv' /\ RowsAreSamples'
  BY <1>1 DEF BlobInv, RowsAreSamples
<1> QED
  BY <1>3, <1>4, <1>5 DEF SampleInv

\* A view of the present has its type, and so have the rows to print of it.
LEMMA ViewType ==
    ASSUME SampleInv, NEW first \in DOMAIN Order, NEW last \in first .. Len(Order), NEW stale \in SUBSET Nodes
    PROVE  /\ ViewOf(first, last, stale) \in Views
           /\ ViewOf(first, last, stale).order # <<>>
<1>1. Now \in States
  BY NowType
<1>2. SubSeq(Order, first, last) \in Seq(Nodes) /\ Len(SubSeq(Order, first, last)) # 0
  BY TreeTypes
<1>3. SubSeq(Order, first, last) # <<>>
  <2>1. Len(<<>>) = 0
    OBVIOUS
  <2> QED
    BY <1>2, <2>1, Zenon
<1>4. Now.session \in Nat /\ Now.gens \in [Flows -> Nat] /\ Now.attempts \in [Nodes -> Nat]
  BY <1>1 DEF States
<1> QED
  BY <1>2, <1>3, <1>4 DEF ViewOf, Views

LEMMA RowsType ==
    ASSUME NEW order \in Seq(Nodes), NEW groups \in SUBSET Groups, order # <<>>
    PROVE  Rows(order, groups) \in Seq(PlannedRows)
<1> DEFINE asked(n) == IF n = Root THEN groups \cap {"parameters"} ELSE groups
           skipped == IF order[1] = Root /\ "parameters" \notin groups THEN 1 ELSE 0
           row(i) == [node |-> order[i + skipped], groups |-> asked(order[i + skipped])]
<1>1. skipped \in 0 .. 1 /\ Len(order) - skipped \in Nat
  OBVIOUS
<1>2. \A i \in 1 .. Len(order) - skipped : order[i + skipped] \in Nodes
  BY <1>1
<1>3. \A i \in 1 .. Len(order) - skipped : row(i) \in PlannedRows
  BY <1>2 DEF PlannedRows
<1>4. Rows(order, groups) = [i \in 1 .. Len(order) - skipped |-> row(i)]
  BY DEF Rows
<1> HIDE DEF row, skipped
<1> QED
  BY <1>1, <1>3, <1>4

\* What is asked of the target, while there is one.
LEMMA TargetType ==
    ASSUME SampleInv, pc \in {"row", "blob"}
    PROVE  /\ Len(staged) \in Nat /\ Len(plan) \in Nat /\ Len(staged) < Len(plan)
           /\ Target \in PlannedRows /\ Target.node \in Nodes /\ Target.groups \in SUBSET Groups
<1>1. plan \in Seq(PlannedRows) /\ staged \in Seq(StagedRows) /\ Len(staged) < Len(plan)
  BY DEF SampleInv, TypeOK, PlaceInv
<1>2. Len(staged) \in Nat /\ Len(plan) \in Nat
  BY <1>1
<1>3. Target \in PlannedRows
  BY <1>1, <1>2 DEF Target
<1> QED
  BY <1>1, <1>2, <1>3 DEF PlannedRows

\* A row whose fields are all of one state of the server can be staged.
LEMMA StageKeepsSamples ==
    ASSUME SampleInv, pc \in {"row", "blob"}, calls' \in Nat,
           NEW values \in ValueMaps(Fields \cup {Pending}), DOMAIN values = Target.groups,
           NEW k \in DOMAIN hist, PartlySampled(k, values, <<>>), Stage(values)
    PROVE  SampleInv'
<1>1. hist \in Seq(States) /\ staged \in Seq(StagedRows)
  BY DEF SampleInv, TypeOK
<1>2. /\ Len(staged) \in Nat /\ Len(plan) \in Nat /\ Len(staged) < Len(plan)
      /\ Target.node \in Nodes /\ Target.groups \in SUBSET Groups
  BY TargetType
<1>3. hist[k].content[Target.node] \in Contents
  <2>1. hist[k] \in States
    BY <1>1
  <2> QED
    BY <1>2, <2>1 DEF States
<1>4. \A g \in DOMAIN values : values[g] = <<g, hist[k].content[Target.node]>>
  BY DEF PartlySampled
<1>5. values \in ValueMaps(Fields)
  <2>1. values \in [Target.groups -> Fields \cup {Pending}]
    BY DEF ValueMaps
  <2>2. \A g \in Target.groups : <<g, hist[k].content[Target.node]>> \in Fields
    BY <1>2, <1>3 DEF Fields
  <2>3. \A g \in Target.groups : values[g] \in Fields
    BY <1>4, <2>2
  <2> QED
    BY <1>2, <2>1, <2>3 DEF ValueMaps
<1>6. Row(values) \in StagedRows
  BY <1>2, <1>5 DEF Row, StagedRows
<1>7. /\ staged' = Append(staged, Row(values))
      /\ staged' \in Seq(StagedRows)
      /\ Len(staged') = Len(staged) + 1
      /\ DOMAIN staged' = DOMAIN staged \cup {Len(staged) + 1}
      /\ \A i \in DOMAIN staged : staged'[i] = staged[i]
      /\ staged'[Len(staged) + 1] = Row(values)
  BY <1>1, <1>6 DEF Stage
<1>8. /\ UNCHANGED <<hist, view, plan, output, entry, outcome>>
      /\ pc' = IF Len(staged') = Len(plan) THEN "copy" ELSE "row"
      /\ detail' = NoDetail /\ data' = <<>>
  BY DEF Stage
<1>9. TypeOK'
  <2>1. Len(staged') <= Len(plan) /\ Len(plan) \in Nat
    BY <1>2, <1>7
  <2>2. detail' \in Details /\ data' \in Seq(Fields \X Nat) /\ pc' \in {"copy", "row"}
    BY <1>8, NoDetailType
  <2>3. plan' = plan /\ UNCHANGED <<hist, view, output, entry, outcome>>
    BY <1>8
  <2> QED
    BY <1>7, <2>1, <2>2, <2>3 DEF SampleInv, TypeOK
<1>10. PlaceInv' /\ BlobInv'
  BY <1>2, <1>7, <1>8 DEF PlaceInv, BlobInv
<1>11. IsSample(Row(values), Len(staged) + 1)
  BY <1>4 DEF IsSample, Row, PartlySampled, Target
<1>12. RowsAreSamples'
  <2>1. \A i \in DOMAIN staged' : IsSample(staged'[i], i)
    BY <1>7, <1>11 DEF SampleInv, RowsAreSamples
  <2> QED
    BY <1>8, <2>1 DEF RowsAreSamples, IsSample, SameNode, SameFlow
<1> QED
  BY <1>9, <1>10, <1>12 DEF SampleInv

\* A summary row has no fields to be samples.
LEMMA PrintSummaryKeepsSamples == ASSUME SampleInv, PrintSummary PROVE SampleInv'
<1> DEFINE none == [g \in {} |-> Pending]
<1>1. none \in ValueMaps(Fields \cup {Pending}) /\ DOMAIN none = {}
  BY DEF ValueMaps
<1>2. Len(hist) \in DOMAIN hist /\ calls \in Nat
  BY NowType DEF SampleInv, TypeOK
<1>3. PartlySampled(Len(hist), none, <<>>)
  BY <1>1 DEF PartlySampled, PrintSummary
<1> HIDE DEF none
<1> QED
  BY <1>1, <1>2, <1>3, StageKeepsSamples DEF PrintSummary, none

\* A detail that fits is a sample of the present, but for the fields its refs name.
LEMMA FittingIsSampled ==
    ASSUME SampleInv, pc = "row", NEW a \in DetailAnswers, DetailFits(a)
    PROVE  /\ Sampled(a) \in ValueMaps(Fields \cup {Pending})
           /\ DOMAIN Sampled(a) = Target.groups
           /\ Refs(a) \in Seq(Fields)
           /\ (Refs(a) = <<>>) <=> (a.refs = <<>>)
           /\ PartlySampled(Len(hist), Sampled(a), Refs(a))
<1>1. Now \in States
  BY NowType, TargetType
<1>2. a.node \in Nodes /\ a.groups \in SUBSET Groups
  BY DEF DetailAnswers
<1>3. a.refs \in Seq(Groups)
  BY DEF DetailAnswers, BoundedSeq, SeqOf
<1>4. Now.content[a.node] \in Contents
  BY <1>1, <1>2 DEF States
<1>5. DOMAIN a.refs = 1 .. Len(a.refs) /\ Len(a.refs) \in Nat /\ \A i \in DOMAIN a.refs : a.refs[i] \in Groups
  BY <1>3
<1>6. /\ Refs(a) \in Seq(Fields) /\ DOMAIN Refs(a) = DOMAIN a.refs
      /\ \A i \in DOMAIN a.refs : Refs(a)[i] = <<a.refs[i], Now.content[a.node]>>
  <2>1. \A i \in DOMAIN a.refs : <<a.refs[i], Now.content[a.node]>> \in Fields
    BY <1>4, <1>5 DEF Fields
  <2> QED
    BY <1>5, <2>1 DEF Refs
<1>7. (Refs(a) = <<>>) <=> (a.refs = <<>>)
  BY <1>3, <1>5, <1>6
<1>8. Sampled(a) \in [a.groups -> Fields \cup {Pending}]
  BY <1>2, <1>4 DEF Sampled, Fields
<1>9. a.node = Target.node /\ a.groups = Target.groups /\ SameNode(hist[Len(hist)], Target.node)
  BY DEF DetailFits, Now
<1>10. PartlySampled(Len(hist), Sampled(a), Refs(a))
  <2>1. \A i \in DOMAIN Refs(a) : Refs(a)[i][2] = hist[Len(hist)].content[Target.node]
    BY <1>6, <1>9 DEF Now
  <2>2. ASSUME NEW g \in DOMAIN Sampled(a)
        PROVE  \/ Sampled(a)[g] = <<g, hist[Len(hist)].content[Target.node]>>
               \/ \E i \in DOMAIN Refs(a) : Refs(a)[i][1] = g
    <3>1. CASE g \in ToSet(a.refs)
      BY <1>6, <3>1 DEF ToSet
    <3>2. CASE g \notin ToSet(a.refs)
      BY <1>9, <3>2 DEF Sampled, Now
    <3> QED
      BY <3>1, <3>2
  <2> QED
    BY <1>9, <2>1, <2>2 DEF PartlySampled
<1> QED
  BY <1>2, <1>6, <1>7, <1>8, <1>9, <1>10 DEF ValueMaps

\* A step that stages no row keeps the samples of the rows.
LEMMA FrameKeepsSamples ==
    ASSUME SampleInv, UNCHANGED <<hist, view, plan, staged, output, entry, outcome>>,
           calls' \in Nat, detail' \in Details, data' \in Seq(Fields \X Nat), pc \in {"row", "blob"}, pc' = "blob"
    PROVE  TypeOK' /\ PlaceInv' /\ RowsAreSamples' /\ Target' = Target
<1>1. TypeOK'
  BY DEF SampleInv, TypeOK
<1>2. PlaceInv' /\ Target' = Target
  BY DEF SampleInv, PlaceInv, Target
<1>3. RowsAreSamples'
  BY DEF SampleInv, RowsAreSamples, IsSample, SameNode, SameFlow
<1> QED
  BY <1>1, <1>2, <1>3

\* The detail under way is part of a sample when this is so in one state.
LEMMA BlobInvNext ==
    ASSUME UNCHANGED <<hist, view>>, Target' = Target, detail'.refs # <<>>,
           DOMAIN detail'.values = Target.groups,
           NEW k \in DOMAIN hist, PartlySampled(k, detail'.values, detail'.refs)
    PROVE  BlobInv'
BY DEF BlobInv, PartlySampled, SameNode, SameFlow

\* The rest of a sequence of more than one element.
LEMMA TailFacts ==
    ASSUME NEW S, NEW s \in Seq(S), Len(s) # 0, Len(s) # 1
    PROVE  /\ Tail(s) \in Seq(S) /\ Tail(s) # <<>>
           /\ \A i \in DOMAIN Tail(s) : i + 1 \in DOMAIN s /\ Tail(s)[i] = s[i + 1]
           /\ \A i \in DOMAIN s : i = 1 \/ (i - 1 \in DOMAIN Tail(s) /\ Tail(s)[i - 1] = s[i])
<1>1. Tail(s) \in Seq(S) /\ Len(Tail(s)) = Len(s) - 1 /\ Len(s) \in Nat
  OBVIOUS
<1>2. DOMAIN Tail(s) = 1 .. Len(s) - 1 /\ DOMAIN s = 1 .. Len(s)
  BY <1>1
<1>3. \A i \in 1 .. Len(s) - 1 : Tail(s)[i] = s[i + 1]
  OBVIOUS
<1>4. Tail(s) # <<>>
  <2>1. Len(Tail(s)) # 0 /\ Len(<<>>) = 0
    BY <1>1
  <2> QED
    BY <2>1, Zenon
<1> QED
  BY <1>1, <1>2, <1>3, <1>4

\* A detail is the row, or waits for its blobs, or ends the read.
LEMMA ReadDetailKeepsSamples == ASSUME SampleInv, ReadDetail PROVE SampleInv'
<1>1. pc = "row" /\ Len(hist) \in DOMAIN hist /\ data \in Seq(Fields \X Nat) /\ calls' \in Nat
  <2>1. calls \in Nat /\ data \in Seq(Fields \X Nat)
    BY DEF SampleInv, TypeOK
  <2> QED
    BY <2>1, NowType DEF ReadDetail
<1>2. ASSUME NEW a \in FittingAnswers, a.refs = <<>>, Stage(Sampled(a)) PROVE SampleInv'
  <2>1. a \in DetailAnswers /\ DetailFits(a)
    BY DEF FittingAnswers
  <2>2. PartlySampled(Len(hist), Sampled(a), <<>>)
    BY <1>1, <1>2, <2>1, FittingIsSampled
  <2> QED
    BY <1>1, <1>2, <2>1, <2>2, FittingIsSampled, StageKeepsSamples
<1>3. ASSUME NEW a \in FittingAnswers, a.refs # <<>>, pc' = "blob",
             detail' = [values |-> Sampled(a), refs |-> Refs(a), seen |-> {}],
             UNCHANGED <<hist, view, plan, data, staged, output, entry, outcome>>
      PROVE  SampleInv'
  <2>1. a \in DetailAnswers /\ DetailFits(a)
    BY DEF FittingAnswers
  <2>2. /\ detail'.values = Sampled(a) /\ detail'.refs = Refs(a)
        /\ Sampled(a) \in ValueMaps(Fields \cup {Pending}) /\ DOMAIN Sampled(a) = Target.groups
        /\ Refs(a) \in Seq(Fields) /\ Refs(a) # <<>>
        /\ PartlySampled(Len(hist), Sampled(a), Refs(a))
    BY <1>1, <1>3, <2>1, FittingIsSampled
  <2>3. detail' \in Details
    BY <1>3, <2>2 DEF Details
  <2>4. TypeOK' /\ PlaceInv' /\ RowsAreSamples' /\ Target' = Target
    BY <1>1, <1>3, <2>3, FrameKeepsSamples
  <2>5. BlobInv'
    BY <1>1, <1>3, <2>2, <2>4, BlobInvNext
  <2> QED
    BY <2>4, <2>5 DEF SampleInv
<1>4. CASE Fail
  BY <1>1, <1>4, FailKeepsSamples
<1> QED
  BY <1>2, <1>3, <1>4 DEF ReadDetail

\* A ref whose text has the digest it promised brings its field of the sample.
LEMMA ResolveKeepsSamples ==
    ASSUME SampleInv, pc = "blob", calls' \in Nat, Resolve(Bytes(Ref)) PROVE SampleInv'
<1> DEFINE values == [detail.values EXCEPT ![Ref[1]] = Ref]
<1>1. /\ detail.values \in ValueMaps(Fields \cup {Pending}) /\ detail.refs \in Seq(Fields)
      /\ detail.seen \in SUBSET Groups /\ detail.refs # <<>> /\ DOMAIN detail.values = Target.groups
  BY DEF SampleInv, TypeOK, Details, BlobInv
<1>2. PICK k \in DOMAIN hist : PartlySampled(k, detail.values, detail.refs)
  BY DEF SampleInv, BlobInv
<1>3. 1 \in DOMAIN detail.refs /\ Len(detail.refs) \in Nat /\ Len(detail.refs) # 0
  BY <1>1
<1>4. Ref \in Fields /\ Ref[1] \in Groups /\ Decoded(Bytes(Ref)) = Ref
  <2>1. Ref \in Fields
    BY <1>1, <1>3 DEF Ref
  <2> QED
    BY <2>1, DecodedText DEF Fields
<1>5. Ref = <<Ref[1], hist[k].content[Target.node]>>
  BY <1>2, <1>3, <1>4 DEF PartlySampled, Ref, Fields
<1>6. values \in ValueMaps(Fields \cup {Pending}) /\ DOMAIN values = Target.groups
  BY <1>1, <1>4 DEF ValueMaps
<1>7. \A g \in DOMAIN values :
         \/ values[g] = <<g, hist[k].content[Target.node]>>
         \/ g # Ref[1] /\ \E i \in DOMAIN detail.refs : detail.refs[i][1] = g
  BY <1>2, <1>5 DEF PartlySampled
<1> HIDE DEF values
<1>8. CASE Len(detail.refs) = 1
  <2>1. \A g \in DOMAIN values : values[g] = <<g, hist[k].content[Target.node]>>
    BY <1>1, <1>3, <1>7, <1>8 DEF Ref
  <2>2. PartlySampled(k, values, <<>>)
    BY <1>2, <2>1 DEF PartlySampled
  <2>3. Stage(values)
    BY <1>4, <1>8 DEF Resolve, values
  <2> QED
    BY <1>6, <2>2, <2>3, StageKeepsSamples
<1>9. CASE Len(detail.refs) # 1
  <2> DEFINE rest == Tail(detail.refs)
  <2>1. /\ rest \in Seq(Fields) /\ rest # <<>>
        /\ \A i \in DOMAIN rest : i + 1 \in DOMAIN detail.refs /\ rest[i] = detail.refs[i + 1]
        /\ \A i \in DOMAIN detail.refs : i = 1 \/ (i - 1 \in DOMAIN rest /\ rest[i - 1] = detail.refs[i])
    BY <1>1, <1>3, <1>9, TailFacts
  <2>2. /\ detail' = [values |-> values, refs |-> rest, seen |-> detail.seen \cup {Ref[1]}]
        /\ data' = <<>> /\ UNCHANGED <<hist, view, plan, staged, output, pc, entry, outcome>>
    BY <1>4, <1>9 DEF Resolve, values
  <2> HIDE DEF rest
  <2>3. PartlySampled(k, values, rest)
    <3>1. ASSUME NEW g \in DOMAIN values
          PROVE  \/ values[g] = <<g, hist[k].content[Target.node]>>
                 \/ \E i \in DOMAIN rest : rest[i][1] = g
      <4>1. CASE values[g] = <<g, hist[k].content[Target.node]>>
        BY <4>1
      <4>2. ASSUME g # Ref[1], NEW i \in DOMAIN detail.refs, detail.refs[i][1] = g
            PROVE  \E j \in DOMAIN rest : rest[j][1] = g
        <5>1. i # 1
          BY <4>2 DEF Ref
        <5> QED
          BY <2>1, <4>2, <5>1
      <4> QED
        BY <1>7, <4>1, <4>2
    <3>2. \A i \in DOMAIN rest : rest[i][2] = hist[k].content[Target.node]
      BY <1>2, <2>1 DEF PartlySampled
    <3> QED
      BY <1>2, <3>1, <3>2 DEF PartlySampled
  <2>4. detail' \in Details /\ detail'.values = values /\ detail'.refs = rest
    BY <1>1, <1>4, <1>6, <2>1, <2>2 DEF Details
  <2>5. TypeOK' /\ PlaceInv' /\ RowsAreSamples' /\ Target' = Target
    <3>1. data' \in Seq(Fields \X Nat) /\ pc' = "blob"
      BY <2>2
    <3> QED
      BY <2>2, <2>4, <3>1, FrameKeepsSamples
  <2>6. BlobInv'
    BY <1>6, <2>1, <2>2, <2>3, <2>4, <2>5, BlobInvNext
  <2> QED
    BY <2>5, <2>6 DEF SampleInv
<1> QED
  BY <1>8, <1>9

\* The bytes of a field, and a part of them, are bytes of fields.
LEMMA ChunkType == ASSUME NEW c \in Chunks PROVE ChunkData(c) \in Seq(Fields \X Nat)
<1>1. /\ c.bytes \in Fields /\ c.offset \in Nat /\ c.size \in Nat
      /\ c.offset + c.size <= FieldSize(c.bytes)
  BY DetailAssumption DEF Chunks
<1>2. FieldSize(c.bytes) \in Nat
  BY <1>1, DetailAssumption DEF FieldSize, Fields
<1>3. Bytes(c.bytes) \in Seq(Fields \X Nat) /\ Len(Bytes(c.bytes)) = FieldSize(c.bytes)
  BY <1>1, <1>2 DEF Bytes
<1> QED
  BY <1>1, <1>2, <1>3 DEF ChunkData

\* A chunk is added, or ends the text, or ends the read.
LEMMA ReadChunkKeepsSamples == ASSUME SampleInv, ReadChunk PROVE SampleInv'
<1>1. pc = "blob" /\ calls' \in Nat
  <2>1. calls \in Nat
    BY DEF SampleInv, TypeOK
  <2> QED
    BY <2>1 DEF ReadChunk
<1>2. ASSUME NEW c \in FittingChunks, data' = data \o ChunkData(c),
             UNCHANGED <<hist, view, plan, detail, staged, output, pc, entry, outcome>>
      PROVE  SampleInv'
  <2>1. ChunkData(c) \in Seq(Fields \X Nat) /\ data \in Seq(Fields \X Nat)
    BY ChunkType DEF FittingChunks, SampleInv, TypeOK
  <2>2. data' \in Seq(Fields \X Nat)
    BY <1>2, <2>1
  <2>3. TypeOK' /\ PlaceInv' /\ RowsAreSamples' /\ Target' = Target
    <3>1. detail' \in Details
      BY <1>2 DEF SampleInv, TypeOK
    <3> QED
      BY <1>1, <1>2, <2>2, <3>1, FrameKeepsSamples
  <2>4. BlobInv'
    BY <1>1, <1>2, <2>3 DEF SampleInv, BlobInv, PartlySampled, SameNode, SameFlow
  <2> QED
    BY <2>3, <2>4 DEF SampleInv
<1>3. ASSUME NEW bytes, DigestRight(bytes), Resolve(bytes) PROVE SampleInv'
  <2>1. Resolve(Bytes(Ref))
    BY <1>3 DEF DigestRight
  <2> QED
    BY <1>1, <2>1, ResolveKeepsSamples
<1>4. CASE Fail
  BY <1>1, <1>4, FailKeepsSamples
<1> QED
  BY <1>2, <1>3, <1>4 DEF ReadChunk

\* The rows are staged when they are delivered.
LEMMA DeliverKeepsSamples ==
    ASSUME SampleInv, pc = "copy", NEW rows \in Seq(StagedRows),
           NEW how \in {"ok", "write failed"}, Deliver(rows, how)
    PROVE  SampleInv'
<1>1. output' = rows /\ outcome' = how /\ pc' = "done"
      /\ UNCHANGED <<hist, view, plan, detail, data, staged, calls, entry>>
  BY DEF Deliver
<1>2. TypeOK'
  BY <1>1 DEF SampleInv, TypeOK
<1>3. PlaceInv' /\ BlobInv'
  BY <1>1 DEF PlaceInv, BlobInv
<1>4. RowsAreSamples'
  BY <1>1 DEF SampleInv, RowsAreSamples, IsSample, SameNode, SameFlow
<1> QED
  BY <1>2, <1>3, <1>4 DEF SampleInv

\* Beginning to print a view of the present.
LEMMA BeginRowsKeepSamples ==
    ASSUME SampleInv, pc = "begin", UNCHANGED calls, NEW first \in DOMAIN Order, NEW last \in first .. Len(Order),
           NEW groups \in SUBSET Groups,
           Begin(ViewOf(first, last, {}), Rows(ViewOf(first, last, {}).order, groups))
    PROVE  SampleInv'
<1> DEFINE v == ViewOf(first, last, {})
<1>1. v \in Views /\ v.order \in Seq(Nodes) /\ v.order # <<>>
  BY ViewType DEF Views
<1>2. Rows(v.order, groups) \in Seq(PlannedRows)
  BY <1>1, RowsType
<1> QED
  BY <1>1, <1>2, BeginKeepsSamples

\* Every step keeps the samples.
LEMMA SampleNext == SampleInv /\ [Next]_vars => SampleInv'
<1> SUFFICES ASSUME SampleInv, [Next]_vars PROVE SampleInv'
  OBVIOUS
<1>0. calls \in Nat
  BY DEF SampleInv, TypeOK
<1>1. CASE Server
  BY <1>1, ServerKeepsSamples
<1>2. CASE UNCHANGED vars
  <2>1. TypeOK'
    BY <1>2 DEF vars, SampleInv, TypeOK
  <2>2. PlaceInv' /\ BlobInv'
    BY <1>2 DEF vars, SampleInv, PlaceInv, BlobInv, PartlySampled, Target, SameNode, SameFlow
  <2>3. RowsAreSamples'
    BY <1>2 DEF vars, SampleInv, RowsAreSamples, IsSample, SameNode, SameFlow
  <2> QED
    BY <2>1, <2>2, <2>3 DEF SampleInv
<1>3. CASE BeginShow
  <2>0. PICK first \in DOMAIN Order : \E last \in first .. Len(Order), groups \in ShowGroups :
           \/ Begin(ViewOf(first, last, {}), Rows(ViewOf(first, last, {}).order, groups)) /\ UNCHANGED calls
           \/ Fail /\ UNCHANGED calls
    BY <1>3 DEF BeginShow, Begin
  <2>1. PICK last \in first .. Len(Order), groups \in ShowGroups :
           \/ Begin(ViewOf(first, last, {}), Rows(ViewOf(first, last, {}).order, groups)) /\ UNCHANGED calls
           \/ Fail /\ UNCHANGED calls
    BY <2>0
  <2>2. pc = "begin" /\ groups \in SUBSET Groups
    BY <1>3 DEF BeginShow, ShowGroups
  <2> QED
    BY <1>0, <2>1, <2>2, BeginRowsKeepSamples, FailKeepsSamples
<1>4. CASE BeginSyncShow
  <2>0. PICK first \in DOMAIN Order : \E last \in first .. Len(Order) :
           Begin(ViewOf(first, last, {}), Rows(ViewOf(first, last, {}).order, {}))
    BY <1>4 DEF BeginSyncShow
  <2>1. PICK last \in first .. Len(Order) :
           Begin(ViewOf(first, last, {}), Rows(ViewOf(first, last, {}).order, {}))
    BY <2>0
  <2>2. pc = "begin" /\ UNCHANGED calls
    BY <1>4, <2>1 DEF BeginSyncShow, Begin
  <2> QED
    BY <2>1, <2>2, BeginRowsKeepSamples
<1>5. CASE BeginDetail
  <2>1. PICK n \in Nodes, groups \in SUBSET Groups, stale \in SUBSET Nodes :
           \/ Fail /\ UNCHANGED calls
           \/ Begin(ViewOf(1, Len(Order), stale), <<[node |-> n, groups |-> groups]>>)
    BY <1>5 DEF BeginDetail
  <2>2. pc = "begin"
    BY <1>5 DEF BeginDetail
  <2>3. CASE Fail /\ UNCHANGED calls
    BY <1>0, <2>3, FailKeepsSamples
  <2>4. CASE Begin(ViewOf(1, Len(Order), stale), <<[node |-> n, groups |-> groups]>>)
    <3>1. 1 \in DOMAIN Order /\ Len(Order) \in 1 .. Len(Order)
      <4>1. Order \in Seq(Nodes) /\ \E i \in DOMAIN Order : Order[i] = n
        BY TreeTypes DEF Nodes
      <4> QED
        BY <4>1
    <3>2. ViewOf(1, Len(Order), stale) \in Views
      BY <3>1, ViewType
    <3>3. <<[node |-> n, groups |-> groups]>> \in Seq(PlannedRows)
      BY DEF PlannedRows
    <3>4. UNCHANGED calls
      BY <2>4 DEF Begin
    <3> QED
      BY <2>2, <2>4, <3>2, <3>3, <3>4, BeginKeepsSamples
  <2> QED
    BY <2>1, <2>3, <2>4
<1>6. CASE BeginFails \/ DetailCallFails \/ RefuseRef \/ ChunkCallFails \/ StagingFails
  <2>1. Fail /\ calls' \in Nat
    BY <1>0, <1>6 DEF BeginFails, DetailCallFails, RefuseRef, ChunkCallFails, StagingFails
  <2> QED
    BY <2>1, FailKeepsSamples
<1>7. CASE PrintSummary \/ ReadDetail \/ ReadChunk
  BY <1>7, PrintSummaryKeepsSamples, ReadDetailKeepsSamples, ReadChunkKeepsSamples
<1>8. CASE Copy \/ CopyFails
  <2>1. staged \in Seq(StagedRows) /\ pc = "copy"
    BY <1>8 DEF SampleInv, TypeOK, Copy, CopyFails
  <2>2. \A n \in 0 .. Len(staged) : SubSeq(staged, 1, n) \in Seq(StagedRows)
    BY <2>1
  <2> QED
    BY <1>8, <2>1, <2>2, DeliverKeepsSamples DEF Copy, CopyFails
<1> QED
  BY <1>1, <1>2, <1>3, <1>4, <1>5, <1>6, <1>7, <1>8 DEF Next, Client

\* The variables stay in their types; what is staged is complete and resolved.
THEOREM TypeCorrect == Spec => []TypeOK
<1>1. SampleInv => TypeOK
  BY DEF SampleInv
<1> QED
  BY SampleInit, SampleNext, <1>1, PTL DEF Spec

\* Whatever the server answers, and however it changes meanwhile, the fields of
\* a row are one sample of the node that the view names (readQueryDetail,
\* readQueryBlob).
THEOREM EveryRowIsASample == Spec => []RowsAreSamples
<1>1. SampleInv => RowsAreSamples
  BY DEF SampleInv
<1> QED
  BY SampleInit, SampleNext, <1>1, PTL DEF Spec

----------------------------------------------------------------------------
(***************************************************************************)
(* The work is bounded                                                     *)
(***************************************************************************)

\* What a detail may cost: itself, and a call for every byte of every field.
Cost == 1 + Cardinality(Groups) * FieldBudget
Paid == IF pc = "blob" THEN 1 + Cardinality(detail.seen) * FieldBudget + Len(data) ELSE 0

\* Either details are printed, of no more than the limit, or none is asked for.
PlanInv ==
    \/ Len(plan) <= MaxDetailed + 1
    \/ calls = 0 /\ \A i \in DOMAIN plan : plan[i].groups = {}

\* Each row cost at most its share, and the one under way a call for each byte of it.
CallsInv ==
    /\ PlanInv
    /\ pc # "done" => calls <= Len(staged) * Cost + Paid
    /\ pc \in {"begin", "row"} => data = <<>>
    /\ pc = "blob" => Len(data) < FieldSize(Ref) /\ (data # <<>> => RefValid(Ref))
    /\ CallsAreBounded

\* What is put behind a text makes it longer by as much.
LEMMA LongerText ==
    ASSUME NEW S, NEW s \in Seq(S), NEW t \in Seq(S) PROVE Len(s \o t) = Len(s) + Len(t)
OBVIOUS

\* The cost of a detail is a number.
LEMMA CostType == Cost \in Nat /\ Cardinality(Groups) \in Nat /\ FieldBudget \in Nat /\ MaxDetailed \in Nat
<1>1. Cardinality(Groups) \in Nat /\ FieldBudget \in Nat /\ MaxDetailed \in Nat
  BY DetailAssumption, FS_CardinalityType
<1>2. \A m, n \in Nat : m * n \in Nat OBVIOUS
<1> QED BY <1>1, <1>2 DEF Cost

\* A product grows with its factors.
LEMMA Shares ==
    ASSUME NEW m \in Nat, NEW n \in Nat, NEW c \in Nat, m <= n
    PROVE  m * c \in Nat /\ m * c <= n * c /\ (m + 1) * c = m * c + c
<1>1. PICK d \in Nat : n = m + d
  <2>1. n - m \in Nat /\ n = m + (n - m) OBVIOUS
  <2> QED BY <2>1
<1>2. m * c \in Nat /\ d * c \in Nat /\ n * c = m * c + d * c BY <1>1
<1>3. (m + 1) * c = m * c + c OBVIOUS
<1> QED BY <1>2, <1>3

\* The types of what the costs are made of.
LEMMA PaidType ==
    ASSUME SampleInv
    PROVE  /\ calls \in Nat /\ Len(staged) \in Nat /\ Len(plan) \in Nat /\ Len(data) \in Nat
           /\ detail.seen \in SUBSET Groups /\ Cardinality(detail.seen) \in 0 .. Cardinality(Groups)
           /\ Paid \in Nat
<1>1. /\ calls \in Nat /\ Len(staged) \in Nat /\ Len(plan) \in Nat /\ Len(data) \in Nat
      /\ detail.seen \in SUBSET Groups
  <2>1. /\ calls \in Nat /\ staged \in Seq(StagedRows) /\ plan \in Seq(PlannedRows)
        /\ data \in Seq(Fields \X Nat) /\ detail \in Details
    BY DEF SampleInv, TypeOK
  <2>2. Len(staged) \in Nat BY <2>1
  <2>3. Len(plan) \in Nat BY <2>1
  <2>4. Len(data) \in Nat BY <2>1
  <2>5. detail.seen \in SUBSET Groups BY <2>1 DEF Details
  <2> QED BY <2>1, <2>2, <2>3, <2>4, <2>5
<1>2. Cardinality(detail.seen) \in 0 .. Cardinality(Groups)
  <2>1. IsFiniteSet(Groups) BY DetailAssumption
  <2>2. IsFiniteSet(detail.seen) /\ Cardinality(detail.seen) <= Cardinality(Groups)
    BY <1>1, <2>1, FS_Subset
  <2>3. Cardinality(detail.seen) \in Nat BY <2>2, FS_CardinalityType
  <2> QED BY <2>2, <2>3, CostType
<1>3. Cardinality(detail.seen) * FieldBudget \in Nat
  BY <1>2, CostType, Shares
<1>4. Paid \in Nat BY <1>1, <1>3 DEF Paid
<1> QED BY <1>1, <1>2, <1>4

\* A text under way is shorter than its field: one call for each byte is left.
LEMMA ChunkIsAffordable ==
    ASSUME SampleInv, CallsInv, pc = "blob"
    PROVE  /\ calls <= (Len(staged) + 1) * Cost
           /\ RefValid(Ref) =>
                /\ FieldSize(Ref) \in Nat /\ FieldSize(Ref) <= FieldBudget
                /\ IsFiniteSet(detail.seen)
                /\ Cardinality(detail.seen \cup {Ref[1]}) = Cardinality(detail.seen) + 1
                /\ Len(staged) * Cost + 1 + Cardinality(detail.seen) * FieldBudget + FieldBudget
                     <= (Len(staged) + 1) * Cost
<1> DEFINE n == Len(staged)
           k == Cardinality(detail.seen)
           G == Cardinality(Groups)
<1>1. /\ n \in Nat /\ k \in Nat /\ k <= G /\ G \in Nat /\ Cost \in Nat /\ FieldBudget \in Nat
      /\ calls \in Nat /\ Len(data) \in Nat /\ detail.seen \in SUBSET Groups
  BY PaidType, CostType
<1>2. calls <= n * Cost + (1 + k * FieldBudget + Len(data)) BY DEF CallsInv, Paid
<1>3. (n + 1) * Cost = n * Cost + Cost /\ n * Cost \in Nat BY <1>1, Shares
<1>4. k * FieldBudget \in Nat /\ k * FieldBudget <= G * FieldBudget /\ G * FieldBudget \in Nat
      /\ (k + 1) * FieldBudget = k * FieldBudget + FieldBudget
  BY <1>1, Shares
<1>5. Cost = 1 + G * FieldBudget BY DEF Cost
<1>6. ASSUME RefValid(Ref)
      PROVE  /\ FieldSize(Ref) \in Nat /\ FieldSize(Ref) <= FieldBudget
             /\ IsFiniteSet(detail.seen) /\ Cardinality(detail.seen \cup {Ref[1]}) = k + 1
             /\ (k + 1) * FieldBudget <= G * FieldBudget
  <2>1. Ref \in Fields
    <3>1. detail.refs \in Seq(Fields) /\ detail.refs # <<>>
      BY DEF SampleInv, TypeOK, Details, BlobInv
    <3> QED BY <3>1 DEF Ref
  <2>2. FieldSize(Ref) \in Nat BY <2>1, DetailAssumption DEF FieldSize, Fields
  <2>3. Ref[1] \in Groups /\ Ref[1] \notin detail.seen BY <1>6, <2>1 DEF RefValid, Fields
  <2>4. IsFiniteSet(Groups) /\ detail.seen \cup {Ref[1]} \in SUBSET Groups
    BY <1>1, <2>3, DetailAssumption
  <2>5. IsFiniteSet(detail.seen) BY <1>1, <2>4, FS_Subset
  <2>6. Cardinality(detail.seen \cup {Ref[1]}) = k + 1 BY <2>3, <2>5, FS_AddElement
  <2>7. k + 1 <= G BY <2>4, <2>6, FS_Subset
  <2>8. (k + 1) * FieldBudget <= G * FieldBudget BY <1>1, <2>7, Shares
  <2> QED BY <1>6, <2>2, <2>5, <2>6, <2>8 DEF RefValid
<1> DEFINE x == n * Cost
           y == (n + 1) * Cost
           a == k * FieldBudget
           b == (k + 1) * FieldBudget
           g == G * FieldBudget
<1>7. /\ calls <= x + (1 + a + Len(data)) /\ y = x + (1 + g) /\ b = a + FieldBudget
      /\ a <= g /\ (RefValid(Ref) => b <= g)
      /\ {x, a, g, calls, Len(data), FieldBudget} \subseteq Nat
  BY <1>1, <1>2, <1>3, <1>4, <1>5, <1>6
<1> HIDE DEF n, k, G, x, y, a, b, g
<1>8. calls <= y
  <2>1. CASE RefValid(Ref)
    <3>1. Len(data) <= FieldBudget BY <1>1, <1>6, <2>1 DEF CallsInv
    <3> QED BY <1>7, <2>1, <3>1
  <2>2. CASE ~RefValid(Ref)
    <3>1. Len(data) = 0 BY <2>2 DEF CallsInv
    <3> QED BY <1>7, <3>1
  <2> QED BY <2>1, <2>2
<1>9. RefValid(Ref) => x + 1 + a + FieldBudget <= y BY <1>7
<1> QED BY <1>6, <1>8, <1>9 DEF x, y, a, n, k

\* A row more than are staged is within the bound of the whole read.
LEMMA RowIsAffordable ==
    ASSUME SampleInv, pc \in {"row", "blob"}, Len(plan) <= MaxDetailed + 1
    PROVE  (Len(staged) + 1) * Cost <= (MaxDetailed + 1) * Cost
<1>1. Len(staged) \in Nat /\ Len(plan) \in Nat /\ Len(staged) < Len(plan) BY TargetType
<1>2. Len(staged) + 1 <= MaxDetailed + 1 BY <1>1, CostType
<1> QED BY <1>1, <1>2, CostType, Shares

\* A row that is staged has paid its share.
LEMMA StageKeepsCalls ==
    ASSUME SampleInv, CallsInv, pc \in {"row", "blob"}, NEW values, Stage(values),
           calls' \in Nat, calls' <= (Len(staged) + 1) * Cost, PlanInv'
    PROVE  CallsInv'
<1>1. /\ staged' = Append(staged, Row(values)) /\ pc' \in {"row", "copy"} /\ data' = <<>> /\ plan' = plan
  BY DEF Stage
<1>2. staged \in Seq(StagedRows) BY DEF SampleInv, TypeOK
<1>3. Len(staged') = Len(staged) + 1 /\ Paid' = 0 BY <1>1, <1>2 DEF Paid
<1>4. CallsAreBounded'
  <2>1. CASE Len(plan) <= MaxDetailed + 1
    <3>1. (Len(staged) + 1) * Cost <= (MaxDetailed + 1) * Cost BY <2>1, RowIsAffordable
    <3>2. (Len(staged) + 1) * Cost \in Nat /\ (MaxDetailed + 1) * Cost \in Nat
      BY PaidType, CostType, Shares
    <3> QED BY <3>1, <3>2 DEF CallsAreBounded, Cost
  <2>2. CASE ~(Len(plan) <= MaxDetailed + 1)
    <3>1. calls' = 0 /\ (MaxDetailed + 1) * Cost \in Nat
      BY <1>1, <2>2, CostType, Shares DEF PlanInv
    <3> QED BY <3>1 DEF CallsAreBounded, Cost
  <2> QED BY <2>1, <2>2
<1>5. calls' <= Len(staged') * Cost + Paid'
  <2>1. (Len(staged) + 1) * Cost \in Nat BY PaidType, CostType, Shares
  <2> QED BY <1>3, <2>1
<1> QED BY <1>1, <1>4, <1>5 DEF CallsInv

\* A detail under way that has paid for what it has.
LEMMA UnderwayKeepsCalls ==
    ASSUME SampleInv, CallsInv, pc \in {"row", "blob"}, pc' = "blob", UNCHANGED <<plan, staged>>,
           Len(plan) <= MaxDetailed + 1,
           calls' \in Nat, calls' <= Len(staged) * Cost + Paid', calls' <= (Len(staged) + 1) * Cost,
           (Len(data) < FieldSize(Ref) /\ (data # <<>> => RefValid(Ref)))'
    PROVE  CallsInv'
<1>1. PlanInv' BY DEF PlanInv
<1>2. CallsAreBounded'
  <2>1. (Len(staged) + 1) * Cost <= (MaxDetailed + 1) * Cost BY RowIsAffordable
  <2>2. (Len(staged) + 1) * Cost \in Nat /\ (MaxDetailed + 1) * Cost \in Nat
    BY PaidType, CostType, Shares
  <2> QED BY <2>1, <2>2 DEF CallsAreBounded, Cost
<1> QED BY <1>1, <1>2 DEF CallsInv

\* The end of the read, with one more call at most.
LEMMA FailKeepsCalls ==
    ASSUME SampleInv, CallsInv, Fail, calls' \in Nat,
           calls' = calls \/ (pc \in {"row", "blob"} /\ Len(plan) <= MaxDetailed + 1
                              /\ calls' <= (Len(staged) + 1) * Cost)
    PROVE  CallsInv'
<1>1. pc' = "done" /\ plan' = plan BY DEF Fail
<1>2. PlanInv' BY <1>1 DEF CallsInv, PlanInv
<1>3. CallsAreBounded'
  <2>1. CASE calls' = calls BY <2>1 DEF CallsInv, CallsAreBounded
  <2>2. CASE calls' # calls
    <3>1. (Len(staged) + 1) * Cost <= (MaxDetailed + 1) * Cost BY <2>2, RowIsAffordable
    <3>2. (Len(staged) + 1) * Cost \in Nat /\ (MaxDetailed + 1) * Cost \in Nat
      BY PaidType, CostType, Shares
    <3> QED BY <2>2, <3>1, <3>2 DEF CallsAreBounded, Cost
  <2> QED BY <2>1, <2>2
<1> QED BY <1>1, <1>2, <1>3 DEF CallsInv

\* A row with a detail is one of at most MaxDetailed + 1.
LEMMA DetailedPlan ==
    ASSUME SampleInv, CallsInv, pc \in {"row", "blob"}, Target.groups # {}
    PROVE  Len(plan) <= MaxDetailed + 1
<1>1. Len(staged) \in Nat /\ Len(plan) \in Nat /\ Len(staged) < Len(plan) BY TargetType
<1>2. plan \in Seq(PlannedRows) BY DEF SampleInv, TypeOK
<1>3. Len(staged) + 1 \in DOMAIN plan BY <1>1, <1>2
<1> QED BY <1>3 DEF CallsInv, PlanInv, Target

----------------------------------------------------------------------------
\* The limit on targets bounds the rows that have details.
LEMMA RowsAreFew ==
    ASSUME NEW first \in DOMAIN Order, NEW last \in first .. Len(Order), NEW groups \in SUBSET Groups,
           ~TooWide(SubSeq(Order, first, last), groups)
    PROVE  LET rows == Rows(SubSeq(Order, first, last), groups) IN
           Len(rows) <= MaxDetailed + 1 \/ \A i \in DOMAIN rows : rows[i].groups = {}
<1> DEFINE order == SubSeq(Order, first, last)
           skipped == IF order[1] = Root /\ "parameters" \notin groups THEN 1 ELSE 0
           rows == Rows(order, groups)
           others == {i \in DOMAIN order : order[i] # Root}
<1>1. /\ Order \in Seq(Nodes) /\ Len(Order) \in Nat /\ DOMAIN Order = 1 .. Len(Order)
      /\ first \in 1 .. Len(Order)
  BY TreeTypes
<1>2. /\ order \in Seq(Nodes) /\ Len(order) = last - first + 1 /\ DOMAIN order = 1 .. Len(order)
      /\ Len(order) \in Nat \ {0} /\ \A i \in 1 .. Len(order) : order[i] = Order[first + i - 1]
  BY <1>1
<1>3. CASE groups = {}
  <2>1. \A i \in DOMAIN rows : rows[i].groups = {} BY <1>3 DEF Rows
  <2> QED BY <2>1
<1>4. CASE groups # {}
  <2>0. ~(Cardinality(others) > MaxDetailed) BY <1>4 DEF TooWide, Targets
  <2> HIDE DEF order
  <2>5. IsFiniteSet(1 .. Len(order)) /\ Cardinality(2 .. Len(order)) = Len(order) - 1
    <3>1. Len(order) \in Int /\ 1 \in Int /\ 2 \in Int /\ Len(order) >= 1 BY <1>2
    <3>2. IsFiniteSet(1 .. Len(order)) BY <3>1, FS_Interval
    <3>3. Cardinality(2 .. Len(order)) = IF 2 > Len(order) THEN 0 ELSE Len(order) - 2 + 1
      BY <3>1, FS_Interval
    <3> QED BY <3>1, <3>2, <3>3
  <2>6. IsFiniteSet(others) /\ Cardinality(others) \in Nat
    <3>1. others \in SUBSET (1 .. Len(order)) BY <1>2
    <3>2. IsFiniteSet(others) BY <2>5, <3>1, FS_Subset
    <3> QED BY <3>2, FS_CardinalityType
  <2>1. Cardinality(others) <= MaxDetailed BY <2>0, <2>6, CostType
  <2>2. 2 .. Len(order) \subseteq others
    <3>1. ASSUME NEW i \in 2 .. Len(order) PROVE order[i] # Root
      <4>1. first + i - 1 \in DOMAIN Order /\ first + i - 1 # 1
        <5>1. /\ {first, last, i, Len(Order), Len(order)} \subseteq Nat
              /\ first >= 1 /\ i >= 2 /\ i <= last - first + 1 /\ last <= Len(Order)
          BY <1>1, <1>2
        <5> QED BY <1>1, <5>1
      <4>2. order[i] = Order[first + i - 1] BY <1>2
      <4>3. Order[first + i - 1] # Root BY <4>1, DetailAssumption
      <4> QED BY <4>2, <4>3
    <3> QED BY <1>2, <3>1
  <2>3. Len(order) - 1 <= Cardinality(others)
    <3>1. Cardinality(2 .. Len(order)) <= Cardinality(others) BY <2>2, <2>6, FS_Subset
    <3> QED BY <2>5, <3>1
  <2>4. Len(rows) = Len(order) - skipped /\ skipped \in 0 .. 1
    <3>1. skipped \in 0 .. 1 /\ Len(order) - skipped \in Nat BY <1>2
    <3>2. DOMAIN rows = 1 .. Len(order) - skipped BY DEF Rows
    <3>3. rows \in Seq(PlannedRows)
      <4>1. order # <<>> BY <1>2
      <4> QED BY <1>2, <4>1, RowsType
    <3> HIDE DEF rows, skipped
    <3> QED BY <3>1, <3>2, <3>3
  <2> HIDE DEF rows, others, skipped
  <2>7. {Len(order), Cardinality(others), MaxDetailed} \subseteq Nat BY <1>2, <2>6, CostType
  <2>8. Len(rows) <= MaxDetailed + 1 BY <2>1, <2>3, <2>4, <2>7
  <2> QED BY <2>8 DEF rows, order
<1> QED BY <1>3, <1>4

\* A read that begins has called nobody yet.
LEMMA BeginKeepsCalls ==
    ASSUME SampleInv, CallsInv, pc = "begin", NEW v, NEW rows, Begin(v, rows), UNCHANGED calls,
           Len(rows) <= MaxDetailed + 1 \/ \A i \in DOMAIN rows : rows[i].groups = {}
    PROVE  CallsInv'
<1>1. staged = <<>> BY DEF SampleInv, PlaceInv
<1>2. calls = 0
  <2>1. Len(staged) = 0 /\ calls \in Nat /\ Cost \in Nat BY <1>1, PaidType, CostType
  <2>2. calls <= 0 * Cost + 0 BY <2>1 DEF CallsInv, Paid
  <2> QED BY <2>1, <2>2
<1>3. pc' \in {"copy", "row"} /\ plan' = rows /\ calls' = 0 /\ staged' = staged /\ data' = data
  BY <1>2 DEF Begin
<1>4. PlanInv' BY <1>3 DEF PlanInv
<1>5. Len(staged) * Cost \in Nat BY PaidType, CostType, Shares
<1> QED BY <1>3, <1>4, <1>5 DEF CallsInv, CallsAreBounded, Paid

\* The call for a detail is the first of its row.
LEMMA ReadDetailKeepsCalls == ASSUME SampleInv, CallsInv, ReadDetail PROVE CallsInv'
<1>1. pc = "row" /\ Target.groups # {} /\ calls' = calls + 1 /\ calls \in Nat BY PaidType DEF ReadDetail
<1>2. Len(plan) <= MaxDetailed + 1 BY <1>1, DetailedPlan
<1>3. /\ calls' \in Nat /\ calls' <= Len(staged) * Cost + 1 /\ calls' <= (Len(staged) + 1) * Cost
      /\ data = <<>>
  <2>1. /\ Len(staged) \in Nat /\ Cost \in Nat /\ Cost >= 1
        /\ (Len(staged) + 1) * Cost = Len(staged) * Cost + Cost /\ Len(staged) * Cost \in Nat
    <3>1. Cost >= 1
      <4>1. Cardinality(Groups) * FieldBudget \in Nat BY CostType, Shares
      <4> QED BY <4>1 DEF Cost
    <3> QED BY <3>1, PaidType, CostType, Shares
  <2>2. calls <= Len(staged) * Cost + 0 /\ data = <<>> BY <1>1 DEF CallsInv, Paid
  <2> QED BY <1>1, <2>1, <2>2
<1>4. ASSUME NEW a \in FittingAnswers, Stage(Sampled(a)) PROVE CallsInv'
  <2>1. PlanInv' BY <1>2, <1>4 DEF Stage, PlanInv
  <2> QED BY <1>1, <1>3, <1>4, <2>1, StageKeepsCalls
<1>5. ASSUME NEW a \in FittingAnswers, a.refs # <<>>, pc' = "blob",
             detail' = [values |-> Sampled(a), refs |-> Refs(a), seen |-> {}],
             UNCHANGED <<plan, data, staged>>
      PROVE  CallsInv'
  <2>1. Cardinality({}) = 0 /\ 0 * FieldBudget = 0 BY FS_EmptySet, CostType
  <2>2. Len(data') = 0 /\ data' = <<>> BY <1>3, <1>5
  <2>3. Paid' = 1 BY <1>5, <2>1, <2>2 DEF Paid
  <2>4. FieldSize(Ref)' \in Nat \ {0}
    <3>1. a \in DetailAnswers /\ DetailFits(a) BY DEF FittingAnswers
    <3>2. Refs(a) \in Seq(Fields) /\ Refs(a) # <<>> BY <1>1, <1>5, <3>1, FittingIsSampled
    <3>3. Refs(a)[1] \in Fields BY <3>2
    <3> QED BY <1>5, <3>3, DetailAssumption DEF Ref, FieldSize, Fields
  <2> QED BY <1>1, <1>2, <1>3, <1>5, <2>2, <2>3, <2>4, UnderwayKeepsCalls
<1>6. CASE Fail BY <1>1, <1>2, <1>3, <1>6, FailKeepsCalls
<1> QED BY <1>4, <1>5, <1>6 DEF ReadDetail

\* The call for a chunk is paid by a byte of it, or is the last one.
LEMMA ReadChunkKeepsCalls == ASSUME SampleInv, CallsInv, ReadChunk PROVE CallsInv'
<1> DEFINE k == Cardinality(detail.seen)
<1>1. pc = "blob" /\ RefValid(Ref) /\ calls' = calls + 1 BY DEF ReadChunk
<1>2. /\ calls \in Nat /\ Len(staged) \in Nat /\ Len(data) \in Nat /\ k \in Nat
      /\ Cost \in Nat /\ FieldBudget \in Nat /\ Len(staged) * Cost \in Nat /\ k * FieldBudget \in Nat
  BY PaidType, CostType, Shares
<1>3. Len(plan) <= MaxDetailed + 1
  <2>1. Target.groups # {} BY <1>1 DEF RefValid, SampleInv, BlobInv
  <2> QED BY <1>1, <2>1, DetailedPlan
<1>4. /\ calls <= Len(staged) * Cost + (1 + k * FieldBudget + Len(data))
      /\ Len(data) < FieldSize(Ref)
  BY <1>1 DEF CallsInv, Paid
<1>5. /\ FieldSize(Ref) \in Nat /\ FieldSize(Ref) <= FieldBudget
      /\ Len(staged) * Cost + 1 + k * FieldBudget + FieldBudget <= (Len(staged) + 1) * Cost
      /\ Cardinality(detail.seen \cup {Ref[1]}) = k + 1
  BY <1>1, ChunkIsAffordable
<1>6. (Len(staged) + 1) * Cost \in Nat BY <1>2, Shares
<1>7. calls' \in Nat /\ calls' <= (Len(staged) + 1) * Cost
  <2> DEFINE x == Len(staged) * Cost
             y == (Len(staged) + 1) * Cost
             a == k * FieldBudget
  <2>1. /\ {x, y, a, calls, Len(data), FieldBudget, FieldSize(Ref)} \subseteq Nat
        /\ calls <= x + (1 + a + Len(data)) /\ Len(data) < FieldSize(Ref)
        /\ FieldSize(Ref) <= FieldBudget /\ x + 1 + a + FieldBudget <= y
    BY <1>2, <1>4, <1>5, <1>6
  <2> HIDE DEF x, y, a, k
  <2>2. calls + 1 \in Nat /\ calls + 1 <= y BY <2>1
  <2> QED BY <1>1, <2>2 DEF y
<1> HIDE DEF k
<1>8. ASSUME NEW c \in FittingChunks, ~(Len(data \o ChunkData(c)) = FieldSize(Ref)),
             data' = data \o ChunkData(c), UNCHANGED <<plan, detail, staged, pc>>
      PROVE  CallsInv'
  <2>1. /\ c \in Chunks /\ c.offset = Len(data) /\ c.of = Ref /\ c.size > 0
    BY DEF FittingChunks, ChunkFits
  <2>2. /\ c.offset \in Nat /\ c.size \in Nat /\ c.offset + c.size <= FieldSize(Ref)
        /\ Len(ChunkData(c)) = c.size /\ ChunkData(c) \in Seq(Fields \X Nat)
    <3>1. /\ c.bytes \in Fields /\ c.offset \in Nat /\ c.size \in Nat
          /\ c.offset + c.size <= FieldSize(Ref) /\ c.offset + c.size <= FieldSize(c.bytes)
      BY <2>1, DetailAssumption DEF Chunks
    <3>2. FieldSize(c.bytes) \in Nat BY <3>1, DetailAssumption DEF FieldSize, Fields
    <3>3. Bytes(c.bytes) \in Seq(Fields \X Nat) /\ Len(Bytes(c.bytes)) = FieldSize(c.bytes)
      BY <3>1, <3>2 DEF Bytes
    <3>4. Len(ChunkData(c)) = c.size BY <3>1, <3>2, <3>3 DEF ChunkData
    <3> QED BY <2>1, <3>1, <3>4, ChunkType
  <2>3. data \in Seq(Fields \X Nat) BY DEF SampleInv, TypeOK
  <2>4. Len(data') = Len(data) + c.size
    <3>1. Len(data \o ChunkData(c)) = Len(data) + Len(ChunkData(c)) BY <2>2, <2>3, LongerText
    <3> QED BY <1>8, <2>2, <3>1
  <2>5. Len(data') \in Nat /\ Len(data') >= Len(data) + 1 /\ Len(data') < FieldSize(Ref)
    <3>1. Len(data') # FieldSize(Ref) BY <1>8
    <3>2. Len(data) + c.size <= FieldSize(Ref) /\ c.size > 0 BY <2>1, <2>2
    <3>3. Len(data) \in Nat /\ c.size \in Nat /\ FieldSize(Ref) \in Nat BY <1>2, <1>5, <2>2
    <3> QED BY <2>4, <3>1, <3>2, <3>3
  <2>6. Ref' = Ref /\ RefValid(Ref)' BY <1>1, <1>8 DEF Ref, RefValid
  <2>7. Paid' = 1 + k * FieldBudget + Len(data') BY <1>1, <1>8 DEF Paid, k
  <2>8. calls' <= Len(staged) * Cost + Paid' BY <1>1, <1>2, <1>4, <2>5, <2>7
  <2>9. (Len(data) < FieldSize(Ref) /\ (data # <<>> => RefValid(Ref)))'
    BY <2>5, <2>6 DEF FieldSize
  <2> QED BY <1>1, <1>3, <1>7, <1>8, <2>8, <2>9, UnderwayKeepsCalls
<1>9. ASSUME NEW bytes, Resolve(bytes) PROVE CallsInv'
  <2>1. CASE \E values : Stage(values)
    <3>1. PlanInv' BY <1>3, <2>1 DEF Stage, PlanInv
    <3> QED BY <1>1, <1>7, <2>1, <3>1, StageKeepsCalls
  <2>2. CASE /\ Len(detail.refs) # 1 /\ detail'.refs = Tail(detail.refs)
             /\ detail'.seen = detail.seen \cup {Ref[1]}
             /\ data' = <<>> /\ UNCHANGED <<plan, staged, pc>>
    <3>1. detail.refs \in Seq(Fields) /\ detail.refs # <<>>
      BY <1>1 DEF SampleInv, TypeOK, Details, BlobInv
    <3>2. Len(detail.refs) # 0 BY <3>1
    <3>3. Tail(detail.refs) \in Seq(Fields) /\ Tail(detail.refs) # <<>>
      BY <2>2, <3>1, <3>2, TailFacts
    <3>4. FieldSize(Ref)' \in Nat \ {0}
      <4>1. Tail(detail.refs)[1] \in Fields BY <3>3
      <4> QED BY <2>2, <4>1, DetailAssumption DEF Ref, FieldSize, Fields
    <3>5. Len(data') = 0 /\ data' = <<>> BY <2>2
    <3>6. (k + 1) * FieldBudget = k * FieldBudget + FieldBudget BY <1>2, Shares
    <3>7. Paid' = 1 + (k + 1) * FieldBudget
      <4>1. Cardinality(detail'.seen) = k + 1 BY <1>5, <2>2
      <4>2. pc' = "blob" BY <1>1, <2>2
      <4>3. (k + 1) * FieldBudget \in Nat BY <1>2, <3>6
      <4> QED BY <3>5, <4>1, <4>2, <4>3 DEF Paid
    <3>8. calls' <= Len(staged) * Cost + Paid' BY <1>1, <1>2, <1>4, <1>5, <3>6, <3>7
    <3> QED BY <1>1, <1>3, <1>7, <2>2, <3>4, <3>5, <3>8, UnderwayKeepsCalls
  <2>3. CASE Len(detail.refs) = 1
    <3>1. \E values : Stage(values) BY <1>9, <2>3 DEF Resolve
    <3> QED BY <2>1, <3>1
  <2>4. CASE Len(detail.refs) # 1
    <3>1. /\ detail'.refs = Tail(detail.refs) /\ detail'.seen = detail.seen \cup {Ref[1]}
          /\ data' = <<>> /\ UNCHANGED <<plan, staged, pc>>
      BY <1>9, <2>4 DEF Resolve
    <3> QED BY <2>2, <2>4, <3>1
  <2> QED BY <2>3, <2>4
<1>10. CASE Fail BY <1>1, <1>3, <1>7, <1>10, FailKeepsCalls
<1> QED BY <1>8, <1>9, <1>10 DEF ReadChunk

\* Every step keeps the calls within what the rows may cost.
LEMMA CallsNext == SampleInv /\ CallsInv /\ [Next]_vars => CallsInv'
<1> SUFFICES ASSUME SampleInv, CallsInv, [Next]_vars PROVE CallsInv'
  OBVIOUS
<1>0. calls \in Nat BY PaidType
<1>1. CASE Server \/ UNCHANGED vars
  <2>1. UNCHANGED <<plan, detail, data, staged, calls, pc>>
    BY <1>1 DEF Server, ServerUpdates, ServerStartsAttempt, ServerReplaces, ServerRestarts, Commit, vars
  <2> QED
    BY <2>1 DEF CallsInv, PlanInv, Paid, Ref, RefValid, FieldSize, CallsAreBounded
<1>2. CASE BeginShow
  <2>1. PICK first \in DOMAIN Order : \E last \in first .. Len(Order), groups \in ShowGroups :
           LET order == SubSeq(Order, first, last) IN
           \/ ~TooWide(order, groups) /\ Begin(ViewOf(first, last, {}), Rows(order, groups)) /\ UNCHANGED calls
           \/ Fail /\ UNCHANGED calls
    BY <1>2 DEF BeginShow, Begin, ViewOf
  <2>2. PICK last \in first .. Len(Order), groups \in ShowGroups :
           LET order == SubSeq(Order, first, last) IN
           \/ ~TooWide(order, groups) /\ Begin(ViewOf(first, last, {}), Rows(order, groups)) /\ UNCHANGED calls
           \/ Fail /\ UNCHANGED calls
    BY <2>1
  <2>3. pc = "begin" /\ groups \in SUBSET Groups BY <1>2 DEF BeginShow, ShowGroups
  <2>4. CASE Fail /\ UNCHANGED calls BY <1>0, <2>4, FailKeepsCalls
  <2>5. ASSUME ~TooWide(SubSeq(Order, first, last), groups),
               Begin(ViewOf(first, last, {}), Rows(SubSeq(Order, first, last), groups)), UNCHANGED calls
        PROVE  CallsInv'
    <3>1. LET rows == Rows(SubSeq(Order, first, last), groups) IN
          Len(rows) <= MaxDetailed + 1 \/ \A i \in DOMAIN rows : rows[i].groups = {}
      BY <2>3, <2>5, RowsAreFew
    <3> QED BY <2>3, <2>5, <3>1, BeginKeepsCalls
  <2> QED BY <2>2, <2>4, <2>5
<1>3. CASE BeginSyncShow
  <2>0. PICK v : Begin(v, Rows(v.order, {})) BY <1>3 DEF BeginSyncShow
  <2> DEFINE rows == Rows(v.order, {})
  <2>1. Begin(v, rows) /\ \A i \in DOMAIN rows : rows[i].groups = {}
    <3>1. \A i \in DOMAIN rows : rows[i].groups = {} BY DEF Rows
    <3> QED BY <2>0, <3>1
  <2> HIDE DEF rows
  <2>2. pc = "begin" /\ UNCHANGED calls BY <1>3, <2>1 DEF BeginSyncShow, Begin
  <2> QED BY <2>1, <2>2, BeginKeepsCalls
<1>4. CASE BeginDetail
  <2>1. PICK n \in Nodes, groups \in SUBSET Groups, stale \in SUBSET Nodes :
           \/ Fail /\ UNCHANGED calls
           \/ Begin(ViewOf(1, Len(Order), stale), <<[node |-> n, groups |-> groups]>>)
    BY <1>4 DEF BeginDetail
  <2>2. pc = "begin" BY <1>4 DEF BeginDetail
  <2>3. CASE Fail /\ UNCHANGED calls BY <1>0, <2>3, FailKeepsCalls
  <2>4. CASE Begin(ViewOf(1, Len(Order), stale), <<[node |-> n, groups |-> groups]>>)
    <3>1. Len(<<[node |-> n, groups |-> groups]>>) <= MaxDetailed + 1 BY CostType
    <3>2. UNCHANGED calls BY <2>4 DEF Begin
    <3> QED BY <2>2, <2>4, <3>1, <3>2, BeginKeepsCalls
  <2> QED BY <2>1, <2>3, <2>4
<1>5. CASE BeginFails \/ RefuseRef \/ StagingFails
  <2>1. Fail /\ calls' = calls BY <1>5 DEF BeginFails, RefuseRef, StagingFails
  <2> QED BY <1>0, <2>1, FailKeepsCalls
<1>6. CASE DetailCallFails
  <2>1. pc = "row" /\ Target.groups # {} /\ calls' = calls + 1 /\ Fail BY <1>6 DEF DetailCallFails
  <2>2. Len(plan) <= MaxDetailed + 1 BY <2>1, DetailedPlan
  <2>3. calls <= Len(staged) * Cost + 0 BY <2>1 DEF CallsInv, Paid
  <2>4. calls' <= (Len(staged) + 1) * Cost
    <3>1. Cardinality(Groups) * FieldBudget \in Nat BY CostType, Shares
    <3>2. Cost >= 1 BY <3>1 DEF Cost
    <3>3. (Len(staged) + 1) * Cost = Len(staged) * Cost + Cost /\ Len(staged) * Cost \in Nat
      BY PaidType, CostType, Shares
    <3> QED BY <1>0, <2>1, <2>3, <3>2, <3>3, CostType
  <2> QED BY <1>0, <2>1, <2>2, <2>4, FailKeepsCalls
<1>7. CASE ChunkCallFails
  <2> DEFINE k == Cardinality(detail.seen)
  <2>1. pc = "blob" /\ RefValid(Ref) /\ calls' = calls + 1 /\ Fail BY <1>7 DEF ChunkCallFails
  <2>2. Target.groups # {} BY <2>1 DEF RefValid, SampleInv, BlobInv
  <2>3. Len(plan) <= MaxDetailed + 1 BY <2>1, <2>2, DetailedPlan
  <2>4. calls <= Len(staged) * Cost + (1 + k * FieldBudget + Len(data)) /\ Len(data) < FieldSize(Ref)
    BY <2>1 DEF CallsInv, Paid
  <2>5. /\ FieldSize(Ref) \in Nat /\ FieldSize(Ref) <= FieldBudget
        /\ Len(staged) * Cost + 1 + k * FieldBudget + FieldBudget <= (Len(staged) + 1) * Cost
    BY <2>1, ChunkIsAffordable
  <2>6. /\ Len(staged) * Cost \in Nat /\ k * FieldBudget \in Nat /\ Len(data) \in Nat
        /\ FieldBudget \in Nat /\ (Len(staged) + 1) * Cost \in Nat
    BY PaidType, CostType, Shares
  <2> HIDE DEF k
  <2>7. calls' <= (Len(staged) + 1) * Cost BY <1>0, <2>1, <2>4, <2>5, <2>6
  <2> QED BY <1>0, <2>1, <2>3, <2>7, FailKeepsCalls
<1>8. CASE PrintSummary
  <2>1. pc = "row" /\ calls' = calls /\ \E values : Stage(values) BY <1>8 DEF PrintSummary
  <2>2. calls <= Len(staged) * Cost + 0 BY <2>1 DEF CallsInv, Paid
  <2>3. calls' <= (Len(staged) + 1) * Cost
    <3>1. (Len(staged) + 1) * Cost = Len(staged) * Cost + Cost /\ Len(staged) * Cost \in Nat
      BY PaidType, CostType, Shares
    <3> QED BY <1>0, <2>1, <2>2, <3>1, CostType
  <2>4. PlanInv' BY <2>1 DEF CallsInv, PlanInv, Stage
  <2> QED BY <1>0, <2>1, <2>3, <2>4, StageKeepsCalls
<1>9. CASE ReadDetail \/ ReadChunk BY <1>9, ReadDetailKeepsCalls, ReadChunkKeepsCalls
<1>10. CASE Copy \/ CopyFails
  <2>1. pc' = "done" /\ UNCHANGED <<plan, calls>> BY <1>10 DEF Copy, CopyFails, Deliver
  <2> QED BY <2>1 DEF CallsInv, PlanInv, CallsAreBounded
<1> QED
  BY <1>1, <1>2, <1>3, <1>4, <1>5, <1>6, <1>7, <1>8, <1>9, <1>10 DEF Next, Client

\* No server can keep a read going: the targets are limited before the first
\* detail, a ref is taken once for each field that was asked for, and a chunk
\* without a byte, or beyond the size that fits the budget, ends the read.
THEOREM WorkIsBounded == Spec => []CallsAreBounded
<1>1. Init => CallsInv
  <2> SUFFICES ASSUME Init PROVE CallsInv OBVIOUS
  <2>1. pc = "begin" /\ calls = 0 /\ plan = <<>> /\ staged = <<>> /\ data = <<>> BY DEF Init
  <2>2. MaxDetailed + 1 >= 0 /\ (MaxDetailed + 1) * Cost \in Nat /\ 0 * Cost = 0
    BY CostType, Shares
  <2> QED BY <2>1, <2>2 DEF CallsInv, PlanInv, Paid, CallsAreBounded, Cost
<1>2. CallsInv => CallsAreBounded
  BY DEF CallsInv
<1> QED
  BY SampleInit, SampleNext, CallsNext, <1>1, <1>2, PTL DEF Spec

=============================================================================
