----------------------------- MODULE DetailRead -----------------------------
(***************************************************************************)
(* Details and their printing (query_client.go, query_show.go): show reads *)
(* a summary, then one live detail per node of it, fetches the large       *)
(* fields of a detail in chunks, stages every row in a file and copies the *)
(* file to the output at the end.  sync stages and copies without details; *)
(* ReadQueryDetail reads the detail of one node of a view its caller kept. *)
(* Meanwhile the server's nodes change, get new attempts, are replaced,    *)
(* and the server restarts.                                                *)
(*                                                                         *)
(* A node's content is a version; the field a group shows of it is the     *)
(* pair of group and version, and is inlined or replaced by a blob.        *)
(***************************************************************************)
EXTENDS Naturals, FiniteSets, Sequences, SequencesExt

CONSTANTS
    Order,        \* the tree, in the order of the summary
    Root,         \* the path "/"
    Tasks,        \* the nodes that have attempts
    FlowOf,       \* the flow of each node but the root
    Groups,       \* the groups a detail may be asked for
    Contents,     \* versions of a node's content
    SizeOf,       \* the bytes of a field of each version
    MaxDetailed,  \* the limit on targets, 4096
    FieldBudget,  \* QueryBlobFieldBudget
    MaxChunk,     \* QueryMaxChunkBytes
    MaxRevision,  \* bound on the server's changes
    Pending       \* a field that is not read yet; nil before a read begins

Nodes == {Order[i] : i \in DOMAIN Order}
Flows == {FlowOf[n] : n \in Nodes \ {Root}}
Fields == Groups \X Contents

ASSUME DetailAssumption ==
    /\ Order \in Seq(Nodes) /\ IsInjective(Order)
    /\ \A i \in DOMAIN Order : Order[i] = Root => i = 1
    /\ Tasks \subseteq Nodes \ {Root} /\ DOMAIN FlowOf = Nodes \ {Root}
    /\ "parameters" \in Groups /\ IsFiniteSet(Groups)
    /\ Contents # {} /\ SizeOf \in [Contents -> Nat \ {0}]
    /\ {MaxDetailed, FieldBudget} \subseteq Nat
    /\ {MaxChunk, MaxRevision} \subseteq Nat \ {0}
    /\ Pending \notin Fields

----------------------------------------------------------------------------
VARIABLES
    hist,     \* the states of the server since the one of the view
    view,     \* the summary: the identity of the nodes
    plan,     \* what is to be printed: nodes, each with the groups of its detail
    detail,   \* the detail under way: its fields, the refs to read, those read
    data,     \* the bytes of the first ref
    staged,   \* the rows in the temporary file
    output,   \* the rows given to the caller
    calls,    \* how many detail and chunk requests were sent
    pc, entry, outcome

vars == <<hist, view, plan, detail, data, staged, output, calls, pc, entry, outcome>>

Now == hist[Len(hist)]
NoDetail == [values |-> [g \in {} |-> Pending], refs |-> <<>>, seen |-> {}]

InitialState ==
    [session |-> 1, gens |-> [f \in Flows |-> 1], attempts |-> [n \in Nodes |-> 0],
     content |-> [n \in Nodes |-> CHOOSE v \in Contents : TRUE]]

Init ==
    /\ hist = <<InitialState>>
    /\ view = Pending /\ plan = <<>> /\ detail = NoDetail /\ data = <<>>
    /\ staged = <<>> /\ output = <<>> /\ calls = 0
    /\ entry \in {"show", "sync", "detail"} /\ pc = "begin" /\ outcome = "running"

----------------------------------------------------------------------------
(***************************************************************************)
(* The server                                                              *)
(***************************************************************************)

\* Only what changes between the view and the end of the read can be seen.
Commit(state) ==
    /\ Len(hist) < MaxRevision /\ pc \notin {"begin", "done"}
    /\ hist' = Append(hist, state)
    /\ UNCHANGED <<view, plan, detail, data, staged, output, calls, pc, entry, outcome>>

ServerUpdates(n, v) == Now.content[n] # v /\ Commit([Now EXCEPT !.content[n] = v])

ServerStartsAttempt(n) == n \in Tasks /\ Commit([Now EXCEPT !.attempts[n] = @ + 1])

\* The new flow has the paths of the old one; its tasks have not run.
ServerReplaces(f, v) ==
    LET replaced(n) == n # Root /\ FlowOf[n] = f IN
    Commit([session |-> Now.session, gens |-> [Now.gens EXCEPT ![f] = @ + 1],
            attempts |-> [n \in Nodes |-> IF replaced(n) THEN 0 ELSE Now.attempts[n]],
            content |-> [n \in Nodes |-> IF replaced(n) THEN v ELSE Now.content[n]]])

ServerRestarts ==
    Commit([Now EXCEPT !.session = @ + 1, !.gens = [f \in Flows |-> 1]])

Server ==
    \/ \E n \in Nodes, v \in Contents : ServerUpdates(n, v)
    \/ \E n \in Nodes : ServerStartsAttempt(n)
    \/ \E f \in Flows, v \in Contents : ServerReplaces(f, v)
    \/ ServerRestarts

----------------------------------------------------------------------------
(***************************************************************************)
(* The beginning: the view, and what is to be printed of it                *)
(***************************************************************************)

\* A complete view of one revision (QueryView), of a stretch of the tree.
ViewOf(first, last, stale) ==
    [session |-> Now.session, gens |-> Now.gens, attempts |-> Now.attempts,
     order |-> SubSeq(Order, first, last), stale |-> stale]

\* The groups of the options: limits, events and meters need runtime and definition.
ShowGroups == {gs \in SUBSET Groups : "runtime" \in gs => "definition" \in gs}

\* renderQueryShow: every node but the root, which shows only its parameters.
Rows(order, groups) ==
    LET asked(n) == IF n = Root THEN groups \cap {"parameters"} ELSE groups
        skipped == IF order[1] = Root /\ "parameters" \notin groups THEN 1 ELSE 0
    IN  [i \in 1 .. Len(order) - skipped |->
            [node |-> order[i + skipped], groups |-> asked(order[i + skipped])]]

Targets(order) == Cardinality({i \in DOMAIN order : order[i] # Root})

TooWide(order, groups) == groups # {} /\ Targets(order) > MaxDetailed

Fail ==
    /\ pc' = "done" /\ outcome' = "failed" /\ detail' = NoDetail /\ data' = <<>>
    /\ UNCHANGED <<hist, view, plan, staged, output, entry>>

Begin(v, rows) ==
    /\ view' = v /\ plan' = rows
    /\ pc' = IF rows = <<>> THEN "copy" ELSE "row"
    /\ UNCHANGED <<hist, detail, data, staged, output, calls, entry, outcome>>

\* RunInitialQueryShow: a summary of this moment.
BeginShow ==
    /\ pc = "begin" /\ entry = "show"
    /\ \E first \in DOMAIN Order : \E last \in first .. Len(Order), groups \in ShowGroups :
        LET v == ViewOf(first, last, {}) IN
        \/ ~TooWide(v.order, groups) /\ Begin(v, Rows(v.order, groups))
        \/ TooWide(v.order, groups) /\ Fail /\ UNCHANGED calls

\* RunQuerySyncShow: the view its polls ended with, and no details.
BeginSyncShow ==
    /\ pc = "begin" /\ entry = "sync"
    /\ \E first \in DOMAIN Order : \E last \in first .. Len(Order) :
        LET v == ViewOf(first, last, {}) IN Begin(v, Rows(v.order, {}))

\* ReadQueryDetail: a view that the caller kept, parts of which may be stale.
BeginDetail ==
    /\ pc = "begin" /\ entry = "detail"
    /\ \E n \in Nodes, groups \in (SUBSET Groups) \ {{}}, stale \in {{}, Nodes \ {Root}} :
        IF n \in stale THEN Fail /\ UNCHANGED calls
        ELSE Begin(ViewOf(1, Len(Order), stale), <<[node |-> n, groups |-> groups]>>)

\* The summary or the sync fails, or no temporary file can be made.
BeginFails == pc = "begin" /\ Fail /\ UNCHANGED calls

----------------------------------------------------------------------------
(***************************************************************************)
(* One detail, its blobs, and its row                                      *)
(***************************************************************************)

Target == plan[Len(staged) + 1]

\* A detail is a sample of this moment of some node: of the one asked for or of
\* another, for this query or another.  refs names the fields left to blobs,
\* perhaps one twice or one of a group that is not there.
DetailAnswers ==
    [node : Nodes, own : BOOLEAN, groups : SUBSET Groups,
     refs : BoundedSeq(Groups, Cardinality(Groups) + 1)]

SameFlow(state, n) == n # Root => state.gens[FlowOf[n]] = view.gens[FlowOf[n]]

SameNode(state, n) ==
    /\ state.session = view.session
    /\ SameFlow(state, n)
    /\ state.attempts[n] = view.attempts[n]

\* Mutant: the attempt is not compared.
DetailFitsAnyAttempt(a) ==
    /\ a.own /\ a.node = Target.node /\ a.groups = Target.groups
    /\ Now.session = view.session /\ SameFlow(Now, a.node)

\* The identity checks on a detail.
DetailFits(a) ==
    /\ a.own /\ a.node = Target.node /\ a.groups = Target.groups
    /\ SameNode(Now, a.node)

FittingAnswers == {a \in DetailAnswers : DetailFits(a)}

Sampled(a) ==
    [g \in a.groups |-> IF g \in ToSet(a.refs) THEN Pending ELSE <<g, Now.content[a.node]>>]

\* The refs with the digest they promise: the field that was sampled.
Refs(a) == [i \in DOMAIN a.refs |-> <<a.refs[i], Now.content[a.node]>>]

Row(values) == [node |-> Target.node, values |-> values]

\* Mutant: the rows go to the output as they come.
StageAndPrint(values) ==
    /\ staged' = Append(staged, Row(values))
    /\ output' = Append(output, Row(values))
    /\ pc' = IF Len(staged') = Len(plan) THEN "copy" ELSE "row"
    /\ detail' = NoDetail /\ data' = <<>>
    /\ UNCHANGED <<hist, view, plan, entry, outcome>>

Stage(values) ==
    /\ staged' = Append(staged, Row(values))
    /\ pc' = IF Len(staged') = Len(plan) THEN "copy" ELSE "row"
    /\ detail' = NoDetail /\ data' = <<>>
    /\ UNCHANGED <<hist, view, plan, output, entry, outcome>>

PrintSummary ==
    /\ pc = "row" /\ Target.groups = {}
    /\ Stage([g \in {} |-> Pending])
    /\ UNCHANGED calls

ReadDetail ==
    /\ pc = "row" /\ Target.groups # {}
    /\ calls' = calls + 1
    /\ \/ \E a \in FittingAnswers :
          \/ a.refs = <<>> /\ Stage(Sampled(a))
          \/ /\ a.refs # <<>>
             /\ detail' = [values |-> Sampled(a), refs |-> Refs(a), seen |-> {}]
             /\ pc' = "blob"
             /\ UNCHANGED <<hist, view, plan, data, staged, output, entry, outcome>>
       \/ ~(\A a \in DetailAnswers : DetailFits(a)) /\ Fail

DetailCallFails == pc = "row" /\ Target.groups # {} /\ calls' = calls + 1 /\ Fail

----------------------------------------------------------------------------
Ref == detail.refs[1]
FieldSize(f) == SizeOf[f[2]]
Bytes(f) == [i \in 1 .. FieldSize(f) |-> <<f, i>>]

\* Mutant: a field of any size is fetched.
RefValidAnySize(ref) == ref[1] \notin detail.seen /\ ref[1] \in DOMAIN detail.values

\* The pointer is new and leads to a field; the field fits the budget.
RefValid(ref) ==
    /\ ref[1] \notin detail.seen
    /\ ref[1] \in DOMAIN detail.values
    /\ FieldSize(ref) <= FieldBudget

RefuseRef == pc = "blob" /\ ~RefValid(Ref) /\ Fail /\ UNCHANGED calls

\* A chunk is any document that DecodeQueryV1 lets through: with the size and
\* the digest of some field, and bytes of this field or another, of this place
\* or another.  Blobs are dropped, and after a restart their ids mean others.
Chunks ==
    {c \in [own : BOOLEAN, of : Fields, offset : 0 .. FieldBudget, bytes : Fields, size : 0 .. MaxChunk] :
        /\ c.offset + c.size <= FieldSize(c.of)
        /\ c.offset + c.size <= FieldSize(c.bytes)}
ChunkData(c) == SubSeq(Bytes(c.bytes), c.offset + 1, c.offset + c.size)

\* The checks on a chunk: the blob, the place, size and digest, some bytes.
ChunkFits(c) == c.own /\ c.offset = Len(data) /\ c.of = Ref /\ c.size > 0

FittingChunks == {c \in Chunks : ChunkFits(c)}

\* Mutant: the digest is not computed.
DigestTrusted(bytes) == TRUE
DigestRight(bytes) == bytes = Bytes(Ref)

\* What the JSON text of some bytes says; a mixture of two texts says neither.
Decoded(bytes) ==
    IF \E f \in Fields : bytes = Bytes(f) THEN CHOOSE f \in Fields : bytes = Bytes(f) ELSE Pending

\* A ref is resolved: its field is set, and the next ref is taken.
Resolve(bytes) ==
    LET values == [detail.values EXCEPT ![Ref[1]] = Decoded(bytes)] IN
    IF Len(detail.refs) = 1 THEN Stage(values)
    ELSE /\ detail' = [values |-> values, refs |-> Tail(detail.refs), seen |-> detail.seen \cup {Ref[1]}]
         /\ data' = <<>>
         /\ UNCHANGED <<hist, view, plan, staged, output, pc, entry, outcome>>

ReadChunk ==
    /\ pc = "blob" /\ RefValid(Ref)
    /\ calls' = calls + 1
    /\ \/ \E c \in FittingChunks :
          LET bytes == data \o ChunkData(c)
              whole == Len(bytes) = FieldSize(Ref)
          IN  \/ /\ ~whole
                 /\ data' = bytes
                 /\ UNCHANGED <<hist, view, plan, detail, staged, output, pc, entry, outcome>>
              \/ whole /\ DigestRight(bytes) /\ Resolve(bytes)
              \/ whole /\ ~DigestRight(bytes) /\ Fail
       \/ ~(\A c \in Chunks : ChunkFits(c)) /\ Fail

ChunkCallFails == pc = "blob" /\ RefValid(Ref) /\ calls' = calls + 1 /\ Fail

----------------------------------------------------------------------------
(***************************************************************************)
(* The end: the staged rows are copied                                     *)
(***************************************************************************)

\* A row cannot be written to the file, or the file not be read back.
StagingFails ==
    /\ pc \in {"row", "copy"} /\ entry # "detail"
    /\ Fail
    /\ UNCHANGED calls

Deliver(rows, how) ==
    /\ output' = rows /\ outcome' = how /\ pc' = "done"
    /\ UNCHANGED <<hist, view, plan, detail, data, staged, calls, entry>>

Copy == pc = "copy" /\ Deliver(staged, "ok")

\* The output breaks in the middle.
CopyFails ==
    /\ pc = "copy" /\ entry # "detail"
    /\ \E n \in 0 .. Len(staged) : Deliver(SubSeq(staged, 1, n), "write failed")

Client ==
    \/ BeginShow \/ BeginSyncShow \/ BeginDetail \/ BeginFails
    \/ PrintSummary \/ ReadDetail \/ DetailCallFails
    \/ RefuseRef \/ ReadChunk \/ ChunkCallFails
    \/ StagingFails \/ Copy \/ CopyFails

Next == Server \/ Client

Spec == Init /\ [][Next]_vars

----------------------------------------------------------------------------
(***************************************************************************)
(* Properties                                                              *)
(***************************************************************************)

States ==
    [session : Nat, gens : [Flows -> Nat], attempts : [Nodes -> Nat], content : [Nodes -> Contents]]
Views ==
    [session : Nat, gens : [Flows -> Nat], attempts : [Nodes -> Nat],
     order : Seq(Nodes), stale : SUBSET Nodes]
ValueMaps(values) == UNION {[gs -> values] : gs \in SUBSET Groups}
PlannedRows == [node : Nodes, groups : SUBSET Groups]
Details == [values : ValueMaps(Fields \cup {Pending}), refs : Seq(Fields), seen : SUBSET Groups]
StagedRows == [node : Nodes, values : ValueMaps(Fields)]

\* The variables stay in their types: no more rows are staged than planned, and
\* a staged row has no pending field and none of a broken text.
TypeOK ==
    /\ hist \in Seq(States) /\ hist # <<>>
    /\ view \in Views \cup {Pending}
    /\ plan \in Seq(PlannedRows)
    /\ detail \in Details
    /\ data \in Seq(Fields \X Nat)
    /\ staged \in Seq(StagedRows) /\ output \in Seq(StagedRows)
    /\ Len(staged) <= Len(plan)
    /\ calls \in Nat
    /\ pc \in {"begin", "row", "blob", "copy", "done"}
    /\ entry \in {"show", "sync", "detail"}
    /\ outcome \in {"running", "ok", "failed", "write failed"}

\* The caller gets every row that was to be printed, in order, or an error and
\* nothing; only the copy of the finished rows can leave a part of them
\* (RunInitialQueryShow: "writes no output until the whole read and render
\* succeed").
AllOrNothing ==
    /\ output # <<>> => outcome \in {"ok", "write failed"}
    /\ outcome \in {"ok", "write failed"} => Len(staged) = Len(plan)
    /\ outcome = "ok" => output = staged
    /\ outcome = "write failed" => \E n \in 0 .. Len(staged) : output = SubSeq(staged, 1, n)

\* r is the node at its place of the plan with every field it was to have, all
\* of them as this node, the very one of the view, had them at one moment after
\* the view: chunks of two values, fields of two samples and nodes of the same
\* path but another flow or attempt are never taken for it.
IsSample(r, i) ==
    /\ r.node = plan[i].node /\ DOMAIN r.values = plan[i].groups
    /\ \E k \in DOMAIN hist :
          /\ plan[i].groups # {} => SameNode(hist[k], r.node)
          /\ \A g \in DOMAIN r.values : r.values[g] = <<g, hist[k].content[r.node]>>

RowsAreSamples == \A i \in DOMAIN staged : IsSample(staged[i], i)

\* The work of one read is bounded whatever the server answers: the targets and
\* the root each cost a detail, and every chunk brings a byte.
CallsAreBounded ==
    calls <= (MaxDetailed + 1) * (1 + Cardinality(Groups) * FieldBudget)

=============================================================================
