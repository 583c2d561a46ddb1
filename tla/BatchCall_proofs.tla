-------------------------- MODULE BatchCall_proofs --------------------------
(***************************************************************************)
(* What an operator may conclude from a batch command's exit code, for     *)
(* every list of targets, every failure of an item and every damage.       *)
(***************************************************************************)
EXTENDS BatchCall, SequenceTheorems, TLAPS

\* The batch ran to its end, and either the flag or the results still say
\* whether an item failed: one damage does not reach both.
Traceable ==
    /\ Len(executed) = Len(targets)
    /\ \/ answer.flag = BatchFlag(executed)
       \/ answer.results # <<>> /\ (AnyFailed(answer.results) <=> AnyFailed(executed))

Refused == executed = <<>> /\ IsRefusal(answer)

AnswerInv ==
    /\ ~answer.sent => ~damaged
    /\ answer.sent => Traceable \/ Refused
    /\ answer.sent /\ ~damaged => Refused \/ answer = Answer(BatchFlag(executed), executed)

\* Once the client is done, its exit code tells how the answer stood; an attempt
\* that failed has another code than an answer.
VerdictInv ==
    phase = "done" =>
        \/ exit \in {ExitUnreachable, ExitServerError}
        \/ exit = ExitRequestError /\ told = "not sent"
        \/ answer.sent /\ SuccessIsComplete /\ RefusalTouchesNothing

BatchInv == AnswerInv /\ VerdictInv

LEMMA FlagOfBatch == ASSUME NEW results PROVE BatchFlag(results) \in {0, BatchFailed}
BY DEF BatchFlag

LEMMA OnlyZeroIsSuccess == ASSUME NEW flag, ExitCodeForErrorCode(flag) = ExitOK PROVE flag = 0
BY DEF ExitCodeForErrorCode, ExitOK, ExitRequestError, ExitServerError, ExitUnreachable

LEMMA BatchInit == Init => BatchInv
BY DEF Init, NoAnswer, BatchInv, AnswerInv, VerdictInv

\* One damage leaves either the flag or the items' flags as they were.
LEMMA DamageTraceable ==
    ASSUME AnswerInv, DamageAnswer
    PROVE  AnswerInv'
<1> USE BatchAssumption DEF DamageAnswer
<1>1. answer = Answer(BatchFlag(executed), executed) /\ answer.results # <<>>
  BY DEF AnswerInv, Refused, IsRefusal
<1>2. answer.flag = BatchFlag(executed) /\ answer.results = executed BY <1>1 DEF Answer
<1>3. answer'.sent BY DEF DamageResults, DamageFlag, Answer
<1>4. answer'.flag = answer.flag \/ answer'.results = answer.results
  BY DEF DamageResults, DamageFlag, Answer
<1>5. Len(executed) = Len(targets)
  BY <1>1, <1>2 DEF AnswerInv, Traceable, Refused
<1> QED
  BY <1>1, <1>2, <1>3, <1>4, <1>5 DEF AnswerInv, Traceable, BatchFlag, AnyFailed

\* What the client reports of an answer.
LEMMA ReportIsRight ==
    ASSUME AnswerInv, ReceiveAnswer
    PROVE  VerdictInv'
<1> USE DEF ReceiveAnswer
<1>1. CASE ~ValidBatch(answer) BY <1>1 DEF VerdictInv
<1>2. CASE ValidBatch(answer)
  <2>1. printed' = answer.results /\ exit' = ExitCodeForErrorCode(answer.flag) BY <1>2
  <2>2. Traceable \/ Refused BY DEF AnswerInv
  <2>3. SuccessIsComplete'
    <3> SUFFICES ASSUME exit' = ExitOK PROVE Len(executed) = Len(targets) /\ ~AnyFailed(executed)
      BY DEF SuccessIsComplete, AnyFailed
    <3>1. answer.flag = 0 BY <2>1, OnlyZeroIsSuccess
    <3>2. FlagMatches(answer) BY <1>2, <3>1 DEF ValidBatch, IsRefusal
    <3> QED BY <2>2, <3>1, <3>2 DEF Traceable, Refused, IsRefusal, FlagMatches, BatchFlag, BatchFailed
  <2>4. RefusalTouchesNothing'
    <3> SUFFICES ASSUME exit' = ExitRequestError, answer.results = <<>> PROVE executed = <<>>
      BY <2>1 DEF RefusalTouchesNothing
    <3>1. BatchFlag(answer.results) = 0 BY DEF BatchFlag, AnyFailed
    <3>2. answer.flag # 0 BY <2>1 DEF ExitCodeForErrorCode, ExitOK, ExitRequestError
    <3>3. IsRefusal(answer) BY <1>2, <3>1, <3>2 DEF ValidBatch, FlagMatches
    <3> QED BY <2>2, <3>3, FlagOfBatch DEF Traceable, Refused, IsRefusal
  <2> QED BY <2>3, <2>4 DEF VerdictInv
<1> QED BY <1>1, <1>2

LEMMA BatchStep == BatchInv /\ [Next]_vars => BatchInv'
<1> SUFFICES ASSUME BatchInv, [Next]_vars PROVE BatchInv' OBVIOUS
<1> USE BatchAssumption DEF BatchInv
<1>1. CASE ExecuteItem
  BY <1>1 DEF ExecuteItem, AnswerInv, VerdictInv
<1>2. CASE SendAnswer
  <2>1. AnswerInv'
    BY <1>2 DEF SendAnswer, AnswerInv, Answer, Traceable, BatchFlag, AnyFailed
  <2> QED BY <1>2, <2>1 DEF SendAnswer, VerdictInv
<1>3. CASE RefuseRequest
  <2>1. AnswerInv' BY <1>3 DEF RefuseRequest, AnswerInv, Answer, Refused, IsRefusal, BatchFailed
  <2> QED BY <1>3, <2>1 DEF RefuseRequest, VerdictInv
<1>4. CASE DamageAnswer
  <2>1. answer'.sent BY <1>4 DEF DamageAnswer, DamageResults, DamageFlag, Answer
  <2> QED
    BY <1>4, <2>1, DamageTraceable
    DEF DamageAnswer, VerdictInv, SuccessIsComplete, RefusalTouchesNothing, AnyFailed
<1>5. CASE ReceiveAnswer
  <2>1. AnswerInv'
    BY <1>5 DEF ReceiveAnswer, AnswerInv, Traceable, Refused, IsRefusal, BatchFlag, AnyFailed, Answer
  <2> QED BY <1>5, <2>1, ReportIsRight
<1>6. CASE CallFails
  <2>1. AnswerInv'
    BY <1>6 DEF CallFails, AnswerInv, Traceable, Refused, IsRefusal, BatchFlag, AnyFailed, Answer
  <2> QED BY <1>6, <2>1 DEF CallFails, VerdictInv
<1>7. CASE UNCHANGED vars
  BY <1>7 DEF vars, AnswerInv, VerdictInv, Traceable, Refused, IsRefusal, BatchFlag, AnyFailed,
              Answer, SuccessIsComplete, RefusalTouchesNothing
<1> QED BY <1>1, <1>2, <1>3, <1>4, <1>5, <1>6, <1>7 DEF Next

\* The inductive invariant of a batch command: its answer, and what is made of it.
THEOREM BatchSafe == Spec => []BatchInv
BY BatchInit, BatchStep, PTL DEF Spec

LEMMA NoVerdictYet ==
    ASSUME BatchInv PROVE SuccessIsComplete /\ RefusalTouchesNothing
<1>1. /\ ExitOK # ExitRequestError /\ ExitOK # ExitServerError /\ ExitOK # ExitUnreachable
      /\ ExitRequestError # ExitServerError /\ ExitRequestError # ExitUnreachable
  BY DEF ExitOK, ExitRequestError, ExitServerError, ExitUnreachable
<1>2. VerdictInv BY DEF BatchInv
<1> QED BY <1>1, <1>2 DEF VerdictInv, SuccessIsComplete, RefusalTouchesNothing

\* Exit code 0 means that every target was executed and none failed
\* (validateBatch, reportCommandResponse).
THEOREM ExitZeroIsComplete == Spec => []SuccessIsComplete
BY BatchSafe, NoVerdictYet, PTL

\* A batch command that exits with a refusal and prints no result line executed
\* nothing (validateBatch), unless its error is that the request could not be sent,
\* which is also said of an answer net/http cannot parse (classifyHttpError).
THEOREM RefusedIsUntouched == Spec => []RefusalTouchesNothing
BY BatchSafe, NoVerdictYet, PTL
----------------------------------------------------------------------------
(***************************************************************************)
(* Types                                                                   *)
(***************************************************************************)

\* A result that is taken out makes the results fewer.
LEMMA WithoutIsShorter ==
    ASSUME NEW s \in Seq(Results), NEW i \in DOMAIN s
    PROVE  Without(s, i) \in Seq(Results) /\ Len(Without(s, i)) = Len(s) - 1
<1> DEFINE a == SubSeq(s, 1, i - 1)
           b == SubSeq(s, i + 1, Len(s))
<1>1. DOMAIN s = 1 .. Len(s) /\ Len(s) \in Nat /\ \A k \in DOMAIN s : s[k] \in Results OBVIOUS
<1>2. a \in Seq(Results) /\ Len(a) = i - 1 BY <1>1, SubSeqProperties
<1>3. b \in Seq(Results) /\ Len(b) = Len(s) - i BY <1>1, SubSeqProperties
<1>4. Without(s, i) = a \o b BY DEF Without
<1> HIDE DEF a, b
<1>5. a \o b \in Seq(Results) /\ Len(a \o b) = Len(a) + Len(b) BY <1>2, <1>3, ConcatProperties
<1> QED BY <1>1, <1>2, <1>3, <1>4, <1>5

\* Every other damage changes results in their places.
LEMMA SwappedInPlace ==
    ASSUME NEW s \in Seq(Results), NEW i \in DOMAIN s, NEW j \in DOMAIN s
    PROVE  /\ Swapped(s, i, j) \in Seq(Results) /\ Len(Swapped(s, i, j)) = Len(s)
           /\ Swapped(s, i, j)[j] = s[i]
           /\ i = j => Swapped(s, i, j) = s
BY DEF Swapped

LEMMA RenamedInPlace ==
    ASSUME NEW s \in Seq(Results), NEW i \in DOMAIN s, NEW t \in Targets
    PROVE  /\ Renamed(s, i, t) \in Seq(Results) /\ Len(Renamed(s, i, t)) = Len(s)
           /\ \A k \in DOMAIN s : Renamed(s, i, t)[k].flag = s[k].flag
<1> DEFINE r == [s[i] EXCEPT !.target = t]
<1>0. s[i] \in Results BY ElementOfSeq
<1>1. r \in Results /\ r.flag = s[i].flag BY <1>0 DEF Results
<1>2. Renamed(s, i, t) = [s EXCEPT ![i] = r] BY DEF Renamed
<1> HIDE DEF r
<1> QED BY <1>1, <1>2, ExceptSeq

LEMMA BlurredInPlace ==
    ASSUME NEW s \in Seq(Results), NEW i \in DOMAIN s
    PROVE  /\ Blurred(s, i) \in Seq(Results) /\ Len(Blurred(s, i)) = Len(s)
           /\ \A k \in DOMAIN s : Blurred(s, i)[k].flag = s[k].flag
<1> DEFINE r == [s[i] EXCEPT !.effect = "other"]
<1>0. s[i] \in Results BY ElementOfSeq
<1>1. r \in Results /\ r.flag = s[i].flag BY <1>0 DEF Results
<1>2. Blurred(s, i) = [s EXCEPT ![i] = r] BY DEF Blurred
<1> HIDE DEF r
<1> QED BY <1>1, <1>2, ExceptSeq

LEMMA TypeInit == Init => TypeOK
<1>1. <<>> \in Seq(Results) BY EmptySeq
<1>2. Init => NoAnswer.flag \in Nat /\ NoAnswer.results = <<>> /\ NoAnswer.sent \in BOOLEAN
  BY DEF NoAnswer
<1>3. ExitOK \in ExitCodes BY DEF ExitCodes
<1>4. "nothing" \in Sources BY DEF Sources
<1> QED BY <1>1, <1>2, <1>3, <1>4 DEF Init, TypeOK

LEMMA TypeStep == TypeOK /\ [Next]_vars => TypeOK'
<1> SUFFICES ASSUME TypeOK, [Next]_vars PROVE TypeOK' OBVIOUS
<1> USE BatchAssumption DEF TypeOK
<1>1. CASE ExecuteItem
  <2>1. PICK flag \in {0} \cup ItemErrors, effect \in Effects :
          executed' = Append(executed, Item(Len(executed) + 1, flag, effect))
    BY <1>1 DEF ExecuteItem
  <2>2. targets[Len(executed) + 1] \in Targets
    BY <1>1 DEF ExecuteItem, TargetLists
  <2>3. Item(Len(executed) + 1, flag, effect) \in Results
    BY <2>2 DEF Item, Results
  <2> QED BY <1>1, <2>1, <2>3 DEF ExecuteItem
<1>2. CASE SendAnswer
  BY <1>2, FlagOfBatch DEF SendAnswer, Answer, BatchFailed
<1>3. CASE RefuseRequest BY <1>3 DEF RefuseRequest, Answer
<1>4. CASE DamageAnswer
  <2>1. CASE DamageFlag
    <3>1. \E flag \in Nat : answer' = Answer(flag, answer.results) BY <2>1 DEF DamageFlag, BatchFailed
    <3> QED BY <1>4, <3>1 DEF DamageAnswer, Answer
  <2>2. CASE DamageResults
    <3>1. \E results \in Seq(Results) : answer' = Answer(answer.flag, results)
      BY <2>2, EmptySeq, WithoutIsShorter, SwappedInPlace, RenamedInPlace, BlurredInPlace
      DEF DamageResults
    <3> QED BY <1>4, <3>1 DEF DamageAnswer, Answer
  <2> QED BY <1>4, <2>1, <2>2 DEF DamageAnswer
<1>5. CASE ReceiveAnswer
  <2>1. \A flag : ExitCodeForErrorCode(flag) \in ExitCodes BY DEF ExitCodeForErrorCode, ExitCodes
  <2>2. ExitServerError \in ExitCodes /\ <<>> \in Seq(Results) BY EmptySeq DEF ExitCodes
  <2>3. "answer" \in Sources BY DEF Sources
  <2> QED BY <1>5, <2>1, <2>2, <2>3 DEF ReceiveAnswer
<1>6. CASE CallFails
  <2>1. exit' \in ExitCodes BY <1>6 DEF CallFails, ExitCodes
  <2>2. told' \in Sources BY <1>6 DEF CallFails, Sources
  <2> QED BY <1>6, <2>1, <2>2 DEF CallFails
<1>7. CASE UNCHANGED vars BY <1>7 DEF vars
<1> QED BY <1>1, <1>2, <1>3, <1>4, <1>5, <1>6, <1>7 DEF Next

\* The variables of a batch command keep their types.
THEOREM TypeCorrect == Spec => []TypeOK
BY TypeInit, TypeStep, PTL DEF Spec

----------------------------------------------------------------------------
(***************************************************************************)
(* The printed lines                                                       *)
(***************************************************************************)

\* The server's own results are in order and under their targets.
ServerInOrder ==
    /\ Len(executed) <= Len(targets)
    /\ \A i \in DOMAIN executed : executed[i].index = i - 1 /\ executed[i].target = targets[i]

FlagsKept == \A i \in DOMAIN answer.results : answer.results[i].flag = executed[i].flag

\* Results that do not tell what happened are not in their places, or too few.
DamageShows ==
    answer.sent /\ answer.results # <<>> =>
        /\ Len(executed) = Len(targets)
        /\ \/ Len(answer.results) # Len(targets)
           \/ \E i \in DOMAIN answer.results : answer.results[i].index # i - 1
           \/ Len(answer.results) = Len(executed) /\ FlagsKept

PrintInv ==
    /\ ServerInOrder
    /\ DamageShows
    /\ printed # <<>> => phase = "done" /\ answer.sent
    /\ PrintedIsWhatHappened

\* A result that was moved has lost its place.
LEMMA DamageMovesOrKeeps ==
    ASSUME TypeOK, ServerInOrder, Len(executed) = Len(targets), executed # <<>>,
           answer = Answer(BatchFlag(executed), executed), DamageAnswer
    PROVE  DamageShows'
<1> USE BatchAssumption
<1>1. /\ answer.results = executed /\ executed \in Seq(Results)
      /\ DOMAIN executed = 1 .. Len(executed) /\ Len(executed) \in Nat
  BY DEF TypeOK, Answer
<1>2. UNCHANGED <<executed, targets>> BY DEF DamageAnswer
<1>3. ASSUME NEW results \in Seq(Results), Len(results) = Len(executed),
             \A k \in DOMAIN executed : results[k].flag = executed[k].flag,
             NEW flag, answer' = Answer(flag, results)
      PROVE  DamageShows'
  <2>1. answer'.results = results BY <1>3 DEF Answer
  <2>2. DOMAIN results = DOMAIN executed BY <1>1, <1>3
  <2> QED BY <1>2, <1>3, <2>1, <2>2 DEF DamageShows, FlagsKept
<1>4. CASE DamageFlag BY <1>1, <1>3, <1>4 DEF DamageFlag
<1>5. CASE answer' = Answer(answer.flag, <<>>) BY <1>5 DEF DamageShows, Answer
<1>6. ASSUME NEW i \in DOMAIN executed, answer' = Answer(answer.flag, Without(executed, i))
      PROVE  DamageShows'
  <2>1. Len(answer'.results) # Len(executed) BY <1>1, <1>6, WithoutIsShorter DEF Answer
  <2> QED BY <1>2, <2>1 DEF DamageShows
<1>7. ASSUME NEW i \in DOMAIN executed, NEW j \in DOMAIN executed,
             answer' = Answer(answer.flag, Swapped(executed, i, j))
      PROVE  DamageShows'
  <2> DEFINE r == Swapped(executed, i, j)
  <2>1. r \in Seq(Results) /\ Len(r) = Len(executed) /\ r[j] = executed[i] /\ (i = j => r = executed)
    BY <1>1, SwappedInPlace
  <2>2. answer' = Answer(answer.flag, r) /\ answer'.results = r BY <1>7 DEF Answer
  <2> HIDE DEF r
  <2>3. CASE i = j BY <1>1, <1>3, <2>1, <2>2, <2>3
  <2>4. CASE i # j
    <3>1. r[j].index # j - 1 BY <1>1, <2>1, <2>4 DEF ServerInOrder
    <3>2. j \in DOMAIN r BY <1>1, <2>1
    <3> QED BY <1>2, <2>2, <3>1, <3>2 DEF DamageShows
  <2> QED BY <2>3, <2>4
<1>8. ASSUME NEW i \in DOMAIN executed, NEW t \in Targets,
             answer' = Answer(answer.flag, Renamed(executed, i, t))
      PROVE  DamageShows'
  <2> DEFINE r == Renamed(executed, i, t)
  <2>1. r \in Seq(Results) /\ Len(r) = Len(executed) /\ \A k \in DOMAIN executed : r[k].flag = executed[k].flag
    BY <1>1, RenamedInPlace
  <2> QED BY <1>3, <1>8, <2>1
<1>9. ASSUME NEW i \in DOMAIN executed, answer' = Answer(answer.flag, Blurred(executed, i))
      PROVE  DamageShows'
  <2> DEFINE r == Blurred(executed, i)
  <2>1. r \in Seq(Results) /\ Len(r) = Len(executed) /\ \A k \in DOMAIN executed : r[k].flag = executed[k].flag
    BY <1>1, BlurredInPlace
  <2> QED BY <1>3, <1>9, <2>1
<1> QED BY <1>1, <1>4, <1>5, <1>6, <1>7, <1>8, <1>9 DEF DamageAnswer, DamageResults

\* What is printed passed validateBatch, so nothing was moved.
LEMMA PrintIsRight ==
    ASSUME TypeOK, ServerInOrder, DamageShows, ReceiveAnswer
    PROVE  PrintedIsWhatHappened'
<1> USE BatchAssumption DEF ReceiveAnswer
<1>1. SUFFICES ASSUME printed' # <<>>, named
               PROVE  /\ Len(printed') = Len(executed)
                      /\ \A i \in DOMAIN printed' : /\ printed'[i].target = executed[i].target
                                                    /\ printed'[i].flag = executed[i].flag
  BY DEF PrintedIsWhatHappened
<1>2. ValidBatch(answer) /\ printed' = answer.results BY <1>1
<1>3. ~IsRefusal(answer) BY <1>1, <1>2 DEF IsRefusal
<1>4. Len(answer.results) = Len(targets) BY <1>1, <1>2, <1>3 DEF ValidBatch, CountMatches
<1>5. \A i \in DOMAIN answer.results : /\ answer.results[i].index = i - 1
                                       /\ answer.results[i].target = targets[i]
  BY <1>1, <1>2, <1>3 DEF ValidBatch, ItemValid
<1>6. Len(answer.results) = Len(executed) /\ FlagsKept
  BY <1>1, <1>2, <1>4, <1>5 DEF DamageShows
<1>7. DOMAIN answer.results = DOMAIN executed BY <1>6 DEF TypeOK
<1> QED BY <1>2, <1>5, <1>6, <1>7 DEF ServerInOrder, FlagsKept

LEMMA PrintInit == Init => PrintInv
BY DEF Init, NoAnswer, PrintInv, ServerInOrder, DamageShows, PrintedIsWhatHappened, TargetLists

LEMMA PrintStep == TypeOK /\ BatchInv /\ PrintInv /\ [Next]_vars => PrintInv'
<1> SUFFICES ASSUME TypeOK, BatchInv, PrintInv, [Next]_vars PROVE PrintInv' OBVIOUS
<1> USE BatchAssumption DEF PrintInv
<1>1. CASE ExecuteItem
  <2> USE <1>1 DEF ExecuteItem
  <2>1. ServerInOrder'
    <3>1. PICK flag, effect : executed' = Append(executed, Item(Len(executed) + 1, flag, effect))
      OBVIOUS
    <3>2. targets \in Seq(Targets) BY DEF TypeOK, TargetLists
    <3> QED BY <3>1, <3>2 DEF TypeOK, ServerInOrder, Item
  <2>2. printed = <<>> OBVIOUS
  <2> QED BY <2>1, <2>2 DEF DamageShows, PrintedIsWhatHappened
<1>2. CASE SendAnswer
  BY <1>2 DEF SendAnswer, Answer, ServerInOrder, DamageShows, FlagsKept, PrintedIsWhatHappened
<1>3. CASE RefuseRequest
  BY <1>3 DEF RefuseRequest, Answer, ServerInOrder, DamageShows, PrintedIsWhatHappened
<1>4. CASE DamageAnswer
  <2>1. answer = Answer(BatchFlag(executed), executed) /\ executed # <<>>
    BY <1>4 DEF DamageAnswer, BatchInv, AnswerInv, Refused, IsRefusal, Answer
  <2>2. Len(executed) = Len(targets) BY <1>4, <2>1 DEF DamageAnswer, DamageShows, Answer
  <2>3. DamageShows' BY <1>4, <2>1, <2>2, DamageMovesOrKeeps
  <2>4. answer'.sent BY <1>4 DEF DamageAnswer, DamageResults, DamageFlag, Answer
  <2> QED BY <1>4, <2>3, <2>4 DEF DamageAnswer, ServerInOrder, PrintedIsWhatHappened
<1>5. CASE ReceiveAnswer
  BY <1>5, PrintIsRight DEF ReceiveAnswer, ServerInOrder, DamageShows, FlagsKept
<1>6. CASE CallFails
  BY <1>6 DEF CallFails, ServerInOrder, DamageShows, FlagsKept, PrintedIsWhatHappened
<1>7. CASE UNCHANGED vars
  BY <1>7 DEF vars, ServerInOrder, DamageShows, FlagsKept, PrintedIsWhatHappened
<1> QED BY <1>1, <1>2, <1>3, <1>4, <1>5, <1>6, <1>7 DEF Next

\* The result lines of a command that named its targets are what the server did
\* (validateBatch, reportCommandResponse).
THEOREM LinesAreTrue == Spec => []PrintedIsWhatHappened
<1>1. TypeOK /\ TypeOK' /\ BatchInv /\ PrintInv /\ [Next]_vars => PrintInv' BY PrintStep
<1>2. PrintInv => PrintedIsWhatHappened BY DEF PrintInv
<1> QED BY PrintInit, <1>1, <1>2, TypeCorrect, BatchSafe, PTL DEF Spec

----------------------------------------------------------------------------
(***************************************************************************)
(* No false alarm                                                          *)
(***************************************************************************)

\* The server's own results have the effects the protocol names.
EffectsKnown == \A i \in DOMAIN executed : executed[i].effect \in Effects

LEMMA EffectsInit == Init => EffectsKnown
BY DEF Init, EffectsKnown

LEMMA EffectsStep == TypeOK /\ EffectsKnown /\ [Next]_vars => EffectsKnown'
<1> SUFFICES ASSUME TypeOK, EffectsKnown, [Next]_vars PROVE EffectsKnown' OBVIOUS
<1>1. CASE ExecuteItem
  <2>1. PICK flag \in {0} \cup ItemErrors, effect \in Effects :
          executed' = Append(executed, Item(Len(executed) + 1, flag, effect))
    BY <1>1 DEF ExecuteItem
  <2> DEFINE item == Item(Len(executed) + 1, flag, effect)
  <2>2. item.effect \in Effects BY DEF Item
  <2>3. executed \in Seq(Results) BY DEF TypeOK
  <2>4. executed' = Append(executed, item) BY <2>1
  <2> HIDE DEF item
  <2> QED BY <2>2, <2>3, <2>4 DEF EffectsKnown
<1>2. CASE UNCHANGED executed BY <1>2 DEF EffectsKnown
<1> QED BY <1>1, <1>2 DEF Next, vars, SendAnswer, RefuseRequest, DamageAnswer, ReceiveAnswer, CallFails

\* What the server answers of a batch that ran to its end is valid.
LEMMA RanIsValid ==
    ASSUME TypeOK, ServerInOrder, EffectsKnown, Len(executed) = Len(targets),
           NEW a, a = Answer(BatchFlag(executed), executed)
    PROVE  ValidBatch(a)
<1>1. a.flag = BatchFlag(executed) /\ a.results = executed BY DEF Answer
<1>2. CountMatches(a) BY <1>1 DEF CountMatches
<1>3. \A i \in DOMAIN a.results : ItemValid(a, i)
  BY <1>1 DEF ItemValid, ServerInOrder, EffectsKnown
<1>4. FlagMatches(a) BY <1>1 DEF FlagMatches
<1> QED BY <1>2, <1>3, <1>4 DEF ValidBatch

\* An answer that nothing damaged is a refusal, or the batch ran to its end.
LEMMA HonestIsValid ==
    ASSUME TypeOK, BatchInv, ServerInOrder, EffectsKnown PROVE HonestAnswerAccepted
<1> SUFFICES ASSUME answer.sent, ~damaged PROVE ValidBatch(answer) BY DEF HonestAnswerAccepted
<1>1. CASE Refused BY <1>1 DEF Refused, ValidBatch
<1>2. CASE ~Refused
  <2>1. answer = Answer(BatchFlag(executed), executed) /\ Len(executed) = Len(targets)
    BY <1>2 DEF BatchInv, AnswerInv, Traceable
  <2> QED BY <2>1, RanIsValid
<1> QED BY <1>1, <1>2

\* A client accepts every answer that arrives as the server sent it, so that a
\* command the server served is never reported as a fault of the server
\* (validateBatch).
THEOREM NoFalseAlarm == Spec => []HonestAnswerAccepted
<1>1. TypeOK /\ TypeOK' /\ BatchInv /\ PrintInv /\ [Next]_vars => PrintInv' BY PrintStep
<1>2. PrintInv => ServerInOrder BY DEF PrintInv
<1>3. TypeOK /\ BatchInv /\ ServerInOrder /\ EffectsKnown => HonestAnswerAccepted BY HonestIsValid
<1> QED BY PrintInit, EffectsInit, EffectsStep, <1>1, <1>2, <1>3, TypeCorrect, BatchSafe, PTL DEF Spec
=============================================================================
