--------------------------- MODULE SupervisorProofs ---------------------------
(***************************************************************************)
(* Proofs about Supervisor, for any set of callers, any step lists and any *)
(* bounds.                                                                 *)
(***************************************************************************)
EXTENDS Supervisor, FiniteSetTheorems, TLAPS

\* The caller is inside _run_step, or will be after its database operation.
InRunStep(c) ==
    \/ pc[c] \in {"step", "select", "insert", "refused", "decide", "recover", "recovered"}
    \/ after[c] \in {"step", "refused", "decide", "recover", "recovered"}

\* What makes the types inductive: inside _run_step there is a current step.
HasStep == \A c \in Callers : InRunStep(c) => index[c] \in DOMAIN plan[c]

TypeInv == TypeOK /\ HasStep

LEMMA ResType ==
    ASSUME NEW s \in StepState, NEW e \in ErrorCode, NEW b \in BOOLEAN,
           NEW c \in Confidence, NEW o \in Outcome
    PROVE  Res(s, e, b, c, o) \in Result
  BY DEF Res, Result

LEMMA ResultsType ==
    /\ Refusal \in Result
    /\ RelocalizationResults \subseteq Result
    /\ \A t \in Tools : OperationResults(t) \subseteq Result
    /\ \A r \in Result : TimedOut(r) \in Result
<1> USE ResType DEF StepState, ErrorCode, Confidence, Outcome
<1>1. NoAdapter \in Result /\ Refusal \in Result
  BY DEF NoAdapter, Refusal
<1>2. RelocalizationResults \subseteq Result
  <2>1. ASSUME NEW status, NEW c \in Confidence
        PROVE  RelocalizationResult(status, c) \in Result
    BY ResType, Zenon DEF RelocalizationResult, StepState, ErrorCode, Outcome
  <2>2. \A o \in RelocalizationOutcomes \union FakeRelocalizationOutcomes : o[2] \in Confidence
    BY DEF RelocalizationOutcomes, FakeRelocalizationOutcomes
  <2> QED BY <1>1, <2>1, <2>2, Zenon DEF RelocalizationResults
<1>3. NavigationResults \subseteq Result
  <2>1. ASSUME NEW status, NEW c \in Confidence
        PROVE  NavigationResult(status, c) \in Result
    BY ResType, Zenon DEF NavigationResult, StepState, ErrorCode, Outcome
  <2>2. \A o \in NavigationOutcomes \union FakeNavigationOutcomes : o[2] \in Confidence
    BY DEF NavigationOutcomes, FakeNavigationOutcomes
  <2> QED BY <1>1, <2>1, <2>2, Zenon DEF NavigationResults
<1>4. CaptureResults \subseteq Result
  BY <1>1 DEF CaptureResults
<1>5. InspectionResults \subseteq Result
  BY <1>1 DEF InspectionResults
<1>6. CommandResults \subseteq Result /\ SuppliedResults \subseteq Result
  BY DEF CommandResults, SuppliedResults
<1>7. \A t \in Tools : OperationResults(t) \subseteq Result
  BY <1>2, <1>3, <1>4, <1>5, <1>6, Zenon DEF OperationResults, Tools
<1>8. \A r \in Result : TimedOut(r) \in Result
  BY DEF TimedOut, OrElse, Result
<1> QED BY <1>1, <1>2, <1>7, <1>8

LEMMA PlanType == TypeOK => plan \in [Callers -> Seq(Step)]
<1>1. <<>> \in Seq(Step)
  OBVIOUS
<1>2. Plans \union {<<>>} \subseteq Seq(Step)
  BY <1>1, PlansAssumption
<1> HIDE DEF Step
<1> QED BY <1>2 DEF TypeOK

LEMMA CurrentStepType ==
    ASSUME TypeInv, NEW c \in Callers, InRunStep(c)
    PROVE  CurrentStep(c) \in Step
  BY PlanType DEF TypeInv, HasStep, CurrentStep

LEMMA MergeType ==
    ASSUME NEW row \in Row, NEW u \in Update
    PROVE  Merge(row, u) \in Row
<1> DEFINE o == IF u.outcome = "keep" THEN row.outcome ELSE u.outcome
<1>1. u.status \in TaskStatus /\ o \in Outcome /\ (row.ended \/ u.ended) \in BOOLEAN
  BY DEF Row, Update
<1>2. Merge(row, u) = [status |-> u.status, outcome |-> o, ended |-> row.ended \/ u.ended]
  BY DEF Merge
<1> HIDE DEF o
<1> QED BY <1>1, <1>2 DEF Row

LEMMA InitTypeInv == Init => TypeInv
<1> SUFFICES ASSUME Init PROVE TypeInv
  OBVIOUS
<1>1. NoRow \in Row /\ NoUpdate \in Update
  BY DEF NoRow, NoUpdate, Upd, Row, Update, TaskStatus, Outcome
<1>2. task \in Row
  BY InitStatusesAssumption DEF Init, Row, Outcome
<1>3. log \in Seq(LogRow)
  BY DEF Init
<1>4. TypeOK
  BY <1>1, <1>2, <1>3, BoundsAssumption, ResultsType
  DEF Init, TypeOK, Pcs, Continuations, TaskStatus, TerminalStatuses, Replies
<1>5. HasStep
  BY DEF Init, HasStep, InRunStep
<1> QED BY <1>4, <1>5 DEF TypeInv

\* The updates that end a step are well typed.
LEMMA UpdateType ==
    ASSUME NEW r \in Result, NEW s \in TaskStatus, NEW o \in Outcome \union {"keep"},
           NEW d \in Outcome, NEW b \in BOOLEAN
    PROVE  Upd(s, o, b) \in Update /\ Upd(s, OrElse(r.outcome, d), b) \in Update
  BY DEF Upd, Update, OrElse, Result

\* Every action that only ends the step is typed alike.
LEMMA EndStepType ==
    ASSUME TypeInv, NEW c \in Callers, NEW s \in TaskStatus, NEW d \in Outcome,
           EndStep(c, s, d),
           UNCHANGED <<dbVars, callVars, stepVars, reply, opVars, cancelled>>
    PROVE  TypeInv'
<1>1. Upd(s, OrElse(result[c].outcome, d), TRUE) \in Update
  BY UpdateType DEF TypeInv, TypeOK
<1> QED
  BY <1>1 DEF TypeInv, TypeOK, HasStep, InRunStep, EndStep, StartUpdate, Goto, Pcs, Continuations,
      dbVars, callVars, stepVars, opVars

LEMMA ReplyForType == \A s : ReplyFor(s) \in Replies
<1> TAKE s
<1>1. \/ ReplyFor(s) = "success" \/ ReplyFor(s) = "blocked"
      \/ ReplyFor(s) = "inconclusive" \/ ReplyFor(s) = "failed"
  BY Zenon DEF ReplyFor
<1> QED BY <1>1 DEF Replies

LEMMA NextTypeInv == TypeInv /\ [Next]_vars => TypeInv'
<1> SUFFICES ASSUME TypeInv, [Next]_vars PROVE TypeInv'
  OBVIOUS
<1> USE DEF TypeInv, HasStep, InRunStep, dbVars, callVars, stepVars, ioVars, opVars
<1>1. ASSUME NEW c \in Callers, NEW p \in Plans, CallTool(c, p) PROVE TypeInv'
  BY <1>1, PlansAssumption, BoundsAssumption
  DEF TypeOK, CallTool, StartUpdate, Upd, Update, TaskStatus, TerminalStatuses, Goto, Pcs,
     Continuations, Replies
<1>2. ASSUME NEW c \in Callers, ResolveTarget(c) PROVE TypeInv'
  BY <1>2, BoundsAssumption
  DEF TypeOK, ResolveTarget, StartUpdate, Upd, Update, Row, Goto, Pcs, Continuations, Replies
<1>3. ASSUME NEW c \in Callers, ReadRow(c) PROVE TypeInv'
  BY <1>3 DEF TypeOK, ReadRow, Goto, Pcs, Continuations
<1>4. ASSUME NEW c \in Callers, WriteRow(c) PROVE TypeInv'
  <2>1. Merge(snap[c], upd[c]) \in Row /\ upd[c].status \in TaskStatus
    BY MergeType DEF TypeOK, Update
  <2>2. NoUpdate \in Update /\ NoRow \in Row
    BY DEF NoUpdate, NoRow, Upd, Update, Row, TaskStatus, Outcome
  <2>3. task' \in Row /\ seen' \in [Callers -> TaskStatus] /\ cancelled' \in [Callers -> BOOLEAN]
    BY <1>4, <2>1 DEF TypeOK, WriteRow
  <2>4. upd' \in [Callers -> Update] /\ snap' \in [Callers -> Row]
    BY <1>4, <2>2 DEF TypeOK, WriteRow
  <2>5. pc' \in [Callers -> Pcs] /\ after' \in [Callers -> Continuations]
    BY <1>4 DEF TypeOK, WriteRow, Goto, Pcs, Continuations
  <2>6. TypeOK'
    BY <1>4, <2>3, <2>4, <2>5 DEF TypeOK, WriteRow
  <2>7. HasStep'
    BY <1>4 DEF TypeOK, WriteRow, Goto, Continuations
  <2> QED BY <2>6, <2>7
<1>5. ASSUME NEW c \in Callers, RefuseStep(c) PROVE TypeInv'
  BY <1>5, ResultsType DEF TypeOK, RefuseStep, StartAppend, Goto, Pcs, Continuations
<1>6. ASSUME NEW c \in Callers, RunOperation(c) PROVE TypeInv'
  <2>1. OperationResults(CurrentStep(c).tool) \subseteq Result
    BY <1>6, ResultsType, CurrentStepType DEF RunOperation, Step
  <2>2. PICK r \in Result : result' = [result EXCEPT ![c] = r]
    BY <1>6, <2>1, ResultsType DEF RunOperation
  <2> QED BY <1>6, <2>2 DEF TypeOK, RunOperation, StartAppend, Goto, Pcs, Continuations
<1>7. ASSUME NEW c \in Callers, OperationRaises(c) PROVE TypeInv'
  BY <1>7, ResultsType DEF TypeOK, OperationRaises, Raise, Leave, Goto, Pcs, Continuations,
     Replies, TaskStatus
<1>8. ASSUME NEW c \in Callers, SelectSlot(c) PROVE TypeInv'
  BY <1>8 DEF TypeOK, SelectSlot, Goto, Pcs, Continuations
<1>9. ASSUME NEW c \in Callers, InsertRow(c) PROVE TypeInv'
  <2>1. NewRow(c) \in LogRow
    BY <1>9, CurrentStepType DEF TypeOK, InsertRow, NewRow, LogRow, Result
  <2>2. log' \in Seq(LogRow)
    BY <1>9, <2>1 DEF TypeOK, InsertRow
  <2> QED BY <1>9, <2>2 DEF TypeOK, InsertRow, Goto, Pcs, Continuations
<1>10. ASSUME NEW c \in Callers, InsertConflict(c) PROVE TypeInv'
  BY <1>10, ResultsType DEF TypeOK, InsertConflict, Raise, Leave, Goto, Pcs, Continuations,
     Replies, TaskStatus
<1>11. ASSUME NEW c \in Callers, MarkRefused(c) PROVE TypeInv'
  BY <1>11, EndStepType DEF MarkRefused, TaskStatus, TerminalStatuses, Outcome
<1>12. ASSUME NEW c \in Callers, MarkInconclusive(c) PROVE TypeInv'
  BY <1>12, EndStepType DEF MarkInconclusive, TaskStatus, TerminalStatuses, Outcome
<1>13. ASSUME NEW c \in Callers, MarkBlocked(c) PROVE TypeInv'
  BY <1>13, EndStepType DEF MarkBlocked, TaskStatus, TerminalStatuses, Outcome
<1>14. ASSUME NEW c \in Callers, MarkCancelled(c) PROVE TypeInv'
  BY <1>14, EndStepType DEF MarkCancelled, TaskStatus, TerminalStatuses, Outcome
<1>15. ASSUME NEW c \in Callers, RecoveryBlocked(c) PROVE TypeInv'
  BY <1>15, EndStepType DEF RecoveryBlocked, TaskStatus, TerminalStatuses, Outcome
<1>16. ASSUME NEW c \in Callers, BlockForOperator(c) PROVE TypeInv'
  BY <1>16, EndStepType DEF BlockForOperator, TaskStatus, TerminalStatuses, Outcome
<1>17. ASSUME NEW c \in Callers, MarkFailed(c) PROVE TypeInv'
  BY <1>17, EndStepType DEF MarkFailed, TaskStatus, TerminalStatuses, Outcome
<1>18. ASSUME NEW c \in Callers, StopAfterStep(c) PROVE TypeInv'
  BY <1>18 DEF TypeOK, StopAfterStep, StepSucceeded, Conclusive, Reread, Row, Goto, Pcs,
     Continuations
<1>19. ASSUME NEW c \in Callers, NextStep(c) PROVE TypeInv'
  <2>1. index[c] + 1 \in DOMAIN plan[c]
    BY <1>19, PlanType DEF TypeOK, NextStep
  <2> QED
    BY <1>19, <2>1 DEF TypeOK, NextStep, StepSucceeded, Conclusive, Reread, Row, Goto, Pcs,
       Continuations
<1>20. ASSUME NEW c \in Callers, BeginSummary(c) PROVE TypeInv'
  <2>1. Upd("summarizing", "keep", FALSE) \in Update
    BY UpdateType, ResultsType DEF TaskStatus, Outcome
  <2> QED
    BY <1>20, <2>1 DEF TypeOK, BeginSummary, StartUpdate, Reread, Row, Goto, Pcs, Continuations
<1>21. ASSUME NEW c \in Callers, CompleteTask(c) PROVE TypeInv'
  <2>1. Upd("completed", "completed", TRUE) \in Update
    BY UpdateType, ResultsType DEF TaskStatus, TerminalStatuses, Outcome
  <2> QED BY <1>21, <2>1 DEF TypeOK, CompleteTask, StartUpdate, Goto, Pcs, Continuations
<1>22. ASSUME NEW c \in Callers, BeginRecovery(c) PROVE TypeInv'
  <2>1. Upd("recovering", "keep", FALSE) \in Update
    BY UpdateType, ResultsType DEF TaskStatus, Outcome
  <2> QED
    BY <1>22, <2>1
    DEF TypeOK, BeginRecovery, StepFailed, Conclusive, StartUpdate, Goto, Pcs, Continuations
<1>23. ASSUME NEW c \in Callers, Recover(c) PROVE TypeInv'
  <2>1. PICK r \in Result : result' = [result EXCEPT ![c] = r]
    BY <1>23, ResultsType DEF Recover
  <2> QED BY <1>23, <2>1 DEF TypeOK, Recover, StartAppend, Goto, Pcs, Continuations
<1>24. ASSUME NEW c \in Callers, RecoverySucceeded(c) PROVE TypeInv'
  <2>1. Upd("executing", "keep", FALSE) \in Update
    BY UpdateType, ResultsType DEF TaskStatus, Outcome
  <2>2. attempt' \in [Callers -> Nat]
    BY <1>24 DEF TypeOK, RecoverySucceeded
  <2>3. upd' \in [Callers -> Update]
    BY <1>24, <2>1 DEF TypeOK, RecoverySucceeded, StartUpdate
  <2>4. pc' \in [Callers -> Pcs] /\ after' \in [Callers -> Continuations]
    BY <1>24 DEF TypeOK, RecoverySucceeded, StartUpdate, Goto, Pcs, Continuations
  <2>5. TypeOK'
    BY <1>24, <2>2, <2>3, <2>4 DEF TypeOK, RecoverySucceeded, StartUpdate
  <2>6. HasStep'
    BY <1>24 DEF TypeOK, RecoverySucceeded, StartUpdate, Goto
  <2> QED BY <2>5, <2>6
<1>25. ASSUME NEW c \in Callers, RetryStep(c) PROVE TypeInv'
  BY <1>25 DEF TypeOK, RetryStep, Unrecovered, StepFailed, Conclusive, Goto, Pcs, Continuations
<1>26. ASSUME NEW c \in Callers, Return(c) PROVE TypeInv'
  <2>1. ReplyFor(seen[c]) \in Replies
    BY ReplyForType
  <2>2. "resolved" \in Replies /\ "created" \in TaskStatus
    BY DEF Replies, TaskStatus
  <2>3. reply' \in [Callers -> Replies]
    BY <1>26, <2>1, <2>2 DEF TypeOK, Return
  <2> QED BY <1>26, <2>2, <2>3, ResultsType DEF TypeOK, Return, Leave, Goto, Pcs, Continuations
<1>27. ASSUME NEW e \in DOMAIN EventMap, RouteEvent(e) PROVE TypeInv'
  <2>1. opPc' \in {"idle", "read", "write"} /\ opTarget' \in TaskStatus
    BY <1>27 DEF TypeOK, RouteEvent, ApplyEvent
  <2>2. events' \in 0..MaxEvents
    BY <1>27, BoundsAssumption DEF TypeOK, RouteEvent
  <2> QED BY <1>27, <2>1, <2>2 DEF TypeOK, RouteEvent
<1>28. ASSUME OperatorReadRow PROVE TypeInv'
  BY <1>28 DEF TypeOK, OperatorReadRow
<1>29. ASSUME OperatorWriteRow PROVE TypeInv'
  <2>1. Upd(opTarget, "keep", FALSE) \in Update
    BY UpdateType, ResultsType DEF TypeOK, Outcome
  <2>2. Merge(opSnap, Upd(opTarget, "keep", FALSE)) \in Row
    BY <2>1, MergeType DEF TypeOK
  <2>3. "cancelled" \in TaskStatus /\ NoRow \in Row
    BY DEF NoRow, Row, TaskStatus, TerminalStatuses, Outcome
  <2>4. cancelled' \in [Callers -> BOOLEAN]
    BY <1>29, Zenon DEF OperatorWriteRow
  <2> QED BY <1>29, <2>2, <2>3, <2>4 DEF TypeOK, OperatorWriteRow
<1>30. CASE UNCHANGED vars
  BY <1>30 DEF TypeOK, vars
<1> QED
  BY <1>1, <1>2, <1>3, <1>4, <1>5, <1>6, <1>7, <1>8, <1>9, <1>10, <1>11, <1>12, <1>13,
     <1>14, <1>15, <1>16, <1>17, <1>18, <1>19, <1>20, <1>21, <1>22, <1>23, <1>24, <1>25,
     <1>26, <1>27, <1>28, <1>29, <1>30
  DEF Next, Operator, Proceed, RunStep

\* The types of the task row, the step log and every local of the supervised
\* threads, whatever the threads and the operator interleave.
THEOREM TypeCorrect == Spec => []TypeOK
<1>1. TypeInv => TypeOK
  BY DEF TypeInv
<1> QED
  BY InitTypeInv, NextTypeInv, <1>1, PTL DEF Spec

-------------------------------------------------------------------------------
\* A number computed by SELECT MAX is never ahead of the log.
SlotInv == \A c \in Callers : pc[c] = "insert" => slot[c] <= Len(log) + 1

LogInv == StepLogContiguous /\ SlotInv

\* The two actions that matter: the number is computed, the row is inserted.
LEMMA SelectSlotLogInv ==
    ASSUME TypeOK, LogInv, NEW c \in Callers, SelectSlot(c) PROVE LogInv'
<1>1. log' = log /\ slot' = [slot EXCEPT ![c] = Len(log) + 1] /\ pc' = [pc EXCEPT ![c] = "insert"]
  BY DEF SelectSlot, Goto, dbVars
<1>2. Len(log) \in Nat
  BY DEF TypeOK
<1>3. SlotInv'
  BY <1>1, <1>2 DEF LogInv, SlotInv, TypeOK
<1> QED BY <1>1, <1>3 DEF LogInv, StepLogContiguous

LEMMA InsertRowLogInv ==
    ASSUME TypeOK, LogInv, NEW c \in Callers, InsertRow(c) PROVE LogInv'
<1>1. slot[c] = Len(log) + 1
  BY DEF InsertRow, SlotFree, LogInv, SlotInv, TypeOK
<1>2. log' = Append(log, NewRow(c)) /\ NewRow(c).seq = Len(log) + 1
  BY <1>1 DEF InsertRow, NewRow
<1>3. /\ Len(log') = Len(log) + 1
      /\ \A i \in DOMAIN log : log'[i] = log[i]
      /\ log'[Len(log) + 1] = NewRow(c)
  BY <1>2 DEF TypeOK
<1>4. StepLogContiguous'
  <2> SUFFICES ASSUME NEW i \in DOMAIN log' PROVE log'[i].seq = i
    BY DEF StepLogContiguous
  <2>1. CASE i \in DOMAIN log
    BY <2>1, <1>3 DEF LogInv, StepLogContiguous
  <2>2. CASE i = Len(log) + 1
    BY <2>2, <1>2, <1>3
  <2> QED BY <1>2, <1>3, <2>1, <2>2 DEF TypeOK
<1>5. SlotInv'
  <2> SUFFICES ASSUME NEW d \in Callers, pc'[d] = "insert" PROVE slot'[d] <= Len(log') + 1
    BY DEF SlotInv
  <2>1. d # c
    BY DEF InsertRow, Goto, TypeOK, Continuations
  <2>2. pc[d] = "insert" /\ slot'[d] = slot[d]
    BY <2>1 DEF InsertRow, Goto, TypeOK
  <2> QED BY <2>2, <1>3 DEF LogInv, SlotInv, TypeOK
<1> QED BY <1>4, <1>5 DEF LogInv

\* Nothing else writes the log, and nothing else enters the INSERT.
LEMMA OtherLogInv ==
    ASSUME TypeOK, LogInv, log' = log,
           \A c \in Callers : pc'[c] = "insert" => pc[c] = "insert" /\ slot'[c] = slot[c]
    PROVE  LogInv'
  BY DEF LogInv, StepLogContiguous, SlotInv

LEMMA NextLogInv == TypeOK /\ LogInv /\ [Next]_vars => LogInv'
<1> SUFFICES ASSUME TypeOK, LogInv, [Next]_vars PROVE LogInv'
  OBVIOUS
<1> USE DEF TypeOK, Goto, dbVars, ioVars
<1>1. ASSUME NEW c \in Callers, NEW p \in Plans, CallTool(c, p) PROVE LogInv'
  BY <1>1, OtherLogInv DEF CallTool, StartUpdate
<1>2. ASSUME NEW c \in Callers, ResolveTarget(c) PROVE LogInv'
  BY <1>2, OtherLogInv DEF ResolveTarget, StartUpdate
<1>3. ASSUME NEW c \in Callers, ReadRow(c) \/ WriteRow(c) PROVE LogInv'
  <2>1. log' = log /\ slot' = slot
    BY <1>3 DEF ReadRow, WriteRow
  <2>2. after[c] # "insert"
    BY DEF Continuations
  <2>3. pc' = [pc EXCEPT ![c] = "write"] \/ pc' = [pc EXCEPT ![c] = after[c]]
    BY <1>3 DEF ReadRow, WriteRow
  <2> QED BY <2>1, <2>2, <2>3, OtherLogInv
<1>4. ASSUME NEW c \in Callers, RefuseStep(c) \/ RunOperation(c) \/ Recover(c) PROVE LogInv'
  BY <1>4, OtherLogInv DEF RefuseStep, RunOperation, Recover, StartAppend
<1>5. ASSUME NEW c \in Callers, OperationRaises(c) \/ InsertConflict(c) \/ Return(c)
      PROVE LogInv'
  BY <1>5, OtherLogInv DEF OperationRaises, InsertConflict, Return, Raise, Leave
<1>6. ASSUME NEW c \in Callers, SelectSlot(c) PROVE LogInv'
  BY <1>6, SelectSlotLogInv
<1>7. ASSUME NEW c \in Callers, InsertRow(c) PROVE LogInv'
  BY <1>7, InsertRowLogInv
<1>8. ASSUME NEW c \in Callers,
             \/ MarkRefused(c) \/ MarkInconclusive(c) \/ MarkBlocked(c) \/ MarkCancelled(c)
             \/ RecoveryBlocked(c) \/ BlockForOperator(c) \/ MarkFailed(c)
      PROVE LogInv'
  BY <1>8, OtherLogInv
  DEF MarkRefused, MarkInconclusive, MarkBlocked, MarkCancelled, RecoveryBlocked,
      BlockForOperator, MarkFailed, EndStep, StartUpdate
<1>9. ASSUME NEW c \in Callers, StopAfterStep(c) \/ NextStep(c) \/ RetryStep(c) PROVE LogInv'
  BY <1>9, OtherLogInv DEF StopAfterStep, NextStep, RetryStep
<1>10. ASSUME NEW c \in Callers,
              BeginSummary(c) \/ CompleteTask(c) \/ BeginRecovery(c) \/ RecoverySucceeded(c)
       PROVE LogInv'
  BY <1>10, OtherLogInv
  DEF BeginSummary, CompleteTask, BeginRecovery, RecoverySucceeded, StartUpdate
<1>11. ASSUME Operator PROVE LogInv'
  <2>1. log' = log /\ pc' = pc /\ slot' = slot
    BY <1>11 DEF Operator, RouteEvent, OperatorReadRow, OperatorWriteRow
  <2> QED BY <2>1, OtherLogInv
<1>12. CASE UNCHANGED vars
  BY <1>12, OtherLogInv DEF vars
<1> QED
  BY <1>1, <1>2, <1>3, <1>4, <1>5, <1>6, <1>7, <1>8, <1>9, <1>10, <1>11, <1>12
  DEF Next, Proceed, RunStep

\* The step log of a task is numbered 1, 2, 3, ... without gap or duplicate,
\* however many threads append to it (append_task_step).
THEOREM LogNumbered == Spec => []StepLogContiguous
<1>1. Init => LogInv
  BY DEF Init, LogInv, StepLogContiguous, SlotInv
<1>2. LogInv => StepLogContiguous
  BY DEF LogInv
<1> QED
  BY TypeCorrect, NextLogInv, <1>1, <1>2, PTL DEF Spec

-------------------------------------------------------------------------------
\* What the rows a call has logged say of its attempts and of its reply, for
\* any number of calls on one task and any operator.

CallerStep(c) == (\E p \in Plans : CallTool(c, p)) \/ ResolveTarget(c) \/ Proceed(c)

\* Calls are numbered, a number is one caller's, and rows are of a call; after
\* is where a repository operation returns to, and there is a reply only
\* between calls.
CallInv ==
    /\ \A c \in Callers :
          /\ call[c] =< calls /\ (pc[c] # "idle" => call[c] # 0 /\ reply[c] = "none")
          /\ pc[c] \in {"read", "write"} => after[c] \in {"step", "recover", "complete", "return"}
          /\ pc[c] \in {"select", "insert"} => after[c] \in {"refused", "decide", "recovered"}
          /\ pc[c] \notin {"read", "write", "select", "insert"} => after[c] = "idle"
    /\ \A c, d \in Callers : c # d /\ call[c] = call[d] => call[c] = 0
    /\ \A i \in DOMAIN log : log[i].call \in 1..calls

LEMMA CallerFrame ==
    ASSUME TypeOK, NEW c \in Callers, CallerStep(c)
    PROVE  /\ \A d \in Callers \ {c} :
                 /\ pc'[d] = pc[d] /\ after'[d] = after[d] /\ attempt'[d] = attempt[d]
                 /\ result'[d] = result[d] /\ upd'[d] = upd[d] /\ seen'[d] = seen[d]
                 /\ reply'[d] = reply[d] /\ plan'[d] = plan[d] /\ call'[d] = call[d]
                 /\ index'[d] = index[d]
           /\ InsertRow(c) \/ log' = log
           /\ \/ pc[c] = "idle" /\ calls' = calls + 1 /\ call' = [call EXCEPT ![c] = calls + 1]
              \/ Proceed(c) /\ calls' = calls /\ call' = call
<1> USE DEF TypeOK, Goto, dbVars, callVars, stepVars, ioVars, opVars
<1>1. ASSUME NEW p \in Plans, CallTool(c, p)
      PROVE  /\ \A d \in Callers \ {c} :
                   /\ pc'[d] = pc[d] /\ after'[d] = after[d] /\ attempt'[d] = attempt[d]
                   /\ result'[d] = result[d] /\ upd'[d] = upd[d] /\ seen'[d] = seen[d]
                   /\ reply'[d] = reply[d] /\ plan'[d] = plan[d] /\ call'[d] = call[d]
                   /\ index'[d] = index[d]
             /\ log' = log
             /\ pc[c] = "idle" /\ calls' = calls + 1 /\ call' = [call EXCEPT ![c] = calls + 1]
  BY <1>1 DEF CallTool, StartUpdate
<1>2. CASE ResolveTarget(c)
  BY <1>2 DEF ResolveTarget, StartUpdate
<1>3. CASE ReadRow(c) \/ WriteRow(c)
  BY <1>3 DEF ReadRow, WriteRow, Proceed
<1>4. CASE RefuseStep(c) \/ RunOperation(c)
  <2>1. Proceed(c)
    BY <1>4 DEF Proceed, RunStep
  <2> QED
    BY <1>4, <2>1 DEF RefuseStep, RunOperation, StartAppend
<1>5. CASE OperationRaises(c) \/ SelectSlot(c) \/ InsertRow(c) \/ InsertConflict(c)
  <2>1. Proceed(c)
    BY <1>5 DEF Proceed, RunStep
  <2> QED
    BY <1>5, <2>1 DEF OperationRaises, SelectSlot, InsertRow, InsertConflict, Raise, Leave
<1>6. CASE MarkRefused(c) \/ MarkInconclusive(c) \/ MarkBlocked(c) \/ MarkCancelled(c)
           \/ RecoveryBlocked(c) \/ BlockForOperator(c) \/ MarkFailed(c)
  <2>1. Proceed(c)
    BY <1>6 DEF Proceed, RunStep
  <2> QED
    BY <1>6, <2>1 DEF MarkRefused, MarkInconclusive, MarkBlocked, MarkCancelled, RecoveryBlocked,
                      BlockForOperator, MarkFailed, EndStep, StartUpdate
<1>7. CASE StopAfterStep(c) \/ NextStep(c) \/ BeginSummary(c)
  <2>1. Proceed(c)
    BY <1>7 DEF Proceed, RunStep
  <2> QED
    BY <1>7, <2>1 DEF StopAfterStep, NextStep, BeginSummary, StartUpdate
<1>8. CASE BeginRecovery(c) \/ Recover(c) \/ RecoverySucceeded(c) \/ RetryStep(c)
  <2>1. Proceed(c)
    BY <1>8 DEF Proceed, RunStep
  <2> QED
    BY <1>8, <2>1 DEF BeginRecovery, Recover, RecoverySucceeded, RetryStep, StartUpdate,
                      StartAppend
<1>9. CASE CompleteTask(c) \/ Return(c)
  BY <1>9 DEF CompleteTask, Return, Leave, StartUpdate, Proceed
<1> QED
  BY <1>1, <1>2, <1>3, <1>4, <1>5, <1>6, <1>7, <1>8, <1>9 DEF CallerStep, Proceed, RunStep

\* The operator's steps leave the callers and the log alone.
LEMMA OperatorFrame ==
    ASSUME Operator \/ UNCHANGED vars
    PROVE  UNCHANGED <<log, pc, after, call, plan, index, attempt, result, upd, seen, reply, calls>>
BY DEF Operator, RouteEvent, OperatorReadRow, OperatorWriteRow, vars, dbVars, callVars, stepVars,
       ioVars

LEMMA InsertEffect ==
    ASSUME TypeOK, NEW c \in Callers, InsertRow(c)
    PROVE  /\ DOMAIN log = 1..Len(log) /\ Len(log) \in Nat
           /\ DOMAIN log' = 1..(Len(log) + 1)
           /\ \A i \in DOMAIN log : log'[i] = log[i]
           /\ log'[Len(log) + 1] = NewRow(c)
  BY DEF InsertRow, TypeOK

\* Where a step of a caller leads.
LEMMA CallerPlaces ==
    ASSUME TypeOK, CallInv, NEW c \in Callers, CallerStep(c)
    PROVE  /\ pc'[c] # "idle" => reply'[c] = "none"
           /\ pc'[c] \in {"read", "write"} =>
                 after'[c] \in {"step", "recover", "complete", "return"}
           /\ pc'[c] \in {"select", "insert"} => after'[c] \in {"refused", "decide", "recovered"}
           /\ pc'[c] \notin {"read", "write", "select", "insert"} => after'[c] = "idle"
<1> USE DEF TypeOK, CallInv, Goto, dbVars, callVars, stepVars, ioVars, opVars
<1>1. CASE \E p \in Plans : CallTool(c, p)
  BY <1>1 DEF CallTool, StartUpdate
<1>2. CASE ResolveTarget(c)
  BY <1>2 DEF ResolveTarget, StartUpdate
<1>3. CASE ReadRow(c) \/ WriteRow(c)
  BY <1>3 DEF ReadRow, WriteRow
<1>4. CASE RefuseStep(c) \/ RunOperation(c)
  BY <1>4 DEF RefuseStep, RunOperation, StartAppend
<1>5. CASE OperationRaises(c) \/ SelectSlot(c) \/ InsertRow(c) \/ InsertConflict(c)
  BY <1>5 DEF OperationRaises, SelectSlot, InsertRow, InsertConflict, Raise, Leave
<1>6. CASE MarkRefused(c) \/ MarkInconclusive(c) \/ MarkBlocked(c) \/ MarkCancelled(c)
           \/ RecoveryBlocked(c) \/ BlockForOperator(c) \/ MarkFailed(c)
  BY <1>6 DEF MarkRefused, MarkInconclusive, MarkBlocked, MarkCancelled, RecoveryBlocked,
              BlockForOperator, MarkFailed, EndStep, StartUpdate, Conclusive, StepFailed,
              Unrecovered
<1>7. CASE StopAfterStep(c) \/ NextStep(c) \/ BeginSummary(c)
  BY <1>7 DEF StopAfterStep, NextStep, BeginSummary, StartUpdate, StepSucceeded, Conclusive
<1>8. CASE BeginRecovery(c) \/ Recover(c) \/ RecoverySucceeded(c) \/ RetryStep(c)
  BY <1>8 DEF BeginRecovery, Recover, RecoverySucceeded, RetryStep, StartUpdate, StartAppend,
              Conclusive, StepFailed, Unrecovered
<1>9. CASE CompleteTask(c) \/ Return(c)
  BY <1>9 DEF CompleteTask, Return, Leave, StartUpdate
<1> QED
  BY <1>1, <1>2, <1>3, <1>4, <1>5, <1>6, <1>7, <1>8, <1>9 DEF CallerStep, Proceed, RunStep

\* Proceed is a step of a call that has begun.
LEMMA ProceedPlace ==
    ASSUME NEW c \in Callers, Proceed(c)
    PROVE  pc[c] # "idle"
BY DEF Proceed, ReadRow, WriteRow, RunStep, RefuseStep, RunOperation, OperationRaises, SelectSlot,
       InsertRow, InsertConflict, MarkRefused, MarkInconclusive, StopAfterStep, NextStep,
       BeginSummary, MarkBlocked, MarkCancelled, BeginRecovery, Recover, RecoverySucceeded,
       RecoveryBlocked, BlockForOperator, RetryStep, MarkFailed, StepSucceeded, StepFailed,
       Unrecovered, Conclusive, CompleteTask, Return

LEMMA NextCall ==
    ASSUME TypeOK, CallInv, [Next]_vars
    PROVE  CallInv'
<1>1. ASSUME NEW c \in Callers, CallerStep(c)
      PROVE  CallInv'
  <2>1. /\ call \in [Callers -> Nat] /\ calls \in Nat
        /\ DOMAIN log = 1..Len(log) /\ Len(log) \in Nat
    BY BoundsAssumption DEF TypeOK
  <2>2. \A d \in Callers :
           /\ pc'[d] # "idle" => reply'[d] = "none"
           /\ pc'[d] \in {"read", "write"} =>
                 after'[d] \in {"step", "recover", "complete", "return"}
           /\ pc'[d] \in {"select", "insert"} => after'[d] \in {"refused", "decide", "recovered"}
           /\ pc'[d] \notin {"read", "write", "select", "insert"} => after'[d] = "idle"
    BY <1>1, CallerFrame, CallerPlaces DEF CallInv
  <2>3. /\ \A d \in Callers : call'[d] =< calls' /\ (pc'[d] # "idle" => call'[d] # 0)
        /\ \A d, e \in Callers : d # e /\ call'[d] = call'[e] => call'[d] = 0
        /\ calls =< calls' /\ calls' \in Nat
    <3>1. CASE pc[c] = "idle" /\ calls' = calls + 1 /\ call' = [call EXCEPT ![c] = calls + 1]
      BY <1>1, <2>1, <3>1, CallerFrame DEF CallInv
    <3>2. CASE Proceed(c) /\ calls' = calls /\ call' = call
      <4>1. pc[c] # "idle"
        BY <3>2, ProceedPlace
      <4> QED
        BY <1>1, <2>1, <3>2, <4>1, CallerFrame DEF CallInv
    <3> QED
      BY <1>1, <3>1, <3>2, CallerFrame
  <2>4. \A i \in DOMAIN log' : log'[i].call \in 1..calls'
    <3>1. CASE log' = log
      BY <2>1, <2>3, <3>1 DEF CallInv
    <3>2. CASE InsertRow(c)
      <4>1. call[c] \in 1..calls
        BY <2>1, <3>2 DEF InsertRow, CallInv
      <4>2. NewRow(c).call = call[c]
        BY DEF NewRow
      <4> QED
        BY <2>1, <2>3, <3>2, <4>1, <4>2, InsertEffect DEF CallInv
    <3> QED
      BY <1>1, <3>1, <3>2, CallerFrame
  <2> QED
    BY <2>2, <2>3, <2>4 DEF CallInv
<1>2. CASE Operator \/ UNCHANGED vars
  <2>1. UNCHANGED <<log, pc, after, call, reply, calls>>
    BY <1>2, OperatorFrame
  <2> QED
    BY <2>1 DEF CallInv
<1> QED
  BY <1>1, <1>2 DEF Next, CallerStep

-------------------------------------------------------------------------------
\* The last row the call logged is a succeeded attempt that leaves no doubt.
Earned(c) ==
    \E i \in DOMAIN log :
        /\ log[i].call = call[c] /\ log[i].role = "attempt"
        /\ log[i].state = "succeeded" /\ log[i].confidence # "low"
        /\ \A j \in DOMAIN log : log[j].call = call[c] => j =< i

\* Where the code relies on it: from the attempt to the reply.
Promised(c) ==
    \/ pc[c] = "decide" /\ result[c].state = "succeeded" /\ result[c].confidence # "low"
    \/ after[c] = "complete" \/ pc[c] = "complete"
    \/ plan[c] # <<>> /\ after[c] = "return" /\ upd[c].status = "completed"
    \/ plan[c] # <<>> /\ pc[c] = "return" /\ seen[c] = "completed"
    \/ reply[c] = "success"

EarnedInv == \A c \in Callers : Promised(c) => Earned(c)

\* Nothing but the insert of a row makes a new promise.
LEMMA PromiseKept ==
    ASSUME TypeOK, CallInv, NEW c \in Callers, CallerStep(c), ~InsertRow(c), Promised(c)'
    PROVE  Promised(c) /\ Proceed(c)
<1> USE DEF TypeOK, CallInv, Goto, dbVars, callVars, stepVars, ioVars, opVars, Promised
<1>1. ~(\E p \in Plans : CallTool(c, p)) /\ ~ResolveTarget(c)
  BY DEF CallTool, ResolveTarget, StartUpdate
<1>2. CASE ReadRow(c) \/ WriteRow(c)
  BY <1>2 DEF ReadRow, WriteRow, Proceed
<1>3. ~(RefuseStep(c) \/ RunOperation(c))
  BY DEF RefuseStep, RunOperation, StartAppend
<1>4. ~(OperationRaises(c) \/ SelectSlot(c) \/ InsertConflict(c))
  BY DEF OperationRaises, SelectSlot, InsertConflict, Raise, Leave
<1>5. ~(\/ MarkRefused(c) \/ MarkInconclusive(c) \/ MarkBlocked(c) \/ MarkCancelled(c)
        \/ RecoveryBlocked(c) \/ BlockForOperator(c) \/ MarkFailed(c))
  BY DEF MarkRefused, MarkInconclusive, MarkBlocked, MarkCancelled, RecoveryBlocked,
         BlockForOperator, MarkFailed, EndStep, StartUpdate, Conclusive, StepFailed,
         Unrecovered, Upd
<1>6. CASE StopAfterStep(c) \/ NextStep(c) \/ BeginSummary(c)
  <2>1. Proceed(c)
    BY <1>6 DEF Proceed, RunStep
  <2>2. pc[c] = "decide" /\ result[c].state = "succeeded" /\ result[c].confidence # "low"
    BY <1>6 DEF StopAfterStep, NextStep, BeginSummary, StepSucceeded, Conclusive,
                MarksInconclusive
  <2> QED
    BY <2>1, <2>2
<1>7. ~(BeginRecovery(c) \/ Recover(c) \/ RecoverySucceeded(c) \/ RetryStep(c))
  BY DEF BeginRecovery, Recover, RecoverySucceeded, RetryStep, StartUpdate, StartAppend, Upd,
         Conclusive, StepFailed, Unrecovered
<1>8. CASE CompleteTask(c)
  BY <1>8 DEF CompleteTask, Proceed
<1>9. CASE Return(c)
  BY <1>9 DEF Return, Leave, ReplyFor, Proceed
<1> QED
  BY <1>1, <1>2, <1>3, <1>4, <1>5, <1>6, <1>7, <1>8, <1>9 DEF CallerStep, Proceed, RunStep

LEMMA NextEarned ==
    ASSUME TypeOK, CallInv, EarnedInv, [Next]_vars
    PROVE  EarnedInv'
<1>1. ASSUME NEW c \in Callers, CallerStep(c), NEW d \in Callers, Promised(d)'
      PROVE  Earned(d)'
  <2>0. DOMAIN log = 1..Len(log) /\ Len(log) \in Nat
    BY DEF TypeOK
  <2>1. CASE ~InsertRow(c)
    <3>1. log' = log
      BY <1>1, <2>1, CallerFrame
    <3>2. Promised(d) /\ call'[d] = call[d]
      <4>1. CASE d = c
        <5>1. Promised(c) /\ Proceed(c)
          BY <1>1, <2>1, <4>1, PromiseKept
        <5>2. pc[c] # "idle"
          BY <5>1, ProceedPlace
        <5>3. call' = call
          BY <1>1, <5>2, CallerFrame
        <5> QED
          BY <4>1, <5>1, <5>3
      <4>2. CASE d # c
        BY <1>1, <4>2, CallerFrame DEF Promised
      <4> QED
        BY <4>1, <4>2
    <3> QED
      BY <3>1, <3>2 DEF EarnedInv, Earned
  <2>2. CASE InsertRow(c) /\ d # c
    <3>1. Promised(d) /\ call'[d] = call[d]
      BY <1>1, <2>2, CallerFrame DEF Promised
    <3>2. PICK i \in DOMAIN log :
             /\ log[i].call = call[d] /\ log[i].role = "attempt"
             /\ log[i].state = "succeeded" /\ log[i].confidence # "low"
             /\ \A j \in DOMAIN log : log[j].call = call[d] => j =< i
      BY <3>1 DEF EarnedInv, Earned
    <3>3. call[d] # 0
      BY <3>2 DEF CallInv
    <3>4. NewRow(c).call # call[d]
      BY <2>2, <3>3 DEF NewRow, CallInv
    <3>5. \A j \in DOMAIN log' : log'[j].call = call[d] => j =< i
      BY <2>0, <2>2, <3>2, <3>4, InsertEffect
    <3> QED
      BY <2>0, <2>2, <3>1, <3>2, <3>5, InsertEffect DEF Earned
  <2>3. CASE InsertRow(c) /\ d = c
    <3>1. pc'[c] = after[c] /\ after'[c] = "idle" /\ reply'[c] = "none"
          /\ after[c] \in {"refused", "decide", "recovered"}
          /\ call' = call /\ result' = result
      BY <2>3 DEF InsertRow, Goto, TypeOK, CallInv, callVars, stepVars
    <3>2. after[c] = "decide" /\ result[c].state = "succeeded" /\ result[c].confidence # "low"
      BY <1>1, <2>3, <3>1 DEF Promised
    <3>3. LET r == NewRow(c) IN
          r.call = call[c] /\ r.role = "attempt" /\ r.state = "succeeded" /\ r.confidence # "low"
      BY <3>2 DEF NewRow
    <3> QED
      BY <2>0, <2>3, <3>1, <3>3, InsertEffect DEF Earned
  <2> QED
    BY <2>1, <2>2, <2>3
<1>2. CASE Operator \/ UNCHANGED vars
  <2>1. UNCHANGED <<log, pc, after, call, plan, result, upd, seen, reply>>
    BY <1>2, OperatorFrame
  <2> QED
    BY <2>1 DEF EarnedInv, Promised, Earned
<1> QED
  BY <1>1, <1>2 DEF Next, CallerStep, EarnedInv

LEMMA InitEarned == Init => CallInv /\ EarnedInv
BY BoundsAssumption DEF Init, CallInv, EarnedInv, Promised, Refusal, NoUpdate

\* The agent is told of a success only when the last row its call logged is a
\* succeeded attempt of usable confidence, whatever the other calls and the
\* operator write in between (run_task, _run_step, _run_side_effect_tool).
THEOREM SuccessesAreEarned == Spec => []SuccessIsEarned
<1>1. EarnedInv => SuccessIsEarned
  BY DEF EarnedInv, SuccessIsEarned, Promised, Earned
<1>2. Init => CallInv /\ EarnedInv
  BY InitEarned
<1>3. TypeOK /\ CallInv /\ EarnedInv /\ [Next]_vars => CallInv' /\ EarnedInv'
  BY NextCall, NextEarned
<1> QED
  BY TypeCorrect, <1>1, <1>2, <1>3, PTL DEF Spec

-------------------------------------------------------------------------------
\* The current attempt is not logged yet; it is logged, its recovery is not.
Trying(c) == pc[c] = "step" \/ after[c] \in {"step", "refused", "decide"}
Tried(c) == pc[c] \in {"decide", "recover"} \/ after[c] \in {"recover", "recovered"}

Recovering(c) ==
    pc[c] \in {"recover", "recovered"} \/ after[c] \in {"recover", "recovered"}

\* The attempt number stays inside the budget of the step.
BudgetInv ==
    \A c \in Callers :
       /\ InRunStep(c) => attempt[c] =< RetryBudget(CurrentStep(c))
       /\ Recovering(c) => attempt[c] < RetryBudget(CurrentStep(c))

\* What the logged rows of a call are to its current attempt.
Fits(i, c) ==
    /\ log[i].index =< index[c]
    /\ log[i].index = index[c] =>
       /\ Trying(c) => log[i].attempt < attempt[c]
       /\ Tried(c) => /\ log[i].attempt =< attempt[c]
                      /\ log[i].role = "recovery" => log[i].attempt < attempt[c]
       /\ pc[c] = "recovered" => log[i].attempt =< attempt[c]

TriesInv ==
    \A c \in Callers, i \in DOMAIN log : log[i].call = call[c] => Fits(i, c)

\* The two routes of a retry each stop at a limit inside the budget.
LEMMA BudgetBounds ==
    ASSUME NEW s \in Step
    PROVE  /\ RetryBudget(s) \in Nat
           /\ \A n \in Nat, r \in Result : ShouldRetry(n, r) => n < RetryBudget(s)
           /\ \A n \in Nat, r \in Result : RelocalizesFirst(s, n, r) => n < RetryBudget(s)
  BY PolicyLimitAssumption DEF RetryBudget, RecoveryLimit, NoLimit, Step, ShouldRetry,
     RelocalizesFirst

\* How a step of a caller moves its place, its step and its attempt.
LEMMA TryMoves ==
    ASSUME TypeInv, CallInv, NEW c \in Callers, CallerStep(c), ~InsertRow(c)
    PROVE  \/ pc[c] = "idle" /\ ~Recovering(c)' /\ attempt'[c] = attempt[c] /\ plan'[c] = <<>>
              /\ ~InRunStep(c)'
           \/ pc[c] = "idle" /\ ~Recovering(c)' /\ attempt'[c] = 0
           \/ ~Trying(c)' /\ ~Tried(c)' /\ ~InRunStep(c)' /\ ~Recovering(c)'
              /\ index'[c] = index[c] /\ plan'[c] = plan[c]
           \/ /\ index'[c] = index[c] + 1 /\ attempt'[c] = 0 /\ ~Recovering(c)'
           \/ /\ index'[c] = index[c] /\ plan'[c] = plan[c] /\ attempt'[c] = attempt[c] + 1
              /\ ~Recovering(c)' /\ ~Tried(c)' /\ pc'[c] # "recovered" /\ InRunStep(c)
              /\ \/ pc[c] = "decide" /\ ShouldRetry(attempt[c], result[c])
                 \/ pc[c] = "recovered"
           \/ /\ index'[c] = index[c] /\ plan'[c] = plan[c] /\ attempt'[c] = attempt[c]
              /\ InRunStep(c) /\ pc'[c] # "recovered"
              /\ Trying(c)' => Trying(c)
              /\ Tried(c)' => Tried(c)
              /\ Recovering(c)' =>
                    \/ Recovering(c)
                    \/ RelocalizesFirst(CurrentStep(c), attempt[c], result[c])
<1> USE DEF TypeInv, TypeOK, CallInv, Goto, dbVars, callVars, stepVars, ioVars, opVars, Trying,
            Tried, Recovering, InRunStep
<1>1. CASE \E p \in Plans : CallTool(c, p)
  BY <1>1 DEF CallTool, StartUpdate
<1>2. CASE ResolveTarget(c)
  BY <1>2 DEF ResolveTarget, StartUpdate
<1>3. CASE ReadRow(c) \/ WriteRow(c)
  BY <1>3 DEF ReadRow, WriteRow
<1>4. CASE RefuseStep(c) \/ RunOperation(c)
  BY <1>4 DEF RefuseStep, RunOperation, StartAppend
<1>5. CASE OperationRaises(c) \/ SelectSlot(c) \/ InsertConflict(c)
  BY <1>5 DEF OperationRaises, SelectSlot, InsertConflict, Raise, Leave
<1>6. CASE MarkRefused(c) \/ MarkInconclusive(c) \/ MarkBlocked(c) \/ MarkCancelled(c)
           \/ RecoveryBlocked(c) \/ BlockForOperator(c) \/ MarkFailed(c)
  BY <1>6 DEF MarkRefused, MarkInconclusive, MarkBlocked, MarkCancelled, RecoveryBlocked,
              BlockForOperator, MarkFailed, EndStep, StartUpdate, Conclusive, StepFailed,
              Unrecovered
<1>7. CASE StopAfterStep(c) \/ NextStep(c) \/ BeginSummary(c)
  BY <1>7 DEF StopAfterStep, NextStep, BeginSummary, StartUpdate, StepSucceeded, Conclusive
<1>8. CASE BeginRecovery(c) \/ Recover(c)
  BY <1>8 DEF BeginRecovery, Recover, StartUpdate, StartAppend, Conclusive, StepFailed,
              Relocalizes
<1>9. CASE RecoverySucceeded(c) \/ RetryStep(c)
  BY <1>9 DEF RecoverySucceeded, RetryStep, StartUpdate, Conclusive, StepFailed, Unrecovered
<1>10. CASE CompleteTask(c) \/ Return(c)
  BY <1>10 DEF CompleteTask, Return, Leave, StartUpdate
<1> QED
  BY <1>1, <1>2, <1>3, <1>4, <1>5, <1>6, <1>7, <1>8, <1>9, <1>10 DEF CallerStep, Proceed, RunStep

LEMMA NextBudget ==
    ASSUME TypeInv, TypeInv', CallInv, BudgetInv, [Next]_vars
    PROVE  BudgetInv'
<1>1. ASSUME NEW c \in Callers, CallerStep(c), NEW d \in Callers
      PROVE  /\ InRunStep(d)' => attempt'[d] =< RetryBudget(CurrentStep(d))'
             /\ Recovering(d)' => attempt'[d] < RetryBudget(CurrentStep(d))'
  <2>0. /\ attempt[d] \in Nat /\ attempt'[d] \in Nat
        /\ result[d] \in Result
    BY DEF TypeInv, TypeOK
  <2>1. InRunStep(d) => CurrentStep(d) \in Step
    BY CurrentStepType
  <2>2. InRunStep(d)' => CurrentStep(d)' \in Step
    <3>1. plan'[d] \in Seq(Step) /\ (InRunStep(d)' => index'[d] \in DOMAIN plan'[d])
      <4>1. <<>> \in Seq(Step)
        OBVIOUS
      <4>2. Plans \union {<<>>} \subseteq Seq(Step)
        BY <4>1, PlansAssumption
      <4> HIDE DEF Step
      <4>3. plan'[d] \in Seq(Step)
        BY <4>2 DEF TypeInv, TypeOK
      <4>4. InRunStep(d)' => index'[d] \in DOMAIN plan'[d]
        BY DEF TypeInv, HasStep
      <4> QED
        BY <4>3, <4>4
    <3> QED
      BY <3>1 DEF CurrentStep
  <2>3. InRunStep(d)' => RetryBudget(CurrentStep(d)') \in Nat
    BY <2>2, BudgetBounds
  <2>4. Recovering(d)' => InRunStep(d)'
    BY DEF Recovering, InRunStep
  <2>5. CASE d # c
    BY <1>1, <2>5, CallerFrame DEF TypeInv, BudgetInv, InRunStep, Recovering, CurrentStep
  <2>6. CASE d = c /\ InsertRow(c)
    <3>1. /\ attempt'[c] = attempt[c] /\ CurrentStep(c)' = CurrentStep(c)
          /\ InRunStep(c)' => InRunStep(c)
          /\ Recovering(c)' => Recovering(c)
      BY <1>1, <2>6 DEF InsertRow, Goto, TypeInv, TypeOK, callVars, stepVars, InRunStep,
                        Recovering, CurrentStep
    <3> QED
      BY <2>6, <3>1 DEF BudgetInv, RetryBudget, RecoveryLimit
  <2>7. CASE d = c /\ ~InsertRow(c)
    <3>1. CASE ~Recovering(c)' /\ (attempt'[c] = 0 \/ ~InRunStep(c)')
      BY <2>0, <2>3, <2>7, <3>1
    <3>2. CASE /\ index'[c] = index[c] /\ plan'[c] = plan[c] /\ attempt'[c] = attempt[c] + 1
               /\ ~Recovering(c)' /\ InRunStep(c)
               /\ \/ pc[c] = "decide" /\ ShouldRetry(attempt[c], result[c])
                  \/ pc[c] = "recovered"
      <4>1. CurrentStep(c)' = CurrentStep(c)
        BY <3>2 DEF CurrentStep
      <4>2. attempt[c] < RetryBudget(CurrentStep(c))
        BY <2>0, <2>1, <2>7, <3>2, BudgetBounds DEF BudgetInv, Recovering
      <4> QED
        BY <2>0, <2>1, <2>7, <3>2, <4>1, <4>2, BudgetBounds
    <3>3. CASE /\ index'[c] = index[c] /\ plan'[c] = plan[c] /\ attempt'[c] = attempt[c]
               /\ InRunStep(c)
               /\ Recovering(c)' =>
                    \/ Recovering(c)
                    \/ RelocalizesFirst(CurrentStep(c), attempt[c], result[c])
      <4>1. CurrentStep(c)' = CurrentStep(c)
        BY <3>3 DEF CurrentStep
      <4>2. Recovering(c)' => attempt[c] < RetryBudget(CurrentStep(c))
        BY <2>0, <2>1, <2>7, <3>3, BudgetBounds DEF BudgetInv
      <4>3. attempt[c] =< RetryBudget(CurrentStep(c))
        BY <2>7, <3>3 DEF BudgetInv
      <4> QED
        BY <2>7, <3>3, <4>1, <4>2, <4>3
    <3> QED
      BY <1>1, <2>7, <3>1, <3>2, <3>3, TryMoves
  <2> QED
    BY <2>5, <2>6, <2>7
<1>2. CASE Operator \/ UNCHANGED vars
  <2>1. UNCHANGED <<pc, after, plan, index, attempt>>
    BY <1>2, OperatorFrame
  <2> QED
    BY <2>1 DEF BudgetInv, InRunStep, Recovering, CurrentStep
<1> QED
  BY <1>1, <1>2 DEF Next, CallerStep, BudgetInv

LEMMA NextTries ==
    ASSUME TypeInv, TypeInv', CallInv, BudgetInv, TriesInv, AttemptsWithinBudget, [Next]_vars
    PROVE  TriesInv' /\ AttemptsWithinBudget'
<1>0. /\ DOMAIN log = 1..Len(log) /\ Len(log) \in Nat
      /\ \A i \in DOMAIN log : log[i].index \in Nat /\ log[i].attempt \in Nat
      /\ index \in [Callers -> Nat] /\ attempt \in [Callers -> Nat]
      /\ call \in [Callers -> Nat] /\ calls \in Nat
  <2>1. \A i \in DOMAIN log : log[i] \in LogRow
    BY DEF TypeInv, TypeOK
  <2>2. \A i \in DOMAIN log : log[i].index \in Nat /\ log[i].attempt \in Nat
    BY <2>1 DEF LogRow
  <2>3. index \in [Callers -> Nat] /\ attempt \in [Callers -> Nat]
    BY DEF TypeInv, TypeOK
  <2>4. call \in [Callers -> Nat] /\ calls \in Nat
    BY BoundsAssumption DEF TypeInv, TypeOK
  <2> QED
    BY <2>2, <2>3, <2>4 DEF TypeInv, TypeOK
<1>1. ASSUME NEW c \in Callers, CallerStep(c), InsertRow(c)
      PROVE  TriesInv' /\ AttemptsWithinBudget'
  <2>1. /\ index' = index /\ attempt' = attempt /\ call' = call
        /\ pc' = [pc EXCEPT ![c] = after[c]] /\ after' = [after EXCEPT ![c] = "idle"]
        /\ pc[c] = "insert" /\ after[c] \in {"refused", "decide", "recovered"}
        /\ call[c] # 0
    BY <1>1 DEF InsertRow, Goto, TypeInv, TypeOK, CallInv, callVars, stepVars
  <2>2. LET r == NewRow(c) IN
          /\ r.call = call[c] /\ r.index = index[c] /\ r.attempt = attempt[c]
          /\ r.step = CurrentStep(c)
          /\ r.role = IF after[c] = "recovered" THEN "recovery" ELSE "attempt"
    BY DEF NewRow
  <2>3. /\ DOMAIN log' = 1..(Len(log) + 1)
        /\ \A i \in DOMAIN log : log'[i] = log[i]
        /\ log'[Len(log) + 1] = NewRow(c)
    BY <1>1, InsertEffect DEF TypeInv
  <2>4. \A i \in DOMAIN log :
           log[i].call = call[c] /\ log[i].index = index[c] /\ log[i].role = NewRow(c).role
           => log[i].attempt < attempt[c]
    BY <2>1, <2>2 DEF TriesInv, Fits, Trying, Tried
  <2>5. attempt[c] =< RetryBudget(CurrentStep(c))
    BY <2>1 DEF BudgetInv, InRunStep
  <2>6. AttemptsWithinBudget'
    <3>1. \A i \in DOMAIN log' : log'[i].attempt =< RetryBudget(log'[i].step)
      <4>1. \A i \in DOMAIN log : log'[i].attempt =< RetryBudget(log'[i].step)
        BY <2>3 DEF AttemptsWithinBudget
      <4>2. LET r == log'[Len(log) + 1] IN r.attempt =< RetryBudget(r.step)
        BY <2>2, <2>3, <2>5
      <4> QED
        BY <1>0, <2>3, <4>1, <4>2
    <3>2. ASSUME NEW i \in DOMAIN log', NEW j \in DOMAIN log', i < j,
                 log'[i].call = log'[j].call, log'[i].index = log'[j].index,
                 log'[i].role = log'[j].role
          PROVE  log'[i].attempt < log'[j].attempt
      <4>1. CASE j \in DOMAIN log
        <5>1. i \in DOMAIN log /\ log'[i] = log[i] /\ log'[j] = log[j]
          BY <1>0, <2>3, <3>2, <4>1
        <5> QED
          BY <3>2, <4>1, <5>1 DEF AttemptsWithinBudget
      <4>2. CASE j = Len(log) + 1
        BY <1>0, <2>2, <2>3, <2>4, <3>2, <4>2
      <4> QED
        BY <1>0, <2>3, <4>1, <4>2
    <3> QED
      BY <3>1, <3>2 DEF AttemptsWithinBudget, RetryBudget, RecoveryLimit
  <2>7. ASSUME NEW d \in Callers, NEW i \in DOMAIN log', log'[i].call = call'[d]
        PROVE  Fits(i, d)'
    <3>1. CASE d # c
      <4>1. pc'[d] = pc[d] /\ after'[d] = after[d]
        BY <2>1, <3>1 DEF TypeInv, TypeOK
      <4>2. i \in DOMAIN log
        BY <1>0, <2>1, <2>2, <2>3, <2>7, <3>1 DEF CallInv
      <4> QED
        BY <2>1, <2>3, <2>7, <4>1, <4>2 DEF TriesInv, Fits, Trying, Tried
    <3>2. CASE d = c
      <4>1. pc'[c] = after[c] /\ after'[c] = "idle"
        BY <2>1 DEF TypeInv, TypeOK
      <4>2. CASE i \in DOMAIN log
        BY <1>0, <2>1, <2>3, <2>7, <3>2, <4>1, <4>2 DEF TriesInv, Fits, Trying, Tried
      <4>3. CASE i = Len(log) + 1
        BY <1>0, <2>1, <2>2, <2>3, <3>2, <4>1, <4>3 DEF Fits, Trying, Tried
      <4> QED
        BY <1>0, <2>3, <2>7, <4>2, <4>3
    <3> QED
      BY <3>1, <3>2
  <2> QED
    BY <2>6, <2>7 DEF TriesInv
<1>2. ASSUME NEW c \in Callers, CallerStep(c), ~InsertRow(c)
      PROVE  TriesInv' /\ AttemptsWithinBudget'
  <2>1. log' = log
    BY <1>2, CallerFrame DEF TypeInv
  <2>2. ASSUME NEW d \in Callers, NEW i \in DOMAIN log, log[i].call = call'[d]
        PROVE  Fits(i, d)'
    <3>1. CASE d # c
      <4>1. /\ pc'[d] = pc[d] /\ after'[d] = after[d] /\ index'[d] = index[d]
            /\ attempt'[d] = attempt[d] /\ call'[d] = call[d]
        BY <1>2, <3>1, CallerFrame DEF TypeInv
      <4> QED
        BY <2>1, <2>2, <4>1 DEF TriesInv, Fits, Trying, Tried
    <3>2. CASE d = c
      <4>1. pc[c] # "idle" /\ call' = call
        <5>1. \/ pc[c] = "idle" /\ call' = [call EXCEPT ![c] = calls + 1]
              \/ Proceed(c) /\ call' = call
          BY <1>2, CallerFrame DEF TypeInv
        <5>2. log[i].call =< calls
          BY DEF CallInv
        <5> QED
          BY <1>0, <2>2, <3>2, <5>1, <5>2, ProceedPlace
      <4>2. Fits(i, c)
        BY <2>2, <3>2, <4>1 DEF TriesInv
      <4> QED
        <5>1. CASE ~Trying(c)' /\ ~Tried(c)' /\ ~InRunStep(c)' /\ index'[c] = index[c]
          BY <2>1, <3>2, <4>2, <5>1 DEF Fits, InRunStep
        <5>2. CASE index'[c] = index[c] + 1
          BY <1>0, <2>1, <3>2, <4>2, <5>2 DEF Fits
        <5>3. CASE /\ index'[c] = index[c] /\ attempt'[c] = attempt[c] + 1
                   /\ ~Tried(c)' /\ pc'[c] # "recovered"
                   /\ pc[c] = "decide" \/ pc[c] = "recovered"
          BY <1>0, <2>1, <3>2, <4>2, <5>3 DEF Fits, Tried
        <5>4. CASE /\ index'[c] = index[c] /\ attempt'[c] = attempt[c] /\ pc'[c] # "recovered"
                   /\ (Trying(c)' => Trying(c)) /\ (Tried(c)' => Tried(c))
          BY <2>1, <3>2, <4>2, <5>4 DEF Fits
        <5> QED
          BY <1>2, <4>1, <5>1, <5>2, <5>3, <5>4, TryMoves
    <3> QED
      BY <3>1, <3>2
  <2> QED
    BY <2>1, <2>2 DEF TriesInv, AttemptsWithinBudget, RetryBudget, RecoveryLimit
<1>3. CASE Operator \/ UNCHANGED vars
  <2>1. UNCHANGED <<log, pc, after, call, index, attempt>>
    BY <1>3, OperatorFrame
  <2> QED
    BY <2>1 DEF TriesInv, Fits, Trying, Tried, AttemptsWithinBudget, RetryBudget, RecoveryLimit
<1> QED
  BY <1>1, <1>2, <1>3 DEF Next, CallerStep

LEMMA InitTries == Init => BudgetInv /\ TriesInv /\ AttemptsWithinBudget
BY DEF Init, BudgetInv, InRunStep, Recovering, TriesInv, AttemptsWithinBudget

\* However many calls share the task and whatever the operator writes, no step
\* is attempted more often than its budget, and no attempt of it is logged
\* twice (_run_step, RetryPolicy.should_retry, RecoveryPolicy.plan_recovery).
THEOREM RetriesAreBounded == Spec => []AttemptsWithinBudget
<1>1. Init => TypeInv /\ CallInv /\ BudgetInv /\ TriesInv /\ AttemptsWithinBudget
  BY InitTypeInv, InitEarned, InitTries
<1>2. TypeInv /\ CallInv /\ BudgetInv /\ TriesInv /\ AttemptsWithinBudget /\ [Next]_vars
      => TypeInv' /\ CallInv' /\ BudgetInv' /\ TriesInv' /\ AttemptsWithinBudget'
  BY NextTypeInv, NextCall, NextBudget, NextTries DEF TypeInv
<1> QED
  BY <1>1, <1>2, PTL DEF Spec

-------------------------------------------------------------------------------
\* The order of a navigation's rows: a try that failed, a relocalization, the
\* next try.

Logged(c, i, role, number, state) ==
    /\ i \in DOMAIN log
    /\ log[i].call = call[c] /\ log[i].index = index[c] /\ log[i].attempt = number
    /\ log[i].role = role /\ log[i].state = state

FailedTry(c, number) == \E i \in DOMAIN log : Logged(c, i, "attempt", number, "failed")

RelocalizedTry(c, number, state) ==
    \E h, j \in DOMAIN log :
       h < j /\ Logged(c, h, "attempt", number, "failed") /\ Logged(c, j, "recovery", number, state)

\* The steps the property is about, and the places where a caller relies on
\* the rows before.
MustRelocalize(s) ==
    s.tool = "navigate_to_place" /\ s.recoverable /\ RecoveryLimit(s) >= PolicyLimit

Failing(c) == pc[c] = "recover" \/ after[c] \in {"recover", "recovered"}

Retrying(c) == Trying(c) /\ attempt[c] > 0 /\ MustRelocalize(CurrentStep(c))

Grounded(c) ==
    /\ pc[c] = "decide" =>
          \E i \in DOMAIN log : Logged(c, i, "attempt", attempt[c], result[c].state)
    /\ Failing(c) => FailedTry(c, attempt[c])
    /\ pc[c] = "recovered" => RelocalizedTry(c, attempt[c], result[c].state)
    /\ Retrying(c) => RelocalizedTry(c, attempt[c] - 1, "succeeded")

RelocInv == \A c \in Callers : Grounded(c)

\* A plain retry is open only to steps that recovery has given up on.
LEMMA PlainRetryIsLate ==
    ASSUME TypeInv, NEW c \in Callers, RetryStep(c)
    PROVE  ~MustRelocalize(CurrentStep(c))
<1>1. /\ InRunStep(c) /\ attempt[c] \in Nat /\ CurrentStep(c) \in Step
  BY CurrentStepType DEF RetryStep, Unrecovered, StepFailed, Conclusive, InRunStep, TypeInv, TypeOK
<1>2. RecoveryLimit(CurrentStep(c)) \in Nat
  BY <1>1, PolicyLimitAssumption DEF RecoveryLimit, NoLimit, Step
<1> QED
  BY <1>1, <1>2, PolicyLimitAssumption
     DEF RetryStep, Unrecovered, Relocalizes, RelocalizesFirst, ShouldRetry, MustRelocalize

\* The log only grows.
LEMMA LogGrows ==
    ASSUME TypeInv, NEW c \in Callers, CallerStep(c)
    PROVE  DOMAIN log \subseteq DOMAIN log' /\ \A i \in DOMAIN log : log'[i] = log[i]
<1>1. CASE log' = log
  BY <1>1
<1>2. CASE InsertRow(c)
  BY <1>2, InsertEffect DEF TypeInv
<1> QED
  BY <1>1, <1>2, CallerFrame DEF TypeInv

\* What a step that logs nothing relies on, the caller relied on before.
LEMMA RelocMoves ==
    ASSUME TypeInv, CallInv, NEW c \in Callers, CallerStep(c), ~InsertRow(c)
    PROVE  /\ pc'[c] # "decide" /\ pc'[c] # "recovered"
           /\ Failing(c)' =>
                 /\ index'[c] = index[c] /\ attempt'[c] = attempt[c] /\ Proceed(c)
                 /\ Failing(c) \/ (pc[c] = "decide" /\ result[c].state = "failed")
           /\ Retrying(c)' =>
                 /\ index'[c] = index[c] /\ plan'[c] = plan[c] /\ Proceed(c)
                 /\ \/ Trying(c) /\ attempt'[c] = attempt[c]
                    \/ /\ pc[c] = "recovered" /\ result[c].state = "succeeded"
                       /\ attempt'[c] = attempt[c] + 1
<1> USE DEF TypeInv, TypeOK, CallInv, Goto, dbVars, callVars, stepVars, ioVars, opVars, Trying,
            Failing, Retrying
<1>1. CASE \E p \in Plans : CallTool(c, p)
  BY <1>1 DEF CallTool, StartUpdate
<1>2. CASE ResolveTarget(c)
  BY <1>2 DEF ResolveTarget, StartUpdate
<1>3. CASE ReadRow(c) \/ WriteRow(c)
  BY <1>3 DEF ReadRow, WriteRow, Proceed
<1>4. CASE RefuseStep(c) \/ RunOperation(c)
  <2>1. Proceed(c)
    BY <1>4 DEF Proceed, RunStep
  <2> QED
    BY <1>4, <2>1 DEF RefuseStep, RunOperation, StartAppend
<1>5. CASE OperationRaises(c) \/ SelectSlot(c) \/ InsertConflict(c)
  <2>1. Proceed(c)
    BY <1>5 DEF Proceed, RunStep
  <2> QED
    BY <1>5, <2>1 DEF OperationRaises, SelectSlot, InsertConflict, Raise, Leave
<1>6. CASE MarkRefused(c) \/ MarkInconclusive(c) \/ MarkBlocked(c) \/ MarkCancelled(c)
           \/ RecoveryBlocked(c) \/ BlockForOperator(c) \/ MarkFailed(c)
  BY <1>6 DEF MarkRefused, MarkInconclusive, MarkBlocked, MarkCancelled, RecoveryBlocked,
              BlockForOperator, MarkFailed, EndStep, StartUpdate, Conclusive, StepFailed,
              Unrecovered
<1>7. CASE StopAfterStep(c) \/ NextStep(c) \/ BeginSummary(c)
  <2>1. CASE StopAfterStep(c) \/ BeginSummary(c)
    BY <2>1 DEF StopAfterStep, BeginSummary, StartUpdate, StepSucceeded, Conclusive
  <2>2. CASE NextStep(c)
    <3>1. attempt'[c] = 0 /\ pc'[c] = "step" /\ after'[c] = "idle"
      BY <2>2 DEF NextStep, StepSucceeded, Conclusive
    <3> QED
      BY <3>1
  <2> QED
    BY <1>7, <2>1, <2>2
<1>8. CASE BeginRecovery(c) \/ Recover(c) \/ RecoverySucceeded(c)
  <2>1. Proceed(c)
    BY <1>8 DEF Proceed, RunStep
  <2> QED
    BY <1>8, <2>1 DEF BeginRecovery, Recover, RecoverySucceeded, StartUpdate, StartAppend,
                      Conclusive, StepFailed
<1>9. CASE RetryStep(c)
  <2>1. ~MustRelocalize(CurrentStep(c)) /\ CurrentStep(c)' = CurrentStep(c)
    BY <1>9, PlainRetryIsLate DEF RetryStep, CurrentStep
  <2>2. ~MustRelocalize(CurrentStep(c)')
    BY <2>1
  <2>3. ~Retrying(c)'
    BY <2>2 DEF MustRelocalize, RecoveryLimit
  <2>4. pc'[c] = "step" /\ after'[c] = "idle"
    BY <1>9 DEF RetryStep, Unrecovered, StepFailed, Conclusive
  <2> QED
    BY <2>3, <2>4
<1>10. CASE CompleteTask(c) \/ Return(c)
  BY <1>10 DEF CompleteTask, Return, Leave, StartUpdate
<1> QED
  BY <1>1, <1>2, <1>3, <1>4, <1>5, <1>6, <1>7, <1>8, <1>9, <1>10 DEF CallerStep, Proceed, RunStep

\* Rows stay: a longer log holds what the shorter one held.
LEMMA RowsStay ==
    ASSUME NEW c \in Callers, DOMAIN log \subseteq DOMAIN log',
           \A i \in DOMAIN log : log'[i] = log[i],
           call'[c] = call[c], index'[c] = index[c]
    PROVE  /\ \A i, role, number, state :
                 Logged(c, i, role, number, state) => Logged(c, i, role, number, state)'
           /\ \A number : FailedTry(c, number) => FailedTry(c, number)'
           /\ \A number, state : RelocalizedTry(c, number, state)
                                   => RelocalizedTry(c, number, state)'
<1>1. \A i, role, number, state :
         Logged(c, i, role, number, state) => Logged(c, i, role, number, state)'
  BY DEF Logged
<1>2. \A number : FailedTry(c, number) => FailedTry(c, number)'
  <2> TAKE number
  <2> HAVE FailedTry(c, number)
  <2>1. PICK i \in DOMAIN log : Logged(c, i, "attempt", number, "failed")
    BY DEF FailedTry
  <2>2. Logged(c, i, "attempt", number, "failed")'
    BY <1>1, <2>1
  <2> QED
    BY <2>2 DEF FailedTry
<1>3. \A number, state : RelocalizedTry(c, number, state) => RelocalizedTry(c, number, state)'
  <2> TAKE number, state
  <2> HAVE RelocalizedTry(c, number, state)
  <2>1. PICK h \in DOMAIN log, j \in DOMAIN log :
           /\ h < j /\ Logged(c, h, "attempt", number, "failed")
           /\ Logged(c, j, "recovery", number, state)
    BY DEF RelocalizedTry
  <2>2. Logged(c, h, "attempt", number, "failed")' /\ Logged(c, j, "recovery", number, state)'
    BY <1>1, <2>1
  <2> QED
    BY <2>1, <2>2 DEF RelocalizedTry
<1> QED
  BY <1>1, <1>2, <1>3

LEMMA NextReloc ==
    ASSUME TypeInv, TypeInv', CallInv, RelocInv, [Next]_vars
    PROVE  RelocInv'
<1>0. /\ DOMAIN log = 1..Len(log) /\ Len(log) \in Nat
      /\ attempt \in [Callers -> Nat]
  BY DEF TypeInv, TypeOK
<1>1. ASSUME NEW c \in Callers, CallerStep(c)
      PROVE  DOMAIN log \subseteq DOMAIN log' /\ \A i \in DOMAIN log : log'[i] = log[i]
  BY <1>1, LogGrows
<1>2. ASSUME NEW c \in Callers, CallerStep(c), NEW d \in Callers, d # c
      PROVE  Grounded(d)'
  <2>1. /\ pc'[d] = pc[d] /\ after'[d] = after[d] /\ attempt'[d] = attempt[d]
        /\ result'[d] = result[d] /\ plan'[d] = plan[d] /\ call'[d] = call[d]
        /\ index'[d] = index[d]
    BY <1>2, CallerFrame DEF TypeInv
  <2>2. Failing(d)' = Failing(d) /\ Retrying(d)' = Retrying(d)
    BY <2>1 DEF Failing, Retrying, Trying, CurrentStep, MustRelocalize, RecoveryLimit
  <2>3. Grounded(d)
    BY DEF RelocInv
  <2>4. /\ \A i, role, number, state :
              Logged(d, i, role, number, state) => Logged(d, i, role, number, state)'
        /\ \A number : FailedTry(d, number) => FailedTry(d, number)'
        /\ \A number, state : RelocalizedTry(d, number, state)
                                => RelocalizedTry(d, number, state)'
    BY <1>1, <1>2, <2>1, RowsStay
  <2> QED
    BY <1>1, <1>2, <2>1, <2>2, <2>3, <2>4 DEF Grounded
<1>3. ASSUME NEW c \in Callers, CallerStep(c), ~InsertRow(c)
      PROVE  Grounded(c)'
  <2>1. /\ pc'[c] # "decide" /\ pc'[c] # "recovered"
        /\ Failing(c)' =>
              /\ index'[c] = index[c] /\ attempt'[c] = attempt[c] /\ Proceed(c)
              /\ Failing(c) \/ (pc[c] = "decide" /\ result[c].state = "failed")
        /\ Retrying(c)' =>
              /\ index'[c] = index[c] /\ plan'[c] = plan[c] /\ Proceed(c)
              /\ \/ Trying(c) /\ attempt'[c] = attempt[c]
                 \/ /\ pc[c] = "recovered" /\ result[c].state = "succeeded"
                    /\ attempt'[c] = attempt[c] + 1
    BY <1>3, RelocMoves
  <2>2. Proceed(c) => call'[c] = call[c]
    BY <1>3, ProceedPlace, CallerFrame DEF TypeInv
  <2>3. Grounded(c)
    BY DEF RelocInv
  <2>4. ASSUME Failing(c)' PROVE FailedTry(c, attempt[c])'
    <3>1. PICK number : number = attempt[c]
      OBVIOUS
    <3>2. FailedTry(c, number)
      BY <2>1, <2>3, <2>4, <3>1 DEF Grounded, FailedTry
    <3>3. FailedTry(c, number)'
      BY <1>1, <1>3, <2>1, <2>2, <2>4, <3>2, RowsStay
    <3> QED
      BY <2>1, <2>4, <3>1, <3>3 DEF FailedTry, Logged
  <2>5. ASSUME Retrying(c)' PROVE RelocalizedTry(c, attempt[c] - 1, "succeeded")'
    <3>1. Trying(c) /\ attempt'[c] = attempt[c] => Retrying(c)
      BY <2>1, <2>5 DEF Retrying, CurrentStep, MustRelocalize, RecoveryLimit
    <3>2. PICK number : number = attempt'[c] - 1
      OBVIOUS
    <3>3. RelocalizedTry(c, number, "succeeded")
      <4>1. CASE Trying(c) /\ attempt'[c] = attempt[c]
        BY <2>3, <3>1, <3>2, <4>1 DEF Grounded
      <4>2. CASE /\ pc[c] = "recovered" /\ result[c].state = "succeeded"
                 /\ attempt'[c] = attempt[c] + 1
        <5>1. number = attempt[c]
          BY <1>0, <3>2, <4>2
        <5> QED
          BY <2>3, <4>2, <5>1 DEF Grounded
      <4> QED
        BY <2>1, <2>5, <4>1, <4>2
    <3>4. RelocalizedTry(c, number, "succeeded")'
      BY <1>1, <1>3, <2>1, <2>2, <2>5, <3>3, RowsStay
    <3> QED
      BY <3>2, <3>4 DEF RelocalizedTry, Logged
  <2> QED
    BY <2>1, <2>4, <2>5 DEF Grounded
<1>4. ASSUME NEW c \in Callers, CallerStep(c), InsertRow(c)
      PROVE  Grounded(c)'
  <2>1. /\ index' = index /\ attempt' = attempt /\ call' = call /\ result' = result
        /\ pc'[c] = after[c] /\ after'[c] = "idle"
        /\ pc[c] = "insert" /\ after[c] \in {"refused", "decide", "recovered"}
    BY <1>4 DEF InsertRow, Goto, TypeInv, TypeOK, CallInv, callVars, stepVars
  <2>2. PICK n \in DOMAIN log' : log'[n] = NewRow(c) /\ \A i \in DOMAIN log : i < n
    BY <1>0, <1>4, InsertEffect DEF TypeInv
  <2>3. /\ log'[n].call = call[c] /\ log'[n].index = index[c] /\ log'[n].attempt = attempt[c]
        /\ log'[n].state = result[c].state
        /\ log'[n].role = IF after[c] = "recovered" THEN "recovery" ELSE "attempt"
    BY <2>2 DEF NewRow
  <2>4. after[c] = "decide" =>
           \E i \in DOMAIN log' : Logged(c, i, "attempt", attempt[c], result[c].state)'
    BY <2>1, <2>3 DEF Logged
  <2>5. ASSUME after[c] = "recovered" PROVE RelocalizedTry(c, attempt[c], result[c].state)'
    <3>1. PICK h \in DOMAIN log : Logged(c, h, "attempt", attempt[c], "failed")
      BY <2>5 DEF RelocInv, Grounded, Failing, FailedTry
    <3>2. h \in DOMAIN log' /\ h < n /\ log'[h] = log[h]
      BY <1>1, <1>4, <2>2
    <3> QED
      BY <2>1, <2>3, <2>5, <3>1, <3>2 DEF RelocalizedTry, Logged
  <2> QED
    BY <2>1, <2>4, <2>5 DEF Grounded, Failing, Retrying, Trying
<1>5. CASE Operator \/ UNCHANGED vars
  <2>1. UNCHANGED <<log, pc, after, call, plan, index, attempt, result>>
    BY <1>5, OperatorFrame
  <2> QED
    BY <2>1 DEF RelocInv, Grounded, Failing, Retrying, Trying, FailedTry, RelocalizedTry, Logged,
                CurrentStep, MustRelocalize, RecoveryLimit
<1> QED
  BY <1>2, <1>3, <1>4, <1>5 DEF Next, CallerStep, RelocInv

LEMMA NextRelocalized ==
    ASSUME TypeInv, CallInv, RelocInv, RelocalizedBeforeRetry, [Next]_vars
    PROVE  RelocalizedBeforeRetry'
<1>0. /\ DOMAIN log = 1..Len(log) /\ Len(log) \in Nat
      /\ attempt \in [Callers -> Nat]
  BY DEF TypeInv, TypeOK
<1>1. ASSUME NEW c \in Callers, InsertRow(c)
      PROVE  RelocalizedBeforeRetry'
  <2>1. /\ DOMAIN log' = 1..(Len(log) + 1)
        /\ \A i \in DOMAIN log : log'[i] = log[i]
        /\ log'[Len(log) + 1] = NewRow(c)
    BY <1>1, InsertEffect DEF TypeInv
  <2> SUFFICES ASSUME NEW i \in DOMAIN log',
                      log'[i].role = "attempt", log'[i].attempt > 0,
                      log'[i].step.tool = "navigate_to_place", log'[i].step.recoverable,
                      RecoveryLimit(log'[i].step) >= PolicyLimit
               PROVE  Relocalized(i)'
    BY DEF RelocalizedBeforeRetry, RecoveryLimit
  <2>2. CASE i \in DOMAIN log
    <3>1. log'[i] = log[i]
      BY <2>1, <2>2
    <3>2. Relocalized(i)
      BY <2>2, <3>1 DEF RelocalizedBeforeRetry
    <3>3. \A k \in 1..(i-1) : log'[k] = log[k]
      BY <1>0, <2>1, <2>2
    <3> QED
      BY <3>1, <3>2, <3>3 DEF Relocalized
  <2>3. CASE i = Len(log) + 1
    <3>1. log'[i] = NewRow(c)
      BY <2>1, <2>3
    <3>2. /\ log'[i].call = call[c] /\ log'[i].index = index[c] /\ log'[i].attempt = attempt[c]
          /\ log'[i].step = CurrentStep(c) /\ after[c] # "recovered"
      BY <3>1 DEF NewRow
    <3>3. Retrying(c)
      BY <1>1, <3>2 DEF Retrying, Trying, MustRelocalize, InsertRow, CallInv
    <3>4. PICK h \in DOMAIN log, j \in DOMAIN log :
             /\ h < j /\ Logged(c, h, "attempt", attempt[c] - 1, "failed")
             /\ Logged(c, j, "recovery", attempt[c] - 1, "succeeded")
      BY <3>3 DEF RelocInv, Grounded, RelocalizedTry
    <3>5. h \in 1..(i-1) /\ j \in 1..(i-1) /\ log'[h] = log[h] /\ log'[j] = log[j]
      BY <1>0, <2>1, <2>3
    <3> QED
      BY <3>2, <3>4, <3>5 DEF Relocalized, Logged
  <2> QED
    BY <1>0, <2>1, <2>2, <2>3
<1>2. CASE log' = log
  BY <1>2 DEF RelocalizedBeforeRetry, Relocalized, RecoveryLimit
<1> QED
  BY <1>1, <1>2, CallerFrame, OperatorFrame DEF Next, CallerStep, TypeInv

LEMMA InitReloc == Init => RelocInv /\ RelocalizedBeforeRetry
BY DEF Init, RelocInv, Grounded, Failing, Retrying, Trying, RelocalizedBeforeRetry

\* Whatever the threads of a turn and the operator interleave, a navigation is
\* tried again only after the try before failed and a relocalization logged
\* after it succeeded (_run_step: _recovery_decision is asked before
\* RetryPolicy.should_retry).
THEOREM RetriesFollowRelocalization == Spec => []RelocalizedBeforeRetry
<1>1. Init => TypeInv /\ CallInv /\ RelocInv /\ RelocalizedBeforeRetry
  BY InitTypeInv, InitEarned, InitReloc
<1>2. TypeInv /\ CallInv /\ RelocInv /\ RelocalizedBeforeRetry /\ [Next]_vars
      => TypeInv' /\ CallInv' /\ RelocInv' /\ RelocalizedBeforeRetry'
  BY NextTypeInv, NextCall, NextReloc, NextRelocalized DEF TypeInv
<1> QED
  BY <1>1, <1>2, PTL DEF Spec

-------------------------------------------------------------------------------
\* A cancel that was committed while the call ran its step, no other call
\* having been made: until the step is over the row stays cancelled and the
\* operator has no transition left, so the call is never on its way to a success.
Alone(c) == \A d \in Callers \ {c} : call[d] = 0

NearSuccess(c) ==
    \/ after[c] = "complete" \/ pc[c] = "complete"
    \/ plan[c] # <<>> /\ after[c] = "return" /\ upd[c].status = "completed"
    \/ plan[c] # <<>> /\ pc[c] = "return" /\ seen[c] = "completed"
    \/ reply[c] = "success"

Overtaken(c) ==
    /\ InStep(c) => task.status = "cancelled" /\ opPc = "idle"
    /\ ~NearSuccess(c)

CancelInv == \A c \in Callers : cancelled[c] /\ Alone(c) => Overtaken(c)

\* A caller that has never called is idle: the one that is alone takes the step.
LEMMA LoneStep ==
    ASSUME TypeInv, CallInv, NEW c \in Callers, CallerStep(c), NEW d \in Callers, Alone(d)'
    PROVE  c = d /\ Alone(c)
<1>1. call \in [Callers -> Nat] /\ calls \in Nat
  BY BoundsAssumption DEF TypeInv, TypeOK
<1>2. CASE pc[c] = "idle" /\ calls' = calls + 1 /\ call' = [call EXCEPT ![c] = calls + 1]
  BY <1>1, <1>2 DEF Alone
<1>3. CASE Proceed(c) /\ calls' = calls /\ call' = call
  <2>1. call[c] # 0
    BY <1>3, ProceedPlace DEF CallInv
  <2> QED
    BY <1>3, <2>1 DEF Alone
<1> QED
  BY <1>2, <1>3, CallerFrame DEF TypeInv

\* What a step of a caller does to the row, to its place in the step and to
\* what it will reply.
LEMMA CancelMoves ==
    ASSUME TypeInv, CallInv, NEW c \in Callers, CallerStep(c)
    PROVE  /\ opPc' = opPc
           /\ InStep(c) => task' = task
           /\ InStep(c)' => InStep(c) \/ ~cancelled'[c]
           /\ cancelled'[c] => cancelled[c]
           /\ NearSuccess(c)' =>
                 \/ NearSuccess(c)
                 \/ /\ pc[c] = "decide" /\ task.status # "cancelled"
<1> USE DEF TypeInv, TypeOK, CallInv, Goto, dbVars, callVars, stepVars, ioVars, opVars, InStep,
            NearSuccess
<1>1. CASE \E p \in Plans : CallTool(c, p)
  BY <1>1 DEF CallTool, StartUpdate
<1>2. CASE ResolveTarget(c)
  BY <1>2 DEF ResolveTarget, StartUpdate
<1>3. CASE ReadRow(c)
  BY <1>3 DEF ReadRow
<1>4. CASE WriteRow(c)
  BY <1>4 DEF WriteRow
<1>5. CASE RefuseStep(c) \/ RunOperation(c) \/ Recover(c)
  BY <1>5 DEF RefuseStep, RunOperation, Recover, StartAppend
<1>6. CASE OperationRaises(c) \/ SelectSlot(c) \/ InsertRow(c) \/ InsertConflict(c)
  BY <1>6 DEF OperationRaises, SelectSlot, InsertRow, InsertConflict, Raise, Leave
<1>7. CASE MarkRefused(c) \/ MarkInconclusive(c) \/ MarkBlocked(c) \/ MarkCancelled(c)
           \/ RecoveryBlocked(c) \/ BlockForOperator(c) \/ MarkFailed(c)
  BY <1>7 DEF MarkRefused, MarkInconclusive, MarkBlocked, MarkCancelled, RecoveryBlocked,
              BlockForOperator, MarkFailed, EndStep, StartUpdate, Conclusive, StepFailed,
              Unrecovered, Upd
<1>8. CASE StopAfterStep(c) \/ NextStep(c) \/ BeginSummary(c)
  BY <1>8 DEF StopAfterStep, NextStep, BeginSummary, StartUpdate, StepSucceeded, Conclusive,
              Reread, TerminalStatuses
<1>9. CASE BeginRecovery(c) \/ RecoverySucceeded(c) \/ RetryStep(c)
  BY <1>9 DEF BeginRecovery, RecoverySucceeded, RetryStep, StartUpdate, Upd,
              Conclusive, StepFailed, Unrecovered
<1>10. CASE CompleteTask(c)
  BY <1>10 DEF CompleteTask, StartUpdate
<1>11. CASE Return(c)
  BY <1>11 DEF Return, Leave, ReplyFor
<1> QED
  BY <1>1, <1>2, <1>3, <1>4, <1>5, <1>6, <1>7, <1>8, <1>9, <1>10, <1>11
     DEF CallerStep, Proceed, RunStep

\* In its step a caller has replied nothing and ends nothing.
LEMMA InStepIsOpen ==
    ASSUME CallInv, NEW c \in Callers, InStep(c)
    PROVE  ~NearSuccess(c)
BY DEF InStep, NearSuccess, CallInv

\* state_machine.py: no event leaves a terminal status.
LEMMA CancelledIsTerminal == \A e : ApplyEvent("cancelled", e) = {}
BY DEF ApplyEvent, CanTransition, AllowedTransitions, TerminalStatuses

LEMMA OperatorCancel ==
    ASSUME TypeInv, CallInv, CancelInv, Operator, NEW c \in Callers, cancelled'[c], Alone(c)'
    PROVE  Overtaken(c)'
<1>0. UNCHANGED <<pc, after, call, plan, upd, seen, reply>>
  BY OperatorFrame DEF Operator, RouteEvent, OperatorReadRow, OperatorWriteRow, stepVars
<1>1. /\ InStep(c)' = InStep(c) /\ NearSuccess(c)' = NearSuccess(c) /\ Alone(c)
  BY <1>0 DEF InStep, NearSuccess, Alone
<1>2. CASE OperatorWriteRow
  <2>1. cancelled[c] \/ (opTarget = "cancelled" /\ InStep(c))
    BY <1>2, Zenon DEF OperatorWriteRow
  <2>2. opPc = "write" /\ task'.status = opTarget /\ opPc' = "idle"
    BY <1>2 DEF OperatorWriteRow, Merge, Upd
  <2>3. CASE cancelled[c]
    BY <1>1, <2>2, <2>3 DEF CancelInv, Overtaken
  <2>4. CASE opTarget = "cancelled" /\ InStep(c)
    BY <1>1, <2>2, <2>4, InStepIsOpen DEF Overtaken
  <2> QED
    BY <2>1, <2>3, <2>4
<1>3. CASE OperatorReadRow \/ (\E e \in DOMAIN EventMap : RouteEvent(e))
  <2>1. task' = task /\ cancelled[c]
    BY <1>3 DEF OperatorReadRow, RouteEvent, dbVars
  <2>2. Overtaken(c)
    BY <1>1, <2>1 DEF CancelInv
  <2>3. CASE ~InStep(c)
    BY <1>1, <2>2, <2>3 DEF Overtaken
  <2>4. CASE InStep(c)
    <3>1. task.status = "cancelled" /\ opPc = "idle"
      BY <2>2, <2>4 DEF Overtaken
    <3>2. opPc' = opPc
      BY <1>3, <3>1, CancelledIsTerminal DEF OperatorReadRow, RouteEvent
    <3> QED
      BY <1>1, <2>1, <2>2, <3>1, <3>2 DEF Overtaken
  <2> QED
    BY <2>3, <2>4
<1> QED
  BY <1>2, <1>3 DEF Operator

LEMMA NextCancel ==
    ASSUME TypeInv, CallInv, CancelInv, [Next]_vars
    PROVE  CancelInv'
<1>1. ASSUME NEW c \in Callers, CallerStep(c), NEW d \in Callers, cancelled'[d], Alone(d)'
      PROVE  Overtaken(d)'
  <2>1. c = d /\ Alone(c)
    BY <1>1, LoneStep
  <2>2. Overtaken(c)
    BY <1>1, <2>1, CancelMoves DEF CancelInv
  <2> QED
    BY <1>1, <2>1, <2>2, CancelMoves DEF Overtaken, InStep
<1>2. CASE Operator
  BY <1>2, OperatorCancel DEF CancelInv
<1>3. CASE UNCHANGED vars
  BY <1>3 DEF vars, dbVars, callVars, stepVars, ioVars, opVars, CancelInv, Alone, Overtaken,
              InStep, NearSuccess
<1> QED
  BY <1>1, <1>2, <1>3 DEF Next, CallerStep, CancelInv

\* A cancel the operator gets in while a step runs is never turned into a
\* success by that step, however the operator's update and the thread's
\* interleave, as long as no other call shares the task (the re-read in
\* _run_step, OperatorEventRouter.route_event).
THEOREM CancelIsHeeded == Spec => []CancelBeatsSuccess
<1>1. Init => TypeInv /\ CallInv /\ CancelInv
  BY InitTypeInv, InitEarned DEF Init, CancelInv
<1>2. TypeInv /\ CallInv /\ CancelInv /\ [Next]_vars => TypeInv' /\ CallInv' /\ CancelInv'
  BY NextTypeInv, NextCall, NextCancel DEF TypeInv
<1>3. CancelInv => CancelBeatsSuccess
  BY DEF CancelInv, CancelBeatsSuccess, Alone, Overtaken, NearSuccess
<1> QED
  BY <1>1, <1>2, <1>3, PTL DEF Spec

-------------------------------------------------------------------------------
\* One caller and no operator: other threads of the turn and operator events
\* write the row too, and what is promised of it is promised without them.
Undisturbed == (\A c, d \in Callers : c = d) /\ MaxEvents = 0

\* The outcome code of an operation is never that of a finished task.
LEMMA OutcomesOfOperations ==
    /\ Refusal.outcome # "completed"
    /\ \A r \in RelocalizationResults : r.outcome # "completed"
    /\ \A t \in Tools : \A r \in OperationResults(t) :
          r.outcome # "completed" /\ TimedOut(r).outcome # "completed"
<1>1. NoAdapter.outcome # "completed" /\ Refusal.outcome # "completed"
  BY DEF NoAdapter, Refusal, Res
<1>2. \A r \in RelocalizationResults : r.outcome # "completed"
  <2>1. \A status, k : RelocalizationResult(status, k).outcome # "completed"
    BY DEF RelocalizationResult, Res
  <2> QED
    BY <1>1, <2>1 DEF RelocalizationResults
<1>3. \A r \in NavigationResults : r.outcome # "completed"
  <2>1. \A status, k : NavigationResult(status, k).outcome # "completed"
    BY DEF NavigationResult, Res
  <2> QED
    BY <1>1, <2>1 DEF NavigationResults
<1>4. \A r \in CaptureResults : r.outcome # "completed"
  BY <1>1 DEF CaptureResults, Res
<1>5. \A r \in InspectionResults : r.outcome # "completed"
  BY <1>1 DEF InspectionResults, Res
<1>6. \A r \in CommandResults \union SuppliedResults : r.outcome # "completed"
  BY DEF CommandResults, SuppliedResults, Res
<1>7. \A t \in Tools : \A r \in OperationResults(t) : r.outcome # "completed"
  BY <1>2, <1>3, <1>4, <1>5, <1>6, Zenon DEF OperationResults, Tools
<1>8. \A r : r.outcome # "completed" => TimedOut(r).outcome # "completed"
  BY DEF TimedOut, OrElse, Res
<1> QED
  BY <1>1, <1>2, <1>7, <1>8

\* An update, a row that a call ends with.
Ends(u) ==
    /\ u.status \in TerminalStatuses /\ u.ended
    /\ u.outcome # "keep"
    /\ u.status = "completed" <=> u.outcome = "completed"

EndedRow(status) ==
    /\ task.status = status /\ status \in TerminalStatuses /\ task.ended
    /\ status = "completed" <=> task.outcome = "completed"

\* Where the caller is, and what it will write, say what the row is.
Inside(c, places) ==
    pc[c] \in places \/ (pc[c] \in {"select", "insert"} /\ after[c] \in places)

RowFits(c) ==
    /\ result[c].outcome # "completed"
    /\ Inside(c, {"step", "refused", "decide"}) => task.status = "executing"
    /\ Inside(c, {"recover", "recovered"}) => task.status = "recovering"
    /\ after[c] = "step" => upd[c].status = "executing"
    /\ after[c] = "recover" => upd[c].status = "recovering"
    /\ pc[c] \in {"read", "write"} /\ after[c] = "return" /\ plan[c] # <<>> => Ends(upd[c])
    /\ pc[c] = "return" /\ plan[c] # <<>> => EndedRow(seen[c])
    /\ pc[c] = "idle" =>
          /\ reply[c] \in {"success", "blocked", "inconclusive", "failed"} =>
                \E status \in TerminalStatuses : EndedRow(status) /\ reply[c] = ReplyFor(status)
          /\ reply[c] = "raised" => task.status \in {"executing", "recovering"}

AgreeInv ==
    /\ events = 0 /\ opPc = "idle"
    /\ \A c \in Callers : RowFits(c)

LEMMA EndStepFits ==
    ASSUME TypeInv, NEW c \in Callers, RowFits(c), NEW s \in TerminalStatuses \ {"completed"},
           NEW d \in Outcome \ {"completed"}, EndStep(c, s, d),
           UNCHANGED <<dbVars, callVars, stepVars, reply, opVars, cancelled>>
    PROVE  RowFits(c)'
<1>1. Ends(Upd(s, OrElse(result[c].outcome, d), TRUE))
  BY DEF Ends, Upd, OrElse, RowFits, TypeInv, TypeOK, Result, Outcome
<1>2. /\ pc'[c] = "read" /\ after'[c] = "return"
      /\ upd'[c] = Upd(s, OrElse(result[c].outcome, d), TRUE)
  BY DEF EndStep, StartUpdate, Goto, TypeInv, TypeOK
<1>3. Ends(upd[c])'
  BY <1>1, <1>2 DEF Ends
<1> QED
  BY <1>2, <1>3 DEF RowFits, Inside, stepVars

LEMMA WriteRowFits ==
    ASSUME TypeInv, CallInv, NEW c \in Callers, RowFits(c), WriteRow(c)
    PROVE  RowFits(c)'
<1>1. /\ task'.status = upd[c].status /\ (upd[c].ended => task'.ended)
      /\ upd[c].outcome # "keep" => task'.outcome = upd[c].outcome
      /\ seen'[c] = upd[c].status /\ pc'[c] = after[c] /\ after'[c] = "idle"
      /\ after[c] \in {"step", "recover", "complete", "return"}
      /\ UNCHANGED <<plan, result, reply>>
  BY DEF WriteRow, Merge, Goto, TypeInv, TypeOK, CallInv, callVars
<1>2. ASSUME after[c] = "return", plan[c] # <<>> PROVE EndedRow(seen[c])'
  BY <1>1, <1>2 DEF RowFits, Ends, EndedRow, WriteRow
<1> QED
  BY <1>1, <1>2 DEF RowFits, Inside

LEMMA CallerFits ==
    ASSUME TypeInv, CallInv, NEW c \in Callers, RowFits(c), CallerStep(c)
    PROVE  RowFits(c)'
<1> USE DEF TypeInv, TypeOK, CallInv, Goto, dbVars, callVars, stepVars, ioVars, opVars, Inside
<1>1. CASE \E p \in Plans : CallTool(c, p)
  BY <1>1, PlansAssumption DEF CallTool, StartUpdate, Upd, RowFits
<1>2. CASE ResolveTarget(c)
  BY <1>2 DEF ResolveTarget, StartUpdate, RowFits
<1>3. CASE ReadRow(c)
  BY <1>3 DEF ReadRow, RowFits, Ends
<1>4. CASE WriteRow(c)
  BY <1>4, WriteRowFits
<1>5. CASE RefuseStep(c)
  BY <1>5, OutcomesOfOperations DEF RefuseStep, StartAppend, RowFits
<1>6. CASE RunOperation(c)
  <2>1. CurrentStep(c).tool \in Tools
    BY <1>6, CurrentStepType DEF RunOperation, InRunStep, Step
  <2>2. result'[c].outcome # "completed"
    BY <1>6, <2>1, OutcomesOfOperations DEF RunOperation
  <2> QED
    BY <1>6, <2>2 DEF RunOperation, StartAppend, RowFits
<1>7. CASE Recover(c)
  <2>1. result'[c].outcome # "completed"
    BY <1>7, OutcomesOfOperations DEF Recover
  <2> QED
    BY <1>7, <2>1 DEF Recover, StartAppend, RowFits
<1>8. CASE OperationRaises(c) \/ InsertConflict(c)
  BY <1>8, OutcomesOfOperations DEF OperationRaises, InsertConflict, Raise, Leave, RowFits
<1>9. CASE SelectSlot(c) \/ InsertRow(c)
  BY <1>9 DEF SelectSlot, InsertRow, RowFits
<1>10. CASE MarkRefused(c) \/ MarkInconclusive(c) \/ MarkBlocked(c) \/ MarkCancelled(c)
            \/ RecoveryBlocked(c) \/ BlockForOperator(c) \/ MarkFailed(c)
  <2>1. PICK s \in TerminalStatuses \ {"completed"}, d \in Outcome \ {"completed"} :
           EndStep(c, s, d)
    BY <1>10 DEF MarkRefused, MarkInconclusive, MarkBlocked, MarkCancelled, RecoveryBlocked,
                 BlockForOperator, MarkFailed, TerminalStatuses, Outcome
  <2>2. UNCHANGED <<dbVars, callVars, stepVars, reply, opVars, cancelled>>
    BY <1>10 DEF MarkRefused, MarkInconclusive, MarkBlocked, MarkCancelled, RecoveryBlocked,
                 BlockForOperator, MarkFailed
  <2> QED
    BY <2>1, <2>2, EndStepFits
<1>11. CASE StopAfterStep(c) \/ NextStep(c) \/ BeginSummary(c)
  <2>1. task.status = "executing" /\ "executing" \notin TerminalStatuses
    BY <1>11 DEF StopAfterStep, NextStep, BeginSummary, StepSucceeded, Conclusive, RowFits,
                 TerminalStatuses
  <2> QED
    BY <1>11, <2>1 DEF StopAfterStep, NextStep, BeginSummary, StepSucceeded, Conclusive, Reread,
                       StartUpdate, RowFits
<1>12. CASE CompleteTask(c)
  <2>1. Ends(Upd("completed", "completed", TRUE))
    BY DEF Ends, Upd, TerminalStatuses
  <2>2. upd'[c] = Upd("completed", "completed", TRUE)
    BY <1>12 DEF CompleteTask, StartUpdate
  <2>3. Ends(upd[c])'
    BY <2>1, <2>2 DEF Ends
  <2> QED
    BY <1>12, <2>3 DEF CompleteTask, StartUpdate, RowFits
<1>13. CASE BeginRecovery(c) \/ RecoverySucceeded(c) \/ RetryStep(c)
  BY <1>13 DEF BeginRecovery, RecoverySucceeded, RetryStep, StartUpdate, Upd, StepFailed,
               Unrecovered, Conclusive, RowFits
<1>14. CASE Return(c)
  <2>1. result'[c].outcome # "completed"
    BY <1>14, OutcomesOfOperations DEF Return, Leave
  <2>2. pc'[c] = "idle" /\ after'[c] = "idle" /\ task' = task
    BY <1>14 DEF Return, Leave
  <2>3. CASE plan[c] = <<>>
    BY <1>14, <2>1, <2>2, <2>3 DEF Return, RowFits
  <2>4. CASE plan[c] # <<>>
    <3>1. EndedRow(seen[c]) /\ seen[c] \in TerminalStatuses
      BY <1>14, <2>4 DEF Return, RowFits, EndedRow
    <3>2. reply'[c] = ReplyFor(seen[c])
      BY <1>14, <2>4 DEF Return
    <3>3. reply'[c] # "raised"
      BY <3>2, Zenon DEF ReplyFor
    <3> QED
      BY <2>1, <2>2, <3>1, <3>2, <3>3 DEF RowFits, EndedRow, ReplyFor
  <2> QED
    BY <2>3, <2>4
<1> QED
  BY <1>1, <1>2, <1>3, <1>4, <1>5, <1>6, <1>7, <1>8, <1>9, <1>10, <1>11, <1>12, <1>13, <1>14
     DEF CallerStep, Proceed, RunStep

LEMMA NextAgree ==
    ASSUME Undisturbed, TypeInv, CallInv, AgreeInv, [Next]_vars
    PROVE  AgreeInv'
<1>1. ASSUME NEW c \in Callers, CallerStep(c)
      PROVE  AgreeInv'
  <2>1. RowFits(c)'
    BY <1>1, CallerFits DEF AgreeInv
  <2>2. opVars' = opVars
    <3>1. (\E p \in Plans : CallTool(c, p)) \/ ResolveTarget(c) => opVars' = opVars
      BY DEF CallTool, ResolveTarget
    <3>2. ReadRow(c) \/ WriteRow(c) \/ CompleteTask(c) \/ Return(c) => opVars' = opVars
      BY DEF ReadRow, WriteRow, CompleteTask, Return
    <3>3. RunStep(c) => opVars' = opVars
      BY DEF RunStep, RefuseStep, RunOperation, OperationRaises, SelectSlot, InsertRow,
             InsertConflict, MarkRefused, MarkInconclusive, StopAfterStep, NextStep, BeginSummary,
             MarkBlocked, MarkCancelled, BeginRecovery, Recover, RecoverySucceeded,
             RecoveryBlocked, BlockForOperator, RetryStep, MarkFailed
    <3> QED
      BY <1>1, <3>1, <3>2, <3>3 DEF CallerStep, Proceed
  <2> QED
    BY <2>1, <2>2 DEF AgreeInv, Undisturbed, opVars
<1>2. ~Operator
  BY DEF Operator, RouteEvent, OperatorReadRow, OperatorWriteRow, AgreeInv, Undisturbed
<1>3. CASE UNCHANGED vars
  BY <1>3 DEF vars, dbVars, callVars, stepVars, ioVars, opVars, AgreeInv, RowFits, Inside, Ends,
              EndedRow, ReplyFor
<1> QED
  BY <1>1, <1>2, <1>3 DEF Next, CallerStep

LEMMA InitAgree == Init => AgreeInv
BY OutcomesOfOperations DEF Init, AgreeInv, RowFits, Inside

LEMMA AgreeingRow == AgreeInv => IdleRowAgrees
<1> SUFFICES ASSUME AgreeInv, NEW c \in Callers, pc[c] = "idle"
             PROVE  /\ reply[c] \in {"success", "blocked", "inconclusive", "failed"} =>
                          /\ task.status \in TerminalStatuses /\ reply[c] = ReplyFor(task.status)
                          /\ task.ended
                          /\ (reply[c] = "success") <=> (task.outcome = "completed")
                    /\ reply[c] = "raised" => task.status \in {"executing", "recovering"}
  BY DEF IdleRowAgrees
<1>1. \A status : ReplyFor(status) = "success" <=> status = "completed"
  BY DEF ReplyFor
<1> QED
  BY <1>1 DEF AgreeInv, RowFits, EndedRow

\* With one thread and no operator the row agrees with what the agent was told,
\* after any number of calls with any plans: its status is the reply's, it has
\* ended, its outcome is "completed" exactly for a success, and a call that
\* raised left it in the middle of execution (run_task, _run_step,
\* _run_side_effect_tool, _persist_resolution).
THEOREM RowAgreesWithReply == ASSUME Undisturbed PROVE Spec => []IdleRowAgrees
<1>1. Init => TypeInv /\ CallInv /\ AgreeInv
  BY InitTypeInv, InitEarned, InitAgree
<1>2. TypeInv /\ CallInv /\ AgreeInv /\ [Next]_vars => TypeInv' /\ CallInv' /\ AgreeInv'
  BY NextTypeInv, NextCall, NextAgree DEF TypeInv
<1>3. AgreeInv => IdleRowAgrees
  BY AgreeingRow
<1> QED
  BY <1>1, <1>2, <1>3, PTL DEF Spec

-------------------------------------------------------------------------------
\* The promise to the agent: module ToolCall, step by step.

\* Retry limits are numbers a program has written down: there is a largest one.
BudgetsBounded ==
    \E n \in Nat : \A p \in Plans : \A i \in DOMAIN p : RetryBudget(p[i]) =< n

\* A bounded, nonempty set of numbers has a greatest member, and MaxOf is it.
LEMMA MaxIsMember ==
    ASSUME NEW S \in SUBSET Nat, S # {}, NEW n \in Nat, \A x \in S : x =< n
    PROVE  MaxOf(S) \in S /\ \A j \in S : j =< MaxOf(S)
<1> DEFINE Bounds == {m \in Nat : \A x \in S : x =< m}
           Less == OpToRel(<, Nat)
<1>1. PICK m \in Bounds : \A y \in Bounds : ~(<<y, m>> \in Less)
  <2>1. n \in Bounds /\ Bounds \subseteq Nat
    OBVIOUS
  <2> HIDE DEF Bounds
  <2> QED
    BY <2>1, WFMin, NatLessThanWellFounded
<1>2. ASSUME NEW y \in Bounds PROVE m =< y
  <2>1. \A u, v \in Nat : u < v => <<u, v>> \in Less
    BY DEF OpToRel
  <2>2. m \in Nat /\ y \in Nat
    OBVIOUS
  <2>3. ~(<<y, m>> \in Less)
    BY <1>1
  <2> HIDE DEF Less, Bounds
  <2>4. ~(y < m)
    BY <2>1, <2>2, <2>3
  <2> QED
    BY <2>2, <2>4
<1>3. m \in S
  <2> SUFFICES ASSUME m \notin S PROVE FALSE
    OBVIOUS
  <2>1. \A x \in S : x =< m - 1 /\ m - 1 \in Nat
    OBVIOUS
  <2>2. m - 1 \in Bounds
    BY <2>1
  <2> QED
    BY <1>2, <2>2
<1>4. \A j \in S : j =< m
  OBVIOUS
<1> QED
  BY <1>3, <1>4 DEF MaxOf

LEMMA BudgetCovers ==
    ASSUME BudgetsBounded, NEW p \in Plans, NEW i \in DOMAIN p
    PROVE  MaxBudget \in Nat /\ RetryBudget(p[i]) =< MaxBudget
<1> DEFINE S == UNION {{RetryBudget(q[j]) : j \in DOMAIN q} : q \in Plans}
<1>1. \A q \in Plans : \A j \in DOMAIN q : RetryBudget(q[j]) \in Nat
  <2>1. \A q \in Plans : \A j \in DOMAIN q : q[j] \in Step
    BY PlansAssumption
  <2> QED
    BY <2>1, BudgetBounds
<1>2. PICK n \in Nat : \A q \in Plans : \A j \in DOMAIN q : RetryBudget(q[j]) =< n
  BY DEF BudgetsBounded
<1>3. S \in SUBSET Nat /\ (\A x \in S : x =< n) /\ RetryBudget(p[i]) \in S
  BY <1>1, <1>2
<1>4. MaxBudget = MaxOf(S)
  BY DEF MaxBudget
<1> HIDE DEF S
<1>5. MaxOf(S) \in S /\ \A x \in S : x =< MaxOf(S)
  BY <1>3, MaxIsMember
<1> QED
  BY <1>3, <1>4, <1>5

\* What the abstract variables are read off, for one caller.
Phase(c) == IF pc[c] = "idle" THEN "idle" ELSE IF plan[c] = <<>> THEN "resolving" ELSE "running"
Count(c) == Cardinality(TryRows(c))
LastTry(c) == IF TryRows(c) = {} THEN "none" ELSE log[MaxOf(TryRows(c))].state

LEMMA TryRowsFinite ==
    ASSUME TypeOK, NEW c \in Callers
    PROVE  /\ TryRows(c) \in SUBSET Nat /\ IsFiniteSet(TryRows(c))
           /\ \A i \in TryRows(c) : i \in DOMAIN log /\ i =< Len(log)
           /\ Count(c) \in Nat
           /\ Count(c) = 0 <=> TryRows(c) = {}
           /\ TryRows(c) # {} => MaxOf(TryRows(c)) \in TryRows(c)
<1>1. DOMAIN log = 1..Len(log) /\ Len(log) \in Nat
  BY DEF TypeOK
<1>2. /\ TryRows(c) \in SUBSET Nat
      /\ \A i \in TryRows(c) : i \in DOMAIN log /\ i =< Len(log)
  BY <1>1 DEF TryRows
<1>3. IsFiniteSet(TryRows(c))
  BY <1>1, <1>2, FS_BoundedSetOfNaturals
<1>4. Count(c) \in Nat /\ (Count(c) = 0 <=> TryRows(c) = {})
  BY <1>3, FS_CardinalityType, FS_EmptySet DEF Count
<1>5. TryRows(c) # {} => MaxOf(TryRows(c)) \in TryRows(c)
  BY <1>1, <1>2, MaxIsMember
<1> QED
  BY <1>2, <1>3, <1>4, <1>5

\* Rows that are no tries of the caller's step change nothing of its tries.
LEMMA SameTries ==
    ASSUME TypeOK, NEW c \in Callers, call'[c] = call[c], index'[c] = index[c],
           plan'[c] = plan[c], DOMAIN log \subseteq DOMAIN log',
           \A i \in DOMAIN log : log'[i] = log[i],
           \A i \in DOMAIN log' \ DOMAIN log :
              log'[i].call # call[c] \/ log'[i].role # "attempt"
    PROVE  TryRows(c)' = TryRows(c) /\ Count(c)' = Count(c) /\ LastTry(c)' = LastTry(c)
<1>1. TryRows(c)' = TryRows(c)
  BY DEF TryRows
<1>2. TryRows(c) # {} => log'[MaxOf(TryRows(c))] = log[MaxOf(TryRows(c))]
  BY TryRowsFinite
<1>3. Count(c)' = Count(c)
  BY <1>1 DEF Count
<1>4. LastTry(c)' = LastTry(c)
  BY <1>1, <1>2 DEF LastTry
<1> QED
  BY <1>1, <1>3, <1>4

\* The call has logged a try of its step; it may reply "success".
HasTried(c) ==
    \/ pc[c] \in {"refused", "decide", "recover", "recovered", "complete"}
    \/ after[c] \in {"recover", "recovered", "complete"}
    \/ plan[c] # <<>> /\ (pc[c] = "return" \/ after[c] = "return")

Due(c) == pc[c] # "idle" /\ Promised(c)

\* What the tries of the step are at each place: at most one for each attempt,
\* and all but the last one failed.
Counted(c) ==
    /\ Trying(c) => Count(c) =< attempt[c] /\ LastTry(c) \in {"none", "failed"}
    /\ Recovering(c) \/ pc[c] = "decide" => Count(c) =< attempt[c] + 1
    /\ pc[c] = "decide" => LastTry(c) = result[c].state
    /\ Recovering(c) => LastTry(c) = "failed"
    /\ HasTried(c) => TryRows(c) # {}
    /\ Due(c) => LastTry(c) = "succeeded"

CountInv == \A c \in Callers : Counted(c)

\* A step that logs nothing starts afresh, or goes on with the tries it has.
LEMMA CountMoves ==
    ASSUME TypeInv, CallInv, NEW c \in Callers, CallerStep(c), ~InsertRow(c)
    PROVE  \/ /\ \/ call'[c] = calls + 1
                 \/ plan'[c] = <<>>
                 \/ call'[c] = call[c] /\ index'[c] = index[c] + 1
              /\ Trying(c)' => attempt'[c] = 0
              /\ ~Recovering(c)' /\ pc'[c] # "decide" /\ ~HasTried(c)' /\ ~Due(c)'
           \/ /\ index'[c] = index[c] /\ plan'[c] = plan[c] /\ call'[c] = call[c]
              /\ Trying(c)' =>
                    \/ Trying(c) /\ attempt'[c] = attempt[c]
                    \/ /\ attempt'[c] = attempt[c] + 1
                       /\ (pc[c] = "decide" /\ result[c].state = "failed") \/ pc[c] = "recovered"
              /\ pc'[c] # "decide"
              /\ Recovering(c)' =>
                    /\ attempt'[c] = attempt[c]
                    /\ Recovering(c) \/ (pc[c] = "decide" /\ result[c].state = "failed")
              /\ HasTried(c)' => HasTried(c)
              /\ Due(c)' => Due(c)
<1>0. Due(c)' => Due(c) /\ Proceed(c)
  <2> HAVE Due(c)'
  <2>1. Promised(c)'
    BY DEF Due
  <2>2. Promised(c) /\ Proceed(c)
    BY <2>1, PromiseKept DEF TypeInv
  <2> QED
    BY <2>2, ProceedPlace DEF Due
<1> USE DEF TypeInv, TypeOK, CallInv, Goto, dbVars, callVars, stepVars, ioVars, opVars, Trying,
            Recovering, HasTried
<1>1. CASE \E p \in Plans : CallTool(c, p)
  <2>1. ~Proceed(c)
    BY <1>1, ProceedPlace DEF CallTool
  <2> QED
    BY <1>0, <1>1, <2>1 DEF CallTool, StartUpdate
<1>2. CASE ResolveTarget(c)
  <2>1. ~Proceed(c)
    BY <1>2, ProceedPlace DEF ResolveTarget
  <2> QED
    BY <1>0, <1>2, <2>1 DEF ResolveTarget, StartUpdate
<1>3. CASE ReadRow(c) \/ WriteRow(c)
  BY <1>0, <1>3 DEF ReadRow, WriteRow
<1>4. CASE RefuseStep(c) \/ RunOperation(c)
  BY <1>0, <1>4 DEF RefuseStep, RunOperation, StartAppend
<1>5. CASE OperationRaises(c) \/ SelectSlot(c) \/ InsertConflict(c)
  BY <1>0, <1>5 DEF OperationRaises, SelectSlot, InsertConflict, Raise, Leave
<1>6. CASE MarkRefused(c) \/ MarkInconclusive(c) \/ MarkBlocked(c) \/ MarkCancelled(c)
           \/ RecoveryBlocked(c) \/ BlockForOperator(c) \/ MarkFailed(c)
  BY <1>0, <1>6 DEF MarkRefused, MarkInconclusive, MarkBlocked, MarkCancelled, RecoveryBlocked,
              BlockForOperator, MarkFailed, EndStep, StartUpdate, Conclusive, StepFailed,
              Unrecovered
<1>7. CASE StopAfterStep(c) \/ BeginSummary(c)
  BY <1>0, <1>7 DEF StopAfterStep, BeginSummary, StartUpdate, StepSucceeded, Conclusive
<1>8. CASE NextStep(c)
  <2>1. ~Due(c)'
    BY <1>8 DEF NextStep, StepSucceeded, Conclusive, Due, Promised
  <2> QED
    BY <1>8, <2>1 DEF NextStep, StepSucceeded, Conclusive
<1>9. CASE BeginRecovery(c) \/ Recover(c)
  BY <1>0, <1>9 DEF BeginRecovery, Recover, StartUpdate, StartAppend, Conclusive, StepFailed
<1>10. CASE RecoverySucceeded(c) \/ RetryStep(c)
  BY <1>0, <1>10 DEF RecoverySucceeded, RetryStep, StartUpdate, Conclusive, StepFailed, Unrecovered
<1>11. CASE CompleteTask(c) \/ Return(c)
  BY <1>0, <1>11 DEF CompleteTask, Return, Leave, StartUpdate
<1> QED
  BY <1>1, <1>2, <1>3, <1>4, <1>5, <1>6, <1>7, <1>8, <1>9, <1>10, <1>11
     DEF CallerStep, Proceed, RunStep

\* Another caller's step leaves the tries of this one alone.
LEMMA OthersTries ==
    ASSUME TypeInv, CallInv, NEW c \in Callers, CallerStep(c), NEW d \in Callers, d # c
    PROVE  /\ TryRows(d)' = TryRows(d) /\ Count(d)' = Count(d) /\ LastTry(d)' = LastTry(d)
           /\ Phase(d)' = Phase(d) /\ reply'[d] = reply[d]
<1>1. /\ pc'[d] = pc[d] /\ plan'[d] = plan[d] /\ call'[d] = call[d] /\ index'[d] = index[d]
      /\ reply'[d] = reply[d]
  BY CallerFrame DEF TypeInv
<1>2. CASE call[d] # 0
  <2>1. \A i \in DOMAIN log' \ DOMAIN log : log'[i].call # call[d]
    <3>1. CASE log' = log
      BY <3>1
    <3>2. CASE InsertRow(c)
      <4>1. NewRow(c).call # call[d]
        BY <1>2 DEF NewRow, CallInv
      <4> QED
        BY <3>2, <4>1, InsertEffect DEF TypeInv
    <3> QED
      BY <3>1, <3>2, CallerFrame DEF TypeInv
  <2> QED
    BY <1>1, <2>1, LogGrows, SameTries DEF Phase, TypeInv
<1>3. CASE call[d] = 0
  <2>1. \A i \in DOMAIN log' \ DOMAIN log : log'[i].call # call[d]
    <3>1. CASE log' = log
      BY <3>1
    <3>2. CASE InsertRow(c)
      <4>1. NewRow(c).call # call[d]
        BY <1>3, <3>2 DEF NewRow, CallInv, InsertRow
      <4> QED
        BY <3>2, <4>1, InsertEffect DEF TypeInv
    <3> QED
      BY <3>1, <3>2, CallerFrame DEF TypeInv
  <2> QED
    BY <1>1, <2>1, LogGrows, SameTries DEF Phase, TypeInv
<1> QED
  BY <1>2, <1>3

\* A new step, a new call has no tries yet.
LEMMA FreshTries ==
    ASSUME TypeInv, CallInv, TriesInv, NEW c \in Callers, log' = log,
           \/ call'[c] = calls + 1
           \/ plan'[c] = <<>>
           \/ call'[c] = call[c] /\ index'[c] = index[c] + 1
    PROVE  TryRows(c)' = {} /\ Count(c)' = 0 /\ LastTry(c)' = "none"
<1>1. /\ \A i \in DOMAIN log : log[i].call \in Nat /\ log[i].index \in Nat
      /\ index[c] \in Nat /\ calls \in Nat
  <2>1. \A i \in DOMAIN log : log[i] \in LogRow
    BY DEF TypeInv, TypeOK
  <2>2. index[c] \in Nat /\ calls \in Nat
    BY BoundsAssumption DEF TypeInv, TypeOK
  <2> QED
    BY <2>1, <2>2 DEF LogRow
<1>2. ASSUME NEW i \in DOMAIN log, log[i].call = call'[c], log[i].index = index'[c],
             plan'[c] # <<>>
      PROVE  FALSE
  <2>1. log[i].call =< calls
    BY <1>1 DEF CallInv
  <2>2. call'[c] = call[c] /\ index'[c] = index[c] + 1
    BY <1>1, <1>2, <2>1
  <2>3. log[i].index =< index[c]
    BY <1>2, <2>2 DEF TriesInv, Fits
  <2> QED
    BY <1>1, <1>2, <2>2, <2>3
<1>3. TryRows(c)' = {}
  BY <1>2 DEF TryRows
<1> QED
  BY <1>3, FS_EmptySet DEF Count, LastTry

\* The row of an attempt is one more try, and the last one.
LEMMA OneMoreTry ==
    ASSUME TypeInv, CallInv, NEW c \in Callers, InsertRow(c)
    PROVE  /\ after[c] = "recovered" =>
                 TryRows(c)' = TryRows(c) /\ Count(c)' = Count(c) /\ LastTry(c)' = LastTry(c)
           /\ after[c] # "recovered" =>
                 /\ TryRows(c)' # {} /\ Count(c)' = Count(c) + 1
                 /\ LastTry(c)' = result[c].state
<1>1. /\ DOMAIN log = 1..Len(log) /\ Len(log) \in Nat
      /\ DOMAIN log' = 1..(Len(log) + 1)
      /\ \A i \in DOMAIN log : log'[i] = log[i]
      /\ log'[Len(log) + 1] = NewRow(c)
  BY InsertEffect DEF TypeInv
<1>2. call'[c] = call[c] /\ index'[c] = index[c] /\ plan'[c] = plan[c]
  BY DEF InsertRow, callVars
<1>3. CASE after[c] = "recovered"
  <2>1. \A i \in DOMAIN log' \ DOMAIN log : log'[i].role # "attempt"
    BY <1>1, <1>3 DEF NewRow
  <2> QED
    BY <1>1, <1>2, <1>3, <2>1, SameTries DEF TypeInv
<1>4. CASE after[c] # "recovered"
  <2> DEFINE n == Len(log) + 1
             S == TryRows(c)
  <2>1. plan[c] # <<>>
    <3>1. index[c] \in DOMAIN plan[c]
      BY DEF InsertRow, TypeInv, HasStep, InRunStep
    <3> QED
      BY <3>1
  <2>2. /\ NewRow(c).call = call[c] /\ NewRow(c).index = index[c]
        /\ NewRow(c).role = "attempt" /\ NewRow(c).state = result[c].state
    BY <1>4 DEF NewRow
  <2>3. TryRows(c)' = S \union {n}
    BY <1>1, <1>2, <2>1, <2>2 DEF TryRows
  <2>4. S \in SUBSET Nat /\ IsFiniteSet(S) /\ (\A i \in S : i =< Len(log)) /\ Count(c) \in Nat
    BY TryRowsFinite DEF TypeInv
  <2> HIDE DEF S
  <2>5. n \notin S /\ n \in Nat
    BY <1>1, <2>4
  <2>6. Cardinality(S \union {n}) = Cardinality(S) + 1
    BY <2>4, <2>5, FS_AddElement
  <2>7. MaxOf(S \union {n}) = n
    <3>0. \A x \in S : x \in Nat /\ x =< n
      BY <1>1, <2>4
    <3>1. /\ S \union {n} \in SUBSET Nat /\ S \union {n} # {}
          /\ \A x \in S \union {n} : x =< n
      BY <2>5, <3>0
    <3>2. MaxOf(S \union {n}) \in S \union {n} /\ n =< MaxOf(S \union {n})
      BY <2>5, <3>1, MaxIsMember
    <3>3. MaxOf(S \union {n}) =< n
      BY <3>1, <3>2
    <3> QED
      BY <2>5, <3>1, <3>2, <3>3
  <2>8. Count(c)' = Count(c) + 1
    BY <2>3, <2>6 DEF Count, S
  <2>9. LastTry(c)' = result[c].state
    BY <1>1, <2>2, <2>3, <2>7 DEF LastTry
  <2> QED
    BY <1>4, <2>3, <2>8, <2>9
<1> QED
  BY <1>3, <1>4

LEMMA NextCount ==
    ASSUME TypeInv, CallInv, TriesInv, CountInv, [Next]_vars
    PROVE  CountInv'
<1>1. ASSUME NEW c \in Callers, CallerStep(c), NEW d \in Callers, d # c
      PROVE  Counted(d)'
  <2>1. /\ pc'[d] = pc[d] /\ after'[d] = after[d] /\ attempt'[d] = attempt[d]
        /\ result'[d] = result[d] /\ upd'[d] = upd[d] /\ seen'[d] = seen[d]
        /\ reply'[d] = reply[d] /\ plan'[d] = plan[d]
    BY <1>1, CallerFrame DEF TypeInv
  <2>2. /\ Trying(d)' = Trying(d) /\ Recovering(d)' = Recovering(d)
        /\ HasTried(d)' = HasTried(d) /\ Due(d)' = Due(d)
    BY <2>1 DEF Trying, Recovering, HasTried, Due, Promised
  <2> QED
    BY <1>1, <2>1, <2>2, OthersTries DEF CountInv, Counted
<1>2. ASSUME NEW c \in Callers, CallerStep(c), ~InsertRow(c)
      PROVE  Counted(c)'
  <2>1. log' = log
    BY <1>2, CallerFrame DEF TypeInv
  <2>2. attempt[c] \in Nat /\ Count(c) \in Nat /\ Counted(c)
    BY TryRowsFinite DEF TypeInv, TypeOK, CountInv
  <2>3. CASE /\ \/ call'[c] = calls + 1
                \/ plan'[c] = <<>>
                \/ call'[c] = call[c] /\ index'[c] = index[c] + 1
             /\ Trying(c)' => attempt'[c] = 0
             /\ ~Recovering(c)' /\ pc'[c] # "decide" /\ ~HasTried(c)' /\ ~Due(c)'
    <3>1. Count(c)' = 0 /\ LastTry(c)' = "none"
      BY <2>1, <2>3, FreshTries
    <3> QED
      BY <2>3, <3>1 DEF Counted
  <2>4. CASE /\ index'[c] = index[c] /\ plan'[c] = plan[c] /\ call'[c] = call[c]
             /\ Trying(c)' =>
                   \/ Trying(c) /\ attempt'[c] = attempt[c]
                   \/ /\ attempt'[c] = attempt[c] + 1
                      /\ (pc[c] = "decide" /\ result[c].state = "failed") \/ pc[c] = "recovered"
             /\ pc'[c] # "decide"
             /\ Recovering(c)' =>
                   /\ attempt'[c] = attempt[c]
                   /\ Recovering(c) \/ (pc[c] = "decide" /\ result[c].state = "failed")
             /\ HasTried(c)' => HasTried(c)
             /\ Due(c)' => Due(c)
    <3>1. TryRows(c)' = TryRows(c) /\ Count(c)' = Count(c) /\ LastTry(c)' = LastTry(c)
      BY <2>1, <2>4, SameTries DEF TypeInv
    <3>2. pc[c] = "recovered" => Recovering(c)
      BY DEF Recovering
    <3> QED
      BY <2>2, <2>4, <3>1, <3>2 DEF Counted
  <2> QED
    BY <1>2, <2>3, <2>4, CountMoves
<1>3. ASSUME NEW c \in Callers, CallerStep(c), InsertRow(c)
      PROVE  Counted(c)'
  <2>1. /\ attempt' = attempt /\ result' = result /\ plan' = plan /\ reply' = reply
        /\ pc'[c] = after[c] /\ after'[c] = "idle" /\ pc[c] = "insert" /\ reply[c] = "none"
        /\ after[c] \in {"refused", "decide", "recovered"}
    BY <1>3 DEF InsertRow, Goto, TypeInv, TypeOK, CallInv, callVars, stepVars
  <2>2. attempt[c] \in Nat /\ Count(c) \in Nat /\ Counted(c)
    BY TryRowsFinite DEF TypeInv, TypeOK, CountInv
  <2>3. ~Trying(c)'
    BY <2>1 DEF Trying
  <2>4. CASE after[c] = "recovered"
    <3>1. LastTry(c) = "failed" /\ Count(c) =< attempt[c] + 1 /\ TryRows(c) # {}
      BY <2>2, <2>4 DEF Counted, Recovering, HasTried
    <3>2. ~Due(c)'
      BY <2>1, <2>4 DEF Due, Promised
    <3> QED
      BY <1>3, <2>1, <2>3, <2>4, <3>1, <3>2, OneMoreTry DEF Counted
  <2>5. CASE after[c] # "recovered"
    <3>1. Count(c) =< attempt[c]
      BY <2>1, <2>2, <2>5 DEF Counted, Trying
    <3>2. ~Recovering(c)'
      BY <2>1, <2>5 DEF Recovering
    <3>3. Due(c)' => pc'[c] = "decide" /\ result[c].state = "succeeded"
      BY <2>1, <2>5 DEF Due, Promised
    <3> QED
      BY <1>3, <2>1, <2>2, <2>3, <2>5, <3>1, <3>2, <3>3, OneMoreTry DEF Counted
  <2> QED
    BY <2>4, <2>5
<1>4. CASE Operator \/ UNCHANGED vars
  <2>1. UNCHANGED <<log, pc, after, call, plan, index, attempt, result, upd, seen, reply>>
    BY <1>4, OperatorFrame
  <2> SUFFICES ASSUME NEW c \in Callers PROVE Counted(c)'
    BY DEF CountInv
  <2>2. TryRows(c)' = TryRows(c) /\ Count(c)' = Count(c) /\ LastTry(c)' = LastTry(c)
    BY <2>1, SameTries DEF TypeInv
  <2>3. /\ Trying(c)' = Trying(c) /\ Recovering(c)' = Recovering(c)
        /\ HasTried(c)' = HasTried(c) /\ Due(c)' = Due(c)
    BY <2>1 DEF Trying, Recovering, HasTried, Due, Promised
  <2> QED
    BY <2>1, <2>2, <2>3 DEF CountInv, Counted
<1> QED
  BY <1>1, <1>2, <1>3, <1>4 DEF Next, CallerStep, CountInv

LEMMA InitCount == Init => CountInv
<1> SUFFICES ASSUME Init, NEW c \in Callers PROVE Counted(c)
  BY DEF CountInv
<1>1. TryRows(c) = {}
  BY DEF Init, TryRows
<1>2. Count(c) = 0 /\ LastTry(c) = "none"
  BY <1>1, FS_EmptySet DEF Count, LastTry
<1> QED
  BY <1>2 DEF Init, Counted, Trying, Recovering, HasTried, Due

LEMMA InitPromise == Init => Calls!Init
<1> SUFFICES ASSUME Init PROVE Calls!Init
  OBVIOUS
<1>1. \A c \in Callers : TryRows(c) = {} /\ Cardinality(TryRows(c)) = 0
  BY FS_EmptySet DEF Init, TryRows
<1> QED
  BY <1>1 DEF Init, Calls!Init

\* What the abstract variables of the other callers do in a step of this one.
OthersKeep(c) ==
    \A d \in Callers \ {c} : /\ Phase(d)' = Phase(d) /\ Count(d)' = Count(d)
                             /\ LastTry(d)' = LastTry(d) /\ reply'[d] = reply[d]

\* A step that changes the abstract variables of one caller changes the
\* functions there, and nowhere else.
LEMMA AbstractStep ==
    ASSUME TypeOK, TypeOK', NEW c \in Callers, OthersKeep(c)
    PROVE  /\ [d \in Callers |-> Phase(d)]' = [[d \in Callers |-> Phase(d)] EXCEPT ![c] = Phase(c)']
           /\ [d \in Callers |-> Count(d)]' = [[d \in Callers |-> Count(d)] EXCEPT ![c] = Count(c)']
           /\ [d \in Callers |-> LastTry(d)]' =
                 [[d \in Callers |-> LastTry(d)] EXCEPT ![c] = LastTry(c)']
           /\ reply' = [reply EXCEPT ![c] = reply'[c]]
<1>1. reply' = [reply EXCEPT ![c] = reply'[c]]
  BY DEF OthersKeep, TypeOK
<1>2. [d \in Callers |-> Phase(d)]' = [[d \in Callers |-> Phase(d)] EXCEPT ![c] = Phase(c)']
  BY DEF OthersKeep
<1>3. [d \in Callers |-> Count(d)]' = [[d \in Callers |-> Count(d)] EXCEPT ![c] = Count(c)']
  BY DEF OthersKeep
<1>4. [d \in Callers |-> LastTry(d)]' = [[d \in Callers |-> LastTry(d)] EXCEPT ![c] = LastTry(c)']
  BY DEF OthersKeep
<1> QED
  BY <1>1, <1>2, <1>3, <1>4

LEMMA AbstractKept ==
    ASSUME TypeOK, TypeOK', NEW c \in Callers, OthersKeep(c)
    PROVE  /\ Phase(c)' = Phase(c) =>
                 [d \in Callers |-> Phase(d)]' = [d \in Callers |-> Phase(d)]
           /\ Count(c)' = Count(c) =>
                 [d \in Callers |-> Count(d)]' = [d \in Callers |-> Count(d)]
           /\ LastTry(c)' = LastTry(c) =>
                 [d \in Callers |-> LastTry(d)]' = [d \in Callers |-> LastTry(d)]
           /\ reply'[c] = reply[c] => reply' = reply
<1>1. ASSUME reply'[c] = reply[c] PROVE reply' = reply
  BY <1>1 DEF OthersKeep, TypeOK
<1>2. ASSUME Phase(c)' = Phase(c)
      PROVE  [d \in Callers |-> Phase(d)]' = [d \in Callers |-> Phase(d)]
  BY <1>2 DEF OthersKeep
<1>3. ASSUME Count(c)' = Count(c)
      PROVE  [d \in Callers |-> Count(d)]' = [d \in Callers |-> Count(d)]
  BY <1>3 DEF OthersKeep
<1>4. ASSUME LastTry(c)' = LastTry(c)
      PROVE  [d \in Callers |-> LastTry(d)]' = [d \in Callers |-> LastTry(d)]
  BY <1>4 DEF OthersKeep
<1> QED
  BY <1>1, <1>2, <1>3, <1>4

LEMMA MapsToBegin ==
    ASSUME TypeOK, TypeOK', NEW c \in Callers, OthersKeep(c), NEW activity,
           Phase(c) = "idle", Phase(c)' = activity, Count(c)' = 0, LastTry(c)' = "none",
           reply'[c] = "none"
    PROVE  Calls!Begin(c, activity)
<1>1. /\ [d \in Callers |-> Phase(d)]' = [[d \in Callers |-> Phase(d)] EXCEPT ![c] = activity]
      /\ [d \in Callers |-> Count(d)]' = [[d \in Callers |-> Count(d)] EXCEPT ![c] = 0]
      /\ [d \in Callers |-> LastTry(d)]' = [[d \in Callers |-> LastTry(d)] EXCEPT ![c] = "none"]
      /\ reply' = [reply EXCEPT ![c] = "none"]
  BY AbstractStep
<1> QED
  BY <1>1 DEF Calls!Begin, Phase, Count, LastTry
LEMMA MapsToTry ==
    ASSUME TypeOK, TypeOK', NEW c \in Callers, OthersKeep(c),
           Phase(c) = "running", Count(c) =< MaxBudget, LastTry(c) \in {"none", "failed"},
           Phase(c)' = Phase(c), Count(c)' = Count(c) + 1, LastTry(c)' \in StepState,
           reply'[c] = reply[c]
    PROVE  Calls!Try(c)
<1>1. /\ [d \in Callers |-> Phase(d)]' = [d \in Callers |-> Phase(d)]
      /\ [d \in Callers |-> Count(d)]' = [[d \in Callers |-> Count(d)] EXCEPT ![c] = Count(c) + 1]
      /\ [d \in Callers |-> LastTry(d)]' =
            [[d \in Callers |-> LastTry(d)] EXCEPT ![c] = LastTry(c)']
      /\ reply' = reply
  BY AbstractStep, AbstractKept
<1>2. LastTry(c)' \in Calls!TryResults
  BY DEF Calls!TryResults, StepState
<1> QED
  BY <1>1, <1>2 DEF Calls!Try, Phase, Count, LastTry

LEMMA MapsToNextStep ==
    ASSUME TypeOK, TypeOK', NEW c \in Callers, OthersKeep(c),
           Phase(c) = "running", LastTry(c) = "succeeded",
           Phase(c)' = Phase(c), Count(c)' = 0, LastTry(c)' = "none", reply'[c] = reply[c]
    PROVE  Calls!NextStep(c)
<1>1. /\ [d \in Callers |-> Phase(d)]' = [d \in Callers |-> Phase(d)]
      /\ [d \in Callers |-> Count(d)]' = [[d \in Callers |-> Count(d)] EXCEPT ![c] = 0]
      /\ [d \in Callers |-> LastTry(d)]' = [[d \in Callers |-> LastTry(d)] EXCEPT ![c] = "none"]
      /\ reply' = reply
  BY AbstractStep, AbstractKept
<1> QED
  BY <1>1 DEF Calls!NextStep, Phase, Count, LastTry

LEMMA MapsToFinish ==
    ASSUME TypeOK, TypeOK', NEW c \in Callers, OthersKeep(c),
           Phase(c) # "idle", Phase(c)' = "idle",
           Count(c)' = Count(c), LastTry(c)' = LastTry(c),
           reply'[c] \in {"success", "blocked", "inconclusive", "failed", "raised", "resolved"},
           (reply'[c] = "resolved") <=> (Phase(c) = "resolving"),
           reply'[c] \in {"raised", "resolved"} \/ Count(c) > 0,
           reply'[c] = "success" => LastTry(c) = "succeeded"
    PROVE  Calls!Finish(c)
<1>1. /\ [d \in Callers |-> Phase(d)]' = [[d \in Callers |-> Phase(d)] EXCEPT ![c] = "idle"]
      /\ [d \in Callers |-> Count(d)]' = [d \in Callers |-> Count(d)]
      /\ [d \in Callers |-> LastTry(d)]' = [d \in Callers |-> LastTry(d)]
      /\ reply' = [reply EXCEPT ![c] = reply'[c]]
  BY AbstractStep, AbstractKept
<1>2. reply'[c] \in Calls!Verdicts \union {"resolved"}
  BY DEF Calls!Verdicts
<1> QED
  BY <1>1, <1>2 DEF Calls!Finish, Phase, Count, LastTry

LEMMA MapsToStutter ==
    ASSUME TypeOK, TypeOK', NEW c \in Callers, OthersKeep(c),
           Phase(c)' = Phase(c), Count(c)' = Count(c), LastTry(c)' = LastTry(c),
           reply'[c] = reply[c]
    PROVE  UNCHANGED Calls!callState
<1>1. /\ [d \in Callers |-> Phase(d)]' = [d \in Callers |-> Phase(d)]
      /\ [d \in Callers |-> Count(d)]' = [d \in Callers |-> Count(d)]
      /\ [d \in Callers |-> LastTry(d)]' = [d \in Callers |-> LastTry(d)]
      /\ reply' = reply
  BY AbstractStep, AbstractKept
<1> QED
  BY <1>1 DEF Calls!callState, Phase, Count, LastTry

\* The steps that neither begin nor end a call, move to the next step or log.
Inner(c) ==
    \/ ReadRow(c) \/ WriteRow(c) \/ CompleteTask(c)
    \/ RefuseStep(c) \/ RunOperation(c) \/ SelectSlot(c)
    \/ MarkRefused(c) \/ MarkInconclusive(c) \/ StopAfterStep(c) \/ BeginSummary(c)
    \/ MarkBlocked(c) \/ MarkCancelled(c)
    \/ BeginRecovery(c) \/ Recover(c) \/ RecoverySucceeded(c) \/ RecoveryBlocked(c)
    \/ BlockForOperator(c) \/ RetryStep(c) \/ MarkFailed(c)

LEMMA InnerSteps ==
    ASSUME TypeInv, CallInv, NEW c \in Callers, Inner(c)
    PROVE  /\ pc[c] # "idle" /\ pc'[c] # "idle"
           /\ call'[c] = call[c] /\ index'[c] = index[c] /\ plan'[c] = plan[c]
           /\ log' = log /\ reply'[c] = reply[c]
<1> USE DEF TypeInv, TypeOK, CallInv, Goto, dbVars, callVars, stepVars, ioVars, opVars
<1>1. CASE ReadRow(c) \/ WriteRow(c) \/ CompleteTask(c)
  BY <1>1 DEF ReadRow, WriteRow, CompleteTask, StartUpdate
<1>2. CASE RefuseStep(c) \/ RunOperation(c) \/ SelectSlot(c) \/ Recover(c)
  BY <1>2 DEF RefuseStep, RunOperation, SelectSlot, Recover, StartAppend
<1>3. CASE MarkRefused(c) \/ MarkInconclusive(c) \/ MarkBlocked(c) \/ MarkCancelled(c)
           \/ RecoveryBlocked(c) \/ BlockForOperator(c) \/ MarkFailed(c)
  BY <1>3 DEF MarkRefused, MarkInconclusive, MarkBlocked, MarkCancelled, RecoveryBlocked,
              BlockForOperator, MarkFailed, EndStep, StartUpdate, Conclusive, StepFailed,
              Unrecovered
<1>4. CASE StopAfterStep(c) \/ BeginSummary(c)
  BY <1>4 DEF StopAfterStep, BeginSummary, StartUpdate, StepSucceeded, Conclusive
<1>5. CASE BeginRecovery(c) \/ RecoverySucceeded(c) \/ RetryStep(c)
  BY <1>5 DEF BeginRecovery, RecoverySucceeded, RetryStep, StartUpdate, Conclusive, StepFailed,
              Unrecovered
<1> QED
  BY <1>1, <1>2, <1>3, <1>4, <1>5 DEF Inner

\* A caller inside _run_step has a plan.
LEMMA StepsArePlanned ==
    ASSUME TypeInv, NEW c \in Callers, InRunStep(c)
    PROVE  plan[c] \in Plans /\ plan[c] # <<>> /\ index[c] \in DOMAIN plan[c]
<1>1. index[c] \in DOMAIN plan[c]
  BY DEF TypeInv, HasStep
<1>2. plan[c] # <<>>
  BY <1>1
<1> QED
  BY <1>1, <1>2 DEF TypeInv, TypeOK

LEMMA BeginIsPromised ==
    ASSUME TypeInv, TypeInv', CallInv, TriesInv, NEW c \in Callers,
           (\E p \in Plans : CallTool(c, p)) \/ ResolveTarget(c)
    PROVE  Calls!Begin(c, "running") \/ Calls!Begin(c, "resolving")
<1>0. OthersKeep(c)
  BY OthersTries DEF OthersKeep, CallerStep
<1> USE DEF TypeInv, TypeOK, Goto, dbVars
<1>1. CASE \E p \in Plans : CallTool(c, p)
  <2>1. /\ pc[c] = "idle" /\ pc'[c] = "read" /\ plan'[c] # <<>> /\ log' = log
        /\ call'[c] = calls + 1 /\ reply'[c] = "none"
    BY <1>1, PlansAssumption DEF CallTool, StartUpdate
  <2>2. Count(c)' = 0 /\ LastTry(c)' = "none"
    BY <2>1, FreshTries
  <2>3. Phase(c) = "idle" /\ Phase(c)' = "running"
    BY <2>1 DEF Phase
  <2> QED
    BY <1>0, <2>1, <2>2, <2>3, MapsToBegin
<1>2. CASE ResolveTarget(c)
  <2>1. /\ pc[c] = "idle" /\ pc'[c] = "read" /\ plan'[c] = <<>> /\ log' = log /\ reply'[c] = "none"
    BY <1>2 DEF ResolveTarget, StartUpdate
  <2>2. Count(c)' = 0 /\ LastTry(c)' = "none"
    BY <2>1, FreshTries
  <2>3. Phase(c) = "idle" /\ Phase(c)' = "resolving"
    BY <2>1 DEF Phase
  <2> QED
    BY <1>0, <2>1, <2>2, <2>3, MapsToBegin
<1> QED
  BY <1>1, <1>2

LEMMA InsertIsPromised ==
    ASSUME BudgetsBounded, TypeInv, TypeInv', CallInv, BudgetInv, CountInv, NEW c \in Callers,
           InsertRow(c)
    PROVE  Calls!Try(c) \/ UNCHANGED Calls!callState
<1>0. OthersKeep(c)
  BY OthersTries DEF OthersKeep, CallerStep, Proceed, RunStep
<1>1. /\ pc[c] = "insert" /\ after[c] \in {"refused", "decide", "recovered"}
      /\ pc'[c] = after[c] /\ plan'[c] = plan[c] /\ reply'[c] = reply[c] /\ InRunStep(c)
  BY DEF InsertRow, Goto, TypeInv, TypeOK, CallInv, callVars, InRunStep
<1>2. plan[c] \in Plans /\ plan[c] # <<>> /\ index[c] \in DOMAIN plan[c]
  BY <1>1, StepsArePlanned
<1>3. Phase(c) = "running" /\ Phase(c)' = "running"
  BY <1>1, <1>2 DEF Phase
<1>4. CASE after[c] = "recovered"
  BY <1>0, <1>1, <1>3, <1>4, OneMoreTry, MapsToStutter DEF TypeInv
<1>5. CASE after[c] # "recovered"
  <2>1. Count(c) =< attempt[c] /\ LastTry(c) \in {"none", "failed"}
    BY <1>1, <1>5 DEF CountInv, Counted, Trying
  <2>2. attempt[c] =< RetryBudget(CurrentStep(c))
    BY <1>1 DEF BudgetInv
  <2>3. MaxBudget \in Nat /\ RetryBudget(CurrentStep(c)) =< MaxBudget
    BY <1>2, BudgetCovers DEF CurrentStep
  <2>4. RetryBudget(CurrentStep(c)) \in Nat
    BY <1>1, BudgetBounds, CurrentStepType
  <2>5. Count(c) \in Nat /\ attempt[c] \in Nat /\ result[c].state \in StepState
    BY TryRowsFinite DEF TypeInv, TypeOK, Result
  <2>6. Count(c) =< MaxBudget
    BY <2>1, <2>2, <2>3, <2>4, <2>5
  <2> QED
    BY <1>0, <1>1, <1>3, <1>5, <2>1, <2>5, <2>6, OneMoreTry, MapsToTry DEF TypeInv
<1> QED
  BY <1>4, <1>5

LEMMA NextStepIsPromised ==
    ASSUME TypeInv, TypeInv', CallInv, TriesInv, CountInv, NEW c \in Callers, NextStep(c)
    PROVE  Calls!NextStep(c)
<1>0. OthersKeep(c)
  BY OthersTries DEF OthersKeep, CallerStep, Proceed, RunStep
<1>1. /\ pc[c] = "decide" /\ result[c].state = "succeeded" /\ pc'[c] = "step"
      /\ plan'[c] = plan[c] /\ call'[c] = call[c] /\ index'[c] = index[c] + 1
      /\ reply'[c] = reply[c] /\ log' = log
  BY DEF NextStep, StepSucceeded, Conclusive, Goto, TypeInv, TypeOK, dbVars
<1>2. plan[c] # <<>>
  BY <1>1, StepsArePlanned DEF InRunStep
<1>3. Phase(c) = "running" /\ Phase(c)' = "running"
  BY <1>1, <1>2 DEF Phase
<1>4. LastTry(c) = "succeeded"
  BY <1>1 DEF CountInv, Counted
<1>5. Count(c)' = 0 /\ LastTry(c)' = "none"
  BY <1>1, FreshTries
<1> QED
  BY <1>0, <1>1, <1>3, <1>4, <1>5, MapsToNextStep DEF TypeInv

LEMMA LeaveIsPromised ==
    ASSUME TypeInv, TypeInv', CallInv, CountInv, NEW c \in Callers,
           OperationRaises(c) \/ InsertConflict(c) \/ Return(c)
    PROVE  Calls!Finish(c)
<1>0. OthersKeep(c)
  BY OthersTries DEF OthersKeep, CallerStep, Proceed, RunStep
<1>1. /\ pc[c] # "idle" /\ pc'[c] = "idle" /\ log' = log
      /\ call'[c] = call[c] /\ index'[c] = index[c] /\ plan'[c] = plan[c]
  BY DEF OperationRaises, InsertConflict, Return, Raise, Leave, Goto, TypeInv, TypeOK, dbVars,
         callVars
<1>2. TryRows(c)' = TryRows(c) /\ Count(c)' = Count(c) /\ LastTry(c)' = LastTry(c)
  BY <1>1, SameTries DEF TypeInv
<1>3. CASE OperationRaises(c) \/ InsertConflict(c)
  <2>1. InRunStep(c) /\ reply'[c] = "raised"
    BY <1>3 DEF OperationRaises, InsertConflict, Raise, InRunStep, TypeInv, TypeOK
  <2>2. Phase(c) = "running" /\ Phase(c)' = "idle"
    BY <1>1, <2>1, StepsArePlanned DEF Phase
  <2> QED
    BY <1>0, <1>2, <2>1, <2>2, MapsToFinish DEF TypeInv
<1>4. CASE Return(c) /\ plan[c] = <<>>
  <2>1. reply'[c] = "resolved"
    BY <1>4 DEF Return, TypeInv, TypeOK
  <2>2. Phase(c) = "resolving" /\ Phase(c)' = "idle"
    BY <1>1, <1>4 DEF Phase
  <2> QED
    BY <1>0, <1>2, <2>1, <2>2, MapsToFinish DEF TypeInv
<1>5. CASE Return(c) /\ plan[c] # <<>>
  <2>1. pc[c] = "return" /\ reply'[c] = ReplyFor(seen[c])
    BY <1>5 DEF Return, TypeInv, TypeOK
  <2>2. reply'[c] \in {"success", "blocked", "inconclusive", "failed"}
    BY <2>1, Zenon DEF ReplyFor
  <2>3. reply'[c] = "success" => LastTry(c) = "succeeded"
    <3>1. reply'[c] = "success" => seen[c] = "completed"
      BY <2>1 DEF ReplyFor
    <3> QED
      BY <1>5, <2>1, <3>1 DEF CountInv, Counted, Due, Promised
  <2>4. Count(c) > 0
    <3>1. TryRows(c) # {}
      BY <1>5, <2>1 DEF CountInv, Counted, HasTried
    <3> QED
      BY <3>1, TryRowsFinite DEF TypeInv
  <2>5. Phase(c) = "running" /\ Phase(c)' = "idle"
    BY <1>1, <1>5 DEF Phase
  <2> QED
    BY <1>0, <1>2, <2>2, <2>3, <2>4, <2>5, MapsToFinish DEF TypeInv
<1> QED
  BY <1>3, <1>4, <1>5

LEMMA NextPromise ==
    ASSUME BudgetsBounded, TypeInv, TypeInv', CallInv, BudgetInv, TriesInv, CountInv, [Next]_vars
    PROVE  [Calls!Next]_(Calls!callState)
<1>1. ASSUME NEW c \in Callers, CallerStep(c)
      PROVE  [Calls!Next]_(Calls!callState)
  <2>1. CASE (\E p \in Plans : CallTool(c, p)) \/ ResolveTarget(c)
    BY <2>1, BeginIsPromised DEF Calls!Next
  <2>2. CASE InsertRow(c)
    BY <2>2, InsertIsPromised DEF Calls!Next
  <2>3. CASE NextStep(c)
    BY <2>3, NextStepIsPromised DEF Calls!Next
  <2>4. CASE OperationRaises(c) \/ InsertConflict(c) \/ Return(c)
    BY <2>4, LeaveIsPromised DEF Calls!Next
  <2>5. CASE Inner(c)
    <3>1. /\ pc[c] # "idle" /\ pc'[c] # "idle"
          /\ call'[c] = call[c] /\ index'[c] = index[c] /\ plan'[c] = plan[c]
          /\ log' = log /\ reply'[c] = reply[c]
      BY <2>5, InnerSteps
    <3>2. OthersKeep(c)
      BY <1>1, OthersTries DEF OthersKeep
    <3>3. Phase(c)' = Phase(c)
      BY <3>1 DEF Phase
    <3>4. Count(c)' = Count(c) /\ LastTry(c)' = LastTry(c)
      BY <3>1, SameTries DEF TypeInv
    <3>5. UNCHANGED Calls!callState
      BY <3>1, <3>2, <3>3, <3>4, MapsToStutter DEF TypeInv
    <3> QED
      BY <3>5
  <2> QED
    BY <1>1, <2>1, <2>2, <2>3, <2>4, <2>5 DEF CallerStep, Proceed, RunStep, Inner
<1>2. CASE Operator \/ UNCHANGED vars
  <2>1. UNCHANGED <<log, pc, after, call, plan, index, attempt, result, upd, seen, reply>>
    BY <1>2, OperatorFrame
  <2>2. UNCHANGED Calls!callState
    BY <2>1 DEF Calls!callState, TryRows
  <2> QED
    BY <2>2
<1> QED
  BY <1>1, <1>2 DEF Next, CallerStep

\* Supervised execution keeps what module ToolCall promises the agent, for any
\* number of threads, plans and operator events: every step of the runner, the
\* repository and the operator is a step of ToolCall or leaves what the agent
\* sees as it is.
THEOREM PromiseImplemented ==
    ASSUME BudgetsBounded PROVE Spec => Calls!Init /\ [][Calls!Next]_(Calls!callState)
<1>1. Init => TypeInv /\ CallInv /\ BudgetInv /\ TriesInv /\ AttemptsWithinBudget /\ CountInv
              /\ Calls!Init
  BY InitTypeInv, InitEarned, InitTries, InitCount, InitPromise
<1>2. TypeInv /\ CallInv /\ BudgetInv /\ TriesInv /\ AttemptsWithinBudget /\ CountInv /\ [Next]_vars
      => TypeInv' /\ CallInv' /\ BudgetInv' /\ TriesInv' /\ AttemptsWithinBudget' /\ CountInv'
  BY NextTypeInv, NextCall, NextBudget, NextTries, NextCount DEF TypeInv
<1>3. TypeInv /\ TypeInv' /\ CallInv /\ BudgetInv /\ TriesInv /\ CountInv /\ [Next]_vars
      => [Calls!Next]_(Calls!callState)
  BY NextPromise
<1> QED
  BY <1>1, <1>2, <1>3, PTL DEF Spec

===============================================================================
