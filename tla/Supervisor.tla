------------------------------ MODULE Supervisor ------------------------------
(***************************************************************************)
(* The supervised execution of tool calls on ONE task:                     *)
(* SupervisorRunner.run_task and _run_step, the task row and step log of   *)
(* WorldRepository, and the OperatorEventRouter that writes the same row.  *)
(*                                                                         *)
(* All tool calls of one operator instruction share the task of that       *)
(* instruction, and the agent framework may run the tool calls of one      *)
(* model turn in parallel threads.  A caller is such a thread.  Every      *)
(* repository operation is one SQLite transaction; update_task_status is   *)
(* two of them, a SELECT of the row and an UPDATE of all its columns, and  *)
(* append_task_step is a SELECT MAX and an INSERT, so threads interleave   *)
(* between them.                                                           *)
(*                                                                         *)
(* The state machine configured in production has a method "transition",   *)
(* so _next_status calls it with an event name, which always raises, and   *)
(* the fallback status is what is written.                                 *)
(***************************************************************************)
EXTENDS TaskStates, StepPolicies, Sequences, FiniteSets

CONSTANTS
    Callers,        \* threads that run tool calls
    Plans,          \* the step lists a tool call may pass to run_task
    InitStatuses,   \* the statuses a task may be created with
    MaxCalls,       \* bound on tool calls on the task
    MaxEvents       \* bound on operator events for the task

ASSUME PlansAssumption == Plans \subseteq Seq(Step) \ {<<>>}
ASSUME InitStatusesAssumption == InitStatuses \subseteq TaskStatus \ TerminalStatuses
ASSUME BoundsAssumption == MaxCalls \in Nat /\ MaxEvents \in Nat

VARIABLES
    \* the database
    task,       \* the row of the task
    log,        \* its task_steps rows, by sequence_no
    \* the callers
    pc,         \* where the thread is in run_task
    after,      \* where it continues after the repository operation under way
    call,       \* number of its current or last tool call
    plan,       \* the step list of the call; <<>> for resolve_target
    index,      \* position of the current step in the plan
    attempt,    \* attempt_index of _run_step
    result,     \* the result of the last operation or recovery
    upd,        \* the arguments of the update_task_status under way
    snap,       \* the row that update_task_status has read
    slot,       \* the sequence_no that append_task_step has computed
    seen,       \* the status of the local copy "task"
    reply,      \* what the tool call returned
    \* the operator
    opPc, opTarget, opSnap,
    \* observation only
    calls,      \* tool calls so far
    events,     \* operator_events rows so far
    cancelled   \* an operator cancel was committed while the call ran its step

dbVars == <<task, log>>
callVars == <<call, plan, index, calls>>
stepVars == <<attempt, result, seen>>
ioVars == <<after, upd, snap, slot>>
opVars == <<opPc, opTarget, opSnap, events>>
vars == <<dbVars, pc, callVars, stepVars, ioVars, reply, opVars, cancelled>>

-------------------------------------------------------------------------------
Row == [status : TaskStatus, outcome : Outcome, ended : BOOLEAN]

\* The arguments of update_task_status that the runner varies: "keep" is an
\* outcome_code of None, ended says whether ended_at is passed.
Update == [status : TaskStatus, outcome : Outcome \union {"keep"}, ended : BOOLEAN]

Upd(status, outcome, ended) == [status |-> status, outcome |-> outcome, ended |-> ended]

\* Locals of a function that has returned: kept at one value.
NoUpdate == Upd("executing", "keep", FALSE)
NoRow == [status |-> "created", outcome |-> "none", ended |-> FALSE]

\* A task_steps row.  call, index and role say which call, which of its steps
\* and which of the two operations of the step the row is about: observation.
LogRow == [seq : Nat, call : Nat, index : Nat, step : Step,
           role : {"attempt", "recovery"}, attempt : Nat,
           state : StepState, confidence : Confidence]

Replies == {"none", "success", "blocked", "inconclusive", "failed", "raised", "resolved"}

Pcs == {"idle", "read", "write", "step", "select", "insert", "refused", "decide",
        "recover", "recovered", "complete", "return"}

\* Where a caller continues after a repository operation; "idle" between them.
Continuations == {"idle", "step", "refused", "decide", "recover", "recovered",
                  "complete", "return"}

CurrentStep(c) == plan[c][index[c]]

\* Mutant: an outcome_code of None is stored.
MergeUnchecked(row, u) ==
    [status |-> u.status, outcome |-> u.outcome, ended |-> row.ended \/ u.ended]

\* update_task_status: every column is written back from the row read before.
Merge(row, u) ==
    [status  |-> u.status,
     outcome |-> IF u.outcome = "keep" THEN row.outcome ELSE u.outcome,
     ended   |-> row.ended \/ u.ended]

Init ==
    /\ task \in [status : InitStatuses, outcome : {"none"}, ended : {FALSE}]
    /\ log = <<>>
    /\ pc = [c \in Callers |-> "idle"]
    /\ after = [c \in Callers |-> "idle"]
    /\ call = [c \in Callers |-> 0]
    /\ plan = [c \in Callers |-> <<>>]
    /\ index = [c \in Callers |-> 1]
    /\ attempt = [c \in Callers |-> 0]
    /\ result = [c \in Callers |-> Refusal]
    /\ upd = [c \in Callers |-> NoUpdate]
    /\ snap = [c \in Callers |-> NoRow]
    /\ slot = [c \in Callers |-> 1]
    /\ seen = [c \in Callers |-> "created"]
    /\ reply = [c \in Callers |-> "none"]
    /\ opPc = "idle" /\ opTarget = "cancelled" /\ opSnap = NoRow
    /\ calls = 0 /\ events = 0
    /\ cancelled = [c \in Callers |-> FALSE]

-------------------------------------------------------------------------------
\* Steps a caller's program is made of.

Goto(c, label) == pc' = [pc EXCEPT ![c] = label]

\* Call update_task_status with u and continue at label.
StartUpdate(c, u, label) ==
    /\ upd' = [upd EXCEPT ![c] = u]
    /\ after' = [after EXCEPT ![c] = label]
    /\ Goto(c, "read")
    /\ UNCHANGED <<snap, slot>>

\* Call append_task_step with the result in hand and continue at label.
StartAppend(c, label) ==
    /\ after' = [after EXCEPT ![c] = label]
    /\ Goto(c, "select")
    /\ UNCHANGED <<upd, snap, slot>>

\* run_task is left, by a return or by an exception.
Leave(c) ==
    /\ Goto(c, "idle")
    /\ after' = [after EXCEPT ![c] = "idle"]
    /\ slot' = [slot EXCEPT ![c] = 1]
    /\ attempt' = [attempt EXCEPT ![c] = 0]
    /\ result' = [result EXCEPT ![c] = Refusal]
    /\ seen' = [seen EXCEPT ![c] = "created"]

\* An exception leaves run_task: nothing catches it there and the row stays.
Raise(c) ==
    /\ Leave(c)
    /\ reply' = [reply EXCEPT ![c] = "raised"]

-------------------------------------------------------------------------------
\* A side-effect tool call: run_task reads the task and marks it executing,
\* whatever its status.
CallTool(c, p) ==
    /\ pc[c] = "idle" /\ calls < MaxCalls
    /\ calls' = calls + 1
    /\ call' = [call EXCEPT ![c] = calls + 1]
    /\ plan' = [plan EXCEPT ![c] = p]
    /\ index' = [index EXCEPT ![c] = 1]
    /\ attempt' = [attempt EXCEPT ![c] = 0]
    /\ reply' = [reply EXCEPT ![c] = "none"]
    /\ StartUpdate(c, Upd("executing", "keep", FALSE), "step")
    /\ UNCHANGED <<dbVars, result, seen, opVars, cancelled>>

\* resolve_target: _persist_resolution reads the task and writes the status
\* it read back, with the resolution columns.
ResolveTarget(c) ==
    /\ pc[c] = "idle" /\ calls < MaxCalls
    /\ calls' = calls + 1
    /\ call' = [call EXCEPT ![c] = calls + 1]
    /\ plan' = [plan EXCEPT ![c] = <<>>]
    /\ reply' = [reply EXCEPT ![c] = "none"]
    /\ StartUpdate(c, Upd(task.status, "keep", FALSE), "return")
    /\ UNCHANGED <<dbVars, index, stepVars, opVars, cancelled>>

\* update_task_status, first half: get_task.
ReadRow(c) ==
    /\ pc[c] = "read"
    /\ snap' = [snap EXCEPT ![c] = task]
    /\ Goto(c, "write")
    /\ UNCHANGED <<dbVars, callVars, stepVars, after, upd, slot, reply, opVars, cancelled>>

\* update_task_status, second half: update_task.
WriteRow(c) ==
    /\ pc[c] = "write"
    /\ task' = Merge(snap[c], upd[c])
    /\ seen' = [seen EXCEPT ![c] = upd[c].status]
    /\ cancelled' = [cancelled EXCEPT ![c] = IF after[c] = "step" THEN FALSE ELSE @]
    /\ Goto(c, after[c])
    /\ after' = [after EXCEPT ![c] = "idle"]
    /\ upd' = [upd EXCEPT ![c] = NoUpdate] /\ snap' = [snap EXCEPT ![c] = NoRow]
    /\ UNCHANGED <<log, callVars, attempt, result, slot, reply, opVars>>

\* The precondition of the step does not hold: the refusal is logged.
RefuseStep(c) ==
    /\ pc[c] = "step" /\ CurrentStep(c).guarded
    /\ result' = [result EXCEPT ![c] = Refusal]
    /\ StartAppend(c, "refused")
    /\ UNCHANGED <<dbVars, callVars, attempt, seen, reply, opVars, cancelled>>

\* The operation of the step runs and returns, in time or late.
RunOperation(c) ==
    /\ pc[c] = "step"
    /\ \E r \in OperationResults(CurrentStep(c).tool) :
          \/ result' = [result EXCEPT ![c] = r]
          \/ result' = [result EXCEPT ![c] = TimedOut(r)]
    /\ StartAppend(c, "decide")
    /\ UNCHANGED <<dbVars, callVars, attempt, seen, reply, opVars, cancelled>>

\* The operation, or the recovery operation, raises.
OperationRaises(c) ==
    /\ pc[c] \in {"step", "recover"}
    /\ Raise(c)
    /\ UNCHANGED <<dbVars, callVars, upd, snap, opVars, cancelled>>

\* append_task_step, first half: the next sequence number.
SelectSlot(c) ==
    /\ pc[c] = "select"
    /\ slot' = [slot EXCEPT ![c] = Len(log) + 1]
    /\ Goto(c, "insert")
    /\ UNCHANGED <<dbVars, callVars, stepVars, after, upd, snap, reply, opVars, cancelled>>

NewRow(c) ==
    [seq |-> slot[c], call |-> call[c], index |-> index[c], step |-> CurrentStep(c),
     role |-> IF after[c] = "recovered" THEN "recovery" ELSE "attempt",
     attempt |-> attempt[c], state |-> result[c].state,
     confidence |-> result[c].confidence]

\* Mutant: no unique index.
SlotAlwaysFree(c) == slot[c] > 0

\* The unique index on (task_id, sequence_no) lets the number be used once.
SlotFree(c) == slot[c] > Len(log)

\* append_task_step, second half: the INSERT.
InsertRow(c) ==
    /\ pc[c] = "insert" /\ SlotFree(c)
    /\ log' = Append(log, NewRow(c))
    /\ Goto(c, after[c])
    /\ after' = [after EXCEPT ![c] = "idle"] /\ slot' = [slot EXCEPT ![c] = 1]
    /\ UNCHANGED <<task, callVars, stepVars, upd, snap, reply, opVars, cancelled>>

\* The number is taken: IntegrityError leaves run_task.
InsertConflict(c) ==
    /\ pc[c] = "insert" /\ ~SlotFree(c)
    /\ Raise(c)
    /\ UNCHANGED <<dbVars, callVars, upd, snap, opVars, cancelled>>
-------------------------------------------------------------------------------
\* _run_step after the attempt is logged, in the order of its tests.

\* Mutant: ended_at is not passed.
EndStepOpen(c, status, default) ==
    StartUpdate(c, Upd(status, OrElse(result[c].outcome, default), FALSE), "return")

EndStep(c, status, default) ==
    StartUpdate(c, Upd(status, OrElse(result[c].outcome, default), TRUE), "return")

MarkRefused(c) ==
    /\ pc[c] = "refused"
    /\ EndStep(c, "blocked", "blocked")
    /\ UNCHANGED <<dbVars, callVars, stepVars, reply, opVars, cancelled>>

MarkInconclusive(c) ==
    /\ pc[c] = "decide" /\ MarksInconclusive(result[c])
    /\ EndStep(c, "inconclusive", "inconclusive")
    /\ UNCHANGED <<dbVars, callVars, stepVars, reply, opVars, cancelled>>

Conclusive(c) == pc[c] = "decide" /\ ~MarksInconclusive(result[c])

StepSucceeded(c) == Conclusive(c) /\ result[c].state = "succeeded"

\* Mutant: the task is not re-read.
NoReread(c) == seen[c]

\* The status a succeeded step returns: the task is re-read.
Reread(c) == task.status

\* run_task stops when the status after the step is terminal.
StopAfterStep(c) ==
    /\ StepSucceeded(c) /\ Reread(c) \in TerminalStatuses
    /\ seen' = [seen EXCEPT ![c] = Reread(c)]
    /\ Goto(c, "return")
    /\ UNCHANGED <<dbVars, callVars, attempt, result, ioVars, reply, opVars, cancelled>>

NextStep(c) ==
    /\ StepSucceeded(c) /\ Reread(c) \notin TerminalStatuses
    /\ index[c] < Len(plan[c])
    /\ seen' = [seen EXCEPT ![c] = Reread(c)]
    /\ index' = [index EXCEPT ![c] = @ + 1]
    /\ attempt' = [attempt EXCEPT ![c] = 0]
    /\ Goto(c, "step")
    /\ UNCHANGED <<dbVars, call, plan, calls, result, ioVars, reply, opVars, cancelled>>

BeginSummary(c) ==
    /\ StepSucceeded(c) /\ Reread(c) \notin TerminalStatuses
    /\ index[c] = Len(plan[c])
    /\ seen' = [seen EXCEPT ![c] = Reread(c)]
    /\ StartUpdate(c, Upd("summarizing", "keep", FALSE), "complete")
    /\ UNCHANGED <<dbVars, callVars, attempt, result, reply, opVars, cancelled>>

CompleteTask(c) ==
    /\ pc[c] = "complete"
    /\ StartUpdate(c, Upd("completed", "completed", TRUE), "return")
    /\ UNCHANGED <<dbVars, callVars, stepVars, reply, opVars, cancelled>>

MarkBlocked(c) ==
    /\ Conclusive(c) /\ result[c].state = "blocked"
    /\ EndStep(c, "blocked", "blocked")
    /\ UNCHANGED <<dbVars, callVars, stepVars, reply, opVars, cancelled>>

MarkCancelled(c) ==
    /\ Conclusive(c) /\ result[c].state = "cancelled"
    /\ EndStep(c, "cancelled", "cancelled")
    /\ UNCHANGED <<dbVars, callVars, stepVars, reply, opVars, cancelled>>

StepFailed(c) == Conclusive(c) /\ result[c].state = "failed"

Relocalizes(c) == RelocalizesFirst(CurrentStep(c), attempt[c], result[c])

BeginRecovery(c) ==
    /\ StepFailed(c) /\ Relocalizes(c)
    /\ StartUpdate(c, Upd("recovering", "keep", FALSE), "recover")
    /\ UNCHANGED <<dbVars, callVars, stepVars, reply, opVars, cancelled>>

\* The recovery operation runs; no timeout applies to it.
Recover(c) ==
    /\ pc[c] = "recover"
    /\ \E r \in RelocalizationResults : result' = [result EXCEPT ![c] = r]
    /\ StartAppend(c, "recovered")
    /\ UNCHANGED <<dbVars, callVars, attempt, seen, reply, opVars, cancelled>>

RecoverySucceeded(c) ==
    /\ pc[c] = "recovered" /\ result[c].state = "succeeded"
    /\ attempt' = [attempt EXCEPT ![c] = @ + 1]
    /\ StartUpdate(c, Upd("executing", "keep", FALSE), "step")
    /\ UNCHANGED <<dbVars, callVars, result, seen, reply, opVars, cancelled>>

\* Mutant: a recovery that was stopped is handled by no branch.
RecoveryFailed(c) ==
    /\ pc[c] = "recovered" /\ result[c].state = "failed"
    /\ EndStep(c, "blocked", "failure")
    /\ UNCHANGED <<dbVars, callVars, stepVars, reply, opVars, cancelled>>

RecoveryBlocked(c) ==
    /\ pc[c] = "recovered" /\ result[c].state # "succeeded"
    /\ EndStep(c, "blocked", "failure")
    /\ UNCHANGED <<dbVars, callVars, stepVars, reply, opVars, cancelled>>

BlockForOperator(c) ==
    /\ StepFailed(c) /\ ~Relocalizes(c) /\ NeedsOperator(CurrentStep(c), result[c])
    /\ EndStep(c, "blocked", "blocked")
    /\ UNCHANGED <<dbVars, callVars, stepVars, reply, opVars, cancelled>>

Unrecovered(c) ==
    StepFailed(c) /\ ~Relocalizes(c) /\ ~NeedsOperator(CurrentStep(c), result[c])

RetryStep(c) ==
    /\ Unrecovered(c) /\ ShouldRetry(attempt[c], result[c])
    /\ attempt' = [attempt EXCEPT ![c] = @ + 1]
    /\ Goto(c, "step")
    /\ UNCHANGED <<dbVars, callVars, result, seen, ioVars, reply, opVars, cancelled>>

MarkFailed(c) ==
    /\ Unrecovered(c) /\ ~ShouldRetry(attempt[c], result[c])
    /\ EndStep(c, "failed", "failure")
    /\ UNCHANGED <<dbVars, callVars, stepVars, reply, opVars, cancelled>>

\* Mutant: what is not a failure is a success.
ReplyUnlessFailed(status) == IF status = "failed" THEN "failed" ELSE "success"

\* _run_side_effect_tool: the tool's reply follows the final status.
ReplyFor(status) ==
    CASE status = "completed"    -> "success"
      [] status = "blocked"      -> "blocked"
      [] status = "inconclusive" -> "inconclusive"
      [] OTHER                   -> "failed"

Return(c) ==
    /\ pc[c] = "return"
    /\ reply' = [reply EXCEPT ![c] = IF plan[c] = <<>> THEN "resolved" ELSE ReplyFor(seen[c])]
    /\ Leave(c)
    /\ UNCHANGED <<dbVars, callVars, upd, snap, opVars, cancelled>>
-------------------------------------------------------------------------------
\* OperatorEventRouter.route_event, on the operator's thread.

\* _EVENT_MAP
EventMap ==
    [approval_granted |-> "approval_granted", approval_denied |-> "approval_denied",
     stop_requested |-> "cancel", task_cancel_requested |-> "cancel"]

\* The event is persisted, the task read and the transition validated.  An
\* invalid transition raises after the event is stored.
RouteEvent(e) ==
    /\ opPc = "idle" /\ events < MaxEvents
    /\ events' = events + 1
    /\ \/ \E new \in ApplyEvent(task.status, EventMap[e]) :
             opPc' = "read" /\ opTarget' = new
       \/ /\ ApplyEvent(task.status, EventMap[e]) = {}
          /\ UNCHANGED <<opPc, opTarget>>
    /\ UNCHANGED <<dbVars, pc, callVars, stepVars, ioVars, reply, opSnap, cancelled>>

OperatorReadRow ==
    /\ opPc = "read"
    /\ opSnap' = task
    /\ opPc' = "write"
    /\ UNCHANGED <<dbVars, pc, callVars, stepVars, ioVars, reply, opTarget, events, cancelled>>

\* Between the status written when the step starts and the re-read after it.
InStep(c) ==
    \/ pc[c] \in {"step", "decide"}
    \/ pc[c] \in {"select", "insert"} /\ after[c] = "decide"

\* update_task_status(status=...) of the router: no outcome, no ended_at.
OperatorWriteRow ==
    /\ opPc = "write"
    /\ task' = Merge(opSnap, Upd(opTarget, "keep", FALSE))
    /\ cancelled' = [c \in Callers |->
                        cancelled[c] \/ (opTarget = "cancelled" /\ InStep(c))]
    /\ opPc' = "idle" /\ opTarget' = "cancelled" /\ opSnap' = NoRow
    /\ UNCHANGED <<log, pc, callVars, stepVars, ioVars, reply, events>>

-------------------------------------------------------------------------------
RunStep(c) ==
    \/ RefuseStep(c) \/ RunOperation(c) \/ OperationRaises(c)
    \/ SelectSlot(c) \/ InsertRow(c) \/ InsertConflict(c)
    \/ MarkRefused(c) \/ MarkInconclusive(c)
    \/ StopAfterStep(c) \/ NextStep(c) \/ BeginSummary(c)
    \/ MarkBlocked(c) \/ MarkCancelled(c)
    \/ BeginRecovery(c) \/ Recover(c) \/ RecoverySucceeded(c) \/ RecoveryBlocked(c)
    \/ BlockForOperator(c) \/ RetryStep(c) \/ MarkFailed(c)

\* What a caller does once its tool call has started.
Proceed(c) == ReadRow(c) \/ WriteRow(c) \/ RunStep(c) \/ CompleteTask(c) \/ Return(c)

Operator ==
    \/ \E e \in DOMAIN EventMap : RouteEvent(e)
    \/ OperatorReadRow
    \/ OperatorWriteRow

Next ==
    \/ \E c \in Callers : (\E p \in Plans : CallTool(c, p)) \/ ResolveTarget(c) \/ Proceed(c)
    \/ Operator

Spec == Init /\ [][Next]_vars

\* A thread that runs a tool call keeps running: operations return or raise.
FairSpec == Spec /\ \A c \in Callers : WF_vars(Proceed(c))

-------------------------------------------------------------------------------
\* The promise to the agent (module ToolCall), read off the log.

TryRows(c) ==
    {i \in DOMAIN log : /\ log[i].call = call[c] /\ log[i].index = index[c]
                        /\ log[i].role = "attempt" /\ plan[c] # <<>>}

MaxOf(S) == CHOOSE i \in S : \A j \in S : j <= i

\* The largest retry budget of the steps in use.
MaxBudget == MaxOf(UNION {{RetryBudget(p[i]) : i \in DOMAIN p} : p \in Plans})

Calls == INSTANCE ToolCall WITH
    Budget  <- MaxBudget,
    phase   <- [c \in Callers |-> IF pc[c] = "idle" THEN "idle"
                                  ELSE IF plan[c] = <<>> THEN "resolving" ELSE "running"],
    tries   <- [c \in Callers |-> Cardinality(TryRows(c))],
    last    <- [c \in Callers |-> IF TryRows(c) = {} THEN "none"
                                  ELSE log[MaxOf(TryRows(c))].state],
    verdict <- reply

-------------------------------------------------------------------------------
TypeOK ==
    /\ task \in Row
    /\ log \in Seq(LogRow)
    /\ pc \in [Callers -> Pcs] /\ after \in [Callers -> Continuations]
    /\ call \in [Callers -> 0..MaxCalls] /\ calls \in 0..MaxCalls
    /\ plan \in [Callers -> Plans \union {<<>>}]
    /\ index \in [Callers -> Nat \ {0}]
    /\ attempt \in [Callers -> Nat]
    /\ result \in [Callers -> Result]
    /\ upd \in [Callers -> Update] /\ snap \in [Callers -> Row]
    /\ slot \in [Callers -> Nat \ {0}]
    /\ seen \in [Callers -> TaskStatus]
    /\ reply \in [Callers -> Replies]
    /\ opPc \in {"idle", "read", "write"} /\ opTarget \in TaskStatus /\ opSnap \in Row
    /\ events \in 0..MaxEvents
    /\ cancelled \in [Callers -> BOOLEAN]

\* The sequence numbers of a task's steps are 1, 2, 3, ... without a gap or a
\* duplicate, however the SELECT MAX and the INSERT of several threads
\* interleave (append_task_step, repository.py).
StepLogContiguous == \A i \in DOMAIN log : log[i].seq = i

\* No step is attempted more often than its retry budget allows, whichever of
\* the two retry routes, recovery or plain retry, the attempts take, and no
\* attempt is logged twice (_run_step and the two limits it consults).
AttemptsWithinBudget ==
    /\ \A i \in DOMAIN log : log[i].attempt <= RetryBudget(log[i].step)
    /\ \A i, j \in DOMAIN log :
          /\ i < j /\ log[i].call = log[j].call /\ log[i].index = log[j].index
          /\ log[i].role = log[j].role
          => log[i].attempt < log[j].attempt

\* A navigation is tried again only after the previous try failed and a
\* relocalization logged after it succeeded, unless the step's own limit
\* stops recovery before the retry policy stops retrying.
Relocalized(i) ==
    \E h, j \in 1..(i-1) :
       /\ h < j
       /\ \A k \in {h, j} : /\ log[k].call = log[i].call /\ log[k].index = log[i].index
                            /\ log[k].attempt = log[i].attempt - 1
       /\ log[h].role = "attempt" /\ log[h].state = "failed"
       /\ log[j].role = "recovery" /\ log[j].state = "succeeded"

RelocalizedBeforeRetry ==
    \A i \in DOMAIN log :
       /\ log[i].role = "attempt" /\ log[i].attempt > 0
       /\ log[i].step.tool = "navigate_to_place" /\ log[i].step.recoverable
       /\ RecoveryLimit(log[i].step) >= PolicyLimit
       => Relocalized(i)

\* The agent is told of a success only when the last row its call logged is a
\* succeeded attempt whose confidence is not below the threshold: late,
\* guessed and recovered-only results never read as a success, whatever
\* other threads write to the task in between.
SuccessIsEarned ==
    \A c \in Callers : reply[c] = "success" =>
       \E i \in DOMAIN log :
          /\ log[i].call = call[c] /\ log[i].role = "attempt"
          /\ log[i].state = "succeeded" /\ log[i].confidence # "low"
          /\ \A j \in DOMAIN log : log[j].call = call[c] => j <= i

\* A cancel the operator gets in while a step runs is not turned into a
\* success by that step (the re-read in _run_step), unless another call of the
\* turn has written the row since and hidden it.
CancelBeatsSuccess ==
    \A c \in Callers :
       cancelled[c] /\ (\A d \in Callers \ {c} : call[d] = 0) => reply[c] # "success"

\* With one caller and no operator, the task row agrees with what the agent
\* was told: the status is the reply's, the task has ended, its outcome is
\* "completed" exactly for a success, and a call that raised left the row in
\* the middle of execution.
IdleRowAgrees ==
    \A c \in Callers : pc[c] = "idle" =>
       /\ reply[c] \in {"success", "blocked", "inconclusive", "failed"} =>
             /\ task.status \in TerminalStatuses /\ reply[c] = ReplyFor(task.status)
             /\ task.ended
             /\ (reply[c] = "success") <=> (task.outcome = "completed")
       /\ reply[c] = "raised" => task.status \in {"executing", "recovering"}

\* Every tool call returns to the agent: recovery and retries cannot loop.
CallReturns == \A c \in Callers : (pc[c] # "idle") ~> (pc[c] = "idle")

\* Tool calls behave as the abstract ToolCall specification promises.
KeepsPromise == Calls!Spec

-------------------------------------------------------------------------------
\* Claims of the repository's documents that the code does not keep.

\* design.md: operator cancel takes a task to cancelled, a terminal status;
\* the approved supervisor graph lets nothing out of it.
CancelIsFinal ==
    [][task.status = "cancelled" =>
          task'.status = "cancelled" \/ CanTransition("cancelled", task'.status)]_vars

\* design.md, recovery policy: a failed navigation is relocalized and retried;
\* the task does not end as inconclusive without that.
FailedNavigationRecovers ==
    \A c \in Callers : reply[c] = "inconclusive" =>
       \A i \in DOMAIN log :
          /\ log[i].call = call[c] /\ log[i].role = "attempt" /\ log[i].attempt = 0
          /\ log[i].step.tool = "navigate_to_place" /\ log[i].state = "failed"
          => \E j \in DOMAIN log : log[j].call = call[c] /\ log[j].role = "recovery"

===============================================================================
