----------------------------- MODULE StepPolicies -----------------------------
(***************************************************************************)
(* The pure part of the supervisor: what a step and the result of one      *)
(* attempt are, what the tools' operations can return, and the decisions   *)
(* the retry, timeout, recovery and inconclusive policies take on a result *)
(* (spot_train.supervisor.policies and the helpers of runner.py).          *)
(*                                                                         *)
(* A confidence is abstracted to its side of the threshold 0.7 of          *)
(* InconclusivePolicy: "low", or "ok" when it reaches the threshold or     *)
(* there is none.  An outcome code is abstracted to its class; "none" is   *)
(* Python's None.                                                          *)
(***************************************************************************)
EXTENDS Integers

CONSTANT PolicyLimit    \* RetryPolicy.limit_for: default_limit, 1 in production

ASSUME PolicyLimitAssumption == PolicyLimit \in Nat

NoLimit == -1           \* SupervisorStep.retry_limit is None

Tools == {"navigate_to_place", "relocalize", "capture_evidence",
          "inspect_place", "robot_command", "supplied"}

StepState == {"succeeded", "blocked", "inconclusive", "failed", "cancelled"}

ErrorCode == {"none", "navigation_failed", "relocalization_required",
              "relocalization_failed", "capture_failed", "stop_requested",
              "approval_denied", "timeout_exceeded", "other"}

Outcome == {"none", "success", "failure", "cancelled", "inconclusive",
            "blocked", "completed"}

Confidence == {"low", "ok"}

Step == [tool : Tools, limit : Nat \union {NoLimit},
         recoverable : BOOLEAN, guarded : BOOLEAN]

Result == [state : StepState, code : ErrorCode, retryable : BOOLEAN,
           confidence : Confidence, outcome : Outcome]

Res(state, code, retryable, confidence, outcome) ==
    [state |-> state, code |-> code, retryable |-> retryable,
     confidence |-> confidence, outcome |-> outcome]

-------------------------------------------------------------------------------
\* What the two Spot adapters report, a status with a confidence: the real one
\* gives none for a stop, a missing waypoint or lease, and a timeout.
SpotActionStatus == {"succeeded", "failed", "cancelled", "relocalization_needed"}

NavigationOutcomes ==
    {<<"succeeded", "ok">>, <<"cancelled", "ok">>, <<"relocalization_needed", "low">>}
    \union {<<"failed", c>> : c \in Confidence}

RelocalizationOutcomes ==
    {<<"succeeded", "ok">>, <<"cancelled", "ok">>, <<"failed", "low">>}

FakeNavigationOutcomes ==
    {<<"succeeded", "ok">>, <<"cancelled", "ok">>, <<"relocalization_needed", "low">>,
     <<"failed", "low">>}

FakeRelocalizationOutcomes ==
    {<<"succeeded", "ok">>, <<"cancelled", "ok">>, <<"failed", "low">>}

\* What the operations built by the tool handlers return.  robot_command
\* stands for power_on, sit, power_off, move_robot, request_stop, clear_stop.
NoAdapter == Res("failed", "other", FALSE, "ok", "failure")

NavigationResult(status, confidence) ==
    CASE status = "succeeded" -> Res("succeeded", "none", FALSE, confidence, "success")
      [] status = "cancelled" -> Res("cancelled", "stop_requested", FALSE, confidence, "cancelled")
      [] status = "relocalization_needed" ->
            Res("failed", "relocalization_required", TRUE, confidence, "failure")
      [] OTHER -> Res("failed", "navigation_failed", TRUE, confidence, "failure")

NavigationResults ==
    {NoAdapter} \union {NavigationResult(o[1], o[2]) :
                           o \in NavigationOutcomes \union FakeNavigationOutcomes}

RelocalizationResult(status, confidence) ==
    CASE status = "succeeded" -> Res("succeeded", "none", FALSE, confidence, "success")
      [] status = "cancelled" -> Res("cancelled", "stop_requested", FALSE, confidence, "cancelled")
      [] OTHER -> Res("failed", "relocalization_failed", FALSE, confidence, "failure")

RelocalizationResults ==
    {NoAdapter} \union {RelocalizationResult(o[1], o[2]) :
                           o \in RelocalizationOutcomes \union FakeRelocalizationOutcomes}

CaptureResults ==
    {NoAdapter}
    \union {Res("succeeded", "none", FALSE, c, "success") : c \in Confidence}
    \union {Res("inconclusive", "none", FALSE, c, "inconclusive") : c \in Confidence}
    \union {Res("failed", "capture_failed", TRUE, c, "failure") : c \in Confidence}

InspectionResults ==     \* its other failures look like NoAdapter too
    {NoAdapter, Res("succeeded", "none", FALSE, "ok", "success")}
    \union {Res("inconclusive", "none", FALSE, c, "inconclusive") : c \in Confidence}

CommandResults ==
    {Res("succeeded", "none", FALSE, "ok", "none"),
     Res("failed", "other", FALSE, "ok", "none")}

\* An operation the caller of the handler supplies itself (its "operation"
\* parameter): the two results no operation of the handlers returns.
SuppliedResults ==
    {Res("blocked", "other", FALSE, "ok", "none"),
     Res("failed", "approval_denied", FALSE, "ok", "none")}

OperationResults(tool) ==
    CASE tool = "navigate_to_place" -> NavigationResults
      [] tool = "relocalize"        -> RelocalizationResults
      [] tool = "capture_evidence"  -> CaptureResults
      [] tool = "inspect_place"     -> InspectionResults
      [] tool = "supplied"          -> SuppliedResults
      [] OTHER                      -> CommandResults

OrElse(outcome, default) == IF outcome = "none" THEN default ELSE outcome

\* _apply_timeout_if_needed: a late result, whatever it is, becomes a failure
\* that keeps the result's retryable flag and outcome code.
TimedOut(r) ==
    Res("failed", "timeout_exceeded", r.retryable, "ok", OrElse(r.outcome, "failure"))

\* The result of a precondition that does not hold (PreconditionFailure).
Refusal == Res("blocked", "other", FALSE, "ok", "blocked")

-------------------------------------------------------------------------------
\* Mutant: the confidence of a result is not consulted.
MarksInconclusiveByState(r) == r.state = "inconclusive"

\* _should_mark_inconclusive with InconclusivePolicy: a missing
\* confidence escapes the threshold, so it is "ok".
MarksInconclusive(r) == r.state = "inconclusive" \/ r.confidence = "low"

\* RetryPolicy.should_retry; the step's own retry_limit is not consulted.
RetryableCodes == {"none", "navigation_failed", "relocalization_required", "capture_failed"}

\* Mutant: off by one in the retry limit.
ShouldRetryInclusive(attempt, r) ==
    r.retryable /\ r.code \in RetryableCodes /\ attempt <= PolicyLimit

ShouldRetry(attempt, r) ==
    r.retryable /\ r.code \in RetryableCodes /\ attempt < PolicyLimit

\* _retry_limit_for: the limit that bounds recovery.
RecoveryLimit(s) == IF s.limit = NoLimit THEN PolicyLimit ELSE s.limit

\* _recovery_decision with RecoveryPolicy.plan_recovery.
NeedsOperator(s, r) ==
    s.recoverable /\ r.code \in {"approval_denied", "stop_requested"}

\* Mutant: recovery only when the robot asks for a relocalization.
RelocalizesWhenAsked(s, attempt, r) ==
    /\ s.recoverable /\ r.retryable /\ attempt < RecoveryLimit(s)
    /\ s.tool = "navigate_to_place" /\ r.code = "relocalization_required"

RelocalizesFirst(s, attempt, r) ==
    /\ s.recoverable
    /\ ~NeedsOperator(s, r)
    /\ r.retryable
    /\ attempt < RecoveryLimit(s)
    /\ s.tool = "navigate_to_place"

\* The number of retries a step may use, by either route.
RetryBudget(s) ==
    IF s.recoverable /\ RecoveryLimit(s) > PolicyLimit THEN RecoveryLimit(s) ELSE PolicyLimit

===============================================================================
