------------------------------ MODULE TaskStates ------------------------------
(***************************************************************************)
(* The task statuses and the approved supervisor graph of                  *)
(* spot_train.supervisor.state_machine: which status may follow which, and *)
(* which event names which transition.  Both tables of the source are      *)
(* relations here, so a row of a table is a tuple of a set.                *)
(***************************************************************************)

TerminalStatuses == {"completed", "inconclusive", "blocked", "failed", "cancelled"}

TaskStatus ==
    {"created", "resolving_target", "ready", "awaiting_approval",
     "executing", "recovering", "summarizing"} \union TerminalStatuses

\* ALLOWED_TRANSITIONS; the terminal statuses have no successor.
AllowedTransitions ==
    ({"created"}           \X {"resolving_target", "cancelled"})
    \union ({"resolving_target"}  \X {"ready", "blocked", "cancelled"})
    \union ({"ready"}             \X {"awaiting_approval", "executing", "cancelled"})
    \union ({"awaiting_approval"} \X {"executing", "blocked", "cancelled"})
    \union ({"executing"}         \X {"executing", "recovering", "summarizing",
                                      "inconclusive", "failed", "cancelled"})
    \union ({"recovering"}        \X {"executing", "blocked", "failed", "cancelled"})
    \union ({"summarizing"}       \X {"completed", "inconclusive", "cancelled"})

CanTransition(current, new) == <<current, new>> \in AllowedTransitions

\* EVENT_TRANSITIONS: <<status, event, next status>>.
EventTransitions ==
    {<<"created", "start_resolution", "resolving_target">>,
     <<"resolving_target", "target_resolved", "ready">>,
     <<"resolving_target", "target_unresolved", "blocked">>,
     <<"ready", "approval_required", "awaiting_approval">>,
     <<"ready", "start_execution", "executing">>,
     <<"awaiting_approval", "approval_granted", "executing">>,
     <<"awaiting_approval", "approval_denied", "blocked">>,
     <<"executing", "step_completed", "executing">>,
     <<"executing", "retryable_failure", "recovering">>,
     <<"executing", "execution_completed", "summarizing">>,
     <<"executing", "execution_inconclusive", "inconclusive">>,
     <<"executing", "non_retryable_failure", "failed">>,
     <<"recovering", "recovery_succeeded", "executing">>,
     <<"recovering", "recovery_blocked", "blocked">>,
     <<"recovering", "retry_exhausted", "failed">>,
     <<"summarizing", "summary_completed", "completed">>,
     <<"summarizing", "summary_inconclusive", "inconclusive">>}
    \union {<<s, "cancel", "cancelled">> : s \in TaskStatus \ TerminalStatuses}

\* apply_event: the statuses the event leads to; none is InvalidTransitionError.
ApplyEvent(current, event) ==
    {new \in TaskStatus : /\ <<current, event, new>> \in EventTransitions
                          /\ CanTransition(current, new)}

===============================================================================
