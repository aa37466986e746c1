----------------------------- MODULE MCSupervisor -----------------------------
(***************************************************************************)
(* Finite instances of Supervisor: the step lists the tool handlers and    *)
(* the library's other users build.                                        *)
(***************************************************************************)
EXTENDS Supervisor, TLC

\* The one-step plan _run_side_effect_tool builds for a tool: no retry_limit,
\* and a recovery operation for navigation only.
HandlerStep(tool) ==
    [tool |-> tool, limit |-> NoLimit,
     recoverable |-> tool = "navigate_to_place", guarded |-> FALSE]

HandlerPlan(tool) == <<HandlerStep(tool)>>

\* Direct users of run_task: a limit of their own, a precondition, two steps.
LimitedNavigation == [HandlerStep("navigate_to_place") EXCEPT !.limit = 2]
GuardedStep ==
    [tool |-> "supplied", limit |-> NoLimit, recoverable |-> TRUE, guarded |-> TRUE]

AllPlans ==
    {HandlerPlan(t) : t \in Tools \ {"supplied"}}
    \union {<<LimitedNavigation>>, <<GuardedStep>>,
            <<HandlerStep("navigate_to_place"), HandlerStep("capture_evidence")>>}

TurnPlans == {HandlerPlan("robot_command"), HandlerPlan("capture_evidence")}

NavigationPlan == {HandlerPlan("navigate_to_place")}

CallerSymmetry == Permutations(Callers)

===============================================================================
