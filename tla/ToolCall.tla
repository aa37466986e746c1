------------------------------- MODULE ToolCall -------------------------------
(***************************************************************************)
(* What supervised execution promises about the tool calls of an           *)
(* instruction, seen from the agent that makes them: a call tries its      *)
(* current step at least once and at most Budget + 1 times, moves to the   *)
(* next step only after a success, and always ends with one reply, which   *)
(* is "success" only when the last try succeeded.  Nothing is said of how  *)
(* the task row gets its statuses.                                         *)
(***************************************************************************)
EXTENDS Integers

CONSTANTS Callers, Budget

VARIABLES phase, tries, last, verdict

callState == <<phase, tries, last, verdict>>

TryResults == {"succeeded", "blocked", "inconclusive", "failed", "cancelled"}
Verdicts == {"success", "blocked", "inconclusive", "failed", "raised"}

Init ==
    /\ phase = [c \in Callers |-> "idle"]
    /\ tries = [c \in Callers |-> 0]
    /\ last = [c \in Callers |-> "none"]
    /\ verdict = [c \in Callers |-> "none"]

Begin(c, activity) ==
    /\ phase[c] = "idle"
    /\ phase' = [phase EXCEPT ![c] = activity]
    /\ tries' = [tries EXCEPT ![c] = 0]
    /\ last' = [last EXCEPT ![c] = "none"]
    /\ verdict' = [verdict EXCEPT ![c] = "none"]

Try(c) ==
    /\ phase[c] = "running" /\ tries[c] <= Budget
    /\ last[c] \in {"none", "failed"}
    /\ tries' = [tries EXCEPT ![c] = @ + 1]
    /\ \E r \in TryResults : last' = [last EXCEPT ![c] = r]
    /\ UNCHANGED <<phase, verdict>>

NextStep(c) ==
    /\ phase[c] = "running" /\ last[c] = "succeeded"
    /\ tries' = [tries EXCEPT ![c] = 0]
    /\ last' = [last EXCEPT ![c] = "none"]
    /\ UNCHANGED <<phase, verdict>>

Finish(c) ==
    /\ phase[c] # "idle"
    /\ phase' = [phase EXCEPT ![c] = "idle"]
    /\ \E v \in Verdicts \union {"resolved"} :
          /\ (v = "resolved") <=> (phase[c] = "resolving")
          /\ v \in {"raised", "resolved"} \/ tries[c] > 0
          /\ (v = "success") => (last[c] = "succeeded")
          /\ verdict' = [verdict EXCEPT ![c] = v]
    /\ UNCHANGED <<tries, last>>

Next == \E c \in Callers :
    \/ Begin(c, "running") \/ Begin(c, "resolving")
    \/ Try(c) \/ NextStep(c) \/ Finish(c)

Spec == Init /\ [][Next]_callState /\ \A c \in Callers : WF_callState(Finish(c))

===============================================================================
