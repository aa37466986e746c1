----------------------------- MODULE Instructions -----------------------------
(***************************************************************************)
(* The perception tools of an instruction, from the REPL (agent/repl.py)   *)
(* through the agent's tools (agent/tools.py), their handlers              *)
(* (tools/handlers.py) and the perception adapter (adapters/perception.py) *)
(* to the rows and files they leave: capture_evidence, inspect_place,      *)
(* verify_condition, resolve_target and summarize_task.                    *)
(*                                                                         *)
(* A call runs in a thread of its own and outlives its instruction when    *)
(* the operator interrupts it.  Of the supervisor around a call only the   *)
(* retries and the reply are kept, and its updates of the task row, which  *)
(* read the whole row and write it back (Supervisor has the rest).         *)
(***************************************************************************)
EXTENDS StepPolicies, Resolution

CONSTANTS
    Calls,              \* the tool calls
    MaxTasks,           \* bound on the instructions given
    Kinds, Profiles,    \* capture_kind, capture_profile
    Plans,              \* inspection profiles: what to capture and to verify
    Conditions,         \* condition_id
    Lookups,            \* the requests of resolve_target, in any order
    AskedPlaces,        \* the places the perception tools are asked about
    Unlisted,           \* a place id no table holds
    Here                \* the target of a condition about the inspected place

Plan == [captures : Seq([kind : Kinds, profile : Profiles]),
         conditions : Seq([target : Targets \union {Here}, condition : Conditions])]

ASSUME InstructionsAssumption ==
    /\ MaxTasks \in Nat
    /\ Plans \subseteq Plan
    /\ Lookups \in Seq([name : Labels, type : TargetType, atLeast : 0..100])
    /\ AskedPlaces \subseteq Places \union {Unlisted}
    /\ Unlisted \notin Targets /\ Here \notin Targets

VARIABLES
    adapter,        \* the perception adapter the session was given
    instructions,   \* the tasks created
    active,         \* _active_task_id, 0 for None
    rows,           \* the resolution columns of the task rows
    job,            \* the tool calls
    files,          \* the artifact files
    observations, conditions    \* the two tables, in the order of insertion

stored == <<rows, files, observations, conditions>>
vars == <<adapter, instructions, active, job, stored>>

Tasks == 1..MaxTasks

NoRow == [target |-> "none", mode |-> "none", confidence |-> 0]
Unread == [target |-> "unread", mode |-> "none", confidence |-> 0]

Finding(outcome, confidence) == [outcome |-> outcome, confidence |-> confidence]
NoFinding == Finding("none", "ok")

Reply(status, evidence, outcome) ==
    [status |-> status, evidence |-> evidence, outcome |-> outcome]
NoReply == Reply("none", {}, "none")

Request(about, plan, wanted, lookup) ==
    [about |-> about, plan |-> plan, wanted |-> wanted, lookup |-> lookup]
Nothing == [captures |-> <<>>, conditions |-> <<>>]
Single(spec) == [captures |-> <<spec>>, conditions |-> <<>>]
Question(spec) == [captures |-> <<>>, conditions |-> <<spec>>]

NewJob == [step |-> "new", tool |-> "none", task |-> 0,
           request |-> Request("none", Nothing, {}, 0),
           done |-> 0, taken |-> {}, doubt |-> FALSE, attempt |-> 0,
           found |-> NoFinding, seen |-> Unread, reply |-> NoReply]

Init ==
    /\ adapter \in {"real", "fake", "none"}
    /\ instructions = 0 /\ active = 0
    /\ rows = [t \in Tasks |-> NoRow]
    /\ job = [c \in Calls |-> NewJob]
    /\ files = {} /\ observations = <<>> /\ conditions = <<>>

-------------------------------------------------------------------------------
\* The REPL: an instruction creates a task; its end, by an answer, an
\* exception or an interrupt, leaves the threads of its calls alone.
NewInstruction ==
    /\ active = 0 /\ instructions < MaxTasks
    /\ instructions' = instructions + 1
    /\ active' = instructions + 1
    /\ UNCHANGED <<adapter, job, stored>>

InstructionEnds ==
    /\ active # 0
    /\ active' = 0
    /\ UNCHANGED <<adapter, instructions, job, stored>>

-------------------------------------------------------------------------------
\* A call works through the captures of its plan, then the conditions.
Captures(j) == j.request.plan.captures
Questions(j) == j.request.plan.conditions
Capturing(j) == j.done < Len(Captures(j))
CaptureSpec(j) == Captures(j)[j.done + 1]
ConditionSpec(j) == Questions(j)[j.done + 1 - Len(Captures(j))]

NextStep(j) ==
    IF j.done = Len(Captures(j)) + Len(Questions(j)) THEN "finish"
    ELSE IF adapter = "real" THEN "camera" ELSE "analyze"

Continue(c, j) == job' = [job EXCEPT ![c] = [j EXCEPT !.step = NextStep(j)]]
Goto(c, step) == job' = [job EXCEPT ![c].step = step]
Answered(j, reply) ==
    [j EXCEPT !.step = "replied", !.reply = reply, !.done = 0, !.taken = {},
              !.doubt = FALSE, !.found = NoFinding, !.seen = Unread]
Replies(c, reply) == job' = [job EXCEPT ![c] = Answered(@, reply)]
OnlyCall == UNCHANGED <<adapter, instructions, active, stored>>

Asked(c, tool, request) ==
    [job[c] EXCEPT !.tool = tool, !.task = active, !.request = request]

Supervised == {"capture_evidence", "inspect_place"}

\* What capture_evidence and inspect_place may be asked.
Works(tool) ==
    LET plans == IF tool = "inspect_place" THEN Plans
                 ELSE {Single(s) : s \in [kind : Kinds, profile : Profiles]}
    IN  {Request(place, plan, {}, 0) : place \in AskedPlaces, plan \in plans}

\* Mutant: the tools do not ask for a task.
BeginAnyway(c) ==
    \E tool \in Supervised : \E request \in Works(tool) :
        /\ job[c].step = "new" /\ adapter # "none"
        /\ Continue(c, Asked(c, tool, request))
        /\ OnlyCall

\* The task is the one that is active as the tool is called.
Begin(c) ==
    \E tool \in Supervised : \E request \in Works(tool) :
        /\ job[c].step = "new" /\ active # 0 /\ adapter # "none"
        /\ Continue(c, Asked(c, tool, request))
        /\ OnlyCall

Reject(c) ==
    /\ job[c].step = "new"
    /\ \E tool \in Supervised \union {"verify_condition", "summarize_task"} :
          /\ active = 0 \/ (adapter = "none" /\ tool \in Supervised)
          /\ job' = [job EXCEPT ![c] = Answered(Asked(c, tool, @.request),
                                                Reply("rejected", {}, "none"))]
    /\ OnlyCall

InspectUnknownProfile(c) ==
    /\ job[c].step = "new" /\ active # 0 /\ adapter # "none"
    /\ job' = [job EXCEPT ![c] = Answered(Asked(c, "inspect_place", @.request),
                                          Reply("failed", {}, "none"))]
    /\ OnlyCall

\* The runner's updates of the task row, before an attempt and after it; one
\* that nothing comes between changes nothing here.
RunnerReads(c) ==
    LET j == job[c] IN
    /\ j.tool \in Supervised /\ j.seen = Unread
    /\ j.step = "finish" \/ (j.done = 0 /\ j.step \in {"camera", "analyze"})
    /\ job' = [job EXCEPT ![c].seen = rows[j.task]]
    /\ OnlyCall

RunnerWrites(c) ==
    LET j == job[c] IN
    /\ j.tool \in Supervised /\ j.seen # Unread
    /\ rows' = [rows EXCEPT ![j.task] = j.seen]
    /\ job' = [job EXCEPT ![c].seen = Unread]
    /\ UNCHANGED <<adapter, instructions, active, files, observations, conditions>>

-------------------------------------------------------------------------------
\* The real adapter: pictures of all cameras into the directory of the task,
\* for a verification too; whatever was there is overwritten.
CameraRaises(c) ==
    /\ job[c].step = "camera" /\ job[c].seen = Unread
    /\ Replies(c, Reply("raised", {}, "none"))
    /\ OnlyCall

\* Mutant: the directory does not depend on the task.
WritePicturesAside(c) ==
    /\ job[c].step = "camera" /\ job[c].seen = Unread
    /\ files' = files \union {[dir |-> 0, name |-> "rgb"]}
    /\ Goto(c, "depth")
    /\ UNCHANGED <<adapter, instructions, active, rows, observations, conditions>>

WritePictures(c) ==
    /\ job[c].step = "camera" /\ job[c].seen = Unread
    /\ files' = files \union {[dir |-> job[c].task, name |-> "rgb"]}
    /\ Goto(c, "depth")
    /\ UNCHANGED <<adapter, instructions, active, rows, observations, conditions>>

WriteDepths(c) ==
    /\ job[c].step = "depth"
    /\ files' = files \union {[dir |-> job[c].task, name |-> "depth"]}
    /\ Goto(c, "analyze")
    /\ UNCHANGED <<adapter, instructions, active, rows, observations, conditions>>

VlmRaises(c) ==
    /\ job[c].step = "analyze" /\ adapter = "real"
    /\ Replies(c, Reply("raised", {}, "none"))
    /\ OnlyCall

\* verify_condition's parser: the words of the verdict line, if there is one,
\* and the confidence, 0.5 when its line is missing or holds no number.
Verdict(words, confidence) ==
    Finding(CASE "TRUE" \in words -> "true"
              [] "TRUE" \notin words /\ "FALSE" \in words -> "false"
              [] OTHER -> "inconclusive",
            confidence)

RealFindings(j) ==
    IF Capturing(j) THEN {Finding("captured", "ok")}
    ELSE {Verdict(w, q) : w \in SUBSET {"TRUE", "FALSE"}, q \in Confidence}

FakeFindings(j) ==
    IF Capturing(j)
    THEN {Finding(o, q) : o \in {"captured", "inconclusive", "failed"}, q \in Confidence}
    ELSE {Finding(o, q) : o \in {"true", "false", "inconclusive"}, q \in Confidence}

Analyze(c) ==
    LET j == job[c] IN
    /\ j.step = "analyze" /\ j.seen = Unread
    /\ \E finding \in IF adapter = "real" THEN RealFindings(j) ELSE FakeFindings(j) :
          job' = [job EXCEPT ![c].step = "store", ![c].found = finding]
    /\ OnlyCall

-------------------------------------------------------------------------------
\* Mutant: a retry gets a name of its own.
IdOfTry(j) ==
    [task |-> j.task, place |-> j.request.about, kind |-> CaptureSpec(j).kind,
     profile |-> IF adapter = "real" \/ j.attempt > 0 THEN "any" ELSE CaptureSpec(j).profile]

\* The adapter names an observation by what was asked; the real one leaves
\* the profile out.  Neither counts the captures.
ObservationId(j) ==
    [task |-> j.task, place |-> j.request.about, kind |-> CaptureSpec(j).kind,
     profile |-> IF adapter = "real" THEN "any" ELSE CaptureSpec(j).profile]

Ids == {observations[i].id : i \in DOMAIN observations}

\* Mutant: only a confidence below the threshold is a doubt.
DoubtsByConfidence(finding) == finding.confidence = "low"

Doubts(finding) == finding.outcome = "inconclusive" \/ finding.confidence = "low"

Stored(j, taken) ==
    [j EXCEPT !.done = @ + 1, !.taken = @ \union taken,
              !.doubt = @ \/ Doubts(j.found)]

\* The id is in use, or the place is in no table: IntegrityError.
InsertRaises(c) ==
    LET j == job[c] IN
    /\ j.step = "store" /\ Capturing(j)
    /\ ObservationId(j) \in Ids \/ j.request.about \notin Places
    /\ Replies(c, Reply("raised", {}, "none"))
    /\ OnlyCall

\* Mutant: only what was captured is stored.
StoreIfCaptured(c) ==
    LET j == job[c] IN
    /\ j.step = "store" /\ Capturing(j)
    /\ ObservationId(j) \notin Ids /\ j.request.about \in Places
    /\ observations' =
          IF j.found.outcome = "captured"
          THEN Append(observations, [id |-> ObservationId(j), task |-> j.task, call |-> c,
                                     finding |-> j.found])
          ELSE observations
    /\ Continue(c, Stored(j, {ObservationId(j)}))
    /\ UNCHANGED <<adapter, instructions, active, rows, files, conditions>>

\* Mutant: a row with the id is replaced.
StoreOver(c) ==
    LET j == job[c] IN
    /\ j.step = "store" /\ Capturing(j)
    /\ j.request.about \in Places
    /\ observations' =
          Append(SelectSeq(observations, LAMBDA o : o.id # ObservationId(j)),
                 [id |-> ObservationId(j), task |-> j.task, call |-> c, finding |-> j.found])
    /\ Continue(c, Stored(j, {ObservationId(j)}))
    /\ UNCHANGED <<adapter, instructions, active, rows, files, conditions>>

StoreObservation(c) ==
    LET j == job[c] IN
    /\ j.step = "store" /\ Capturing(j)
    /\ ObservationId(j) \notin Ids /\ j.request.about \in Places
    /\ observations' =
          Append(observations, [id |-> ObservationId(j), task |-> j.task, call |-> c,
                                finding |-> j.found])
    /\ Continue(c, Stored(j, {ObservationId(j)}))
    /\ UNCHANGED <<adapter, instructions, active, rows, files, conditions>>

Target(j) ==
    IF ConditionSpec(j).target = Here THEN j.request.about ELSE ConditionSpec(j).target

ConditionResult(task, c) ==
    [task |-> task, target |-> Target(job[c]), condition |-> ConditionSpec(job[c]).condition,
     finding |-> job[c].found, evidence |-> job[c].taken, call |-> c]

\* Mutant: the task is asked for as the row is written.
StoreForActive(c) ==
    /\ job[c].step = "store" /\ ~Capturing(job[c])
    /\ conditions' = Append(conditions, ConditionResult(active, c))
    /\ Continue(c, Stored(job[c], {}))
    /\ UNCHANGED <<adapter, instructions, active, rows, files, observations>>

StoreCondition(c) ==
    /\ job[c].step = "store" /\ ~Capturing(job[c])
    /\ conditions' = Append(conditions, ConditionResult(job[c].task, c))
    /\ Continue(c, Stored(job[c], {}))
    /\ UNCHANGED <<adapter, instructions, active, rows, files, observations>>

-------------------------------------------------------------------------------
\* What the operation returns once all is stored.
CaptureResult(finding) ==
    CASE finding.outcome = "captured" ->
            Res("succeeded", "none", FALSE, finding.confidence, "success")
      [] finding.outcome = "inconclusive" ->
            Res("inconclusive", "none", FALSE, finding.confidence, "inconclusive")
      [] OTHER -> Res("failed", "capture_failed", TRUE, finding.confidence, "failure")

\* A capture that failed is no doubt of an inspection.
InspectionResult(j) ==
    CASE j.taken = {} -> NoAdapter
      [] j.taken # {} /\ j.doubt -> Res("inconclusive", "none", FALSE, "ok", "inconclusive")
      [] OTHER -> Res("succeeded", "none", FALSE, "ok", "success")

OperationResult(j) ==
    IF j.tool = "capture_evidence" THEN CaptureResult(j.found) ELSE InspectionResult(j)

Retry(c) ==
    LET j == job[c]
        r == OperationResult(j)
    IN
    /\ j.step = "finish" /\ j.seen = Unread
    /\ ~MarksInconclusive(r) /\ ShouldRetry(j.attempt, r)
    /\ Continue(c, [j EXCEPT !.attempt = @ + 1, !.done = 0, !.taken = {}, !.doubt = FALSE,
                             !.found = NoFinding])
    /\ OnlyCall

Finish(c) ==
    LET j == job[c]
        r == OperationResult(j)
        status == CASE MarksInconclusive(r) -> "inconclusive"
                    [] ~MarksInconclusive(r) /\ r.state = "succeeded" -> "success"
                    [] OTHER -> "failed"
    IN
    /\ j.step = "finish" /\ j.seen = Unread
    /\ MarksInconclusive(r) \/ ~ShouldRetry(j.attempt, r)
    /\ Replies(c, Reply(status, j.taken, r.outcome))
    /\ OnlyCall

-------------------------------------------------------------------------------
\* Mutant: the target of the verdict is not compared.
AnswersCondition(row, j) ==
    LET asked == Questions(j)[1] IN
    /\ row.task = j.task /\ row.condition = asked.condition
    /\ j.request.wanted \subseteq row.evidence

\* verify_condition takes no picture: it looks for a verdict of the task.
Answers(row, j) ==
    LET asked == Questions(j)[1] IN
    /\ row.task = j.task /\ row.target = asked.target /\ row.condition = asked.condition
    /\ j.request.wanted \subseteq row.evidence

\* The oldest one answers.
VerifyCondition(c) ==
    /\ job[c].step = "new" /\ active # 0
    /\ \E target \in Targets, condition \in Conditions, wanted \in {{}} \union {{k} : k \in Ids} :
          LET spec == [target |-> target, condition |-> condition]
              j == Asked(c, "verify_condition", Request(target, Question(spec), wanted, 0))
          IN  \/ \E i \in DOMAIN conditions :
                    /\ Answers(conditions[i], j)
                    /\ \A k \in 1..(i - 1) : ~Answers(conditions[k], j)
                    /\ job' = [job EXCEPT ![c] =
                                 Answered(j, Reply("success", conditions[i].evidence,
                                                   conditions[i].finding.outcome))]
              \/ /\ \A i \in DOMAIN conditions : ~Answers(conditions[i], j)
                 /\ job' = [job EXCEPT ![c] = Answered(j, Reply("blocked", {}, "none"))]
    /\ OnlyCall

\* resolve_target ranks, and writes its answer to the row of the task, if any.
Lookup(j) == Lookups[j.request.lookup]
AnswerTo(j) == Answer(Lookup(j).name, Lookup(j).type, Lookup(j).atLeast)
ResolutionReply(j) == Reply(AnswerTo(j).status, {}, AnswerTo(j).target)

ResolveTarget(c) ==
    /\ job[c].step = "new"
    /\ \E i \in DOMAIN Lookups :
          LET j == Asked(c, "resolve_target", Request("none", Nothing, {}, i)) IN
          job' = [job EXCEPT ![c] = IF active = 0 THEN Answered(j, ResolutionReply(j))
                                    ELSE [j EXCEPT !.step = "resolved"]]
    /\ OnlyCall

ReadRow(c) ==
    /\ job[c].step = "resolved"
    /\ job' = [job EXCEPT ![c].step = "write", ![c].seen = rows[job[c].task]]
    /\ OnlyCall

WriteRow(c) ==
    LET j == job[c] IN
    /\ j.step = "write"
    /\ rows' = [rows EXCEPT ![j.task] = Columns(j.seen, AnswerTo(j))]
    /\ job' = [job EXCEPT ![c] = Answered(j, ResolutionReply(j))]
    /\ UNCHANGED <<adapter, instructions, active, files, observations, conditions>>

\* summarize_task: the row, then the evidence of the task it names.
EvidenceOf(task) ==
    {observations[i].id : i \in {k \in DOMAIN observations : observations[k].task = task}}

SummarizeTask(c) ==
    /\ job[c].step = "new"
    /\ \E task \in 1..instructions :
          job' = [job EXCEPT ![c].step = "list", ![c].tool = "summarize_task",
                             ![c].task = task, ![c].seen = rows[task]]
    /\ OnlyCall

ListEvidence(c) ==
    /\ job[c].step = "list"
    /\ job' = [job EXCEPT ![c] =
                  Answered(@, Reply("success", EvidenceOf(@.task), @.seen.target))]
    /\ OnlyCall

-------------------------------------------------------------------------------
CallStep(c) ==
    \/ Begin(c) \/ Reject(c) \/ InspectUnknownProfile(c) \/ RunnerReads(c) \/ RunnerWrites(c)
    \/ CameraRaises(c) \/ WritePictures(c) \/ WriteDepths(c) \/ VlmRaises(c) \/ Analyze(c)
    \/ InsertRaises(c) \/ StoreObservation(c) \/ StoreCondition(c) \/ Retry(c) \/ Finish(c)
    \/ VerifyCondition(c) \/ ResolveTarget(c) \/ ReadRow(c) \/ WriteRow(c)
    \/ SummarizeTask(c) \/ ListEvidence(c)

Next == NewInstruction \/ InstructionEnds \/ (\E c \in Calls : CallStep(c))

Spec == Init /\ [][Next]_vars

-------------------------------------------------------------------------------
\* Every part of the state has its type, and a call that has begun its work
\* has a task: agent/tools.py hands one to every operation that stores.
ObservationKey ==
    [task : Tasks, place : Places, kind : Kinds, profile : Profiles \union {"any"}]
AnyFinding ==
    [outcome : {"none", "captured", "inconclusive", "failed", "true", "false"},
     confidence : Confidence]
Row == [target : Targets \union {"none"}, mode : {"none", "exact", "best_effort"},
        confidence : 0..100]

TypeOK ==
    /\ adapter \in {"real", "fake", "none"}
    /\ instructions \in 0..MaxTasks /\ active \in {0, instructions}
    /\ rows \in [Tasks -> Row]
    /\ \A c \in Calls :
          /\ job[c].step \in {"new", "camera", "depth", "analyze", "store", "finish",
                              "resolved", "write", "list", "replied"}
          /\ job[c].task \in 0..instructions
          /\ job[c].step \notin {"new", "replied"} => job[c].task # 0
          /\ job[c].taken \subseteq ObservationKey /\ job[c].doubt \in BOOLEAN
          /\ job[c].found \in AnyFinding /\ job[c].attempt \in 0..PolicyLimit
          /\ job[c].seen \in Row \union {Unread}
    /\ files \subseteq [dir : {0} \union Tasks, name : {"rgb", "depth"}]
    /\ observations \in Seq([id : ObservationKey, task : Tasks, call : Calls,
                             finding : AnyFinding])
    /\ conditions \in Seq([task : Tasks, target : Targets \union {Unlisted},
                           condition : Conditions, finding : AnyFinding, evidence : SUBSET ObservationKey,
                           call : Calls])

\* What the real adapter's observations point to is there: each task that has
\* one has its pictures and its depths in the directory of artifact_uri.
ArtifactsExist ==
    adapter = "real" =>
        \A i \in DOMAIN observations, name \in {"rgb", "depth"} :
            [dir |-> observations[i].task, name |-> name] \in files

\* What a verdict or a reply cites is stored, under the same task: no
\* condition is judged, and nothing reported, from evidence that is lost or
\* another instruction's.
EvidenceIsStored ==
    /\ \A i \in DOMAIN conditions : conditions[i].evidence \subseteq EvidenceOf(conditions[i].task)
    /\ \A c \in Calls : job[c].reply.evidence \subseteq EvidenceOf(job[c].task)

\* A success of capture_evidence or inspect_place stands for rows of its own:
\* each capture and each condition of its plan was stored by this very call.
SuccessHasEvidence ==
    \A c \in Calls :
        (job[c].tool \in Supervised /\ job[c].reply.status = "success") =>
            /\ \A n \in DOMAIN Captures(job[c]) :
                  \E i \in DOMAIN observations :
                      /\ observations[i].call = c
                      /\ observations[i].id \in job[c].reply.evidence
                      /\ observations[i].id.kind = Captures(job[c])[n].kind
            /\ \A n \in DOMAIN Questions(job[c]) :
                  \E i \in DOMAIN conditions :
                      /\ conditions[i].call = c
                      /\ conditions[i].condition = Questions(job[c])[n].condition

\* A success hides no doubt: neither an inconclusive capture or verdict, nor
\* one whose confidence is below the threshold, went into it.
SuccessIsSure ==
    \A c \in Calls :
        (job[c].tool \in Supervised /\ job[c].reply.status = "success") =>
            /\ \A i \in DOMAIN observations :
                  observations[i].call = c =>
                      /\ observations[i].finding.outcome # "inconclusive"
                      /\ observations[i].finding.confidence = "ok"
            /\ \A i \in DOMAIN conditions :
                  conditions[i].call = c =>
                      /\ conditions[i].finding.outcome # "inconclusive"
                      /\ conditions[i].finding.confidence = "ok"

\* All rows of a call belong to the instruction it was made for, also when
\* that was interrupted and another one is active.
RowsOfOneTask ==
    /\ \A i \in DOMAIN observations :
          observations[i].task = job[observations[i].call].task
    /\ \A i \in DOMAIN conditions : conditions[i].task = job[conditions[i].call].task

\* A verdict verify_condition reports was given for that target, under that
\* task, by an inspection, and cites what was asked to be cited.
VerdictHasSource ==
    \A c \in Calls :
        (job[c].tool = "verify_condition" /\ job[c].reply.status = "success") =>
            \E i \in DOMAIN conditions :
                /\ job[conditions[i].call].tool = "inspect_place"
                /\ conditions[i].task = job[c].task
                /\ conditions[i].target = job[c].request.about
                /\ conditions[i].finding.outcome = job[c].reply.outcome
                /\ job[c].request.wanted \subseteq conditions[i].evidence
                /\ job[c].reply.evidence = conditions[i].evidence

\* The retry of a failed capture, which the retry policy grants, never ends
\* well: the second row would have the id of the first.
RetriedCaptureRaises ==
    \A c \in Calls :
        (job[c].attempt > 0 /\ job[c].step = "replied") => job[c].reply.status = "raised"

\* The target on a task row is one that a resolution made for this task
\* accepted, at its own threshold.
TargetWasAccepted ==
    \A t \in Tasks :
        rows[t].target # "none" =>
            \E c \in Calls :
                /\ job[c].tool = "resolve_target" /\ job[c].task = t
                /\ AnswerTo(job[c]).status = "success"
                /\ AnswerTo(job[c]).target = rows[t].target

\* A resolution names a target only if no other known one has a name closer
\* to the one asked for, and only an active place; it is exact when a name is
\* equal, and otherwise the closeness reaches the threshold.
ResolutionIsBest ==
    \A c \in Calls :
        (job[c].tool = "resolve_target" /\ job[c].reply.status = "success") =>
            LET t == job[c].reply.outcome
                l == Lookup(job[c])
                reached == Closeness(t, l.name)
            IN  /\ t \in Searched(l.type)
                /\ \A u \in Searched(l.type) : Closeness(u, l.name) <= reached
                /\ reached = 100 \/ reached >= l.atLeast
                /\ (reached = 100) = (AnswerTo(job[c]).mode = "exact")

===============================================================================
