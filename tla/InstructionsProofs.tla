-------------------------- MODULE InstructionsProofs --------------------------
(***************************************************************************)
(* Proofs about Instructions, for every set of calls, places, assets,      *)
(* names, plans and lookups, and any number of instructions.               *)
(***************************************************************************)
EXTENDS Instructions, ResolutionProofs, SequenceTheorems

ToolName == Supervised \union {"none", "verify_condition", "resolve_target", "summarize_task"}
Working == {"camera", "depth", "analyze", "store", "finish"}
Steps == Working \union {"new", "resolved", "write", "list", "replied"}

AnyOutcome ==
    Outcome \union {"captured", "failed", "true", "false"} \union Targets

AnyReply ==
    [status : {"none", "rejected", "failed", "raised", "success", "inconclusive", "blocked"},
     evidence : SUBSET ObservationKey, outcome : AnyOutcome]

AnyRequest ==
    [about : Targets \union {Unlisted, "none"}, plan : Plan, wanted : SUBSET ObservationKey,
     lookup : Nat]

Job ==
    [step : Steps, tool : ToolName, task : 0..MaxTasks, request : AnyRequest, done : Nat,
     taken : SUBSET ObservationKey, doubt : BOOLEAN, attempt : 0..PolicyLimit,
     found : AnyFinding, seen : Row \union {Unread}, reply : AnyReply]

ObservationRow == [id : ObservationKey, task : Tasks, call : Calls, finding : AnyFinding]
ConditionRow ==
    [task : Tasks, target : Targets \union {Unlisted}, condition : Conditions,
     finding : AnyFinding, evidence : SUBSET ObservationKey, call : Calls]

CaptureType == [kind : Kinds, profile : Profiles]
QuestionType == [target : Targets \union {Here}, condition : Conditions]

\* A call at work has a task and a plan for a place, and at every step but
\* the last an item of the plan to work on; capture_evidence has one item.
AtWork(j) ==
    /\ j.tool \in Supervised /\ j.task # 0
    /\ j.request.about \in Places \union {Unlisted}
    /\ j.tool = "capture_evidence" => Len(Captures(j)) = 1 /\ Len(Questions(j)) = 0
    /\ j.step # "finish" => j.done < Len(Captures(j)) + Len(Questions(j))

StepInv(j) ==
    /\ j.step = "new" => j = NewJob
    /\ j.step \in Working => AtWork(j)
    /\ j.step \in {"resolved", "write"} =>
          j.tool = "resolve_target" /\ j.task # 0 /\ j.request.lookup \in DOMAIN Lookups
    /\ j.step = "list" => j.tool = "summarize_task" /\ j.task # 0
    /\ j.step \in {"write", "list"} => j.seen \in Row
    /\ j.tool \in Supervised /\ j.seen # Unread => j.step \in Working

TypeInv ==
    /\ adapter \in {"real", "fake", "none"}
    /\ instructions \in 0..MaxTasks /\ active \in {0, instructions}
    /\ rows \in [Tasks -> Row]
    /\ job \in [Calls -> Job]
    /\ \A c \in Calls : job[c].task \in 0..instructions /\ StepInv(job[c])
    /\ files \subseteq [dir : {0} \union Tasks, name : {"rgb", "depth"}]
    /\ observations \in Seq(ObservationRow)
    /\ conditions \in Seq(ConditionRow)

LEMMA TypeInvImplies == TypeInv => TypeOK
<1> SUFFICES ASSUME TypeInv PROVE TypeOK
  OBVIOUS
<1>1. ASSUME NEW c \in Calls
      PROVE  /\ job[c].step \in {"new", "camera", "depth", "analyze", "store", "finish",
                                 "resolved", "write", "list", "replied"}
             /\ job[c].task \in 0..instructions
             /\ job[c].step \notin {"new", "replied"} => job[c].task # 0
             /\ job[c].taken \subseteq ObservationKey /\ job[c].doubt \in BOOLEAN
             /\ job[c].found \in AnyFinding /\ job[c].attempt \in 0..PolicyLimit
             /\ job[c].seen \in Row \union {Unread}
  <2>1. job[c] \in Job /\ job[c].task \in 0..instructions /\ StepInv(job[c])
    BY DEF TypeInv
  <2> QED
    BY <2>1 DEF Job, Steps, Working, StepInv, AtWork
<1> QED
  BY <1>1 DEF TypeInv, TypeOK, ObservationRow, ConditionRow

-------------------------------------------------------------------------------
\* The plans a call works on, and what they hold.
LEMMA PlanParts ==
    ASSUME NEW j \in Job
    PROVE  /\ Captures(j) \in Seq(CaptureType) /\ Questions(j) \in Seq(QuestionType)
           /\ Len(Captures(j)) \in Nat /\ Len(Questions(j)) \in Nat
<1>1. j.request.plan \in Plan
  BY DEF Job, AnyRequest
<1>2. Captures(j) \in Seq(CaptureType) /\ Questions(j) \in Seq(QuestionType)
  BY <1>1 DEF Plan, Captures, Questions, CaptureType, QuestionType
<1> QED
  BY <1>2, LenProperties

LEMMA ItemType ==
    ASSUME NEW j \in Job, j.done < Len(Captures(j)) + Len(Questions(j))
    PROVE  /\ Capturing(j) => CaptureSpec(j) \in CaptureType
           /\ ~Capturing(j) => ConditionSpec(j) \in QuestionType
<1>1. j.done \in Nat
  BY DEF Job
<1>2. CASE Capturing(j)
  <2>1. j.done + 1 \in 1..Len(Captures(j))
    BY <1>1, <1>2, PlanParts DEF Capturing
  <2>2. CaptureSpec(j) \in CaptureType
    BY <2>1, PlanParts, ElementOfSeq DEF CaptureSpec
  <2> QED
    BY <1>2, <2>2
<1>3. CASE ~Capturing(j)
  <2>1. j.done + 1 - Len(Captures(j)) \in 1..Len(Questions(j))
    BY <1>1, <1>3, PlanParts DEF Capturing
  <2>2. ConditionSpec(j) \in QuestionType
    BY <2>1, PlanParts, ElementOfSeq DEF ConditionSpec
  <2> QED
    BY <1>3, <2>2
<1> QED
  BY <1>2, <1>3

LEMMA SinglePlan ==
    ASSUME NEW spec \in CaptureType
    PROVE  /\ Single(spec) \in Plan
           /\ Len(Single(spec).captures) = 1 /\ Len(Single(spec).conditions) = 0
BY DEF Single, Plan, CaptureType

LEMMA QuestionPlan ==
    ASSUME NEW spec \in QuestionType
    PROVE  Question(spec) \in Plan
BY DEF Question, Plan, QuestionType

LEMMA NothingPlan == Nothing \in Plan
BY DEF Nothing, Plan

LEMMA NewJobType == NewJob \in Job /\ StepInv(NewJob)
<1>1. Request("none", Nothing, {}, 0) \in AnyRequest
  BY NothingPlan DEF Request, AnyRequest
<1>2. NoFinding \in AnyFinding /\ NoReply \in AnyReply
  BY DEF NoFinding, Finding, AnyFinding, Confidence, NoReply, Reply, AnyReply, AnyOutcome, Outcome
<1>3. 0 \in 0..MaxTasks /\ 0 \in 0..PolicyLimit
  BY InstructionsAssumption, PolicyLimitAssumption
<1>4. NewJob \in Job
  BY <1>1, <1>2, <1>3 DEF NewJob, Job, Steps, ToolName
<1> QED
  BY <1>4 DEF NewJob, StepInv, Working, Supervised

\* What a call becomes: the record it is set to decides the rest.
LEMMA CallKeepsTypes ==
    ASSUME TypeInv, NEW c \in Calls, NEW k \in Job, StepInv(k), k.task \in 0..instructions,
           job' = [job EXCEPT ![c] = k], UNCHANGED <<adapter, instructions, active>>,
           rows' \in [Tasks -> Row],
           files' \subseteq [dir : {0} \union Tasks, name : {"rgb", "depth"}],
           observations' \in Seq(ObservationRow), conditions' \in Seq(ConditionRow)
    PROVE  TypeInv'
<1>1. job' \in [Calls -> Job]
  BY DEF TypeInv
<1>2. \A d \in Calls : job'[d] = IF d = c THEN k ELSE job[d]
  BY DEF TypeInv
<1>3. \A d \in Calls : job'[d].task \in 0..instructions /\ StepInv(job'[d])
  BY <1>2 DEF TypeInv
<1>4. \A d \in Calls : job'[d].task \in 0..instructions' /\ StepInv(job[d])'
  BY <1>3 DEF StepInv, AtWork, Captures, Questions
<1> QED
  BY <1>1, <1>4 DEF TypeInv

LEMMA ReplyType ==
    ASSUME NEW j \in Job, NEW reply \in AnyReply
    PROVE  /\ Answered(j, reply) \in Job /\ StepInv(Answered(j, reply))
           /\ Answered(j, reply).task = j.task
<1>1. NoFinding \in AnyFinding
  BY DEF NoFinding, Finding, AnyFinding, Confidence
<1>2. Answered(j, reply) \in Job /\ Answered(j, reply).step = "replied"
      /\ Answered(j, reply).seen = Unread /\ Answered(j, reply).task = j.task
  BY <1>1 DEF Answered, Job, Steps
<1> QED
  BY <1>2 DEF StepInv, Working

LEMMA RaisedType == Reply("raised", {}, "none") \in AnyReply
BY DEF Reply, AnyReply, AnyOutcome, Outcome

\* NextStep with an item left or not.
LEMMA ContinueType ==
    ASSUME NEW j \in Job, AtWork([j EXCEPT !.step = "finish"]),
           j.done =< Len(Captures(j)) + Len(Questions(j))
    PROVE  LET k == [j EXCEPT !.step = NextStep(j)] IN
           k \in Job /\ StepInv(k) /\ k.step \in Working /\ k.task = j.task
<1> DEFINE k == [j EXCEPT !.step = NextStep(j)]
<1>1. NextStep(j) \in {"finish", "camera", "analyze"}
      /\ (NextStep(j) # "finish" => j.done # Len(Captures(j)) + Len(Questions(j)))
  BY DEF NextStep
<1>2. k \in Job /\ k.step = NextStep(j)
      /\ k.tool = j.tool /\ k.task = j.task /\ k.request = j.request /\ k.done = j.done
  BY <1>1 DEF Job, Steps, Working
<1>3. AtWork(k)
  <2>1. k.step # "finish" => k.done < Len(Captures(k)) + Len(Questions(k))
    <3>1. j.done \in Nat /\ Len(Captures(j)) \in Nat /\ Len(Questions(j)) \in Nat
      BY PlanParts DEF Job
    <3>2. Captures(k) = Captures(j) /\ Questions(k) = Questions(j)
      BY <1>2 DEF Captures, Questions
    <3> HIDE DEF k
    <3> QED
      BY <1>1, <1>2, <3>1, <3>2
  <2>2. j \in Job
    OBVIOUS
  <2> HIDE DEF k
  <2> QED
    BY <1>2, <2>1 DEF AtWork, Job, Captures, Questions
<1> HIDE DEF k
<1>4. StepInv(k)
  BY <1>1, <1>2, <1>3 DEF StepInv, Working
<1> QED
  BY <1>1, <1>2, <1>4 DEF Working, k

LEMMA KeyType ==
    ASSUME TypeInv, NEW j \in Job, AtWork(j), j.step # "finish", Capturing(j),
           j.request.about \in Places
    PROVE  ObservationId(j) \in ObservationKey
<1>1. CaptureSpec(j) \in CaptureType
  BY ItemType DEF AtWork
<1>2. j.task \in Tasks
  BY InstructionsAssumption DEF AtWork, Job, Tasks
<1> QED
  BY <1>1, <1>2 DEF ObservationId, ObservationKey, CaptureType

LEMMA AnswerToType ==
    ASSUME NEW j, j.request.lookup \in DOMAIN Lookups
    PROVE  /\ AnswerTo(j) \in AnswerType
           /\ Lookup(j).name \in Labels
<1>1. Lookup(j) \in [name : Labels, type : TargetType, atLeast : 0..100]
  <2>1. Lookups \in Seq([name : Labels, type : TargetType, atLeast : 0..100])
    BY InstructionsAssumption
  <2>2. j.request.lookup \in 1..Len(Lookups)
    BY <2>1, LenProperties
  <2> QED
    BY <2>1, <2>2, ElementOfSeq DEF Lookup
<1>2. Lookup(j).name \in Labels
  BY <1>1
<1> QED
  BY <1>2, AnswerIsTyped DEF AnswerTo

LEMMA ResolutionReplyType ==
    ASSUME NEW j, j.request.lookup \in DOMAIN Lookups
    PROVE  ResolutionReply(j) \in AnyReply
BY AnswerToType DEF ResolutionReply, Reply, AnyReply, AnyOutcome, Outcome, AnswerType

LEMMA ColumnsType ==
    ASSUME NEW row \in Row, NEW answer \in AnswerType
    PROVE  Columns(row, answer) \in Row
BY DEF Columns, Row, AnswerType

-------------------------------------------------------------------------------
LEMMA InitTypes == Init => TypeInv
<1> SUFFICES ASSUME Init PROVE TypeInv
  OBVIOUS
<1>1. NoRow \in Row
  BY DEF NoRow, Row
<1>2. \A c \in Calls : job[c] = NewJob
  BY DEF Init
<1>3. \A c \in Calls : job[c].task \in 0..instructions
  BY <1>2 DEF Init, NewJob
<1>4. job \in [Calls -> Job]
  BY NewJobType DEF Init
<1> QED
  BY <1>1, <1>2, <1>3, <1>4, NewJobType, InstructionsAssumption DEF Init, TypeInv

\* What a tool may be asked to do is a plan for a place.
LEMMA WorkType ==
    ASSUME NEW tool \in Supervised, NEW request \in Works(tool)
    PROVE  /\ request \in AnyRequest /\ request.about \in Places \union {Unlisted}
           /\ tool = "capture_evidence" =>
                 Len(request.plan.captures) = 1 /\ Len(request.plan.conditions) = 0
<1> DEFINE plans == IF tool = "inspect_place" THEN Plans
                    ELSE {Single(s) : s \in [kind : Kinds, profile : Profiles]}
<1>1. \A plan \in plans :
         /\ plan \in Plan
         /\ tool = "capture_evidence" => Len(plan.captures) = 1 /\ Len(plan.conditions) = 0
  BY SinglePlan, InstructionsAssumption DEF CaptureType
<1>2. PICK place \in AskedPlaces, plan \in plans : request = Request(place, plan, {}, 0)
  BY DEF Works
<1>3. place \in Places \union {Unlisted} /\ place \in Targets \union {Unlisted}
  BY InstructionsAssumption DEF Targets
<1> HIDE DEF plans
<1> QED
  BY <1>1, <1>2, <1>3 DEF Request, AnyRequest

LEMMA AskedType ==
    ASSUME TypeInv, NEW c \in Calls, NEW tool \in ToolName, NEW request \in AnyRequest,
           job[c].step = "new"
    PROVE  /\ Asked(c, tool, request) \in Job
           /\ Asked(c, tool, request).tool = tool
           /\ Asked(c, tool, request).task = active
           /\ Asked(c, tool, request).request = request
           /\ Asked(c, tool, request).done = 0
           /\ Asked(c, tool, request).seen = Unread
           /\ Asked(c, tool, request).taken = {}
           /\ Asked(c, tool, request).attempt = 0
           /\ Asked(c, tool, request).reply = NoReply
           /\ active \in 0..MaxTasks /\ active \in 0..instructions
<1>1. job[c] = NewJob
  BY DEF TypeInv, StepInv
<1>2. active \in 0..MaxTasks /\ active \in 0..instructions
  BY InstructionsAssumption DEF TypeInv
<1>3. /\ job[c] \in Job /\ job[c].done = 0 /\ job[c].seen = Unread
      /\ job[c].taken = {} /\ job[c].attempt = 0 /\ job[c].reply = NoReply
  BY <1>1, NewJobType DEF NewJob
<1> QED
  BY <1>2, <1>3 DEF Asked, Job

LEMMA AskedDoubtless ==
    ASSUME NEW c \in Calls, job[c] = NewJob, NEW tool, NEW request
    PROVE  Asked(c, tool, request).doubt = FALSE
BY DEF Asked, NewJob

\* A call begins: capture_evidence, inspect_place.
LEMMA BeginTypes ==
    ASSUME TypeInv, NEW c \in Calls, Begin(c)
    PROVE  TypeInv'
<1>0. PICK tool \in Supervised :
         \E request \in Works(tool) :
            /\ job[c].step = "new" /\ active # 0
            /\ Continue(c, Asked(c, tool, request))
  BY DEF Begin
<1>1. PICK request \in Works(tool) :
         /\ job[c].step = "new" /\ active # 0
         /\ Continue(c, Asked(c, tool, request))
  BY <1>0
<1> DEFINE j == Asked(c, tool, request)
           k == [j EXCEPT !.step = NextStep(j)]
<1>2. request \in AnyRequest /\ tool \in ToolName
  BY WorkType DEF ToolName
<1>3. j \in Job /\ active \in 0..instructions
  BY <1>1, <1>2, AskedType
<1>4. j.tool = tool /\ j.task = active /\ j.request = request /\ j.done = 0
  BY <1>1, <1>2, AskedType
<1> HIDE DEF j
<1>5. AtWork([j EXCEPT !.step = "finish"])
  <2>1. Captures([j EXCEPT !.step = "finish"]) = request.plan.captures
        /\ Questions([j EXCEPT !.step = "finish"]) = request.plan.conditions
    BY <1>3, <1>4 DEF Captures, Questions, Job
  <2> QED
    BY <1>1, <1>3, <1>4, <2>1, WorkType DEF AtWork, Job
<1>6. j.done =< Len(Captures(j)) + Len(Questions(j))
  BY <1>3, <1>4, PlanParts
<1>7. k \in Job /\ StepInv(k) /\ k.task = j.task
  BY <1>3, <1>5, <1>6, ContinueType
<1>8. job' = [job EXCEPT ![c] = k]
  BY <1>1 DEF Continue, j
<1> HIDE DEF k
<1> QED
  BY <1>3, <1>4, <1>7, <1>8, CallKeepsTypes DEF Begin, OnlyCall, stored, TypeInv

\* A call is refused or answered without any work.
LEMMA RefusalEffect ==
    ASSUME TypeInv, NEW c \in Calls,
           Reject(c) \/ InspectUnknownProfile(c) \/ VerifyCondition(c)
    PROVE  \E tool \in ToolName, request \in AnyRequest, reply \in AnyReply :
              job' = [job EXCEPT ![c] = Answered(Asked(c, tool, request), reply)]
<1>1. CASE Reject(c)
  <2>1. job[c].request \in AnyRequest
    BY DEF TypeInv, Job
  <2>2. Reply("rejected", {}, "none") \in AnyReply
    BY DEF Reply, AnyReply, AnyOutcome, Outcome
  <2>3. PICK tool \in Supervised \union {"verify_condition", "summarize_task"} :
           job' = [job EXCEPT ![c] = Answered(Asked(c, tool, job[c].request),
                                              Reply("rejected", {}, "none"))]
    BY <1>1 DEF Reject
  <2>4. tool \in ToolName
    BY DEF ToolName
  <2> QED
    BY <2>1, <2>2, <2>3, <2>4
<1>2. CASE InspectUnknownProfile(c)
  <2>1. job[c].request \in AnyRequest
    BY DEF TypeInv, Job
  <2>2. Reply("failed", {}, "none") \in AnyReply
    BY DEF Reply, AnyReply, AnyOutcome, Outcome
  <2>3. job' = [job EXCEPT ![c] = Answered(Asked(c, "inspect_place", job[c].request),
                                           Reply("failed", {}, "none"))]
    BY <1>2 DEF InspectUnknownProfile
  <2> QED
    BY <2>1, <2>2, <2>3 DEF ToolName, Supervised
<1>3. CASE VerifyCondition(c)
  <2>1. PICK target \in Targets, condition \in Conditions,
             wanted \in {{}} \union {{n} : n \in Ids} :
           LET spec == [target |-> target, condition |-> condition]
               j == Asked(c, "verify_condition", Request(target, Question(spec), wanted, 0))
           IN  \/ \E i \in DOMAIN conditions :
                     /\ Answers(conditions[i], j)
                     /\ \A n \in 1..(i - 1) : ~Answers(conditions[n], j)
                     /\ job' = [job EXCEPT ![c] =
                                  Answered(j, Reply("success", conditions[i].evidence,
                                                    conditions[i].finding.outcome))]
               \/ /\ \A i \in DOMAIN conditions : ~Answers(conditions[i], j)
                  /\ job' = [job EXCEPT ![c] = Answered(j, Reply("blocked", {}, "none"))]
    BY <1>3 DEF VerifyCondition
  <2> DEFINE request == Request(target, Question([target |-> target, condition |-> condition]),
                                wanted, 0)
             j == Asked(c, "verify_condition", request)
  <2>2. Ids \subseteq ObservationKey
    <3>1. \A i \in DOMAIN observations : observations[i] \in ObservationRow
      BY ElementOfSeq, LenProperties DEF TypeInv
    <3> QED
      BY <3>1 DEF Ids, ObservationRow
  <2>3. request \in AnyRequest
    <3>1. Question([target |-> target, condition |-> condition]) \in Plan
      BY QuestionPlan DEF QuestionType
    <3> QED
      BY <2>2, <3>1 DEF Request, AnyRequest
  <2>4. Reply("blocked", {}, "none") \in AnyReply
    BY DEF Reply, AnyReply, AnyOutcome, Outcome
  <2>5. ASSUME NEW i \in DOMAIN conditions
        PROVE  Reply("success", conditions[i].evidence, conditions[i].finding.outcome) \in AnyReply
    <3>1. conditions[i] \in ConditionRow
      BY ElementOfSeq, LenProperties DEF TypeInv
    <3> QED
      BY <3>1 DEF ConditionRow, AnyFinding, Reply, AnyReply, AnyOutcome, Outcome
  <2>6. \/ \E i \in DOMAIN conditions :
              job' = [job EXCEPT ![c] =
                        Answered(j, Reply("success", conditions[i].evidence,
                                          conditions[i].finding.outcome))]
        \/ job' = [job EXCEPT ![c] = Answered(j, Reply("blocked", {}, "none"))]
    BY <2>1
  <2>7. "verify_condition" \in ToolName
    BY DEF ToolName
  <2> HIDE DEF request
  <2> QED
    BY <2>3, <2>4, <2>5, <2>6, <2>7
<1> QED
  BY <1>1, <1>2, <1>3

LEMMA RefusalTypes ==
    ASSUME TypeInv, NEW c \in Calls,
           Reject(c) \/ InspectUnknownProfile(c) \/ VerifyCondition(c)
    PROVE  TypeInv'
<1>2. job[c].step = "new" /\ OnlyCall
  BY DEF Reject, InspectUnknownProfile, VerifyCondition
<1>3. PICK tool \in ToolName, request \in AnyRequest, reply \in AnyReply :
         job' = [job EXCEPT ![c] = Answered(Asked(c, tool, request), reply)]
  BY RefusalEffect
<1> DEFINE k == Answered(Asked(c, tool, request), reply)
<1>4. Asked(c, tool, request) \in Job /\ Asked(c, tool, request).task \in 0..instructions
  BY <1>2, AskedType
<1>5. k \in Job /\ StepInv(k) /\ k.task \in 0..instructions
  BY <1>4, ReplyType
<1> HIDE DEF k
<1> QED
  BY <1>2, <1>3, <1>5, CallKeepsTypes DEF k, OnlyCall, stored, TypeInv

\* resolve_target and summarize_task.
LEMMA LookupTypes ==
    ASSUME TypeInv, NEW c \in Calls,
           ResolveTarget(c) \/ ReadRow(c) \/ WriteRow(c) \/ SummarizeTask(c) \/ ListEvidence(c)
    PROVE  TypeInv'
<1>0. job[c] \in Job /\ StepInv(job[c]) /\ job[c].task \in 0..instructions
      /\ 0..instructions \subseteq 0..MaxTasks /\ rows \in [Tasks -> Row]
  BY InstructionsAssumption DEF TypeInv
<1>1. CASE ResolveTarget(c)
  <2>1. PICK i \in DOMAIN Lookups :
           LET j == Asked(c, "resolve_target", Request("none", Nothing, {}, i)) IN
           job' = [job EXCEPT ![c] = IF active = 0 THEN Answered(j, ResolutionReply(j))
                                     ELSE [j EXCEPT !.step = "resolved"]]
    BY <1>1 DEF ResolveTarget
  <2> DEFINE j == Asked(c, "resolve_target", Request("none", Nothing, {}, i))
             k == IF active = 0 THEN Answered(j, ResolutionReply(j))
                  ELSE [j EXCEPT !.step = "resolved"]
  <2>2. Request("none", Nothing, {}, i) \in AnyRequest
    <3>1. i \in Nat
      BY InstructionsAssumption, LenProperties
    <3> QED
      BY <3>1, NothingPlan DEF Request, AnyRequest
  <2>3. j \in Job /\ j.tool = "resolve_target" /\ j.task = active /\ j.request.lookup = i
        /\ j.seen = Unread /\ active \in 0..instructions
    <3>1. job[c].step = "new" /\ "resolve_target" \in ToolName
      BY <1>1 DEF ResolveTarget, ToolName
    <3>2. Request("none", Nothing, {}, i).lookup = i
      BY DEF Request
    <3> QED
      BY <2>2, <3>1, <3>2, AskedType
  <2> HIDE DEF j
  <2>4. k \in Job /\ StepInv(k) /\ k.task \in 0..instructions
    <3>1. CASE active = 0
      BY <2>3, <3>1, ResolutionReplyType, ReplyType
    <3>2. CASE active # 0
      <4>1. k \in Job /\ k.step = "resolved" /\ k.tool = "resolve_target" /\ k.task = active
            /\ k.request.lookup = i
        BY <2>3, <3>2 DEF Job, Steps
      <4> HIDE DEF k
      <4> QED
        BY <2>3, <3>2, <4>1 DEF StepInv, Working, Supervised
    <3> QED
      BY <3>1, <3>2
  <2>5. job' = [job EXCEPT ![c] = k]
    BY <2>1 DEF j
  <2> HIDE DEF k
  <2> QED
    BY <1>1, <2>4, <2>5, CallKeepsTypes DEF ResolveTarget, OnlyCall, stored, TypeInv
<1>2. CASE ReadRow(c)
  <2> DEFINE k == [job[c] EXCEPT !.step = "write", !.seen = rows[job[c].task]]
  <2>1. job' = [job EXCEPT ![c] = k]
    BY <1>2 DEF ReadRow, TypeInv
  <2>2. rows[job[c].task] \in Row
    BY <1>0, <1>2 DEF ReadRow, StepInv, Tasks
  <2>3. k \in Job /\ k.step = "write" /\ k.task = job[c].task /\ k.tool = job[c].tool
        /\ k.request = job[c].request /\ k.seen \in Row
    BY <1>0, <2>2 DEF Job, Steps
  <2> HIDE DEF k
  <2>4. StepInv(k)
    BY <1>0, <1>2, <2>3 DEF ReadRow, StepInv, Working, Supervised
  <2> QED
    BY <1>0, <1>2, <2>1, <2>3, <2>4, CallKeepsTypes DEF ReadRow, OnlyCall, stored, TypeInv
<1>3. CASE WriteRow(c)
  <2> DEFINE k == Answered(job[c], ResolutionReply(job[c]))
  <2>1. job[c].request.lookup \in DOMAIN Lookups /\ job[c].task # 0 /\ job[c].seen \in Row
    BY <1>0, <1>3 DEF WriteRow, StepInv
  <2>2. job' = [job EXCEPT ![c] = k]
        /\ rows' = [rows EXCEPT ![job[c].task] = Columns(job[c].seen, AnswerTo(job[c]))]
    BY <1>3 DEF WriteRow
  <2>3. Columns(job[c].seen, AnswerTo(job[c])) \in Row
    BY <2>1, AnswerToType, ColumnsType
  <2>4. k \in Job /\ StepInv(k) /\ k.task \in 0..instructions
    BY <1>0, <2>1, ResolutionReplyType, ReplyType
  <2>5. rows' \in [Tasks -> Row]
    BY <1>0, <2>2, <2>3
  <2> HIDE DEF k
  <2> QED
    BY <1>3, <2>2, <2>4, <2>5, CallKeepsTypes DEF WriteRow, TypeInv
<1>4. CASE SummarizeTask(c)
  <2>1. PICK task \in 1..instructions :
           job' = [job EXCEPT ![c].step = "list", ![c].tool = "summarize_task",
                              ![c].task = task, ![c].seen = rows[task]]
    BY <1>4 DEF SummarizeTask
  <2> DEFINE k == [job[c] EXCEPT !.step = "list", !.tool = "summarize_task",
                                 !.task = task, !.seen = rows[task]]
  <2>2. job' = [job EXCEPT ![c] = k]
    BY <2>1 DEF TypeInv
  <2>3. task \in Tasks /\ task \in 0..MaxTasks /\ task \in 0..instructions /\ task # 0
    BY <1>0, InstructionsAssumption DEF Tasks, TypeInv
  <2>4. k \in Job /\ k.step = "list" /\ k.task = task /\ k.tool = "summarize_task"
        /\ k.seen \in Row
    BY <1>0, <2>3 DEF Job, Steps, ToolName
  <2> HIDE DEF k
  <2>5. StepInv(k)
    BY <2>3, <2>4 DEF StepInv, Working, Supervised
  <2> QED
    BY <1>4, <2>2, <2>3, <2>4, <2>5, CallKeepsTypes DEF SummarizeTask, OnlyCall, stored, TypeInv
<1>5. CASE ListEvidence(c)
  <2> DEFINE reply == Reply("success", EvidenceOf(job[c].task), job[c].seen.target)
             k == Answered(job[c], reply)
  <2>1. job' = [job EXCEPT ![c] = k]
    BY <1>5 DEF ListEvidence
  <2>2. EvidenceOf(job[c].task) \subseteq ObservationKey
    <3>1. \A i \in DOMAIN observations : observations[i] \in ObservationRow
      BY ElementOfSeq, LenProperties DEF TypeInv
    <3> QED
      BY <3>1 DEF EvidenceOf, ObservationRow
  <2>3. job[c].seen \in Row
    BY <1>0, <1>5 DEF ListEvidence, StepInv
  <2>4. reply \in AnyReply
    BY <2>2, <2>3 DEF Reply, AnyReply, AnyOutcome, Outcome, Row
  <2> HIDE DEF reply
  <2>5. k \in Job /\ StepInv(k) /\ k.task \in 0..instructions
    BY <1>0, <2>4, ReplyType
  <2> HIDE DEF k
  <2> QED
    BY <1>5, <2>1, <2>5, CallKeepsTypes DEF ListEvidence, OnlyCall, stored, TypeInv
<1> QED
  BY <1>1, <1>2, <1>3, <1>4, <1>5

\* An exception ends the call.
LEMMA RaiseTypes ==
    ASSUME TypeInv, NEW c \in Calls, CameraRaises(c) \/ VlmRaises(c) \/ InsertRaises(c)
    PROVE  TypeInv'
<1> DEFINE k == Answered(job[c], Reply("raised", {}, "none"))
<1>1. job' = [job EXCEPT ![c] = k] /\ OnlyCall
  BY DEF CameraRaises, VlmRaises, InsertRaises, Replies
<1>2. job[c] \in Job /\ job[c].task \in 0..instructions
  BY DEF TypeInv
<1>3. k \in Job /\ StepInv(k) /\ k.task \in 0..instructions
  BY <1>2, RaisedType, ReplyType
<1> HIDE DEF k
<1> QED
  BY <1>1, <1>3, CallKeepsTypes DEF OnlyCall, stored, TypeInv

\* The runner's updates of the row and the adapter's work on an item.
LEMMA ItemTypes ==
    ASSUME TypeInv, NEW c \in Calls,
           \/ RunnerReads(c) \/ RunnerWrites(c)
           \/ WritePictures(c) \/ WriteDepths(c) \/ Analyze(c)
    PROVE  TypeInv'
<1>0. job[c] \in Job /\ StepInv(job[c]) /\ job[c].task \in 0..instructions
      /\ job \in [Calls -> Job] /\ rows \in [Tasks -> Row]
      /\ files \subseteq [dir : {0} \union Tasks, name : {"rgb", "depth"}]
  BY DEF TypeInv
<1>9. job[c].step \in Working => job[c].task \in Tasks
  BY <1>0, InstructionsAssumption DEF StepInv, AtWork, Job, Tasks
<1>1. ASSUME NEW s \in {"depth", "analyze"}, Goto(c, s), job[c].step \in {"camera", "depth"},
             files' \subseteq [dir : {0} \union Tasks, name : {"rgb", "depth"}],
             UNCHANGED <<adapter, instructions, active, rows, observations, conditions>>
      PROVE  TypeInv'
  <2> DEFINE k == [job[c] EXCEPT !.step = s]
  <2>1. job' = [job EXCEPT ![c] = k]
    BY <1>0, <1>1 DEF Goto
  <2>2. k \in Job /\ k.step = s /\ k.task = job[c].task /\ k.tool = job[c].tool
        /\ k.request = job[c].request /\ k.done = job[c].done /\ k.seen = job[c].seen
    BY <1>0 DEF Job, Steps, Working
  <2> HIDE DEF k
  <2>3. StepInv(k)
    BY <1>0, <1>1, <2>2 DEF StepInv, AtWork, Captures, Questions, Working
  <2> QED
    BY <1>0, <1>1, <2>1, <2>2, <2>3, CallKeepsTypes DEF TypeInv
<1>2. CASE RunnerReads(c)
  <2> DEFINE k == [job[c] EXCEPT !.seen = rows[job[c].task]]
  <2>1. job' = [job EXCEPT ![c] = k]
    BY <1>0, <1>2 DEF RunnerReads
  <2>2. job[c].step \in Working
    BY <1>2 DEF RunnerReads, Working
  <2>3. rows[job[c].task] \in Row
    BY <1>0, <1>9, <2>2
  <2>4. k \in Job /\ k.step = job[c].step /\ k.task = job[c].task /\ k.tool = job[c].tool
        /\ k.request = job[c].request /\ k.done = job[c].done /\ k.seen \in Row
    BY <1>0, <2>3 DEF Job
  <2> HIDE DEF k
  <2>5. StepInv(k)
    BY <1>0, <2>2, <2>4 DEF StepInv, AtWork, Captures, Questions, Working
  <2> QED
    BY <1>0, <1>2, <2>1, <2>4, <2>5, CallKeepsTypes DEF RunnerReads, OnlyCall, stored, TypeInv
<1>3. CASE RunnerWrites(c)
  <2> DEFINE k == [job[c] EXCEPT !.seen = Unread]
  <2>1. job' = [job EXCEPT ![c] = k]
    BY <1>0, <1>3 DEF RunnerWrites
  <2>2. job[c].step \in Working /\ job[c].seen \in Row
    BY <1>0, <1>3 DEF RunnerWrites, StepInv, Job
  <2>3. rows' \in [Tasks -> Row]
    BY <1>0, <1>3, <1>9, <2>2 DEF RunnerWrites
  <2>4. k \in Job /\ k.step = job[c].step /\ k.task = job[c].task /\ k.tool = job[c].tool
        /\ k.request = job[c].request /\ k.done = job[c].done
    BY <1>0 DEF Job
  <2> HIDE DEF k
  <2>5. StepInv(k)
    BY <1>0, <2>2, <2>4 DEF StepInv, AtWork, Captures, Questions, Working
  <2> QED
    BY <1>0, <1>3, <2>1, <2>3, <2>4, <2>5, CallKeepsTypes DEF RunnerWrites, TypeInv
<1>4. CASE WritePictures(c)
  <2>1. job[c].task \in Tasks
    BY <1>4, <1>9 DEF WritePictures, Working
  <2> QED
    BY <1>0, <1>1, <1>4, <2>1 DEF WritePictures
<1>5. CASE WriteDepths(c)
  <2>1. job[c].task \in Tasks
    BY <1>5, <1>9 DEF WriteDepths, Working
  <2> QED
    BY <1>0, <1>1, <1>5, <2>1 DEF WriteDepths
<1>6. CASE Analyze(c)
  <2>1. PICK finding \in IF adapter = "real" THEN RealFindings(job[c]) ELSE FakeFindings(job[c]) :
           job' = [job EXCEPT ![c].step = "store", ![c].found = finding]
    BY <1>6 DEF Analyze
  <2>2. finding \in AnyFinding
    <3>1. ASSUME NEW f \in RealFindings(job[c]) PROVE f \in AnyFinding
      BY <3>1 DEF RealFindings, Finding, Verdict, AnyFinding, Confidence
    <3>2. ASSUME NEW f \in FakeFindings(job[c]) PROVE f \in AnyFinding
      BY <3>2 DEF FakeFindings, Finding, AnyFinding, Confidence
    <3> QED
      BY <2>1, <3>1, <3>2
  <2> DEFINE k == [job[c] EXCEPT !.step = "store", !.found = finding]
  <2>3. job' = [job EXCEPT ![c] = k]
    BY <1>0, <2>1
  <2>4. k \in Job /\ k.step = "store" /\ k.task = job[c].task /\ k.tool = job[c].tool
        /\ k.request = job[c].request /\ k.done = job[c].done /\ k.seen = job[c].seen
    BY <1>0, <2>2 DEF Job, Steps, Working
  <2> HIDE DEF k
  <2>5. StepInv(k)
    BY <1>0, <1>6, <2>4 DEF Analyze, StepInv, AtWork, Captures, Questions, Working
  <2> QED
    BY <1>0, <1>6, <2>3, <2>4, <2>5, CallKeepsTypes DEF Analyze, OnlyCall, stored, TypeInv
<1> QED
  BY <1>2, <1>3, <1>4, <1>5, <1>6

\* An item is done, or all of them are to be done again.
LEMMA ProgressType ==
    ASSUME TypeInv, NEW c \in Calls, job[c].step \in Working, NEW j \in Job,
           j.tool = job[c].tool, j.task = job[c].task, j.request = job[c].request,
           j.done =< Len(Captures(j)) + Len(Questions(j)),
           Continue(c, j), UNCHANGED <<adapter, instructions, active, rows, files>>,
           observations' \in Seq(ObservationRow), conditions' \in Seq(ConditionRow)
    PROVE  TypeInv'
<1> DEFINE k == [j EXCEPT !.step = NextStep(j)]
<1>1. AtWork(job[c]) /\ job[c].task \in 0..instructions
  BY DEF TypeInv, StepInv
<1>2. AtWork([j EXCEPT !.step = "finish"])
  <2> DEFINE f == [j EXCEPT !.step = "finish"]
  <2>1. f.tool = j.tool /\ f.task = j.task /\ f.request = j.request /\ f.step = "finish"
    BY DEF Job
  <2> HIDE DEF f
  <2>2. AtWork(f)
    BY <1>1, <2>1 DEF AtWork, Captures, Questions
  <2> QED
    BY <2>2 DEF f
<1>3. k \in Job /\ StepInv(k) /\ k.task \in 0..instructions
  BY <1>1, <1>2, ContinueType
<1>4. job' = [job EXCEPT ![c] = k]
  BY DEF Continue
<1> HIDE DEF k
<1> QED
  BY <1>3, <1>4, CallKeepsTypes DEF TypeInv

LEMMA StoredType ==
    ASSUME NEW j \in Job, NEW taken \in SUBSET ObservationKey, AtWork(j), j.step = "store"
    PROVE  LET s == Stored(j, taken) IN
           /\ s \in Job /\ s.tool = j.tool /\ s.task = j.task /\ s.request = j.request
           /\ s.done = j.done + 1 /\ s.taken = j.taken \union taken
           /\ s.done =< Len(Captures(s)) + Len(Questions(s))
<1> DEFINE s == Stored(j, taken)
<1>1. /\ s \in Job /\ s.tool = j.tool /\ s.task = j.task /\ s.request = j.request
      /\ s.done = j.done + 1 /\ s.taken = j.taken \union taken
  <2> DEFINE d == j.doubt \/ Doubts(j.found)
  <2>1. s = [j EXCEPT !.done = j.done + 1, !.taken = j.taken \union taken, !.doubt = d]
    BY DEF Stored
  <2>2. d \in BOOLEAN
    BY Zenon
  <2>3. j.done + 1 \in Nat /\ j.taken \union taken \in SUBSET ObservationKey
    BY DEF Job
  <2> HIDE DEF d, s
  <2> QED
    BY <2>1, <2>2, <2>3 DEF Job
<1>2. Captures(s) = Captures(j) /\ Questions(s) = Questions(j)
  BY <1>1 DEF Captures, Questions
<1>3. j.done < Len(Captures(j)) + Len(Questions(j)) /\ j.done \in Nat
      /\ Len(Captures(j)) \in Nat /\ Len(Questions(j)) \in Nat
  BY PlanParts DEF AtWork, Job
<1> HIDE DEF s
<1>4. s.done =< Len(Captures(s)) + Len(Questions(s))
  BY <1>1, <1>2, <1>3
<1> QED
  BY <1>1, <1>4 DEF s

LEMMA StoreTypes ==
    ASSUME TypeInv, NEW c \in Calls, StoreObservation(c) \/ StoreCondition(c)
    PROVE  TypeInv'
<1>0. job[c] \in Job /\ job[c].step = "store" /\ job[c].step \in Working /\ AtWork(job[c])
      /\ job[c].found \in AnyFinding /\ job[c].taken \in SUBSET ObservationKey
  <2>1. job[c] \in Job /\ StepInv(job[c]) /\ job[c].step = "store"
    BY DEF TypeInv, StoreObservation, StoreCondition
  <2> QED
    BY <2>1 DEF StepInv, Working, Job
<1>1. job[c].task \in Tasks
  BY <1>0, InstructionsAssumption DEF AtWork, Job, Tasks
<1>2. CASE StoreObservation(c)
  <2> DEFINE o == [id |-> ObservationId(job[c]), task |-> job[c].task, call |-> c,
                   finding |-> job[c].found]
             s == Stored(job[c], {ObservationId(job[c])})
  <2>1. ObservationId(job[c]) \in ObservationKey
    BY <1>0, <1>2, KeyType DEF StoreObservation
  <2>2. o \in ObservationRow
    BY <1>0, <1>1, <2>1 DEF ObservationRow
  <2>3. observations' = Append(observations, o) /\ Continue(c, s)
    BY <1>2 DEF StoreObservation
  <2> HIDE DEF o
  <2>4. observations' \in Seq(ObservationRow)
    BY <2>2, <2>3, AppendProperties DEF TypeInv
  <2>5. s \in Job /\ s.tool = job[c].tool /\ s.task = job[c].task
        /\ s.request = job[c].request /\ s.done =< Len(Captures(s)) + Len(Questions(s))
    BY <1>0, <2>1, StoredType
  <2> HIDE DEF s
  <2> QED
    BY <1>0, <1>2, <2>3, <2>4, <2>5, ProgressType DEF StoreObservation, TypeInv
<1>3. CASE StoreCondition(c)
  <2> DEFINE r == ConditionResult(job[c].task, c)
             s == Stored(job[c], {})
  <2>1. ConditionSpec(job[c]) \in QuestionType
    BY <1>0, <1>3, ItemType DEF StoreCondition, AtWork
  <2>2. r \in ConditionRow
    <3>1. Target(job[c]) \in Targets \union {Unlisted}
      BY <1>0, <2>1 DEF Target, QuestionType, AtWork, Targets
    <3> QED
      BY <1>0, <1>1, <2>1, <3>1 DEF ConditionResult, ConditionRow, QuestionType
  <2>3. conditions' = Append(conditions, r) /\ Continue(c, s)
    BY <1>3 DEF StoreCondition
  <2> HIDE DEF r
  <2>4. conditions' \in Seq(ConditionRow)
    BY <2>2, <2>3, AppendProperties DEF TypeInv
  <2>5. s \in Job /\ s.tool = job[c].tool /\ s.task = job[c].task
        /\ s.request = job[c].request /\ s.done =< Len(Captures(s)) + Len(Questions(s))
    BY <1>0, StoredType
  <2> HIDE DEF s
  <2> QED
    BY <1>0, <1>3, <2>3, <2>4, <2>5, ProgressType DEF StoreCondition, TypeInv
<1> QED
  BY <1>2, <1>3

LEMMA RetryTypes ==
    ASSUME TypeInv, NEW c \in Calls, Retry(c)
    PROVE  TypeInv'
<1> DEFINE j == [job[c] EXCEPT !.attempt = @ + 1, !.done = 0, !.taken = {}, !.doubt = FALSE,
                               !.found = NoFinding]
<1>1. job[c] \in Job /\ job[c].step \in Working
  BY DEF Retry, TypeInv, Working
<1>2. job[c].attempt + 1 \in 0..PolicyLimit
  BY <1>1, PolicyLimitAssumption DEF Retry, ShouldRetry, Job
<1>3. NoFinding \in AnyFinding
  BY DEF NoFinding, Finding, AnyFinding, Confidence
<1>4. /\ j \in Job /\ j.tool = job[c].tool /\ j.task = job[c].task
      /\ j.request = job[c].request /\ j.done = 0
  BY <1>1, <1>2, <1>3 DEF Job
<1>5. Continue(c, j)
  BY DEF Retry
<1> HIDE DEF j
<1>6. j.done =< Len(Captures(j)) + Len(Questions(j))
  BY <1>4, PlanParts
<1> QED
  BY <1>1, <1>4, <1>5, <1>6, ProgressType DEF Retry, OnlyCall, stored, TypeInv

LEMMA FinishTypes ==
    ASSUME TypeInv, NEW c \in Calls, Finish(c)
    PROVE  TypeInv'
<1>1. job[c] \in Job /\ job[c].task \in 0..instructions
  BY DEF TypeInv
<1>2. OperationResult(job[c]).outcome \in Outcome
  BY DEF OperationResult, CaptureResult, InspectionResult, NoAdapter, Res, Outcome
<1>3. \E reply \in AnyReply : job' = [job EXCEPT ![c] = Answered(job[c], reply)]
  <2>1. \A status \in {"success", "failed", "inconclusive"} :
           Reply(status, job[c].taken, OperationResult(job[c]).outcome) \in AnyReply
    BY <1>1, <1>2 DEF Reply, AnyReply, AnyOutcome, Job
  <2>2. \E status \in {"success", "failed", "inconclusive"} :
           job' = [job EXCEPT ![c] = Answered(job[c],
                      Reply(status, job[c].taken, OperationResult(job[c]).outcome))]
    <3> DEFINE r == OperationResult(job[c])
               status == CASE MarksInconclusive(r) -> "inconclusive"
                           [] ~MarksInconclusive(r) /\ r.state = "succeeded" -> "success"
                           [] OTHER -> "failed"
    <3>1. job' = [job EXCEPT ![c] = Answered(job[c], Reply(status, job[c].taken, r.outcome))]
      BY DEF Finish, Replies
    <3>2. status \in {"success", "failed", "inconclusive"}
      OBVIOUS
    <3> QED
      BY <3>1, <3>2
  <2> QED
    BY <2>1, <2>2
<1>4. PICK reply \in AnyReply : job' = [job EXCEPT ![c] = Answered(job[c], reply)]
  BY <1>3
<1> DEFINE k == Answered(job[c], reply)
<1>5. k \in Job /\ StepInv(k) /\ k.task \in 0..instructions
  BY <1>1, ReplyType
<1>6. job' = [job EXCEPT ![c] = k] /\ OnlyCall
  BY <1>4 DEF Finish
<1> HIDE DEF k
<1> QED
  BY <1>5, <1>6, CallKeepsTypes DEF OnlyCall, stored, TypeInv

LEMMA NextTypes == TypeInv /\ [Next]_vars => TypeInv'
<1> SUFFICES ASSUME TypeInv, [Next]_vars PROVE TypeInv'
  OBVIOUS
<1>1. CASE NewInstruction
  <2>1. instructions' \in 0..MaxTasks /\ active' \in {0, instructions'}
        /\ 0..instructions \subseteq 0..instructions'
    BY <1>1, InstructionsAssumption DEF NewInstruction, TypeInv
  <2> QED
    BY <1>1, <2>1 DEF NewInstruction, stored, TypeInv, StepInv, AtWork, Captures, Questions
<1>2. CASE InstructionEnds
  BY <1>2 DEF InstructionEnds, stored, TypeInv, StepInv, AtWork, Captures, Questions
<1>3. ASSUME NEW c \in Calls, CallStep(c)
      PROVE  TypeInv'
  BY <1>3, BeginTypes, RefusalTypes, LookupTypes, RaiseTypes, ItemTypes, StoreTypes, RetryTypes,
     FinishTypes DEF CallStep
<1>4. CASE UNCHANGED vars
  BY <1>4 DEF vars, stored, TypeInv, StepInv, AtWork, Captures, Questions
<1> QED
  BY <1>1, <1>2, <1>3, <1>4 DEF Next

LEMMA TypeInvariant == Spec => []TypeInv
BY InitTypes, NextTypes, PTL DEF Spec

\* Every part of the state has its type, for any calls, places and plans, and
\* a call that works, resolves or lists has a task (_require_task).
THEOREM InstructionsTypeCorrect == Spec => []TypeOK
BY TypeInvariant, TypeInvImplies, PTL

-------------------------------------------------------------------------------
\* A step of a call leaves the other calls and the adapter alone, and a call
\* that has begun keeps its tool, its task and its request.
LEMMA CallFrame ==
    ASSUME TypeInv, NEW c \in Calls, CallStep(c)
    PROVE  /\ \A d \in Calls : d # c => job'[d] = job[d]
           /\ job'[c].step # "new" /\ adapter' = adapter
           /\ job[c].step = "new" => job[c] = NewJob
           /\ job[c].step # "new" =>
                 /\ job'[c].task = job[c].task /\ job'[c].tool = job[c].tool
                 /\ job'[c].request = job[c].request
<1>0. /\ job \in [Calls -> Job] /\ job[c] \in Job /\ StepInv(job[c])
      /\ job[c].step = "new" => job[c] = NewJob
  BY DEF TypeInv, StepInv
<1>1. CASE Begin(c)
  <2>1. PICK tool \in Supervised :
           \E request \in Works(tool) :
              job[c].step = "new" /\ Continue(c, Asked(c, tool, request))
    BY <1>1 DEF Begin
  <2>2. PICK request \in Works(tool) :
           job[c].step = "new" /\ Continue(c, Asked(c, tool, request))
    BY <2>1
  <2> DEFINE j == Asked(c, tool, request)
  <2>3. j \in Job
    BY <2>2, WorkType, AskedType DEF ToolName
  <2>4. job' = [job EXCEPT ![c] = [j EXCEPT !.step = NextStep(j)]]
    BY <2>2 DEF Continue
  <2> HIDE DEF j
  <2>5. NextStep(j) # "new"
    BY DEF NextStep
  <2> QED
    BY <1>0, <1>1, <2>2, <2>3, <2>4, <2>5 DEF Begin, OnlyCall, Job
<1>2. CASE Reject(c) \/ InspectUnknownProfile(c) \/ VerifyCondition(c)
  <2>1. job[c].step = "new" /\ adapter' = adapter
    BY <1>2 DEF Reject, InspectUnknownProfile, VerifyCondition, OnlyCall
  <2>2. PICK tool \in ToolName, request \in AnyRequest, reply \in AnyReply :
           job' = [job EXCEPT ![c] = Answered(Asked(c, tool, request), reply)]
    BY <1>2, RefusalEffect
  <2>3. Asked(c, tool, request) \in Job
    BY <2>1, AskedType
  <2>4. Answered(Asked(c, tool, request), reply).step = "replied"
    BY <2>3 DEF Answered, Job
  <2> QED
    BY <1>0, <2>1, <2>2, <2>4
<1>3. CASE ResolveTarget(c)
  <2>1. PICK i \in DOMAIN Lookups :
           LET j == Asked(c, "resolve_target", Request("none", Nothing, {}, i)) IN
           job' = [job EXCEPT ![c] = IF active = 0 THEN Answered(j, ResolutionReply(j))
                                     ELSE [j EXCEPT !.step = "resolved"]]
    BY <1>3 DEF ResolveTarget
  <2> DEFINE j == Asked(c, "resolve_target", Request("none", Nothing, {}, i))
  <2>2. job[c].step = "new" /\ adapter' = adapter
    BY <1>3 DEF ResolveTarget, OnlyCall
  <2>3. j \in Job
    <3>1. i \in Nat
      BY InstructionsAssumption, LenProperties
    <3>2. Request("none", Nothing, {}, i) \in AnyRequest
      BY <3>1, NothingPlan DEF Request, AnyRequest
    <3> QED
      BY <2>2, <3>2, AskedType DEF ToolName
  <2> HIDE DEF j
  <2>4. /\ Answered(j, ResolutionReply(j)).step = "replied"
        /\ [j EXCEPT !.step = "resolved"].step = "resolved"
    BY <2>3 DEF Answered, Job
  <2> QED
    BY <1>0, <2>1, <2>2, <2>4 DEF j
<1>4. CASE SummarizeTask(c)
  BY <1>0, <1>4 DEF SummarizeTask, OnlyCall, Job
<1>5. CASE \/ CameraRaises(c) \/ VlmRaises(c) \/ InsertRaises(c) \/ Finish(c)
           \/ WriteRow(c) \/ ListEvidence(c)
  <2>1. job[c].step # "new" /\ adapter' = adapter
    BY <1>5 DEF CameraRaises, VlmRaises, InsertRaises, Finish, WriteRow, ListEvidence, OnlyCall
  <2>2. \E reply : job' = [job EXCEPT ![c] = Answered(job[c], reply)]
    BY <1>5 DEF CameraRaises, VlmRaises, InsertRaises, Finish, WriteRow, ListEvidence, Replies
  <2> QED
    BY <1>0, <2>1, <2>2 DEF Answered, Job
<1>6. CASE \/ RunnerReads(c) \/ RunnerWrites(c) \/ WritePictures(c) \/ WriteDepths(c)
           \/ ReadRow(c) \/ Analyze(c)
  <2>1. job[c].step # "new" /\ adapter' = adapter
    BY <1>0, <1>6 DEF RunnerReads, RunnerWrites, WritePictures, WriteDepths, ReadRow, Analyze,
                      OnlyCall, NewJob
  <2> QED
    BY <1>0, <1>6, <2>1 DEF RunnerReads, RunnerWrites, WritePictures, WriteDepths, ReadRow,
                            Analyze, Goto, Job
<1>7. CASE StoreObservation(c) \/ StoreCondition(c)
  <2>1. PICK taken : Continue(c, Stored(job[c], taken))
    BY <1>7 DEF StoreObservation, StoreCondition
  <2>2. job[c].step = "store" /\ adapter' = adapter
    BY <1>7 DEF StoreObservation, StoreCondition
  <2> DEFINE s == Stored(job[c], taken)
  <2>3. s.task = job[c].task /\ s.tool = job[c].tool /\ s.request = job[c].request
        /\ \A step : /\ [s EXCEPT !.step = step].step = step
                     /\ [s EXCEPT !.step = step].task = s.task
                     /\ [s EXCEPT !.step = step].tool = s.tool
                     /\ [s EXCEPT !.step = step].request = s.request
    BY <1>0 DEF Stored, Job
  <2>4. job' = [job EXCEPT ![c] = [s EXCEPT !.step = NextStep(s)]]
    BY <2>1 DEF Continue
  <2> HIDE DEF s
  <2>5. NextStep(s) # "new"
    BY DEF NextStep
  <2> QED
    BY <1>0, <2>2, <2>3, <2>4, <2>5
<1>8. CASE Retry(c)
  <2> DEFINE s == [job[c] EXCEPT !.attempt = @ + 1, !.done = 0, !.taken = {}, !.doubt = FALSE,
                                 !.found = NoFinding]
  <2>1. s.task = job[c].task /\ s.tool = job[c].tool /\ s.request = job[c].request
        /\ \A step : /\ [s EXCEPT !.step = step].step = step
                     /\ [s EXCEPT !.step = step].task = s.task
                     /\ [s EXCEPT !.step = step].tool = s.tool
                     /\ [s EXCEPT !.step = step].request = s.request
    BY <1>0 DEF Job
  <2>2. job' = [job EXCEPT ![c] = [s EXCEPT !.step = NextStep(s)]]
    BY <1>8 DEF Retry, Continue
  <2>3. job[c].step = "finish" /\ adapter' = adapter
    BY <1>8 DEF Retry, OnlyCall
  <2> HIDE DEF s
  <2>4. NextStep(s) # "new"
    BY DEF NextStep
  <2> QED
    BY <1>0, <2>1, <2>2, <2>3, <2>4
<1> QED
  BY <1>0, <1>1, <1>2, <1>3, <1>4, <1>5, <1>6, <1>7, <1>8 DEF CallStep

\* A call that has replied takes no further step.
LEMMA RepliedIsFinal ==
    ASSUME TypeInv, NEW c \in Calls, CallStep(c)
    PROVE  job[c].step # "replied"
<1>1. StepInv(job[c])
  BY DEF TypeInv
<1> QED
  BY <1>1 DEF StepInv, Working, CallStep, Begin, Reject, InspectUnknownProfile, RunnerReads,
              RunnerWrites, CameraRaises, WritePictures, WriteDepths, VlmRaises, Analyze,
              InsertRaises, StoreObservation, StoreCondition, Retry, Finish, VerifyCondition,
              ResolveTarget, ReadRow, WriteRow, SummarizeTask, ListEvidence

LEMMA AnsweredFields ==
    ASSUME NEW j \in Job, NEW reply
    PROVE  LET k == Answered(j, reply) IN
           /\ k.step = "replied" /\ k.tool = j.tool /\ k.task = j.task /\ k.request = j.request
           /\ k.reply = reply /\ k.taken = {} /\ k.done = 0 /\ k.attempt = j.attempt
           /\ k.seen = Unread
BY DEF Answered, Job

LEMMA BeginEffect ==
    ASSUME TypeInv, NEW c \in Calls, Begin(c)
    PROVE  /\ job'[c].tool \in Supervised /\ job'[c].task = active /\ active # 0
           /\ job'[c].taken = {} /\ job'[c].reply = NoReply /\ job'[c].attempt = 0
           /\ job'[c].seen = Unread /\ job'[c].done = 0 /\ job'[c].step = NextStep(job'[c])
           /\ job'[c].doubt = FALSE
<1>1. PICK tool \in Supervised :
         \E request \in Works(tool) :
            job[c].step = "new" /\ Continue(c, Asked(c, tool, request)) /\ active # 0
  BY DEF Begin
<1>2. PICK request \in Works(tool) :
         job[c].step = "new" /\ Continue(c, Asked(c, tool, request)) /\ active # 0
  BY <1>1
<1> DEFINE j == Asked(c, tool, request)
           k == [j EXCEPT !.step = NextStep(j)]
<1>3. /\ j \in Job /\ j.tool = tool /\ j.task = active /\ j.taken = {} /\ j.reply = NoReply
      /\ j.attempt = 0 /\ j.seen = Unread /\ j.done = 0
  BY <1>2, WorkType, AskedType DEF ToolName
<1>7. j.doubt = FALSE
  <2>1. job[c] = NewJob
    BY <1>2 DEF TypeInv, StepInv
  <2> QED
    BY <2>1, AskedDoubtless
<1>4. job'[c] = k
  BY <1>2 DEF Continue, TypeInv
<1> HIDE DEF j
<1>5. /\ k.tool = tool /\ k.task = active /\ k.taken = {} /\ k.reply = NoReply /\ k.attempt = 0
      /\ k.seen = Unread /\ k.done = 0 /\ k.step = NextStep(j) /\ k.request = j.request
  BY <1>3 DEF Job
<1>8. k.doubt = FALSE
  BY <1>3, <1>7 DEF Job
<1>6. NextStep(k) = NextStep(j)
  BY <1>3, <1>5 DEF NextStep, Captures, Questions
<1> HIDE DEF k
<1> QED
  BY <1>2, <1>4, <1>5, <1>6, <1>8

LEMMA RejectEffect ==
    ASSUME TypeInv, NEW c \in Calls, Reject(c) \/ InspectUnknownProfile(c)
    PROVE  /\ job'[c].reply.status # "success" /\ job'[c].reply.evidence = {}
           /\ job'[c].taken = {} /\ job'[c].attempt = 0 /\ job'[c].step = "replied"
           /\ job'[c].seen = Unread /\ job'[c].tool # "resolve_target"
<1>1. job[c].request \in AnyRequest /\ job[c].step = "new" /\ job \in [Calls -> Job]
  BY DEF TypeInv, Job, Reject, InspectUnknownProfile
<1>2. PICK tool \in ToolName \ {"resolve_target"}, status \in {"rejected", "failed"} :
         job' = [job EXCEPT ![c] = Answered(Asked(c, tool, job[c].request),
                                            Reply(status, {}, "none"))]
  <2>1. CASE Reject(c)
    <3>1. PICK tool \in Supervised \union {"verify_condition", "summarize_task"} :
             job' = [job EXCEPT ![c] = Answered(Asked(c, tool, job[c].request),
                                                Reply("rejected", {}, "none"))]
      BY <2>1 DEF Reject
    <3>2. tool \in ToolName \ {"resolve_target"}
      BY DEF ToolName, Supervised
    <3> QED
      BY <3>1, <3>2
  <2>2. CASE InspectUnknownProfile(c)
    <3>1. job' = [job EXCEPT ![c] = Answered(Asked(c, "inspect_place", job[c].request),
                                             Reply("failed", {}, "none"))]
      BY <2>2 DEF InspectUnknownProfile
    <3> QED
      BY <3>1 DEF ToolName, Supervised
  <2> QED
    BY <2>1, <2>2
<1> DEFINE j == Asked(c, tool, job[c].request)
<1>3. j \in Job /\ j.tool = tool /\ j.attempt = 0
  BY <1>1, AskedType
<1>4. job'[c] = Answered(j, Reply(status, {}, "none"))
  BY <1>1, <1>2
<1> HIDE DEF j
<1> QED
  BY <1>3, <1>4, AnsweredFields DEF Reply

\* verify_condition answers with the verdict of a row of its task and target.
LEMMA VerifyEffect ==
    ASSUME TypeInv, NEW c \in Calls, VerifyCondition(c)
    PROVE  /\ job'[c].tool = "verify_condition" /\ job'[c].taken = {} /\ job'[c].attempt = 0
           /\ job'[c].step = "replied" /\ job'[c].seen = Unread
           /\ \/ job'[c].reply.status = "blocked" /\ job'[c].reply.evidence = {}
              \/ \E i \in DOMAIN conditions :
                    /\ conditions[i].task = job'[c].task
                    /\ conditions[i].target = job'[c].request.about
                    /\ conditions[i].finding.outcome = job'[c].reply.outcome
                    /\ job'[c].request.wanted \subseteq conditions[i].evidence
                    /\ job'[c].reply.evidence = conditions[i].evidence
<1>1. PICK target \in Targets, condition \in Conditions, wanted \in {{}} \union {{n} : n \in Ids} :
         LET spec == [target |-> target, condition |-> condition]
             j == Asked(c, "verify_condition", Request(target, Question(spec), wanted, 0))
         IN  \/ \E i \in DOMAIN conditions :
                   /\ Answers(conditions[i], j)
                   /\ \A n \in 1..(i - 1) : ~Answers(conditions[n], j)
                   /\ job' = [job EXCEPT ![c] =
                                Answered(j, Reply("success", conditions[i].evidence,
                                                  conditions[i].finding.outcome))]
             \/ /\ \A i \in DOMAIN conditions : ~Answers(conditions[i], j)
                /\ job' = [job EXCEPT ![c] = Answered(j, Reply("blocked", {}, "none"))]
  BY DEF VerifyCondition
<1> DEFINE spec == [target |-> target, condition |-> condition]
           request == Request(target, Question(spec), wanted, 0)
           j == Asked(c, "verify_condition", request)
<1>2. job[c].step = "new" /\ job \in [Calls -> Job]
  BY DEF VerifyCondition, TypeInv
<1>3. request \in AnyRequest
  <2>1. \A i \in DOMAIN observations : observations[i] \in ObservationRow
    BY ElementOfSeq, LenProperties DEF TypeInv
  <2>2. Ids \subseteq ObservationKey
    BY <2>1 DEF Ids, ObservationRow
  <2>3. Question(spec) \in Plan
    BY QuestionPlan DEF QuestionType
  <2> QED
    BY <2>2, <2>3 DEF Request, AnyRequest
<1>4. request.about = target /\ request.wanted = wanted /\ request.plan = Question(spec)
  BY DEF Request
<1>5. Question(spec).conditions[1] = spec
  BY DEF Question
<1> HIDE DEF request, spec
<1>6. j \in Job /\ j.tool = "verify_condition" /\ j.request = request /\ j.attempt = 0
  BY <1>2, <1>3, AskedType DEF ToolName
<1> HIDE DEF j
<1>7. Questions(j)[1] = spec
  BY <1>4, <1>5, <1>6 DEF Questions
<1>8. CASE job' = [job EXCEPT ![c] = Answered(j, Reply("blocked", {}, "none"))]
  <2>1. job'[c] = Answered(j, Reply("blocked", {}, "none"))
    BY <1>2, <1>8
  <2> QED
    BY <1>6, <2>1, AnsweredFields DEF Reply
<1>9. ASSUME NEW i \in DOMAIN conditions, Answers(conditions[i], j),
             job' = [job EXCEPT ![c] = Answered(j, Reply("success", conditions[i].evidence,
                                                         conditions[i].finding.outcome))]
      PROVE  /\ job'[c].tool = "verify_condition" /\ job'[c].taken = {} /\ job'[c].attempt = 0
             /\ job'[c].step = "replied" /\ job'[c].seen = Unread
             /\ conditions[i].task = job'[c].task
             /\ conditions[i].target = job'[c].request.about
             /\ conditions[i].finding.outcome = job'[c].reply.outcome
             /\ job'[c].request.wanted \subseteq conditions[i].evidence
             /\ job'[c].reply.evidence = conditions[i].evidence
  <2> DEFINE reply == Reply("success", conditions[i].evidence, conditions[i].finding.outcome)
  <2>1. reply.evidence = conditions[i].evidence /\ reply.outcome = conditions[i].finding.outcome
    BY DEF Reply
  <2>2. job'[c] = Answered(j, reply)
    BY <1>2, <1>9
  <2> HIDE DEF reply
  <2>3. /\ conditions[i].task = j.task /\ conditions[i].target = target
        /\ j.request.wanted \subseteq conditions[i].evidence
    BY <1>7, <1>9 DEF Answers, spec
  <2> QED
    BY <1>4, <1>6, <2>1, <2>2, <2>3, AnsweredFields
<1>10. \/ \E i \in DOMAIN conditions :
             /\ Answers(conditions[i], j)
             /\ job' = [job EXCEPT ![c] = Answered(j, Reply("success", conditions[i].evidence,
                                                            conditions[i].finding.outcome))]
       \/ job' = [job EXCEPT ![c] = Answered(j, Reply("blocked", {}, "none"))]
  BY <1>1 DEF j, request, spec
<1> QED
  BY <1>8, <1>9, <1>10

LEMMA SameAnswer ==
    ASSUME NEW j, NEW k, k.request = j.request
    PROVE  AnswerTo(k) = AnswerTo(j) /\ ResolutionReply(k) = ResolutionReply(j)
<1>1. Lookup(k) = Lookup(j)
  BY DEF Lookup
<1>2. AnswerTo(k) = AnswerTo(j)
  BY <1>1 DEF AnswerTo
<1> QED
  BY <1>2 DEF ResolutionReply

LEMMA ResolveEffect ==
    ASSUME TypeInv, NEW c \in Calls, ResolveTarget(c)
    PROVE  /\ job'[c].tool = "resolve_target" /\ job'[c].taken = {} /\ job'[c].attempt = 0
           /\ job'[c].reply.evidence = {} /\ job'[c].seen = Unread
           /\ job'[c].request.lookup \in DOMAIN Lookups
           /\ \/ job'[c].step = "replied" /\ job'[c].reply = ResolutionReply(job'[c])
              \/ job'[c].step = "resolved" /\ job'[c].reply = NoReply
<1>1. PICK i \in DOMAIN Lookups :
         LET j == Asked(c, "resolve_target", Request("none", Nothing, {}, i)) IN
         job' = [job EXCEPT ![c] = IF active = 0 THEN Answered(j, ResolutionReply(j))
                                   ELSE [j EXCEPT !.step = "resolved"]]
  BY DEF ResolveTarget
<1> DEFINE request == Request("none", Nothing, {}, i)
           j == Asked(c, "resolve_target", request)
<1>2. job[c].step = "new" /\ job \in [Calls -> Job]
  BY DEF ResolveTarget, TypeInv
<1>3. request \in AnyRequest /\ request.lookup = i
  <2>1. i \in Nat
    BY InstructionsAssumption, LenProperties
  <2> QED
    BY <2>1, NothingPlan DEF Request, AnyRequest
<1>4. job'[c] = IF active = 0 THEN Answered(j, ResolutionReply(j))
                ELSE [j EXCEPT !.step = "resolved"]
  BY <1>1, <1>2
<1> HIDE DEF request
<1>5. /\ j \in Job /\ j.tool = "resolve_target" /\ j.request = request /\ j.attempt = 0
      /\ j.taken = {} /\ j.reply = NoReply /\ j.seen = Unread
  BY <1>2, <1>3, AskedType DEF ToolName
<1> HIDE DEF j
<1>6. CASE active = 0
  <2>1. job'[c] = Answered(j, ResolutionReply(j))
    BY <1>4, <1>6
  <2>2. ResolutionReply(job'[c]) = ResolutionReply(j)
    <3>1. job'[c].request = j.request
      BY <1>5, <2>1, AnsweredFields
    <3> QED
      BY <3>1, SameAnswer
  <2>3. ResolutionReply(j).evidence = {}
    BY DEF ResolutionReply, Reply
  <2> QED
    BY <1>3, <1>5, <2>1, <2>2, <2>3, AnsweredFields
<1>7. CASE active # 0
  <2>1. job'[c] = [j EXCEPT !.step = "resolved"]
    BY <1>4, <1>7
  <2> QED
    BY <1>3, <1>5, <2>1 DEF Job, NoReply, Reply
<1> QED
  BY <1>6, <1>7

-------------------------------------------------------------------------------
\* Whose the rows are, and what they, the calls and the replies cite.
RowsInv ==
    /\ \A i \in DOMAIN observations :
          LET o == observations[i] IN
          job[o.call].step # "new" /\ o.task = job[o.call].task
    /\ \A i \in DOMAIN conditions :
          LET r == conditions[i] IN
          /\ job[r.call].step # "new" /\ r.task = job[r.call].task
          /\ job[r.call].tool = "inspect_place"

\* The observations of a task, in a table.
Cites(table, task) ==
    {table[i].id : i \in {n \in DOMAIN table : table[n].task = task}}

LEMMA EvidenceIsCited ==
    ASSUME NEW task
    PROVE  EvidenceOf(task) = Cites(observations, task)
BY DEF EvidenceOf, Cites

CitedInv ==
    /\ \A i \in DOMAIN conditions :
          conditions[i].evidence \subseteq Cites(observations, conditions[i].task)
    /\ \A c \in Calls : /\ job[c].taken \subseteq Cites(observations, job[c].task)
                        /\ job[c].reply.evidence \subseteq Cites(observations, job[c].task)

VerdictInv ==
    /\ \A c \in Calls : job[c].tool = "verify_condition" => job[c].step = "replied"
    /\ VerdictHasSource

LEMMA RowTypes ==
    ASSUME TypeInv
    PROVE  /\ \A i \in DOMAIN observations : observations[i] \in ObservationRow
           /\ \A i \in DOMAIN conditions : conditions[i] \in ConditionRow
           /\ DOMAIN observations = 1..Len(observations) /\ Len(observations) \in Nat
           /\ DOMAIN conditions = 1..Len(conditions) /\ Len(conditions) \in Nat
BY ElementOfSeq, LenProperties DEF TypeInv

LEMMA AppendItems ==
    ASSUME NEW S, NEW s \in Seq(S), NEW x
    PROVE  LET t == Append(s, x) IN
           /\ \A i \in DOMAIN s : i \in DOMAIN t /\ t[i] = s[i]
           /\ \A i \in DOMAIN t : i \in DOMAIN s \/ t[i] = x
           /\ \E i \in DOMAIN t : t[i] = x
<1>1. s \in Seq(S \union {x})
  OBVIOUS
<1>2. /\ Append(s, x) \in Seq(S \union {x}) /\ Len(Append(s, x)) = Len(s) + 1
      /\ \A i \in 1..Len(s) : Append(s, x)[i] = s[i]
      /\ Append(s, x)[Len(s) + 1] = x
  BY <1>1, AppendProperties
<1>3. /\ Len(s) \in Nat /\ DOMAIN s = 1..Len(s)
      /\ DOMAIN Append(s, x) = 1..(Len(s) + 1)
  BY <1>1, <1>2, LenProperties
<1> QED
  BY <1>2, <1>3

\* Rows are only added, at the end.
LEMMA RowsGrow ==
    ASSUME TypeInv, TypeInv', NEW c \in Calls, CallStep(c)
    PROVE  /\ \A i \in DOMAIN observations :
                 i \in DOMAIN observations' /\ observations'[i] = observations[i]
           /\ \A i \in DOMAIN observations' :
                 \/ i \in DOMAIN observations
                 \/ /\ StoreObservation(c)
                    /\ observations'[i] = [id |-> ObservationId(job[c]), task |-> job[c].task,
                                           call |-> c, finding |-> job[c].found]
           /\ \A i \in DOMAIN conditions :
                 i \in DOMAIN conditions' /\ conditions'[i] = conditions[i]
           /\ \A i \in DOMAIN conditions' :
                 \/ i \in DOMAIN conditions
                 \/ StoreCondition(c) /\ conditions'[i] = ConditionResult(job[c].task, c)
           /\ StoreObservation(c) =>
                 \E i \in DOMAIN observations' :
                    /\ observations'[i].id = ObservationId(job[c])
                    /\ observations'[i].task = job[c].task /\ observations'[i].call = c
           /\ StoreCondition(c) =>
                 \E i \in DOMAIN conditions' :
                    conditions'[i] = ConditionResult(job[c].task, c)
           /\ \A t : Cites(observations, t) \subseteq Cites(observations', t)
           /\ Ids \subseteq Ids'
<1> DEFINE o == [id |-> ObservationId(job[c]), task |-> job[c].task, call |-> c,
                 finding |-> job[c].found]
           r == ConditionResult(job[c].task, c)
<1>1. \/ StoreObservation(c) /\ observations' = Append(observations, o)
      \/ ~StoreObservation(c) /\ observations' = observations
  BY DEF CallStep, Begin, Reject, InspectUnknownProfile, RunnerReads, RunnerWrites, CameraRaises,
         WritePictures, WriteDepths, VlmRaises, Analyze, InsertRaises, StoreObservation,
         StoreCondition, Retry, Finish, VerifyCondition, ResolveTarget, ReadRow, WriteRow,
         SummarizeTask, ListEvidence, OnlyCall, stored
<1>2. \/ StoreCondition(c) /\ conditions' = Append(conditions, r)
      \/ ~StoreCondition(c) /\ conditions' = conditions
  BY DEF CallStep, Begin, Reject, InspectUnknownProfile, RunnerReads, RunnerWrites, CameraRaises,
         WritePictures, WriteDepths, VlmRaises, Analyze, InsertRaises, StoreObservation,
         StoreCondition, Retry, Finish, VerifyCondition, ResolveTarget, ReadRow, WriteRow,
         SummarizeTask, ListEvidence, OnlyCall, stored
<1>3. observations \in Seq(ObservationRow) /\ conditions \in Seq(ConditionRow)
  BY DEF TypeInv
<1>4. o.id = ObservationId(job[c]) /\ o.task = job[c].task /\ o.call = c
  OBVIOUS
<1> HIDE DEF o, r
<1>5. /\ \A i \in DOMAIN observations :
            i \in DOMAIN observations' /\ observations'[i] = observations[i]
      /\ \A i \in DOMAIN observations' :
            i \in DOMAIN observations \/ (StoreObservation(c) /\ observations'[i] = o)
      /\ StoreObservation(c) => \E i \in DOMAIN observations' : observations'[i] = o
  <2>1. CASE StoreObservation(c) /\ observations' = Append(observations, o)
    <3>1. \A i \in DOMAIN observations :
             i \in DOMAIN observations' /\ observations'[i] = observations[i]
      BY <1>3, <2>1, AppendItems
    <3>2. \A i \in DOMAIN observations' : i \in DOMAIN observations \/ observations'[i] = o
      BY <1>3, <2>1, AppendItems
    <3>3. \E i \in DOMAIN observations' : observations'[i] = o
      BY <1>3, <2>1, AppendItems
    <3> QED
      BY <2>1, <3>1, <3>2, <3>3, Zenon
  <2>2. CASE ~StoreObservation(c) /\ observations' = observations
    BY <2>2, Zenon
  <2> QED
    BY <1>1, <2>1, <2>2
<1>6. /\ \A i \in DOMAIN conditions :
            i \in DOMAIN conditions' /\ conditions'[i] = conditions[i]
      /\ \A i \in DOMAIN conditions' :
            i \in DOMAIN conditions \/ (StoreCondition(c) /\ conditions'[i] = r)
      /\ StoreCondition(c) => \E i \in DOMAIN conditions' : conditions'[i] = r
  <2>1. CASE StoreCondition(c) /\ conditions' = Append(conditions, r)
    <3>1. \A i \in DOMAIN conditions :
             i \in DOMAIN conditions' /\ conditions'[i] = conditions[i]
      BY <1>3, <2>1, AppendItems
    <3>2. \A i \in DOMAIN conditions' : i \in DOMAIN conditions \/ conditions'[i] = r
      BY <1>3, <2>1, AppendItems
    <3>3. \E i \in DOMAIN conditions' : conditions'[i] = r
      BY <1>3, <2>1, AppendItems
    <3> QED
      BY <2>1, <3>1, <3>2, <3>3, Zenon
  <2>2. CASE ~StoreCondition(c) /\ conditions' = conditions
    BY <2>2, Zenon
  <2> QED
    BY <1>2, <2>1, <2>2
<1>7. \A t : Cites(observations, t) \subseteq Cites(observations', t)
  BY <1>5 DEF Cites
<1>8. Ids \subseteq Ids'
  BY <1>5 DEF Ids
<1> QED
  BY <1>4, <1>5, <1>6, <1>7, <1>8 DEF o, r

LEMMA NextRows ==
    ASSUME TypeInv, TypeInv', RowsInv, NEW c \in Calls, CallStep(c)
    PROVE  RowsInv'
<1>1. ASSUME NEW d \in Calls, job[d].step # "new"
      PROVE  job'[d].step # "new" /\ job'[d].task = job[d].task /\ job'[d].tool = job[d].tool
  BY <1>1, CallFrame
<1>2. ASSUME NEW i \in DOMAIN observations'
      PROVE  LET o == observations'[i] IN
             job'[o.call].step # "new" /\ o.task = job'[o.call].task
  <2>1. CASE i \in DOMAIN observations
    <3>1. observations'[i] = observations[i] /\ observations[i].call \in Calls
      BY <2>1, RowsGrow, RowTypes DEF ObservationRow
    <3> QED
      BY <1>1, <2>1, <3>1 DEF RowsInv
  <2>2. CASE i \notin DOMAIN observations
    <3>1. /\ StoreObservation(c)
          /\ observations'[i] = [id |-> ObservationId(job[c]), task |-> job[c].task,
                                 call |-> c, finding |-> job[c].found]
      BY <1>2, <2>2, RowsGrow
    <3>2. job[c].step # "new"
      BY <3>1 DEF StoreObservation
    <3> QED
      BY <1>1, <3>1, <3>2
  <2> QED
    BY <2>1, <2>2
<1>3. ASSUME NEW i \in DOMAIN conditions'
      PROVE  LET r == conditions'[i] IN
             /\ job'[r.call].step # "new" /\ r.task = job'[r.call].task
             /\ job'[r.call].tool = "inspect_place"
  <2>1. CASE i \in DOMAIN conditions
    <3>1. conditions'[i] = conditions[i] /\ conditions[i].call \in Calls
      BY <2>1, RowsGrow, RowTypes DEF ConditionRow
    <3> QED
      BY <1>1, <2>1, <3>1 DEF RowsInv
  <2>2. CASE i \notin DOMAIN conditions
    <3>1. StoreCondition(c) /\ conditions'[i] = ConditionResult(job[c].task, c)
      BY <1>3, <2>2, RowsGrow
    <3>2. job[c].step = "store" /\ ~Capturing(job[c])
      BY <3>1 DEF StoreCondition
    <3>3. conditions'[i].task = job[c].task /\ conditions'[i].call = c
      BY <3>1 DEF ConditionResult
    <3>4. job[c].tool = "inspect_place"
      <4>1. job[c] \in Job /\ AtWork(job[c])
        BY <3>2 DEF TypeInv, StepInv, Working
      <4>2. Len(Captures(job[c])) \in Nat /\ Len(Questions(job[c])) \in Nat /\ job[c].done \in Nat
        BY <4>1, PlanParts DEF Job
      <4>3. job[c].tool # "capture_evidence"
        BY <3>2, <4>1, <4>2 DEF AtWork, Capturing
      <4> QED
        BY <4>1, <4>3 DEF AtWork, Supervised
    <3> QED
      BY <1>1, <3>2, <3>3, <3>4
  <2> QED
    BY <2>1, <2>2
<1> QED
  BY <1>2, <1>3 DEF RowsInv

\* What a step adds to a call's evidence, or to its reply, is stored.
LEMMA CallCites ==
    ASSUME TypeInv, TypeInv', CitedInv, NEW c \in Calls, CallStep(c)
    PROVE  /\ job'[c].taken \subseteq Cites(observations', job'[c].task)
           /\ job'[c].reply.evidence \subseteq Cites(observations', job'[c].task)
<1>0. /\ job \in [Calls -> Job] /\ job[c] \in Job /\ StepInv(job[c])
      /\ job[c].taken \subseteq Cites(observations, job[c].task)
      /\ job[c].reply.evidence \subseteq Cites(observations, job[c].task)
      /\ \A t : Cites(observations, t) \subseteq Cites(observations', t)
  BY RowsGrow DEF TypeInv, CitedInv
<1>1. ASSUME job'[c].task = job[c].task, job'[c].taken \subseteq job[c].taken,
             \/ job'[c].reply.evidence \subseteq job[c].reply.evidence
             \/ job'[c].reply.evidence \subseteq job[c].taken
      PROVE  /\ job'[c].taken \subseteq Cites(observations', job'[c].task)
             /\ job'[c].reply.evidence \subseteq Cites(observations', job'[c].task)
  <2>1. Cites(observations, job[c].task) \subseteq Cites(observations', job'[c].task)
    BY <1>0, <1>1
  <2> QED
    BY <1>0, <1>1, <2>1
<1>2. CASE \/ Begin(c) \/ Reject(c) \/ InspectUnknownProfile(c) \/ ResolveTarget(c)
  <2>1. NoReply.evidence = {}
    BY DEF NoReply, Reply
  <2>2. job'[c].taken = {} /\ job'[c].reply.evidence = {}
    BY <1>2, <2>1, BeginEffect, RejectEffect, ResolveEffect
  <2> QED
    BY <2>2
<1>3. CASE VerifyCondition(c)
  <2>1. CASE job'[c].reply.evidence = {}
    BY <1>3, <2>1, VerifyEffect
  <2>2. CASE job'[c].reply.evidence # {}
    <3>1. PICK i \in DOMAIN conditions :
             /\ conditions[i].task = job'[c].task
             /\ job'[c].reply.evidence = conditions[i].evidence
      BY <1>3, <2>2, VerifyEffect
    <3>2. conditions[i].evidence \subseteq Cites(observations, job'[c].task)
      BY <3>1 DEF CitedInv
    <3>3. Cites(observations, job'[c].task) \subseteq Cites(observations', job'[c].task)
      BY <1>0
    <3> QED
      BY <1>3, <3>1, <3>2, <3>3, VerifyEffect
  <2> QED
    BY <2>1, <2>2
<1>4. CASE SummarizeTask(c)
  <2>1. job[c] = NewJob
    BY <1>0, <1>4 DEF SummarizeTask, StepInv
  <2>2. job'[c].taken = job[c].taken /\ job'[c].reply = job[c].reply
    BY <1>0, <1>4 DEF SummarizeTask, Job
  <2>3. job'[c].taken = {} /\ job'[c].reply.evidence = {}
    BY <2>1, <2>2 DEF NewJob, NoReply, Reply
  <2> QED
    BY <2>3
<1>5. CASE \/ RunnerReads(c) \/ RunnerWrites(c) \/ WritePictures(c) \/ WriteDepths(c)
           \/ ReadRow(c) \/ Analyze(c)
  <2>1. job'[c].taken = job[c].taken /\ job'[c].reply = job[c].reply /\ job'[c].task = job[c].task
    BY <1>0, <1>5 DEF RunnerReads, RunnerWrites, WritePictures, WriteDepths, ReadRow, Analyze,
                      Goto, Job
  <2> QED
    BY <1>1, <2>1
<1>6. CASE CameraRaises(c) \/ VlmRaises(c) \/ InsertRaises(c)
  <2>1. job'[c] = Answered(job[c], Reply("raised", {}, "none"))
    BY <1>0, <1>6 DEF CameraRaises, VlmRaises, InsertRaises, Replies
  <2>2. job'[c].taken = {} /\ job'[c].reply = Reply("raised", {}, "none")
    BY <1>0, <2>1, AnsweredFields
  <2>3. Reply("raised", {}, "none").evidence = {}
    BY DEF Reply
  <2> QED
    BY <2>2, <2>3
<1>7. CASE WriteRow(c)
  <2>1. job'[c] = Answered(job[c], ResolutionReply(job[c]))
    BY <1>0, <1>7 DEF WriteRow
  <2>2. job'[c].taken = {} /\ job'[c].reply = ResolutionReply(job[c])
    BY <1>0, <2>1, AnsweredFields
  <2>3. ResolutionReply(job[c]).evidence = {}
    BY DEF ResolutionReply, Reply
  <2> QED
    BY <2>2, <2>3
<1>8. CASE ListEvidence(c)
  <2> DEFINE reply == Reply("success", Cites(observations, job[c].task), job[c].seen.target)
  <2>1. job'[c] = Answered(job[c], reply)
    BY <1>0, <1>8, EvidenceIsCited DEF ListEvidence
  <2>2. reply.evidence = Cites(observations, job[c].task)
    BY DEF Reply
  <2> HIDE DEF reply
  <2>3. job'[c].taken = {} /\ job'[c].reply = reply /\ job'[c].task = job[c].task
    BY <1>0, <2>1, AnsweredFields
  <2>4. Cites(observations, job[c].task) \subseteq Cites(observations', job'[c].task)
    BY <1>0, <2>3
  <2> QED
    BY <2>2, <2>3, <2>4
<1>9. CASE Finish(c)
  <2>1. PICK status, outcome : job'[c] = Answered(job[c], Reply(status, job[c].taken, outcome))
    BY <1>0, <1>9 DEF Finish, Replies
  <2>2. job'[c].taken = {} /\ job'[c].reply = Reply(status, job[c].taken, outcome)
        /\ job'[c].task = job[c].task
    BY <1>0, <2>1, AnsweredFields
  <2>3. Reply(status, job[c].taken, outcome).evidence = job[c].taken
    BY DEF Reply
  <2> QED
    BY <1>1, <2>2, <2>3
<1>10. CASE StoreObservation(c) \/ StoreCondition(c)
  <2>1. PICK taken \in SUBSET ObservationKey :
           /\ Continue(c, Stored(job[c], taken))
           /\ taken \subseteq Cites(observations', job[c].task)
    <3>1. CASE StoreObservation(c)
      <4>1. AtWork(job[c]) /\ job[c].step = "store"
        BY <1>0, <3>1 DEF StoreObservation, StepInv, Working
      <4>2. ObservationId(job[c]) \in ObservationKey
        BY <1>0, <3>1, <4>1, KeyType DEF StoreObservation
      <4>3. ObservationId(job[c]) \in Cites(observations', job[c].task)
        <5>1. PICK n \in DOMAIN observations' :
                 observations'[n].id = ObservationId(job[c])
                 /\ observations'[n].task = job[c].task
          BY <3>1, RowsGrow
        <5> QED
          BY <5>1 DEF Cites
      <4> QED
        BY <3>1, <4>2, <4>3 DEF StoreObservation
    <3>2. CASE StoreCondition(c)
      BY <3>2 DEF StoreCondition
    <3> QED
      BY <1>10, <3>1, <3>2
  <2> DEFINE s == Stored(job[c], taken)
  <2>2. AtWork(job[c]) /\ job[c].step = "store"
    BY <1>0, <1>10 DEF StoreObservation, StoreCondition, StepInv, Working
  <2>3. s.taken = job[c].taken \union taken /\ s.task = job[c].task /\ s.reply = job[c].reply
        /\ s \in Job
    BY <1>0, <2>2, StoredType DEF Stored, Job
  <2>4. job'[c] = [s EXCEPT !.step = NextStep(s)]
    BY <1>0, <2>1 DEF Continue
  <2> HIDE DEF s
  <2>5. job'[c].taken = job[c].taken \union taken /\ job'[c].task = job[c].task
        /\ job'[c].reply = job[c].reply
    BY <2>3, <2>4 DEF Job
  <2>6. Cites(observations, job[c].task) \subseteq Cites(observations', job[c].task)
    BY <1>0
  <2> QED
    BY <1>0, <2>1, <2>5, <2>6
<1>11. CASE Retry(c)
  <2> DEFINE s == [job[c] EXCEPT !.attempt = @ + 1, !.done = 0, !.taken = {}, !.doubt = FALSE,
                                 !.found = NoFinding]
  <2>1. job'[c] = [s EXCEPT !.step = NextStep(s)]
    BY <1>0, <1>11 DEF Retry, Continue
  <2>2. job'[c].taken = {} /\ job'[c].task = job[c].task /\ job'[c].reply = job[c].reply
    BY <1>0, <2>1 DEF Job
  <2> QED
    BY <1>1, <2>2
<1> QED
  BY <1>2, <1>3, <1>4, <1>5, <1>6, <1>7, <1>8, <1>9, <1>10, <1>11 DEF CallStep

LEMMA NextCited ==
    ASSUME TypeInv, TypeInv', CitedInv, NEW c \in Calls, CallStep(c)
    PROVE  CitedInv'
<1>1. \A t : Cites(observations, t) \subseteq Cites(observations', t)
  BY RowsGrow
<1>2. ASSUME NEW i \in DOMAIN conditions'
      PROVE  conditions'[i].evidence \subseteq Cites(observations', conditions'[i].task)
  <2>1. CASE i \in DOMAIN conditions
    <3>1. conditions'[i] = conditions[i]
      BY <2>1, RowsGrow
    <3>2. conditions[i].evidence \subseteq Cites(observations, conditions[i].task)
      BY <2>1 DEF CitedInv
    <3>3. Cites(observations, conditions[i].task)
             \subseteq Cites(observations', conditions'[i].task)
      BY <1>1, <3>1
    <3> QED
      BY <3>1, <3>2, <3>3
  <2>2. CASE i \notin DOMAIN conditions
    <3>1. conditions'[i] = ConditionResult(job[c].task, c)
      BY <1>2, <2>2, RowsGrow
    <3>2. conditions'[i].evidence = job[c].taken /\ conditions'[i].task = job[c].task
      BY <3>1 DEF ConditionResult
    <3>3. job[c].taken \subseteq Cites(observations, job[c].task)
      BY DEF CitedInv
    <3>4. Cites(observations, job[c].task) \subseteq Cites(observations', conditions'[i].task)
      BY <1>1, <3>2
    <3> QED
      BY <3>2, <3>3, <3>4
  <2> QED
    BY <2>1, <2>2
<1>3. ASSUME NEW d \in Calls
      PROVE  /\ job'[d].taken \subseteq Cites(observations', job'[d].task)
             /\ job'[d].reply.evidence \subseteq Cites(observations', job'[d].task)
  <2>1. CASE d = c
    BY <2>1, CallCites
  <2>2. CASE d # c
    <3>1. job'[d] = job[d]
      BY <2>2, CallFrame
    <3>2. job[d].taken \subseteq Cites(observations, job[d].task)
          /\ job[d].reply.evidence \subseteq Cites(observations, job[d].task)
      BY DEF CitedInv
    <3>3. Cites(observations, job[d].task) \subseteq Cites(observations', job'[d].task)
      BY <1>1, <3>1
    <3> QED
      BY <3>1, <3>2, <3>3
  <2> QED
    BY <2>1, <2>2
<1> QED
  BY <1>2, <1>3 DEF CitedInv

\* The source of a verdict, of any call.
Sourced(j, table, calls) ==
    \E i \in DOMAIN table :
        /\ calls[table[i].call].tool = "inspect_place"
        /\ table[i].task = j.task
        /\ table[i].target = j.request.about
        /\ table[i].finding.outcome = j.reply.outcome
        /\ j.request.wanted \subseteq table[i].evidence
        /\ j.reply.evidence = table[i].evidence

LEMMA NextVerdict ==
    ASSUME TypeInv, TypeInv', RowsInv, VerdictInv, NEW c \in Calls, CallStep(c)
    PROVE  VerdictInv'
<1>1. ASSUME NEW j, Sourced(j, conditions, job)
      PROVE  Sourced(j, conditions', job')
  <2>1. PICK i \in DOMAIN conditions :
           /\ job[conditions[i].call].tool = "inspect_place"
           /\ conditions[i].task = j.task
           /\ conditions[i].target = j.request.about
           /\ conditions[i].finding.outcome = j.reply.outcome
           /\ j.request.wanted \subseteq conditions[i].evidence
           /\ j.reply.evidence = conditions[i].evidence
    BY <1>1 DEF Sourced
  <2>2. i \in DOMAIN conditions' /\ conditions'[i] = conditions[i]
    BY RowsGrow
  <2>3. conditions[i].call \in Calls /\ job[conditions[i].call].step # "new"
    BY RowTypes DEF RowsInv, ConditionRow
  <2>4. job'[conditions[i].call].tool = "inspect_place"
    BY <2>1, <2>3, CallFrame
  <2> QED
    BY <2>1, <2>2, <2>4 DEF Sourced
<1>2. ASSUME NEW d \in Calls, job'[d].tool = "verify_condition"
      PROVE  /\ job'[d].step = "replied"
             /\ job'[d].reply.status = "success" => Sourced(job'[d], conditions', job')
  <2>1. CASE job'[d] = job[d]
    <3>1. job[d].step = "replied"
          /\ (job[d].reply.status = "success" => Sourced(job[d], conditions, job))
      BY <1>2, <2>1 DEF VerdictInv, VerdictHasSource, Sourced
    <3> QED
      BY <1>1, <2>1, <3>1
  <2>2. CASE job'[d] # job[d]
    <3>1. d = c
      BY <2>2, CallFrame
    <3>2. job[c].step = "new"
      BY <1>2, <3>1, CallFrame, RepliedIsFinal DEF VerdictInv
    <3>3. \/ Begin(c) \/ Reject(c) \/ InspectUnknownProfile(c) \/ VerifyCondition(c)
          \/ ResolveTarget(c) \/ SummarizeTask(c)
      <4>1. StepInv(job[c]) /\ NewJob.tool \notin Supervised
        BY DEF TypeInv, NewJob, Supervised
      <4> QED
        BY <3>2, <4>1 DEF StepInv, CallStep, RunnerReads, RunnerWrites, CameraRaises,
           WritePictures, WriteDepths, VlmRaises, Analyze, InsertRaises, StoreObservation,
           StoreCondition, Retry, Finish, ReadRow, WriteRow, ListEvidence
    <3>4. CASE Reject(c) \/ InspectUnknownProfile(c)
      BY <3>1, <3>4, RejectEffect
    <3>5. CASE VerifyCondition(c)
      <4>1. job'[c].step = "replied"
        BY <3>5, VerifyEffect
      <4>2. ASSUME job'[c].reply.status = "success"
            PROVE  Sourced(job'[c], conditions', job')
        <5>1. PICK i \in DOMAIN conditions :
                 /\ conditions[i].task = job'[c].task
                 /\ conditions[i].target = job'[c].request.about
                 /\ conditions[i].finding.outcome = job'[c].reply.outcome
                 /\ job'[c].request.wanted \subseteq conditions[i].evidence
                 /\ job'[c].reply.evidence = conditions[i].evidence
          BY <3>5, <4>2, VerifyEffect
        <5>2. job[conditions[i].call].tool = "inspect_place"
          BY DEF RowsInv
        <5>3. Sourced(job'[c], conditions, job)
          BY <5>1, <5>2 DEF Sourced
        <5> QED
          BY <1>1, <5>3
      <4> QED
        BY <3>1, <4>1, <4>2
    <3>6. CASE Begin(c) \/ ResolveTarget(c) \/ SummarizeTask(c)
      <4>1. SummarizeTask(c) => job'[c].tool = "summarize_task"
        BY DEF SummarizeTask, TypeInv, Job
      <4> QED
        BY <1>2, <3>1, <3>6, <4>1, BeginEffect, ResolveEffect DEF Supervised
    <3> QED
      BY <3>3, <3>4, <3>5, <3>6
  <2> QED
    BY <2>1, <2>2
<1> QED
  BY <1>2 DEF VerdictInv, VerdictHasSource, Sourced

OwnInv == RowsInv /\ CitedInv /\ VerdictInv

LEMMA InitOwn == Init => OwnInv
<1> SUFFICES ASSUME Init PROVE OwnInv
  OBVIOUS
<1>1. /\ DOMAIN observations = {} /\ DOMAIN conditions = {}
      /\ \A c \in Calls : job[c] = NewJob
  BY DEF Init
<1>2. /\ NewJob.tool = "none" /\ NewJob.taken = {} /\ NewJob.reply.evidence = {}
  BY DEF NewJob, NoReply, Reply
<1> QED
  BY <1>1, <1>2 DEF OwnInv, RowsInv, CitedInv, VerdictInv, VerdictHasSource

LEMMA NextOwn ==
    ASSUME TypeInv, TypeInv', OwnInv, [Next]_vars
    PROVE  OwnInv'
<1>1. ASSUME NEW c \in Calls, CallStep(c)
      PROVE  OwnInv'
  BY <1>1, NextRows, NextCited, NextVerdict DEF OwnInv
<1>2. CASE UNCHANGED <<job, observations, conditions>>
  BY <1>2 DEF OwnInv, RowsInv, CitedInv, VerdictInv, VerdictHasSource
<1> QED
  BY <1>1, <1>2 DEF Next, NewInstruction, InstructionEnds, stored, vars

LEMMA OwnInvariant == Spec => []OwnInv
<1>1. Init => OwnInv
  BY InitOwn
<1>2. TypeInv /\ TypeInv' /\ OwnInv /\ [Next]_vars => OwnInv'
  BY NextOwn
<1> QED
  BY <1>1, <1>2, TypeInvariant, PTL DEF Spec

\* A row belongs to the instruction its call was made for, however many
\* threads outlive theirs (the handlers take the task from _require_task
\* once, as the tool is called).
THEOREM RowsStayInTask == Spec => []RowsOfOneTask
<1>1. OwnInv => RowsOfOneTask
  BY DEF OwnInv, RowsInv, RowsOfOneTask
<1> QED
  BY <1>1, OwnInvariant, PTL

\* No verdict and no reply cites an observation that is not stored under its
\* own task (capture_evidence, inspect_place, summarize_task).
THEOREM CitationsStored == Spec => []EvidenceIsStored
<1>1. OwnInv => EvidenceIsStored
  BY EvidenceIsCited DEF OwnInv, CitedInv, EvidenceIsStored
<1> QED
  BY <1>1, OwnInvariant, PTL

\* verify_condition reports only what an inspection of the same task found
\* for the same target (verify_condition, handlers.py).
THEOREM VerdictsHaveSource == Spec => []VerdictHasSource
<1>1. OwnInv => VerdictHasSource
  BY DEF OwnInv, VerdictInv
<1> QED
  BY <1>1, OwnInvariant, PTL

===============================================================================
