--------------------------- MODULE PerceptionProofs ---------------------------
(***************************************************************************)
(* More proofs about Instructions, over the types and the effects of the   *)
(* steps that InstructionsProofs establishes: the files behind the         *)
(* observations, the retry of a capture, the answers of resolve_target,    *)
(* the target on a task row, and what stands behind a success.             *)
(***************************************************************************)
EXTENDS InstructionsProofs

\* How a step of a call moves it on: what it leaves in the place it comes to.
LEMMA StepFlow ==
    ASSUME TypeInv, NEW c \in Calls, CallStep(c)
    PROVE  /\ job'[c].step = "depth" => WritePictures(c) \/ job[c].step = "depth"
           /\ job'[c].step = "analyze" =>
                 WriteDepths(c) \/ job[c].step = "analyze" \/ adapter # "real"
           /\ job'[c].step = "store" => job[c].step \in {"analyze", "store"}
<1>0. job \in [Calls -> Job] /\ job[c] \in Job /\ job[c].step = "new" => job[c] = NewJob
  BY DEF TypeInv, StepInv
<1>1. CASE Begin(c)
  <2>1. job'[c].step \in {"finish", "camera", "analyze"}
        /\ (job'[c].step = "analyze" => adapter # "real")
    BY <1>1, BeginEffect DEF NextStep
  <2> QED
    BY <2>1
<1>2. CASE \/ Reject(c) \/ InspectUnknownProfile(c) \/ VerifyCondition(c)
           \/ ResolveTarget(c)
  BY <1>2, RejectEffect, VerifyEffect, ResolveEffect
<1>3. CASE SummarizeTask(c)
  BY <1>3 DEF SummarizeTask, TypeInv, Job
<1>4. CASE \/ CameraRaises(c) \/ VlmRaises(c) \/ InsertRaises(c) \/ Finish(c)
           \/ WriteRow(c) \/ ListEvidence(c)
  <2>1. \E reply : job' = [job EXCEPT ![c] = Answered(job[c], reply)]
    BY <1>4 DEF CameraRaises, VlmRaises, InsertRaises, Finish, WriteRow, ListEvidence, Replies
  <2>2. job'[c].step = "replied"
    BY <2>1 DEF Answered, TypeInv, Job
  <2> QED
    BY <2>2
<1>5. CASE \/ RunnerReads(c) \/ RunnerWrites(c) \/ WritePictures(c) \/ WriteDepths(c)
           \/ ReadRow(c) \/ Analyze(c)
  BY <1>5 DEF RunnerReads, RunnerWrites, WritePictures, WriteDepths, ReadRow, Analyze, Goto,
              TypeInv, Job
<1>6. CASE StoreObservation(c) \/ StoreCondition(c) \/ Retry(c)
  <2>1. PICK j : job' = [job EXCEPT ![c] = [j EXCEPT !.step = NextStep(j)]]
    BY <1>6 DEF StoreObservation, StoreCondition, Retry, Continue
  <2>2. job'[c] = [j EXCEPT !.step = NextStep(j)] /\ job'[c] \in Job
    BY <1>6, <2>1, StoreTypes, RetryTypes DEF TypeInv
  <2>3. job'[c].step = NextStep(j)
    BY <2>2 DEF Job
  <2>4. NextStep(j) \in {"finish", "camera", "analyze"}
        /\ (NextStep(j) = "analyze" => adapter # "real")
    BY DEF NextStep
  <2> QED
    BY <2>3, <2>4
<1> QED
  BY <1>1, <1>2, <1>3, <1>4, <1>5, <1>6 DEF CallStep

-------------------------------------------------------------------------------
\* A call past its pictures has them, and past its depths has both, in the
\* directory of its task; so has a task with an observation.
Written(dir, name) == [dir |-> dir, name |-> name] \in files

FilesInv ==
    adapter = "real" =>
        /\ \A c \in Calls :
              /\ job[c].step \in {"depth", "analyze", "store"} => Written(job[c].task, "rgb")
              /\ job[c].step \in {"analyze", "store"} => Written(job[c].task, "depth")
        /\ \A i \in DOMAIN observations :
              Written(observations[i].task, "rgb") /\ Written(observations[i].task, "depth")

\* Files are only added.
LEMMA FilesGrow ==
    ASSUME NEW c \in Calls, CallStep(c)
    PROVE  /\ files \subseteq files'
           /\ WritePictures(c) => [dir |-> job[c].task, name |-> "rgb"] \in files'
           /\ WriteDepths(c) => [dir |-> job[c].task, name |-> "depth"] \in files'
BY DEF CallStep, Begin, Reject, InspectUnknownProfile, RunnerReads, RunnerWrites, CameraRaises,
       WritePictures, WriteDepths, VlmRaises, Analyze, InsertRaises, StoreObservation,
       StoreCondition, Retry, Finish, VerifyCondition, ResolveTarget, ReadRow, WriteRow,
       SummarizeTask, ListEvidence, OnlyCall, stored

LEMMA NextFiles ==
    ASSUME TypeInv, TypeInv', FilesInv, NEW c \in Calls, CallStep(c)
    PROVE  FilesInv'
<1> SUFFICES ASSUME adapter = "real"
             PROVE  /\ \A d \in Calls :
                          /\ job'[d].step \in {"depth", "analyze", "store"} =>
                                [dir |-> job'[d].task, name |-> "rgb"] \in files'
                          /\ job'[d].step \in {"analyze", "store"} =>
                                [dir |-> job'[d].task, name |-> "depth"] \in files'
                    /\ \A i \in DOMAIN observations' :
                          /\ [dir |-> observations'[i].task, name |-> "rgb"] \in files'
                          /\ [dir |-> observations'[i].task, name |-> "depth"] \in files'
  BY CallFrame DEF FilesInv, Written
<1>1. ASSUME NEW d \in Calls
      PROVE  /\ job'[d].step \in {"depth", "analyze", "store"} =>
                   [dir |-> job'[d].task, name |-> "rgb"] \in files'
             /\ job'[d].step \in {"analyze", "store"} =>
                   [dir |-> job'[d].task, name |-> "depth"] \in files'
  <2>1. CASE d # c
    BY <2>1, CallFrame, FilesGrow DEF FilesInv, Written
  <2>2. CASE d = c /\ job'[c].step \in {"depth", "analyze", "store"}
    <3>1. job[c].step \in {"camera", "depth", "analyze", "store"}
      BY <2>2, StepFlow DEF WritePictures, WriteDepths
    <3>2. job'[c].task = job[c].task
      BY <3>1, CallFrame
    <3> QED
      BY <2>2, <3>2, StepFlow, FilesGrow DEF WriteDepths, FilesInv, Written
  <2> QED
    BY <2>1, <2>2
<1>2. ASSUME NEW i \in DOMAIN observations'
      PROVE  /\ [dir |-> observations'[i].task, name |-> "rgb"] \in files'
             /\ [dir |-> observations'[i].task, name |-> "depth"] \in files'
  <2>1. CASE i \in DOMAIN observations
    BY <2>1, RowsGrow, FilesGrow DEF FilesInv, Written
  <2>2. CASE i \notin DOMAIN observations
    <3>1. StoreObservation(c) /\ observations'[i].task = job[c].task
      BY <1>2, <2>2, RowsGrow
    <3> QED
      BY <3>1, FilesGrow DEF StoreObservation, FilesInv, Written
  <2> QED
    BY <2>1, <2>2
<1> QED
  BY <1>1, <1>2

-------------------------------------------------------------------------------
\* The id a call to capture_evidence stores, whatever the try.
KeyOf(j) ==
    [task |-> j.task, place |-> j.request.about, kind |-> Captures(j)[1].kind,
     profile |-> IF adapter = "real" THEN "any" ELSE Captures(j)[1].profile]

\* A capture that has come to its end has stored its id.  A retry exists only
\* of such a capture, never comes to that end again, and replies by raising.
TryInv(j, ids, key) ==
    /\ j.tool = "capture_evidence" /\ j.step = "finish" => key \in ids
    /\ j.attempt > 0 =>
          /\ j.tool = "capture_evidence" /\ key \in ids
          /\ \/ j.step \in {"camera", "depth", "analyze", "store"} /\ j.done = 0
             \/ j.step = "replied" /\ j.reply.status = "raised"

RetryInv == \A c \in Calls : TryInv(job[c], Ids, KeyOf(job[c]))

LEMMA FirstKey ==
    ASSUME NEW j, j.done = 0
    PROVE  ObservationId(j) = KeyOf(j)
BY DEF ObservationId, KeyOf, CaptureSpec

LEMMA SameKey ==
    ASSUME NEW j, NEW k, k.task = j.task, k.request = j.request
    PROVE  KeyOf(k) = KeyOf(j)
BY DEF KeyOf, Captures

\* A capture at work that has not come to its end has its one item before it.
LEMMA CaptureHasItem ==
    ASSUME NEW j \in Job, AtWork(j), j.tool = "capture_evidence"
    PROVE  /\ j.step # "finish" => j.done = 0 /\ Capturing(j)
           /\ j.done = 0 => NextStep(j) # "finish"
<1>1. j.done \in Nat /\ Len(Captures(j)) = 1 /\ Len(Questions(j)) = 0
  BY DEF Job, AtWork
<1> QED
  BY <1>1 DEF AtWork, Capturing, NextStep

LEMMA TryKept ==
    ASSUME TypeInv, TypeInv', RetryInv, NEW c \in Calls, CallStep(c)
    PROVE  TryInv(job'[c], Ids', KeyOf(job'[c]))
<1> DEFINE j == job[c]
           k == job'[c]
<1>0. /\ job \in [Calls -> Job] /\ j \in Job /\ k \in Job /\ StepInv(j) /\ StepInv(k)
      /\ Ids \subseteq Ids'
      /\ TryInv(j, Ids, KeyOf(j)) /\ j.attempt \in Nat
  <2>1. StepInv(job'[c])
    BY DEF TypeInv, StepInv, AtWork, Captures, Questions
  <2> QED
    BY <2>1, RowsGrow, PolicyLimitAssumption DEF TypeInv, RetryInv, Job
<1>1. CASE j.step = "new"
  <2>1. j.attempt = 0 /\ j.tool \notin Supervised
    BY <1>0, <1>1 DEF StepInv, NewJob, Supervised
  <2>2. k.attempt = 0 /\ ~(k.tool = "capture_evidence" /\ k.step = "finish")
    <3>1. CASE Begin(c)
      <4>1. k.attempt = 0 /\ k.done = 0 /\ k.step = NextStep(k)
        BY <3>1, BeginEffect
      <4>2. AtWork(k)
        BY <1>0, <4>1 DEF StepInv, NextStep, Working
      <4> QED
        BY <1>0, <4>1, <4>2, CaptureHasItem
    <3>2. CASE \/ Reject(c) \/ InspectUnknownProfile(c) \/ VerifyCondition(c)
               \/ ResolveTarget(c)
      BY <3>2, RejectEffect, VerifyEffect, ResolveEffect
    <3>3. CASE SummarizeTask(c)
      BY <1>0, <2>1, <3>3 DEF SummarizeTask, Job
    <3> QED
      BY <1>1, <2>1, <3>1, <3>2, <3>3 DEF CallStep, RunnerReads, RunnerWrites, CameraRaises,
         WritePictures, WriteDepths, VlmRaises, Analyze, InsertRaises, StoreObservation,
         StoreCondition, Retry, Finish, ReadRow, WriteRow, ListEvidence
  <2> QED
    BY <2>2 DEF TryInv
<1>2. CASE j.step # "new"
  <2>0. k.task = j.task /\ k.tool = j.tool /\ k.request = j.request /\ KeyOf(k) = KeyOf(j)
    BY <1>2, CallFrame, SameKey
  <2>1. CASE CameraRaises(c) \/ VlmRaises(c) \/ InsertRaises(c)
    <3>1. k = Answered(j, Reply("raised", {}, "none"))
      BY <1>0, <2>1 DEF CameraRaises, VlmRaises, InsertRaises, Replies
    <3>2. k.step = "replied" /\ k.reply.status = "raised" /\ k.attempt = j.attempt
      BY <1>0, <3>1, AnsweredFields DEF Reply
    <3> QED
      BY <1>0, <2>0, <3>2 DEF TryInv
  <2>2. CASE RunnerReads(c) \/ RunnerWrites(c) \/ WritePictures(c) \/ WriteDepths(c) \/ Analyze(c)
    <3>1. /\ k.attempt = j.attempt /\ k.done = j.done /\ k.reply = j.reply
          /\ \/ k.step = j.step
             \/ /\ k.step \in {"depth", "analyze", "store"}
                /\ j.step \in {"camera", "depth", "analyze"}
      BY <1>0, <2>2 DEF RunnerReads, RunnerWrites, WritePictures, WriteDepths, Analyze, Goto, Job
    <3> QED
      BY <1>0, <2>0, <3>1 DEF TryInv
  <2>3. CASE Finish(c) \/ WriteRow(c) \/ ListEvidence(c)
    <3>1. \E reply : k = Answered(j, reply)
      BY <1>0, <2>3 DEF Finish, WriteRow, ListEvidence, Replies
    <3>2. j.attempt = 0
      BY <1>0, <2>3 DEF Finish, WriteRow, ListEvidence, TryInv
    <3>3. k.step = "replied" /\ k.attempt = 0
      BY <1>0, <3>1, <3>2, AnsweredFields
    <3> QED
      BY <3>3 DEF TryInv
  <2>4. CASE ReadRow(c)
    <3>1. k.step = "write" /\ k.attempt = j.attempt /\ j.step = "resolved"
      BY <1>0, <2>4 DEF ReadRow, Job
    <3>2. j.attempt = 0
      BY <1>0, <3>1 DEF TryInv
    <3> QED
      BY <3>1, <3>2 DEF TryInv
  <2>5. CASE StoreObservation(c) \/ StoreCondition(c)
    <3>1. j.step = "store" /\ AtWork(j)
      BY <1>0, <2>5 DEF StoreObservation, StoreCondition, StepInv, Working
    <3>2. PICK taken : k = [Stored(j, taken) EXCEPT !.step = NextStep(Stored(j, taken))]
      BY <1>0, <2>5 DEF StoreObservation, StoreCondition, Continue
    <3>3. k.attempt = j.attempt
      BY <1>0, <3>2 DEF Stored, Job
    <3>4. j.tool = "capture_evidence" =>
             StoreObservation(c) /\ ObservationId(j) = KeyOf(j) /\ KeyOf(j) \notin Ids
      BY <1>0, <2>5, <3>1, CaptureHasItem, FirstKey DEF StoreObservation, StoreCondition
    <3>5. j.attempt = 0
      BY <1>0, <3>4 DEF TryInv
    <3>6. j.tool = "capture_evidence" => KeyOf(j) \in Ids'
      <4> SUFFICES ASSUME j.tool = "capture_evidence" PROVE KeyOf(j) \in Ids'
        OBVIOUS
      <4>1. PICK i \in DOMAIN observations' : observations'[i].id = ObservationId(job[c])
        BY <3>4, RowsGrow
      <4> QED
        BY <3>4, <4>1 DEF Ids
    <3> QED
      BY <2>0, <3>3, <3>5, <3>6 DEF TryInv
  <2>6. CASE Retry(c)
    <3> DEFINE s == [j EXCEPT !.attempt = @ + 1, !.done = 0, !.taken = {}, !.doubt = FALSE,
                              !.found = NoFinding]
    <3>1. j.step = "finish" /\ AtWork(j)
      BY <1>0, <2>6 DEF Retry, StepInv, Working
    <3>2. j.tool = "capture_evidence"
      <4>1. OperationResult(j).retryable
        BY <2>6 DEF Retry, ShouldRetry
      <4>2. ~InspectionResult(j).retryable
        BY DEF InspectionResult, NoAdapter, Res
      <4> QED
        BY <3>1, <4>1, <4>2 DEF OperationResult, AtWork, Supervised
    <3>3. KeyOf(j) \in Ids'
      BY <1>0, <3>1, <3>2 DEF TryInv
    <3>4. s.done = 0 /\ s.request = j.request
          /\ \A step : [s EXCEPT !.step = step].step = step /\ [s EXCEPT !.step = step].done = 0
      BY <1>0 DEF Job
    <3>5. k = [s EXCEPT !.step = NextStep(s)]
      BY <1>0, <2>6 DEF Retry, Continue
    <3> HIDE DEF s
    <3>6. k.done = 0 /\ k.step = NextStep(k)
      <4>1. k.done = 0 /\ k.step = NextStep(s)
        BY <3>4, <3>5
      <4>2. Captures(k) = Captures(s) /\ Questions(k) = Questions(s)
        BY <2>0, <3>4 DEF Captures, Questions
      <4>3. NextStep(k) = NextStep(s)
        BY <3>4, <4>1, <4>2 DEF NextStep
      <4> QED
        BY <4>1, <4>3
    <3>7. k.step \in {"camera", "analyze"}
      <4>1. AtWork(k)
        BY <1>0, <3>6 DEF StepInv, NextStep, Working
      <4> QED
        BY <1>0, <2>0, <3>2, <3>6, <4>1, CaptureHasItem DEF NextStep
    <3> QED
      BY <2>0, <3>2, <3>3, <3>6, <3>7 DEF TryInv
  <2> QED
    BY <1>2, <2>1, <2>2, <2>3, <2>4, <2>5, <2>6 DEF CallStep, Begin, Reject,
       InspectUnknownProfile, VerifyCondition, ResolveTarget, SummarizeTask
<1> QED
  BY <1>1, <1>2

LEMMA NextRetry ==
    ASSUME TypeInv, TypeInv', RetryInv, NEW c \in Calls, CallStep(c)
    PROVE  RetryInv'
<1>1. \A d \in Calls : KeyOf(job[d])' = KeyOf(job'[d])
  BY CallFrame DEF KeyOf, Captures
<1>2. ASSUME NEW d \in Calls
      PROVE  TryInv(job'[d], Ids', KeyOf(job'[d]))
  <2>1. CASE d = c
    BY <2>1, TryKept
  <2>2. CASE d # c
    BY <2>2, CallFrame, RowsGrow DEF RetryInv, TryInv
  <2> QED
    BY <2>1, <2>2
<1> QED
  BY <1>1, <1>2 DEF RetryInv, TryInv

-------------------------------------------------------------------------------
\* A resolution that has replied gave the answer of the ranking.
AnswerInv ==
    \A c \in Calls :
        job[c].tool = "resolve_target" =>
            /\ job[c].request.lookup \in DOMAIN Lookups
            /\ job[c].step = "replied" => job[c].reply = ResolutionReply(job[c])
            /\ job[c].step # "replied" => job[c].reply = NoReply

LEMMA NextAnswer ==
    ASSUME TypeInv, TypeInv', AnswerInv, NEW c \in Calls, CallStep(c)
    PROVE  AnswerInv'
<1> SUFFICES ASSUME NEW d \in Calls, job'[d].tool = "resolve_target"
             PROVE  /\ job'[d].request.lookup \in DOMAIN Lookups
                    /\ job'[d].step = "replied" => job'[d].reply = ResolutionReply(job'[d])
                    /\ job'[d].step # "replied" => job'[d].reply = NoReply
  BY DEF AnswerInv, ResolutionReply, AnswerTo, Lookup
<1>1. CASE d # c
  BY <1>1, CallFrame DEF AnswerInv
<1>2. CASE d = c /\ job[c].step = "new"
  <2>1. ~Begin(c) /\ ~Reject(c) /\ ~InspectUnknownProfile(c) /\ ~VerifyCondition(c)
    BY <1>2, BeginEffect, RejectEffect, VerifyEffect DEF Supervised
  <2>2. ~SummarizeTask(c)
    <3>1. SummarizeTask(c) => job'[c].tool = "summarize_task"
      BY DEF SummarizeTask, TypeInv, Job
    <3> QED
      BY <1>2, <3>1
  <2>3. StepInv(job[c]) /\ NewJob.tool \notin Supervised
    BY DEF TypeInv, NewJob, Supervised
  <2>4. ResolveTarget(c)
    BY <1>2, <2>1, <2>2, <2>3 DEF StepInv, CallStep, RunnerReads, RunnerWrites, CameraRaises,
       WritePictures, WriteDepths, VlmRaises, Analyze, InsertRaises, StoreObservation,
       StoreCondition, Retry, Finish, ReadRow, WriteRow, ListEvidence
  <2> QED
    BY <1>2, <2>4, ResolveEffect
<1>3. CASE d = c /\ job[c].step # "new"
  <2>1. /\ job[c].tool = "resolve_target" /\ job'[c].request = job[c].request
        /\ ResolutionReply(job'[c]) = ResolutionReply(job[c])
    BY <1>3, CallFrame, SameAnswer
  <2>2. job[c].step \notin Working /\ job[c].step # "list"
    BY <2>1 DEF TypeInv, StepInv, AtWork, Supervised
  <2>3. ReadRow(c) \/ WriteRow(c)
    BY <1>3, <2>1, <2>2 DEF CallStep, Begin, Reject, InspectUnknownProfile, RunnerReads,
       RunnerWrites, CameraRaises, WritePictures, WriteDepths, VlmRaises, Analyze, InsertRaises,
       StoreObservation, StoreCondition, Retry, Finish, VerifyCondition, ResolveTarget,
       SummarizeTask, ListEvidence, Working, Supervised
  <2>4. CASE ReadRow(c)
    BY <1>3, <2>1, <2>4 DEF ReadRow, TypeInv, Job, AnswerInv
  <2>5. CASE WriteRow(c)
    <3>1. job'[c] = Answered(job[c], ResolutionReply(job[c])) /\ job[c] \in Job
      BY <2>5 DEF WriteRow, TypeInv
    <3> QED
      BY <1>3, <2>1, <3>1, AnsweredFields DEF AnswerInv
  <2> QED
    BY <2>3, <2>4, <2>5
<1> QED
  BY <1>1, <1>2, <1>3

-------------------------------------------------------------------------------
\* A resolution of the calls that accepted the target for the task.
Accepts(calls, task, target) ==
    \E c \in Calls :
        /\ calls[c].tool = "resolve_target" /\ calls[c].task = task
        /\ AnswerTo(calls[c]).status = "success"
        /\ AnswerTo(calls[c]).target = target

\* A call between its two halves of an update, or of a summary, holds a row.
Held(j) ==
    j.step \in {"write", "list"} \/ (j.tool \in Supervised /\ j.seen # Unread)

\* What is held, and may be written back over a newer row, was accepted too.
TargetInv ==
    /\ \A t \in Tasks : rows[t].target # "none" => Accepts(job, t, rows[t].target)
    /\ \A c \in Calls :
          Held(job[c]) /\ job[c].seen.target # "none" =>
              Accepts(job, job[c].task, job[c].seen.target)

LEMMA AcceptsKept ==
    ASSUME TypeInv, NEW c \in Calls, CallStep(c), NEW task, NEW target,
           Accepts(job, task, target)
    PROVE  Accepts(job', task, target)
<1>1. PICK d \in Calls : /\ job[d].tool = "resolve_target" /\ job[d].task = task
                         /\ AnswerTo(job[d]).status = "success"
                         /\ AnswerTo(job[d]).target = target
  BY DEF Accepts
<1>2. job[d].step # "new"
  BY <1>1 DEF TypeInv, StepInv, NewJob
<1>3. job'[d].tool = job[d].tool /\ job'[d].task = job[d].task
      /\ job'[d].request = job[d].request
  BY <1>2, CallFrame
<1>4. AnswerTo(job'[d]) = AnswerTo(job[d])
  BY <1>3, SameAnswer
<1> QED
  BY <1>1, <1>3, <1>4 DEF Accepts

\* What a call holds after a step it has just read, or held before.
LEMMA HeldEffect ==
    ASSUME TypeInv, NEW c \in Calls, CallStep(c), Held(job'[c])
    PROVE  \/ job'[c].task \in Tasks /\ job'[c].seen = rows[job'[c].task]
           \/ /\ Held(job[c]) /\ job'[c].seen = job[c].seen
              /\ job'[c].task = job[c].task
<1>0. job \in [Calls -> Job] /\ job[c] \in Job /\ StepInv(job[c])
  BY DEF TypeInv
<1>1. ~Begin(c)
  BY BeginEffect DEF Held, NextStep
<1>2. ~Reject(c) /\ ~InspectUnknownProfile(c) /\ ~VerifyCondition(c) /\ ~ResolveTarget(c)
  BY RejectEffect, VerifyEffect, ResolveEffect DEF Held
<1>3. CASE SummarizeTask(c)
  <2>1. 1..instructions \subseteq Tasks
    BY InstructionsAssumption DEF TypeInv, Tasks
  <2> QED
    BY <1>0, <1>3, <2>1 DEF SummarizeTask, Job
<1>4. ~(\/ CameraRaises(c) \/ VlmRaises(c) \/ InsertRaises(c) \/ Finish(c)
        \/ WriteRow(c) \/ ListEvidence(c))
  <2> SUFFICES ASSUME \/ CameraRaises(c) \/ VlmRaises(c) \/ InsertRaises(c) \/ Finish(c)
                      \/ WriteRow(c) \/ ListEvidence(c)
               PROVE  FALSE
    OBVIOUS
  <2>1. \E reply : job' = [job EXCEPT ![c] = Answered(job[c], reply)]
    BY DEF CameraRaises, VlmRaises, InsertRaises, Finish, WriteRow, ListEvidence, Replies
  <2>2. job'[c].step = "replied" /\ job'[c].seen = Unread
    BY <1>0, <2>1, AnsweredFields
  <2> QED
    BY <2>2 DEF Held
<1>5. CASE RunnerReads(c) \/ ReadRow(c)
  <2>1. job[c].task \in Tasks
    BY <1>0, <1>5, InstructionsAssumption
       DEF RunnerReads, ReadRow, StepInv, AtWork, Working, Job, Tasks
  <2> QED
    BY <1>0, <1>5, <2>1 DEF RunnerReads, ReadRow, Job
<1>6. CASE RunnerWrites(c)
  <2>1. job'[c].seen = Unread /\ job'[c].step = job[c].step /\ job[c].step \in Working
    BY <1>0, <1>6 DEF RunnerWrites, Job, StepInv
  <2> QED
    BY <2>1 DEF Held, Working
<1>7. CASE WritePictures(c) \/ WriteDepths(c) \/ Analyze(c)
  BY <1>0, <1>7 DEF WritePictures, WriteDepths, Analyze, Goto, Job, Held
<1>8. CASE StoreObservation(c) \/ StoreCondition(c) \/ Retry(c)
  <2>1. PICK j : /\ job' = [job EXCEPT ![c] = [j EXCEPT !.step = NextStep(j)]]
                 /\ j \in Job /\ j.seen = job[c].seen
                 /\ j.tool = job[c].tool /\ j.task = job[c].task
    <3>1. CASE StoreObservation(c) \/ StoreCondition(c)
      <4>1. PICK taken \in SUBSET ObservationKey : Continue(c, Stored(job[c], taken))
        <5>1. job[c].step = "store" /\ AtWork(job[c])
          BY <1>0, <3>1 DEF StoreObservation, StoreCondition, StepInv, Working
        <5>2. StoreObservation(c) => ObservationId(job[c]) \in ObservationKey
          BY <1>0, <5>1, KeyType DEF StoreObservation
        <5> QED
          BY <3>1, <5>2 DEF StoreObservation, StoreCondition
      <4>2. job[c].step = "store" /\ AtWork(job[c])
        BY <1>0, <3>1 DEF StoreObservation, StoreCondition, StepInv, Working
      <4>3. Stored(job[c], taken) \in Job
        BY <1>0, <4>2, StoredType
      <4>4. /\ Stored(job[c], taken).seen = job[c].seen
            /\ Stored(job[c], taken).tool = job[c].tool
            /\ Stored(job[c], taken).task = job[c].task
        BY <1>0 DEF Stored, Job
      <4> QED
        BY <4>1, <4>3, <4>4 DEF Continue
    <3>2. CASE Retry(c)
      <4> DEFINE s == [job[c] EXCEPT !.attempt = @ + 1, !.done = 0, !.taken = {},
                                     !.doubt = FALSE, !.found = NoFinding]
      <4>1. job[c].attempt + 1 \in 0..PolicyLimit
        BY <1>0, <3>2, PolicyLimitAssumption DEF Retry, ShouldRetry, Job
      <4>2. NoFinding \in AnyFinding
        BY DEF NoFinding, Finding, AnyFinding, Confidence
      <4>3. s \in Job /\ s.seen = job[c].seen /\ s.tool = job[c].tool /\ s.task = job[c].task
        BY <1>0, <4>1, <4>2 DEF Job
      <4>4. job' = [job EXCEPT ![c] = [s EXCEPT !.step = NextStep(s)]]
        BY <3>2 DEF Retry, Continue
      <4> HIDE DEF s
      <4> QED
        BY <4>3, <4>4
    <3> QED
      BY <1>8, <3>1, <3>2
  <2>2. job'[c] = [j EXCEPT !.step = NextStep(j)]
    BY <1>0, <2>1
  <2>3. NextStep(j) \notin {"write", "list"}
    BY DEF NextStep
  <2> QED
    BY <2>1, <2>2, <2>3 DEF Held, Job
<1> QED
  BY <1>1, <1>2, <1>3, <1>4, <1>5, <1>6, <1>7, <1>8 DEF CallStep

\* What a step writes to a row: nothing, what the call held, or what its
\* resolution accepted.
LEMMA RowEffect ==
    ASSUME TypeInv, NEW c \in Calls, CallStep(c), NEW t \in Tasks, rows'[t] # rows[t]
    PROVE  /\ job[c].task = t /\ job[c].step # "new" /\ Held(job[c])
           /\ \/ rows'[t].target = job[c].seen.target
              \/ /\ job[c].tool = "resolve_target" /\ AnswerTo(job[c]).status = "success"
                 /\ rows'[t].target = AnswerTo(job[c]).target
<1>0. rows \in [Tasks -> Row] /\ StepInv(job[c])
  BY DEF TypeInv
<1>1. RunnerWrites(c) \/ WriteRow(c)
  BY DEF CallStep, Begin, Reject, InspectUnknownProfile, RunnerReads, CameraRaises, WritePictures,
         WriteDepths, VlmRaises, Analyze, InsertRaises, StoreObservation, StoreCondition, Retry,
         Finish, VerifyCondition, ResolveTarget, ReadRow, SummarizeTask, ListEvidence, OnlyCall,
         stored
<1>2. CASE RunnerWrites(c)
  BY <1>0, <1>2 DEF RunnerWrites, Held, StepInv, Working
<1>3. CASE WriteRow(c)
  <2> DEFINE answer == AnswerTo(job[c])
  <2>1. job[c].step = "write" /\ rows' = [rows EXCEPT ![job[c].task] = Columns(job[c].seen, answer)]
    BY <1>3 DEF WriteRow
  <2>2. job[c].tool = "resolve_target" /\ job[c].request.lookup \in DOMAIN Lookups
    BY <1>0, <2>1 DEF StepInv
  <2>3. answer.target # "none" => answer.status = "success"
    BY DEF AnswerTo, Answer, Unknown, Accepted, Refused
  <2> HIDE DEF answer
  <2>4. job[c].task = t /\ rows'[t] = Columns(job[c].seen, answer)
    BY <1>0, <2>1
  <2>5. rows'[t].target = IF answer.target # "none" THEN answer.target ELSE job[c].seen.target
    BY <2>4 DEF Columns
  <2> QED
    BY <2>1, <2>2, <2>3, <2>4, <2>5 DEF answer, Held
<1> QED
  BY <1>1, <1>2, <1>3

LEMMA NextTarget ==
    ASSUME TypeInv, TypeInv', TargetInv, NEW c \in Calls, CallStep(c)
    PROVE  TargetInv'
<1>1. ASSUME NEW t \in Tasks, rows'[t].target # "none"
      PROVE  Accepts(job', t, rows'[t].target)
  <2>1. CASE rows'[t] = rows[t]
    BY <1>1, <2>1, AcceptsKept DEF TargetInv
  <2>2. CASE rows'[t] # rows[t]
    <3>1. Accepts(job, t, rows'[t].target)
      BY <1>1, <2>2, RowEffect DEF TargetInv, Accepts
    <3> QED
      BY <3>1, AcceptsKept
  <2> QED
    BY <2>1, <2>2
<1>2. ASSUME NEW d \in Calls, Held(job'[d]), job'[d].seen.target # "none"
      PROVE  Accepts(job', job'[d].task, job'[d].seen.target)
  <2>1. Accepts(job, job'[d].task, job'[d].seen.target)
    <3>1. CASE d = c
      BY <1>2, <3>1, HeldEffect DEF TargetInv
    <3>2. CASE d # c
      BY <1>2, <3>2, CallFrame DEF TargetInv
    <3> QED
      BY <3>1, <3>2
  <2> QED
    BY <2>1, AcceptsKept
<1>3. TargetInv' <=>
         /\ \A t \in Tasks : rows'[t].target # "none" => Accepts(job', t, rows'[t].target)
         /\ \A d \in Calls :
               Held(job'[d]) /\ job'[d].seen.target # "none" =>
                   Accepts(job', job'[d].task, job'[d].seen.target)
  BY DEF TargetInv, Accepts, AnswerTo, Lookup, Held
<1> QED
  BY <1>1, <1>2, <1>3

-------------------------------------------------------------------------------
PerceptionInv == FilesInv /\ RetryInv /\ AnswerInv /\ TargetInv

LEMMA InitPerception == Init => PerceptionInv
<1> SUFFICES ASSUME Init PROVE PerceptionInv
  OBVIOUS
<1>1. /\ DOMAIN observations = {} /\ \A c \in Calls : job[c] = NewJob
      /\ \A t \in Tasks : rows[t].target = "none"
  BY DEF Init, NoRow
<1>2. NewJob.tool = "none" /\ NewJob.step = "new" /\ NewJob.attempt = 0
  BY DEF NewJob
<1>3. FilesInv /\ RetryInv
  BY <1>1, <1>2 DEF FilesInv, RetryInv, TryInv
<1>4. AnswerInv /\ TargetInv
  BY <1>1, <1>2 DEF AnswerInv, TargetInv, Held, Supervised
<1> QED
  BY <1>3, <1>4 DEF PerceptionInv

LEMMA NextPerception ==
    ASSUME TypeInv, TypeInv', PerceptionInv, [Next]_vars
    PROVE  PerceptionInv'
<1>1. ASSUME NEW c \in Calls, CallStep(c)
      PROVE  PerceptionInv'
  BY <1>1, NextFiles, NextRetry, NextAnswer, NextTarget DEF PerceptionInv
<1>2. CASE UNCHANGED <<adapter, job, stored>>
  <2>1. FilesInv' /\ RetryInv'
    BY <1>2 DEF stored, PerceptionInv, FilesInv, Written, RetryInv, TryInv, KeyOf, Captures, Ids
  <2>2. AnswerInv' /\ TargetInv'
    BY <1>2 DEF stored, PerceptionInv, AnswerInv, ResolutionReply, AnswerTo, Lookup, TargetInv,
                Accepts, Held
  <2> QED
    BY <2>1, <2>2 DEF PerceptionInv
<1> QED
  BY <1>1, <1>2 DEF Next, NewInstruction, InstructionEnds, vars

LEMMA PerceptionInvariant == Spec => []PerceptionInv
<1>1. Init => PerceptionInv
  BY InitPerception
<1>2. TypeInv /\ TypeInv' /\ PerceptionInv /\ [Next]_vars => PerceptionInv'
  BY NextPerception
<1> QED
  BY <1>1, <1>2, TypeInvariant, PTL DEF Spec

\* Every task with an observation of the real adapter has its pictures and
\* its depths on disk: capture writes both before a row can be inserted, and
\* nothing removes them (adapters/perception.py).
THEOREM ArtifactsAreThere == Spec => []ArtifactsExist
<1>1. PerceptionInv => ArtifactsExist
  BY Zenon DEF PerceptionInv, FilesInv, Written, ArtifactsExist
<1> QED
  BY <1>1, PerceptionInvariant, PTL

\* A retry of a failed capture always ends in the IntegrityError of a second
\* row with one id: the retry of capture_evidence's step cannot succeed.
THEOREM RetriesRaise == Spec => []RetriedCaptureRaises
<1>1. PerceptionInv => RetriedCaptureRaises
  BY DEF PerceptionInv, RetryInv, TryInv, RetriedCaptureRaises
<1> QED
  BY <1>1, PerceptionInvariant, PTL

\* What resolve_target replies is the closest of the known targets it
\* searched, whatever names, aliases and similarities there are.
THEOREM ResolutionsAreBest == Spec => []ResolutionIsBest
<1>1. TypeInv /\ PerceptionInv => ResolutionIsBest
  <2> SUFFICES ASSUME TypeInv, PerceptionInv, NEW c \in Calls,
                      job[c].tool = "resolve_target", job[c].reply.status = "success"
               PROVE  LET t == job[c].reply.outcome
                          l == Lookup(job[c])
                          reached == Closeness(t, l.name)
                      IN  /\ t \in Searched(l.type)
                          /\ \A u \in Searched(l.type) : Closeness(u, l.name) <= reached
                          /\ reached = 100 \/ reached >= l.atLeast
                          /\ (reached = 100) = (AnswerTo(job[c]).mode = "exact")
    BY DEF ResolutionIsBest
  <2>1. job[c].request.lookup \in DOMAIN Lookups
        /\ job[c].reply = ResolutionReply(job[c])
    BY DEF PerceptionInv, AnswerInv, NoReply, Reply
  <2>2. Lookup(job[c]).name \in Labels
    BY <2>1, AnswerToType
  <2>3. AnswerTo(job[c]).status = "success" /\ job[c].reply.outcome = AnswerTo(job[c]).target
    BY <2>1 DEF ResolutionReply, Reply
  <2> QED
    BY <2>2, <2>3, AnswerIsClosest DEF AnswerTo
<1> QED
  BY <1>1, TypeInvariant, PerceptionInvariant, PTL

\* The target on a task row was accepted by a resolution made for that task,
\* although runners of other calls write back rows they read before
\* (_persist_resolution, update_task_status).
THEOREM TargetsWereAccepted == Spec => []TargetWasAccepted
<1>1. PerceptionInv => TargetWasAccepted
  BY DEF PerceptionInv, TargetInv, Accepts, TargetWasAccepted
<1> QED
  BY <1>1, PerceptionInvariant, PTL

-------------------------------------------------------------------------------
\* The items of a plan that a call has done have rows of its own: a capture an
\* observation it takes for evidence, a condition a verdict.
Covered(plan, done, c, pictures, verdicts, evidence) ==
    /\ \A n \in DOMAIN plan.captures :
          n =< done =>
              \E i \in DOMAIN pictures :
                  /\ pictures[i].call = c /\ pictures[i].id \in evidence
                  /\ pictures[i].id.kind = plan.captures[n].kind
    /\ \A n \in DOMAIN plan.conditions :
          Len(plan.captures) + n =< done =>
              \E i \in DOMAIN verdicts :
                  /\ verdicts[i].call = c
                  /\ verdicts[i].condition = plan.conditions[n].condition

Undoubted(c, table) ==
    \A i \in DOMAIN table : table[i].call = c => ~Doubts(table[i].finding)

Items(plan) == Len(plan.captures) + Len(plan.conditions)

\* A call at work has the rows of what it has done; it ends with all of it, and
\* unless it is a retry, which raises, it knows of every doubt its rows hold.
WorkInv(j, c, pictures, verdicts) ==
    /\ j.reply = NoReply
    /\ Covered(j.request.plan, j.done, c, pictures, verdicts, j.taken)
    /\ j.step = "finish" => j.done = Items(j.request.plan)
    /\ j.attempt = 0 /\ ~j.doubt => Undoubted(c, pictures) /\ Undoubted(c, verdicts)
    /\ j.done = 0 => ~j.doubt
    /\ j.tool = "capture_evidence" /\ j.step = "finish" /\ j.doubt => Doubts(j.found)

SuccessInv(j, c, pictures, verdicts) ==
    /\ Covered(j.request.plan, Items(j.request.plan), c, pictures, verdicts, j.reply.evidence)
    /\ Undoubted(c, pictures) /\ Undoubted(c, verdicts)

CallInv(j, c, pictures, verdicts) ==
    /\ j.step \in Working => WorkInv(j, c, pictures, verdicts)
    /\ j.tool \in Supervised /\ j.reply.status = "success" =>
          SuccessInv(j, c, pictures, verdicts)

EvidenceInv == \A c \in Calls : CallInv(job[c], c, observations, conditions)

LEMMA CoverageGrows ==
    ASSUME TypeInv, TypeInv', NEW c \in Calls, CallStep(c),
           NEW d, NEW plan, NEW done, NEW evidence,
           Covered(plan, done, d, observations, conditions, evidence)
    PROVE  Covered(plan, done, d, observations', conditions', evidence)
<1>1. \A i \in DOMAIN observations :
         i \in DOMAIN observations' /\ observations'[i] = observations[i]
  BY RowsGrow
<1>2. \A i \in DOMAIN conditions :
         i \in DOMAIN conditions' /\ conditions'[i] = conditions[i]
  BY RowsGrow
<1> QED
  BY <1>1, <1>2 DEF Covered

\* A step of one call stores no row of another.
LEMMA DoubtsAreOwn ==
    ASSUME TypeInv, TypeInv', NEW c \in Calls, CallStep(c), NEW d, d # c
    PROVE  /\ Undoubted(d, observations) => Undoubted(d, observations')
           /\ Undoubted(d, conditions) => Undoubted(d, conditions')
<1>1. ASSUME NEW i \in DOMAIN observations', observations'[i].call = d
      PROVE  i \in DOMAIN observations /\ observations'[i] = observations[i]
  BY <1>1, RowsGrow
<1>2. ASSUME NEW i \in DOMAIN conditions', conditions'[i].call = d
      PROVE  i \in DOMAIN conditions /\ conditions'[i] = conditions[i]
  <2>1. ConditionResult(job[c].task, c).call = c
    BY DEF ConditionResult
  <2> QED
    BY <1>2, <2>1, RowsGrow
<1> QED
  BY <1>1, <1>2 DEF Undoubted

\* A call that moves on without storing keeps what it has.
LEMMA WorkKept ==
    ASSUME NEW c \in Calls, UNCHANGED <<observations, conditions>>,
           NEW j \in Job, NEW k \in Job, WorkInv(j, c, observations, conditions),
           k.reply = j.reply, k.request = j.request, k.done = j.done, k.taken = j.taken,
           k.attempt = j.attempt, k.doubt = j.doubt, k.tool = j.tool,
           k.step = "finish" => j.step = "finish" /\ k.found = j.found
    PROVE  WorkInv(k, c, observations', conditions')
BY DEF WorkInv

\* Storing an item covers it.
LEMMA StoreCovers ==
    ASSUME TypeInv, TypeInv', NEW c \in Calls, CallStep(c),
           NEW taken \in SUBSET ObservationKey,
           \/ StoreObservation(c) /\ taken = {ObservationId(job[c])}
           \/ StoreCondition(c) /\ taken = {},
           WorkInv(job[c], c, observations, conditions)
    PROVE  Covered(job[c].request.plan, job[c].done + 1, c, observations', conditions',
                   job[c].taken \union taken)
<1> DEFINE j == job[c]
           plan == job[c].request.plan
           evidence == job[c].taken \union taken
<1>1. /\ j \in Job /\ j.done \in Nat
      /\ plan.captures = Captures(j) /\ plan.conditions = Questions(j)
      /\ Len(Captures(j)) \in Nat /\ Len(Questions(j)) \in Nat
      /\ DOMAIN Captures(j) = 1..Len(Captures(j)) /\ DOMAIN Questions(j) = 1..Len(Questions(j))
  <2>1. j \in Job
    BY DEF TypeInv
  <2> QED
    BY <2>1, PlanParts, LenProperties DEF Job, Captures, Questions
<1>2. Covered(plan, j.done, c, observations', conditions', j.taken)
  BY CoverageGrows DEF WorkInv
<1>3. ASSUME NEW n \in DOMAIN plan.captures, n =< j.done + 1
      PROVE  \E i \in DOMAIN observations' :
                /\ observations'[i].call = c /\ observations'[i].id \in evidence
                /\ observations'[i].id.kind = plan.captures[n].kind
  <2>1. CASE n =< j.done
    BY <1>2, <2>1 DEF Covered
  <2>2. CASE n = j.done + 1
    <3>1. j.done < Len(Captures(j))
      BY <1>1, <2>2
    <3>2. StoreObservation(c) /\ taken = {ObservationId(j)}
      BY <3>1 DEF Capturing, StoreCondition
    <3>3. PICK i \in DOMAIN observations' : /\ observations'[i].id = ObservationId(j)
                                            /\ observations'[i].call = c
      BY <3>2, RowsGrow
    <3>4. ObservationId(j).kind = plan.captures[n].kind
      BY <1>1, <2>2 DEF ObservationId, CaptureSpec
    <3> QED
      BY <3>2, <3>3, <3>4
  <2> QED
    BY <1>1, <1>3, <2>1, <2>2
<1>4. ASSUME NEW n \in DOMAIN plan.conditions, Len(plan.captures) + n =< j.done + 1
      PROVE  \E i \in DOMAIN conditions' :
                /\ conditions'[i].call = c
                /\ conditions'[i].condition = plan.conditions[n].condition
  <2>1. CASE Len(plan.captures) + n =< j.done
    BY <1>2, <2>1 DEF Covered
  <2>2. CASE Len(plan.captures) + n = j.done + 1
    <3>0. n \in Nat /\ n >= 1 /\ Len(Captures(j)) + n = j.done + 1
      BY <1>1, <2>2
    <3>1. n = j.done + 1 - Len(Captures(j)) /\ ~(j.done < Len(Captures(j)))
      BY <1>1, <3>0
    <3>2. StoreCondition(c)
      BY <3>1 DEF Capturing, StoreObservation
    <3>3. PICK i \in DOMAIN conditions' : conditions'[i] = ConditionResult(j.task, c)
      BY <3>2, RowsGrow
    <3>4. conditions'[i].call = c /\ conditions'[i].condition = plan.conditions[n].condition
      BY <1>1, <3>1, <3>3 DEF ConditionResult, ConditionSpec
    <3> QED
      BY <3>4
  <2> QED
    BY <1>1, <1>4, <2>1, <2>2
<1> QED
  BY <1>3, <1>4 DEF Covered

\* A doubt about what is stored is remembered.
LEMMA StoreDoubts ==
    ASSUME TypeInv, TypeInv', NEW c \in Calls, CallStep(c),
           StoreObservation(c) \/ StoreCondition(c), ~Doubts(job[c].found),
           Undoubted(c, observations), Undoubted(c, conditions)
    PROVE  Undoubted(c, observations') /\ Undoubted(c, conditions')
<1>1. ASSUME NEW i \in DOMAIN observations', observations'[i].call = c
      PROVE  ~Doubts(observations'[i].finding)
  <2>1. CASE i \in DOMAIN observations
    BY <1>1, <2>1, RowsGrow DEF Undoubted
  <2>2. CASE i \notin DOMAIN observations
    <3>1. observations'[i].finding = job[c].found
      BY <2>2, RowsGrow
    <3> QED
      BY <3>1
  <2> QED
    BY <2>1, <2>2
<1>2. ASSUME NEW i \in DOMAIN conditions', conditions'[i].call = c
      PROVE  ~Doubts(conditions'[i].finding)
  <2>1. CASE i \in DOMAIN conditions
    BY <1>2, <2>1, RowsGrow DEF Undoubted
  <2>2. CASE i \notin DOMAIN conditions
    <3>1. conditions'[i] = ConditionResult(job[c].task, c)
      BY <2>2, RowsGrow
    <3>2. conditions'[i].finding = job[c].found
      BY <3>1 DEF ConditionResult
    <3> QED
      BY <3>2
  <2> QED
    BY <2>1, <2>2
<1> QED
  BY <1>1, <1>2 DEF Undoubted

LEMMA NothingCovered ==
    ASSUME NEW j \in Job, NEW c, NEW pictures, NEW verdicts, NEW evidence
    PROVE  Covered(j.request.plan, 0, c, pictures, verdicts, evidence)
<1>1. j.request.plan.captures = Captures(j) /\ j.request.plan.conditions = Questions(j)
  BY DEF Captures, Questions
<1>2. /\ Len(Captures(j)) \in Nat
      /\ DOMAIN Captures(j) = 1..Len(Captures(j)) /\ DOMAIN Questions(j) = 1..Len(Questions(j))
      /\ Len(Questions(j)) \in Nat
  BY PlanParts, LenProperties
<1> QED
  BY <1>1, <1>2 DEF Covered

\* A call begins with no rows, so with none that is in doubt.
LEMMA BeginEvidence ==
    ASSUME TypeInv, TypeInv', RowsInv, NEW c \in Calls, Begin(c)
    PROVE  CallInv(job'[c], c, observations', conditions')
<1>1. job'[c] \in Job
  BY DEF TypeInv
<1>2. /\ job'[c].reply = NoReply /\ job'[c].done = 0 /\ job'[c].doubt = FALSE
      /\ job'[c].step = NextStep(job'[c])
  BY BeginEffect
<1>3. job[c].step = "new" /\ observations' = observations /\ conditions' = conditions
  BY DEF Begin, OnlyCall, stored
<1>4. Undoubted(c, observations') /\ Undoubted(c, conditions')
  BY <1>3 DEF Undoubted, RowsInv
<1>5. job'[c].step = "finish" => job'[c].done = Items(job'[c].request.plan)
  BY <1>2 DEF NextStep, Items, Captures, Questions
<1>6. Covered(job'[c].request.plan, job'[c].done, c, observations', conditions', job'[c].taken)
  BY <1>1, <1>2, NothingCovered
<1>7. WorkInv(job'[c], c, observations', conditions')
  BY <1>2, <1>4, <1>5, <1>6 DEF WorkInv
<1>8. job'[c].reply.status # "success"
  BY <1>2 DEF NoReply, Reply
<1> QED
  BY <1>7, <1>8 DEF CallInv

LEMMA StoredFields ==
    ASSUME NEW j \in Job, NEW taken
    PROVE  LET s == Stored(j, taken)
               k == [s EXCEPT !.step = NextStep(s)]
           IN  /\ k.step = NextStep(s) /\ s.done = j.done + 1
               /\ k.tool = j.tool /\ k.request = j.request /\ s.request = j.request
               /\ k.done = j.done + 1
               /\ k.taken = j.taken \union taken /\ k.attempt = j.attempt /\ k.found = j.found
               /\ k.reply = j.reply
BY DEF Stored, Job

LEMMA StoredDoubt ==
    ASSUME NEW j \in Job, NEW taken
    PROVE  LET s == Stored(j, taken)
               k == [s EXCEPT !.step = NextStep(s)]
           IN  k.doubt <=> j.doubt \/ Doubts(j.found)
<1> DEFINE s == Stored(j, taken)
           d == j.doubt \/ Doubts(j.found)
<1>1. s.doubt = d /\ DOMAIN s = DOMAIN j
  BY DEF Stored, Job
<1>2. "doubt" # "step" /\ "doubt" \in DOMAIN s
  BY <1>1 DEF Job
<1> HIDE DEF s
<1>3. [s EXCEPT !.step = NextStep(s)].doubt = s.doubt
  BY <1>2
<1> HIDE DEF d
<1>4. [s EXCEPT !.step = NextStep(s)].doubt <=> d
  BY <1>1, <1>3, Zenon
<1> QED
  BY <1>4 DEF d, s

LEMMA StoreEvidence ==
    ASSUME TypeInv, TypeInv', NEW c \in Calls, CallStep(c),
           StoreObservation(c) \/ StoreCondition(c),
           WorkInv(job[c], c, observations, conditions)
    PROVE  WorkInv(job'[c], c, observations', conditions')
<1> DEFINE j == job[c]
           k == job'[c]
<1>1. j \in Job /\ j.done \in Nat /\ j.step = "store" /\ AtWork(j)
  BY DEF StoreObservation, StoreCondition, TypeInv, StepInv, Working, Job
<1>2. PICK taken \in SUBSET ObservationKey :
         /\ \/ StoreObservation(c) /\ taken = {ObservationId(j)}
            \/ StoreCondition(c) /\ taken = {}
         /\ k = [Stored(j, taken) EXCEPT !.step = NextStep(Stored(j, taken))]
  <2>1. StoreObservation(c) => ObservationId(j) \in ObservationKey
    BY <1>1, KeyType DEF StoreObservation
  <2> QED
    BY <2>1 DEF StoreObservation, StoreCondition, Continue, TypeInv
<1> DEFINE s == Stored(j, taken)
<1>3. /\ k.step = NextStep(s) /\ s.done = j.done + 1
      /\ k.tool = j.tool /\ k.request = j.request /\ s.request = j.request
      /\ k.done = j.done + 1
      /\ k.taken = j.taken \union taken /\ k.attempt = j.attempt /\ k.found = j.found
      /\ k.reply = j.reply
  BY <1>1, <1>2, StoredFields
<1>4. k.doubt <=> j.doubt \/ Doubts(j.found)
  BY <1>1, <1>2, StoredDoubt
<1>5. Covered(k.request.plan, k.done, c, observations', conditions', k.taken)
  BY <1>2, <1>3, StoreCovers
<1> HIDE DEF s
<1>6. k.step = "finish" => k.done = Items(k.request.plan)
  BY <1>3 DEF NextStep, Items, Captures, Questions
<1>7. k.attempt = 0 /\ ~k.doubt => Undoubted(c, observations') /\ Undoubted(c, conditions')
  BY <1>3, <1>4, StoreDoubts DEF WorkInv
<1>8. k.tool = "capture_evidence" /\ k.doubt => Doubts(k.found)
  <2>1. j.tool = "capture_evidence" => j.done = 0
    BY <1>1, CaptureHasItem
  <2> QED
    BY <1>3, <1>4, <2>1 DEF WorkInv
<1>9. k.done # 0
  BY <1>1, <1>3
<1> QED
  BY <1>3, <1>5, <1>6, <1>7, <1>8, <1>9 DEF WorkInv

LEMMA RetryEvidence ==
    ASSUME TypeInv, TypeInv', NEW c \in Calls, Retry(c),
           WorkInv(job[c], c, observations, conditions)
    PROVE  WorkInv(job'[c], c, observations', conditions')
<1> DEFINE j == job[c]
           s == [j EXCEPT !.attempt = @ + 1, !.done = 0, !.taken = {}, !.doubt = FALSE,
                          !.found = NoFinding]
           k == job'[c]
<1>1. j \in Job /\ k \in Job /\ j.attempt \in Nat
  BY PolicyLimitAssumption DEF TypeInv, Job
<1>2. k = [s EXCEPT !.step = NextStep(s)]
  BY DEF Retry, Continue, TypeInv
<1>3. /\ k.step = NextStep(s) /\ k.done = 0 /\ k.request = s.request /\ k.done = s.done
      /\ k.attempt = j.attempt + 1 /\ k.reply = j.reply
  BY <1>1, <1>2 DEF Job
<1>4. k.doubt = FALSE
  BY <1>1, <1>2 DEF Job
<1> HIDE DEF s
<1>5. k.step = "finish" => k.done = Items(k.request.plan)
  BY <1>3 DEF NextStep, Items, Captures, Questions
<1>6. Covered(k.request.plan, k.done, c, observations', conditions', k.taken)
  BY <1>1, <1>3, NothingCovered
<1>7. k.attempt # 0
  BY <1>1, <1>3
<1> HIDE DEF k
<1>8. WorkInv(k, c, observations', conditions')
  BY <1>3, <1>4, <1>5, <1>6, <1>7 DEF WorkInv
<1> QED
  BY <1>8 DEF k

\* A success is reported only of results without a doubt.
LEMMA FinishEvidence ==
    ASSUME TypeInv, TypeInv', RetryInv, NEW c \in Calls, CallStep(c), Finish(c),
           WorkInv(job[c], c, observations, conditions), job'[c].reply.status = "success"
    PROVE  SuccessInv(job'[c], c, observations', conditions')
<1> DEFINE j == job[c]
           r == OperationResult(j)
<1>1. j \in Job /\ j.step = "finish" /\ j.tool \in Supervised /\ j.found \in AnyFinding
  BY DEF Finish, TypeInv, StepInv, AtWork, Working, Job
<1>2. PICK status : /\ job'[c] = Answered(j, Reply(status, j.taken, r.outcome))
                    /\ status = "success" => ~MarksInconclusive(r) /\ r.state = "succeeded"
  <2> DEFINE status == CASE MarksInconclusive(r) -> "inconclusive"
                         [] ~MarksInconclusive(r) /\ r.state = "succeeded" -> "success"
                         [] OTHER -> "failed"
  <2>1. job'[c] = Answered(j, Reply(status, j.taken, r.outcome))
    BY DEF Finish, Replies, TypeInv
  <2>2. status = "success" => ~MarksInconclusive(r) /\ r.state = "succeeded"
    OBVIOUS
  <2> HIDE DEF status
  <2> QED
    BY <2>1, <2>2
<1>3. /\ job'[c].request = j.request
      /\ job'[c].reply.evidence = j.taken /\ job'[c].reply.status = status
  <2> DEFINE reply == Reply(status, j.taken, r.outcome)
  <2>1. reply.evidence = j.taken /\ reply.status = status
    BY DEF Reply
  <2> HIDE DEF reply
  <2> QED
    BY <1>1, <1>2, <2>1, AnsweredFields DEF reply
<1>4. r.confidence = "ok" /\ r.state = "succeeded"
  <2>1. r.confidence \in Confidence
    BY <1>1 DEF OperationResult, CaptureResult, InspectionResult, NoAdapter, Res, AnyFinding,
                Confidence
  <2> QED
    BY <1>2, <1>3, <2>1 DEF MarksInconclusive, Confidence
<1>5. ~j.doubt
  <2>1. CASE j.tool = "capture_evidence"
    <3>1. r = CaptureResult(j.found)
      BY <2>1 DEF OperationResult
    <3>2. ~Doubts(j.found)
      BY <1>4, <3>1 DEF CaptureResult, Res, Doubts
    <3> QED
      BY <1>1, <2>1, <3>2 DEF WorkInv
  <2>2. CASE j.tool = "inspect_place"
    <3>1. r = InspectionResult(j)
      BY <2>2 DEF OperationResult
    <3> QED
      BY <1>4, <3>1 DEF InspectionResult, NoAdapter, Res
  <2> QED
    BY <1>1, <2>1, <2>2 DEF Supervised
<1>6. j.attempt = 0
  <2>1. TryInv(j, Ids, KeyOf(j)) /\ j.attempt \in Nat
    BY <1>1, PolicyLimitAssumption DEF RetryInv, Job
  <2> QED
    BY <1>1, <2>1 DEF TryInv
<1>7. Undoubted(c, observations) /\ Undoubted(c, conditions)
  BY <1>5, <1>6 DEF WorkInv
<1>8. Undoubted(c, observations') /\ Undoubted(c, conditions')
  BY <1>7 DEF Finish, OnlyCall, stored
<1>9. Covered(j.request.plan, Items(j.request.plan), c, observations', conditions', j.taken)
  <2>1. Covered(j.request.plan, Items(j.request.plan), c, observations, conditions, j.taken)
    BY <1>1 DEF WorkInv
  <2> QED
    BY <2>1, CoverageGrows
<1> QED
  BY <1>3, <1>8, <1>9 DEF SuccessInv

\* A step of a call that has begun, and that is no reply, store or retry.
LEMMA EvidenceMoves ==
    ASSUME TypeInv, TypeInv', NEW c \in Calls,
           \/ RunnerReads(c) \/ RunnerWrites(c)
           \/ WritePictures(c) \/ WriteDepths(c) \/ Analyze(c),
           WorkInv(job[c], c, observations, conditions)
    PROVE  WorkInv(job'[c], c, observations', conditions')
<1>1. job[c] \in Job /\ job'[c] \in Job /\ job \in [Calls -> Job]
  BY DEF TypeInv
<1>2. /\ job'[c].reply = job[c].reply /\ job'[c].request = job[c].request
      /\ job'[c].done = job[c].done /\ job'[c].taken = job[c].taken
      /\ job'[c].attempt = job[c].attempt /\ job'[c].doubt = job[c].doubt
      /\ job'[c].tool = job[c].tool
      /\ job'[c].step = "finish" => job[c].step = "finish" /\ job'[c].found = job[c].found
  BY <1>1 DEF RunnerReads, RunnerWrites, WritePictures, WriteDepths, Analyze, Goto, Job
<1>3. UNCHANGED <<observations, conditions>>
  BY DEF RunnerReads, RunnerWrites, WritePictures, WriteDepths, Analyze, OnlyCall, stored
<1> QED
  BY <1>1, <1>2, <1>3, WorkKept

LEMMA CallKept ==
    ASSUME TypeInv, TypeInv', RowsInv, RetryInv, NEW c \in Calls, CallStep(c),
           CallInv(job[c], c, observations, conditions)
    PROVE  CallInv(job'[c], c, observations', conditions')
<1> DEFINE j == job[c]
           k == job'[c]
<1>0. /\ job \in [Calls -> Job] /\ j \in Job /\ k \in Job /\ StepInv(j) /\ StepInv(k)
      /\ j.step # "replied"
  <2>1. StepInv(job'[c])
    BY DEF TypeInv, StepInv, AtWork, Captures, Questions
  <2> QED
    BY <2>1, RepliedIsFinal DEF TypeInv
<1>1. CASE j.step = "new"
  <2>1. CASE Begin(c)
    BY <2>1, BeginEvidence
  <2>2. CASE ~Begin(c)
    <3>1. \/ Reject(c) \/ InspectUnknownProfile(c) \/ VerifyCondition(c)
          \/ ResolveTarget(c) \/ SummarizeTask(c)
      <4>1. j.tool \notin Supervised
        BY <1>0, <1>1 DEF StepInv, NewJob, Supervised
      <4> QED
        BY <1>1, <2>2, <4>1 DEF CallStep, RunnerReads, RunnerWrites, CameraRaises, WritePictures,
           WriteDepths, VlmRaises, Analyze, InsertRaises, StoreObservation, StoreCondition, Retry,
           Finish, ReadRow, WriteRow, ListEvidence
    <3>2. CASE SummarizeTask(c)
      BY <1>0, <3>2 DEF SummarizeTask, Job, CallInv, Working, Supervised
    <3>3. CASE Reject(c) \/ InspectUnknownProfile(c)
      BY <3>3, RejectEffect DEF CallInv, Working
    <3>4. CASE VerifyCondition(c)
      BY <3>4, VerifyEffect DEF CallInv, Working, Supervised
    <3>5. CASE ResolveTarget(c)
      BY <3>5, ResolveEffect DEF CallInv, Working, Supervised
    <3> QED
      BY <3>1, <3>2, <3>3, <3>4, <3>5
  <2> QED
    BY <2>1, <2>2
<1>2. CASE j.step # "new" /\ j.step \notin Working
  <2>1. k.tool = j.tool /\ j.tool \notin Supervised
    BY <1>0, <1>2, CallFrame DEF StepInv, Job, Steps, Supervised
  <2> QED
    BY <1>0, <2>1 DEF StepInv, AtWork, CallInv
<1>3. CASE j.step \in Working
  <2>1. WorkInv(j, c, observations, conditions) /\ NoReply.status # "success"
    BY <1>3 DEF CallInv, NoReply, Reply
  <2>2. CASE CameraRaises(c) \/ VlmRaises(c) \/ InsertRaises(c)
    <3>1. k = Answered(j, Reply("raised", {}, "none"))
      BY <1>0, <2>2 DEF CameraRaises, VlmRaises, InsertRaises, Replies
    <3>2. k.step = "replied" /\ k.reply.status = "raised"
      BY <1>0, <3>1, AnsweredFields DEF Reply
    <3> QED
      BY <3>2 DEF CallInv, Working
  <2>3. CASE Finish(c)
    <3>1. PICK reply : k = Answered(j, reply)
      BY <1>0, <2>3 DEF Finish, Replies
    <3>2. k.step = "replied"
      BY <1>0, <3>1, AnsweredFields
    <3> QED
      BY <2>1, <2>3, <3>2, FinishEvidence DEF CallInv, Working
  <2>4. ASSUME WorkInv(k, c, observations', conditions')
        PROVE  CallInv(k, c, observations', conditions')
    BY <2>1, <2>4 DEF CallInv, WorkInv
  <2>5. CASE \/ RunnerReads(c) \/ RunnerWrites(c)
             \/ WritePictures(c) \/ WriteDepths(c) \/ Analyze(c)
    BY <2>1, <2>4, <2>5, EvidenceMoves
  <2>6. CASE StoreObservation(c) \/ StoreCondition(c)
    BY <2>1, <2>4, <2>6, StoreEvidence
  <2>7. CASE Retry(c)
    BY <2>1, <2>4, <2>7, RetryEvidence
  <2> QED
    BY <1>3, <2>2, <2>3, <2>5, <2>6, <2>7 DEF CallStep, Begin, Reject, InspectUnknownProfile,
       VerifyCondition, ResolveTarget, ReadRow, WriteRow, SummarizeTask, ListEvidence, Working
<1> QED
  BY <1>1, <1>2, <1>3

LEMMA NextEvidence ==
    ASSUME TypeInv, TypeInv', RowsInv, RetryInv, EvidenceInv, [Next]_vars
    PROVE  EvidenceInv'
<1>1. ASSUME NEW c \in Calls, CallStep(c), NEW d \in Calls
      PROVE  CallInv(job'[d], d, observations', conditions')
  <2>1. CallInv(job[d], d, observations, conditions)
    BY DEF EvidenceInv
  <2>2. CASE d = c
    BY <1>1, <2>1, <2>2, CallKept
  <2>3. CASE d # c
    <3>1. job'[d] = job[d]
      BY <1>1, <2>3, CallFrame
    <3>2. /\ Undoubted(d, observations) => Undoubted(d, observations')
          /\ Undoubted(d, conditions) => Undoubted(d, conditions')
      BY <1>1, <2>3, DoubtsAreOwn
    <3>3. \A plan, done, evidence :
             Covered(plan, done, d, observations, conditions, evidence) =>
                Covered(plan, done, d, observations', conditions', evidence)
      BY <1>1, CoverageGrows
    <3> QED
      BY <2>1, <3>1, <3>2, <3>3 DEF CallInv, WorkInv, SuccessInv
  <2> QED
    BY <2>2, <2>3
<1>2. CASE UNCHANGED <<job, observations, conditions>>
  BY <1>2 DEF EvidenceInv
<1>3. CASE \E c \in Calls : CallStep(c)
  BY <1>1, <1>3 DEF EvidenceInv
<1> QED
  BY <1>2, <1>3 DEF Next, NewInstruction, InstructionEnds, stored, vars

LEMMA EvidenceInvariant == Spec => []EvidenceInv
<1>1. Init => EvidenceInv
  <2>1. NewJob.step = "new" /\ NewJob.tool = "none"
    BY DEF NewJob
  <2> QED
    BY <2>1 DEF Init, EvidenceInv, CallInv, Working, Supervised
<1>2. TypeInv /\ TypeInv' /\ OwnInv /\ PerceptionInv /\ EvidenceInv /\ [Next]_vars => EvidenceInv'
  BY NextEvidence DEF OwnInv, PerceptionInv
<1> QED
  BY <1>1, <1>2, TypeInvariant, OwnInvariant, PerceptionInvariant, PTL DEF Spec

\* A success of capture_evidence or inspect_place stands for rows that very
\* call stored, one for each capture and each condition of its plan, and the
\* captures are among the evidence it cites (inspect_place, handlers.py).
THEOREM SuccessesHaveEvidence == Spec => []SuccessHasEvidence
<1>1. ASSUME TypeInv, EvidenceInv, NEW c \in Calls,
             job[c].tool \in Supervised, job[c].reply.status = "success"
      PROVE  /\ \A n \in DOMAIN Captures(job[c]) :
                   \E i \in DOMAIN observations :
                       /\ observations[i].call = c
                       /\ observations[i].id \in job[c].reply.evidence
                       /\ observations[i].id.kind = Captures(job[c])[n].kind
             /\ \A n \in DOMAIN Questions(job[c]) :
                   \E i \in DOMAIN conditions :
                       /\ conditions[i].call = c
                       /\ conditions[i].condition = Questions(job[c])[n].condition
  <2>1. Covered(job[c].request.plan, Items(job[c].request.plan), c, observations, conditions,
                job[c].reply.evidence)
    BY <1>1 DEF EvidenceInv, CallInv, SuccessInv
  <2>2. /\ Len(Captures(job[c])) \in Nat /\ Len(Questions(job[c])) \in Nat
        /\ DOMAIN Captures(job[c]) = 1..Len(Captures(job[c]))
        /\ DOMAIN Questions(job[c]) = 1..Len(Questions(job[c]))
    <3>1. job[c] \in Job
      BY <1>1 DEF TypeInv
    <3> QED
      BY <3>1, PlanParts, LenProperties
  <2>0. Items(job[c].request.plan) = Len(Captures(job[c])) + Len(Questions(job[c]))
    BY DEF Items, Captures, Questions
  <2>3. ASSUME NEW n \in DOMAIN Captures(job[c])
        PROVE  \E i \in DOMAIN observations :
                  /\ observations[i].call = c
                  /\ observations[i].id \in job[c].reply.evidence
                  /\ observations[i].id.kind = Captures(job[c])[n].kind
    <3>1. n \in 1..Len(Captures(job[c]))
      BY <2>2, <2>3
    <3>2. n =< Items(job[c].request.plan)
      BY <2>0, <2>2, <3>1
    <3> QED
      BY <2>1, <2>3, <3>2 DEF Covered, Captures
  <2>4. ASSUME NEW n \in DOMAIN Questions(job[c])
        PROVE  \E i \in DOMAIN conditions :
                  /\ conditions[i].call = c
                  /\ conditions[i].condition = Questions(job[c])[n].condition
    <3>1. n \in 1..Len(Questions(job[c]))
      BY <2>2, <2>4
    <3>2. Len(Captures(job[c])) + n =< Items(job[c].request.plan)
      BY <2>0, <2>2, <3>1
    <3> QED
      BY <2>1, <2>4, <3>2 DEF Covered, Captures, Questions
  <2> QED
    BY <2>3, <2>4
<1>2. TypeInv /\ EvidenceInv => SuccessHasEvidence
  BY <1>1 DEF SuccessHasEvidence
<1> QED
  BY <1>2, TypeInvariant, EvidenceInvariant, PTL

\* No inconclusive and no unsure finding is behind a success: a doubt about
\* one row of a call outlives the rows stored after it (any_inconclusive in
\* inspect_place), and a retried capture has no success to report.
THEOREM SuccessesAreSure == Spec => []SuccessIsSure
<1>1. ASSUME TypeInv, EvidenceInv, NEW c \in Calls,
             job[c].tool \in Supervised, job[c].reply.status = "success"
      PROVE  /\ \A i \in DOMAIN observations :
                   observations[i].call = c =>
                       /\ observations[i].finding.outcome # "inconclusive"
                       /\ observations[i].finding.confidence = "ok"
             /\ \A i \in DOMAIN conditions :
                   conditions[i].call = c =>
                       /\ conditions[i].finding.outcome # "inconclusive"
                       /\ conditions[i].finding.confidence = "ok"
  <2>1. Undoubted(c, observations) /\ Undoubted(c, conditions)
    BY <1>1 DEF EvidenceInv, CallInv, SuccessInv
  <2>2. ASSUME NEW finding \in AnyFinding, ~Doubts(finding)
        PROVE  finding.outcome # "inconclusive" /\ finding.confidence = "ok"
    BY <2>2 DEF Doubts, AnyFinding, Confidence
  <2> QED
    BY <1>1, <2>1, <2>2, RowTypes DEF Undoubted, ObservationRow, ConditionRow
<1>2. TypeInv /\ EvidenceInv => SuccessIsSure
  BY <1>1 DEF SuccessIsSure
<1> QED
  BY <1>2, TypeInvariant, EvidenceInvariant, PTL

===============================================================================
