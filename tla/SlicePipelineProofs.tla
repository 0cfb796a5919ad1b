------------------------ MODULE SlicePipelineProofs ------------------------
(***************************************************************************)
(* Theorems about SlicePipeline for every set of requests and executions   *)
(* and every value of its bounds: the type invariant, DoneIsMeasured, that *)
(* every behaviour implements SliceContract, and LiveRowHasWork.           *)
(*                                                                         *)
(* The argument.  Attempt ids only grow, so an execution that has stored   *)
(* its measurements (pc "complete") can meet the row in two ways only: the *)
(* row still has its attempt, and then its measurements (Measured), or the *)
(* row has moved on to a larger attempt and the fence stops it.            *)
(*                                                                         *)
(* A live row loses its job only to an execution that returns, to BullMQ   *)
(* or to a request.  An execution returns after its fence has failed or    *)
(* after it has ended the attempt (Returned, which rests on Claimed); a    *)
(* job that ends otherwise leaves a failed event or a strand (Ended), so   *)
(* that trimming it, or not adding over it, takes nothing away.            *)
(***************************************************************************)
EXTENDS SlicePipeline, TLAPS

\* Nobody holds an attempt id that was not handed out.
Fresh ==
  /\ row.attempt <= gen
  /\ \A w \in Runs : runs[w].attempt <= gen
  /\ \A r \in Requests : reqs[r].attempt <= gen
  /\ \A a \in Gens : jobs[a].state # "absent" => a <= gen

\* An execution about to write DONE has left its measurements in its row.
Measured ==
  \A w \in Runs :
    runs[w].pc = "complete" /\ runs[w].attempt = row.attempt
      => row.measured = row.attempt

IInv == TypeOK /\ Fresh /\ Measured /\ DoneIsMeasured

USE DEF Gens

-----------------------------------------------------------------------------
(* Typing                                                                  *)

\* The finite sets of states, as membership facts: the provers do without their
\* definitions elsewhere.
LEMMA Members ==
  /\ "NONE" \in Statuses /\ "QUEUED" \in Statuses /\ "RUNNING" \in Statuses
  /\ "DONE" \in Statuses /\ "FAILED" \in Statuses
  /\ "absent" \in JobStates /\ "waiting" \in JobStates /\ "active" \in JobStates
  /\ "delayed" \in JobStates /\ "completed" \in JobStates /\ "failed" \in JobStates
  /\ "idle" \in RunPcs /\ "read" \in RunPcs /\ "claim" \in RunPcs
  /\ "slice" \in RunPcs /\ "fail" \in RunPcs /\ "finalize" \in RunPcs
  /\ "complete" \in RunPcs /\ "return" \in RunPcs
  /\ "idle" \in ReqPcs /\ "create" \in ReqPcs /\ "retry" \in ReqPcs
  /\ "reread" \in ReqPcs /\ "getJob" \in ReqPcs /\ "getState" \in ReqPcs
  /\ "recheckNone" \in ReqPcs /\ "recheckDead" \in ReqPcs /\ "remove" \in ReqPcs
  /\ "add" \in ReqPcs
  /\ 0 \in Percentages /\ 1 \in Percentages /\ 98 \in Percentages
  /\ 100 \in Percentages
  /\ Percents \subseteq Percentages
BY SliceAssumption
   DEF Statuses, JobStates, Live, LiveJob, RunPcs, ReqPcs, Percentages

\* What a process holds between two jobs, and a new job, are well typed.
LEMMA IdleType == IdleRun \in RunStates /\ IdleReq \in ReqStates /\ {NoJob, NewJob} \subseteq Jobs
BY SliceAssumption, Members
   DEF IdleRun, RunStates, IdleReq, ReqStates, NoJob, NewJob, Jobs

LEMMA InitType == Init => TypeOK
BY SliceAssumption, Members
   DEF Init, TypeOK, Rows, Jobs, RunStates, ReqStates, NoJob, IdleRun, IdleReq

\* A web request's steps keep the types.
LEMMA RequestType ==
  ASSUME TypeOK, NEW r \in Requests, Request(r) \/ RequestStep(r) \/ RequestDies(r)
  PROVE  TypeOK'
<1>a. row \in Rows BY DEF TypeOK
<1>b. gen \in 0..MaxGen BY DEF TypeOK
<1>c. jobs \in [Gens -> Jobs] BY DEF TypeOK
<1>d. runs \in [Runs -> RunStates] BY DEF TypeOK
<1>e. reqs \in [Requests -> ReqStates] BY DEF TypeOK
<1>f. failing \subseteq 0..MaxGen BY DEF TypeOK
<1>g. faults \in 0..MaxFaults BY DEF TypeOK
<1>h. stranded \subseteq 0..MaxGen BY DEF TypeOK
<1>1. CASE Request(r)
  <2>1. row.attempt \in 0..MaxGen BY <1>a DEF Rows
  <2>2. PICK s \in ReqStates : reqs' = [reqs EXCEPT ![r] = s]
    BY <1>1, <2>1, IdleType, Members
       DEF Request, EnsureOrRespond, Respond, IdleReq, ReqStates
  <2>3. reqs' \in [Requests -> ReqStates] BY <1>e, <2>2
  <2> QED BY <1>1, <2>3 DEF TypeOK, Request
<1>2. ASSUME OpenRow(r)
      PROVE  gen' \in 0..MaxGen /\ row' \in Rows /\ reqs' \in [Requests -> ReqStates]
  <2>1. gen' \in 0..MaxGen BY <1>b, SliceAssumption, <1>2 DEF OpenRow
  <2>2. row' \in Rows BY <1>a, <1>2, <2>1, Members DEF OpenRow, Rows
  <2>3. PICK s \in ReqStates : reqs' = [reqs EXCEPT ![r] = s]
    BY <1>2, <2>1, Members DEF OpenRow, ReqStates, IdleReq
  <2>4. reqs' \in [Requests -> ReqStates] BY <1>e, <2>3
  <2> QED BY <2>1, <2>2, <2>4
<1>3. ASSUME NEW pc, Goto(r, pc), pc \in {"reread", "getState", "recheckNone",
                                          "recheckDead", "remove", "add"}
      PROVE  reqs' \in [Requests -> ReqStates]
  BY <1>e, Members, <1>3 DEF Goto, ReqStates
<1>4. ASSUME Respond(r) PROVE reqs' \in [Requests -> ReqStates]
  BY <1>e, <1>4, IdleType DEF Respond
<1>5. CASE Create(r) BY <1>2, <1>3, <1>5 DEF TypeOK, Create
<1>6. CASE Retry(r) BY <1>2, <1>3, <1>6 DEF TypeOK, Retry
<1>7. CASE Reread(r)
  <2>1. row.attempt \in 0..MaxGen BY <1>a DEF Rows
  <2>2. PICK s \in ReqStates : reqs' = [reqs EXCEPT ![r] = s]
    BY <1>7, <2>1, IdleType, Members DEF Reread, EnsureOrRespond, Respond, ReqStates
  <2>3. reqs' \in [Requests -> ReqStates] BY <1>e, <2>2
  <2> QED BY <1>7, <2>3 DEF TypeOK, Reread
<1>8. CASE GetJob(r) BY <1>3, <1>8 DEF TypeOK, GetJob
<1>9. CASE GetState(r) BY <1>3, <1>4, <1>9 DEF TypeOK, GetState
<1>10. CASE Recheck(r) BY <1>3, <1>4, <1>10 DEF TypeOK, Recheck
<1>11. CASE RemoveJob(r)
  <2>1. jobs' \in [Gens -> Jobs] BY <1>c, Members, <1>11 DEF RemoveJob, Jobs, NoJob
  <2> QED BY <1>3, <1>11, <2>1 DEF TypeOK, RemoveJob
<1>12. CASE AddJob(r)
  <2>1. jobs' \in [Gens -> Jobs] BY <1>c, Members, <1>12 DEF AddJob, Jobs, NewJob, NoJob
  <2>2. stranded' \subseteq 0..MaxGen BY <1>h, SliceAssumption, <1>12 DEF AddJob
  <2> QED BY <1>4, <1>12, <2>1, <2>2 DEF TypeOK, AddJob
<1>13. CASE RequestDies(r)
  <2>1. faults' \in 0..MaxFaults BY <1>g, SliceAssumption, <1>13 DEF RequestDies
  <2>2. stranded' \subseteq 0..MaxGen BY <1>e, <1>h, <1>13 DEF RequestDies, ReqStates
  <2> QED BY <1>4, <1>13, <2>1, <2>2 DEF TypeOK, RequestDies
<1> QED BY <1>1, <1>5, <1>6, <1>7, <1>8, <1>9, <1>10, <1>11, <1>12, <1>13 DEF RequestStep

\* An execution's steps keep the types.
LEMMA RunType ==
  ASSUME TypeOK, NEW w \in Runs, RunStep(w) \/ Throw(w)
  PROVE  TypeOK'
<1>a. row \in Rows BY DEF TypeOK
<1>b. gen \in 0..MaxGen BY DEF TypeOK
<1>c. jobs \in [Gens -> Jobs] BY DEF TypeOK
<1>d. runs \in [Runs -> RunStates] BY DEF TypeOK
<1>e. reqs \in [Requests -> ReqStates] BY DEF TypeOK
<1>f. failing \subseteq 0..MaxGen BY DEF TypeOK
<1>g. faults \in 0..MaxFaults BY DEF TypeOK
<1>h. stranded \subseteq 0..MaxGen BY DEF TypeOK
<1>1. ASSUME NEW pc, RunGoto(w, pc), pc \in {"claim", "return", "complete"}
      PROVE  runs' \in [Runs -> RunStates]
  BY <1>d, Members, <1>1 DEF RunGoto, RunStates
<1>2. CASE ReadRow(w) BY <1>1, <1>2 DEF TypeOK, ReadRow
<1>3. CASE ClaimRow(w)
  <2>1. row' \in Rows BY <1>a, Members, <1>3 DEF ClaimRow, UpdateIf, Rows
  <2>2. runs' \in [Runs -> RunStates]
    <3>1. PICK pc \in RunPcs, last \in Percentages :
                 runs' = [runs EXCEPT ![w].pc = pc, ![w].last = last]
      BY Members, <1>3 DEF ClaimRow
    <3> QED BY <1>d, <3>1 DEF RunStates
  <2> QED BY <1>3, <2>1, <2>2 DEF TypeOK, ClaimRow
<1>4. CASE WriteProgress(w)
  <2>1. row' \in Rows
    <3>1. runs[w].queued \in Percentages BY <1>d DEF RunStates
    <3> QED BY <1>a, <1>4, <3>1 DEF WriteProgress, UpdateIf, Rows
  <2>2. runs' \in [Runs -> RunStates]
    <3>1. [runs[w] EXCEPT !.queued = 0] \in RunStates BY <1>d, Members DEF RunStates
    <3> QED BY <1>d, <1>4, <3>1, IdleType DEF WriteProgress
  <2> QED BY <1>4, <2>1, <2>2 DEF TypeOK, WriteProgress
<1>5. CASE SliceReturns(w)
  <2>1. PICK pc \in RunPcs : runs' = [runs EXCEPT ![w].pc = pc, ![w].last = 0]
    BY <1>5, Members DEF SliceReturns
  <2>2. runs' \in [Runs -> RunStates] BY <1>d, <2>1, Members DEF RunStates
  <2> QED BY <1>5, <2>2 DEF TypeOK, SliceReturns
<1>6. CASE FailRow(w)
  <2>1. row' \in Rows BY <1>a, Members, <1>6 DEF FailRow, UpdateIf, Rows
  <2> QED BY <1>1, <1>6, <2>1 DEF TypeOK, FailRow
<1>7. CASE FinalizeRow(w)
  <2>1. row' \in Rows
    <3>1. runs[w].attempt \in 0..MaxGen BY <1>d DEF RunStates
    <3> QED BY <1>a, <1>7, <3>1, Members DEF FinalizeRow, UpdateIf, Rows
  <2>2. runs' \in [Runs -> RunStates] BY <1>d, Members, <1>1, <1>7 DEF FinalizeRow
  <2> QED BY <1>7, <2>1, <2>2 DEF TypeOK, FinalizeRow
<1>8. CASE CompleteRow(w)
  <2>1. row' \in Rows BY <1>a, Members, <1>8 DEF CompleteRow, UpdateIf, Rows
  <2> QED BY <1>1, <1>8, <2>1 DEF TypeOK, CompleteRow
<1>9. CASE Return(w)
  <2>1. jobs' \in [Gens -> Jobs] BY <1>c, Members, <1>9 DEF Return, Jobs
  <2>2. runs' \in [Runs -> RunStates] BY <1>d, <1>9, IdleType DEF Return
  <2> QED BY <1>9, <2>1, <2>2 DEF TypeOK, Return
<1>10. CASE Throw(w)
  <2>1. runs' \in [Runs -> RunStates]
    <3>1. [runs[w] EXCEPT !.pc = "idle", !.last = 0] \in RunStates
      BY <1>d, Members DEF RunStates
    <3> QED BY <1>d, <1>10, <3>1, IdleType DEF Throw
  <2>2. jobs' \in [Gens -> Jobs] BY <1>c, Members, <1>10 DEF Throw, Jobs
  <2>3. failing' \subseteq 0..MaxGen
    <3>1. runs[w].attempt \in 0..MaxGen BY <1>d DEF RunStates
    <3> QED BY <1>f, <1>10, <3>1 DEF Throw, FailedEvent
  <2> QED BY <1>10, <2>1, <2>2, <2>3 DEF TypeOK, Throw
<1> QED BY <1>2, <1>3, <1>4, <1>5, <1>6, <1>7, <1>8, <1>9, <1>10 DEF RunStep

\* The slicer's reports and BullMQ's steps keep the types.
LEMMA QueueType ==
  ASSUME TypeOK,
         \/ \E w \in Runs, p \in Percents : ReportProgress(w, p)
         \/ \E w \in Runs, a \in Gens : StartJob(w, a)
         \/ \E a \in Gens : \/ Promote(a) \/ LoseLock(a) \/ StalledCheck(a)
                            \/ TrimJob(a) \/ WriteFailure(a) \/ LoseFailure(a)
         \/ WorkerCrash
  PROVE  TypeOK'
<1>a. row \in Rows BY DEF TypeOK
<1>b. gen \in 0..MaxGen BY DEF TypeOK
<1>c. jobs \in [Gens -> Jobs] BY DEF TypeOK
<1>d. runs \in [Runs -> RunStates] BY DEF TypeOK
<1>e. reqs \in [Requests -> ReqStates] BY DEF TypeOK
<1>f. failing \subseteq 0..MaxGen BY DEF TypeOK
<1>g. faults \in 0..MaxFaults BY DEF TypeOK
<1>h. stranded \subseteq 0..MaxGen BY DEF TypeOK
<1>1. ASSUME NEW w \in Runs, NEW p \in Percents, ReportProgress(w, p) PROVE TypeOK'
  <2>1. runs' \in [Runs -> RunStates] BY <1>d, Members, <1>1 DEF ReportProgress, RunStates
  <2> QED BY <1>1, <2>1 DEF TypeOK, ReportProgress
<1>2. ASSUME NEW w \in Runs, NEW a \in Gens, StartJob(w, a) PROVE TypeOK'
  <2>1. jobs' \in [Gens -> Jobs] BY <1>c, Members, <1>2 DEF StartJob, Jobs
  <2>2. [IdleRun EXCEPT !.pc = "read", !.attempt = a] \in RunStates
    <3>1. a \in 0..MaxGen BY SliceAssumption
    <3> QED BY <3>1, Members DEF IdleRun, RunStates
  <2>3. runs' \in [Runs -> RunStates] BY <1>d, <1>2, <2>2 DEF StartJob
  <2> QED BY <1>2, <2>1, <2>3 DEF TypeOK, StartJob
<1>3. ASSUME NEW a \in Gens, Promote(a) PROVE TypeOK'
  <2>1. jobs' \in [Gens -> Jobs] BY <1>c, Members, <1>3 DEF Promote, Jobs
  <2> QED BY <1>3, <2>1 DEF TypeOK, Promote
<1>4. ASSUME NEW a \in Gens, LoseLock(a) PROVE TypeOK'
  <2>1. jobs' \in [Gens -> Jobs] BY <1>c, Members, <1>4 DEF LoseLock, Jobs
  <2>2. faults' \in 0..MaxFaults BY <1>g, SliceAssumption, <1>4 DEF LoseLock
  <2> QED BY <1>4, <2>1, <2>2 DEF TypeOK, LoseLock
<1>5. ASSUME NEW a \in Gens, StalledCheck(a) PROVE TypeOK'
  <2>1. jobs' \in [Gens -> Jobs] BY <1>c, Members, <1>5 DEF StalledCheck, Jobs
  <2>2. failing' \subseteq 0..MaxGen BY <1>f, SliceAssumption, <1>5 DEF StalledCheck, FailedEvent
  <2>3. stranded' \subseteq 0..MaxGen BY <1>h, SliceAssumption, <1>5 DEF StalledCheck
  <2> QED BY <1>5, <2>1, <2>2, <2>3 DEF TypeOK, StalledCheck
<1>6. ASSUME NEW a \in Gens, TrimJob(a) PROVE TypeOK'
  <2>1. jobs' \in [Gens -> Jobs] BY <1>c, Members, <1>6 DEF TrimJob, Jobs, NoJob
  <2> QED BY <1>6, <2>1 DEF TypeOK, TrimJob
<1>7. ASSUME NEW a \in Gens, WriteFailure(a) PROVE TypeOK'
  <2>1. row' \in Rows BY <1>a, Members, <1>7 DEF WriteFailure, UpdateIf, Rows
  <2> QED BY <1>7, <2>1 DEF TypeOK, WriteFailure
<1>8. ASSUME NEW a \in Gens, LoseFailure(a) PROVE TypeOK'
  <2>1. faults' \in 0..MaxFaults BY <1>g, SliceAssumption, <1>8 DEF LoseFailure
  <2> QED BY <1>8, <2>1 DEF TypeOK, LoseFailure
<1>9. CASE WorkerCrash
  <2>1. runs' \in [Runs -> RunStates] BY <1>9, IdleType DEF WorkerCrash
  <2>2. jobs' \in [Gens -> Jobs] BY <1>c, Members, <1>9 DEF WorkerCrash, Jobs
  <2>3. stranded' \subseteq 0..MaxGen BY <1>f, <1>h, <1>9 DEF WorkerCrash
  <2>4. faults' \in 0..MaxFaults BY <1>g, SliceAssumption, <1>9 DEF WorkerCrash
  <2> QED BY <1>9, <2>1, <2>2, <2>3, <2>4 DEF TypeOK, WorkerCrash
<1> QED BY <1>1, <1>2, <1>3, <1>4, <1>5, <1>6, <1>7, <1>8, <1>9

LEMMA StepType == TypeOK /\ [Next]_vars => TypeOK'
<1> SUFFICES ASSUME TypeOK, [Next]_vars PROVE TypeOK' OBVIOUS
<1>1. CASE UNCHANGED vars BY <1>1 DEF vars, TypeOK
<1>2. CASE Next BY <1>2, RequestType, RunType, QueueType DEF Next
<1> QED BY <1>1, <1>2

\* Every reachable state is well typed, for all values of the constants.
THEOREM TypeCorrect == Spec => []TypeOK
BY InitType, StepType, PTL DEF Spec

-----------------------------------------------------------------------------
(* Attempt ids                                                             *)

LEMMA InitInv == Init => IInv
<1> SUFFICES ASSUME Init PROVE IInv OBVIOUS
<1>1. TypeOK BY InitType
<1>2. Fresh BY DEF Init, Fresh, IdleRun, IdleReq, NoJob
<1>3. Measured /\ DoneIsMeasured BY DEF Init, Measured, IdleRun, DoneIsMeasured
<1> QED BY <1>1, <1>2, <1>3 DEF IInv

\* A web request hands on the attempt it read, or the one it was given.
LEMMA RequestFresh ==
  ASSUME TypeOK, Fresh, NEW r \in Requests,
         Request(r) \/ RequestStep(r) \/ RequestDies(r)
  PROVE  Fresh'
<1>a. gen \in 0..MaxGen BY DEF TypeOK
<1>c. jobs \in [Gens -> Jobs] BY DEF TypeOK
<1>d. runs \in [Runs -> RunStates] BY DEF TypeOK
<1>e. reqs \in [Requests -> ReqStates] BY DEF TypeOK
<1>r. row \in Rows BY DEF TypeOK
<1>1. CASE UNCHANGED <<row, gen, jobs, runs>>
  <2>1. PICK s \in [pc : ReqPcs, attempt : {reqs[r].attempt, row.attempt, 0}] :
               reqs' = [reqs EXCEPT ![r] = s]
    <3>1. CASE Request(r)
      BY <1>e, <3>1, Members
         DEF Request, EnsureOrRespond, Respond, IdleReq, ReqStates
    <3>2. CASE Reread(r)
      BY <1>e, <3>2, Members DEF Reread, EnsureOrRespond, Respond, IdleReq, ReqStates
    <3>3. CASE RequestDies(r)
      BY <1>e, <3>3, Members DEF RequestDies, Respond, IdleReq, ReqStates
    <3>4. CASE \E pc \in ReqPcs : Goto(r, pc)
      <4>1. PICK pc \in ReqPcs : Goto(r, pc) BY <3>4
      <4>2. reqs[r] \in ReqStates BY <1>e
      <4>3. reqs' = [reqs EXCEPT ![r] = [reqs[r] EXCEPT !.pc = pc]] BY <1>e, <4>1 DEF Goto
      <4>4. [reqs[r] EXCEPT !.pc = pc] \in [pc : ReqPcs, attempt : {reqs[r].attempt}]
        BY <4>2 DEF ReqStates
      <4> QED BY <4>3, <4>4
    <3>5. CASE Respond(r) BY <1>e, <3>5, Members DEF Respond, IdleReq
    <3>6. CASE Create(r) \/ Retry(r)
      <4>1. ~OpenRow(r) BY <1>1, <1>a DEF OpenRow
      <4> QED BY <3>4, <3>6, <4>1, Members DEF Create, Retry
    <3>7. CASE GetJob(r) \/ GetState(r) \/ Recheck(r) \/ RemoveJob(r) \/ AddJob(r)
      BY <3>4, <3>5, <3>7, Members DEF GetJob, GetState, Recheck, RemoveJob, AddJob
    <3> QED BY <3>1, <3>2, <3>3, <3>6, <3>7 DEF RequestStep
  <2>2. \A q \in Requests : reqs'[q].attempt <= gen
    BY <1>a, <1>e, <1>r, <2>1 DEF Fresh, Rows, ReqStates
  <2> QED BY <1>1, <2>2 DEF Fresh
<1>2. CASE OpenRow(r) /\ UNCHANGED <<jobs, runs>>
  BY <1>a, <1>c, <1>d, <1>e, <1>r, <1>2 DEF OpenRow, Fresh, Rows, RunStates, ReqStates, IdleReq
<1>3. CASE RemoveJob(r)
  BY <1>c, <1>e, <1>3 DEF RemoveJob, Goto, Fresh, NoJob, Jobs, ReqStates
<1>4. CASE AddJob(r)
  <2>1. reqs[r].attempt <= gen /\ reqs[r].attempt \in 0..MaxGen
    BY <1>e DEF Fresh, ReqStates
  <2>2. \A b \in Gens : jobs'[b].state # "absent" => b <= gen
    <3>1. CASE jobs' = jobs BY <3>1 DEF Fresh
    <3>2. CASE jobs' = [jobs EXCEPT ![reqs[r].attempt] = NewJob]
      BY <1>c, <2>1, <3>2 DEF Fresh
    <3> QED BY <1>4, <3>1, <3>2 DEF AddJob
  <2>3. \A q \in Requests : reqs'[q].attempt <= gen
    BY <1>a, <1>e, <1>4 DEF AddJob, Respond, IdleReq, Fresh
  <2> QED BY <1>4, <2>2, <2>3 DEF AddJob, Fresh
<1> QED
  BY <1>1, <1>2, <1>3, <1>4
     DEF RequestStep, Request, Create, Retry, Reread, GetJob, GetState, Recheck, RequestDies

\* An execution keeps the attempt of its job.
LEMMA RunFresh ==
  ASSUME TypeOK, Fresh, NEW w \in Runs, RunStep(w) \/ Throw(w)
  PROVE  Fresh'
<1>a. gen \in 0..MaxGen BY DEF TypeOK
<1>c. jobs \in [Gens -> Jobs] BY DEF TypeOK
<1>d. runs \in [Runs -> RunStates] BY DEF TypeOK
<1>r. row \in Rows BY DEF TypeOK
<1>1. gen' = gen /\ reqs' = reqs
  BY DEF RunStep, Throw, ReadRow, ClaimRow, WriteProgress, SliceReturns, FailRow,
         FinalizeRow, CompleteRow, Return
<1>2. row'.attempt = row.attempt
  BY <1>r DEF RunStep, Throw, ReadRow, ClaimRow, WriteProgress, SliceReturns, FailRow,
              FinalizeRow, CompleteRow, Return, UpdateIf, Rows
<1>3. \A v \in Runs : runs'[v].attempt \in {runs[v].attempt, 0}
  <2>1. CASE ReadRow(w) \/ ClaimRow(w) \/ SliceReturns(w)
    BY <1>d, <2>1 DEF ReadRow, ClaimRow, SliceReturns, RunGoto, RunStates
  <2>2. CASE FailRow(w) \/ FinalizeRow(w) \/ CompleteRow(w)
    BY <1>d, <2>2 DEF FailRow, FinalizeRow, CompleteRow, RunGoto, RunStates
  <2>3. CASE WriteProgress(w)
    BY <1>d, <2>3 DEF WriteProgress, RunStates, IdleRun
  <2>4. CASE Throw(w)
    BY <1>d, <2>4 DEF Throw, RunStates, IdleRun
  <2>5. CASE Return(w) BY <1>d, <2>5 DEF Return, IdleRun
  <2> QED BY <2>1, <2>2, <2>3, <2>4, <2>5 DEF RunStep
<1>4. \A v \in Runs : runs'[v].attempt <= gen BY <1>a, <1>3 DEF Fresh
<1>5. \A b \in Gens : jobs'[b].state # "absent" => b <= gen
  <2>1. CASE jobs' = jobs BY <2>1 DEF Fresh
  <2>2. CASE Return(w) \/ Throw(w)
    BY <1>c, <1>d, <2>2 DEF Return, Throw, Fresh, Jobs
  <2> QED
    BY <2>1, <2>2 DEF RunStep, ReadRow, ClaimRow, WriteProgress, SliceReturns, FailRow,
                      FinalizeRow, CompleteRow
<1> QED BY <1>1, <1>2, <1>4, <1>5 DEF Fresh

\* BullMQ moves only jobs that were added.
LEMMA QueueFresh ==
  ASSUME TypeOK, Fresh,
         \/ \E w \in Runs, p \in Percents : ReportProgress(w, p)
         \/ \E w \in Runs, a \in Gens : StartJob(w, a)
         \/ \E a \in Gens : \/ Promote(a) \/ LoseLock(a) \/ StalledCheck(a)
                            \/ TrimJob(a) \/ WriteFailure(a) \/ LoseFailure(a)
         \/ WorkerCrash
  PROVE  Fresh'
<1>a. gen \in 0..MaxGen BY DEF TypeOK
<1>c. jobs \in [Gens -> Jobs] BY DEF TypeOK
<1>d. runs \in [Runs -> RunStates] BY DEF TypeOK
<1>r. row \in Rows BY DEF TypeOK
<1>1. gen' = gen /\ reqs' = reqs
  BY DEF ReportProgress, StartJob, Promote, LoseLock, StalledCheck, TrimJob, WriteFailure,
         LoseFailure, WorkerCrash
<1>2. row'.attempt = row.attempt
  BY <1>r DEF ReportProgress, StartJob, Promote, LoseLock, StalledCheck, TrimJob,
              WriteFailure, LoseFailure, WorkerCrash, UpdateIf, Rows
<1>3. \A v \in Runs : runs'[v].attempt <= gen
  <2>1. ASSUME NEW w \in Runs, NEW p \in Percents, ReportProgress(w, p)
        PROVE  \A v \in Runs : runs'[v].attempt <= gen
    BY <1>d, <2>1 DEF ReportProgress, Fresh, RunStates
  <2>2. ASSUME NEW w \in Runs, NEW a \in Gens, StartJob(w, a)
        PROVE  \A v \in Runs : runs'[v].attempt <= gen
    <3>1. a <= gen BY <2>2 DEF StartJob, Fresh
    <3> QED BY <1>d, <2>2, <3>1 DEF StartJob, Fresh, IdleRun
  <2>3. CASE WorkerCrash BY <1>a, <2>3 DEF WorkerCrash, IdleRun
  <2>4. CASE runs' = runs BY <2>4 DEF Fresh
  <2> QED
    BY <2>1, <2>2, <2>3, <2>4
       DEF Promote, LoseLock, StalledCheck, TrimJob, WriteFailure, LoseFailure
<1>4. \A b \in Gens : jobs'[b].state # "absent" => jobs[b].state # "absent"
  <2>1. CASE WorkerCrash BY <1>c, <2>1 DEF WorkerCrash, Jobs
  <2>2. CASE jobs' = jobs BY <2>2
  <2>3. ASSUME NEW w \in Runs, NEW a \in Gens, StartJob(w, a)
        PROVE  \A b \in Gens : jobs'[b].state # "absent" => jobs[b].state # "absent"
    BY <1>c, <2>3 DEF StartJob, Jobs
  <2>4. ASSUME NEW a \in Gens, \/ Promote(a) \/ LoseLock(a) \/ StalledCheck(a) \/ TrimJob(a)
        PROVE  \A b \in Gens : jobs'[b].state # "absent" => jobs[b].state # "absent"
    <3>1. CASE Promote(a) BY <1>c, <3>1 DEF Promote, Jobs
    <3>2. CASE LoseLock(a) BY <1>c, <3>2 DEF LoseLock, Jobs
    <3>3. CASE StalledCheck(a) BY <1>c, <3>3 DEF StalledCheck, Jobs
    <3>4. CASE TrimJob(a) BY <1>c, <3>4 DEF TrimJob, NoJob
    <3> QED BY <2>4, <3>1, <3>2, <3>3, <3>4
  <2> QED BY <2>1, <2>2, <2>3, <2>4 DEF ReportProgress, WriteFailure, LoseFailure
<1> QED BY <1>1, <1>2, <1>3, <1>4 DEF Fresh

-----------------------------------------------------------------------------
(* Measurements                                                            *)

\* Measured survives a step that leaves the row's attempt and measurements alone
\* and brings no execution to "complete".
LEMMA MeasuredKept ==
  ASSUME Measured, row'.attempt = row.attempt, row'.measured = row.measured,
         \A w \in Runs : runs'[w].pc = "complete"
           => runs[w].pc = "complete" /\ runs'[w].attempt = runs[w].attempt
  PROVE  Measured'
BY DEF Measured

\* A new attempt is nobody's; only FinalizeRow leads to "complete".
LEMMA StepMeasured == TypeOK /\ Fresh /\ Measured /\ Next => Measured'
<1> SUFFICES ASSUME TypeOK, Fresh, Measured, Next PROVE Measured' OBVIOUS
<1>a. gen \in 0..MaxGen BY DEF TypeOK
<1>d. runs \in [Runs -> RunStates] BY DEF TypeOK
<1>r. row \in Rows BY DEF TypeOK
<1>1. ASSUME NEW r \in Requests, Request(r) \/ RequestStep(r) \/ RequestDies(r)
      PROVE  Measured'
  <2>1. CASE OpenRow(r) /\ UNCHANGED runs
    <3>1. row'.attempt = gen + 1 BY <1>r, <2>1 DEF OpenRow, Rows
    <3>2. \A w \in Runs : runs'[w].attempt # gen + 1
      BY <1>a, <1>d, <2>1 DEF Fresh, RunStates
    <3> QED BY <3>1, <3>2 DEF Measured
  <2>2. CASE UNCHANGED <<row, runs>> BY <2>2, MeasuredKept
  <2> QED
    BY <1>1, <2>1, <2>2
       DEF RequestStep, Request, Create, Retry, Reread, GetJob, GetState, Recheck,
           RemoveJob, AddJob, RequestDies
<1>2. ASSUME NEW w \in Runs, RunStep(w) \/ Throw(w) PROVE Measured'
  <2>1. CASE FinalizeRow(w)
    <3>1. CASE RunningFence(runs[w].attempt)
      BY <1>d, <1>r, <2>1, <3>1
         DEF FinalizeRow, RunningFence, UpdateIf, Measured, Rows
    <3>2. CASE ~RunningFence(runs[w].attempt)
      BY <1>d, <2>1, <3>2, MeasuredKept DEF FinalizeRow, UpdateIf, RunGoto, RunStates
    <3> QED BY <3>1, <3>2
  <2>2. CASE ~FinalizeRow(w)
    <3>1. row'.attempt = row.attempt /\ row'.measured = row.measured
      BY <1>2, <1>r, <2>2
         DEF RunStep, Throw, ReadRow, ClaimRow, WriteProgress, SliceReturns, FailRow,
             CompleteRow, Return, UpdateIf, Rows
    <3>2. \A v \in Runs : runs'[v].pc = "complete"
            => runs[v].pc = "complete" /\ runs'[v].attempt = runs[v].attempt
      <4>1. CASE ReadRow(w) \/ ClaimRow(w) \/ SliceReturns(w)
        BY <1>d, <4>1 DEF ReadRow, ClaimRow, SliceReturns, RunGoto, RunStates
      <4>2. CASE FailRow(w) \/ CompleteRow(w)
        BY <1>d, <4>2 DEF FailRow, CompleteRow, RunGoto, RunStates
      <4>3. CASE WriteProgress(w)
        BY <1>d, <4>3 DEF WriteProgress, RunStates, IdleRun
      <4>4. CASE Throw(w) BY <1>d, <4>4 DEF Throw, RunStates, IdleRun
      <4>5. CASE Return(w) BY <1>d, <4>5 DEF Return, IdleRun
      <4> QED BY <1>2, <2>2, <4>1, <4>2, <4>3, <4>4, <4>5 DEF RunStep
    <3> QED BY <3>1, <3>2, MeasuredKept
  <2> QED BY <2>1, <2>2
<1>3. ASSUME NEW w \in Runs, NEW p \in Percents, ReportProgress(w, p) PROVE Measured'
  BY <1>d, <1>3, MeasuredKept DEF ReportProgress, RunStates
<1>4. ASSUME NEW w \in Runs, NEW a \in Gens, StartJob(w, a) PROVE Measured'
  BY <1>d, <1>4, MeasuredKept DEF StartJob, RunStates, IdleRun
<1>5. ASSUME NEW a \in Gens, \/ Promote(a) \/ LoseLock(a) \/ StalledCheck(a)
                              \/ TrimJob(a) \/ WriteFailure(a) \/ LoseFailure(a)
      PROVE  Measured'
  <2>1. runs' = runs
    BY <1>5 DEF Promote, LoseLock, StalledCheck, TrimJob, WriteFailure, LoseFailure
  <2>2. row'.attempt = row.attempt /\ row'.measured = row.measured
    BY <1>5, <1>r DEF Promote, LoseLock, StalledCheck, TrimJob, WriteFailure, LoseFailure,
                      UpdateIf, Rows
  <2> QED BY <2>1, <2>2, MeasuredKept
<1>6. CASE WorkerCrash BY <1>6, MeasuredKept DEF WorkerCrash, IdleRun
<1> QED BY <1>1, <1>2, <1>3, <1>4, <1>5, <1>6 DEF Next

-----------------------------------------------------------------------------
(* Implementation                                                          *)

\* Each step is a step of the contract, or leaves what it talks about alone.
LEMMA StepContract ==
  TypeOK /\ Measured /\ [Next]_vars => [Contract!Next]_(Contract!vars)
<1> SUFFICES ASSUME TypeOK, Measured, [Next]_vars
             PROVE  [Contract!Next]_(Contract!vars)
  OBVIOUS
<1>a. gen \in 0..MaxGen BY DEF TypeOK
<1>r. row \in Rows BY DEF TypeOK
<1>0. ASSUME UNCHANGED <<row, gen>> PROVE [Contract!Next]_(Contract!vars)
  BY <1>0 DEF Contract!vars
<1>1. ASSUME NEW r \in Requests, OpenRow(r), row.status \in {"NONE", "FAILED"}
      PROVE  Contract!Open
  <2>1. row'.attempt = gen + 1 /\ row'.status = "QUEUED" /\ row'.measured = row.measured
    BY <1>r, <1>1 DEF OpenRow, Rows
  <2>2. gen' = gen + 1 /\ gen + 1 \in Gens BY <1>a, <1>1, SliceAssumption DEF OpenRow
  <2>3. gen + 1 \in Gens \ (1..gen) /\ 1..(gen + 1) = (1..gen) \cup {gen + 1}
    BY <1>a, <2>2, SliceAssumption
  <2> QED BY <1>1, <2>1, <2>2, <2>3 DEF Contract!Open
<1>2. ASSUME NEW r \in Requests, Request(r) \/ RequestStep(r) \/ RequestDies(r)
      PROVE  [Contract!Next]_(Contract!vars)
  BY <1>0, <1>1, <1>2
     DEF RequestStep, Request, Create, Retry, RetryFence, Reread, GetJob, GetState, Recheck,
         RemoveJob, AddJob, RequestDies, Contract!Next
<1>3. ASSUME NEW w \in Runs, ClaimRow(w) PROVE [Contract!Next]_(Contract!vars)
  <2>1. CASE LiveFence(runs[w].attempt)
    <3>1. row' = [row EXCEPT !.status = "RUNNING", !.progress = 1] /\ gen' = gen
      BY <1>3, <2>1 DEF ClaimRow, UpdateIf
    <3> QED BY <1>r, <2>1, <3>1
            DEF LiveFence, Live, Rows, Contract!Claim, Contract!Live, Contract!Next
  <2>2. CASE ~LiveFence(runs[w].attempt) BY <1>0, <1>3, <2>2 DEF ClaimRow, UpdateIf
  <2> QED BY <2>1, <2>2
<1>4. ASSUME NEW w \in Runs, WriteProgress(w) PROVE [Contract!Next]_(Contract!vars)
  BY <1>r, <1>4 DEF WriteProgress, UpdateIf, Rows, Contract!vars
<1>5. ASSUME NEW fence, fence => row.status \in Live,
             UpdateIf(fence, [row EXCEPT !.status = "FAILED"]), gen' = gen
      PROVE  [Contract!Next]_(Contract!vars)
  BY <1>0, <1>r, <1>5 DEF UpdateIf, Live, Rows, Contract!Fail, Contract!Live, Contract!Next
<1>6. ASSUME NEW w \in Runs, FinalizeRow(w) PROVE [Contract!Next]_(Contract!vars)
  BY <1>0, <1>r, <1>6
     DEF FinalizeRow, UpdateIf, RunningFence, Rows, Contract!Measure, Contract!Next
<1>7. ASSUME NEW w \in Runs, CompleteRow(w) PROVE [Contract!Next]_(Contract!vars)
  <2>1. CASE RunningFence(runs[w].attempt)
    <3>1. row.measured = row.attempt
      BY <1>7, <2>1 DEF CompleteRow, RunningFence, Measured
    <3>2. row' = [row EXCEPT !.status = "DONE", !.progress = 100] /\ gen' = gen
      BY <1>7, <2>1 DEF CompleteRow, UpdateIf
    <3> QED BY <1>r, <2>1, <3>1, <3>2
            DEF RunningFence, Rows, Contract!Finish, Contract!Next
  <2>2. CASE ~RunningFence(runs[w].attempt)
    BY <1>0, <1>7, <2>2 DEF CompleteRow, UpdateIf
  <2> QED BY <2>1, <2>2
<1>8. ASSUME NEW w \in Runs, RunStep(w) \/ Throw(w)
      PROVE  [Contract!Next]_(Contract!vars)
  <2>1. CASE FailRow(w)
    BY <1>5, <2>1 DEF FailRow, RunningFence, Live
  <2> QED
    BY <1>0, <1>3, <1>4, <1>6, <1>7, <1>8, <2>1
       DEF RunStep, Throw, ReadRow, SliceReturns, Return
<1>9. ASSUME NEW a \in Gens, WriteFailure(a) PROVE [Contract!Next]_(Contract!vars)
  BY <1>5, <1>9 DEF WriteFailure, LiveFence
<1>10. CASE UNCHANGED vars BY <1>0, <1>10 DEF vars
<1>11. CASE Next
  BY <1>0, <1>2, <1>8, <1>9, <1>11
     DEF Next, ReportProgress, StartJob, Promote, LoseLock, StalledCheck, TrimJob,
         LoseFailure, WorkerCrash
<1> QED BY <1>10, <1>11

\* A step of the contract keeps DONE measured: so every step here does.
LEMMA StepInv == IInv /\ [Next]_vars => IInv'
<1> SUFFICES ASSUME IInv, [Next]_vars PROVE IInv' OBVIOUS
<1>1. TypeOK /\ Fresh /\ Measured /\ DoneIsMeasured BY DEF IInv
<1>2. TypeOK' BY <1>1, StepType
<1>3. Fresh' /\ Measured'
  <2>1. CASE UNCHANGED vars BY <1>1, <2>1 DEF vars, Fresh, Measured
  <2>2. CASE Next
    <3>1. Fresh' BY <1>1, <2>2, RequestFresh, RunFresh, QueueFresh DEF Next
    <3>2. Measured' BY <1>1, <2>2, StepMeasured
    <3> QED BY <3>1, <3>2
  <2> QED BY <2>1, <2>2
<1>4. DoneIsMeasured'
  <2>1. [Contract!Next]_(Contract!vars) BY <1>1, StepContract
  <2> QED
    BY <1>1, <2>1
       DEF DoneIsMeasured, Contract!Next, Contract!vars, Contract!Open, Contract!Claim,
           Contract!Measure, Contract!Fail, Contract!Finish
<1> QED BY <1>2, <1>3, <1>4 DEF IInv

\* Checkout never bills a DONE row whose grams another attempt measured.
THEOREM DoneMeasured == Spec => []DoneIsMeasured
<1>1. IInv => DoneIsMeasured BY DEF IInv
<1> QED BY <1>1, InitInv, StepInv, PTL DEF Spec

\* Whatever the requests, executions, faults and bounds, the row keeps
\* SliceContract: DONE is final and FAILED reopens only under a fresh attempt.
THEOREM Implements == Spec => KeepsContract
<1>1. Init => Contract!Init BY DEF Init, Contract!Init
<1>2. IInv /\ [Next]_vars => [Contract!Next]_(Contract!vars) BY StepContract DEF IInv
<1> QED BY <1>1, <1>2, InitInv, StepInv, PTL DEF Spec, KeepsContract, Contract!Spec
-----------------------------------------------------------------------------
(* Work                                                                    *)

\* An attempt whose terminal failure is still to be written, or that a fault stranded.
Owed(a) == a \in failing \cup stranded

\* A live row runs under an attempt that was handed out.
Numbered == row.status \in Live => row.attempt \in Gens

\* An execution that is about to return has met the end of its attempt.
Returned == \A w \in Runs : runs[w].pc = "return" => ~LiveFence(runs[w].attempt)

\* The attempt of an execution that has claimed is not queued again.
Claimed ==
  \A w \in Runs :
    runs[w].pc \in {"slice", "fail", "finalize", "complete"}
      => ~(row.attempt = runs[w].attempt /\ row.status = "QUEUED")

\* A job ends only with its attempt, or leaves the rest to a failed event or a fault.
Ended ==
  \A a \in Gens :
    jobs[a].state \in {"completed", "failed"} /\ LiveFence(a) => Owed(a)

WorkInv == Numbered /\ Returned /\ Claimed /\ Ended /\ LiveRowHasWork

LEMMA InitWork == Init => WorkInv
BY DEF Init, WorkInv, Numbered, Returned, Claimed, Ended, LiveRowHasWork, LiveFence, Live,
       IdleRun, NoJob

\* What a step that opens no row may do to it: an attempt stays, and a status once left
\* does not return.
Forward ==
  /\ row'.attempt = row.attempt
  /\ row'.status \in Live => row.status \in Live
  /\ row'.status = "QUEUED" => row.status = "QUEUED"

\* A web request leaves a live row a job or a request that adds one.
LEMMA RequestWork ==
  ASSUME TypeOK, Fresh, WorkInv, NEW r \in Requests,
         Request(r) \/ RequestStep(r) \/ RequestDies(r)
  PROVE  WorkInv'
<1>a. gen \in 0..MaxGen BY DEF TypeOK
<1>c. jobs \in [Gens -> Jobs] BY DEF TypeOK
<1>d. runs \in [Runs -> RunStates] BY DEF TypeOK
<1>e. reqs \in [Requests -> ReqStates] BY DEF TypeOK
<1>r. row \in Rows BY DEF TypeOK
<1>w. Numbered /\ Returned /\ Claimed /\ Ended /\ LiveRowHasWork BY DEF WorkInv
<1>1. CASE OpenRow(r) /\ UNCHANGED <<jobs, runs>>
  <2>1. row'.attempt = gen + 1 /\ gen + 1 \in Gens
    BY <1>1, <1>a, <1>r, SliceAssumption DEF OpenRow, Rows
  <2>2. \A w \in Runs : runs'[w].attempt # gen + 1
    BY <1>1, <1>a, <1>d DEF Fresh, RunStates
  <2>3. jobs'[gen + 1].state = "absent"
    BY <1>1, <1>a, <2>1 DEF Fresh
  <2>4. Returned' /\ Claimed' BY <2>1, <2>2 DEF Returned, Claimed, LiveFence
  <2>5. Ended' BY <2>1, <2>3 DEF Ended, LiveFence
  <2>6. reqs'[r].pc = "add" /\ reqs'[r].attempt = gen + 1
    BY <1>1, <1>e DEF OpenRow, IdleReq
  <2> QED BY <2>1, <2>4, <2>5, <2>6 DEF WorkInv, Numbered, LiveRowHasWork
<1>2. CASE RemoveJob(r)
  <2>1. row' = row /\ runs' = runs /\ failing' = failing /\ stranded' = stranded
    BY <1>2 DEF RemoveJob
  <2>2. Returned' /\ Claimed' /\ Numbered'
    BY <1>w, <2>1 DEF Returned, Claimed, Numbered, LiveFence
  <2>3. reqs'[r].pc = "add" /\ reqs'[r].attempt = reqs[r].attempt
    BY <1>2, <1>e DEF RemoveJob, Goto, ReqStates
  <2>4. \A q \in Requests : q # r => reqs'[q] = reqs[q]
    BY <1>2, <1>e DEF RemoveJob, Goto
  <2>5. \A b \in Gens : b = reqs[r].attempt \/ jobs'[b] = jobs[b]
    BY <1>2, <1>c DEF RemoveJob
  <2>6. \A b \in Gens : jobs'[b] = jobs[b] \/ jobs'[b] = NoJob
    BY <1>2, <1>c DEF RemoveJob
  <2>7. Ended' BY <1>w, <2>1, <2>6 DEF Ended, Owed, LiveFence, NoJob
  <2>8. reqs[r].pc # "add" BY <1>2 DEF RemoveJob
  <2>9. LiveRowHasWork'
    BY <1>w, <2>1, <2>3, <2>4, <2>5, <2>8 DEF LiveRowHasWork, Numbered
  <2> QED BY <2>2, <2>7, <2>9 DEF WorkInv
<1>3. CASE AddJob(r)
  <2>1. row' = row /\ runs' = runs /\ failing' = failing BY <1>3 DEF AddJob
  <2>2. Returned' /\ Claimed' /\ Numbered'
    BY <1>w, <2>1 DEF Returned, Claimed, Numbered, LiveFence
  <2>3. \A q \in Requests : q # r => reqs'[q] = reqs[q]
    BY <1>3, <1>e DEF AddJob, Respond
  <2>4. CASE jobs[reqs[r].attempt].state = "absent"
    <3>1. jobs' = [jobs EXCEPT ![reqs[r].attempt] = NewJob] BY <1>3, <2>4 DEF AddJob
    <3>2. stranded' = stranded \ {reqs[r].attempt} BY <1>3, <2>4 DEF AddJob
    <3>3. \A b \in Gens : \/ (jobs'[b] = jobs[b] /\ b # reqs[r].attempt)
                           \/ jobs'[b].state = "waiting"
      BY <1>c, <3>1 DEF NewJob, NoJob
    <3>4. Ended' BY <1>w, <2>1, <3>2, <3>3 DEF Ended, Owed, LiveFence
    <3>5. LiveRowHasWork'
      BY <1>w, <2>1, <2>3, <3>2, <3>3 DEF LiveRowHasWork, Numbered, LiveJob
    <3> QED BY <2>2, <3>4, <3>5 DEF WorkInv
  <2>5. CASE jobs[reqs[r].attempt].state # "absent"
    <3>1. jobs' = jobs /\ stranded' = stranded BY <1>3, <2>5 DEF AddJob
    <3>2. Ended' BY <1>w, <2>1, <3>1 DEF Ended, Owed, LiveFence
    <3>3. row.attempt = reqs[r].attempt /\ row.status \in Live
            => jobs[row.attempt].state \in LiveJob \/ Owed(row.attempt)
      BY <1>w, <1>c, <2>5 DEF Numbered, Ended, LiveFence, Jobs, JobStates
    <3>4. LiveRowHasWork'
      BY <1>w, <2>1, <2>3, <3>1, <3>3 DEF LiveRowHasWork, Owed
    <3> QED BY <2>2, <3>2, <3>4 DEF WorkInv
  <2> QED BY <2>4, <2>5
<1>4. CASE RequestDies(r)
  <2>1. row' = row /\ runs' = runs /\ jobs' = jobs /\ failing' = failing
        /\ stranded \subseteq stranded'
    BY <1>4 DEF RequestDies
  <2>2. Returned' /\ Claimed' /\ Numbered' /\ Ended'
    BY <1>w, <2>1 DEF Returned, Claimed, Numbered, Ended, Owed, LiveFence
  <2>3. \A q \in Requests : reqs'[q] = reqs[q] \/ q = r
    BY <1>4, <1>e DEF RequestDies, Respond
  <2>4. reqs[r].pc = "add" => reqs[r].attempt \in stranded' BY <1>4 DEF RequestDies
  <2>5. LiveRowHasWork' BY <1>w, <2>1, <2>3, <2>4 DEF LiveRowHasWork
  <2> QED BY <2>2, <2>5 DEF WorkInv
<1>5. CASE /\ UNCHANGED <<row, jobs, runs, failing, stranded>> /\ reqs[r].pc # "add"
           /\ \A q \in Requests : q # r => reqs'[q] = reqs[q]
  BY <1>w, <1>5
     DEF WorkInv, Returned, Claimed, Numbered, Ended, Owed, LiveFence, LiveRowHasWork
<1>6. CASE Request(r) \/ Reread(r)
  BY <1>5, <1>6, <1>e DEF Request, Reread, EnsureOrRespond, Respond
<1>7. CASE GetJob(r) \/ GetState(r) \/ Recheck(r)
  BY <1>5, <1>7, <1>e DEF GetJob, GetState, Recheck, Goto, Respond
<1>8. CASE Create(r) \/ Retry(r)
  BY <1>1, <1>5, <1>8, <1>e DEF Create, Retry, Goto
<1> QED BY <1>2, <1>3, <1>4, <1>6, <1>7, <1>8 DEF RequestStep

\* An execution ends its job only when the attempt has ended, or the event is raised.
LEMMA RunWork ==
  ASSUME TypeOK, WorkInv, NEW w \in Runs, RunStep(w) \/ Throw(w)
  PROVE  WorkInv'
<1>c. jobs \in [Gens -> Jobs] BY DEF TypeOK
<1>d. runs \in [Runs -> RunStates] BY DEF TypeOK
<1>r. row \in Rows BY DEF TypeOK
<1>w. Numbered /\ Returned /\ Claimed /\ Ended /\ LiveRowHasWork BY DEF WorkInv
<1>1. Forward
  BY <1>r DEF RunStep, Throw, ReadRow, ClaimRow, WriteProgress, SliceReturns, FailRow,
              FinalizeRow, CompleteRow, Return, UpdateIf, LiveFence, RunningFence, Rows,
              Live, Forward
<1>2. reqs' = reqs /\ stranded' = stranded /\ failing \subseteq failing'
  BY DEF RunStep, Throw, ReadRow, ClaimRow, WriteProgress, SliceReturns, FailRow,
         FinalizeRow, CompleteRow, Return, FailedEvent
<1>3. \A v \in Runs : v # w => runs'[v] = runs[v]
  <2>1. CASE ReadRow(w) \/ ClaimRow(w) \/ SliceReturns(w) \/ FailRow(w)
    BY <1>d, <2>1 DEF ReadRow, ClaimRow, SliceReturns, FailRow, RunGoto
  <2>2. CASE WriteProgress(w) \/ FinalizeRow(w) \/ CompleteRow(w) \/ Return(w) \/ Throw(w)
    BY <1>d, <2>2 DEF WriteProgress, FinalizeRow, CompleteRow, Return, Throw, RunGoto
  <2> QED BY <2>1, <2>2 DEF RunStep
<1>4. Numbered' BY <1>1, <1>w DEF Forward, Numbered
<1>5. Returned'
  <2>1. runs'[w].pc = "return" => ~LiveFence(runs[w].attempt)'
    <3>1. CASE ReadRow(w)
      BY <1>d, <3>1 DEF ReadRow, RunGoto, RunStates, LiveFence
    <3>2. CASE ClaimRow(w)
      BY <1>d, <3>2 DEF ClaimRow, UpdateIf, RunStates, LiveFence
    <3>3. CASE FailRow(w)
      <4>1. runs'[w].attempt = runs[w].attempt BY <1>d, <3>3 DEF FailRow, RunGoto, RunStates
      <4>2. CASE RunningFence(runs[w].attempt)
        BY <1>r, <3>3, <4>2 DEF FailRow, UpdateIf, LiveFence, Live, Rows
      <4>3. CASE ~RunningFence(runs[w].attempt)
        BY <1>w, <3>3, <4>1, <4>3 DEF FailRow, UpdateIf, RunningFence, LiveFence, Live, Claimed
      <4> QED BY <4>2, <4>3
    <3>4. CASE FinalizeRow(w)
      BY <1>w, <1>d, <3>4 DEF FinalizeRow, UpdateIf, RunGoto, RunStates, RunningFence,
                              LiveFence, Live, Claimed
    <3>5. CASE CompleteRow(w)
      <4>1. runs'[w].attempt = runs[w].attempt
        BY <1>d, <3>5 DEF CompleteRow, RunGoto, RunStates
      <4>2. CASE RunningFence(runs[w].attempt)
        BY <1>r, <3>5, <4>2 DEF CompleteRow, UpdateIf, LiveFence, Live, Rows
      <4>3. CASE ~RunningFence(runs[w].attempt)
        BY <1>w, <3>5, <4>1, <4>3 DEF CompleteRow, UpdateIf, RunningFence, LiveFence, Live, Claimed
      <4> QED BY <4>2, <4>3
    <3>6. CASE WriteProgress(w)
      <4>1. runs'[w].pc = "return" => runs[w].pc = "return" /\ runs'[w].attempt = runs[w].attempt
        BY <1>d, <3>6 DEF WriteProgress, RunStates, IdleRun
      <4> QED BY <1>1, <1>w, <4>1 DEF Returned, Forward, LiveFence
    <3>7. CASE SliceReturns(w) BY <1>d, <3>7 DEF SliceReturns, RunStates
    <3>8. CASE Return(w) BY <1>d, <3>8 DEF Return, IdleRun
    <3>9. CASE Throw(w) BY <1>d, <3>9 DEF Throw, RunStates, IdleRun
    <3> QED BY <3>1, <3>2, <3>3, <3>4, <3>5, <3>6, <3>7, <3>8, <3>9 DEF RunStep
  <2> QED BY <1>1, <1>3, <1>w, <2>1 DEF Returned, Forward, LiveFence
<1>6. Claimed'
  <2>1. runs'[w].pc \in {"slice", "fail", "finalize", "complete"}
          => ~(row'.attempt = runs'[w].attempt /\ row'.status = "QUEUED")
    <3>1. CASE ClaimRow(w)
      BY <1>d, <1>r, <3>1 DEF ClaimRow, UpdateIf, RunStates, Rows
    <3>2. CASE ~ClaimRow(w)
      <4>1. runs'[w].pc \in {"slice", "fail", "finalize", "complete"}
              => /\ runs[w].pc \in {"slice", "fail", "finalize", "complete"}
                 /\ runs'[w].attempt = runs[w].attempt
        <5>1. CASE ReadRow(w) \/ SliceReturns(w)
          BY <1>d, <5>1 DEF ReadRow, SliceReturns, RunGoto, RunStates
        <5>2. CASE FailRow(w) \/ FinalizeRow(w) \/ CompleteRow(w)
          BY <1>d, <5>2 DEF FailRow, FinalizeRow, CompleteRow, RunGoto, RunStates
        <5>3. CASE WriteProgress(w) BY <1>d, <5>3 DEF WriteProgress, RunStates, IdleRun
        <5>4. CASE Return(w) BY <1>d, <5>4 DEF Return, IdleRun
        <5>5. CASE Throw(w) BY <1>d, <5>5 DEF Throw, RunStates, IdleRun
        <5> QED BY <3>2, <5>1, <5>2, <5>3, <5>4, <5>5 DEF RunStep
      <4> QED BY <1>1, <1>w, <4>1 DEF Claimed, Forward
    <3> QED BY <3>1, <3>2
  <2> QED BY <1>1, <1>3, <1>w, <2>1 DEF Claimed, Forward
<1>7. CASE jobs' = jobs
  BY <1>1, <1>2, <1>4, <1>5, <1>6, <1>7, <1>w
     DEF WorkInv, Ended, Owed, LiveRowHasWork, Forward, LiveFence
<1>8. CASE Return(w) /\ jobs' # jobs
  <2>1. /\ jobs' = [jobs EXCEPT ![runs[w].attempt].state = "completed",
                                ![runs[w].attempt].lock = NoRun]
        /\ row' = row /\ failing' = failing
    BY <1>8 DEF Return
  <2>2. ~LiveFence(runs[w].attempt) BY <1>8, <1>w DEF Return, Returned
  <2>3. \A b \in Gens : b # runs[w].attempt => jobs'[b] = jobs[b] BY <1>c, <2>1
  <2>4. Ended' BY <1>2, <1>w, <2>1, <2>2, <2>3 DEF Ended, Owed, LiveFence
  <2>5. LiveRowHasWork'
    BY <1>2, <1>w, <2>1, <2>2, <2>3 DEF LiveRowHasWork, LiveFence, Numbered
  <2> QED BY <1>4, <1>5, <1>6, <2>4, <2>5 DEF WorkInv
<1>9. CASE Throw(w) /\ jobs' # jobs
  <2> DEFINE a == runs[w].attempt
  <2>1. row' = row BY <1>9 DEF Throw
  <2>2. \A b \in Gens : b # a => jobs'[b] = jobs[b] BY <1>9, <1>c DEF Throw
  <2>3. a \in Gens => \/ jobs'[a].state \in LiveJob
                      \/ a \in failing'
    BY <1>9, <1>c, SliceAssumption DEF Throw, FailedEvent, LiveJob, Jobs
  <2>4. a \in Gens => jobs'[a].state \notin {"completed"}
    BY <1>9, <1>c DEF Throw, Jobs
  <2>5. a \in Gens /\ jobs'[a].state = "failed" => a \in failing'
    BY <2>3 DEF LiveJob
  <2>6. Ended' BY <1>2, <1>w, <2>1, <2>2, <2>4, <2>5 DEF Ended, Owed, LiveFence
  <2>7. LiveRowHasWork'
    BY <1>2, <1>w, <2>1, <2>2, <2>3 DEF LiveRowHasWork, Numbered
  <2> QED BY <1>4, <1>5, <1>6, <2>6, <2>7 DEF WorkInv
<1> QED
  BY <1>7, <1>8, <1>9
     DEF RunStep, ReadRow, ClaimRow, WriteProgress, SliceReturns, FailRow, FinalizeRow,
         CompleteRow

\* BullMQ ends a job with a failed event, or strands its attempt; it forgets only ended jobs.
LEMMA QueueWork ==
  ASSUME TypeOK, WorkInv,
         \/ \E w \in Runs, p \in Percents : ReportProgress(w, p)
         \/ \E w \in Runs, a \in Gens : StartJob(w, a)
         \/ \E a \in Gens : \/ Promote(a) \/ LoseLock(a) \/ StalledCheck(a)
                            \/ TrimJob(a) \/ WriteFailure(a) \/ LoseFailure(a)
         \/ WorkerCrash
  PROVE  WorkInv'
<1>c. jobs \in [Gens -> Jobs] BY DEF TypeOK
<1>d. runs \in [Runs -> RunStates] BY DEF TypeOK
<1>r. row \in Rows BY DEF TypeOK
<1>w. Numbered /\ Returned /\ Claimed /\ Ended /\ LiveRowHasWork BY DEF WorkInv
<1>1. reqs' = reqs
  BY DEF ReportProgress, StartJob, Promote, LoseLock, StalledCheck, TrimJob, WriteFailure,
         LoseFailure, WorkerCrash
<1>2. Forward
  BY <1>r DEF ReportProgress, StartJob, Promote, LoseLock, StalledCheck, TrimJob,
              WriteFailure, LoseFailure, WorkerCrash, UpdateIf, LiveFence, Live, Rows, Forward
\* Executions go on as they were, begin to read, or end.
<1>3. ASSUME \A v \in Runs : \/ runs'[v].pc \in {"idle", "read"}
                             \/ /\ runs'[v].pc = runs[v].pc
                                /\ runs'[v].attempt = runs[v].attempt
      PROVE  Numbered' /\ Returned' /\ Claimed'
  BY <1>2, <1>3, <1>w DEF Forward, LiveFence, Numbered, Returned, Claimed
<1>4. ASSUME row' = row, failing \cup stranded \subseteq failing' \cup stranded',
             \A b \in Gens : \/ jobs'[b].state = jobs[b].state
                             \/ jobs'[b].state \in LiveJob
                             \/ Owed(b)'
                             \/ (jobs'[b].state = "absent" /\ jobs[b].state \in {"completed", "failed"})
      PROVE  Ended' /\ LiveRowHasWork'
  BY <1>1, <1>4, <1>w DEF Ended, Owed, LiveFence, LiveRowHasWork, LiveJob, Numbered
<1>5. ASSUME NEW w \in Runs, NEW p \in Percents, ReportProgress(w, p) PROVE WorkInv'
  <2>1. \A v \in Runs : runs'[v].pc = runs[v].pc /\ runs'[v].attempt = runs[v].attempt
    BY <1>5, <1>d DEF ReportProgress, RunStates
  <2> QED BY <1>3, <1>4, <1>5, <2>1 DEF ReportProgress, WorkInv
<1>6. ASSUME NEW w \in Runs, NEW a \in Gens, StartJob(w, a) PROVE WorkInv'
  <2>1. \A v \in Runs : runs'[v] = runs[v] \/ runs'[v].pc = "read"
    BY <1>6, <1>d DEF StartJob, IdleRun
  <2>2. \A b \in Gens : jobs'[b] = jobs[b] \/ jobs'[b].state = "active"
    BY <1>6, <1>c DEF StartJob, Jobs
  <2> QED BY <1>3, <1>4, <1>6, <2>1, <2>2 DEF StartJob, WorkInv, LiveJob
<1>7. ASSUME NEW a \in Gens, Promote(a) PROVE WorkInv'
  <2>1. \A b \in Gens : jobs'[b] = jobs[b] \/ jobs'[b].state = "waiting"
    BY <1>7, <1>c DEF Promote, Jobs
  <2> QED BY <1>3, <1>4, <1>7, <2>1 DEF Promote, WorkInv, LiveJob
<1>8. ASSUME NEW a \in Gens, LoseLock(a) PROVE WorkInv'
  <2>1. \A b \in Gens : jobs'[b].state = jobs[b].state
    BY <1>8, <1>c DEF LoseLock, Jobs
  <2> QED BY <1>3, <1>4, <1>8, <2>1 DEF LoseLock, WorkInv
<1>9. ASSUME NEW a \in Gens, StalledCheck(a) PROVE WorkInv'
  <2>1. failing \cup stranded \subseteq failing' \cup stranded'
    BY <1>9 DEF StalledCheck, FailedEvent
  <2>2. \A b \in Gens : b # a => jobs'[b] = jobs[b] BY <1>9, <1>c DEF StalledCheck
  <2>3. jobs'[a].state \in LiveJob \/ Owed(a)'
    BY <1>9, <1>c, SliceAssumption DEF StalledCheck, FailedEvent, LiveJob, Owed, Jobs
  <2> QED BY <1>3, <1>4, <1>9, <2>1, <2>2, <2>3 DEF StalledCheck, WorkInv
<1>10. ASSUME NEW a \in Gens, TrimJob(a) PROVE WorkInv'
  <2>1. \A b \in Gens : \/ jobs'[b] = jobs[b]
                        \/ (jobs'[b].state = "absent" /\ jobs[b].state \in {"completed", "failed"})
    BY <1>10, <1>c DEF TrimJob, NoJob
  <2> QED BY <1>3, <1>4, <1>10, <2>1 DEF TrimJob, WorkInv
<1>11. ASSUME NEW a \in Gens, WriteFailure(a) PROVE WorkInv'
  <2>1. jobs' = jobs /\ runs' = runs /\ stranded' = stranded /\ failing' = failing \ {a}
    BY <1>11 DEF WriteFailure
  <2>2. ~LiveFence(a)'
    BY <1>11, <1>r DEF WriteFailure, UpdateIf, LiveFence, Live, Rows
  <2>3. Ended' BY <1>2, <1>w, <2>1, <2>2 DEF Ended, Owed, Forward, LiveFence
  <2>4. LiveRowHasWork'
    BY <1>1, <1>2, <1>w, <2>1, <2>2 DEF LiveRowHasWork, Forward, LiveFence
  <2> QED BY <1>3, <2>1, <2>3, <2>4 DEF WorkInv
<1>12. ASSUME NEW a \in Gens, LoseFailure(a) PROVE WorkInv'
  BY <1>3, <1>4, <1>12 DEF LoseFailure, WorkInv
<1>13. CASE WorkerCrash
  <2>1. \A b \in Gens : jobs'[b].state = jobs[b].state
    BY <1>13, <1>c DEF WorkerCrash, Jobs
  <2>2. \A v \in Runs : runs'[v].pc = "idle" BY <1>13 DEF WorkerCrash, IdleRun
  <2> QED BY <1>3, <1>4, <1>13, <2>1, <2>2 DEF WorkerCrash, WorkInv
<1> QED BY <1>5, <1>6, <1>7, <1>8, <1>9, <1>10, <1>11, <1>12, <1>13

LEMMA StepWork == TypeOK /\ Fresh /\ WorkInv /\ [Next]_vars => WorkInv'
<1> SUFFICES ASSUME TypeOK, Fresh, WorkInv, [Next]_vars PROVE WorkInv' OBVIOUS
<1>1. CASE UNCHANGED vars
  BY <1>1 DEF vars, WorkInv, Numbered, Returned, Claimed, Ended, Owed, LiveFence, LiveRowHasWork
<1>2. CASE Next BY <1>2, RequestWork, RunWork, QueueWork DEF Next
<1> QED BY <1>1, <1>2

\* A row never waits for work that nothing will do: whatever crashes, stalls, is trimmed or
\* replaced, a live row has a job, a request about to add one, or its failure about to be
\* written, unless one of the four named faults stranded it.
THEOREM NeverIdle == Spec => []LiveRowHasWork
<1>1. IInv /\ WorkInv /\ [Next]_vars => WorkInv' BY StepWork DEF IInv
<1>2. WorkInv => LiveRowHasWork BY DEF WorkInv
<1> QED BY <1>1, <1>2, InitInv, InitWork, StepInv, PTL DEF Spec
=============================================================================
