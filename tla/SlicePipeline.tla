--------------------------- MODULE SlicePipeline ---------------------------
(***************************************************************************)
(* One SliceResult row (one model file at one set of slice settings) and   *)
(* everything that moves it: web requests (POST /api/slices), the BullMQ   *)
(* slice queue, the worker's processor, and the queue's `failed' events.   *)
(*                                                                         *)
(* A step is one database statement, one Redis command, or the work        *)
(* between two awaits.  Rows share nothing but the slicer identities       *)
(* (module SlicerPool), so one row is enough.  An attempt id is a random   *)
(* UUID; here it is the number of ids handed out, so that it is fresh.     *)
(* BullMQ keys a job by the attempt id, so jobs are indexed by it.         *)
(***************************************************************************)
EXTENDS Naturals, FiniteSets, TLC

CONSTANTS
  Requests,    \* web requests in flight for the row
  Runs,        \* executions of the worker's processor, their writers included
  NoRun,       \* no execution
  MaxGen,      \* bound: attempt ids handed out
  MaxAttempts, \* defaultJobOptions.attempts of the slice queue
  MaxStalled,  \* BullMQ's maxStalledCount
  Percents,    \* what the slicer reports, clamped and rounded
  MaxFaults    \* bound: crashes, lost locks and failed writes

ASSUME SliceAssumption ==
  /\ NoRun \notin Runs
  /\ MaxGen \in Nat
  /\ MaxAttempts \in Nat \ {0}
  /\ MaxStalled \in Nat
  /\ Percents \subseteq 1..97
  /\ MaxFaults \in Nat

VARIABLES
  row,      \* the SliceResult row
  gen,      \* attempt ids handed out
  jobs,     \* the BullMQ job of each attempt
  runs,     \* executions of processJob
  reqs,     \* executions of POST /api/slices
  failing,  \* attempts whose terminal `failed' event is still to be written
  faults,   \* faults so far
  stranded  \* attempts of which a fault has taken the last thing that would move them

vars == <<row, gen, jobs, runs, reqs, failing, faults, stranded>>

Gens == 1..MaxGen
Live == {"QUEUED", "RUNNING"}
Statuses == {"NONE", "DONE", "FAILED"} \cup Live
LiveJob == {"waiting", "active", "delayed"}
JobStates == {"absent", "completed", "failed"} \cup LiveJob

NoJob == [state |-> "absent", made |-> 0, stalls |-> 0, lock |-> NoRun]
NewJob == [NoJob EXCEPT !.state = "waiting"]
IdleRun == [pc |-> "idle", attempt |-> 0, last |-> 0, queued |-> 0]
IdleReq == [pc |-> "idle", attempt |-> 0]

Init ==
  /\ row = [status |-> "NONE", attempt |-> 0, progress |-> 0, measured |-> 0]
  /\ gen = 0
  /\ jobs = [a \in Gens |-> NoJob]
  /\ runs = [w \in Runs |-> IdleRun]
  /\ reqs = [r \in Requests |-> IdleReq]
  /\ failing = {}
  /\ faults = 0
  /\ stranded = {}

-----------------------------------------------------------------------------
(* The fences of slice-state.ts: the WHERE of each conditional update.     *)

\* Mutant: the fence forgets the status, so a terminal row is reopened.
LiveFence_AnyStatus(a) == row.attempt = a

LiveFence(a) == row.attempt = a /\ row.status \in Live

\* Mutant: the fence forgets the generation.
RunningFence_AnyAttempt(a) == row.status = "RUNNING"

RunningFence(a) == row.attempt = a /\ row.status = "RUNNING"

(* updateMany: the write happens only behind its fence; "count" is fence.  *)
UpdateIf(fence, new) == row' = IF fence THEN new ELSE row

-----------------------------------------------------------------------------
(* POST /api/slices                                                        *)

Goto(r, pc) == reqs' = [reqs EXCEPT ![r].pc = pc]
Respond(r) == reqs' = [reqs EXCEPT ![r] = IdleReq]

\* A read of the row that found it live checks its job; otherwise it answers.
EnsureOrRespond(r) ==
  IF row.status \in Live
  THEN reqs' = [reqs EXCEPT ![r] = [pc |-> "getJob", attempt |-> row.attempt]]
  ELSE Respond(r)

\* findUnique on (fileHash, settingsKey).
Request(r) ==
  /\ reqs[r].pc = "idle"
  /\ \/ /\ row.status = "NONE"
        /\ reqs' = [reqs EXCEPT ![r] = [IdleReq EXCEPT !.pc = "create"]]
     \/ /\ row.status = "FAILED"
        /\ reqs' = [reqs EXCEPT ![r] = [IdleReq EXCEPT !.pc = "retry",
                                                       !.attempt = row.attempt]]
     \/ /\ row.status \in Live \cup {"DONE"}
        /\ EnsureOrRespond(r)
  /\ UNCHANGED <<row, gen, jobs, runs, failing, faults, stranded>>

\* Hand out an attempt id and open the row under it.
OpenRow(r) ==
  /\ gen < MaxGen
  /\ gen' = gen + 1
  /\ row' = [row EXCEPT !.status = "QUEUED", !.attempt = gen + 1, !.progress = 0]
  /\ reqs' = [reqs EXCEPT ![r] = [IdleReq EXCEPT !.pc = "add", !.attempt = gen + 1]]

\* Mutant: an upsert where the code creates.
Create_Upsert(r) ==
  /\ reqs[r].pc = "create"
  /\ OpenRow(r)
  /\ UNCHANGED <<jobs, runs, failing, faults, stranded>>

\* create; the unique constraint sends every later creator to the winner's row.
Create(r) ==
  /\ reqs[r].pc = "create"
  /\ \/ /\ row.status = "NONE"
        /\ OpenRow(r)
     \/ /\ row.status # "NONE"
        /\ Goto(r, "reread")
        /\ UNCHANGED <<row, gen>>
  /\ UNCHANGED <<jobs, runs, failing, faults, stranded>>

RetryFence(r) == row.attempt = reqs[r].attempt /\ row.status = "FAILED"

\* updateMany where the attempt read is still the FAILED one.
Retry(r) ==
  /\ reqs[r].pc = "retry"
  /\ \/ /\ RetryFence(r)
        /\ OpenRow(r)
     \/ /\ ~RetryFence(r)
        /\ Goto(r, "reread")
        /\ UNCHANGED <<row, gen>>
  /\ UNCHANGED <<jobs, runs, failing, faults, stranded>>

\* The loser of Create or Retry reads the row again.
Reread(r) ==
  /\ reqs[r].pc = "reread"
  /\ EnsureOrRespond(r)
  /\ UNCHANGED <<row, gen, jobs, runs, failing, faults, stranded>>

\* enqueue with ensureLiveJob: getJob, then getState of what it found.
GetJob(r) ==
  /\ reqs[r].pc = "getJob"
  /\ Goto(r, IF jobs[reqs[r].attempt].state = "absent" THEN "recheckNone" ELSE "getState")
  /\ UNCHANGED <<row, gen, jobs, runs, failing, faults, stranded>>

\* Mutant: any job still in the queue's keys counts as live.
GetState_AnyJob(r) ==
  /\ reqs[r].pc = "getState"
  /\ Respond(r)
  /\ UNCHANGED <<row, gen, jobs, runs, failing, faults, stranded>>

GetState(r) ==
  /\ reqs[r].pc = "getState"
  /\ IF jobs[reqs[r].attempt].state \in LiveJob THEN Respond(r) ELSE Goto(r, "recheckDead")
  /\ UNCHANGED <<row, gen, jobs, runs, failing, faults, stranded>>

\* The row is read again before a job that looked dead is replaced.
Recheck(r) ==
  /\ reqs[r].pc \in {"recheckNone", "recheckDead"}
  /\ IF LiveFence(reqs[r].attempt)
     THEN Goto(r, IF reqs[r].pc = "recheckDead" THEN "remove" ELSE "add")
     ELSE Respond(r)
  /\ UNCHANGED <<row, gen, jobs, runs, failing, faults, stranded>>

\* queue.remove refuses a locked job; the route swallows the refusal.
RemoveJob(r) ==
  /\ reqs[r].pc = "remove"
  /\ LET a == reqs[r].attempt IN
       jobs' = IF jobs[a].lock = NoRun THEN [jobs EXCEPT ![a] = NoJob] ELSE jobs
  /\ Goto(r, "add")
  /\ UNCHANGED <<row, gen, runs, failing, faults, stranded>>

\* Mutant: one job id per row instead of one per attempt (slice-job.ts:22-25).
AddJob_SharedId(r) ==
  /\ reqs[r].pc = "add"
  /\ jobs' = IF jobs[1].state = "absent" THEN [jobs EXCEPT ![1] = NewJob] ELSE jobs
  /\ Respond(r)
  /\ UNCHANGED <<row, gen, runs, failing, faults, stranded>>

\* queue.add ignores a job id that still exists, in whatever state.
AddJob(r) ==
  /\ reqs[r].pc = "add"
  /\ LET a == reqs[r].attempt IN
       IF jobs[a].state = "absent"
       THEN /\ jobs' = [jobs EXCEPT ![a] = NewJob]
            /\ stranded' = stranded \ {a}
       ELSE UNCHANGED <<jobs, stranded>>
  /\ Respond(r)
  /\ UNCHANGED <<row, gen, runs, failing, faults>>

\* The web process stops, or Redis or the database fails the call.
RequestDies(r) ==
  /\ faults < MaxFaults
  /\ reqs[r].pc # "idle"
  /\ Respond(r)
  /\ faults' = faults + 1
  /\ stranded' = stranded \cup (IF reqs[r].pc = "add" THEN {reqs[r].attempt} ELSE {})
  /\ UNCHANGED <<row, gen, jobs, runs, failing>>

RequestStep(r) ==
  \/ Create(r) \/ Retry(r) \/ Reread(r)
  \/ GetJob(r) \/ GetState(r) \/ Recheck(r) \/ RemoveJob(r) \/ AddJob(r)

-----------------------------------------------------------------------------
(* The worker's processor: processJob in apps/worker/src/index.ts          *)

RunGoto(w, pc) == runs' = [runs EXCEPT ![w].pc = pc]

\* BullMQ hands a waiting job to an execution and locks it.
StartJob(w, a) ==
  /\ runs[w] = IdleRun
  /\ jobs[a].state = "waiting"
  /\ jobs' = [jobs EXCEPT ![a].state = "active", ![a].lock = w]
  /\ runs' = [runs EXCEPT ![w] = [IdleRun EXCEPT !.pc = "read", !.attempt = a]]
  /\ UNCHANGED <<row, gen, reqs, failing, faults, stranded>>

\* findUnique; another attempt's job is a no-op.
ReadRow(w) ==
  /\ runs[w].pc = "read"
  /\ RunGoto(w, IF row.attempt = runs[w].attempt THEN "claim" ELSE "return")
  /\ UNCHANGED <<row, gen, jobs, reqs, failing, faults, stranded>>

\* claimSliceAttempt; lastProgress starts at 1.
ClaimRow(w) ==
  LET claimed == LiveFence(runs[w].attempt) IN
  /\ runs[w].pc = "claim"
  /\ UpdateIf(claimed, [row EXCEPT !.status = "RUNNING", !.progress = 1])
  /\ runs' = [runs EXCEPT ![w].pc = IF claimed THEN "slice" ELSE "return",
                          ![w].last = IF claimed THEN 1 ELSE 0]
  /\ UNCHANGED <<gen, jobs, reqs, failing, faults, stranded>>

\* reportProgress: only an advance is kept, and only the newest one.
ReportProgress(w, p) ==
  /\ runs[w].pc = "slice"
  /\ p > runs[w].last
  /\ runs' = [runs EXCEPT ![w].last = p, ![w].queued = p]
  /\ UNCHANGED <<row, gen, jobs, reqs, failing, faults, stranded>>

\* drainProgress: the detached writer, which a processor that threw leaves behind.
WriteProgress(w) ==
  /\ runs[w].queued # 0
  /\ UpdateIf(RunningFence(runs[w].attempt), [row EXCEPT !.progress = runs[w].queued])
  /\ runs' = [runs EXCEPT ![w] = IF @.pc = "idle" THEN IdleRun ELSE [@ EXCEPT !.queued = 0]]
  /\ UNCHANGED <<gen, jobs, reqs, failing, faults, stranded>>

\* runSlice returns, and the progress writer has drained (lastProgress is dead).
SliceReturns(w) ==
  /\ runs[w].pc = "slice"
  /\ runs[w].queued = 0
  /\ \E pc \in {"finalize", "fail"} :
       runs' = [runs EXCEPT ![w].pc = pc, ![w].last = 0]
  /\ UNCHANGED <<row, gen, jobs, reqs, failing, faults, stranded>>

FailRow(w) ==
  /\ runs[w].pc = "fail"
  /\ UpdateIf(RunningFence(runs[w].attempt), [row EXCEPT !.status = "FAILED"])
  /\ RunGoto(w, "return")
  /\ UNCHANGED <<gen, jobs, reqs, failing, faults, stranded>>

\* Store the measurements; the thumbnail is rendered before the next step.
FinalizeRow(w) ==
  LET fence == RunningFence(runs[w].attempt) IN
  /\ runs[w].pc = "finalize"
  /\ UpdateIf(fence, [row EXCEPT !.progress = 98, !.measured = runs[w].attempt])
  /\ RunGoto(w, IF fence THEN "complete" ELSE "return")
  /\ UNCHANGED <<gen, jobs, reqs, failing, faults, stranded>>

\* Mutant: completion adds to the progress instead of setting it.
CompleteRow_Adds(w) ==
  /\ runs[w].pc = "complete"
  /\ UpdateIf(RunningFence(runs[w].attempt),
              [row EXCEPT !.status = "DONE", !.progress = @ + 3])
  /\ RunGoto(w, "return")
  /\ UNCHANGED <<gen, jobs, reqs, failing, faults, stranded>>

CompleteRow(w) ==
  /\ runs[w].pc = "complete"
  /\ UpdateIf(RunningFence(runs[w].attempt),
              [row EXCEPT !.status = "DONE", !.progress = 100])
  /\ RunGoto(w, "return")
  /\ UNCHANGED <<gen, jobs, reqs, failing, faults, stranded>>

Holds(w) == jobs[runs[w].attempt].lock = w

\* The processor returned.  BullMQ refuses to finish a job whose lock is lost.
Return(w) ==
  /\ runs[w].pc = "return"
  /\ jobs' = IF Holds(w)
             THEN [jobs EXCEPT ![runs[w].attempt].state = "completed",
                               ![runs[w].attempt].lock = NoRun]
             ELSE jobs
  /\ runs' = [runs EXCEPT ![w] = IdleRun]
  /\ UNCHANGED <<row, gen, reqs, failing, faults, stranded>>

-----------------------------------------------------------------------------
(* Failure: BullMQ's retry, stalled check and `failed' events              *)

\* Mutant: off by one, no attempt is the last.
FailedEvent_OffByOne(a, made) == IF made <= MaxAttempts THEN failing ELSE failing \cup {a}

\* worker.on("failed"): only the job's last attempt may fail the row.
FailedEvent(a, made) == IF made < MaxAttempts THEN failing ELSE failing \cup {a}

\* The processor threw (a model that is gone, a refused database call, ...).
Throw(w) ==
  LET a    == runs[w].attempt
      made == jobs[a].made + 1
  IN
  /\ runs[w].pc \in {"read", "claim", "slice", "fail", "finalize", "complete"}
  /\ runs' = [runs EXCEPT ![w] = IF @.queued = 0 THEN IdleRun
                                    ELSE [@ EXCEPT !.pc = "idle", !.last = 0]]
  /\ \/ /\ Holds(w)
        /\ jobs' = [jobs EXCEPT ![a].state = IF made < MaxAttempts THEN "delayed" ELSE "failed",
                                ![a].made = made,
                                ![a].lock = NoRun]
        /\ failing' = FailedEvent(a, made)
     \/ /\ ~Holds(w)
        /\ UNCHANGED <<jobs, failing>>
  /\ UNCHANGED <<row, gen, reqs, faults, stranded>>

\* The fixed backoff has passed.
Promote(a) ==
  /\ jobs[a].state = "delayed"
  /\ jobs' = [jobs EXCEPT ![a].state = "waiting"]
  /\ UNCHANGED <<row, gen, runs, reqs, failing, faults, stranded>>

\* A lock expires although its execution goes on (Redis away, a blocked loop).
LoseLock(a) ==
  /\ faults < MaxFaults
  /\ jobs[a].lock # NoRun
  /\ jobs' = [jobs EXCEPT ![a].lock = NoRun]
  /\ faults' = faults + 1
  /\ UNCHANGED <<row, gen, runs, reqs, failing, stranded>>

\* The worker process stops; its events and writers go with it.
WorkerCrash ==
  /\ faults < MaxFaults
  /\ failing # {} \/ \E w \in Runs : runs[w] # IdleRun
  /\ runs' = [w \in Runs |-> IdleRun]
  /\ jobs' = [a \in Gens |-> [jobs[a] EXCEPT !.lock = NoRun]]
  /\ failing' = {}
  /\ stranded' = stranded \cup failing
  /\ faults' = faults + 1
  /\ UNCHANGED <<row, gen, reqs>>

\* BullMQ's stalled check: requeue, or fail beyond the limit.  Whether that
\* failure counts as an attempt made depends on BullMQ: both are allowed.
StalledCheck(a) ==
  /\ jobs[a].state = "active"
  /\ jobs[a].lock = NoRun
  /\ \/ /\ jobs[a].stalls < MaxStalled
        /\ jobs' = [jobs EXCEPT ![a].state = "waiting", ![a].stalls = @ + 1]
        /\ UNCHANGED <<failing, stranded>>
     \/ /\ jobs[a].stalls >= MaxStalled
        /\ \E made \in {jobs[a].made, jobs[a].made + 1} :
             /\ jobs' = [jobs EXCEPT ![a].state = "failed", ![a].made = made]
             /\ failing' = FailedEvent(a, made)
             /\ stranded' = stranded \cup (IF made < MaxAttempts THEN {a} ELSE {})
  /\ UNCHANGED <<row, gen, runs, reqs, faults>>

\* failLiveSliceAttempt, awaited by nobody.
WriteFailure(a) ==
  /\ a \in failing
  /\ failing' = failing \ {a}
  /\ UpdateIf(LiveFence(a), [row EXCEPT !.status = "FAILED"])
  /\ UNCHANGED <<gen, jobs, runs, reqs, faults, stranded>>

\* ... and whose rejection is only logged.
LoseFailure(a) ==
  /\ faults < MaxFaults
  /\ a \in failing
  /\ failing' = failing \ {a}
  /\ faults' = faults + 1
  /\ stranded' = stranded \cup {a}
  /\ UNCHANGED <<row, gen, jobs, runs, reqs>>

\* removeOnComplete/removeOnFail keep 500 finished jobs: older ones go.
TrimJob(a) ==
  /\ jobs[a].state \in {"completed", "failed"}
  /\ jobs' = [jobs EXCEPT ![a] = NoJob]
  /\ UNCHANGED <<row, gen, runs, reqs, failing, faults, stranded>>

RunStep(w) ==
  \/ ReadRow(w) \/ ClaimRow(w) \/ WriteProgress(w) \/ SliceReturns(w)
  \/ FailRow(w) \/ FinalizeRow(w) \/ CompleteRow(w) \/ Return(w)

Next ==
  \/ \E r \in Requests : Request(r) \/ RequestStep(r) \/ RequestDies(r)
  \/ \E w \in Runs :
       \/ RunStep(w) \/ Throw(w)
       \/ \E p \in Percents : ReportProgress(w, p)
       \/ \E a \in Gens : StartJob(w, a)
  \/ \E a \in Gens :
       \/ Promote(a) \/ LoseLock(a) \/ StalledCheck(a) \/ TrimJob(a)
       \/ WriteFailure(a) \/ LoseFailure(a)
  \/ WorkerCrash

Spec == Init /\ [][Next]_vars

(* A request that arrived runs to its end, the queue delivers, promotes    *)
(* and checks for stalls, the slicer is bounded by its timeout and every   *)
(* write settles.  Nobody owes a request, a throw, a progress report, a    *)
(* fault or a trim.                                                        *)
Fairness ==
  /\ \A r \in Requests : WF_vars(RequestStep(r))
  /\ \A w \in Runs : WF_vars(RunStep(w))
  /\ \A a \in Gens :
       /\ WF_vars(Promote(a))
       /\ WF_vars(StalledCheck(a))
       /\ WF_vars(WriteFailure(a))
       /\ WF_vars(\E w \in Runs : StartJob(w, a))

FairSpec == Spec /\ Fairness

-----------------------------------------------------------------------------
Percentages == 0..100
Rows == [status : Statuses, attempt : 0..MaxGen, progress : Percentages, measured : 0..MaxGen]
Jobs == [state : JobStates, made : Nat, stalls : Nat, lock : Runs \cup {NoRun}]
RunPcs == {"idle", "read", "claim", "slice", "fail", "finalize", "complete", "return"}
RunStates == [pc : RunPcs, attempt : 0..MaxGen, last : Percentages, queued : Percentages]
ReqPcs ==
  {"idle", "create", "retry", "reread", "getJob", "getState", "recheckNone",
   "recheckDead", "remove", "add"}
ReqStates == [pc : ReqPcs, attempt : 0..MaxGen]

TypeOK ==
  /\ row \in Rows
  /\ gen \in 0..MaxGen
  /\ jobs \in [Gens -> Jobs]
  /\ runs \in [Runs -> RunStates]
  /\ reqs \in [Requests -> ReqStates]
  /\ failing \subseteq 0..MaxGen
  /\ faults \in 0..MaxFaults
  /\ stranded \subseteq 0..MaxGen

\* Checkout bills a DONE row: its grams were measured by the row's own attempt,
\* never by a stale execution or an earlier attempt (index.ts:256-282).
DoneIsMeasured == row.status = "DONE" => row.measured = row.attempt

\* Whatever is queued, replayed, crashed or lost below it, the row keeps
\* SliceContract: DONE is final, FAILED is reopened only under a fresh attempt,
\* and a live row keeps its attempt (slice-state.ts:10-11, 39-41).
Contract == INSTANCE SliceContract
  WITH Attempts <- Gens, status <- row.status, attempt <- row.attempt,
       measured <- row.measured, used <- 1..gen
KeepsContract == Contract!Spec

\* A live row always has a job, a request about to add one, or a terminal failure
\* about to be written, unless one of four faults took it: a request that died
\* before its add, a failed event that was lost with the worker, or whose write
\* was refused, or a stall failure that was not the job's last attempt.
LiveRowHasWork ==
  row.status \in Live /\ row.attempt \notin stranded =>
    \/ jobs[row.attempt].state \in LiveJob
    \/ row.attempt \in failing
    \/ \E r \in Requests : reqs[r].pc = "add" /\ reqs[r].attempt = row.attempt

Settled == row.status \in {"DONE", "FAILED"}

\* Crashes, lost locks and retries included, a slice that was asked for settles
\* without anyone asking again, as long as nothing stranded it.
EventuallySettles == [](stranded = {}) => (row.status \in Live ~> Settled)

\* A stranded row settles if the page keeps asking: ensureLiveJob replaces its
\* job (route.ts:64-71, 168-193).
HealedByRequests ==
  []<>(\E r \in Requests : reqs[r].pc # "idle") => (row.status \in Live ~> Settled)

\* Requests and executions are interchangeable; used by the safety runs only.
Symmetry == Permutations(Requests) \cup Permutations(Runs)
=============================================================================
