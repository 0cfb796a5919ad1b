--------------------------- MODULE IngestPipeline ---------------------------
(***************************************************************************)
(* Uploads, from the request that streams a file to disk to the worker     *)
(* that parses it and stores its models: disk reservations, the bounded    *)
(* queue, the single global consumer, its failures and its clean-up, the   *)
(* sweep of temporary files, and the customer's poll of the ticket.        *)
(*                                                                         *)
(* An upload is one request, its temporary file and its job, all of one    *)
(* quote session.  A job holds 1..MaxParts models.  Disk is counted in     *)
(* units above the configured reserve: a temporary file is one unit and a  *)
(* model another.  Jobs are taken in any order.  BullMQ and PostgreSQL are *)
(* what the code relies on: atomic scripts and transactions whose answer   *)
(* may be lost.                                                            *)
(***************************************************************************)
EXTENDS Integers, FiniteSets

CONSTANTS
  Uploads,       \* bound: upload requests
  Polled,        \* the uploads whose page polls the ticket
  Workers,       \* worker replicas
  MaxWaiting,    \* INGEST_MAX_WAITING
  MaxModels,     \* config.maxModelsPerSession
  MaxParts,      \* bound: models in an upload
  Disk,          \* bound: units above config.storageReserveBytes
  MaxFaults      \* bound: crashes, lost locks, failed commands

ASSUME IngestAssumption ==
  /\ IsFiniteSet(Uploads)
  /\ Polled \subseteq Uploads
  /\ Workers \in Nat \ {0}
  /\ MaxWaiting \in Nat
  /\ MaxModels \in Nat
  /\ MaxParts \in Nat \ {0}
  /\ Disk \in Nat
  /\ MaxFaults \in Nat

VARIABLES
  up,        \* upload requests
  tmp,       \* temporary files
  aged,      \* ... older than ORPHAN_GRACE_MS
  doomed,    \* ... a running sweep will remove
  reserved,  \* members of UPLOAD_STORAGE_RESERVATION_KEY
  markers,   \* members of INGEST_ADMISSION_KEY
  job,       \* BullMQ state of the ingest job
  locked,    \* active jobs whose lock is held
  events,    \* "failed" events not yet handled
  run,       \* processIngestJob
  parts,     \* models the parse found
  files,     \* uploads whose models are on disk
  rows,      \* uploads whose UploadedModel rows no quotation claims
  sold,      \* ... a quotation claims
  poll,      \* GET /api/uploads/status/[ticket]
  faults     \* faults so far

disk == <<tmp, aged, doomed, files>>
capacity == <<reserved, markers>>
queue == <<job, locked, events>>
work == <<run, parts>>
models == <<rows, sold>>
vars == <<up, disk, capacity, queue, work, models, poll, faults>>

Live == {u \in Uploads : job[u] \in {"waiting", "active"}}
Active == {u \in Uploads : job[u] = "active"}
Running == {u \in Uploads : run[u].pc # "idle"}
Producing(u) == up[u].pc \notin {"idle", "done"}

\* The models of some uploads.
ModelsOf(S) == {m \in S \X (1..MaxParts) : m[2] <= parts[m[1]]}

\* Models of the session that count towards its limit.
SessionCount == Cardinality(ModelsOf(rows))
Used == Cardinality(tmp) + Cardinality(ModelsOf(files))
\* statfs, less the reserve.
Free == Disk - Used

\* A fault happens, or this step is without one.
Fault == faults < MaxFaults /\ faults' = faults + 1
NoFault == UNCHANGED faults

Init ==
  /\ up = [u \in Uploads |-> [pc |-> "idle", free |-> 0]]
  /\ tmp = {} /\ aged = {} /\ doomed = {}
  /\ reserved = {} /\ markers = {}
  /\ job = [u \in Uploads |-> "none"]
  /\ locked = {} /\ events = {}
  /\ run = [u \in Uploads |-> [pc |-> "idle", ok |-> FALSE]]
  /\ parts = [u \in Uploads |-> 0]
  /\ files = {} /\ rows = {} /\ sold = {}
  /\ poll = [u \in Uploads |-> "none"]
  /\ faults = 0

-----------------------------------------------------------------------------
(* POST /api/uploads                                                       *)

UpGoto(u, pc) == up' = [up EXCEPT ![u] = [pc |-> pc, free |-> 0]]

ReadFree(u) ==
  /\ up[u].pc = "idle"
  /\ up' = [up EXCEPT ![u] = [pc |-> "measured", free |-> Free]]
  /\ UNCHANGED <<disk, capacity, queue, work, models, poll, faults>>

\* The body and its worst-case expansion.
ReservationCost == 1 + MaxParts

\* reserveStorageBytes: one Lua script, against the space read a moment ago.
Reserve(u) ==
  /\ up[u].pc = "measured"
  /\ IF (Cardinality(reserved) + 1) * ReservationCost <= up[u].free
     THEN UpGoto(u, "reserved") /\ reserved' = reserved \cup {u}
     ELSE UpGoto(u, "done") /\ UNCHANGED reserved
  /\ UNCHANGED <<disk, markers, queue, work, models, poll, faults>>

CheckSession(u) ==
  /\ up[u].pc = "reserved"
  /\ UpGoto(u, IF SessionCount >= MaxModels THEN "release" ELSE "checked")
  /\ UNCHANGED <<disk, capacity, queue, work, models, poll, faults>>

\* The body arrives and is accepted, or is broken, late, too long or not a model.
Stream(u) ==
  /\ up[u].pc = "checked"
  /\ \/ UpGoto(u, "streamed") /\ tmp' = tmp \cup {u}
     \/ UpGoto(u, "release") /\ UNCHANGED tmp
  /\ UNCHANGED <<aged, doomed, files, capacity, queue, work, models, poll, faults>>

\* Mutant: the active job is forgotten.
Admissible_WaitOnly ==
  Cardinality(markers) + Cardinality({u \in Uploads : job[u] = "waiting"}) < MaxWaiting

Admissible == Cardinality(markers) + Cardinality(Live) < MaxWaiting

\* reserveIngestAdmission: one Lua script over the markers and BullMQ's lists.
Admit(u) ==
  /\ up[u].pc = "streamed"
  /\ IF Admissible
     THEN UpGoto(u, "admitted") /\ markers' = markers \cup {u}
     ELSE UpGoto(u, "release") /\ UNCHANGED markers
  /\ UNCHANGED <<disk, reserved, queue, work, models, poll, faults>>

\* queue.add: done, done but the answer is lost, or failed.
AddJob(u) ==
  /\ up[u].pc = "admitted"
  /\ \/ UpGoto(u, "added") /\ job' = [job EXCEPT ![u] = "waiting"] /\ NoFault
     \/ UpGoto(u, "unsure") /\ job' = [job EXCEPT ![u] = "waiting"] /\ Fault
     \/ UpGoto(u, "unsure") /\ UNCHANGED job /\ Fault
  /\ UNCHANGED <<disk, capacity, locked, events, work, models, poll>>

\* Mutant: a failed add is taken at its word.
Missing_Always(u) == TRUE

\* queue.getJob finds nothing under the ticket.
Missing(u) == job[u] = "none"

\* The answer, or none: then the job may exist and nothing is taken from it.
Verify(u) ==
  /\ up[u].pc = "unsure"
  /\ \/ UpGoto(u, IF Missing(u) THEN "release" ELSE "added") /\ NoFault
     \/ UpGoto(u, "done") /\ Fault
  /\ UNCHANGED <<disk, capacity, queue, work, models, poll>>

\* BullMQ is the source of truth from here: the marker is given back.
Accepted(u) ==
  /\ up[u].pc = "added"
  /\ UpGoto(u, "done")
  /\ \/ markers' = markers \ {u} /\ NoFault
     \/ UNCHANGED markers /\ Fault
  /\ UNCHANGED <<disk, reserved, queue, work, models, poll>>

\* The finally blocks of a request that does not hand its upload over.
Release(u) ==
  /\ up[u].pc = "release"
  /\ UpGoto(u, "done")
  /\ \/ markers' = markers \ {u} /\ reserved' = reserved \ {u} /\ tmp' = tmp \ {u} /\ NoFault
     \/ UNCHANGED capacity /\ tmp' = tmp \ {u} /\ Fault
     \/ markers' = markers \ {u} /\ reserved' = reserved \ {u} /\ UNCHANGED tmp /\ Fault
  /\ UNCHANGED <<aged, doomed, files, queue, work, models, poll>>

WebDies(u) ==
  /\ Producing(u)
  /\ UpGoto(u, "done")
  /\ Fault
  /\ UNCHANGED <<disk, capacity, queue, work, models, poll>>

Request(u) ==
  \/ ReadFree(u) \/ Reserve(u) \/ CheckSession(u) \/ Stream(u) \/ Admit(u)
  \/ AddJob(u) \/ Verify(u) \/ Accepted(u) \/ Release(u)

-----------------------------------------------------------------------------
(* BullMQ and the processor                                                *)

RunGoto(u, pc) == run' = [run EXCEPT ![u].pc = pc]

\* setGlobalConcurrency(1) across replicas, concurrency 1 in each of them.
StartJob(u) ==
  /\ job[u] = "waiting"
  /\ Active = {}
  /\ Cardinality(Running) < Workers
  /\ run[u].pc = "idle"
  /\ job' = [job EXCEPT ![u] = "active"]
  /\ locked' = locked \cup {u}
  /\ run' = [run EXCEPT ![u] = [pc |-> "parse", ok |-> FALSE]]
  /\ UNCHANGED <<up, disk, capacity, events, parts, models, poll, faults>>

\* The staged copy of the temporary file is parsed in the sandboxed child.
Parse(u) ==
  /\ run[u].pc = "parse"
  /\ \/ /\ u \in tmp
        /\ \E n \in 1..MaxParts : parts' = [parts EXCEPT ![u] = n]
        /\ RunGoto(u, "quota")
     \/ RunGoto(u, "cleanup") /\ UNCHANGED parts
  /\ UNCHANGED <<up, disk, capacity, queue, models, poll, faults>>

\* Mutant: the limit is checked as the request checks it, without the new models.
WithinQuota_Before(u) == SessionCount < MaxModels

WithinQuota(u) == SessionCount + parts[u] <= MaxModels

CheckQuota(u) ==
  /\ run[u].pc = "quota"
  /\ RunGoto(u, IF WithinQuota(u) THEN "space" ELSE "cleanup")
  /\ UNCHANGED <<up, disk, capacity, queue, parts, models, poll, faults>>

CheckSpace(u) ==
  /\ run[u].pc = "space"
  /\ RunGoto(u, IF Free >= parts[u] THEN "write" ELSE "cleanup")
  /\ UNCHANGED <<up, disk, capacity, queue, parts, models, poll, faults>>

\* Copies and verifies the artifacts; a failure removes those written so far.
WriteFiles(u) ==
  /\ run[u].pc = "write"
  /\ \/ files' = files \cup {u} /\ RunGoto(u, "commit") /\ NoFault
     \/ files' \in {files, files \cup {u}} /\ RunGoto(u, "cleanup") /\ Fault
  /\ UNCHANGED <<up, tmp, aged, doomed, capacity, queue, parts, models, poll>>

\* The transaction commits and says so, commits and does not, or fails.
Commit(u) ==
  /\ run[u].pc = "commit"
  /\ \/ /\ rows' = rows \cup {u}
        /\ run' = [run EXCEPT ![u] = [pc |-> "cleanup", ok |-> TRUE]]
        /\ NoFault
     \/ /\ rows' \in {rows, rows \cup {u}}
        /\ RunGoto(u, "rollback")
        /\ Fault
  /\ UNCHANGED <<up, disk, capacity, queue, parts, sold, poll>>

\* Mutant: the files go even though the database could not be reached.
KeptFiles_None(u) == {}

\* What the rollback leaves of u's files when deleteMany failed.
KeptFiles(u) == files \cap {u}

\* deleteMany of the rows no quotation claims, then the files; files that would
\* not go are orphans.
Rollback(u) ==
  /\ run[u].pc = "rollback"
  /\ RunGoto(u, "cleanup")
  /\ \/ rows' = rows \ {u} /\ files' = files \ {u} /\ NoFault
     \/ rows' = rows \ {u} /\ UNCHANGED files /\ Fault
     \/ UNCHANGED rows /\ files' = (files \ {u}) \cup KeptFiles(u) /\ Fault
  /\ UNCHANGED <<up, tmp, aged, doomed, capacity, queue, parts, sold, poll>>

\* terminalCleanup: three removals, each on its own; every one may fail.
Freed(u) ==
  \/ /\ tmp' = tmp \ {u} /\ reserved' = reserved \ {u} /\ markers' = markers \ {u}
     /\ NoFault
  \/ /\ tmp' \in {tmp, tmp \ {u}} /\ reserved' \in {reserved, reserved \ {u}}
     /\ markers' \in {markers, markers \ {u}}
     /\ Fault

Cleanup(u) ==
  /\ run[u].pc = "cleanup"
  /\ RunGoto(u, "report")
  /\ Freed(u)
  /\ UNCHANGED <<up, aged, doomed, files, queue, parts, models, poll>>

\* BullMQ accepts a result only from the holder of the job's lock.
Report(u) ==
  /\ run[u].pc = "report"
  /\ run' = [run EXCEPT ![u] = [pc |-> "idle", ok |-> FALSE]]
  /\ locked' = locked \ {u}
  /\ job' = IF u \notin locked THEN job
            ELSE [job EXCEPT ![u] = IF run[u].ok THEN "completed" ELSE "failed"]
  /\ events' = IF u \in locked /\ ~run[u].ok THEN events \cup {u} ELSE events
  /\ UNCHANGED <<up, disk, capacity, parts, models, poll, faults>>

Execute(u) ==
  \/ Parse(u) \/ CheckQuota(u) \/ CheckSpace(u) \/ WriteFiles(u) \/ Commit(u)
  \/ Rollback(u) \/ Cleanup(u) \/ Report(u)

FailedCleanup(u) ==
  /\ u \in events
  /\ events' = events \ {u}
  /\ Freed(u)
  /\ UNCHANGED <<up, aged, doomed, files, job, locked, work, models, poll>>

\* The worker that should handle the event stops first.
LoseEvent(u) ==
  /\ u \in events
  /\ events' = events \ {u}
  /\ Fault
  /\ UNCHANGED <<up, disk, capacity, job, locked, work, models, poll>>

\* The lock is not renewed within lockDuration; the processor does not notice.
LoseLock(u) ==
  /\ u \in locked
  /\ locked' = locked \ {u}
  /\ Fault
  /\ UNCHANGED <<up, disk, capacity, job, events, work, models, poll>>

\* Mutant: nothing expires the lock of a worker that is gone.
Unlock_Never(u) == locked

\* The locks left once u's worker is gone and lockDuration has passed.
Unlock(u) == locked \ {u}

Crash(u) ==
  /\ run[u].pc # "idle"
  /\ run' = [run EXCEPT ![u] = [pc |-> "idle", ok |-> FALSE]]
  /\ locked' = Unlock(u)
  /\ Fault
  /\ UNCHANGED <<up, disk, capacity, job, events, parts, models, poll>>

\* Mutant: a stalled job is put back to wait.
Stalled_Requeue == "waiting"

\* maxStalledCount 0.
Stalled == "failed"

StalledCheck(u) ==
  /\ job[u] = "active"
  /\ u \notin locked
  /\ job' = [job EXCEPT ![u] = Stalled]
  /\ events' = events \cup {u}
  /\ UNCHANGED <<up, disk, capacity, locked, work, models, poll, faults>>

-----------------------------------------------------------------------------
(* The customer                                                            *)

\* GET /api/models knows a model as soon as its row is there, answered or not.
Checkout(u) ==
  /\ u \in rows
  /\ rows' = rows \ {u}
  /\ sold' = sold \cup {u}
  /\ UNCHANGED <<up, disk, capacity, queue, work, poll, faults>>

\* The row first, its files after.
Delete(u) ==
  /\ u \in rows
  /\ rows' = rows \ {u}
  /\ files' = files \ {u}
  /\ UNCHANGED <<up, tmp, aged, doomed, capacity, queue, work, sold, poll, faults>>

\* queue.getJob: the record as it is now, its return value included.
PollRead(u) ==
  /\ u \in Polled
  /\ job[u] # "none"
  /\ poll[u] \in {"none", "queued"}
  /\ poll' = [poll EXCEPT ![u] = IF job[u] = "completed" THEN "after" ELSE "before"]
  /\ UNCHANGED <<up, disk, capacity, queue, work, models, faults>>

\* job.getState asks again; the answer is put together from both.
PollAnswer(u) ==
  /\ poll[u] \in {"before", "after"}
  /\ poll' = [poll EXCEPT ![u] =
       CASE job[u] \in {"waiting", "active"} -> "queued"
         [] job[u] = "completed" /\ poll[u] = "after" -> "done"
         [] OTHER -> "failed"]
  /\ UNCHANGED <<up, disk, capacity, queue, work, models, faults>>

Customer(u) == Checkout(u) \/ Delete(u) \/ PollRead(u) \/ PollAnswer(u)

-----------------------------------------------------------------------------
(* Expiry and the sweep of temporary files                                 *)

\* Two hours outlive any request, whose body has ten minutes.
ExpireReservation(u) ==
  /\ u \in reserved
  /\ ~Producing(u)
  /\ reserved' = reserved \ {u}
  /\ UNCHANGED <<up, disk, markers, queue, work, models, poll, faults>>

ExpireMarker(u) ==
  /\ u \in markers
  /\ ~Producing(u)
  /\ markers' = markers \ {u}
  /\ UNCHANGED <<up, disk, reserved, queue, work, models, poll, faults>>

AgeTmp(u) ==
  /\ u \in tmp \ aged
  /\ ~Producing(u)
  /\ aged' = aged \cup {u}
  /\ UNCHANGED <<up, tmp, doomed, files, capacity, queue, work, models, poll, faults>>

\* Mutant: only the age of a file counts.
Owned_None == {}

\* Mutant: every job BullMQ still remembers owns its file.
Owned_Known == {u \in Uploads : job[u] # "none"}

\* liveTmpNames: what active and waiting jobs still name.
Owned == Live

StartSweep ==
  /\ doomed = {}
  /\ doomed' = (tmp \cap aged) \ Owned
  /\ doomed' # {}
  /\ UNCHANGED <<up, tmp, aged, files, capacity, queue, work, models, poll, faults>>

SweepTmp(u) ==
  /\ u \in doomed
  /\ doomed' = doomed \ {u}
  /\ tmp' = tmp \ {u}
  /\ UNCHANGED <<up, aged, files, capacity, queue, work, models, poll, faults>>

SweepDies ==
  /\ doomed # {}
  /\ doomed' = {}
  /\ Fault
  /\ UNCHANGED <<up, tmp, aged, files, capacity, queue, work, models, poll>>

UploadStep(u) == Request(u) \/ WebDies(u)
QueueStep(u) ==
  StartJob(u) \/ FailedCleanup(u) \/ LoseEvent(u) \/ LoseLock(u) \/ Crash(u) \/ StalledCheck(u)
TimeStep(u) == ExpireReservation(u) \/ ExpireMarker(u) \/ AgeTmp(u) \/ SweepTmp(u)

Next ==
  \/ \E u \in Uploads :
       UploadStep(u) \/ QueueStep(u) \/ Execute(u) \/ Customer(u) \/ TimeStep(u)
  \/ StartSweep
  \/ SweepDies

Spec == Init /\ [][Next]_vars

(* Requests and processors run on or die; BullMQ takes waiting jobs, looks *)
(* for stalled ones and delivers events; keys expire; sweeps are scheduled *)
(* daily.  Nobody owes an upload, a poll, a purchase or a fault.           *)
Fairness ==
  /\ \A u \in Uploads :
       /\ WF_vars(Producing(u) /\ Request(u))
       /\ WF_vars(StartJob(u))
       /\ WF_vars(Execute(u))
       /\ WF_vars(FailedCleanup(u))
       /\ WF_vars(StalledCheck(u))
       /\ WF_vars(ExpireReservation(u))
       /\ WF_vars(ExpireMarker(u))
       /\ WF_vars(AgeTmp(u))
       /\ WF_vars(SweepTmp(u))
  /\ WF_vars(StartSweep)

FairSpec == Spec /\ Fairness

-----------------------------------------------------------------------------
UpPcs == {"idle", "measured", "reserved", "checked", "streamed", "admitted", "unsure",
          "added", "release", "done"}
RunPcs == {"idle", "parse", "quota", "space", "write", "commit", "rollback", "cleanup",
           "report"}
RunStates == [pc : RunPcs, ok : BOOLEAN]
JobStates == {"none", "waiting", "active", "completed", "failed"}
PollStates == {"none", "before", "after", "queued", "done", "failed"}

\* What statfs said is an integer that Reserve alone compares; it is left untyped.
TypeOK ==
  /\ DOMAIN up = Uploads
  /\ \A u \in Uploads : up[u].pc \in UpPcs
  /\ tmp \subseteq Uploads
  /\ aged \subseteq Uploads
  /\ doomed \subseteq Uploads
  /\ reserved \subseteq Uploads
  /\ markers \subseteq Uploads
  /\ job \in [Uploads -> JobStates]
  /\ locked \subseteq Uploads
  /\ events \subseteq Uploads
  /\ run \in [Uploads -> RunStates]
  /\ parts \in [Uploads -> 0..MaxParts]
  /\ files \subseteq Uploads
  /\ rows \subseteq Uploads
  /\ sold \subseteq Uploads
  /\ poll \in [Uploads -> PollStates]
  /\ faults \in 0..MaxFaults

\* The hard admission limit holds for the jobs themselves, whatever markers are
\* released early, lost or expired (ingest-queue.ts:16-19).
QueueBounded == Cardinality(Live) <= MaxWaiting

\* No clean-up, lost answer or sweep takes the file of a job that has yet to read
\* it, however old it is (uploads/route.ts:285-311, retention.ts:165-180).
TmpKept ==
  \A u \in Uploads :
    job[u] = "waiting" \/ (job[u] = "active" /\ run[u].pc \in {"parse", "quota", "space", "write"})
      => u \in tmp

\* The session holds no more models than its limit: the global consumer's check
\* holds until the rows are there (ingest.ts:396-408).
SessionLimit == SessionCount <= MaxModels

\* A model row, claimed or not, has its files (ingest.ts:325-356).
RowHasFiles == rows \cup sold \subseteq files

\* The rollback fences the rows that stay, and no other failure takes the files of a
\* row (ingest.ts:325-356).  What it does take is the files of an upload that was
\* sold between its unanswered COMMIT and the rollback: such an upload is not told
\* to have succeeded.
RowsKeepFiles ==
  /\ rows \subseteq files
  /\ \A u \in sold \ files : job[u] # "completed" /\ ~run[u].ok

\* An upload that is stored is not processed a second time (ingest.ts:46-49).
StoredOnce ==
  [][\A u \in Uploads :
       run[u].pc = "idle" /\ run'[u].pc # "idle" => u \notin rows \cup sold]_vars

\* The configured reserve is kept (ARCHITECTURE.md:87-88).
ReserveKept == Used <= Disk

\* The page is told of a failure only when the upload failed
\* (uploads/status/[ticket]/route.ts:63-106).
PollTruthful == \A u \in Uploads : poll[u] = "failed" => job[u] = "failed"

\* A queued upload is completed or failed.
AcceptedSettles ==
  \A u \in Uploads : job[u] = "waiting" ~> job[u] \in {"completed", "failed"}

\* Temporary files, reservations and admission markers all go in the end, whatever
\* stopped on the way (uploads/route.ts:180-182, index.ts:383-395).
NothingLeaks == <>[](tmp \cup reserved \cup markers = {})
=============================================================================
