------------------------ MODULE IngestPipelineProofs ------------------------
(***************************************************************************)
(* Theorems about IngestPipeline, for any number of uploads and faults:    *)
(* the bound of the queue, the temporary files of live jobs, the files of  *)
(* stored models and, for one worker, the models of a session.  But for    *)
(* the two bounds the invariant is about one upload at a time: a step of   *)
(* one leaves the others as they are.                                      *)
(***************************************************************************)
EXTENDS IngestPipeline, FiniteSetTheorems, TLAPS

\* The steps that belong to one upload.
Step(u) == UploadStep(u) \/ QueueStep(u) \/ Execute(u) \/ Customer(u) \/ TimeStep(u)

\* What the invariant reads of one upload.
Same(v) ==
  /\ up'[v] = up[v] /\ job'[v] = job[v] /\ run'[v] = run[v]
  /\ (v \in tmp' <=> v \in tmp) /\ (v \in aged' <=> v \in aged)
  /\ (v \in doomed' <=> v \in doomed) /\ (v \in markers' <=> v \in markers)
  /\ (v \in events' <=> v \in events) /\ (v \in files' <=> v \in files)
  /\ (v \in rows' <=> v \in rows) /\ (v \in sold' <=> v \in sold)
  /\ (v \in locked' <=> v \in locked)

Others(u) == \A v \in Uploads \ {u} : Same(v)

-----------------------------------------------------------------------------
(* Types                                                                   *)

\* Where a step of a request leads.
LEMMA UpMoves ==
  ASSUME NEW u \in Uploads, NEW pc \in UpPcs, TypeOK, UpGoto(u, pc)
  PROVE  /\ DOMAIN up' = Uploads
         /\ \A v \in Uploads : up'[v].pc \in UpPcs
         /\ up'[u].pc = pc
         /\ \A v \in Uploads \ {u} : up'[v] = up[v]
BY DEF UpGoto, TypeOK

\* Where a step of a processor leads.
LEMMA RunMoves ==
  ASSUME NEW u \in Uploads, NEW pc \in RunPcs, TypeOK, RunGoto(u, pc)
  PROVE  /\ run' \in [Uploads -> RunStates]
         /\ run'[u].pc = pc /\ run'[u].ok = run[u].ok
         /\ \A v \in Uploads \ {u} : run'[v] = run[v]
BY DEF RunGoto, TypeOK, RunStates

\* A processor starts or ends.
LEMMA RunResets ==
  ASSUME NEW u \in Uploads, NEW pc \in RunPcs, NEW ok \in BOOLEAN, TypeOK,
         run' = [run EXCEPT ![u] = [pc |-> pc, ok |-> ok]]
  PROVE  /\ run' \in [Uploads -> RunStates]
         /\ run'[u].pc = pc /\ run'[u].ok = ok
         /\ \A v \in Uploads \ {u} : run'[v] = run[v]
BY DEF TypeOK, RunStates

\* The state of a job changes.
LEMMA JobMoves ==
  ASSUME NEW u \in Uploads, NEW s \in JobStates, TypeOK, job' = [job EXCEPT ![u] = s]
  PROVE  /\ job' \in [Uploads -> JobStates]
         /\ job'[u] = s
         /\ \A v \in Uploads \ {u} : job'[v] = job[v]
BY DEF TypeOK

LEMMA UpMembers ==
  /\ "idle" \in UpPcs /\ "measured" \in UpPcs /\ "reserved" \in UpPcs /\ "checked" \in UpPcs
  /\ "streamed" \in UpPcs /\ "admitted" \in UpPcs /\ "unsure" \in UpPcs
  /\ "added" \in UpPcs /\ "release" \in UpPcs /\ "done" \in UpPcs
BY DEF UpPcs

LEMMA RunMembers ==
  /\ "idle" \in RunPcs /\ "parse" \in RunPcs /\ "quota" \in RunPcs /\ "space" \in RunPcs
  /\ "write" \in RunPcs /\ "commit" \in RunPcs /\ "rollback" \in RunPcs
  /\ "cleanup" \in RunPcs /\ "report" \in RunPcs
BY DEF RunPcs

LEMMA JobMembers ==
  /\ "waiting" \in JobStates /\ "active" \in JobStates /\ "completed" \in JobStates
  /\ "failed" \in JobStates
BY DEF JobStates

LEMMA FaultTyped ==
  ASSUME TypeOK, Fault \/ NoFault
  PROVE  faults' \in 0..MaxFaults
<1>1. faults \in 0..MaxFaults /\ MaxFaults \in Nat
  BY IngestAssumption DEF TypeOK
<1> QED
  BY <1>1 DEF Fault, NoFault

-----------------------------------------------------------------------------
(* The invariant of one upload                                             *)

\* The job has yet to read its temporary file.
Needs(u) ==
  job[u] = "waiting" \/ (job[u] = "active" /\ run[u].pc \in {"parse", "quota", "space", "write"})

\* A job appears only with queue.add, and is processed only once.
Begun(u) ==
  /\ up[u].pc \notin {"unsure", "added", "done"} => job[u] = "none"
  /\ job[u] \in {"none", "waiting"} => run[u].pc = "idle" /\ u \notin rows \cup sold
  /\ u \in events => job[u] = "failed"
  /\ u \in locked => job[u] = "active"

\* What the request and the job hold, and what the sweep may take.
Held(u) ==
  /\ up[u].pc = "admitted" => u \in markers
  /\ up[u].pc \in {"streamed", "admitted"} \/ Needs(u) => u \in tmp
  /\ u \in tmp => up[u].pc # "idle"
  /\ u \in aged \cup doomed => up[u].pc = "done"
  /\ u \in doomed => job[u] \notin {"waiting", "active"}

Local(u) == Begun(u) /\ Held(u)

\* What a step of upload u establishes.
Kept(u) == TypeOK' /\ Others(u) /\ Local(u)'

-----------------------------------------------------------------------------
(* The request                                                             *)

LEMMA ReadFreeKeeps ==
  ASSUME NEW u \in Uploads, TypeOK, Local(u), ReadFree(u)
  PROVE  Kept(u)
<1>1. /\ DOMAIN up' = Uploads
      /\ \A v \in Uploads : up'[v].pc \in UpPcs
      /\ up'[u].pc = "measured"
      /\ \A v \in Uploads \ {u} : up'[v] = up[v]
  BY UpMembers DEF ReadFree, TypeOK
<1>2. TypeOK'
  BY <1>1 DEF ReadFree, TypeOK, disk, capacity, queue, work, models
<1>3. Others(u)
  BY <1>1 DEF ReadFree, Others, Same, disk, capacity, queue, work, models
<1>4. Local(u)'
  BY <1>1 DEF ReadFree, Local, Begun, Held, Needs, disk, capacity, queue, work, models
<1> QED
  BY <1>2, <1>3, <1>4 DEF Kept

LEMMA ReserveKeeps ==
  ASSUME NEW u \in Uploads, TypeOK, Local(u), Reserve(u)
  PROVE  Kept(u)
<1>1. PICK pc \in UpPcs :
        /\ UpGoto(u, pc)
        /\ pc \in {"reserved", "done"}
  BY UpMembers DEF Reserve
<1>2. /\ DOMAIN up' = Uploads
      /\ \A v \in Uploads : up'[v].pc \in UpPcs
      /\ up'[u].pc = pc
      /\ \A v \in Uploads \ {u} : up'[v] = up[v]
  BY <1>1, UpMoves
<1>3. TypeOK'
  BY <1>1, <1>2 DEF Reserve, TypeOK, disk, capacity, queue, work, models
<1>4. Others(u)
  BY <1>1, <1>2 DEF Reserve, Others, Same, disk, capacity, queue, work, models
<1>5. Local(u)'
  BY <1>1, <1>2 DEF Reserve, Local, Begun, Held, Needs, disk, capacity, queue, work, models
<1> QED
  BY <1>3, <1>4, <1>5 DEF Kept

LEMMA CheckSessionKeeps ==
  ASSUME NEW u \in Uploads, TypeOK, Local(u), CheckSession(u)
  PROVE  Kept(u)
<1>1. PICK pc \in UpPcs :
        /\ UpGoto(u, pc)
        /\ pc \in {"release", "checked"}
  BY UpMembers DEF CheckSession
<1>2. /\ DOMAIN up' = Uploads
      /\ \A v \in Uploads : up'[v].pc \in UpPcs
      /\ up'[u].pc = pc
      /\ \A v \in Uploads \ {u} : up'[v] = up[v]
  BY <1>1, UpMoves
<1>3. TypeOK'
  BY <1>1, <1>2 DEF CheckSession, TypeOK, disk, capacity, queue, work, models
<1>4. Others(u)
  BY <1>1, <1>2 DEF CheckSession, Others, Same, disk, capacity, queue, work, models
<1>5. Local(u)'
  BY <1>1, <1>2 DEF CheckSession, Local, Begun, Held, Needs, disk, capacity, queue, work, models
<1> QED
  BY <1>3, <1>4, <1>5 DEF Kept

LEMMA StreamKeeps ==
  ASSUME NEW u \in Uploads, TypeOK, Local(u), Stream(u)
  PROVE  Kept(u)
<1>1. PICK pc \in UpPcs :
        /\ UpGoto(u, pc)
        /\ (pc = "streamed" /\ tmp' = tmp \cup {u}) \/ (pc = "release" /\ tmp' = tmp)
  BY UpMembers DEF Stream
<1>2. /\ DOMAIN up' = Uploads
      /\ \A v \in Uploads : up'[v].pc \in UpPcs
      /\ up'[u].pc = pc
      /\ \A v \in Uploads \ {u} : up'[v] = up[v]
  BY <1>1, UpMoves
<1>3. TypeOK'
  BY <1>1, <1>2 DEF Stream, TypeOK, disk, capacity, queue, work, models
<1>4. Others(u)
  BY <1>1, <1>2 DEF Stream, Others, Same, disk, capacity, queue, work, models
<1>5. Local(u)'
  BY <1>1, <1>2 DEF Stream, Local, Begun, Held, Needs, disk, capacity, queue, work, models
<1> QED
  BY <1>3, <1>4, <1>5 DEF Kept

LEMMA AdmitKeeps ==
  ASSUME NEW u \in Uploads, TypeOK, Local(u), Admit(u)
  PROVE  Kept(u)
<1>1. PICK pc \in UpPcs :
        /\ UpGoto(u, pc)
        /\ (pc = "admitted" /\ markers' = markers \cup {u}) \/ (pc = "release" /\ markers' = markers)
  BY UpMembers DEF Admit
<1>2. /\ DOMAIN up' = Uploads
      /\ \A v \in Uploads : up'[v].pc \in UpPcs
      /\ up'[u].pc = pc
      /\ \A v \in Uploads \ {u} : up'[v] = up[v]
  BY <1>1, UpMoves
<1>3. TypeOK'
  BY <1>1, <1>2 DEF Admit, TypeOK, disk, capacity, queue, work, models
<1>4. Others(u)
  BY <1>1, <1>2 DEF Admit, Others, Same, disk, capacity, queue, work, models
<1>5. Local(u)'
  BY <1>1, <1>2 DEF Admit, Local, Begun, Held, Needs, disk, capacity, queue, work, models
<1> QED
  BY <1>3, <1>4, <1>5 DEF Kept

LEMMA AddJobKeeps ==
  ASSUME NEW u \in Uploads, TypeOK, Local(u), AddJob(u)
  PROVE  Kept(u)
<1>1. PICK pc \in UpPcs :
        /\ UpGoto(u, pc)
        /\ (job' = [job EXCEPT ![u] = "waiting"] /\ pc \in {"added", "unsure"}) \/ (job' = job /\ pc = "unsure")
  BY UpMembers DEF AddJob
<1>2. /\ DOMAIN up' = Uploads
      /\ \A v \in Uploads : up'[v].pc \in UpPcs
      /\ up'[u].pc = pc
      /\ \A v \in Uploads \ {u} : up'[v] = up[v]
  BY <1>1, UpMoves
<1>3. job' = job \/ (/\ job' \in [Uploads -> JobStates]
                       /\ job'[u] = "waiting"
                       /\ \A v \in Uploads \ {u} : job'[v] = job[v])
  BY <1>1, JobMoves, JobMembers
<1>4. faults' \in 0..MaxFaults
  BY FaultTyped DEF AddJob
<1>5. TypeOK'
  BY <1>1, <1>2, <1>3, <1>4 DEF AddJob, TypeOK, disk, capacity, queue, work, models
<1>6. Others(u)
  BY <1>1, <1>2, <1>3, <1>4 DEF AddJob, Others, Same, disk, capacity, queue, work, models
<1>7. Local(u)'
  BY <1>1, <1>2, <1>3, <1>4 DEF AddJob, Local, Begun, Held, Needs, disk, capacity, queue, work, models
<1> QED
  BY <1>5, <1>6, <1>7 DEF Kept

LEMMA VerifyKeeps ==
  ASSUME NEW u \in Uploads, TypeOK, Local(u), Verify(u)
  PROVE  Kept(u)
<1>1. PICK pc \in UpPcs :
        /\ UpGoto(u, pc)
        /\ (pc = "release" /\ Missing(u)) \/ pc \in {"added", "done"}
  BY UpMembers DEF Verify
<1>2. /\ DOMAIN up' = Uploads
      /\ \A v \in Uploads : up'[v].pc \in UpPcs
      /\ up'[u].pc = pc
      /\ \A v \in Uploads \ {u} : up'[v] = up[v]
  BY <1>1, UpMoves
<1>3. faults' \in 0..MaxFaults
  BY FaultTyped DEF Verify
<1>4. TypeOK'
  BY <1>1, <1>2, <1>3 DEF Verify, Missing, TypeOK, disk, capacity, queue, work, models
<1>5. Others(u)
  BY <1>1, <1>2, <1>3 DEF Verify, Missing, Others, Same, disk, capacity, queue, work, models
<1>6. Local(u)'
  BY <1>1, <1>2, <1>3 DEF Verify, Missing, Local, Begun, Held, Needs, disk, capacity, queue, work, models
<1> QED
  BY <1>4, <1>5, <1>6 DEF Kept

LEMMA AcceptedKeeps ==
  ASSUME NEW u \in Uploads, TypeOK, Local(u), Accepted(u)
  PROVE  Kept(u)
<1>1. PICK pc \in UpPcs :
        /\ UpGoto(u, pc)
        /\ pc = "done"
  BY UpMembers DEF Accepted
<1>2. /\ DOMAIN up' = Uploads
      /\ \A v \in Uploads : up'[v].pc \in UpPcs
      /\ up'[u].pc = pc
      /\ \A v \in Uploads \ {u} : up'[v] = up[v]
  BY <1>1, UpMoves
<1>3. markers' \in {markers, markers \ {u}}
  BY DEF Accepted
<1>4. faults' \in 0..MaxFaults
  BY FaultTyped DEF Accepted
<1>5. TypeOK'
  BY <1>1, <1>2, <1>3, <1>4 DEF Accepted, TypeOK, disk, capacity, queue, work, models
<1>6. Others(u)
  BY <1>1, <1>2, <1>3, <1>4 DEF Accepted, Others, Same, disk, capacity, queue, work, models
<1>7. Local(u)'
  BY <1>1, <1>2, <1>3, <1>4 DEF Accepted, Local, Begun, Held, Needs, disk, capacity, queue, work, models
<1> QED
  BY <1>5, <1>6, <1>7 DEF Kept

LEMMA ReleaseKeeps ==
  ASSUME NEW u \in Uploads, TypeOK, Local(u), Release(u)
  PROVE  Kept(u)
<1>1. PICK pc \in UpPcs :
        /\ UpGoto(u, pc)
        /\ pc = "done"
  BY UpMembers DEF Release
<1>2. /\ DOMAIN up' = Uploads
      /\ \A v \in Uploads : up'[v].pc \in UpPcs
      /\ up'[u].pc = pc
      /\ \A v \in Uploads \ {u} : up'[v] = up[v]
  BY <1>1, UpMoves
<1>3. /\ markers' \in {markers, markers \ {u}}
      /\ reserved' \in {reserved, reserved \ {u}}
      /\ tmp' \in {tmp, tmp \ {u}}
  BY DEF Release, capacity
<1>4. faults' \in 0..MaxFaults
  BY FaultTyped DEF Release
<1>5. TypeOK'
  BY <1>1, <1>2, <1>3, <1>4 DEF Release, TypeOK, disk, capacity, queue, work, models
<1>6. Others(u)
  BY <1>1, <1>2, <1>3, <1>4 DEF Release, Others, Same, disk, capacity, queue, work, models
<1>7. Local(u)'
  BY <1>1, <1>2, <1>3, <1>4 DEF Release, Local, Begun, Held, Needs, disk, capacity, queue, work, models
<1> QED
  BY <1>5, <1>6, <1>7 DEF Kept

LEMMA WebDiesKeeps ==
  ASSUME NEW u \in Uploads, TypeOK, Local(u), WebDies(u)
  PROVE  Kept(u)
<1>1. PICK pc \in UpPcs :
        /\ UpGoto(u, pc)
        /\ pc = "done"
  BY UpMembers DEF WebDies
<1>2. /\ DOMAIN up' = Uploads
      /\ \A v \in Uploads : up'[v].pc \in UpPcs
      /\ up'[u].pc = pc
      /\ \A v \in Uploads \ {u} : up'[v] = up[v]
  BY <1>1, UpMoves
<1>3. faults' \in 0..MaxFaults
  BY FaultTyped DEF WebDies
<1>4. TypeOK'
  BY <1>1, <1>2, <1>3 DEF WebDies, Producing, TypeOK, disk, capacity, queue, work, models
<1>5. Others(u)
  BY <1>1, <1>2, <1>3 DEF WebDies, Producing, Others, Same, disk, capacity, queue, work, models
<1>6. Local(u)'
  BY <1>1, <1>2, <1>3 DEF WebDies, Producing, Local, Begun, Held, Needs, disk, capacity, queue, work, models
<1> QED
  BY <1>4, <1>5, <1>6 DEF Kept

-----------------------------------------------------------------------------
(* BullMQ and the processor                                                *)

\* terminalCleanup takes nothing but what it names.
LEMMA FreedTakes ==
  ASSUME NEW u \in Uploads, TypeOK, Freed(u)
  PROVE  /\ tmp' \in {tmp, tmp \ {u}}
         /\ reserved' \in {reserved, reserved \ {u}}
         /\ markers' \in {markers, markers \ {u}}
         /\ faults' \in 0..MaxFaults
<1>1. Fault \/ NoFault
  BY DEF Freed
<1>2. faults' \in 0..MaxFaults
  BY <1>1, FaultTyped
<1> QED
  BY <1>2 DEF Freed

LEMMA StartJobKeeps ==
  ASSUME NEW u \in Uploads, TypeOK, Local(u), StartJob(u)
  PROVE  Kept(u)
<1>1. /\ job' \in [Uploads -> JobStates]
      /\ job'[u] = "active"
      /\ \A v \in Uploads \ {u} : job'[v] = job[v]
  BY JobMoves, JobMembers DEF StartJob
<1>2. /\ run' \in [Uploads -> RunStates]
      /\ run'[u].pc = "parse"
      /\ \A v \in Uploads \ {u} : run'[v] = run[v]
  BY RunResets, RunMembers DEF StartJob
<1>3. TypeOK'
  BY <1>1, <1>2 DEF StartJob, TypeOK, disk, capacity, queue, work, models
<1>4. Others(u)
  BY <1>1, <1>2 DEF StartJob, Others, Same, disk, capacity, queue, work, models
<1>5. Local(u)'
  BY <1>1, <1>2 DEF StartJob, Local, Begun, Held, Needs, disk, capacity, queue, work, models
<1> QED
  BY <1>3, <1>4, <1>5 DEF Kept

LEMMA ParseKeeps ==
  ASSUME NEW u \in Uploads, TypeOK, Local(u), Parse(u)
  PROVE  Kept(u)
<1>1. PICK pc \in RunPcs :
        /\ RunGoto(u, pc)
        /\ (pc = "quota" /\ u \in tmp) \/ pc = "cleanup"
  BY RunMembers DEF Parse
<1>2. /\ run' \in [Uploads -> RunStates]
      /\ run'[u].pc = pc
      /\ \A v \in Uploads \ {u} : run'[v] = run[v]
  BY <1>1, RunMoves
<1>3. parts' \in [Uploads -> 0..MaxParts]
  BY IngestAssumption DEF Parse, TypeOK
<1>4. TypeOK'
  BY <1>1, <1>2, <1>3 DEF Parse, TypeOK, disk, capacity, queue, work, models
<1>5. Others(u)
  BY <1>1, <1>2, <1>3 DEF Parse, Others, Same, disk, capacity, queue, work, models
<1>6. Local(u)'
  BY <1>1, <1>2, <1>3 DEF Parse, Local, Begun, Held, Needs, disk, capacity, queue, work, models
<1> QED
  BY <1>4, <1>5, <1>6 DEF Kept

LEMMA CheckQuotaKeeps ==
  ASSUME NEW u \in Uploads, TypeOK, Local(u), CheckQuota(u)
  PROVE  Kept(u)
<1>1. PICK pc \in RunPcs :
        /\ RunGoto(u, pc)
        /\ pc \in {"space", "cleanup"}
  BY RunMembers DEF CheckQuota
<1>2. /\ run' \in [Uploads -> RunStates]
      /\ run'[u].pc = pc
      /\ \A v \in Uploads \ {u} : run'[v] = run[v]
  BY <1>1, RunMoves
<1>3. TypeOK'
  BY <1>1, <1>2 DEF CheckQuota, TypeOK, disk, capacity, queue, work, models
<1>4. Others(u)
  BY <1>1, <1>2 DEF CheckQuota, Others, Same, disk, capacity, queue, work, models
<1>5. Local(u)'
  BY <1>1, <1>2 DEF CheckQuota, Local, Begun, Held, Needs, disk, capacity, queue, work, models
<1> QED
  BY <1>3, <1>4, <1>5 DEF Kept

LEMMA CheckSpaceKeeps ==
  ASSUME NEW u \in Uploads, TypeOK, Local(u), CheckSpace(u)
  PROVE  Kept(u)
<1>1. PICK pc \in RunPcs :
        /\ RunGoto(u, pc)
        /\ pc \in {"write", "cleanup"}
  BY RunMembers DEF CheckSpace
<1>2. /\ run' \in [Uploads -> RunStates]
      /\ run'[u].pc = pc
      /\ \A v \in Uploads \ {u} : run'[v] = run[v]
  BY <1>1, RunMoves
<1>3. TypeOK'
  BY <1>1, <1>2 DEF CheckSpace, TypeOK, disk, capacity, queue, work, models
<1>4. Others(u)
  BY <1>1, <1>2 DEF CheckSpace, Others, Same, disk, capacity, queue, work, models
<1>5. Local(u)'
  BY <1>1, <1>2 DEF CheckSpace, Local, Begun, Held, Needs, disk, capacity, queue, work, models
<1> QED
  BY <1>3, <1>4, <1>5 DEF Kept

LEMMA WriteFilesKeeps ==
  ASSUME NEW u \in Uploads, TypeOK, Local(u), WriteFiles(u)
  PROVE  Kept(u)
<1>1. PICK pc \in RunPcs :
        /\ RunGoto(u, pc)
        /\ pc \in {"commit", "cleanup"}
  BY RunMembers DEF WriteFiles
<1>2. /\ run' \in [Uploads -> RunStates]
      /\ run'[u].pc = pc
      /\ \A v \in Uploads \ {u} : run'[v] = run[v]
  BY <1>1, RunMoves
<1>3. files' \in {files, files \cup {u}}
  BY DEF WriteFiles
<1>4. faults' \in 0..MaxFaults
  BY FaultTyped DEF WriteFiles
<1>5. TypeOK'
  BY <1>1, <1>2, <1>3, <1>4 DEF WriteFiles, TypeOK, disk, capacity, queue, work, models
<1>6. Others(u)
  BY <1>1, <1>2, <1>3, <1>4 DEF WriteFiles, Others, Same, disk, capacity, queue, work, models
<1>7. Local(u)'
  BY <1>1, <1>2, <1>3, <1>4 DEF WriteFiles, Local, Begun, Held, Needs, disk, capacity, queue, work, models
<1> QED
  BY <1>5, <1>6, <1>7 DEF Kept

LEMMA CommitKeeps ==
  ASSUME NEW u \in Uploads, TypeOK, Local(u), Commit(u)
  PROVE  Kept(u)
<1>1. PICK pc \in {"cleanup", "rollback"} :
        /\ run' \in [Uploads -> RunStates]
        /\ run'[u].pc = pc
        /\ \A v \in Uploads \ {u} : run'[v] = run[v]
  BY RunMoves, RunResets, RunMembers DEF Commit
<1>2. rows' \in {rows, rows \cup {u}}
  BY DEF Commit
<1>3. faults' \in 0..MaxFaults
  BY FaultTyped DEF Commit
<1>4. TypeOK'
  BY <1>1, <1>2, <1>3 DEF Commit, TypeOK, disk, capacity, queue, work, models
<1>5. Others(u)
  BY <1>1, <1>2, <1>3 DEF Commit, Others, Same, disk, capacity, queue, work, models
<1>6. Local(u)'
  BY <1>1, <1>2, <1>3 DEF Commit, Local, Begun, Held, Needs, disk, capacity, queue, work, models
<1> QED
  BY <1>4, <1>5, <1>6 DEF Kept

LEMMA RollbackKeeps ==
  ASSUME NEW u \in Uploads, TypeOK, Local(u), Rollback(u)
  PROVE  Kept(u)
<1>1. /\ run' \in [Uploads -> RunStates]
      /\ run'[u].pc = "cleanup"
      /\ \A v \in Uploads \ {u} : run'[v] = run[v]
  BY RunMoves, RunMembers DEF Rollback
<1>2. rows' \in {rows, rows \ {u}} /\ files' \in {files, files \ {u}}
  BY DEF Rollback, KeptFiles
<1>3. faults' \in 0..MaxFaults
  BY FaultTyped DEF Rollback
<1>4. TypeOK'
  BY <1>1, <1>2, <1>3 DEF Rollback, TypeOK, disk, capacity, queue, work, models
<1>5. Others(u)
  BY <1>1, <1>2, <1>3 DEF Rollback, Others, Same, disk, capacity, queue, work, models
<1>6. Local(u)'
  BY <1>1, <1>2, <1>3 DEF Rollback, Local, Begun, Held, Needs, disk, capacity, queue, work, models
<1> QED
  BY <1>4, <1>5, <1>6 DEF Kept

LEMMA CleanupKeeps ==
  ASSUME NEW u \in Uploads, TypeOK, Local(u), Cleanup(u)
  PROVE  Kept(u)
<1>1. /\ run' \in [Uploads -> RunStates]
      /\ run'[u].pc = "report"
      /\ \A v \in Uploads \ {u} : run'[v] = run[v]
  BY RunMoves, RunMembers DEF Cleanup
<1>2. /\ tmp' \in {tmp, tmp \ {u}}
      /\ reserved' \in {reserved, reserved \ {u}}
      /\ markers' \in {markers, markers \ {u}}
      /\ faults' \in 0..MaxFaults
  BY FreedTakes DEF Cleanup
<1>3. TypeOK'
  BY <1>1, <1>2 DEF Cleanup, TypeOK, disk, capacity, queue, work, models
<1>4. Others(u)
  BY <1>1, <1>2 DEF Cleanup, Others, Same, disk, capacity, queue, work, models
<1>5. Local(u)'
  BY <1>1, <1>2 DEF Cleanup, Local, Begun, Held, Needs, disk, capacity, queue, work, models
<1> QED
  BY <1>3, <1>4, <1>5 DEF Kept

LEMMA ReportKeeps ==
  ASSUME NEW u \in Uploads, TypeOK, Local(u), Report(u)
  PROVE  Kept(u)
<1>1. /\ run' \in [Uploads -> RunStates]
      /\ run'[u].pc = "idle"
      /\ \A v \in Uploads \ {u} : run'[v] = run[v]
  BY RunResets, RunMembers DEF Report
<1>2. job' = job \/ \E s \in {"completed", "failed"} :
        /\ u \in locked
        /\ job' \in [Uploads -> JobStates]
        /\ job'[u] = s
        /\ \A v \in Uploads \ {u} : job'[v] = job[v]
  BY JobMoves, JobMembers DEF Report
<1>3. events' = events \/ (events' = events \cup {u} /\ job'[u] = "failed")
  BY DEF Report, TypeOK
<1>4. TypeOK'
  BY <1>1, <1>2, <1>3 DEF Report, TypeOK, disk, capacity, queue, work, models
<1>5. Others(u)
  BY <1>1, <1>2, <1>3 DEF Report, Others, Same, disk, capacity, queue, work, models
<1>6. Local(u)'
  BY <1>1, <1>2, <1>3 DEF Report, Local, Begun, Held, Needs, disk, capacity, queue, work, models
<1> QED
  BY <1>4, <1>5, <1>6 DEF Kept

LEMMA FailedCleanupKeeps ==
  ASSUME NEW u \in Uploads, TypeOK, Local(u), FailedCleanup(u)
  PROVE  Kept(u)
<1>1. /\ tmp' \in {tmp, tmp \ {u}}
      /\ reserved' \in {reserved, reserved \ {u}}
      /\ markers' \in {markers, markers \ {u}}
      /\ faults' \in 0..MaxFaults
  BY FreedTakes DEF FailedCleanup
<1>2. TypeOK'
  BY <1>1 DEF FailedCleanup, TypeOK, disk, capacity, queue, work, models
<1>3. Others(u)
  BY <1>1 DEF FailedCleanup, Others, Same, disk, capacity, queue, work, models
<1>4. Local(u)'
  BY <1>1 DEF FailedCleanup, Local, Begun, Held, Needs, disk, capacity, queue, work, models
<1> QED
  BY <1>2, <1>3, <1>4 DEF Kept

LEMMA LoseEventKeeps ==
  ASSUME NEW u \in Uploads, TypeOK, Local(u), LoseEvent(u)
  PROVE  Kept(u)
<1>1. faults' \in 0..MaxFaults
  BY FaultTyped DEF LoseEvent
<1>2. TypeOK'
  BY <1>1 DEF LoseEvent, TypeOK, disk, capacity, queue, work, models
<1>3. Others(u)
  BY <1>1 DEF LoseEvent, Others, Same, disk, capacity, queue, work, models
<1>4. Local(u)'
  BY <1>1 DEF LoseEvent, Local, Begun, Held, Needs, disk, capacity, queue, work, models
<1> QED
  BY <1>2, <1>3, <1>4 DEF Kept

LEMMA LoseLockKeeps ==
  ASSUME NEW u \in Uploads, TypeOK, Local(u), LoseLock(u)
  PROVE  Kept(u)
<1>1. faults' \in 0..MaxFaults
  BY FaultTyped DEF LoseLock
<1>2. TypeOK'
  BY <1>1 DEF LoseLock, TypeOK, disk, capacity, queue, work, models
<1>3. Others(u)
  BY <1>1 DEF LoseLock, Others, Same, disk, capacity, queue, work, models
<1>4. Local(u)'
  BY <1>1 DEF LoseLock, Local, Begun, Held, Needs, disk, capacity, queue, work, models
<1> QED
  BY <1>2, <1>3, <1>4 DEF Kept

LEMMA CrashKeeps ==
  ASSUME NEW u \in Uploads, TypeOK, Local(u), Crash(u)
  PROVE  Kept(u)
<1>1. /\ run' \in [Uploads -> RunStates]
      /\ run'[u].pc = "idle"
      /\ \A v \in Uploads \ {u} : run'[v] = run[v]
  BY RunResets, RunMembers DEF Crash
<1>2. faults' \in 0..MaxFaults
  BY FaultTyped DEF Crash
<1>3. TypeOK'
  BY <1>1, <1>2 DEF Crash, Unlock, TypeOK, disk, capacity, queue, work, models
<1>4. Others(u)
  BY <1>1, <1>2 DEF Crash, Unlock, Others, Same, disk, capacity, queue, work, models
<1>5. Local(u)'
  BY <1>1, <1>2 DEF Crash, Unlock, Local, Begun, Held, Needs, disk, capacity, queue, work, models
<1> QED
  BY <1>3, <1>4, <1>5 DEF Kept

LEMMA StalledCheckKeeps ==
  ASSUME NEW u \in Uploads, TypeOK, Local(u), StalledCheck(u)
  PROVE  Kept(u)
<1>1. /\ job' \in [Uploads -> JobStates]
      /\ job'[u] = "failed"
      /\ \A v \in Uploads \ {u} : job'[v] = job[v]
  BY JobMoves, JobMembers DEF StalledCheck, Stalled
<1>2. TypeOK'
  BY <1>1 DEF StalledCheck, TypeOK, disk, capacity, queue, work, models
<1>3. Others(u)
  BY <1>1 DEF StalledCheck, Others, Same, disk, capacity, queue, work, models
<1>4. Local(u)'
  BY <1>1 DEF StalledCheck, Local, Begun, Held, Needs, disk, capacity, queue, work, models
<1> QED
  BY <1>2, <1>3, <1>4 DEF Kept

-----------------------------------------------------------------------------
(* The customer, and time                                                  *)

LEMMA CheckoutKeeps ==
  ASSUME NEW u \in Uploads, TypeOK, Local(u), Checkout(u)
  PROVE  Kept(u)
<1>1. TypeOK'
  BY DEF Checkout, TypeOK, disk, capacity, queue, work, models
<1>2. Others(u)
  BY DEF Checkout, Others, Same, disk, capacity, queue, work, models
<1>3. Local(u)'
  BY DEF Checkout, Local, Begun, Held, Needs, disk, capacity, queue, work, models
<1> QED
  BY <1>1, <1>2, <1>3 DEF Kept

LEMMA DeleteKeeps ==
  ASSUME NEW u \in Uploads, TypeOK, Local(u), Delete(u)
  PROVE  Kept(u)
<1>1. TypeOK'
  BY DEF Delete, TypeOK, disk, capacity, queue, work, models
<1>2. Others(u)
  BY DEF Delete, Others, Same, disk, capacity, queue, work, models
<1>3. Local(u)'
  BY DEF Delete, Local, Begun, Held, Needs, disk, capacity, queue, work, models
<1> QED
  BY <1>1, <1>2, <1>3 DEF Kept

LEMMA PollReadKeeps ==
  ASSUME NEW u \in Uploads, TypeOK, Local(u), PollRead(u)
  PROVE  Kept(u)
<1>1. poll' \in [Uploads -> PollStates]
  BY DEF PollRead, TypeOK, PollStates
<1>2. TypeOK'
  BY <1>1 DEF PollRead, TypeOK, disk, capacity, queue, work, models
<1>3. Others(u)
  BY <1>1 DEF PollRead, Others, Same, disk, capacity, queue, work, models
<1>4. Local(u)'
  BY <1>1 DEF PollRead, Local, Begun, Held, Needs, disk, capacity, queue, work, models
<1> QED
  BY <1>2, <1>3, <1>4 DEF Kept

LEMMA PollAnswerKeeps ==
  ASSUME NEW u \in Uploads, TypeOK, Local(u), PollAnswer(u)
  PROVE  Kept(u)
<1>1. poll' \in [Uploads -> PollStates]
  BY DEF PollAnswer, TypeOK, PollStates
<1>2. TypeOK'
  BY <1>1 DEF PollAnswer, TypeOK, disk, capacity, queue, work, models
<1>3. Others(u)
  BY <1>1 DEF PollAnswer, Others, Same, disk, capacity, queue, work, models
<1>4. Local(u)'
  BY <1>1 DEF PollAnswer, Local, Begun, Held, Needs, disk, capacity, queue, work, models
<1> QED
  BY <1>2, <1>3, <1>4 DEF Kept

LEMMA ExpireReservationKeeps ==
  ASSUME NEW u \in Uploads, TypeOK, Local(u), ExpireReservation(u)
  PROVE  Kept(u)
<1>1. TypeOK'
  BY DEF ExpireReservation, TypeOK, disk, capacity, queue, work, models
<1>2. Others(u)
  BY DEF ExpireReservation, Others, Same, disk, capacity, queue, work, models
<1>3. Local(u)'
  BY DEF ExpireReservation, Local, Begun, Held, Needs, disk, capacity, queue, work, models
<1> QED
  BY <1>1, <1>2, <1>3 DEF Kept

LEMMA ExpireMarkerKeeps ==
  ASSUME NEW u \in Uploads, TypeOK, Local(u), ExpireMarker(u)
  PROVE  Kept(u)
<1>1. TypeOK'
  BY DEF ExpireMarker, Producing, TypeOK, disk, capacity, queue, work, models
<1>2. Others(u)
  BY DEF ExpireMarker, Producing, Others, Same, disk, capacity, queue, work, models
<1>3. Local(u)'
  BY DEF ExpireMarker, Producing, Local, Begun, Held, Needs, disk, capacity, queue, work, models
<1> QED
  BY <1>1, <1>2, <1>3 DEF Kept

LEMMA AgeTmpKeeps ==
  ASSUME NEW u \in Uploads, TypeOK, Local(u), AgeTmp(u)
  PROVE  Kept(u)
<1>1. TypeOK'
  BY DEF AgeTmp, Producing, TypeOK, disk, capacity, queue, work, models
<1>2. Others(u)
  BY DEF AgeTmp, Producing, Others, Same, disk, capacity, queue, work, models
<1>3. Local(u)'
  BY DEF AgeTmp, Producing, Local, Begun, Held, Needs, disk, capacity, queue, work, models
<1> QED
  BY <1>1, <1>2, <1>3 DEF Kept

LEMMA SweepTmpKeeps ==
  ASSUME NEW u \in Uploads, TypeOK, Local(u), SweepTmp(u)
  PROVE  Kept(u)
<1>1. TypeOK'
  BY DEF SweepTmp, TypeOK, disk, capacity, queue, work, models
<1>2. Others(u)
  BY DEF SweepTmp, Others, Same, disk, capacity, queue, work, models
<1>3. Local(u)'
  BY DEF SweepTmp, Local, Begun, Held, Needs, disk, capacity, queue, work, models
<1> QED
  BY <1>1, <1>2, <1>3 DEF Kept

-----------------------------------------------------------------------------
(* The invariant of all uploads                                            *)

Safe == TypeOK /\ \A u \in Uploads : Local(u)

LEMMA RequestKeeps ==
  ASSUME NEW u \in Uploads, TypeOK, Local(u), UploadStep(u)
  PROVE  Kept(u)
<1>1. CASE ReadFree(u) \/ Reserve(u) \/ CheckSession(u) \/ Stream(u) \/ Admit(u)
  BY <1>1, ReadFreeKeeps, ReserveKeeps, CheckSessionKeeps, StreamKeeps, AdmitKeeps
<1>2. CASE AddJob(u) \/ Verify(u) \/ Accepted(u) \/ Release(u) \/ WebDies(u)
  BY <1>2, AddJobKeeps, VerifyKeeps, AcceptedKeeps, ReleaseKeeps, WebDiesKeeps
<1> QED
  BY <1>1, <1>2 DEF UploadStep, Request

LEMMA QueueKeeps ==
  ASSUME NEW u \in Uploads, TypeOK, Local(u), QueueStep(u)
  PROVE  Kept(u)
BY StartJobKeeps, FailedCleanupKeeps, LoseEventKeeps, LoseLockKeeps, CrashKeeps,
   StalledCheckKeeps DEF QueueStep

LEMMA ExecuteKeeps ==
  ASSUME NEW u \in Uploads, TypeOK, Local(u), Execute(u)
  PROVE  Kept(u)
BY ParseKeeps, CheckQuotaKeeps, CheckSpaceKeeps, WriteFilesKeeps, CommitKeeps, RollbackKeeps,
   CleanupKeeps, ReportKeeps DEF Execute

LEMMA OtherKeeps ==
  ASSUME NEW u \in Uploads, TypeOK, Local(u), Customer(u) \/ TimeStep(u)
  PROVE  Kept(u)
BY CheckoutKeeps, DeleteKeeps, PollReadKeeps, PollAnswerKeeps, ExpireReservationKeeps,
   ExpireMarkerKeeps, AgeTmpKeeps, SweepTmpKeeps DEF Customer, TimeStep

LEMMA StepKeeps ==
  ASSUME NEW u \in Uploads, TypeOK, Local(u), Step(u)
  PROVE  Kept(u)
BY RequestKeeps, QueueKeeps, ExecuteKeeps, OtherKeeps DEF Step

\* What is not touched keeps its invariant.
LEMMA Untouched ==
  ASSUME NEW v \in Uploads, Same(v), Local(v)
  PROVE  Local(v)'
BY DEF Same, Local, Begun, Held, Needs

\* A sweep starts with files that are aged and that no live job owns, or dies.
LEMMA SweepKeeps ==
  ASSUME Safe, StartSweep \/ SweepDies
  PROVE  Safe'
<1>1. TypeOK'
  <2>1. CASE StartSweep
    BY <2>1 DEF Safe, StartSweep, TypeOK, capacity, queue, work, models
  <2>2. CASE SweepDies
    <3>1. faults' \in 0..MaxFaults
      BY <2>2, FaultTyped DEF Safe, SweepDies
    <3> QED
      BY <2>2, <3>1 DEF Safe, SweepDies, TypeOK, capacity, queue, work, models
  <2> QED
    BY <2>1, <2>2
<1>2. ASSUME NEW u \in Uploads
      PROVE  Local(u)'
  <2>1. Local(u)
    BY DEF Safe
  <2>2. CASE StartSweep
    BY <2>1, <2>2 DEF StartSweep, Owned, Live, Local, Begun, Held, Needs, capacity, queue, work,
       models
  <2>3. CASE SweepDies
    BY <2>1, <2>3 DEF SweepDies, Local, Begun, Held, Needs, capacity, queue, work, models
  <2> QED
    BY <2>2, <2>3
<1> QED
  BY <1>1, <1>2 DEF Safe

LEMMA InitSafe == Init => Safe
<1> SUFFICES ASSUME Init
             PROVE  Safe
  OBVIOUS
<1>1. TypeOK
  BY IngestAssumption DEF Init, TypeOK, UpPcs, RunPcs, RunStates, JobStates, PollStates
<1>2. \A u \in Uploads : Local(u)
  BY DEF Init, Local, Begun, Held, Needs
<1> QED
  BY <1>1, <1>2 DEF Safe

LEMMA NextSafe == Safe /\ [Next]_vars => Safe'
<1> SUFFICES ASSUME Safe, [Next]_vars
             PROVE  Safe'
  OBVIOUS
<1>1. CASE \E u \in Uploads : Step(u)
  <2>1. PICK u \in Uploads : Step(u)
    BY <1>1
  <2>2. Kept(u)
    BY <2>1, StepKeeps DEF Safe
  <2>3. \A v \in Uploads : Local(v)'
    BY <2>2, Untouched DEF Kept, Others, Safe
  <2> QED
    BY <2>2, <2>3 DEF Kept, Safe
<1>2. CASE StartSweep \/ SweepDies
  BY <1>2, SweepKeeps
<1>3. CASE UNCHANGED vars
  BY <1>3 DEF Safe, TypeOK, Local, Begun, Held, Needs, vars, disk, capacity, queue, work, models
<1> QED
  BY <1>1, <1>2, <1>3 DEF Next, Step

LEMMA AlwaysSafe == Spec => []Safe
BY InitSafe, NextSafe, PTL DEF Spec

\* Every reachable state is well typed.
THEOREM TypeCorrect == Spec => []TypeOK
<1>1. Safe => TypeOK
  BY DEF Safe
<1> QED
  BY <1>1, AlwaysSafe, PTL

\* A live job that has yet to read its temporary file has it: no release, clean-up
\* or sweep takes it (uploads/route.ts:285-311, retention.ts:165-180).
THEOREM FileKept == Spec => []TmpKept
<1>1. Safe => TmpKept
  BY DEF Safe, Local, Held, Needs, TmpKept
<1> QED
  BY <1>1, AlwaysSafe, PTL

\* An upload whose rows are stored is never processed again (ingest.ts:46-49).
THEOREM Once == Spec => StoredOnce
<1>1. ASSUME Safe, [Next]_vars
      PROVE  [\A u \in Uploads :
                run[u].pc = "idle" /\ run'[u].pc # "idle" => u \notin rows \cup sold]_vars
  <2>1. ASSUME NEW u \in Uploads, run[u].pc = "idle", run'[u].pc # "idle"
        PROVE  u \notin rows \cup sold
    <3>1. CASE \E v \in Uploads : Step(v)
      <4>1. PICK v \in Uploads : Step(v)
        BY <3>1
      <4>2. Kept(v) /\ Local(v)
        <5>1. TypeOK /\ Local(v)
          BY <1>1 DEF Safe
        <5> QED
          BY <4>1, <5>1, StepKeeps
      <4>3. u = v
        BY <4>2, <2>1 DEF Kept, Others, Same
      <4>4. StartJob(v)
        <5>1. CASE UploadStep(v) \/ Customer(v) \/ TimeStep(v)
          BY <5>1, <4>3, <2>1 DEF UploadStep, Request, ReadFree, Reserve, CheckSession, Stream,
             Admit, AddJob, Verify, Accepted, Release, WebDies, Customer, Checkout, Delete,
             PollRead, PollAnswer, TimeStep, ExpireReservation, ExpireMarker, AgeTmp, SweepTmp,
             work
        <5>2. CASE QueueStep(v)
          BY <5>2, <4>3, <2>1 DEF QueueStep, FailedCleanup, LoseEvent, LoseLock, Crash,
             StalledCheck, work
        <5>3. CASE Execute(v)
          BY <5>3, <4>3, <2>1 DEF Execute, Parse, CheckQuota, CheckSpace, WriteFiles, Commit,
             Rollback, Cleanup, Report
        <5> QED
          BY <4>1, <5>1, <5>2, <5>3 DEF Step
      <4> QED
        BY <4>2, <4>3, <4>4 DEF StartJob, Local, Begun
    <3>2. CASE StartSweep \/ SweepDies \/ UNCHANGED vars
      BY <3>2, <2>1 DEF StartSweep, SweepDies, vars, work
    <3> QED
      BY <1>1, <3>1, <3>2 DEF Next, Step
  <2> QED
    BY <2>1
<1> QED
  BY <1>1, AlwaysSafe, PTL DEF Spec, StoredOnce

-----------------------------------------------------------------------------
(* The bound of the queue                                                  *)

\* Jobs and markers together: a job takes the place of its own marker.
Places == Live \cup markers
Capacity == Cardinality(Places) <= MaxWaiting

LEMMA PlacesFinite == TypeOK => IsFiniteSet(Places) /\ IsFiniteSet(Live) /\ IsFiniteSet(markers)
<1> SUFFICES ASSUME TypeOK
             PROVE  IsFiniteSet(Places) /\ IsFiniteSet(Live) /\ IsFiniteSet(markers)
  OBVIOUS
<1>1. IsFiniteSet(Uploads)
  BY IngestAssumption
<1>2. Places \subseteq Uploads /\ Live \subseteq Uploads /\ markers \subseteq Uploads
  BY DEF TypeOK, Places, Live
<1> QED
  BY <1>1, <1>2, FS_Subset

\* Only an admission takes a place.
LEMMA NoNewPlace ==
  ASSUME NEW u \in Uploads, Safe, Step(u), ~Admit(u)
  PROVE  Places' \subseteq Places
<1>1. Kept(u) /\ Local(u) /\ TypeOK
  BY StepKeeps DEF Safe
<1>2. ASSUME u \in Places'
      PROVE  u \in Places
  <2>1. u \in markers' \/ job'[u] \in {"waiting", "active"}
    BY <1>2 DEF Places, Live
  <2>2. CASE UploadStep(u)
    <3>1. CASE AddJob(u)
      BY <1>1, <3>1 DEF AddJob, Local, Held, Places
    <3>2. CASE Release(u)
      BY <2>1, <3>2 DEF Release, Places, Live, capacity, queue
    <3>3. CASE Accepted(u) \/ Verify(u) \/ WebDies(u)
      BY <2>1, <3>3 DEF Accepted, Verify, WebDies, Places, Live, capacity, queue
    <3>4. CASE ReadFree(u) \/ Reserve(u) \/ CheckSession(u) \/ Stream(u)
      BY <2>1, <3>4 DEF ReadFree, Reserve, CheckSession, Stream, Places, Live, capacity, queue
    <3> QED
      BY <2>2, <3>1, <3>2, <3>3, <3>4 DEF UploadStep, Request
  <2>3. CASE QueueStep(u)
    <3>1. CASE StartJob(u)
      BY <3>1 DEF StartJob, Places, Live
    <3>2. CASE StalledCheck(u)
      BY <3>2 DEF StalledCheck, Places, Live
    <3>3. CASE FailedCleanup(u)
      BY <2>1, <3>3 DEF FailedCleanup, Freed, Places, Live
    <3>4. CASE LoseEvent(u) \/ LoseLock(u) \/ Crash(u)
      BY <2>1, <3>4 DEF LoseEvent, LoseLock, Crash, Places, Live, capacity
    <3> QED
      BY <2>3, <3>1, <3>2, <3>3, <3>4 DEF QueueStep
  <2>4. CASE Execute(u)
    <3>1. CASE Cleanup(u)
      BY <2>1, <3>1 DEF Cleanup, Freed, Places, Live, queue
    <3>2. CASE Report(u)
      <4>1. u \in markers' <=> u \in markers
        BY <3>2 DEF Report, capacity
      <4>2. u \in locked => u \in Live
        BY <1>1 DEF Local, Begun, Live
      <4> QED
        BY <2>1, <3>2, <4>1, <4>2 DEF Report, Places, Live
    <3>3. CASE Parse(u) \/ CheckQuota(u) \/ CheckSpace(u) \/ WriteFiles(u) \/ Commit(u) \/ Rollback(u)
      BY <2>1, <3>3 DEF Parse, CheckQuota, CheckSpace, WriteFiles, Commit, Rollback, Places, Live,
         capacity, queue
    <3> QED
      BY <2>4, <3>1, <3>2, <3>3 DEF Execute
  <2>5. CASE Customer(u) \/ TimeStep(u)
    BY <2>1, <2>5 DEF Customer, Checkout, Delete, PollRead, PollAnswer, TimeStep,
       ExpireReservation, ExpireMarker, AgeTmp, SweepTmp, Places, Live, capacity, queue
  <2> QED
    BY <2>2, <2>3, <2>4, <2>5 DEF Step
<1>3. ASSUME NEW v \in Uploads \ {u}, v \in Places'
      PROVE  v \in Places
  BY <1>1, <1>3 DEF Kept, Others, Same, Places, Live
<1>4. Places' \subseteq Uploads
  BY <1>1 DEF Kept, TypeOK, Places, Live
<1> QED
  BY <1>2, <1>3, <1>4

LEMMA NextCapacity == Safe /\ Capacity /\ [Next]_vars => Capacity'
<1> SUFFICES ASSUME Safe, Capacity, [Next]_vars
             PROVE  Capacity'
  OBVIOUS
<1>1. IsFiniteSet(Places) /\ IsFiniteSet(Live) /\ IsFiniteSet(markers)
  BY PlacesFinite DEF Safe
<1>2. ASSUME Places' \subseteq Places
      PROVE  Capacity'
  <2>1. IsFiniteSet(Places') /\ Cardinality(Places') <= Cardinality(Places)
    BY <1>1, <1>2, FS_Subset
  <2>2. Cardinality(Places') \in Nat /\ Cardinality(Places) \in Nat /\ MaxWaiting \in Nat
    BY <1>1, <2>1, FS_CardinalityType, IngestAssumption
  <2> QED
    BY <2>1, <2>2 DEF Capacity
<1>3. CASE \E u \in Uploads : Admit(u)
  <2>1. PICK u \in Uploads : Admit(u)
    BY <1>3
  <2>2. CASE ~Admissible
    BY <2>1, <2>2, <1>2 DEF Admit, Places, Live, queue
  <2>3. CASE Admissible
    <3>1. Places' = Places \cup {u}
      BY <2>1, <2>3 DEF Admit, Places, Live, queue
    <3>2. Cardinality(Places) <= Cardinality(Live) + Cardinality(markers)
      <4>1. /\ Cardinality(Places)
                 = Cardinality(Live) + Cardinality(markers) - Cardinality(Live \cap markers)
            /\ IsFiniteSet(Live \cap markers)
        BY <1>1, FS_Union, FS_Intersection DEF Places
      <4>2. Cardinality(Live \cap markers) \in Nat /\ Cardinality(Live) \in Nat
            /\ Cardinality(markers) \in Nat
        BY <1>1, <4>1, FS_CardinalityType
      <4> QED
        BY <4>1, <4>2
    <3>3. Cardinality(Places') <= Cardinality(Places) + 1
      <4>1. Cardinality(Places') = Cardinality(Places) \/ Cardinality(Places') = Cardinality(Places) + 1
        BY <1>1, <3>1, FS_AddElement
      <4>2. Cardinality(Places) \in Nat
        BY <1>1, FS_CardinalityType
      <4> QED
        BY <4>1, <4>2
    <3>4. /\ Cardinality(Places) \in Nat /\ Cardinality(Live) \in Nat
          /\ Cardinality(markers) \in Nat /\ MaxWaiting \in Nat
      BY <1>1, FS_CardinalityType, IngestAssumption
    <3>5. Cardinality(markers) + Cardinality(Live) < MaxWaiting
      BY <2>3 DEF Admissible
    <3>6. Cardinality(Places') \in Nat
      BY <1>1, <3>1, FS_AddElement, FS_CardinalityType
    <3> QED
      BY <3>2, <3>3, <3>4, <3>5, <3>6 DEF Capacity
  <2> QED
    BY <2>2, <2>3
<1>4. CASE \E u \in Uploads : Step(u) /\ ~Admit(u)
  BY <1>2, <1>4, NoNewPlace
<1>5. CASE StartSweep \/ SweepDies \/ UNCHANGED vars
  BY <1>2, <1>5 DEF StartSweep, SweepDies, Places, Live, vars, capacity, queue
<1> QED
  BY <1>3, <1>4, <1>5 DEF Next, Step

\* The queue holds no more than INGEST_MAX_WAITING live jobs (ingest-queue.ts:16-19).
THEOREM Bounded == Spec => []QueueBounded
<1>1. Init => Capacity
  <2> SUFFICES ASSUME Init
               PROVE  Capacity
    OBVIOUS
  <2>1. Places = {}
    BY DEF Init, Places, Live
  <2> QED
    BY <2>1, FS_EmptySet, IngestAssumption DEF Capacity
<1>2. Safe /\ Capacity => QueueBounded
  <2> SUFFICES ASSUME Safe, Capacity
               PROVE  QueueBounded
    OBVIOUS
  <2>1. IsFiniteSet(Places) /\ Live \subseteq Places
    BY PlacesFinite DEF Safe, Places
  <2>2. Cardinality(Live) <= Cardinality(Places)
    BY <2>1, FS_Subset
  <2>3. IsFiniteSet(Live)
    BY <2>1, FS_Subset
  <2>4. Cardinality(Live) \in Nat /\ Cardinality(Places) \in Nat /\ MaxWaiting \in Nat
    BY <2>1, <2>3, FS_CardinalityType, IngestAssumption
  <2> QED
    BY <2>2, <2>4 DEF Capacity, QueueBounded
<1> QED
  BY <1>1, <1>2, NextCapacity, AlwaysSafe, PTL DEF Spec

-----------------------------------------------------------------------------
(* The files of stored models                                              *)

\* The rows of an upload come after its files and go before them.  Until it is
\* committed and known to be, an upload is not said to have succeeded; then its
\* files are the customer's to delete.
Stored(u) ==
  /\ u \in rows => u \in files
  /\ ~(u \in rows /\ u \in sold)
  /\ run[u].pc \in {"parse", "quota", "space", "write", "commit"} => u \notin rows \cup sold
  /\ run[u].pc = "commit" => u \in files
  /\ run[u].pc \in {"idle", "parse", "quota", "space", "write", "commit", "rollback"}
       => ~run[u].ok
  /\ run[u].pc # "idle" => job[u] # "completed"
  /\ u \in sold \ files => job[u] # "completed" /\ ~run[u].ok

LEMMA UntouchedStored ==
  ASSUME NEW v \in Uploads, Same(v), Stored(v)
  PROVE  Stored(v)'
BY DEF Same, Stored

LEMMA StepStored ==
  ASSUME NEW u \in Uploads, TypeOK, Local(u), Stored(u), Step(u)
  PROVE  Stored(u)'
<1>1. CASE UploadStep(u)
  <2>1. UNCHANGED <<run, rows, sold, files>>
    BY <1>1 DEF UploadStep, Request, ReadFree, Reserve, CheckSession, Stream, Admit, AddJob,
       Verify, Accepted, Release, WebDies, disk, work, models
  <2>2. job'[u] = job[u] \/ job'[u] = "waiting"
    <3>1. CASE AddJob(u) BY <3>1, JobMoves, JobMembers DEF AddJob
    <3>2. CASE ~AddJob(u)
      BY <1>1, <3>2 DEF UploadStep, Request, ReadFree, Reserve, CheckSession, Stream, Admit,
         Verify, Accepted, Release, WebDies, queue
    <3> QED
      BY <3>1, <3>2
  <2> QED
    BY <2>1, <2>2 DEF Stored
<1>2. CASE QueueStep(u)
  <2>1. CASE StartJob(u)
    <3>1. run'[u].pc = "parse" /\ ~run'[u].ok
      BY <2>1, RunResets, RunMembers DEF StartJob
    <3>2. job'[u] = "active"
      BY <2>1, JobMoves, JobMembers DEF StartJob
    <3> QED
      BY <2>1, <3>1, <3>2 DEF StartJob, Local, Begun, Stored, disk, models
  <2>2. CASE Crash(u)
    <3>1. run'[u].pc = "idle" /\ ~run'[u].ok
      BY <2>2, RunResets, RunMembers DEF Crash
    <3> QED
      BY <2>2, <3>1 DEF Crash, Stored, disk, models
  <2>3. CASE FailedCleanup(u) \/ LoseEvent(u) \/ LoseLock(u)
    BY <2>3 DEF FailedCleanup, LoseEvent, LoseLock, Stored, disk, work, models
  <2>4. CASE StalledCheck(u)
    <3>1. job'[u] = "failed"
      BY <2>4, JobMoves, JobMembers DEF StalledCheck, Stalled
    <3> QED
      BY <2>4, <3>1 DEF StalledCheck, Stored, disk, work, models
  <2> QED
    BY <1>2, <2>1, <2>2, <2>3, <2>4 DEF QueueStep
<1>3. CASE Execute(u)
  <2>1. CASE Parse(u) \/ CheckQuota(u) \/ CheckSpace(u)
    <3>1. PICK pc \in {"quota", "space", "write", "cleanup"} : RunGoto(u, pc)
      BY <2>1 DEF Parse, CheckQuota, CheckSpace
    <3>2. run'[u].pc = pc /\ run'[u].ok = run[u].ok
      BY <3>1, RunMoves, RunMembers
    <3>3. UNCHANGED <<job, rows, sold, files>>
      BY <2>1 DEF Parse, CheckQuota, CheckSpace, disk, queue, models
    <3> QED
      BY <2>1, <3>1, <3>2, <3>3 DEF Parse, CheckQuota, CheckSpace, Stored
  <2>2. CASE WriteFiles(u)
    <3>1. /\ (run'[u].pc = "commit" /\ u \in files') \/ run'[u].pc = "cleanup"
          /\ run'[u].ok = run[u].ok
      BY <2>2, RunMoves, RunMembers DEF WriteFiles
    <3>2. UNCHANGED <<job, rows, sold>> /\ run[u].pc = "write"
      BY <2>2 DEF WriteFiles, queue, models
    <3> QED
      BY <3>1, <3>2 DEF Stored
  <2>3. CASE Commit(u)
    <3>1. run'[u].pc \in {"cleanup", "rollback"} /\ (run'[u].pc = "rollback" => ~run'[u].ok)
      <4>1. CASE RunGoto(u, "rollback")
        BY <2>3, <4>1, RunMoves, RunMembers DEF Commit, Stored
      <4>2. CASE run' = [run EXCEPT ![u] = [pc |-> "cleanup", ok |-> TRUE]]
        BY <4>2, RunResets, RunMembers
      <4> QED
        BY <2>3, <4>1, <4>2 DEF Commit
    <3>2. UNCHANGED <<job, sold, files>> /\ run[u].pc = "commit" /\ rows' \subseteq rows \cup {u}
      BY <2>3 DEF Commit, disk, queue
    <3> QED
      BY <3>1, <3>2 DEF Stored
  <2>4. CASE Rollback(u)
    <3>1. run'[u].pc = "cleanup" /\ run'[u].ok = run[u].ok
      BY <2>4, RunMoves, RunMembers DEF Rollback
    <3>2. run[u].pc = "rollback" /\ UNCHANGED <<job, sold>>
      BY <2>4 DEF Rollback, queue
    <3>3. u \in rows' => u \in rows /\ u \in files'
      BY <2>4 DEF Rollback, KeptFiles, Stored
    <3> QED
      BY <3>1, <3>2, <3>3 DEF Stored
  <2>5. CASE Cleanup(u)
    <3>1. run'[u].pc = "report" /\ run'[u].ok = run[u].ok
      BY <2>5, RunMoves, RunMembers DEF Cleanup
    <3>2. run[u].pc = "cleanup" /\ UNCHANGED <<job, rows, sold, files>>
      BY <2>5 DEF Cleanup, queue, models
    <3> QED
      BY <3>1, <3>2 DEF Stored
  <2>6. CASE Report(u)
    <3>1. run'[u].pc = "idle" /\ ~run'[u].ok
      BY <2>6, RunResets, RunMembers DEF Report
    <3>2. job'[u] = "completed" => run[u].ok \/ job[u] = "completed"
      BY <2>6 DEF Report, TypeOK, JobStates
    <3>3. UNCHANGED <<rows, sold, files>>
      BY <2>6 DEF Report, disk, models
    <3> QED
      BY <3>1, <3>2, <3>3 DEF Stored
  <2> QED
    BY <1>3, <2>1, <2>2, <2>3, <2>4, <2>5, <2>6 DEF Execute
<1>4. CASE Customer(u) \/ TimeStep(u)
  BY <1>4 DEF Customer, Checkout, Delete, PollRead, PollAnswer, TimeStep,
     ExpireReservation, ExpireMarker, AgeTmp, SweepTmp, Stored, disk, queue, work, models
<1> QED
  BY <1>1, <1>2, <1>3, <1>4 DEF Step

\* A stored model has its files, claimed or not, whoever sells, deletes or rolls back
\* at the same time (ingest.ts:325-356); only an upload that is not told to have
\* succeeded loses those of a model that was sold.
THEOREM FilesOfRows == Spec => []RowsKeepFiles
<1> DEFINE AllStored == \A u \in Uploads : Stored(u)
<1>1. Init => AllStored
  BY DEF Init, Stored
<1>2. Safe /\ AllStored /\ [Next]_vars => AllStored'
  <2> SUFFICES ASSUME Safe, AllStored, [Next]_vars
               PROVE  AllStored'
    OBVIOUS
  <2>1. CASE \E u \in Uploads : Step(u)
    <3>1. PICK u \in Uploads : Step(u)
      BY <2>1
    <3>2. Kept(u) /\ Stored(u)'
      BY <3>1, StepKeeps, StepStored DEF Safe
    <3> QED
      BY <3>2, UntouchedStored DEF Kept, Others
  <2>2. CASE StartSweep \/ SweepDies \/ UNCHANGED vars
    BY <2>2 DEF StartSweep, SweepDies, Stored, vars, disk, queue, work, models
  <2> QED
    BY <2>1, <2>2 DEF Next, Step
<1>3. Safe /\ AllStored => RowsKeepFiles
  BY DEF Safe, TypeOK, Stored, RowsKeepFiles
<1> QED
  BY <1>1, <1>2, <1>3, AlwaysSafe, PTL DEF Spec

-----------------------------------------------------------------------------
(* The limit of the session                                                *)

\* The models of finitely many uploads are finitely many.
LEMMA CountType ==
  ASSUME NEW S \in SUBSET Uploads
  PROVE  IsFiniteSet(ModelsOf(S)) /\ Cardinality(ModelsOf(S)) \in Nat
<1>1. IsFiniteSet(1..MaxParts)
  BY FS_Interval, IngestAssumption
<1>2. IsFiniteSet(S)
  BY FS_Subset, IngestAssumption
<1>3. IsFiniteSet(S \X (1..MaxParts))
  BY <1>1, <1>2, FS_Product
<1>4. ModelsOf(S) \in SUBSET (S \X (1..MaxParts))
  BY DEF ModelsOf
<1>5. IsFiniteSet(ModelsOf(S))
  BY <1>3, <1>4, FS_Subset
<1> QED
  BY <1>5, FS_CardinalityType

\* Fewer uploads have no more models.
LEMMA CountMonotone ==
  ASSUME NEW S \in SUBSET Uploads, NEW T \in SUBSET S
  PROVE  Cardinality(ModelsOf(T)) <= Cardinality(ModelsOf(S))
<1>1. ModelsOf(T) \in SUBSET ModelsOf(S)
  BY DEF ModelsOf
<1> QED
  BY <1>1, CountType, FS_Subset

\* An upload adds its own models.
LEMMA CountAdds ==
  ASSUME TypeOK, NEW S \in SUBSET Uploads, NEW u \in Uploads
  PROVE  Cardinality(ModelsOf(S \cup {u})) <= Cardinality(ModelsOf(S)) + parts[u]
<1> DEFINE Own == {u} \X (1..parts[u])
           Before == ModelsOf(S)
<1>1. parts[u] \in 0..MaxParts /\ MaxParts \in Nat
  BY IngestAssumption DEF TypeOK
<1>2. IsFiniteSet(1..parts[u]) /\ Cardinality(1..parts[u]) = parts[u]
  <2>1. 1 \in Int /\ parts[u] \in Int /\ parts[u] >= 0
    BY <1>1
  <2>2. /\ IsFiniteSet(1..parts[u])
        /\ Cardinality(1..parts[u]) = IF 1 > parts[u] THEN 0 ELSE parts[u] - 1 + 1
    BY <2>1, FS_Interval, Zenon
  <2> QED
    BY <2>1, <2>2
<1>3. IsFiniteSet({u}) /\ Cardinality({u}) = 1
  BY FS_Singleton
<1>4. IsFiniteSet(Own) /\ Cardinality(Own) = parts[u]
  <2>1. IsFiniteSet(Own) /\ Cardinality(Own) = 1 * parts[u]
    BY <1>2, <1>3, FS_Product
  <2> QED
    BY <1>1, <2>1
<1>5. ModelsOf(S \cup {u}) = Before \cup Own
  BY <1>1 DEF ModelsOf
<1>6. IsFiniteSet(Before) /\ Cardinality(Before) \in Nat
  BY CountType
<1> HIDE DEF Own, Before
<1>7. Cardinality(Before \cup Own)
        = Cardinality(Before) + Cardinality(Own) - Cardinality(Before \cap Own)
  BY <1>4, <1>6, FS_Union
<1>8. IsFiniteSet(Before \cap Own)
  BY <1>6, FS_Intersection
<1>9. Cardinality(Before \cap Own) \in Nat
  BY <1>8, FS_CardinalityType
<1>10. Cardinality(Before \cup Own) <= Cardinality(Before) + parts[u]
  BY <1>1, <1>4, <1>6, <1>7, <1>9
<1> QED
  BY <1>5, <1>10 DEF Before

\* The consumer is global, and what it has found room for still fits.
Sole == \A u, v \in Uploads : run[u].pc # "idle" /\ run[v].pc # "idle" => u = v
Room(u) ==
  /\ run[u].pc \in {"parse", "quota", "space", "write", "commit"} => u \notin rows
  /\ run[u].pc \in {"space", "write", "commit"} => SessionCount + parts[u] <= MaxModels
Fits == Sole /\ (\A u \in Uploads : Room(u)) /\ SessionLimit

\* Steps that store nothing and claim no room.
LEMMA FitsKept ==
  ASSUME TypeOK, TypeOK', Fits, rows' \subseteq rows, parts' = parts,
         \A v \in Uploads :
           \/ run'[v].pc \in {"idle", "rollback", "cleanup", "report"}
              /\ (run'[v].pc # "idle" => run[v].pc # "idle")
           \/ run'[v].pc = run[v].pc
           \/ run'[v].pc \in {"write", "commit"} /\ run[v].pc \in {"space", "write"}
  PROVE  Fits'
<1>1. Sole'
  BY DEF Fits, Sole
<1>2. SessionCount' <= SessionCount
  <2>1. rows \in SUBSET Uploads /\ rows' \in SUBSET rows
    BY DEF TypeOK
  <2>2. SessionCount' = Cardinality(ModelsOf(rows'))
    BY DEF SessionCount, ModelsOf
  <2> QED
    BY <2>1, <2>2, CountMonotone DEF SessionCount
<1>3. SessionCount \in Nat /\ SessionCount' \in Nat
  <2>1. rows \in SUBSET Uploads /\ rows' \in SUBSET Uploads
    BY DEF TypeOK
  <2>2. SessionCount' = Cardinality(ModelsOf(rows'))
    BY DEF SessionCount, ModelsOf
  <2> QED
    BY <2>1, <2>2, CountType DEF SessionCount
<1>4. MaxModels \in Nat /\ \A v \in Uploads : parts[v] \in 0..MaxParts
  BY IngestAssumption DEF TypeOK
<1>5. ASSUME NEW v \in Uploads
      PROVE  Room(v)'
  BY <1>2, <1>3, <1>4 DEF Fits, Room
<1> QED
  BY <1>1, <1>2, <1>3, <1>4, <1>5 DEF Fits, SessionLimit

\* With one worker no upload starts while another is in hand.
LEMMA StartFits ==
  ASSUME Workers = 1, Safe, Fits, NEW u \in Uploads, StartJob(u)
  PROVE  Fits'
<1>1. TypeOK /\ Local(u)
  BY DEF Safe
<1>2. \A v \in Uploads : run[v].pc = "idle"
  <2>1. IsFiniteSet(Running)
    BY FS_Subset, IngestAssumption DEF Running
  <2>2. Cardinality(Running) = 0
    BY <2>1, FS_CardinalityType DEF StartJob
  <2>3. Running = {}
    BY <2>1, <2>2, FS_EmptySet
  <2> QED
    BY <2>3 DEF Running
<1>3. run'[u].pc = "parse" /\ \A v \in Uploads \ {u} : run'[v] = run[v]
  BY <1>1, RunResets, RunMembers DEF StartJob
<1>4. rows' = rows /\ parts' = parts
  BY DEF StartJob, models
<1>5. u \notin rows
  BY <1>1 DEF StartJob, Local, Begun
<1>6. SessionCount' = SessionCount
  BY <1>4 DEF SessionCount, ModelsOf
<1>7. Sole'
  BY <1>2, <1>3 DEF Sole
<1>8. ASSUME NEW v \in Uploads
      PROVE  Room(v)'
  BY <1>2, <1>3, <1>4, <1>5 DEF Room
<1> QED
  BY <1>6, <1>7, <1>8 DEF Fits, SessionLimit

\* What is in hand is counted only when it is stored.
LEMMA ParseFits ==
  ASSUME Safe, Fits, NEW u \in Uploads, Parse(u)
  PROVE  Fits'
<1>1. TypeOK
  BY DEF Safe
<1>2. PICK pc \in {"quota", "cleanup"} : RunGoto(u, pc)
  BY DEF Parse
<1>3. run'[u].pc = pc /\ \A v \in Uploads \ {u} : run'[v] = run[v]
  BY <1>1, <1>2, RunMoves, RunMembers
<1>4. rows' = rows /\ \A v \in Uploads \ {u} : parts'[v] = parts[v]
  BY <1>1 DEF Parse, models, TypeOK
<1>5. u \notin rows
  BY DEF Parse, Fits, Room
<1>6. SessionCount' = SessionCount
  <2>1. rows \subseteq Uploads
    BY <1>1 DEF TypeOK
  <2> QED
    BY <1>4, <1>5, <2>1 DEF SessionCount, ModelsOf
<1>7. Sole'
  BY <1>3 DEF Fits, Sole, Parse
<1>8. ASSUME NEW v \in Uploads
      PROVE  Room(v)'
  <2>1. v # u => run[v].pc = "idle"
    BY DEF Fits, Sole, Parse
  <2> QED
    BY <1>3, <1>4, <1>5, <2>1 DEF Room
<1> QED
  BY <1>6, <1>7, <1>8 DEF Fits, SessionLimit

LEMMA CheckQuotaFits ==
  ASSUME Safe, Fits, NEW u \in Uploads, CheckQuota(u)
  PROVE  Fits'
<1>1. TypeOK
  BY DEF Safe
<1>2. PICK pc \in {"space", "cleanup"} : RunGoto(u, pc) /\ (pc = "space" => WithinQuota(u))
  BY DEF CheckQuota
<1>3. run'[u].pc = pc /\ \A v \in Uploads \ {u} : run'[v] = run[v]
  BY <1>1, <1>2, RunMoves, RunMembers
<1>4. rows' = rows /\ parts' = parts
  BY DEF CheckQuota, models
<1>5. SessionCount' = SessionCount
  BY <1>4 DEF SessionCount, ModelsOf
<1>6. Sole'
  BY <1>3 DEF Fits, Sole, CheckQuota
<1>7. ASSUME NEW v \in Uploads
      PROVE  Room(v)'
  BY <1>2, <1>3, <1>4, <1>5 DEF Fits, Room, CheckQuota, WithinQuota
<1> QED
  BY <1>5, <1>6, <1>7 DEF Fits, SessionLimit

\* Nothing else is stored between the check and the commit, so it still holds.
LEMMA CommitFits ==
  ASSUME Safe, Fits, NEW u \in Uploads, Commit(u)
  PROVE  Fits'
<1>1. TypeOK
  BY DEF Safe
<1>2. run'[u].pc \in {"cleanup", "rollback"} /\ \A v \in Uploads \ {u} : run'[v] = run[v]
  BY <1>1, RunMoves, RunResets, RunMembers DEF Commit
<1>3. rows' \in {rows, rows \cup {u}} /\ parts' = parts
  BY DEF Commit
<1>4. SessionCount + parts[u] <= MaxModels
  BY DEF Fits, Room, Commit
<1>5. SessionCount' <= MaxModels
  <2>1. SessionCount' = Cardinality(ModelsOf(rows'))
    BY <1>3 DEF SessionCount, ModelsOf
  <2>2. rows \in SUBSET Uploads /\ rows' \in SUBSET Uploads
    BY <1>1, <1>3 DEF TypeOK
  <2>3. SessionCount \in Nat /\ SessionCount' \in Nat
    BY <2>1, <2>2, CountType DEF SessionCount
  <2>4. parts[u] \in Nat /\ MaxModels \in Nat
    BY <1>1, IngestAssumption DEF TypeOK
  <2>5. CASE rows' = rows
    BY <2>1, <2>3, <2>4, <2>5, <1>4 DEF SessionCount
  <2>6. CASE rows' = rows \cup {u}
    <3>1. SessionCount' <= SessionCount + parts[u]
      BY <1>1, <2>1, <2>2, <2>6, CountAdds DEF SessionCount
    <3> QED
      BY <1>4, <2>3, <2>4, <3>1
  <2> QED
    BY <1>3, <2>5, <2>6
<1>6. Sole'
  BY <1>2 DEF Fits, Sole, Commit
<1>7. ASSUME NEW v \in Uploads
      PROVE  Room(v)'
  <2>1. v # u => run[v].pc = "idle"
    BY DEF Fits, Sole, Commit
  <2> QED
    BY <1>2, <2>1 DEF Room
<1> QED
  BY <1>5, <1>6, <1>7 DEF Fits, SessionLimit

LEMMA StepFits ==
  ASSUME Workers = 1, Safe, TypeOK', Fits, NEW u \in Uploads, Step(u)
  PROVE  Fits'
<1>1. TypeOK
  BY DEF Safe
<1>2. CASE UploadStep(u) \/ TimeStep(u)
  <2>1. rows' = rows /\ parts' = parts /\ run' = run
    BY <1>2 DEF UploadStep, Request, ReadFree, Reserve, CheckSession, Stream, Admit, AddJob,
       Verify, Accepted, Release, WebDies, TimeStep, ExpireReservation, ExpireMarker, AgeTmp,
       SweepTmp, work, models
  <2> QED
    BY <1>1, <2>1, FitsKept
<1>3. CASE Customer(u)
  <2>1. rows' \subseteq rows /\ parts' = parts /\ run' = run
    BY <1>3 DEF Customer, Checkout, Delete, PollRead, PollAnswer, work, models
  <2> QED
    BY <1>1, <2>1, FitsKept
<1>4. CASE FailedCleanup(u) \/ LoseEvent(u) \/ LoseLock(u) \/ StalledCheck(u)
  <2>1. rows' = rows /\ parts' = parts /\ run' = run
    BY <1>4 DEF FailedCleanup, LoseEvent, LoseLock, StalledCheck, work, models
  <2> QED
    BY <1>1, <2>1, FitsKept
<1>5. CASE Crash(u) \/ Report(u)
  <2>1. run'[u].pc = "idle" /\ \A v \in Uploads \ {u} : run'[v] = run[v]
    BY <1>1, <1>5, RunResets, RunMembers DEF Crash, Report
  <2>2. rows' = rows /\ parts' = parts
    BY <1>5 DEF Crash, Report, models
  <2> QED
    BY <1>1, <2>1, <2>2, FitsKept
<1>6. CASE CheckSpace(u) \/ WriteFiles(u) \/ Rollback(u) \/ Cleanup(u)
  <2>1. PICK pc \in RunPcs : /\ RunGoto(u, pc)
                             /\ \/ pc \in {"cleanup", "report"}
                                \/ pc \in {"write", "commit"} /\ run[u].pc \in {"space", "write"}
    BY <1>6, RunMembers DEF CheckSpace, WriteFiles, Rollback, Cleanup
  <2>2. run'[u].pc = pc /\ \A v \in Uploads \ {u} : run'[v] = run[v]
    BY <1>1, <2>1, RunMoves
  <2>3. run[u].pc # "idle"
    BY <1>6 DEF CheckSpace, WriteFiles, Rollback, Cleanup
  <2>4. rows' \subseteq rows /\ parts' = parts
    BY <1>6 DEF CheckSpace, WriteFiles, Rollback, Cleanup, models
  <2> QED
    BY <1>1, <2>1, <2>2, <2>3, <2>4, FitsKept
<1> QED
  BY <1>2, <1>3, <1>4, <1>5, <1>6, StartFits, ParseFits, CheckQuotaFits, CommitFits
     DEF Step, QueueStep, Execute

\* The session's limit, when one worker consumes the queue, as docker-compose.yml deploys it:
\* what an upload was found to have room for still fits when its rows are stored
\* (ingest.ts:396-408). Two workers can break it, by a lock that expires.
THEOREM SessionBounded == ASSUME Workers = 1 PROVE Spec => []SessionLimit
<1>1. Init => Fits
  <2> SUFFICES ASSUME Init
               PROVE  Fits
    OBVIOUS
  <2>1. ModelsOf(rows) = {}
    BY DEF Init, ModelsOf
  <2>2. SessionCount = 0
    BY <2>1, FS_EmptySet DEF SessionCount
  <2> QED
    BY <2>2, IngestAssumption DEF Init, Fits, Sole, Room, SessionLimit
<1>2. Safe /\ Safe' /\ Fits /\ [Next]_vars => Fits'
  <2> SUFFICES ASSUME Safe, Safe', Fits, [Next]_vars
               PROVE  Fits'
    OBVIOUS
  <2>1. CASE \E u \in Uploads : Step(u)
    BY <2>1, StepFits DEF Safe
  <2>2. CASE StartSweep \/ SweepDies \/ UNCHANGED vars
    <3>1. rows' = rows /\ parts' = parts /\ run' = run
      BY <2>2 DEF StartSweep, SweepDies, vars, work, models
    <3> QED
      BY <3>1, FitsKept DEF Safe
  <2> QED
    BY <2>1, <2>2 DEF Next, Step
<1>3. Fits => SessionLimit
  BY DEF Fits
<1> QED
  BY <1>1, <1>2, <1>3, AlwaysSafe, PTL DEF Spec
=============================================================================
