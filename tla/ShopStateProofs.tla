--------------------------- MODULE ShopStateProofs ---------------------------
(***************************************************************************)
(* Theorems about the models that MCShopState instantiates.  Each is about *)
(* the specification of one model by itself, for any value of the          *)
(* constants that MCShopState leaves open.                                 *)
(***************************************************************************)
EXTENDS MCShopState, TLAPS, WellFoundedInduction

-----------------------------------------------------------------------------
(* OrcaRun: executions of slice attempts, any number of them, whichever    *)
(* attempts they belong to.                                                *)

Places == {"idle", "ready", "running", "finishing", "read", "reported", "over"}
Archives == {"none", "partial", "good", "bad"}
Failures == {"TIMEOUT", "OUT_OF_MEMORY", "BAD_OUTPUT", "NO_OUTPUT"}
Outcomes == {Lost, "ok", "thrown"} \cup Failures
Dirs == [of : Execs, archive : Archives, by : {Lost} \cup (Execs \X {1, 2})]

\* What an archive holds was written by a run of its attempt.
Written(j, d) == d.archive # "none" => d.by # Lost /\ JobOf[d.by[1]] = j

OrcaTyped ==
  /\ at \in [Execs -> Places]
  /\ tries \in [Execs -> 0..2]
  /\ proc \in [Execs -> {"none", "alive", "exited", "killed"}]
  /\ strays \in [Execs -> BOOLEAN] /\ late \in [Execs -> BOOLEAN]
  /\ alone \in [Execs -> BOOLEAN]
  /\ dir \in [Orca!Jobs -> {Lost} \cup Dirs]
  /\ \A j \in Orca!Jobs : dir[j] # Lost => JobOf[dir[j].of] = j
  /\ \A j \in Orca!Jobs : dir[j] # Lost => Written(j, dir[j])
  /\ first \in [Execs -> {Lost} \cup Failures] /\ outcome \in [Execs -> Outcomes]
  /\ DOMAIN source = Execs

\* An execution has a live slicer only while it waits for it, strays only until they
\* have been reaped, and at most two runs.
Reaped(e) ==
  /\ at[e] # "running" => proc[e] # "alive"
  /\ at[e] \notin {"running", "finishing"} => ~strays[e]
  /\ at[e] = "idle" => tries[e] = 0
  /\ at[e] = "ready" => tries[e] \in {0, 1}
  /\ at[e] \in {"running", "finishing", "read"} => tries[e] \in {1, 2}

\* The directory of an execution that nobody has disturbed: made by it, and holding
\* what one of its runs has exported.  What an earlier run left is not usable, or
\* there would have been no further run.
OwnDir(e) ==
  alone[e] /\ at[e] \in {"ready", "running", "finishing", "read"} /\ Orca!Dir(e) # Lost =>
    /\ Orca!Dir(e).of = e
    /\ Orca!Dir(e).archive = "good" =>
         at[e] # "ready" /\ Orca!Dir(e).by = <<e, tries[e]>>

Priced(e) ==
  /\ outcome[e] # Lost => at[e] \in {"reported", "over"}
  /\ outcome[e] = "ok" =>
       /\ ~late[e] /\ source[e] # Lost /\ JobOf[source[e][1]] = JobOf[e]
       /\ alone[e] => source[e] = <<e, tries[e]>>

OrcaInv == OrcaTyped /\ \A e \in Execs : Reaped(e) /\ OwnDir(e) /\ Priced(e)

\* The fields of an execution, but for its directory.
Resting(x) ==
  /\ at'[x] = at[x] /\ tries'[x] = tries[x] /\ proc'[x] = proc[x] /\ strays'[x] = strays[x]
  /\ late'[x] = late[x] /\ outcome'[x] = outcome[x] /\ source'[x] = source[x]

LEMMA JobType == \A e \in Execs : JobOf[e] \in Orca!Jobs
BY DEF Orca!Jobs, JobOf

\* An execution that rests keeps its part unless its directory changes under it.
LEMMA RestKeeps ==
  ASSUME OrcaInv, OrcaTyped', NEW x \in Execs, Resting(x), alone'[x] => alone[x],
         alone'[x] /\ at[x] \in {"ready", "running", "finishing", "read"} =>
           Orca!Dir(x)' = Orca!Dir(x)
  PROVE  Reaped(x)' /\ OwnDir(x)' /\ Priced(x)'
<1>1. Reaped(x) /\ OwnDir(x) /\ Priced(x)
  BY DEF OrcaInv
<1>2. Reaped(x)' /\ Priced(x)'
  BY <1>1 DEF Resting, Reaped, Priced
<1>3. OwnDir(x)'
  BY <1>1 DEF Resting, OwnDir
<1> QED
  BY <1>2, <1>3

\* A step of one execution keeps the invariant when it keeps its own part of it.
LEMMA OneExecution ==
  ASSUME OrcaInv, NEW e \in Execs, OrcaTyped',
         \A x \in Execs \ {e} :
           /\ Resting(x) /\ (alone'[x] => alone[x])
           /\ alone'[x] /\ at[x] \in {"ready", "running", "finishing", "read"} =>
                Orca!Dir(x)' = Orca!Dir(x),
         Reaped(e)', OwnDir(e)', Priced(e)'
  PROVE  OrcaInv'
<1>1. ASSUME NEW x \in Execs \ {e}
      PROVE  Reaped(x)' /\ OwnDir(x)' /\ Priced(x)'
  BY RestKeeps
<1> QED
  BY <1>1 DEF OrcaInv

\* The directory is made, or taken away, under the others that use it.
LEMMA DisturbedAlone ==
  ASSUME OrcaTyped, NEW e \in Execs, Orca!Disturbed(e)
  PROVE  /\ alone' \in [Execs -> BOOLEAN]
         /\ \A x \in Execs : alone'[x] => alone[x]
         /\ \A x \in Execs \ {e} :
              alone'[x] /\ at[x] \notin {"idle", "over"} => JobOf[x] # JobOf[e]
BY DEF Orca!Disturbed, Orca!Others, OrcaTyped

LEMMA PrepareKeeps ==
  ASSUME OrcaInv, NEW e \in Execs, Orca!Prepare(e)
  PROVE  OrcaInv'
<1> DEFINE d == [of |-> e, archive |-> "none", by |-> Lost]
<1>0. OrcaTyped /\ Reaped(e) /\ OwnDir(e) /\ Priced(e) /\ JobOf[e] \in Orca!Jobs
  BY JobType DEF OrcaInv
<1>1. /\ at[e] = "idle" /\ at' = [at EXCEPT ![e] = "ready"]
      /\ dir' = [dir EXCEPT ![JobOf[e]] = d]
      /\ UNCHANGED <<tries, proc, strays, late, first, outcome, source, host>>
  BY DEF Orca!Prepare
<1>2. Orca!Disturbed(e)
  BY DEF Orca!Prepare
<1>3. d \in Dirs /\ d.of = e /\ d.archive = "none"
  BY DEF Dirs, Archives
<1> HIDE DEF d
<1>4. OrcaTyped'
  <2>1. dir' \in [Orca!Jobs -> {Lost} \cup Dirs]
    BY <1>0, <1>1, <1>3 DEF OrcaTyped
  <2>2. \A j \in Orca!Jobs : dir'[j] # Lost => JobOf[dir'[j].of] = j /\ Written(j, dir'[j])
    BY <1>0, <1>1, <1>3 DEF OrcaTyped, Written
  <2>3. at' \in [Execs -> Places]
    BY <1>0, <1>1 DEF OrcaTyped, Places
  <2> QED
    BY <1>0, <1>1, <1>2, <2>1, <2>2, <2>3, DisturbedAlone DEF OrcaTyped
<1>5. ASSUME NEW x \in Execs \ {e}
      PROVE  /\ Resting(x) /\ (alone'[x] => alone[x])
             /\ alone'[x] /\ at[x] \in {"ready", "running", "finishing", "read"} =>
                  Orca!Dir(x)' = Orca!Dir(x)
  <2>1. Resting(x)
    BY <1>0, <1>1 DEF Resting, OrcaTyped
  <2>2. alone'[x] /\ at[x] \in {"ready", "running", "finishing", "read"} =>
          Orca!Dir(x)' = Orca!Dir(x)
    BY <1>0, <1>1, <1>2, DisturbedAlone DEF Orca!Dir, OrcaTyped
  <2> QED
    BY <1>0, <1>2, <2>1, <2>2, DisturbedAlone
<1>6. Reaped(e)' /\ Priced(e)'
  <2>1. at'[e] = "ready" /\ outcome[e] = Lost
    BY <1>0, <1>1 DEF Priced, OrcaTyped
  <2> QED
    BY <1>0, <1>1, <2>1, LostAssumption DEF Reaped, Priced
<1>7. OwnDir(e)'
  <2>1. Orca!Dir(e)' = d
    BY <1>0, <1>1 DEF Orca!Dir, OrcaTyped
  <2> QED
    BY <1>3, <2>1 DEF OwnDir
<1> QED
  BY <1>4, <1>5, <1>6, <1>7, OneExecution

LEMMA FinallyKeeps ==
  ASSUME OrcaInv, NEW e \in Execs, Orca!Finally(e)
  PROVE  OrcaInv'
<1>0. OrcaTyped /\ Reaped(e) /\ OwnDir(e) /\ Priced(e) /\ JobOf[e] \in Orca!Jobs
  BY JobType DEF OrcaInv
<1>1. /\ at[e] = "reported" /\ at' = [at EXCEPT ![e] = "over"]
      /\ dir' = [dir EXCEPT ![JobOf[e]] = Lost]
      /\ UNCHANGED <<tries, proc, strays, late, first, outcome, source, host>>
  BY DEF Orca!Finally
<1>2. Orca!Disturbed(e)
  BY DEF Orca!Finally
<1>3. OrcaTyped'
  BY <1>0, <1>1, <1>2, DisturbedAlone DEF OrcaTyped, Places
<1>4. ASSUME NEW x \in Execs \ {e}
      PROVE  /\ Resting(x) /\ (alone'[x] => alone[x])
             /\ alone'[x] /\ at[x] \in {"ready", "running", "finishing", "read"} =>
                  Orca!Dir(x)' = Orca!Dir(x)
  <2>1. Resting(x)
    BY <1>0, <1>1 DEF Resting, OrcaTyped
  <2>2. alone'[x] /\ at[x] \in {"ready", "running", "finishing", "read"} =>
          Orca!Dir(x)' = Orca!Dir(x)
    BY <1>0, <1>1, <1>2, DisturbedAlone DEF Orca!Dir, OrcaTyped
  <2> QED
    BY <1>0, <1>2, <2>1, <2>2, DisturbedAlone
<1>5. at'[e] = "over" /\ (alone'[e] => alone[e])
  BY <1>0, <1>1, <1>2, DisturbedAlone DEF OrcaTyped
<1>6. Reaped(e)' /\ Priced(e)' /\ OwnDir(e)'
  BY <1>0, <1>1, <1>5 DEF Reaped, Priced, OwnDir
<1> QED
  BY <1>3, <1>4, <1>6, OneExecution

\* Steps that leave the directory and its users as they are.
Here(e) ==
  \/ Orca!Throw(e) \/ Orca!Spawn(e) \/ Orca!End(e) \/ Orca!Exit(e) \/ Orca!Timeout(e)
  \/ Orca!Reap(e) \/ Orca!Retry(e) \/ Orca!Report(e)

LEMMA OutcomeType ==
  ASSUME OrcaTyped, NEW e \in Execs
  PROVE  /\ Orca!runOrcaSlice(e) \in {"ok"} \cup Failures
         /\ Orca!runOrcaSlice(e) = "ok" =>
              ~late[e] /\ Orca!Dir(e) # Lost /\ Orca!Dir(e).archive = "good"
         /\ ~late[e] /\ Orca!Dir(e) # Lost /\ Orca!Dir(e).archive = "good" =>
              Orca!runOrcaSlice(e) = "ok"
         /\ late[e] => Orca!runOrcaSlice(e) = "TIMEOUT"
BY DEF Orca!runOrcaSlice, Orca!parseSliceInfo, Orca!describeMissingOutput, Failures, OrcaTyped

LEMMA HereTyped ==
  ASSUME OrcaInv, NEW e \in Execs, Here(e)
  PROVE  OrcaTyped'
<1>0. OrcaTyped /\ Reaped(e)
  BY DEF OrcaInv
<1>1. CASE Orca!Throw(e)
  BY <1>0, <1>1 DEF Orca!Throw, OrcaTyped, Places, Outcomes
<1>2. CASE Orca!Spawn(e)
  BY <1>0, <1>2 DEF Orca!Spawn, OrcaTyped, Places, Reaped
<1>3. CASE Orca!End(e)
  BY <1>0, <1>3 DEF Orca!End, OrcaTyped
<1>4. CASE Orca!Exit(e)
  BY <1>0, <1>4 DEF Orca!Exit, OrcaTyped, Places
<1>5. CASE Orca!Timeout(e)
  <2>1. PICK s \in BOOLEAN : strays' = [strays EXCEPT ![e] = IF proc[e] = "alive" THEN s ELSE @]
    BY <1>5 DEF Orca!Timeout
  <2>2. strays' \in [Execs -> BOOLEAN]
    BY <1>0, <2>1 DEF OrcaTyped
  <2> QED
    BY <1>0, <1>5, <2>2 DEF Orca!Timeout, OrcaTyped, Places
<1>6. CASE Orca!Reap(e)
  BY <1>0, <1>6 DEF Orca!Reap, Orca!Reaped, OrcaTyped, Places
<1>7. CASE Orca!Retry(e)
  <2>1. Orca!runOrcaSlice(e) \in Failures
    BY <1>0, <1>7, OutcomeType DEF Orca!Retry, Orca!Again
  <2> QED
    BY <1>0, <1>7, <2>1 DEF Orca!Retry, OrcaTyped, Places
<1>8. CASE Orca!Report(e)
  <2>1. (IF tries[e] = 2 /\ Orca!runOrcaSlice(e) # "ok" THEN first[e] ELSE Orca!runOrcaSlice(e)) \in Outcomes
    BY <1>0, OutcomeType DEF Outcomes, OrcaTyped
  <2> QED
    BY <1>0, <1>8, <2>1 DEF Orca!Report, OrcaTyped, Places
<1> QED
  BY <1>1, <1>2, <1>3, <1>4, <1>5, <1>6, <1>7, <1>8 DEF Here

LEMMA HereKeeps ==
  ASSUME OrcaInv, NEW e \in Execs, Here(e)
  PROVE  OrcaInv'
<1>0. OrcaTyped /\ OrcaTyped' /\ Reaped(e) /\ OwnDir(e) /\ Priced(e)
  BY HereTyped DEF OrcaInv
<1>1. dir' = dir /\ alone' = alone /\ Orca!Dir(e)' = Orca!Dir(e)
  BY DEF Here, Orca!Throw, Orca!Spawn, Orca!End, Orca!Exit, Orca!Timeout, Orca!Reap,
         Orca!Retry, Orca!Report, Orca!Dir
<1>2. ASSUME NEW x \in Execs \ {e}
      PROVE  Resting(x) /\ Orca!Dir(x)' = Orca!Dir(x)
  BY <1>0, <1>1 DEF Here, Orca!Throw, Orca!Spawn, Orca!End, Orca!Exit, Orca!Timeout, Orca!Reap,
         Orca!Reaped, Orca!Retry, Orca!Report, Orca!Dir, Resting, OrcaTyped
<1>3. Reaped(e)'
  BY <1>0 DEF Here, Orca!Throw, Orca!Spawn, Orca!End, Orca!Exit, Orca!Timeout, Orca!Reap,
         Orca!Reaped, Orca!Retry, Orca!Report, Orca!Again, Reaped, OrcaTyped
<1>4. OwnDir(e)'
  <2>1. CASE Orca!Throw(e) \/ Orca!Report(e)
    <3>1. at'[e] = "reported"
      BY <1>0, <2>1 DEF Orca!Throw, Orca!Report, OrcaTyped
    <3> QED
      BY <3>1 DEF OwnDir
  <2>2. CASE Orca!Spawn(e)
    BY <1>0, <1>1, <2>2 DEF Orca!Spawn, OwnDir
  <2>3. CASE Orca!End(e) \/ Orca!Exit(e) \/ Orca!Timeout(e) \/ Orca!Reap(e)
    <3>1. /\ tries'[e] = tries[e]
          /\ at[e] \in {"running", "finishing", "read"} /\ at'[e] \in {"running", "finishing", "read"}
      BY <1>0, <2>3 DEF Orca!End, Orca!Exit, Orca!Timeout, Orca!Reap, Reaped, OrcaTyped
    <3> QED
      BY <1>0, <1>1, <3>1 DEF OwnDir
  <2>4. CASE Orca!Retry(e)
    <3>1. at[e] = "read" /\ Orca!runOrcaSlice(e) \notin {"ok", "TIMEOUT"}
      BY <2>4 DEF Orca!Retry, Orca!Again, Orca!shouldRetryOrientation
    <3>2. Orca!Dir(e) # Lost => Orca!Dir(e).archive # "good"
      BY <1>0, <3>1, OutcomeType
    <3> QED
      BY <1>0, <1>1, <3>1, <3>2 DEF OwnDir
  <2> QED
    BY <2>1, <2>2, <2>3, <2>4 DEF Here
<1>5. Priced(e)'
  <2>1. CASE Orca!Report(e)
    <3>1. /\ at[e] = "read" /\ at'[e] = "reported" /\ tries'[e] = tries[e] /\ late'[e] = late[e]
          /\ outcome'[e] = IF tries[e] = 2 /\ Orca!runOrcaSlice(e) # "ok" THEN first[e]
                           ELSE Orca!runOrcaSlice(e)
          /\ source'[e] = IF Orca!Dir(e) = Lost THEN Lost ELSE Orca!Dir(e).by
      BY <1>0, <2>1 DEF Orca!Report, OrcaTyped
    <3>2. first[e] # "ok"
      BY <1>0, LostAssumption DEF OrcaTyped, Failures
    <3>3. outcome'[e] = "ok" => ~late[e] /\ Orca!Dir(e) # Lost /\ Orca!Dir(e).archive = "good"
      BY <1>0, <3>1, <3>2, OutcomeType
    <3>4. outcome'[e] = "ok" =>
            /\ source'[e] # Lost /\ JobOf[source'[e][1]] = JobOf[e]
            /\ alone[e] => source'[e] = <<e, tries[e]>>
      <4> SUFFICES ASSUME outcome'[e] = "ok"
                   PROVE  /\ source'[e] # Lost /\ JobOf[source'[e][1]] = JobOf[e]
                          /\ alone[e] => source'[e] = <<e, tries[e]>>
        OBVIOUS
      <4>1. source'[e] = Orca!Dir(e).by /\ Orca!Dir(e) # Lost /\ Orca!Dir(e).archive = "good"
        BY <3>1, <3>3
      <4>2. Written(JobOf[e], Orca!Dir(e))
        BY <1>0, <4>1, JobType DEF OrcaTyped, Orca!Dir
      <4>3. source'[e] # Lost /\ JobOf[source'[e][1]] = JobOf[e]
        BY <4>1, <4>2 DEF Written
      <4>4. alone[e] => source'[e] = <<e, tries[e]>>
        BY <1>0, <3>1, <4>1 DEF OwnDir
      <4> QED
        BY <4>3, <4>4
    <3>5. alone'[e] = alone[e]
      BY <1>1
    <3> QED
      BY <3>1, <3>3, <3>4, <3>5 DEF Priced
  <2>2. CASE Orca!Throw(e)
    BY <1>0, <2>2 DEF Orca!Throw, Priced, OrcaTyped
  <2>3. CASE \/ Orca!Spawn(e) \/ Orca!End(e) \/ Orca!Exit(e) \/ Orca!Timeout(e)
             \/ Orca!Reap(e) \/ Orca!Retry(e)
    <3>1. outcome'[e] = outcome[e] /\ at[e] \notin {"reported", "over"}
      BY <1>0, <2>3 DEF Orca!Spawn, Orca!End, Orca!Exit, Orca!Timeout, Orca!Reap, Orca!Retry,
                        Reaped, OrcaTyped
    <3> QED
      BY <1>0, <3>1, LostAssumption DEF Priced
  <2> QED
    BY <2>1, <2>2, <2>3 DEF Here
<1> QED
  BY <1>0, <1>1, <1>2, <1>3, <1>4, <1>5, OneExecution

\* OrcaSlicer writes its archive: only where it was started.
LEMMA ExportKeeps ==
  ASSUME OrcaInv, NEW e \in Execs, Orca!Export(e)
  PROVE  OrcaInv'
<1>0. OrcaTyped /\ Reaped(e) /\ OwnDir(e) /\ Priced(e) /\ JobOf[e] \in Orca!Jobs
  BY JobType DEF OrcaInv
<1>1. PICK a \in {"partial", "good", "bad"} :
        dir' = [dir EXCEPT ![JobOf[e]].archive = a, ![JobOf[e]].by = <<e, tries[e]>>]
  BY DEF Orca!Export
<1>2. /\ proc[e] = "alive" /\ Orca!Dir(e) # Lost /\ Orca!Dir(e).of = e
      /\ UNCHANGED <<at, tries, proc, strays, late, first, outcome, source, alone, host>>
  BY DEF Orca!Export
<1> DEFINE d == [Orca!Dir(e) EXCEPT !.archive = a, !.by = <<e, tries[e]>>]
<1>3. at[e] = "running" /\ tries[e] \in {1, 2}
  BY <1>0, <1>2 DEF Reaped
<1>4. Orca!Dir(e) \in Dirs
  BY <1>0, <1>2 DEF OrcaTyped, Orca!Dir
<1>5. d \in Dirs /\ d.of = e /\ d.archive = a /\ d.by = <<e, tries[e]>>
  BY <1>2, <1>3, <1>4 DEF Dirs, Archives
<1>6. dir' = [dir EXCEPT ![JobOf[e]] = d]
  BY <1>0, <1>1 DEF OrcaTyped, Orca!Dir
<1> HIDE DEF d
<1>7. OrcaTyped'
  <2>1. dir' \in [Orca!Jobs -> {Lost} \cup Dirs]
    BY <1>0, <1>5, <1>6 DEF OrcaTyped
  <2>2. \A j \in Orca!Jobs : dir'[j] # Lost => JobOf[dir'[j].of] = j
    BY <1>0, <1>5, <1>6 DEF OrcaTyped
  <2>3. <<e, tries[e]>> # Lost
    BY <1>3, LostAssumption
  <2>4. \A j \in Orca!Jobs : dir'[j] # Lost => Written(j, dir'[j])
    <3>1. Written(JobOf[e], d)
      BY <1>5, <2>3 DEF Written
    <3>2. \A j \in Orca!Jobs : dir'[j] = IF j = JobOf[e] THEN d ELSE dir[j]
      BY <1>0, <1>6 DEF OrcaTyped
    <3>3. \A j \in Orca!Jobs : dir[j] # Lost => Written(j, dir[j])
      BY <1>0 DEF OrcaTyped
    <3> QED
      BY <3>1, <3>2, <3>3
  <2> QED
    BY <1>0, <1>2, <2>1, <2>2, <2>4 DEF OrcaTyped
<1>8. ASSUME NEW x \in Execs \ {e}
      PROVE  Reaped(x)' /\ OwnDir(x)' /\ Priced(x)'
  <2>1. CASE JobOf[x] # JobOf[e]
    <3>1. Orca!Dir(x)' = Orca!Dir(x)
      BY <1>0, <1>6, <2>1, JobType DEF Orca!Dir, OrcaTyped
    <3> QED
      BY <1>2, <1>7, <3>1, RestKeeps DEF Resting
  <2>2. CASE JobOf[x] = JobOf[e]
    <3>1. Orca!Dir(x) # Lost /\ Orca!Dir(x).of = e
      BY <1>2, <2>2 DEF Orca!Dir
    <3>2. ~(alone[x] /\ at[x] \in {"ready", "running", "finishing", "read"})
      BY <3>1 DEF OrcaInv, OwnDir
    <3> QED
      BY <1>2, <1>7, <3>2, RestKeeps DEF Resting
  <2> QED
    BY <2>1, <2>2
<1>9. Reaped(e)' /\ Priced(e)'
  BY <1>0, <1>2 DEF Reaped, Priced
<1>10. OwnDir(e)'
  <2>1. Orca!Dir(e)' = d
    BY <1>0, <1>6 DEF Orca!Dir, OrcaTyped
  <2> QED
    BY <1>2, <1>3, <1>5, <2>1 DEF OwnDir
<1> QED
  BY <1>7, <1>8, <1>9, <1>10 DEF OrcaInv

\* A reap that fails takes the whole orchestrator with it.
LEMMA ReapFailsKeeps ==
  ASSUME OrcaInv, NEW e \in Execs, Orca!ReapFails(e)
  PROVE  OrcaInv'
<1>1. /\ at' = [x \in Execs |-> "over"] /\ proc' = [x \in Execs |-> "none"]
      /\ strays' = [x \in Execs |-> FALSE]
      /\ UNCHANGED <<tries, late, dir, first, outcome, source, alone>>
  BY DEF Orca!ReapFails
<1>2. OrcaTyped'
  BY <1>1 DEF OrcaInv, OrcaTyped, Places
<1>3. ASSUME NEW x \in Execs
      PROVE  Reaped(x)' /\ OwnDir(x)' /\ Priced(x)'
  BY <1>1 DEF OrcaInv, Reaped, OwnDir, Priced
<1> QED
  BY <1>2, <1>3 DEF OrcaInv

LEMMA InitOrca == Orca!Init => OrcaInv
<1> SUFFICES ASSUME Orca!Init
             PROVE  OrcaInv
  OBVIOUS
<1>1. OrcaTyped
  BY DEF Orca!Init, OrcaTyped, Places, Outcomes
<1>2. ASSUME NEW e \in Execs
      PROVE  Reaped(e) /\ OwnDir(e) /\ Priced(e)
  BY LostAssumption DEF Orca!Init, Reaped, OwnDir, Priced
<1> QED
  BY <1>1, <1>2 DEF OrcaInv

LEMMA StepOrca == OrcaInv /\ [Orca!Next]_(Orca!vars) => OrcaInv'
<1> SUFFICES ASSUME OrcaInv, [Orca!Next]_(Orca!vars)
             PROVE  OrcaInv'
  OBVIOUS
<1>1. ASSUME NEW e \in Execs,
             Orca!Host(e) \/ Orca!Export(e) \/ Orca!End(e) \/ Orca!Timeout(e) \/ Orca!ReapFails(e)
      PROVE  OrcaInv'
  BY <1>1, PrepareKeeps, FinallyKeeps, HereKeeps, ExportKeeps, ReapFailsKeeps DEF Orca!Host, Here
<1>2. CASE UNCHANGED Orca!vars
  BY <1>2 DEF Orca!vars, OrcaInv, OrcaTyped, Reaped, OwnDir, Priced, Orca!Dir
<1> QED
  BY <1>1, <1>2 DEF Orca!Next

\* However executions of one attempt overlap, a price is read from what a run of the
\* attempt wrote to its end, from the last run of the execution that reports it if no
\* other has made or removed the directory, and an identity goes back with nothing
\* running under it (orca.ts:248-283, :313-316 and :389-413).
THEOREM RunsKeptApart == Orca!Spec => []RunsApart
<1>1. OrcaInv => RunsApart
  <2> SUFFICES ASSUME OrcaInv
               PROVE  RunsApart
    OBVIOUS
  <2>1. Orca!TypeOK
    BY DEF OrcaInv, OrcaTyped, Orca!TypeOK, Places, Outcomes, Failures
  <2>2. Orca!PricedByItsRun /\ Orca!ReleasedClean
    BY DEF OrcaInv, Reaped, Priced, Orca!PricedByItsRun, Orca!ReleasedClean
  <2> QED
    BY <2>1, <2>2 DEF RunsApart, Orca!RunsApart
<1> QED
  BY <1>1, InitOrca, StepOrca, PTL DEF Orca!Spec

-----------------------------------------------------------------------------
(* PdfStore: the checkout and any number of regenerations, leases that run *)
(* out and failures.                                                       *)

\* A writer in the section whose lease has not run out holds the lock.
Holds(w) == Pdf!InSection(w) /\ w \notin overrun => lock = w

\* A complete file is recorded, or the writer that will record or remove it is at it.
Minded ==
  pdf.state = "complete" =>
    recorded \/ crashed \/ \E w \in Pdf!Writers : pc[w] \in {"record", "unrecord"}

\* A file that is not complete is being made, or a failure left it so: a partial one is
\* its own writer's, and where there is none while a path is recorded or about to be,
\* somebody has removed it to write his own.
Whole ==
  torn \/ /\ pdf.state = "partial" => pdf.by \in Pdf!Writers /\ pc[pdf.by] = "write"
          /\ pdf.state = "none" /\ (recorded \/ \E w \in Pdf!Writers : pc[w] \in {"write", "record", "unrecord"})
               => \E w \in Pdf!Writers : pc[w] = "create"

PdfInv ==
  /\ Pdf!TypeOK
  /\ \A w \in Pdf!Writers : Holds(w) /\ (snapshot[w] => recorded)
  /\ Minded
  /\ Whole

LEMMA InitPdf == Pdf!Init => PdfInv
<1> SUFFICES ASSUME Pdf!Init
             PROVE  PdfInv
  OBVIOUS
<1>1. Pdf!TypeOK
  BY DEF Pdf!Init, Pdf!TypeOK, Pdf!NoFile, Pdf!Critical
<1>2. \A w \in Pdf!Writers : Holds(w) /\ (snapshot[w] => recorded)
  BY DEF Pdf!Init, Holds, Pdf!InSection, Pdf!Critical
<1>3. Minded
  BY DEF Pdf!Init, Minded, Pdf!NoFile
<1>4. Whole
  BY DEF Pdf!Init, Whole, Pdf!NoFile
<1> QED
  BY <1>1, <1>2, <1>3, <1>4 DEF PdfInv

\* Leaving the section frees the lock only for its own holder.
LEMMA LeaveKeeps ==
  ASSUME PdfInv, NEW w \in Pdf!Writers, Pdf!Leave(w)
  PROVE  /\ pc' \in [Pdf!Writers -> Pdf!Critical \cup {"idle", "wait", "done"}]
         /\ pc'[w] = "done" /\ \A v \in Pdf!Writers \ {w} : pc'[v] = pc[v]
         /\ lock' \in Pdf!Writers \cup {NoOne} /\ overrun' \subseteq Pdf!Writers
         /\ \A v \in Pdf!Writers : Holds(v)'
<1>1. /\ pc' = [pc EXCEPT ![w] = "done"]
      /\ lock' = (IF lock = w THEN NoOne ELSE lock) /\ overrun' = overrun \ {w}
  BY DEF Pdf!Leave, Pdf!Goto, Pdf!Released
<1>2. /\ pc \in [Pdf!Writers -> Pdf!Critical \cup {"idle", "wait", "done"}]
      /\ lock \in Pdf!Writers \cup {NoOne} /\ overrun \subseteq Pdf!Writers
      /\ \A v \in Pdf!Writers : Holds(v)
  BY DEF PdfInv, Pdf!TypeOK
<1>3. ASSUME NEW v \in Pdf!Writers
      PROVE  Holds(v)'
  <2>1. CASE v = w
    BY <1>1, <1>2, <2>1 DEF Holds, Pdf!InSection, Pdf!Critical
  <2>2. CASE v # w
    <3>1. Pdf!InSection(v)' <=> Pdf!InSection(v)
      BY <1>1, <1>2, <2>2 DEF Pdf!InSection
    <3> QED
      BY <1>1, <1>2, <2>2, <3>1 DEF Holds
  <2> QED
    BY <2>1, <2>2
<1> QED
  BY <1>1, <1>2, <1>3

\* A step that stays in the section keeps the lock as it is.
LEMMA GotoKeeps ==
  ASSUME PdfInv, NEW w \in Pdf!Writers, NEW l \in Pdf!Critical, Pdf!InSection(w),
         Pdf!Goto(w, l), lock' = lock, overrun' = overrun
  PROVE  /\ pc' \in [Pdf!Writers -> Pdf!Critical \cup {"idle", "wait", "done"}]
         /\ pc'[w] = l /\ \A v \in Pdf!Writers \ {w} : pc'[v] = pc[v]
         /\ lock' \in Pdf!Writers \cup {NoOne} /\ overrun' \subseteq Pdf!Writers
         /\ \A v \in Pdf!Writers : Holds(v)'
<1>1. pc' = [pc EXCEPT ![w] = l]
  BY DEF Pdf!Goto
<1>2. /\ pc \in [Pdf!Writers -> Pdf!Critical \cup {"idle", "wait", "done"}]
      /\ lock \in Pdf!Writers \cup {NoOne} /\ overrun \subseteq Pdf!Writers
      /\ \A v \in Pdf!Writers : Holds(v)
  BY DEF PdfInv, Pdf!TypeOK
<1>3. \A v \in Pdf!Writers : Pdf!InSection(v)' <=> Pdf!InSection(v)
  BY <1>1, <1>2 DEF Pdf!InSection
<1> QED
  BY <1>1, <1>2, <1>3 DEF Holds

\* Before the section: a request reads the row, and waits for the lock or gives up.
LEMMA OutsideKeeps ==
  ASSUME PdfInv, NEW w \in Pdf!Writers,
         Pdf!Regenerate(w) \/ Pdf!Acquire(w) \/ Pdf!GiveUp(w)
  PROVE  PdfInv'
<1> USE LostAssumption DEF Pdf!Writers
<1>0. Pdf!TypeOK /\ Minded /\ Whole /\ \A v \in Pdf!Writers : Holds(v) /\ (snapshot[v] => recorded)
  BY DEF PdfInv
<1>1. CASE Pdf!Regenerate(w)
  <2>1. /\ pc[w] = "idle" /\ pc' = [pc EXCEPT ![w] = "wait"]
        /\ snapshot' = [snapshot EXCEPT ![w] = recorded]
        /\ UNCHANGED <<lock, overrun, pdf, recorded, torn, crashed, pdfFaults, overruns>>
    BY <1>1 DEF Pdf!Regenerate, Pdf!Goto
  <2>2. Pdf!TypeOK'
    BY <1>0, <2>1 DEF Pdf!TypeOK
  <2>3. \A v \in Pdf!Writers : Holds(v)' /\ (snapshot'[v] => recorded')
    BY <1>0, <2>1 DEF Pdf!TypeOK, Holds, Pdf!InSection, Pdf!Critical
  <2>4. Minded'
    BY <1>0, <2>1 DEF Pdf!TypeOK, Minded
  <2>5. Whole'
    BY <1>0, <2>1 DEF Pdf!TypeOK, Whole
  <2> QED
    BY <2>2, <2>3, <2>4, <2>5 DEF PdfInv
<1>2. CASE Pdf!Acquire(w)
  <2>1. /\ pc[w] = "wait" /\ lock = NoOne /\ lock' = w /\ pc' = [pc EXCEPT ![w] = "check"]
        /\ UNCHANGED <<snapshot, overrun, pdf, recorded, torn, crashed, pdfFaults, overruns>>
    BY <1>2 DEF Pdf!Acquire, Pdf!Goto
  <2>2. Pdf!TypeOK'
    BY <1>0, <2>1 DEF Pdf!TypeOK, Pdf!Critical
  <2>3. \A v \in Pdf!Writers : Holds(v)' /\ (snapshot'[v] => recorded')
    BY <1>0, <2>1 DEF Pdf!TypeOK, Holds, Pdf!InSection
  <2>4. Minded'
    BY <1>0, <2>1 DEF Pdf!TypeOK, Minded
  <2>5. Whole'
    BY <1>0, <2>1 DEF Pdf!TypeOK, Whole
  <2> QED
    BY <2>2, <2>3, <2>4, <2>5 DEF PdfInv
<1>3. CASE Pdf!GiveUp(w)
  <2>1. /\ pc[w] = "wait" /\ pc' = [pc EXCEPT ![w] = "done"]
        /\ UNCHANGED <<snapshot, lock, overrun, pdf, recorded, torn, crashed, pdfFaults, overruns>>
    BY <1>3 DEF Pdf!GiveUp, Pdf!Goto
  <2>2. Pdf!TypeOK'
    BY <1>0, <2>1 DEF Pdf!TypeOK
  <2>3. \A v \in Pdf!Writers : Holds(v)' /\ (snapshot'[v] => recorded')
    BY <1>0, <2>1 DEF Pdf!TypeOK, Holds, Pdf!InSection, Pdf!Critical
  <2>4. Minded'
    BY <1>0, <2>1 DEF Pdf!TypeOK, Minded
  <2>5. Whole'
    BY <1>0, <2>1 DEF Pdf!TypeOK, Whole
  <2> QED
    BY <2>2, <2>3, <2>4, <2>5 DEF PdfInv
<1> QED
  BY <1>1, <1>2, <1>3

\* In the section.
LEMMA InsideKeeps ==
  ASSUME PdfInv, NEW w \in Pdf!Writers,
         \/ Pdf!Check(w) \/ Pdf!Remove(w) \/ Pdf!Create(w)
         \/ Pdf!Write(w) \/ Pdf!Record(w) \/ Pdf!Unrecord(w)
  PROVE  PdfInv'
<1>0. Pdf!TypeOK /\ Minded /\ Whole /\ \A v \in Pdf!Writers : Holds(v) /\ (snapshot[v] => recorded)
  BY DEF PdfInv
<1>1. \/ \E l \in Pdf!Critical :
            Pdf!InSection(w) /\ Pdf!Goto(w, l) /\ lock' = lock /\ overrun' = overrun
      \/ Pdf!Leave(w)
  BY DEF Pdf!Check, Pdf!Remove, Pdf!Create, Pdf!Write, Pdf!Record, Pdf!Unrecord,
         Pdf!InSection, Pdf!Critical
<1>2. /\ pc' \in [Pdf!Writers -> Pdf!Critical \cup {"idle", "wait", "done"}]
      /\ \A v \in Pdf!Writers \ {w} : pc'[v] = pc[v]
      /\ lock' \in Pdf!Writers \cup {NoOne} /\ overrun' \subseteq Pdf!Writers
      /\ \A v \in Pdf!Writers : Holds(v)'
  BY <1>1, LeaveKeeps, GotoKeeps
<1>3. /\ snapshot' = snapshot /\ crashed' = crashed
      /\ recorded' = recorded \/ recorded' = TRUE
  BY DEF Pdf!Check, Pdf!Remove, Pdf!Create, Pdf!Write, Pdf!Record, Pdf!Unrecord
<1>4. pdf' \in [state : {"none", "partial", "complete"}, by : Pdf!Writers \cup {NoOne}]
  BY <1>0 DEF Pdf!Check, Pdf!Remove, Pdf!Create, Pdf!Write, Pdf!Record, Pdf!Unrecord,
              Pdf!Unrecorded, Pdf!NoFile, Pdf!TypeOK
<1> torn' \in BOOLEAN
  <2>1. torn \in BOOLEAN
    BY <1>0 DEF Pdf!TypeOK
  <2>2. torn' \in {torn, TRUE, torn /\ pdf.by # w, torn \/ pdf.by = w}
    BY DEF Pdf!Check, Pdf!Remove, Pdf!Create, Pdf!Write, Pdf!Record, Pdf!Unrecord
  <2> QED
    BY <2>1, <2>2
<1>5. Pdf!TypeOK'
  BY <1>0, <1>2, <1>3, <1>4 DEF Pdf!TypeOK
<1>6. \A v \in Pdf!Writers : snapshot'[v] => recorded'
  BY <1>0, <1>3
<1>7. Minded'
  <2> SUFFICES ASSUME pdf'.state = "complete", ~recorded', ~crashed'
               PROVE  \E v \in Pdf!Writers : pc'[v] \in {"record", "unrecord"}
    BY DEF Minded
  <2>1. ~recorded /\ ~crashed
    BY <1>3
  <2>2. CASE Pdf!Check(w) \/ Pdf!Remove(w) \/ Pdf!Create(w)
    <3>1. pc[w] \notin {"record", "unrecord"} /\ pdf.state = "complete"
      BY <2>2 DEF Pdf!Check, Pdf!Remove, Pdf!Create, Pdf!NoFile
    <3> QED
      BY <1>0, <1>2, <2>1, <3>1 DEF Minded
  <2>3. CASE Pdf!Write(w)
    <3>1. CASE pc'[w] = "record"
      BY <3>1
    <3>2. CASE pc'[w] # "record"
      <4>1. ~snapshot[w]
        BY <1>0, <2>1
      <4>2. pdf' = pdf /\ pc[w] = "write"
        BY <1>0, <2>3, <3>2, <4>1 DEF Pdf!Write, Pdf!Goto, Pdf!TypeOK
      <4> QED
        BY <1>0, <1>2, <2>1, <4>2 DEF Minded
    <3> QED
      BY <3>1, <3>2
  <2>4. CASE Pdf!Record(w)
    <3>1. pc'[w] = "unrecord"
      BY <1>0, <2>1, <2>4 DEF Pdf!Record, Pdf!Goto, Pdf!TypeOK
    <3> QED
      BY <3>1
  <2>5. CASE Pdf!Unrecord(w)
    BY <2>5 DEF Pdf!Unrecord, Pdf!Unrecorded, Pdf!NoFile
  <2> QED
    BY <2>2, <2>3, <2>4, <2>5
<1>8. Whole'
  <2> SUFFICES ASSUME ~torn'
               PROVE  Whole'
    BY DEF Whole
  <2>1. CASE Pdf!Check(w)
    <3>1. pdf' = pdf /\ torn' = torn /\ recorded' = recorded /\ pc[w] = "check"
      BY <2>1 DEF Pdf!Check
    <3>2. pc'[w] \in {"create", "remove", "done"}
      BY <1>0, <2>1 DEF Pdf!Check, Pdf!Goto, Pdf!Leave, Pdf!TypeOK
    <3> QED
      BY <1>0, <1>2, <3>1, <3>2 DEF Whole
  <2>2. CASE Pdf!Remove(w)
    <3>1. pdf'.state = "none" /\ torn' = torn /\ pc'[w] = "create"
      BY <1>0, <2>2 DEF Pdf!Remove, Pdf!NoFile, Pdf!Goto, Pdf!TypeOK
    <3> QED
      BY <3>1 DEF Whole
  <2>3. CASE Pdf!Create(w)
    <3>1. CASE pdf.state = "none"
      <4>1. pdf'.state = "partial" /\ pdf'.by = w /\ pc'[w] = "write"
        BY <1>0, <2>3, <3>1 DEF Pdf!Create, Pdf!Goto, Pdf!TypeOK
      <4> QED
        BY <4>1 DEF Whole
    <3>2. CASE pdf.state # "none"
      <4>1. pdf' = pdf /\ torn' = torn /\ recorded' = recorded /\ pc[w] = "create" /\ pc'[w] = "done"
        BY <1>0, <2>3, <3>2 DEF Pdf!Create, Pdf!Leave, Pdf!Goto, Pdf!TypeOK
      <4> QED
        BY <1>0, <1>2, <3>2, <4>1 DEF Whole
    <3> QED
      BY <3>1, <3>2
  <2>4. CASE Pdf!Write(w)
    <3>1. pc[w] = "write" /\ recorded' = recorded
      BY <2>4 DEF Pdf!Write
    <3>2. CASE pdf.by = w
      <4>1. pdf'.state = "complete"
        BY <1>0, <2>4, <3>2 DEF Pdf!Write, Pdf!TypeOK
      <4> QED
        BY <4>1 DEF Whole
    <3>3. CASE pdf.by # w
      <4>1. pdf' = pdf /\ ~torn
        BY <2>4, <3>3 DEF Pdf!Write
      <4> QED
        BY <1>0, <1>2, <3>1, <3>3, <4>1 DEF Whole
    <3> QED
      BY <3>2, <3>3
  <2>5. CASE Pdf!Record(w)
    <3>1. pdf' = pdf /\ torn' = torn /\ pc[w] = "record" /\ pc'[w] \in {"unrecord", "done"}
      BY <1>0, <2>5 DEF Pdf!Record, Pdf!Leave, Pdf!Goto, Pdf!TypeOK
    <3> QED
      BY <1>0, <1>2, <3>1 DEF Whole
  <2>6. CASE Pdf!Unrecord(w)
    BY <2>6 DEF Pdf!Unrecord
  <2> QED
    BY <2>1, <2>2, <2>3, <2>4, <2>5, <2>6
<1> QED
  BY <1>2, <1>5, <1>6, <1>7, <1>8 DEF PdfInv

LEMMA StepPdf == PdfInv /\ [Pdf!Next]_(Pdf!vars) => PdfInv'
<1> SUFFICES ASSUME PdfInv, [Pdf!Next]_(Pdf!vars)
             PROVE  PdfInv'
  OBVIOUS
<1>0. Pdf!TypeOK /\ Minded /\ Whole /\ \A v \in Pdf!Writers : Holds(v) /\ (snapshot[v] => recorded)
  BY DEF PdfInv
<1>1. ASSUME NEW w \in Pdf!Writers, Pdf!Step(w)
      PROVE  PdfInv'
  BY <1>1, OutsideKeeps, InsideKeeps DEF Pdf!Step
<1>2. CASE Pdf!LeaseEnds
  <2>1. /\ lock # NoOne /\ overrun' = overrun \cup {lock} /\ lock' = NoOne
        /\ UNCHANGED <<pc, snapshot, pdf, recorded, torn, crashed>>
    BY <1>2 DEF Pdf!LeaseEnds
  <2>2. Pdf!TypeOK' /\ Minded' /\ Whole'
    BY <1>0, <2>1 DEF Pdf!TypeOK, Minded, Whole
  <2>3. \A v \in Pdf!Writers : Holds(v)'
    BY <1>0, <2>1 DEF Holds, Pdf!InSection
  <2> QED
    BY <1>0, <2>1, <2>2, <2>3 DEF PdfInv
<1>3. CASE Pdf!Crash
  <2>1. /\ crashed' = TRUE /\ lock' = NoOne /\ overrun' = {}
        /\ pc' = [w \in Pdf!Writers |-> IF Pdf!Active(w) THEN "done" ELSE pc[w]]
        /\ torn' = (torn \/ pdf.state # "complete")
        /\ UNCHANGED <<snapshot, pdf, recorded>>
    BY <1>3 DEF Pdf!Crash
  <2>2. Pdf!TypeOK' /\ Minded' /\ Whole'
    BY <1>0, <2>1 DEF Pdf!TypeOK, Minded, Whole
  <2>3. \A v \in Pdf!Writers : Holds(v)'
    BY <1>0, <2>1 DEF Holds, Pdf!InSection, Pdf!Critical, Pdf!Active, Pdf!TypeOK
  <2> QED
    BY <1>0, <2>1, <2>2, <2>3 DEF PdfInv
<1>4. CASE UNCHANGED Pdf!vars
  BY <1>0, <1>4 DEF Pdf!vars, PdfInv, Pdf!TypeOK, Minded, Whole, Holds, Pdf!InSection
<1> QED
  BY <1>1, <1>2, <1>3, <1>4 DEF Pdf!Next

\* Two writers are in the section together only beside one whose lease has run out,
\* a complete file that nobody is at work on is a recorded one, and a recorded path names
\* a complete file unless it is just being replaced or a failure took it (security.ts:87-89,
\* quotations/route.ts:458-463, regenerate-pdf/route.ts:126-141).
THEOREM PdfStaysSafe == Pdf!Spec => []StoredSafely
<1>1. PdfInv => StoredSafely
  <2> SUFFICES ASSUME PdfInv
               PROVE  StoredSafely
    OBVIOUS
  <2>1. Pdf!LeaseAlone
    BY DEF PdfInv, Holds, Pdf!LeaseAlone
  <2>2. Pdf!NoOrphanFile
    BY DEF PdfInv, Minded, Pdf!NoOrphanFile, Pdf!Active
  <2>3. Pdf!StoredIsComplete
    BY DEF PdfInv, Pdf!TypeOK, Whole, Pdf!StoredIsComplete
  <2> QED
    BY <2>1, <2>2, <2>3 DEF PdfInv, StoredSafely, Pdf!StoredSafely
<1> QED
  BY <1>1, InitPdf, StepPdf, PTL DEF Pdf!Spec

-----------------------------------------------------------------------------
(* UploadPage: any files, cards and visits.                                *)

\* The request of a card, its ticket and what the polls have said of it.
CardTrue(k) ==
  /\ cardReady[k] <= 1
  /\ cardSend[k] \in {"waiting", "sent"} => card[k] \in {"uploading", "none"}
  /\ card[k] \in {"queued", "processing"} => cardSend[k] = "done"
  /\ cardPoll[k] # "off" => cardSend[k] = "done"
  /\ cardSend[k] = "done" => cardJob[k] # "none"
  /\ cardPoll[k] = "failed" => cardJob[k] \in {"done", "failed", "forgotten"}
  /\ cardPoll[k] = "unknown" => cardJob[k] = "forgotten"
  /\ card[k] = "error" /\ cardSend[k] = "done" =>
       cardJob[k] \in {"done", "failed", "forgotten"} \/ k \in cut

PageInv ==
  /\ Page!TypeOK /\ (~open => visits < MaxVisits)
  /\ \A k \in Files : CardTrue(k)

\* What a step of another card leaves alone.
CardResting(j) ==
  /\ card'[j] = card[j] /\ cardReady'[j] = cardReady[j] /\ cardSend'[j] = cardSend[j]
  /\ cardPoll'[j] = cardPoll[j] /\ cardJob'[j] = cardJob[j] /\ (j \in cut => j \in cut')

\* A step on one card keeps the invariant when it keeps that card's part of it.
LEMMA OneCard ==
  ASSUME PageInv, NEW k \in Files, Page!TypeOK', open' = open, visits' = visits,
         \A j \in Files \ {k} : CardResting(j), CardTrue(k)'
  PROVE  PageInv'
<1>1. ASSUME NEW j \in Files \ {k}
      PROVE  CardTrue(j)'
  BY DEF PageInv, CardResting, CardTrue
<1> QED
  BY <1>1 DEF PageInv

\* The state of a ticket, as a poll reads it.
LEMMA TicketType ==
  ASSUME NEW k \in Files
  PROVE  /\ Page!TicketState(k) \in {"queued", "processing", "done", "failed", "unknown"}
         /\ Page!TicketState(k) = "failed" => cardJob[k] \in {"done", "failed"}
         /\ Page!TicketState(k) = "unknown" =>
              cardJob[k] \notin {"queued", "active", "done", "failed"}
BY DEF Page!TicketState

Uploading(k) ==
  \/ Page!AddFile(k) \/ Page!BeginUpload(k) \/ Page!AcceptUpload(k)
  \/ Page!UploadAnswered(k) \/ Page!UploadFails(k)

LEMMA UploadingKeeps ==
  ASSUME PageInv, NEW k \in Files, Uploading(k)
  PROVE  PageInv'
<1>0. Page!TypeOK /\ CardTrue(k)
  BY DEF PageInv
<1>1. open' = open /\ visits' = visits
  BY DEF Uploading, Page!AddFile, Page!BeginUpload, Page!AcceptUpload, Page!UploadAnswered,
         Page!UploadFails
<1>2. ASSUME NEW j \in Files \ {k}
      PROVE  CardResting(j)
  BY <1>0 DEF Uploading, Page!AddFile, Page!BeginUpload, Page!AcceptUpload, Page!UploadAnswered,
         Page!UploadFails, Page!markQueued, Page!server, CardResting, Page!TypeOK
<1>3. CASE Page!AddFile(k)
  <2>1. Page!TypeOK'
    BY <1>0, <1>3 DEF Page!AddFile, Page!TypeOK, Page!server, Page!banner, Page!Ingesting
  <2>2. CardTrue(k)'
    BY <1>0, <1>3 DEF Page!AddFile, Page!TypeOK, Page!server, CardTrue
  <2> QED
    BY <1>1, <1>2, <2>1, <2>2, OneCard
<1>4. CASE Page!BeginUpload(k)
  <2>1. Page!TypeOK'
    BY <1>0, <1>4 DEF Page!BeginUpload, Page!TypeOK, Page!server, Page!banner
  <2>2. CardTrue(k)'
    BY <1>0, <1>4 DEF Page!BeginUpload, Page!TypeOK, Page!server, CardTrue
  <2> QED
    BY <1>1, <1>2, <2>1, <2>2, OneCard
<1>5. CASE Page!AcceptUpload(k)
  <2>1. Page!TypeOK'
    BY <1>0, <1>5 DEF Page!AcceptUpload, Page!TypeOK, Page!banner
  <2>2. CardTrue(k)'
    BY <1>0, <1>5 DEF Page!AcceptUpload, Page!TypeOK, CardTrue
  <2> QED
    BY <1>1, <1>2, <2>1, <2>2, OneCard
<1>6. CASE Page!UploadAnswered(k)
  <2>1. /\ cardSend[k] = "sent" /\ cardJob[k] # "none"
        /\ cardSend' = [cardSend EXCEPT ![k] = "done"]
        /\ card' = IF card[k] = "uploading" THEN [card EXCEPT ![k] = "queued"] ELSE card
        /\ cardPoll' = [cardPoll EXCEPT ![k] = IF open /\ card[k] = "uploading" THEN "rest" ELSE @]
        /\ UNCHANGED <<cardReady, cardJob, row, open, visits, listed, fetches, wipe, drops, order, cut>>
    BY <1>6 DEF Page!UploadAnswered, Page!markQueued, Page!server, Page!banner
  <2>2. Page!TypeOK'
    BY <1>0, <2>1 DEF Page!TypeOK, Page!Ingesting
  <2>3. CardTrue(k)'
    BY <1>0, <2>1 DEF Page!TypeOK, CardTrue
  <2> QED
    BY <1>1, <1>2, <2>2, <2>3, OneCard
<1>7. CASE Page!UploadFails(k)
  <2>1. /\ cardSend[k] = "sent" /\ cardSend' = [cardSend EXCEPT ![k] = "failed"]
        /\ card' = [card EXCEPT ![k] = IF @ = "none" THEN @ ELSE "error"]
        /\ UNCHANGED <<cardReady, cardPoll, cardJob, row, open, visits, listed, fetches, wipe, drops, order, cut>>
    BY <1>7 DEF Page!UploadFails, Page!server, Page!banner
  <2>2. Page!TypeOK'
    BY <1>0, <2>1 DEF Page!TypeOK
  <2>3. CardTrue(k)'
    BY <1>0, <2>1 DEF Page!TypeOK, CardTrue
  <2> QED
    BY <1>1, <1>2, <2>2, <2>3, OneCard
<1> QED
  BY <1>3, <1>4, <1>5, <1>6, <1>7 DEF Uploading

Polling(k) ==
  \/ Page!Ask(k) \/ Page!ReadState(k) \/ Page!Answer(k)
  \/ Page!PollFails(k) \/ Page!PollCut(k) \/ Page!Serve(k)

LEMMA PollingKeeps ==
  ASSUME PageInv, NEW k \in Files, Polling(k)
  PROVE  PageInv'
<1>0. Page!TypeOK /\ CardTrue(k)
  BY DEF PageInv
<1>1. open' = open /\ visits' = visits
  BY DEF Polling, Page!Ask, Page!ReadState, Page!Answer, Page!PollFails, Page!PollCut,
         Page!Serve
<1>2. ASSUME NEW j \in Files \ {k}
      PROVE  CardResting(j)
  BY <1>0 DEF Polling, Page!Ask, Page!ReadState, Page!Answer, Page!PollFails, Page!PollCut,
         Page!Serve, Page!markReadyMany,
              Page!Retryable, Page!server, CardResting, Page!TypeOK
<1>3. CASE Page!Ask(k)
  <2>1. Page!TypeOK'
    BY <1>0, <1>3, TicketType DEF Page!Ask, Page!TypeOK, Page!server, Page!banner, Page!Final
  <2>2. CardTrue(k)'
    BY <1>0, <1>3, TicketType DEF Page!Ask, Page!TypeOK, Page!server, CardTrue
  <2> QED
    BY <1>1, <1>2, <2>1, <2>2, OneCard
<1>4. CASE Page!Answer(k)
  <2>1. /\ cardPoll[k] \in {"queued", "processing", "done", "failed", "unknown"}
        /\ cardPoll' = [cardPoll EXCEPT ![k] = IF @ \in Page!Final THEN "off" ELSE "rest"]
        /\ UNCHANGED <<cardSend, cardJob, row, open, visits, listed, fetches, wipe, drops, order, cut>>
    BY <1>4 DEF Page!Answer, Page!server, Page!banner, Page!Final
  <2>2. CASE cardPoll[k] = "done"
    <3>1. card' = [card EXCEPT ![k] = "none"]
          /\ cardReady' = IF cardReady[k] > 0 THEN cardReady ELSE [cardReady EXCEPT ![k] = 1]
      BY <1>4, <2>2 DEF Page!Answer, Page!markReadyMany
    <3>2. Page!TypeOK'
      BY <1>0, <2>1, <3>1 DEF Page!TypeOK
    <3>3. CardTrue(k)'
      BY <1>0, <2>1, <2>2, <3>1 DEF Page!TypeOK, CardTrue, Page!Final
    <3> QED
      BY <1>1, <1>2, <3>2, <3>3, OneCard
  <2>3. CASE cardPoll[k] \in {"failed", "unknown"}
    <3>1. card' = [card EXCEPT ![k] = "error"] /\ cardReady' = cardReady
      BY <1>4, <2>3 DEF Page!Answer
    <3>2. Page!TypeOK'
      BY <1>0, <2>1, <3>1 DEF Page!TypeOK
    <3>3. CardTrue(k)'
      BY <1>0, <2>1, <2>3, <3>1 DEF Page!TypeOK, CardTrue, Page!Final
    <3> QED
      BY <1>1, <1>2, <3>2, <3>3, OneCard
  <2>4. CASE cardPoll[k] \in {"queued", "processing"}
    <3>1. card' = [card EXCEPT ![k] = cardPoll[k]] /\ cardReady' = cardReady
      BY <1>4, <2>4 DEF Page!Answer
    <3>2. Page!TypeOK'
      BY <1>0, <2>1, <2>4, <3>1 DEF Page!TypeOK, Page!Ingesting
    <3>3. CardTrue(k)'
      BY <1>0, <2>1, <2>4, <3>1 DEF Page!TypeOK, CardTrue, Page!Final
    <3> QED
      BY <1>1, <1>2, <3>2, <3>3, OneCard
  <2> QED
    BY <2>1, <2>2, <2>3, <2>4
<1>5. CASE Page!PollFails(k)
  <2>1. /\ cardPoll[k] \in {"queued", "processing", "done", "failed", "unknown"}
        /\ cardPoll' = [cardPoll EXCEPT ![k] = "rest"]
        /\ UNCHANGED <<card, cardReady, cardSend, cardJob, row, open, visits, listed, fetches, wipe, drops, order, cut>>
    BY <1>5 DEF Page!PollFails, Page!Retryable, Page!server, Page!banner, Page!Final
  <2>2. Page!TypeOK' /\ CardTrue(k)'
    BY <1>0, <2>1 DEF Page!TypeOK, CardTrue
  <2> QED
    BY <1>1, <1>2, <2>2, OneCard
<1>6. CASE Page!Serve(k)
  <2>1. /\ UNCHANGED <<card, cardReady, cardSend, cardPoll, open, visits, listed, fetches, wipe, drops, order, cut>>
        /\ row' \in [Files -> {"none", "row", "quoted", "gone"}]
        /\ cardJob' \in [Files -> {"none", "queued", "active", "done", "failed", "forgotten"}]
    BY <1>0, <1>6 DEF Page!Serve, Page!TypeOK, Page!banner
  <2>2. /\ cardJob[k] # "none" => cardJob'[k] # "none"
        /\ cardJob[k] \in {"done", "failed", "forgotten"} =>
             cardJob'[k] \in {"done", "failed", "forgotten"}
        /\ cardJob[k] = "forgotten" => cardJob'[k] = "forgotten"
    BY <1>0, <1>6 DEF Page!Serve, Page!TypeOK
  <2>3. Page!TypeOK'
    BY <1>0, <2>1 DEF Page!TypeOK
  <2>4. CardTrue(k)'
    BY <1>0, <2>1, <2>2 DEF CardTrue
  <2> QED
    BY <1>1, <1>2, <2>3, <2>4, OneCard
<1>7. CASE Page!ReadState(k)
  <2>1. Page!TypeOK'
    BY <1>0, <1>7, TicketType DEF Page!ReadState, Page!TypeOK, Page!server, Page!banner, Page!Final
  <2>2. CardTrue(k)'
    BY <1>0, <1>7, TicketType DEF Page!ReadState, Page!TypeOK, Page!server, CardTrue
  <2> QED
    BY <1>1, <1>2, <2>1, <2>2, OneCard
<1>8. CASE Page!PollCut(k)
  <2>1. /\ cardPoll' = [cardPoll EXCEPT ![k] = "off"] /\ card' = [card EXCEPT ![k] = "error"]
        /\ cut' = cut \cup {k}
        /\ UNCHANGED <<cardReady, cardSend, cardJob, row, open, visits, listed, fetches, wipe, drops, order>>
    BY <1>8 DEF Page!PollCut, Page!server, Page!banner
  <2>2. cardPoll[k] # "off"
    BY <1>8 DEF Page!PollCut, Page!Final
  <2>3. Page!TypeOK'
    BY <1>0, <2>1 DEF Page!TypeOK
  <2>4. CardTrue(k)'
    BY <1>0, <2>1, <2>2 DEF Page!TypeOK, CardTrue
  <2> QED
    BY <1>1, <1>2, <2>3, <2>4, OneCard
<1> QED
  BY <1>3, <1>4, <1>5, <1>6, <1>7, <1>8 DEF Polling

\* The banner, and the removal of cards: no upload and no poll is disturbed, and a
\* card can only go or, from the banner, be added where there was none.
Removing ==
  \/ \E k \in Files : Page!RemoveError(k) \/ Page!AskRemove(k) \/ Page!Removed(k)
  \/ Page!ReadModels \/ Page!Restore \/ Page!AskWipe \/ Page!Wipe \/ Page!Submit

LEMMA RemovingKeeps ==
  ASSUME PageInv, Removing
  PROVE  PageInv'
<1>0. Page!TypeOK
  BY DEF PageInv
<1>1. /\ cardSend' = cardSend /\ cardPoll' = cardPoll /\ cardJob' = cardJob
      /\ open' = open /\ visits' = visits /\ cut' = cut
  BY DEF Removing, Page!RemoveError, Page!AskRemove, Page!Removed, Page!ReadModels, Page!Restore,
         Page!AskWipe, Page!Wipe, Page!Submit, Page!server
<1>2. /\ card' \in [Files -> {"none", "error"} \cup Page!Ingesting]
      /\ \A k \in Files : card'[k] = card[k] \/ card'[k] = "none"
  <2>1. ASSUME NEW k \in Files, Page!RemoveError(k) \/ Page!Removed(k)
        PROVE  card' = card \/ card' = [card EXCEPT ![k] = "none"]
    BY <2>1 DEF Page!RemoveError, Page!Removed
  <2>2. CASE \E k \in Files : Page!RemoveError(k) \/ Page!Removed(k)
    BY <1>0, <2>1, <2>2 DEF Page!TypeOK
  <2>3. CASE card' = card
    BY <1>0, <2>3 DEF Page!TypeOK
  <2> QED
    BY <2>2, <2>3 DEF Removing, Page!AskRemove, Page!ReadModels, Page!Restore, Page!AskWipe,
                      Page!Wipe, Page!Submit
<1>3. /\ cardReady' \in [Files -> Nat]
      /\ \A k \in Files : cardReady'[k] = cardReady[k] \/ cardReady'[k] <= 1
  <2>1. CASE Page!Restore
    BY <1>0, <2>1 DEF Page!Restore, Page!restoreModels, Page!TypeOK
  <2>2. ASSUME NEW k \in Files, Page!Removed(k)
        PROVE  cardReady' = cardReady \/ cardReady' = [cardReady EXCEPT ![k] = 0]
    BY <2>2 DEF Page!Removed
  <2>3. CASE \E k \in Files : Page!Removed(k)
    BY <1>0, <2>2, <2>3 DEF Page!TypeOK
  <2>4. CASE cardReady' = cardReady
    BY <1>0, <2>4 DEF Page!TypeOK
  <2> QED
    BY <2>1, <2>3, <2>4 DEF Removing, Page!RemoveError, Page!AskRemove, Page!ReadModels,
                            Page!AskWipe, Page!Wipe, Page!Submit
<1>4. /\ row' \in [Files -> {"none", "row", "quoted", "gone"}]
      /\ drops' \in [Files -> {"none", "card", "quote"}]
  BY <1>0 DEF Removing, Page!RemoveError, Page!AskRemove, Page!Removed, Page!ReadModels,
         Page!Restore, Page!AskWipe, Page!Wipe, Page!Submit, Page!TypeOK, Page!server
<1>5. /\ listed' \subseteq Files /\ fetches' \subseteq {"asked", "answered"}
      /\ wipe' \in [at : {"idle", "sent"}, keep : SUBSET Files] /\ order' \subseteq Files
  <2>0. Page!Unattached \subseteq Files /\ Page!OnScreen \subseteq Files
    BY DEF Page!Unattached, Page!OnScreen
  <2>1. CASE Page!ReadModels
    BY <1>0, <2>0, <2>1 DEF Page!ReadModels, Page!TypeOK
  <2>2. CASE Page!AskWipe
    BY <1>0, <2>0, <2>2 DEF Page!AskWipe, Page!TypeOK
  <2>3. CASE Page!Wipe
    BY <1>0, <2>3 DEF Page!Wipe, Page!TypeOK
  <2>4. CASE Page!Submit
    BY <1>0, <2>0, <2>4 DEF Page!Submit, Page!TypeOK, Page!banner
  <2>5. CASE Page!Restore \/ \E k \in Files : Page!RemoveError(k) \/ Page!AskRemove(k) \/ Page!Removed(k)
    BY <1>0, <2>5 DEF Page!RemoveError, Page!AskRemove, Page!Removed, Page!Restore, Page!TypeOK,
                      Page!banner
  <2> QED
    BY <2>1, <2>2, <2>3, <2>4, <2>5 DEF Removing
<1>6. Page!TypeOK'
  BY <1>0, <1>1, <1>2, <1>3, <1>4, <1>5 DEF Page!TypeOK
<1>7. ASSUME NEW k \in Files
      PROVE  CardTrue(k)'
  BY <1>1, <1>2, <1>3 DEF PageInv, CardTrue
<1> QED
  BY <1>1, <1>6, <1>7 DEF PageInv

\* The page is cleared, left, opened again, or its quotation answered.
Visiting == Page!ClearQuote \/ Page!Leave \/ Page!Return \/ Page!Submitted

LEMMA VisitingKeeps ==
  ASSUME PageInv, Visiting
  PROVE  PageInv'
<1>0. Page!TypeOK
  BY DEF PageInv
<1>1. CASE Page!ClearQuote
  <2>1. /\ card' = [k \in Files |-> "none"] /\ cardReady' = [k \in Files |-> 0]
        /\ drops' = [k \in Files |-> IF cardReady[k] > 0 THEN "quote" ELSE drops[k]]
        /\ cardPoll' = [k \in Files |-> "off"]
        /\ UNCHANGED <<cardSend, cardJob, row, open, visits, listed, fetches, wipe, order, cut>>
    BY <1>1 DEF Page!ClearQuote, Page!server, Page!banner
  <2>2. Page!TypeOK' /\ \A k \in Files : CardTrue(k)'
    BY <1>0, <2>1 DEF Page!TypeOK, PageInv, CardTrue
  <2> QED
    BY <2>1, <2>2 DEF PageInv
<1>2. CASE Page!Leave
  <2>1. /\ visits < MaxVisits /\ open' = FALSE /\ cardPoll' = [k \in Files |-> "off"]
        /\ card' = [k \in Files |-> IF cardSend[k] = "sent" /\ card[k] # "none" THEN "error" ELSE card[k]]
        /\ cardSend' = [k \in Files |-> IF cardSend[k] = "sent" THEN "failed" ELSE cardSend[k]]
        /\ fetches' = {} /\ listed' = {}
        /\ UNCHANGED <<cardReady, cardJob, row, visits, wipe, drops, order, cut>>
    BY <1>2 DEF Page!Leave, Page!server
  <2>2. Page!TypeOK' /\ \A k \in Files : CardTrue(k)'
    BY <1>0, <2>1 DEF Page!TypeOK, PageInv, CardTrue
  <2> QED
    BY <2>1, <2>2 DEF PageInv
<1>3. CASE Page!Return
  <2>1. /\ ~open /\ open' = TRUE /\ visits' = visits + 1 /\ fetches' = {"asked"}
        /\ cardPoll' = [k \in Files |-> IF card[k] \in {"queued", "processing"} THEN "rest" ELSE "off"]
        /\ UNCHANGED <<card, cardReady, cardSend, cardJob, row, listed, wipe, drops, order, cut>>
    BY <1>3 DEF Page!Return, Page!server
  <2>2. visits' \in 1..MaxVisits
    BY <1>0, <2>1, BoundsAssumption DEF PageInv, Page!TypeOK
  <2>3. Page!TypeOK'
    BY <1>0, <2>1, <2>2 DEF Page!TypeOK
  <2>4. \A k \in Files : CardTrue(k)'
    BY <1>0, <2>1 DEF Page!TypeOK, PageInv, CardTrue
  <2> QED
    BY <2>1, <2>3, <2>4 DEF PageInv
<1>4. CASE Page!Submitted
  <2>1. /\ order' = {}
        /\ UNCHANGED <<cardSend, cardJob, open, visits, listed, fetches, wipe, drops, cut>>
        /\ \/ /\ row' = [k \in Files |-> IF k \in order THEN "quoted" ELSE row[k]]
              /\ card' = [k \in Files |-> "none"] /\ cardReady' = [k \in Files |-> 0]
              /\ cardPoll' = [k \in Files |-> "off"]
           \/ UNCHANGED <<row, card, cardReady, cardPoll>>
    BY <1>4 DEF Page!Submitted, Page!banner
  <2>2. Page!TypeOK'
    BY <1>0, <2>1 DEF Page!TypeOK
  <2>3. \A k \in Files : CardTrue(k)'
    BY <1>0, <2>1 DEF Page!TypeOK, PageInv, CardTrue
  <2> QED
    BY <2>1, <2>2, <2>3 DEF PageInv
<1> QED
  BY <1>1, <1>2, <1>3, <1>4 DEF Visiting

LEMMA InitPage == Page!Init => PageInv
<1> SUFFICES ASSUME Page!Init
             PROVE  PageInv
  OBVIOUS
<1>1. Page!TypeOK
  BY BoundsAssumption DEF Page!Init, Page!TypeOK
<1>2. \A k \in Files : CardTrue(k)
  BY DEF Page!Init, CardTrue
<1> QED
  BY <1>1, <1>2 DEF PageInv, Page!Init

LEMMA StepPage == PageInv /\ [Page!Next]_(Page!vars) => PageInv'
<1> SUFFICES ASSUME PageInv, [Page!Next]_(Page!vars)
             PROVE  PageInv'
  OBVIOUS
<1>1. CASE UNCHANGED Page!vars
  <2>1. Page!TypeOK' /\ open' = open /\ visits' = visits
    BY <1>1 DEF Page!vars, PageInv, Page!TypeOK
  <2>2. \A k \in Files : CardTrue(k)'
    BY <1>1 DEF Page!vars, PageInv, CardTrue
  <2> QED
    BY <2>1, <2>2 DEF PageInv
<1>2. CASE Page!Next
  BY <1>2, UploadingKeeps, PollingKeeps, RemovingKeeps, VisitingKeeps
     DEF Page!Next, Uploading, Polling, Removing, Visiting
<1> QED
  BY <1>1, <1>2

\* A stored model has one card, however it came to the page, and an upload that was
\* accepted shows an error only once its job is settled, or by an answer that was no state of
\* its ticket (quote-store.ts:151-176 and :207-209, use-upload-sync.ts:47-57).
THEOREM CardsStayTrue == Page!Spec => []CardsTrue
<1>1. PageInv => CardsTrue
  BY DEF PageInv, CardTrue, CardsTrue, Page!CardsTrue, Page!OneCardEach, Page!HonestError
<1> QED
  BY <1>1, InitPage, StepPage, PTL DEF Page!Spec

-----------------------------------------------------------------------------
(* SelfUpdate: any services, releases, runs and kills.                     *)

UpdatePcs ==
  {"idle", "tag", "merge", "env", "build", "restart", "health", "rollback", "retag", "verify"}

UpdateTyped ==
  /\ head \in 1..Top /\ upstream \in 1..Top /\ env \in 1..Top /\ schema \in 1..Top
  /\ record \in 1..Top \cup {Lost}
  /\ latest \in [Services -> 1..Top] /\ started \in [Services -> 1..Top]
  /\ tags \in [Services -> [1..Top -> 1..Top \cup {Lost}]]
  /\ broken \subseteq 1..Top
  /\ update \in [pc : UpdatePcs, todo : SUBSET Services, target : 1..Top \cup {Lost}]

\* Which step the run is at, and what the steps before it have achieved.
RunTrue ==
  /\ update.pc \in {"tag", "merge"} => update.target \in 1..Top
  /\ update.pc \notin {"idle", "tag"} => record \in 1..Top
  /\ update.pc = "tag" => \A s \in Services \ update.todo : tags[s][head] # Lost
  /\ update.pc = "retag" => Update!Saved(record)
  /\ update.pc \in {"build", "restart", "health"} => env = head
  /\ update.pc = "build" => \A s \in Services \ update.todo : latest[s] = head
  /\ update.pc = "restart" => \A s \in Services : latest[s] = head
  /\ update.pc = "health" =>
       (\A s \in Services : started[s] = head) /\ (Update!Healthy => schema >= head)
  /\ said = "updated" => update.pc = "idle"

UpdateInv == UpdateTyped /\ RunTrue /\ Update!WayBack /\ Update!UpdatedIsTrue

LEMMA InitUpdate == Update!Init => UpdateInv
<1> SUFFICES ASSUME Update!Init
             PROVE  UpdateInv
  OBVIOUS
<1>1. UpdateTyped
  <2>1. head \in 1..Top /\ upstream \in 1..Top /\ env \in 1..Top /\ schema \in 1..Top
    <3>1. head = 1 /\ upstream = 1 /\ env = 1 /\ schema = 1
      BY DEF Update!Init
    <3> QED
      BY <3>1, BoundsAssumption
  <2>2. latest \in [Services -> 1..Top] /\ started \in [Services -> 1..Top]
    <3>1. latest = [s \in Services |-> 1] /\ started = latest
      BY DEF Update!Init
    <3> QED
      BY <3>1, BoundsAssumption
  <2>3. tags \in [Services -> [1..Top -> 1..Top \cup {Lost}]] /\ record \in 1..Top \cup {Lost}
    BY DEF Update!Init, Update!Versions
  <2>4. broken \subseteq 1..Top
    BY DEF Update!Init, Update!Versions
  <2>5. update \in [pc : UpdatePcs, todo : SUBSET Services, target : 1..Top \cup {Lost}]
    BY DEF Update!Init, UpdatePcs, Update!Quiet
  <2> QED
    BY <2>1, <2>2, <2>3, <2>4, <2>5 DEF UpdateTyped
<1> QED
  BY <1>1 DEF Update!Init, UpdateInv, RunTrue, Update!Quiet, Update!WayBack, Update!UpdatedIsTrue

\* The run begins, or ends, or goes on without touching code, images or tags.
Steering ==
  Update!Publish \/ Update!Fetch \/ Update!AskRollback \/ Update!Verdict
  \/ Update!Verify \/ Update!Killed

\* Code, .env and the record.
Recording ==
  Update!recordState \/ Update!Merge \/ Update!WriteEnv \/ Update!Built \/ Update!restorePreviousCode
  \/ Update!BeginRollback

\* What a step makes of the run: over, or at another step with every service to do.
LEMMA RunMoves ==
  ASSUME UpdateTyped, NEW to \in UpdatePcs
  PROVE  /\ Update!Goto(to) => update' = [pc |-> to, todo |-> Services, target |-> update.target]
         /\ \A what : Update!End(what) =>
              update' = [pc |-> "idle", todo |-> {}, target |-> Lost] /\ said' = what
         /\ \A s : Update!Tick(s) =>
              update' = [pc |-> update.pc, todo |-> update.todo \ {s}, target |-> update.target]
  BY DEF UpdateTyped, Update!Goto, Update!End, Update!Tick, Update!Quiet

LEMMA SteeringKeeps ==
  ASSUME UpdateInv, Steering
  PROVE  UpdateInv'
<1>0. UpdateTyped /\ "idle" \in UpdatePcs /\ "rollback" \in UpdatePcs /\ "tag" \in UpdatePcs
  BY DEF UpdateInv, UpdatePcs
<1>1. CASE Update!Publish
  <2>1. UpdateTyped'
    <3>1. upstream' \in 1..Top
      BY <1>0, <1>1, BoundsAssumption DEF Update!Publish, UpdateTyped
    <3> QED
      BY <1>0, <1>1, <3>1 DEF Update!Publish, Update!images, UpdateTyped
  <2>2. RunTrue' /\ Update!WayBack' /\ Update!UpdatedIsTrue'
    BY <1>1 DEF Update!Publish, Update!images, UpdateInv, RunTrue, Update!WayBack,
                Update!UpdatedIsTrue, Update!Saved, Update!Healthy, Update!At
  <2> QED
    BY <2>1, <2>2 DEF UpdateInv
<1>2. CASE Update!Fetch
  <2>1. /\ update.pc = "idle"
        /\ UNCHANGED <<head, upstream, latest, tags, started, schema, record, env, broken, halfTagged>>
    BY <1>2 DEF Update!Fetch, Update!At, Update!images
  <2>2. /\ said' # "updated"
        /\ \/ update' = [pc |-> "idle", todo |-> {}, target |-> Lost]
           \/ update' = [pc |-> "tag", todo |-> Services, target |-> upstream]
    BY <1>0, <1>2, RunMoves DEF Update!Fetch, Update!End, Update!Quiet
  <2>3. UpdateTyped'
    BY <1>0, <2>1, <2>2 DEF UpdateTyped
  <2>4. RunTrue'
    BY <1>0, <2>1, <2>2 DEF RunTrue, UpdateTyped
  <2>5. Update!WayBack' /\ Update!UpdatedIsTrue'
    BY <2>1, <2>2 DEF UpdateInv, Update!WayBack, Update!UpdatedIsTrue, Update!Saved, Update!At
  <2> QED
    BY <2>3, <2>4, <2>5 DEF UpdateInv
<1>3. CASE Update!AskRollback
  <2>1. /\ update.pc = "idle"
        /\ UNCHANGED <<head, upstream, latest, tags, started, schema, record, env, broken, halfTagged>>
    BY <1>3 DEF Update!AskRollback, Update!At, Update!images
  <2>2. /\ said' # "updated"
        /\ \/ update' = [pc |-> "idle", todo |-> {}, target |-> Lost]
           \/ record # Lost /\ update' = [pc |-> "rollback", todo |-> Services, target |-> update.target]
    BY <1>0, <1>3, RunMoves DEF Update!AskRollback, Update!End, Update!Quiet
  <2>3. UpdateTyped'
    BY <1>0, <2>1, <2>2 DEF UpdateTyped
  <2>4. RunTrue'
    BY <1>0, <2>1, <2>2 DEF RunTrue, UpdateTyped
  <2>5. Update!WayBack' /\ Update!UpdatedIsTrue'
    BY <2>1, <2>2 DEF UpdateInv, Update!WayBack, Update!UpdatedIsTrue, Update!Saved, Update!At
  <2> QED
    BY <2>3, <2>4, <2>5 DEF UpdateInv
<1>4. CASE Update!Verdict
  <2>1. /\ update.pc = "health"
        /\ UNCHANGED <<head, upstream, latest, tags, started, schema, record, env, broken, halfTagged>>
    BY <1>4 DEF Update!Verdict, Update!At, Update!images
  <2>2. \/ /\ said' = "updated" => Update!Healthy
           /\ update' = [pc |-> "idle", todo |-> {}, target |-> Lost]
        \/ /\ said' = said
           /\ update' = [pc |-> "rollback", todo |-> Services, target |-> update.target]
    BY <1>0, <1>4, RunMoves DEF Update!Verdict, Update!End, Update!Quiet
  <2>3. UpdateTyped'
    BY <1>0, <2>1, <2>2 DEF UpdateTyped
  <2>4. RunTrue'
    BY <1>0, <2>1, <2>2 DEF RunTrue, UpdateTyped, UpdateInv
  <2>5. Update!WayBack'
    BY <2>1, <2>2 DEF UpdateInv, Update!WayBack, Update!Saved, Update!At
  <2>6. Update!UpdatedIsTrue'
    BY <2>1, <2>2 DEF UpdateInv, RunTrue, Update!UpdatedIsTrue
  <2> QED
    BY <2>3, <2>4, <2>5, <2>6 DEF UpdateInv
<1>5. CASE Update!Verify
  <2>1. /\ update.pc = "verify"
        /\ UNCHANGED <<head, upstream, latest, tags, started, schema, record, env, broken, halfTagged>>
    BY <1>5 DEF Update!Verify, Update!At, Update!images
  <2>2. said' # "updated" /\ update' = [pc |-> "idle", todo |-> {}, target |-> Lost]
    BY <1>0, <1>5, RunMoves DEF Update!Verify, Update!End, Update!Quiet
  <2>3. UpdateTyped'
    BY <1>0, <2>1, <2>2 DEF UpdateTyped
  <2>4. RunTrue'
    BY <1>0, <2>1, <2>2 DEF RunTrue
  <2>5. Update!WayBack' /\ Update!UpdatedIsTrue'
    BY <2>1, <2>2 DEF UpdateInv, Update!WayBack, Update!UpdatedIsTrue, Update!Saved, Update!At
  <2> QED
    BY <2>3, <2>4, <2>5 DEF UpdateInv
<1>6. CASE Update!Killed
  <2>1. /\ halfTagged' = (halfTagged \/ update.pc = "tag")
        /\ UNCHANGED <<head, upstream, latest, tags, started, schema, record, env, broken>>
    BY <1>6 DEF Update!Killed, Update!images, Update!At
  <2>2. said' # "updated" /\ update' = [pc |-> "idle", todo |-> {}, target |-> Lost]
    BY <1>0, <1>6, RunMoves DEF Update!Killed
  <2>3. UpdateTyped'
    BY <1>0, <2>1, <2>2 DEF UpdateTyped
  <2>4. RunTrue'
    BY <1>0, <2>1, <2>2 DEF RunTrue
  <2>5. Update!WayBack' /\ Update!UpdatedIsTrue'
    BY <2>1, <2>2 DEF UpdateInv, Update!WayBack, Update!UpdatedIsTrue, Update!Saved, Update!At
  <2> QED
    BY <2>3, <2>4, <2>5 DEF UpdateInv
<1> QED
  BY <1>1, <1>2, <1>3, <1>4, <1>5, <1>6 DEF Steering

LEMMA RecordingKeeps ==
  ASSUME UpdateInv, Recording
  PROVE  UpdateInv'
<1>0. /\ UpdateTyped
      /\ {"idle", "merge", "env", "build", "restart", "retag"} \subseteq UpdatePcs
  BY DEF UpdateInv, UpdatePcs
<1>1. CASE Update!recordState
  <2>1. /\ update.pc = "tag" /\ update.todo = {} /\ record' = head
        /\ UNCHANGED <<head, upstream, latest, tags, started, schema, env, broken, said>>
        /\ update' = [pc |-> "merge", todo |-> Services, target |-> update.target]
    BY <1>0, <1>1, RunMoves DEF Update!recordState, Update!At, Update!images
  <2>2. UpdateTyped'
    BY <1>0, <2>1 DEF UpdateTyped
  <2>3. RunTrue'
    BY <1>0, <2>1 DEF RunTrue, UpdateInv, UpdateTyped
  <2>4. Update!WayBack' /\ Update!UpdatedIsTrue'
    BY <1>0, <2>1 DEF UpdateInv, UpdateTyped, RunTrue, Update!WayBack, Update!UpdatedIsTrue,
                      Update!Saved, Update!At
  <2> QED
    BY <2>2, <2>3, <2>4 DEF UpdateInv
<1>2. CASE Update!Merge
  <2>1. /\ update.pc = "merge" /\ head' = update.target
        /\ UNCHANGED <<upstream, latest, tags, started, schema, record, env, broken, said, halfTagged>>
        /\ update' = [pc |-> "env", todo |-> Services, target |-> update.target]
    BY <1>0, <1>2, RunMoves DEF Update!Merge, Update!At, Update!images
  <2>2. UpdateTyped'
    BY <1>0, <2>1 DEF UpdateTyped, UpdateInv, RunTrue
  <2>3. RunTrue'
    BY <1>0, <2>1 DEF RunTrue, UpdateInv
  <2>4. Update!WayBack' /\ Update!UpdatedIsTrue'
    BY <1>0, <2>1 DEF UpdateInv, RunTrue, Update!WayBack, Update!UpdatedIsTrue, Update!Saved, Update!At
  <2> QED
    BY <2>2, <2>3, <2>4 DEF UpdateInv
<1>3. CASE Update!WriteEnv
  <2>1. /\ update.pc = "env" /\ env' = head
        /\ UNCHANGED <<head, upstream, latest, tags, started, schema, record, broken, said, halfTagged>>
        /\ update' = [pc |-> "build", todo |-> Services, target |-> update.target]
    BY <1>0, <1>3, RunMoves DEF Update!WriteEnv, Update!At, Update!images
  <2>2. UpdateTyped'
    BY <1>0, <2>1 DEF UpdateTyped
  <2>3. RunTrue'
    BY <1>0, <2>1 DEF RunTrue, UpdateInv
  <2>4. Update!WayBack' /\ Update!UpdatedIsTrue'
    BY <1>0, <2>1 DEF UpdateInv, RunTrue, Update!WayBack, Update!UpdatedIsTrue, Update!Saved, Update!At
  <2> QED
    BY <2>2, <2>3, <2>4 DEF UpdateInv
<1>4. CASE Update!Built
  <2>1. /\ update.pc = "build" /\ update.todo = {}
        /\ UNCHANGED <<head, upstream, latest, tags, started, schema, record, env, broken, said, halfTagged>>
        /\ update' = [pc |-> "restart", todo |-> Services, target |-> update.target]
    BY <1>0, <1>4, RunMoves DEF Update!Built, Update!At, Update!images
  <2>2. UpdateTyped'
    BY <1>0, <2>1 DEF UpdateTyped
  <2>3. RunTrue'
    BY <1>0, <2>1 DEF RunTrue, UpdateInv
  <2>4. Update!WayBack' /\ Update!UpdatedIsTrue'
    BY <1>0, <2>1 DEF UpdateInv, RunTrue, Update!WayBack, Update!UpdatedIsTrue, Update!Saved, Update!At
  <2> QED
    BY <2>2, <2>3, <2>4 DEF UpdateInv
<1>5. CASE Update!restorePreviousCode
  <2>1. /\ update.pc = "build" /\ head' = record
        /\ UNCHANGED <<upstream, latest, tags, started, schema, record, env, broken, halfTagged>>
        /\ update' = [pc |-> "idle", todo |-> {}, target |-> Lost] /\ said' = "put back"
    BY <1>0, <1>5, RunMoves DEF Update!restorePreviousCode, Update!At, Update!images
  <2>2. UpdateTyped'
    BY <1>0, <2>1 DEF UpdateTyped, UpdateInv, RunTrue
  <2>3. RunTrue'
    BY <1>0, <2>1 DEF RunTrue
  <2>4. Update!WayBack' /\ Update!UpdatedIsTrue'
    BY <1>0, <2>1 DEF UpdateInv, Update!WayBack, Update!UpdatedIsTrue, Update!Saved, Update!At
  <2> QED
    BY <2>2, <2>3, <2>4 DEF UpdateInv
<1>6. CASE Update!BeginRollback
  <2>1. /\ update.pc = "rollback"
        /\ UNCHANGED <<upstream, latest, tags, started, schema, record, env, broken, halfTagged>>
        /\ \/ /\ Update!Saved(record) /\ head' = record /\ said' = said
              /\ update' = [pc |-> "retag", todo |-> Services, target |-> update.target]
           \/ /\ head' = head /\ said' = "images gone"
              /\ update' = [pc |-> "idle", todo |-> {}, target |-> Lost]
    BY <1>0, <1>6, RunMoves DEF Update!BeginRollback, Update!At, Update!images
  <2>0. record \in 1..Top /\ said # "updated"
    BY <2>1 DEF UpdateInv, RunTrue
  <2>2. UpdateTyped'
    <3>1. head' \in 1..Top
      BY <1>0, <2>0, <2>1 DEF UpdateTyped
    <3>2. update' \in [pc : UpdatePcs, todo : SUBSET Services, target : 1..Top \cup {Lost}]
      <4>1. update.target \in 1..Top \cup {Lost}
        BY <1>0 DEF UpdateTyped
      <4>2. \/ update' = [pc |-> "retag", todo |-> Services, target |-> update.target]
            \/ update' = [pc |-> "idle", todo |-> {}, target |-> Lost]
        BY <2>1
      <4> QED
        BY <1>0, <4>1, <4>2
    <3> QED
      BY <1>0, <2>1, <3>1, <3>2 DEF UpdateTyped
  <2>3. RunTrue'
    <3>1. CASE /\ update' = [pc |-> "retag", todo |-> Services, target |-> update.target]
               /\ Update!Saved(record)
      <4>1. Update!Saved(record)'
        BY <2>1, <3>1 DEF Update!Saved
      <4>2. update'.pc = "retag" /\ record' \in 1..Top /\ said' # "updated"
        BY <2>0, <2>1, <3>1
      <4> QED
        BY <4>1, <4>2 DEF RunTrue
    <3>2. CASE update' = [pc |-> "idle", todo |-> {}, target |-> Lost]
      <4>1. update'.pc = "idle"
        BY <3>2
      <4> QED
        BY <4>1 DEF RunTrue
    <3> QED
      BY <2>1, <3>1, <3>2
  <2>4. Update!WayBack' /\ Update!UpdatedIsTrue'
    BY <1>0, <2>1 DEF UpdateInv, RunTrue, Update!WayBack, Update!UpdatedIsTrue, Update!Saved, Update!At
  <2> QED
    BY <2>2, <2>3, <2>4 DEF UpdateInv
<1> QED
  BY <1>1, <1>2, <1>3, <1>4, <1>5, <1>6 DEF Recording

\* One service after the other: tagged, built, or put back to its kept image.
LEMMA ServiceKeeps ==
  ASSUME UpdateInv, NEW s \in Services, Update!Tag(s) \/ Update!Build(s) \/ Update!Retag(s)
  PROVE  UpdateInv'
<1>0. UpdateTyped /\ "idle" \in UpdatePcs
  BY DEF UpdateInv, UpdatePcs
<1>1. /\ update' = [pc |-> update.pc, todo |-> update.todo \ {s}, target |-> update.target]
      /\ UNCHANGED <<head, upstream, started, schema, record, env, broken, said, halfTagged>>
  BY <1>0, RunMoves DEF Update!Tag, Update!Build, Update!Retag
<1>2. CASE Update!Tag(s)
  <2>1. latest[s] # Lost
    BY <1>0, LostAssumption DEF UpdateTyped
  <2>2. /\ update.pc = "tag" /\ latest' = latest
        /\ tags' = [tags EXCEPT ![s] = [v \in 1..Top |-> IF v = head THEN latest[s] ELSE Lost]]
    BY <1>2, <2>1 DEF Update!Tag, Update!At, Update!Kept, Update!Versions
  <2>3. UpdateTyped'
    BY <1>0, <1>1, <2>2 DEF UpdateTyped
  <2>4. \A r \in Services \ (update.todo \ {s}) : tags'[r][head] # Lost
    BY <1>0, <2>1, <2>2 DEF UpdateTyped, UpdateInv, RunTrue
  <2>5. RunTrue' /\ Update!WayBack' /\ Update!UpdatedIsTrue'
    BY <1>1, <2>2, <2>4 DEF UpdateInv, RunTrue, Update!WayBack, Update!UpdatedIsTrue, Update!At
  <2> QED
    BY <2>3, <2>5 DEF UpdateInv
<1>3. CASE Update!Build(s)
  <2>1. /\ update.pc = "build" /\ tags' = tags /\ latest' = [latest EXCEPT ![s] = head]
    BY <1>3 DEF Update!Build, Update!At
  <2>2. UpdateTyped'
    BY <1>0, <1>1, <2>1 DEF UpdateTyped
  <2>3. RunTrue'
    BY <1>0, <1>1, <2>1 DEF UpdateTyped, UpdateInv, RunTrue
  <2>4. Update!WayBack' /\ Update!UpdatedIsTrue'
    BY <1>1, <2>1 DEF UpdateInv, RunTrue, Update!WayBack, Update!UpdatedIsTrue, Update!Saved, Update!At
  <2> QED
    BY <2>2, <2>3, <2>4 DEF UpdateInv
<1>4. CASE Update!Retag(s)
  <2>1. /\ update.pc = "retag" /\ tags' = tags /\ latest' = [latest EXCEPT ![s] = tags[s][record]]
    BY <1>4 DEF Update!Retag, Update!At
  <2>2. tags[s][record] \in 1..Top
    <3>1. record \in 1..Top /\ tags[s][record] # Lost
      BY <2>1 DEF UpdateInv, RunTrue, Update!Saved
    <3>2. tags[s][record] \in 1..Top \cup {Lost}
      <4>1. tags \in [Services -> [1..Top -> 1..Top \cup {Lost}]]
        BY <1>0 DEF UpdateTyped
      <4> QED
        BY <3>1, <4>1
    <3> QED
      BY <3>1, <3>2
  <2>3. UpdateTyped'
    BY <1>0, <1>1, <2>1, <2>2 DEF UpdateTyped
  <2>4. RunTrue'
    BY <1>0, <1>1, <2>1 DEF UpdateInv, RunTrue, Update!Saved
  <2>5. Update!WayBack' /\ Update!UpdatedIsTrue'
    BY <1>1, <2>1 DEF UpdateInv, RunTrue, Update!WayBack, Update!UpdatedIsTrue, Update!Saved, Update!At
  <2> QED
    BY <2>3, <2>4, <2>5 DEF UpdateInv
<1> QED
  BY <1>2, <1>3, <1>4

\* The new version, or the kept one, is started: its migrations are in, unless the
\* service that applies them does not come up.
LEMMA RestartKeeps ==
  ASSUME UpdateInv, Update!Up \/ Update!Down
  PROVE  UpdateInv'
<1>0. UpdateTyped /\ "health" \in UpdatePcs /\ "verify" \in UpdatePcs
  BY DEF UpdateInv, UpdatePcs
<1>1. /\ started' = latest
      /\ UNCHANGED <<head, upstream, latest, tags, record, broken, said, halfTagged>>
      /\ \/ schema' = IF latest[Migrate] > schema THEN latest[Migrate] ELSE schema
         \/ latest[Migrate] \in broken /\ schema' = schema
  BY DEF Update!Up, Update!Down, Update!Restart
<1>2. schema' \in 1..Top /\ (schema' >= latest[Migrate] \/ latest[Migrate] \in broken)
  BY <1>0, <1>1, BoundsAssumption DEF UpdateTyped
<1>3. CASE Update!Up
  <2>1. /\ update.pc = "restart" /\ env' = env
        /\ update' = [pc |-> "health", todo |-> Services, target |-> update.target]
    BY <1>0, <1>3, RunMoves DEF Update!Up, Update!At, Update!Restart
  <2>2. UpdateTyped'
    BY <1>0, <1>1, <1>2, <2>1 DEF UpdateTyped
  <2>3. RunTrue'
    BY <1>0, <1>1, <1>2, <2>1, BoundsAssumption DEF UpdateInv, RunTrue, Update!Healthy
  <2>4. Update!WayBack' /\ Update!UpdatedIsTrue'
    BY <1>1, <2>1 DEF UpdateInv, RunTrue, Update!WayBack, Update!UpdatedIsTrue, Update!Saved, Update!At
  <2> QED
    BY <2>2, <2>3, <2>4 DEF UpdateInv
<1>4. CASE Update!Down
  <2>1. /\ update.pc = "retag" /\ env' = record
        /\ update' = [pc |-> "verify", todo |-> Services, target |-> update.target]
    BY <1>0, <1>4, RunMoves DEF Update!Down, Update!At, Update!Restart
  <2>2. UpdateTyped'
    BY <1>0, <1>1, <1>2, <2>1 DEF UpdateTyped, UpdateInv, RunTrue
  <2>3. RunTrue'
    BY <1>1, <2>1 DEF UpdateInv, RunTrue
  <2>4. Update!WayBack' /\ Update!UpdatedIsTrue'
    BY <1>1, <2>1 DEF UpdateInv, RunTrue, Update!WayBack, Update!UpdatedIsTrue, Update!Saved, Update!At
  <2> QED
    BY <2>2, <2>3, <2>4 DEF UpdateInv
<1> QED
  BY <1>3, <1>4

LEMMA StepUpdate == UpdateInv /\ [Update!Next]_(Update!vars) => UpdateInv'
<1> SUFFICES ASSUME UpdateInv, [Update!Next]_(Update!vars)
             PROVE  UpdateInv'
  OBVIOUS
<1>1. CASE UNCHANGED Update!vars
  <2>1. UpdateTyped'
    BY <1>1 DEF Update!vars, Update!images, UpdateInv, UpdateTyped
  <2>2. RunTrue' /\ Update!WayBack' /\ Update!UpdatedIsTrue'
    BY <1>1 DEF Update!vars, Update!images, UpdateInv, RunTrue, Update!WayBack,
                Update!UpdatedIsTrue, Update!Saved, Update!Healthy, Update!At
  <2> QED
    BY <2>1, <2>2 DEF UpdateInv
<1>2. CASE Update!Next
  BY <1>2, SteeringKeeps, RecordingKeeps, ServiceKeeps, RestartKeeps
     DEF Update!Next, Steering, Recording
<1> QED
  BY <1>1, <1>2

\* From the moment a revision is recorded until the next run starts to tag, every
\* service has an image kept for it, wherever runs are killed but while they tag; and
\* a run that reports an update has made it, whatever was left half done before
\* (update.sh:68-84, :150-159 and :177-193).
THEOREM UpdateStaysHonest == Update!Spec => []UpdateHonest
<1>1. UpdateInv => UpdateHonest
  <2> SUFFICES ASSUME UpdateInv
               PROVE  UpdateHonest
    OBVIOUS
  <2>1. Update!TypeOK
    BY DEF UpdateInv, UpdateTyped, Update!TypeOK, Update!Versions, Update!Maybe
  <2> QED
    BY <2>1 DEF UpdateInv, UpdateHonest, Update!UpdateHonest
<1> QED
  BY <1>1, InitUpdate, StepUpdate, PTL DEF Update!Spec

-----------------------------------------------------------------------------
(* SliceProgress: any executions of one attempt, any percentages.          *)

ProgressTyped ==
  /\ stage \in [Runs -> {"idle", "slicing", "ended", "final", "over"}]
  /\ last \in [Runs -> 1..97] /\ next \in [Runs -> 0..97] /\ held \in [Runs -> 0..97]
  /\ writer \in [Runs -> {"none", "waiting", "writing"}]
  /\ printed \in 0..100 /\ state \in {"QUEUED", "RUNNING", "FAILED", "DONE"}

\* The others have not begun.
Single(x) == \A y \in Runs \ {x} : stage[y] = "idle"

\* What one execution has reported is on its way to the row in order: what the row
\* shows, what the writer holds, what waits behind it.
Ordered(x) ==
  /\ writer[x] = "writing" => held[x] <= last[x]
  /\ next[x] <= last[x]
  /\ writer[x] = "writing" /\ next[x] # 0 => held[x] <= next[x]
  /\ stage[x] = "idle" => writer[x] = "none" /\ next[x] = 0
  /\ stage[x] = "final" => writer[x] = "none"

\* Nothing but the execution that claimed the attempt has written the row.
RowIsIts(x) ==
  /\ stage[x] = "idle" => state = "QUEUED" /\ printed = 0
  /\ state = "RUNNING" /\ stage[x] # "final" =>
       /\ printed <= last[x]
       /\ writer[x] = "writing" => printed <= held[x]
       /\ next[x] # 0 => printed <= next[x]

ProgressInv ==
  ProgressTyped /\ \A x \in Runs : Ordered(x) /\ (Single(x) => RowIsIts(x))

LEMMA InitProgress == Progress!Init => ProgressInv
  BY DEF Progress!Init, ProgressInv, ProgressTyped, Ordered, RowIsIts, Single

LEMMA StepProgress ==
  ASSUME ProgressInv, [Progress!Next]_(Progress!vars)
  PROVE  /\ ProgressInv'
         /\ \A x \in Runs : Single(x)' => printed' >= printed
<1>0. ProgressTyped /\ \A x \in Runs : Ordered(x) /\ (Single(x) => RowIsIts(x))
  BY DEF ProgressInv
<1>1. CASE UNCHANGED Progress!vars
  BY <1>0, <1>1 DEF Progress!vars, ProgressInv, ProgressTyped, Ordered, RowIsIts, Single
<1>2. ASSUME NEW x \in Runs, Progress!Claim(x)
      PROVE  /\ ProgressInv'
             /\ \A y \in Runs : Single(y)' => printed' >= printed
  <2>1. /\ stage[x] = "idle" /\ stage' = [stage EXCEPT ![x] = "slicing"]
        /\ state' = "RUNNING" /\ printed' = 1
        /\ UNCHANGED <<last, next, writer, held>>
    BY <1>2 DEF Progress!Claim
  <2>2. ProgressTyped'
    BY <1>0, <2>1 DEF ProgressTyped
  <2>3. \A y \in Runs : Ordered(y)'
    BY <1>0, <2>1 DEF ProgressTyped, Ordered
  <2>4. \A y \in Runs : Single(y)' => y = x /\ Single(x)
    BY <1>0, <2>1 DEF ProgressTyped, Single
  <2>5. Single(x)' => RowIsIts(x)' /\ printed' >= printed
    BY <1>0, <2>1, <2>4 DEF ProgressTyped, RowIsIts, Ordered
  <2> QED
    BY <2>2, <2>3, <2>4, <2>5 DEF ProgressInv
<1>3. ASSUME NEW x \in Runs, NEW p \in Percents, Progress!Report(x, p)
      PROVE  ProgressInv' /\ printed' = printed
  <2>0. p \in 1..97
    BY PercentsAssumption
  <2>1. /\ stage[x] = "slicing" /\ p > last[x]
        /\ last' = [last EXCEPT ![x] = p] /\ next' = [next EXCEPT ![x] = p]
        /\ writer' = [writer EXCEPT ![x] = IF @ = "none" THEN "waiting" ELSE @]
        /\ UNCHANGED <<stage, held, printed, state>>
    BY <1>3 DEF Progress!Report, Progress!Advances
  <2>2. ProgressTyped'
    BY <1>0, <2>0, <2>1 DEF ProgressTyped
  <2>3. \A y \in Runs : Ordered(y)'
    BY <1>0, <2>0, <2>1 DEF ProgressTyped, Ordered
  <2>4. \A y \in Runs : Single(y)' => RowIsIts(y)'
    BY <1>0, <2>0, <2>1 DEF ProgressTyped, RowIsIts, Ordered, Single
  <2> QED
    BY <2>1, <2>2, <2>3, <2>4 DEF ProgressInv
<1>4. ASSUME NEW x \in Runs, Progress!Take(x)
      PROVE  ProgressInv' /\ printed' = printed
  <2>1. /\ writer[x] = "waiting" /\ next[x] # 0
        /\ writer' = [writer EXCEPT ![x] = "writing"]
        /\ held' = [held EXCEPT ![x] = next[x]] /\ next' = [next EXCEPT ![x] = 0]
        /\ UNCHANGED <<stage, last, printed, state>>
    BY <1>4 DEF Progress!Take
  <2>2. ProgressTyped'
    BY <1>0, <2>1 DEF ProgressTyped
  <2>3. \A y \in Runs : Ordered(y)'
    BY <1>0, <2>1 DEF ProgressTyped, Ordered
  <2>4. \A y \in Runs : Single(y)' => RowIsIts(y)'
    BY <1>0, <2>1 DEF ProgressTyped, RowIsIts, Ordered, Single
  <2> QED
    BY <2>1, <2>2, <2>3, <2>4 DEF ProgressInv
<1>5. ASSUME NEW x \in Runs, Progress!Write(x)
      PROVE  /\ ProgressInv'
             /\ \A y \in Runs : Single(y)' => printed' >= printed
  <2>1. /\ writer[x] = "writing"
        /\ printed' = printed \/ (state = "RUNNING" /\ printed' = held[x])
        /\ writer' = [writer EXCEPT ![x] = IF next[x] = 0 THEN "none" ELSE "waiting"]
        /\ UNCHANGED <<stage, last, next, held, state>>
    <3>1. printed' \in {IF state = "RUNNING" THEN held[x] ELSE printed, printed}
      BY <1>5 DEF Progress!Write
    <3>2. printed' = printed \/ (state = "RUNNING" /\ printed' = held[x])
      <4>1. CASE state = "RUNNING"
        BY <3>1, <4>1
      <4>2. CASE state # "RUNNING"
        BY <3>1, <4>2
      <4> QED
        BY <4>1, <4>2
    <3> QED
      BY <1>5, <3>2 DEF Progress!Write
  <2>2. ProgressTyped'
    BY <1>0, <2>1 DEF ProgressTyped
  <2>3. \A y \in Runs : Ordered(y)'
    BY <1>0, <2>1 DEF ProgressTyped, Ordered
  <2>4. \A y \in Runs : Single(y)' => y = x /\ Single(x)
    BY <1>0, <2>1 DEF Ordered, Single
  <2>5. Single(x)' => RowIsIts(x)' /\ printed' >= printed
    BY <1>0, <2>1, <2>4 DEF ProgressTyped, RowIsIts, Ordered
  <2> QED
    BY <2>2, <2>3, <2>4, <2>5 DEF ProgressInv
<1>6. ASSUME NEW x \in Runs, Progress!End(x) \/ Progress!Measure(x) \/ Progress!Complete(x)
      PROVE  /\ ProgressInv'
             /\ \A y \in Runs : Single(y)' => printed' >= printed
  <2>1. UNCHANGED <<last, next, writer, held>>
    BY <1>6 DEF Progress!End, Progress!Measure, Progress!Complete
  <2>2. \/ /\ stage[x] = "slicing" /\ printed' = printed /\ state' = state
           /\ (stage' = [stage EXCEPT ![x] = "ended"]) \/ (stage' = [stage EXCEPT ![x] = "over"])
        \/ /\ stage[x] = "ended" /\ writer[x] = "none" /\ state = "RUNNING"
           /\ stage' = [stage EXCEPT ![x] = "final"] /\ printed' = 98 /\ state' = state
        \/ /\ stage[x] \in {"ended", "final"} /\ state' \in {state, "FAILED"} /\ state' # "RUNNING"
           /\ stage' = [stage EXCEPT ![x] = "over"] /\ printed' = printed
        \/ /\ stage[x] = "final" /\ state' = "DONE" /\ printed' = 100
           /\ stage' = [stage EXCEPT ![x] = "over"]
    BY <1>6 DEF Progress!End, Progress!Measure, Progress!Complete, Progress!Drained
  <2>3. ProgressTyped'
    BY <1>0, <2>1, <2>2 DEF ProgressTyped
  <2>4. \A y \in Runs : Ordered(y)'
    BY <1>0, <2>1, <2>2 DEF ProgressTyped, Ordered
  <2>5. \A y \in Runs : Single(y)' => y = x /\ Single(x)
    BY <1>0, <2>2 DEF ProgressTyped, Single
  <2>6. Single(x)' => RowIsIts(x)' /\ printed' >= printed
    BY <1>0, <2>1, <2>2, <2>5 DEF ProgressTyped, RowIsIts, Ordered
  <2> QED
    BY <2>3, <2>4, <2>5, <2>6 DEF ProgressInv
<1>7. CASE Progress!Next
  <2>1. PICK x \in Runs : \/ Progress!Claim(x) \/ Progress!Take(x) \/ Progress!Write(x)
                          \/ Progress!End(x) \/ Progress!Measure(x) \/ Progress!Complete(x)
                          \/ \E p \in Percents : Progress!Report(x, p)
    BY <1>7 DEF Progress!Next
  <2>2. printed \in 0..100
    BY <1>0 DEF ProgressTyped
  <2> QED
    BY <1>2, <1>3, <1>4, <1>5, <1>6, <2>1, <2>2
<1> QED
  BY <1>1, <1>7

\* Until a second execution claims the attempt the progress in the row never falls
\* (index.ts:173-234 of the worker).
THEOREM ProgressRises == Progress!Spec => Rises
<1>1. ProgressInv /\ [Progress!Next]_(Progress!vars) =>
        [(\E x \in Runs : \A y \in Runs \ {x} : stage'[y] = "idle") => printed' >= printed]_(Progress!vars)
  BY StepProgress DEF Single
<1>2. ProgressInv /\ [Progress!Next]_(Progress!vars) => ProgressInv'
  BY StepProgress
<1> QED
  BY <1>1, <1>2, InitProgress, PTL DEF Progress!Spec, Rises, Progress!Rises

-----------------------------------------------------------------------------
(* CatalogSettings: any names, offers and number of saves; reads may fail. *)

NamesOrNone == Names \cup {NoName}
CatalogRows == [name : NamesOrNone, on : BOOLEAN, rest : Offers]
CatalogPuts ==
  {Catalog!Idle} \cup [at : {"sent"}, on : BOOLEAN, rest : Offers]
    \cup [at : {"checked"}, on : BOOLEAN, rest : Offers, row : CatalogRows]
NamePuts ==
  {Catalog!Idle} \cup [at : {"sent"}, name : NamesOrNone]
    \cup [at : {"read"}, name : NamesOrNone, row : CatalogRows]
Sales ==
  {Catalog!Idle} \cup [at : {"reads"}] \cup [at : {"reads"}, row : CatalogRows]
    \cup [at : {"reads"}, live : BOOLEAN] \cup [at : {"read"}, row : CatalogRows, live : BOOLEAN]

CatalogTyped ==
  /\ stored \in CatalogRows /\ ready \in BOOLEAN
  /\ editor \in [on : BOOLEAN, rest : Offers, dirty : BOOLEAN]
  /\ shown \in [name : NamesOrNone, ready : BOOLEAN]
  /\ catalogPut \in CatalogPuts /\ namePut \in NamePuts /\ sale \in Sales
  /\ had \subseteq {"offered", "ready"}
  /\ saves \in 0..MaxOffers

\* What an order has read was true since it arrived, and so is what is true now.
Witnessed ==
  /\ sale.at # "idle" => Catalog!Facts(stored, ready) \subseteq had
  /\ "row" \in DOMAIN sale /\ sale.row.on /\ sale.row.name # NoName => "offered" \in had
  /\ "live" \in DOMAIN sale /\ sale.live => "ready" \in had

CatalogInv == CatalogTyped /\ Witnessed

LEMMA DefaultRow == Catalog!Default \in CatalogRows /\ ~Catalog!Default.on
<1>1. (CHOOSE o \in Offers : TRUE) \in Offers
  BY OffersAssumption
<1> QED
  BY <1>1 DEF Catalog!Default, CatalogRows, NamesOrNone

LEMMA RowsRead ==
  ASSUME CatalogTyped, NEW r \in Catalog!Reads
  PROVE  r \in CatalogRows /\ (r.on => r = stored)
  BY DefaultRow DEF Catalog!Reads, CatalogTyped

LEMMA InitCatalog == Catalog!Init => CatalogInv
<1> SUFFICES ASSUME Catalog!Init
             PROVE  CatalogInv
  OBVIOUS
<1>1. CatalogTyped
  <2>1. stored \in CatalogRows /\ ready \in BOOLEAN
    BY DefaultRow DEF Catalog!Init
  <2>2. editor \in [on : BOOLEAN, rest : Offers, dirty : BOOLEAN]
    BY DefaultRow DEF Catalog!Init, CatalogRows
  <2>3. shown \in [name : NamesOrNone, ready : BOOLEAN]
    BY DEF Catalog!Init, NamesOrNone
  <2>4. catalogPut \in CatalogPuts /\ namePut \in NamePuts /\ sale \in Sales
    BY DEF Catalog!Init, CatalogPuts, NamePuts, Sales
  <2>5. had \subseteq {"offered", "ready"} /\ saves \in 0..MaxOffers
    BY BoundsAssumption DEF Catalog!Init
  <2> QED
    BY <2>1, <2>2, <2>3, <2>4, <2>5 DEF CatalogTyped
<1>2. Witnessed
  BY DEF Catalog!Init, Catalog!Idle, Witnessed
<1> QED
  BY <1>1, <1>2 DEF CatalogInv

\* A step of an editor, a handler or a preset.
Offering ==
  \/ Catalog!Edit \/ Catalog!SaveCatalog \/ Catalog!CheckCatalog \/ Catalog!RereadCatalog
  \/ Catalog!WriteCatalog \/ Catalog!SaveName \/ Catalog!ReadName \/ Catalog!WriteName
  \/ Catalog!PresetChanges \/ Catalog!Reload

LEMMA OfferingTyped ==
  ASSUME CatalogTyped, Offering
  PROVE  CatalogTyped'
<1>1. CASE Catalog!Edit
  BY <1>1 DEF Catalog!Edit, CatalogTyped
<1>2. CASE Catalog!SaveCatalog
  <2>1. saves' \in 0..MaxOffers
    BY <1>2, BoundsAssumption DEF Catalog!SaveCatalog, CatalogTyped
  <2> QED
    BY <1>2, <2>1 DEF Catalog!SaveCatalog, CatalogTyped, CatalogPuts
<1>3. CASE Catalog!CheckCatalog
  <2>1. catalogPut.at = "sent" /\ catalogPut \in [at : {"sent"}, on : BOOLEAN, rest : Offers]
    BY <1>3 DEF Catalog!CheckCatalog, CatalogTyped, CatalogPuts, Catalog!Idle
  <2>2. PICK r \in Catalog!Reads :
          catalogPut' \in {Catalog!Idle,
                           [at |-> "checked", on |-> catalogPut.on, rest |-> catalogPut.rest, row |-> r]}
    BY <1>3 DEF Catalog!CheckCatalog
  <2>3. catalogPut' \in CatalogPuts
    BY <2>1, <2>2, RowsRead DEF CatalogPuts
  <2> QED
    BY <1>3, <2>3 DEF Catalog!CheckCatalog, CatalogTyped
<1>4. CASE Catalog!RereadCatalog
  <2>1. catalogPut \in [at : {"checked"}, on : BOOLEAN, rest : Offers, row : CatalogRows]
    BY <1>4 DEF Catalog!RereadCatalog, CatalogTyped, CatalogPuts, Catalog!Idle
  <2>2. PICK r \in Catalog!Reads : catalogPut' = [catalogPut EXCEPT !.row = r]
    BY <1>4 DEF Catalog!RereadCatalog
  <2>3. catalogPut' \in CatalogPuts
    BY <2>1, <2>2, RowsRead DEF CatalogPuts
  <2> QED
    BY <1>4, <2>3 DEF Catalog!RereadCatalog, CatalogTyped
<1>5. CASE Catalog!WriteCatalog
  <2>1. catalogPut \in [at : {"checked"}, on : BOOLEAN, rest : Offers, row : CatalogRows]
    BY <1>5 DEF Catalog!WriteCatalog, CatalogTyped, CatalogPuts, Catalog!Idle
  <2>2. stored' \in CatalogRows
    BY <1>5, <2>1 DEF Catalog!WriteCatalog, CatalogRows
  <2>3. shown' \in [name : NamesOrNone, ready : BOOLEAN]
    BY <1>5, <2>2 DEF Catalog!WriteCatalog, CatalogTyped, CatalogRows
  <2>4. had' \subseteq {"offered", "ready"}
    BY <1>5 DEF Catalog!WriteCatalog, Catalog!Seen, Catalog!Facts, CatalogTyped
  <2> QED
    BY <1>5, <2>2, <2>3, <2>4 DEF Catalog!WriteCatalog, CatalogTyped, CatalogPuts
<1>6. CASE Catalog!SaveName
  <2>1. saves' \in 0..MaxOffers
    BY <1>6, BoundsAssumption DEF Catalog!SaveName, CatalogTyped
  <2> QED
    BY <1>6, <2>1 DEF Catalog!SaveName, CatalogTyped, NamePuts, NamesOrNone
<1>7. CASE Catalog!ReadName
  <2>1. namePut \in [at : {"sent"}, name : NamesOrNone]
    BY <1>7 DEF Catalog!ReadName, CatalogTyped, NamePuts, Catalog!Idle
  <2>2. PICK r \in Catalog!Reads : namePut' = [at |-> "read", name |-> namePut.name, row |-> r]
    BY <1>7 DEF Catalog!ReadName
  <2>3. namePut' \in NamePuts
    BY <2>1, <2>2, RowsRead DEF NamePuts
  <2> QED
    BY <1>7, <2>3 DEF Catalog!ReadName, CatalogTyped
<1>8. CASE Catalog!WriteName
  <2>1. namePut \in [at : {"read"}, name : NamesOrNone, row : CatalogRows]
    BY <1>8 DEF Catalog!WriteName, CatalogTyped, NamePuts, Catalog!Idle
  <2>2. stored' \in CatalogRows
    BY <1>8, <2>1 DEF Catalog!WriteName, Catalog!Renamed, CatalogRows
  <2>3. shown' \in [name : NamesOrNone, ready : BOOLEAN]
    BY <1>8, <2>1 DEF Catalog!WriteName, CatalogTyped
  <2>4. had' \subseteq {"offered", "ready"}
    BY <1>8 DEF Catalog!WriteName, Catalog!Seen, Catalog!Facts, CatalogTyped
  <2> QED
    BY <1>8, <2>2, <2>3, <2>4 DEF Catalog!WriteName, CatalogTyped, NamePuts
<1>9. CASE Catalog!PresetChanges
  <2>1. had' \subseteq {"offered", "ready"}
    BY <1>9 DEF Catalog!PresetChanges, Catalog!Seen, Catalog!Facts, CatalogTyped
  <2> QED
    BY <1>9, <2>1 DEF Catalog!PresetChanges, CatalogTyped
<1>10. CASE Catalog!Reload
  <2>1. shown' \in [name : NamesOrNone, ready : BOOLEAN]
    BY <1>10 DEF Catalog!Reload, CatalogTyped, CatalogRows
  <2>2. editor' \in [on : BOOLEAN, rest : Offers, dirty : BOOLEAN]
    <3>1. stored \in CatalogRows /\ editor \in [on : BOOLEAN, rest : Offers, dirty : BOOLEAN]
      BY DEF CatalogTyped
    <3>2. editor' = editor \/ editor' = [on |-> stored.on, rest |-> stored.rest, dirty |-> FALSE]
      BY <1>10 DEF Catalog!Reload
    <3>3. [on |-> stored.on, rest |-> stored.rest, dirty |-> FALSE]
            \in [on : BOOLEAN, rest : Offers, dirty : BOOLEAN]
      BY <3>1 DEF CatalogRows
    <3> QED
      BY <3>1, <3>2, <3>3
  <2> QED
    BY <1>10, <2>1, <2>2 DEF Catalog!Reload, CatalogTyped
<1> QED
  BY <1>1, <1>2, <1>3, <1>4, <1>5, <1>6, <1>7, <1>8, <1>9, <1>10 DEF Offering

LEMMA OfferingKeeps ==
  ASSUME CatalogInv, Offering
  PROVE  CatalogInv'
<1>0. CatalogTyped /\ CatalogTyped'
  BY OfferingTyped DEF CatalogInv
<1>1. sale' = sale
  BY DEF Offering, Catalog!Edit, Catalog!SaveCatalog, Catalog!CheckCatalog, Catalog!RereadCatalog,
         Catalog!WriteCatalog, Catalog!SaveName, Catalog!ReadName, Catalog!WriteName,
         Catalog!PresetChanges, Catalog!Reload
<1>2. \/ had' = had /\ stored' = stored /\ ready' = ready
      \/ had' = Catalog!Seen(stored', ready')
  <2>1. CASE Catalog!WriteCatalog \/ Catalog!WriteName
    BY <2>1 DEF Catalog!WriteCatalog, Catalog!WriteName, Catalog!Seen, Catalog!Facts
  <2>2. CASE Catalog!PresetChanges
    BY <2>2 DEF Catalog!PresetChanges, Catalog!Seen, Catalog!Facts
  <2> QED
    BY <2>1, <2>2
       DEF Offering, Catalog!Edit, Catalog!SaveCatalog, Catalog!CheckCatalog, Catalog!RereadCatalog,
           Catalog!SaveName, Catalog!ReadName, Catalog!Reload
<1>3. sale.at # "idle" => had \subseteq had' /\ Catalog!Facts(stored, ready)' \subseteq had'
  BY <1>2 DEF CatalogInv, Witnessed, Catalog!Seen, Catalog!Facts
<1>4. sale.at = "idle" => "row" \notin DOMAIN sale /\ "live" \notin DOMAIN sale
  BY <1>0 DEF CatalogTyped, Sales, Catalog!Idle
<1>5. Witnessed'
  BY <1>1, <1>3, <1>4 DEF CatalogInv, Witnessed
<1> QED
  BY <1>0, <1>5 DEF CatalogInv

LEMMA SellingKeeps ==
  ASSUME CatalogInv,
         Catalog!Arrive \/ Catalog!SaleReads \/ Catalog!SaleLooks \/ Catalog!Answer
  PROVE  CatalogInv'
<1>0. CatalogTyped
  BY DEF CatalogInv
<1>1. CASE Catalog!Arrive
  <2>1. /\ sale' = [at |-> "reads"] /\ had' = Catalog!Facts(stored, ready)
        /\ UNCHANGED <<stored, ready, editor, shown, catalogPut, namePut, saves>>
    BY <1>1 DEF Catalog!Arrive
  <2>2. CatalogTyped'
    BY <1>0, <2>1 DEF CatalogTyped, Sales, Catalog!Facts
  <2>3. Witnessed'
    BY <2>1 DEF Witnessed, Catalog!Facts
  <2> QED
    BY <2>2, <2>3 DEF CatalogInv
<1>2. CASE Catalog!SaleReads
  <2>1. /\ sale.at = "reads"
        /\ UNCHANGED <<stored, ready, editor, shown, catalogPut, namePut, had, saves>>
    BY <1>2 DEF Catalog!SaleReads
  <2>2. PICK r \in Catalog!Reads :
          sale' = IF "live" \in DOMAIN sale THEN [at |-> "read", row |-> r, live |-> sale.live]
                                            ELSE [at |-> "reads", row |-> r]
    BY <1>2 DEF Catalog!SaleReads
  <2>3. r \in CatalogRows /\ (r.on /\ r.name # NoName => "offered" \in had)
    BY <1>0, <2>1, RowsRead DEF CatalogInv, Witnessed, Catalog!Facts
  <2>4. "live" \in DOMAIN sale => sale.live \in BOOLEAN
    BY <1>0, <2>1 DEF CatalogTyped, Sales, Catalog!Idle
  <2>5. sale' \in Sales
    BY <2>2, <2>3, <2>4 DEF Sales
  <2>6. CatalogTyped'
    BY <1>0, <2>1, <2>5 DEF CatalogTyped
  <2>7. Witnessed'
    BY <2>1, <2>2, <2>3 DEF CatalogInv, Witnessed, Catalog!Facts
  <2> QED
    BY <2>6, <2>7 DEF CatalogInv
<1>3. CASE Catalog!SaleLooks
  <2>1. /\ sale.at = "reads"
        /\ UNCHANGED <<stored, ready, editor, shown, catalogPut, namePut, had, saves>>
    BY <1>3 DEF Catalog!SaleLooks
  <2>2. PICK live \in {ready, FALSE} :
          sale' = IF "row" \in DOMAIN sale THEN [at |-> "read", row |-> sale.row, live |-> live]
                                           ELSE [at |-> "reads", live |-> live]
    BY <1>3 DEF Catalog!SaleLooks
  <2>3. live \in BOOLEAN /\ (live => "ready" \in had)
    <3>1. ready \in BOOLEAN /\ Catalog!Facts(stored, ready) \subseteq had
      BY <2>1 DEF CatalogInv, CatalogTyped, Witnessed
    <3>2. ready => "ready" \in had
      BY <3>1 DEF Catalog!Facts
    <3>3. live = ready \/ live = FALSE
      BY <2>2
    <3>4. CASE live = ready
      BY <3>1, <3>2, <3>4
    <3>5. CASE live = FALSE
      BY <3>5
    <3> QED
      BY <3>3, <3>4, <3>5
  <2>4. "row" \in DOMAIN sale => sale.row \in CatalogRows
    BY <1>0, <2>1 DEF CatalogTyped, Sales, Catalog!Idle
  <2>5. sale' \in Sales
    BY <2>2, <2>3, <2>4 DEF Sales
  <2>6. CatalogTyped'
    BY <1>0, <2>1, <2>5 DEF CatalogTyped
  <2>7. Witnessed'
    BY <2>1, <2>2, <2>3 DEF CatalogInv, Witnessed, Catalog!Facts
  <2> QED
    BY <2>6, <2>7 DEF CatalogInv
<1>4. CASE Catalog!Answer
  <2>1. CatalogTyped'
    BY <1>0, <1>4 DEF Catalog!Answer, CatalogTyped, Sales
  <2>2. Witnessed'
    BY <1>4 DEF Catalog!Answer, Catalog!Idle, Witnessed
  <2> QED
    BY <2>1, <2>2 DEF CatalogInv
<1> QED
  BY <1>1, <1>2, <1>3, <1>4

LEMMA StepCatalog == CatalogInv /\ [Catalog!Next]_(Catalog!vars) => CatalogInv'
<1> SUFFICES ASSUME CatalogInv, [Catalog!Next]_(Catalog!vars)
             PROVE  CatalogInv'
  OBVIOUS
<1>1. CASE UNCHANGED Catalog!vars
  BY <1>1 DEF Catalog!vars, CatalogInv, CatalogTyped, Witnessed, Catalog!Facts
<1>2. CASE Catalog!Next
  BY <1>2, OfferingKeeps, SellingKeeps DEF Catalog!Next, Offering
<1> QED
  BY <1>1, <1>2

LEMMA OfferStays == Catalog!Spec => []Catalog!OfferKept
<1>1. CatalogInv => Catalog!OfferKept
  <2> SUFFICES ASSUME CatalogInv
               PROVE  Catalog!OfferKept
    OBVIOUS
  <2>0. CatalogTyped /\ Witnessed
    BY DEF CatalogInv
  <2>1. Catalog!TypeOK
    BY <2>0 DEF CatalogTyped, Catalog!TypeOK, CatalogRows, CatalogPuts, NamePuts, Sales, Catalog!Idle,
                NamesOrNone
  <2>2. sale.at = "read" => sale \in [at : {"read"}, row : CatalogRows, live : BOOLEAN]
    BY <2>0 DEF CatalogTyped, Sales, Catalog!Idle
  <2>3. Catalog!SoldOnlyOffered
    BY <2>0, <2>2 DEF CatalogTyped, Witnessed, Catalog!SoldOnlyOffered, Catalog!Sold,
                      Catalog!customMaterialProblem
  <2> QED
    BY <2>1, <2>3 DEF Catalog!OfferKept
<1> QED
  BY <1>1, InitCatalog, StepCatalog, PTL DEF Catalog!Spec

-----------------------------------------------------------------------------
(* SettingsRestore: any accounts, servers and numbers of saves, rotations  *)
(* and restores.                                                           *)

Secrets == Accounts \cup {EnvAccount, "none", "key", "pass"}
Seals == [of : Secrets, shut : BOOLEAN]
TaxRows == [set : {TRUE}, rate : {"a", "b"}]
ShippingRows == [set : {TRUE}, on : BOOLEAN, account : Accounts, password : Seals]
MailRows ==
  [set : {TRUE}, on : BOOLEAN, provider : {"resend", "smtp"}, host : Hosts, key : Seals, pass : Seals]

RowFits(s, x) ==
  CASE s = "tax" -> x \in TaxRows [] s = "shipping" -> x \in ShippingRows [] s = "mail" -> x \in MailRows

\* What an export leaves of the secrets.
Blank(s, x) ==
  /\ s = "shipping" => x.password = Backup!NoSealed
  /\ s = "mail" => x.key = Backup!NoSealed /\ x.pass = Backup!NoSealed

RowsFit(sections) ==
  /\ DOMAIN sections = Backup!Sections
  /\ \A s \in Backup!Sections : sections[s] = Backup!Unset \/ RowFits(s, sections[s])

BackupFits ==
  /\ DOMAIN backup \subseteq Backup!Sections
  /\ \A s \in DOMAIN backup : RowFits(s, backup[s]) /\ Blank(s, backup[s])

Reports ==
  [restored : SUBSET Backup!Sections, skipped : SUBSET Backup!SealedSections, reenter : SUBSET Backup!SealedSections]

RestoreFits ==
  /\ restore.report \in Reports
  /\ \/ /\ restore.at \in Backup!Sections \cup {"idle", "answer"}
        /\ restore = [at |-> restore.at, report |-> restore.report]
     \/ /\ restore = [at |-> "write", section |-> restore.section, row |-> restore.row,
                      report |-> restore.report]
        /\ restore.section \in Backup!SealedSections \cap DOMAIN backup
        /\ RowFits(restore.section, restore.row)

StepsFit == steps \in [save : 0..MaxSaves, rotate : 0..MaxRotates, restore : 0..MaxRestores]

BackupTyped ==
  /\ RowsFit(settings) /\ RowsFit(before) /\ BackupFits /\ RestoreFits /\ StepsFit
  /\ touched \subseteq Backup!Sections /\ blind \subseteq Backup!SealedSections

\* The section the restore is at, and the ones it has been through.
Visited == IF restore.at = "write" THEN restore.section ELSE restore.at
Passed ==
  CASE Visited = "answer" -> Backup!Sections [] Visited = "mail" -> {"tax", "shipping"}
    [] Visited = "shipping" -> {"tax"} [] OTHER -> {}

\* What the restore makes of a section, from the row that was there.
Takes(s, x) ==
  IF s = "tax" THEN x = backup[s]
  ELSE /\ x = Backup!Merged(s, before[s], backup[s])
       /\ s \in blind \/ ~Backup!KeepsOwn(Backup!Live(s, before[s]), s, x)

\* A section that nobody else has written is restored from the file, or as it was.
Restored ==
  restore.at # "idle" =>
    /\ restore.report.restored \subseteq Passed \cap DOMAIN backup
    /\ \A s \in Backup!Sections \ touched :
         IF s \in restore.report.restored THEN Takes(s, settings[s]) ELSE settings[s] = before[s]
    /\ restore.at = "write" /\ restore.section \notin touched => Takes(restore.section, restore.row)

BackupInv == BackupTyped /\ Restored

-----------------------------------------------------------------------------
\* A merged row fits its section, and says what the backup says.
LEMMA MergedFits ==
  ASSUME NEW s \in Backup!SealedSections, NEW x, NEW y,
         x = Backup!Unset \/ RowFits(s, x), RowFits(s, y), Blank(s, y)
  PROVE  /\ RowFits(s, Backup!Merged(s, x, y))
         /\ Backup!exportSection(s, Backup!Merged(s, x, y)) = y
<1>0. Backup!NoSealed \in Seals
  BY DEF Backup!NoSealed, Backup!NoSecret, Seals, Secrets
<1>1. CASE s = "shipping"
  <2>1. y \in ShippingRows /\ y.password = Backup!NoSealed
    BY <1>1 DEF RowFits, Blank
  <2>2. PICK p \in Seals : Backup!Merged(s, x, y) = [y EXCEPT !.password = p]
    <3>1. x.set /\ x.account = y.account => x.password \in Seals
      <4>1. CASE x = Backup!Unset
        <5>1. x.set = FALSE
          BY <4>1 DEF Backup!Unset
        <5> QED
          BY <5>1
      <4>2. CASE x \in ShippingRows
        BY <4>2 DEF ShippingRows
      <4> QED
        BY <1>1, <4>1, <4>2 DEF RowFits
    <3>2. Backup!Merged(s, x, y) =
            [y EXCEPT !.password = IF x.set /\ x.account = y.account THEN x.password ELSE Backup!NoSealed]
      BY <1>1 DEF Backup!Merged
    <3> QED
      BY <1>0, <3>1, <3>2
  <2>3. [y EXCEPT !.password = p] \in ShippingRows
    BY <2>1 DEF ShippingRows
  <2>4. [[y EXCEPT !.password = p] EXCEPT !.password = Backup!NoSealed] = y
    BY <2>1 DEF ShippingRows
  <2> QED
    BY <1>1, <2>2, <2>3, <2>4 DEF RowFits, Backup!exportSection
<1>2. CASE s = "mail"
  <2>1. y \in MailRows /\ y.key = Backup!NoSealed /\ y.pass = Backup!NoSealed
    BY <1>2 DEF RowFits, Blank
  <2>2. PICK k \in Seals, p \in Seals :
          Backup!Merged(s, x, y) = [y EXCEPT !.key = k, !.pass = p]
    <3>1. x.set => x.key \in Seals /\ x.pass \in Seals
      <4>1. CASE x = Backup!Unset
        <5>1. x.set = FALSE
          BY <4>1 DEF Backup!Unset
        <5> QED
          BY <5>1
      <4>2. CASE x \in MailRows
        BY <4>2 DEF MailRows
      <4> QED
        BY <1>2, <4>1, <4>2 DEF RowFits
    <3>2. Backup!Merged(s, x, y) =
            [y EXCEPT
              !.key = IF x.set /\ x.provider = "resend" /\ y.provider = "resend"
                        THEN x.key ELSE Backup!NoSealed,
              !.pass = IF x.set /\ x.provider = "smtp" /\ y.provider = "smtp" /\ x.host = y.host
                         THEN x.pass ELSE Backup!NoSealed]
      BY <1>2 DEF Backup!Merged
    <3> QED
      BY <1>0, <3>1, <3>2
  <2>3. [y EXCEPT !.key = k, !.pass = p] \in MailRows
    BY <2>1 DEF MailRows
  <2>4. [[y EXCEPT !.key = k, !.pass = p] EXCEPT !.key = Backup!NoSealed, !.pass = Backup!NoSealed] = y
    BY <2>1 DEF MailRows
  <2> QED
    BY <1>2, <2>2, <2>3, <2>4 DEF RowFits, Backup!exportSection
<1> QED
  BY <1>1, <1>2 DEF Backup!SealedSections

\* Where a service worked, what the restore takes from a file that wants it on works.
LEMMA MergedWorks ==
  ASSUME NEW s \in Backup!SealedSections, NEW x, NEW y,
         x = Backup!Unset \/ RowFits(s, x), RowFits(s, y), Blank(s, y),
         Backup!Live(s, x), y.on,
         ~Backup!KeepsOwn(Backup!Live(s, x), s, Backup!Merged(s, x, y))
  PROVE  Backup!Live(s, Backup!Merged(s, x, y))
<1>1. CASE s = "shipping"
  <2>1. y \in ShippingRows
    BY <1>1 DEF RowFits
  <2>2. DEFINE p == IF x.set /\ x.account = y.account THEN x.password ELSE Backup!NoSealed
               m == [y EXCEPT !.password = p]
  <2>3. Backup!Merged(s, x, y) = m
    BY <1>1 DEF Backup!Merged
  <2>4. m.set /\ m.on = y.on /\ m.password = p
    BY <2>1 DEF ShippingRows
  <2> HIDE DEF m
  <2>5. p # Backup!NoSealed
    BY <1>1, <2>3, <2>4 DEF Backup!KeepsOwn, Backup!secretOf
  <2>6. ~p.shut
    BY <1>1, <2>5 DEF Backup!Live, Backup!secretOf
  <2> QED
    BY <1>1, <2>3, <2>4, <2>5, <2>6 DEF Backup!Live, Backup!secretOf
<1>2. CASE s = "mail"
  <2>1. y \in MailRows
    BY <1>2 DEF RowFits
  <2>2. DEFINE k == IF x.set /\ x.provider = "resend" /\ y.provider = "resend"
                      THEN x.key ELSE Backup!NoSealed
               p == IF x.set /\ x.provider = "smtp" /\ y.provider = "smtp" /\ x.host = y.host
                      THEN x.pass ELSE Backup!NoSealed
               m == [y EXCEPT !.key = k, !.pass = p]
  <2>3. Backup!Merged(s, x, y) = m
    BY <1>2 DEF Backup!Merged
  <2>4. m.set /\ m.on = y.on /\ m.key = k /\ m.pass = p /\ m.provider = y.provider
    BY <2>1 DEF MailRows
  <2> HIDE DEF m
  <2>5. Backup!secretOf(s, m) # Backup!NoSealed
    BY <1>2, <2>3, <2>4 DEF Backup!KeepsOwn
  <2>6. Backup!secretOf(s, m) = IF y.provider = "smtp" THEN p ELSE k
    BY <1>2, <2>4 DEF Backup!secretOf
  <2>7. x.set /\ x.provider = y.provider /\ Backup!secretOf(s, m) = Backup!secretOf(s, x)
    BY <1>2, <2>1, <2>5, <2>6 DEF Backup!secretOf, MailRows
  <2> QED
    BY <1>2, <2>3, <2>4, <2>5, <2>7 DEF Backup!Live
<1> QED
  BY <1>1, <1>2 DEF Backup!SealedSections

LEMMA InitBackup == Backup!Init => BackupInv
<1> SUFFICES ASSUME Backup!Init
             PROVE  BackupInv
  OBVIOUS
<1>1. RowsFit(settings) /\ RowsFit(before)
  BY DEF Backup!Init, RowsFit
<1>2. backup = <<>> /\ DOMAIN backup = {}
  BY DEF Backup!Init
<1>3. BackupFits
  BY <1>2 DEF BackupFits
<1>4. restore = [at |-> "idle", report |-> Backup!NoReport] /\ Backup!NoReport \in Reports
  BY DEF Backup!Init, Backup!NoReport, Reports
<1>5. RestoreFits
  BY <1>4 DEF RestoreFits
<1>6. StepsFit
  <2>1. steps = [save |-> 0, rotate |-> 0, restore |-> 0]
    BY DEF Backup!Init
  <2> QED
    BY <2>1, BoundsAssumption DEF StepsFit
<1>7. touched \subseteq Backup!Sections /\ blind \subseteq Backup!SealedSections
  BY DEF Backup!Init
<1>8. Restored
  BY <1>4 DEF Restored
<1> QED
  BY <1>1, <1>3, <1>5, <1>6, <1>7, <1>8 DEF BackupInv, BackupTyped

LEMMA Counting ==
  ASSUME StepsFit,
         \/ Backup!Counted("save", MaxSaves) \/ Backup!Counted("rotate", MaxRotates)
         \/ Backup!Counted("restore", MaxRestores)
  PROVE  StepsFit'
  BY BoundsAssumption DEF StepsFit, Backup!Counted

\* One section is written, with a row that fits it.
LEMMA WritingFits ==
  ASSUME RowsFit(settings), NEW s \in Backup!Sections, NEW x, RowFits(s, x),
         settings' = [settings EXCEPT ![s] = x]
  PROVE  RowsFit(settings)' /\ settings'[s] = x /\ \A r \in Backup!Sections \ {s} : settings'[r] = settings[r]
<1>1. /\ DOMAIN settings' = Backup!Sections /\ settings'[s] = x
      /\ \A r \in Backup!Sections \ {s} : settings'[r] = settings[r]
  BY DEF RowsFit
<1>2. \A r \in Backup!Sections : settings'[r] = Backup!Unset \/ RowFits(r, settings'[r])
  BY <1>1 DEF RowsFit
<1> QED
  BY <1>1, <1>2 DEF RowsFit

-----------------------------------------------------------------------------
(* The settings pages.                                                     *)

LEMMA SavedKeeps ==
  ASSUME BackupInv, NEW s \in Backup!Sections, NEW x, RowFits(s, x), Backup!Saved(s, x)
  PROVE  BackupInv'
<1>0. BackupTyped /\ Restored
  BY DEF BackupInv
<1>1. /\ settings' = [settings EXCEPT ![s] = x] /\ touched' = touched \cup {s}
      /\ backup' = backup /\ restore' = restore /\ before' = before /\ blind' = blind
  BY DEF Backup!Saved
<1>2. /\ RowsFit(settings)' /\ touched' \subseteq Backup!Sections /\ blind' \subseteq Backup!SealedSections
      /\ \A r \in Backup!Sections \ {s} : settings'[r] = settings[r]
  BY <1>0, <1>1, WritingFits DEF BackupTyped
<1>3. StepsFit'
  BY <1>0, Counting DEF Backup!Saved, BackupTyped
<1>4. RowsFit(before)' /\ BackupFits' /\ RestoreFits'
  BY <1>0, <1>1 DEF BackupTyped, RowsFit, BackupFits, RestoreFits
<1>5. Restored'
  BY <1>0, <1>1, <1>2 DEF Restored, Takes, Passed, Visited
<1> QED
  BY <1>2, <1>3, <1>4, <1>5 DEF BackupInv, BackupTyped

\* A secret in the row, opened, and what the install itself has.
LEMMA SealedFits == \A t \in Secrets : Backup!Sealed(t) \in Seals
  BY DEF Backup!Sealed, Seals

LEMMA OpenedFits == \A t \in Seals : Backup!Opened(t) \in Secrets
  BY DEF Backup!Opened, Backup!NoSecret, Seals, Secrets

LEMMA SavingKeeps ==
  ASSUME BackupInv, Backup!SaveTax \/ Backup!SaveShipping \/ Backup!SaveMail
  PROVE  BackupInv'
<1>0. /\ RowsFit(settings) /\ {"tax", "shipping", "mail"} = Backup!Sections
  BY DEF BackupInv, BackupTyped, Backup!Sections
<1>1. CASE Backup!SaveTax
  <2>1. PICK v \in {"a", "b"} : Backup!Saved("tax", [set |-> TRUE, rate |-> v])
    BY <1>1 DEF Backup!SaveTax
  <2>2. RowFits("tax", [set |-> TRUE, rate |-> v])
    BY DEF RowFits, TaxRows
  <2> QED
    BY <1>0, <2>1, <2>2, SavedKeeps
<1>2. CASE Backup!SaveShipping
  <2>1. PICK on \in BOOLEAN, account \in Accounts, typed \in Accounts \cup {"none"} :
          LET x == settings["shipping"]
              current == IF x.set
                           THEN [account |-> x.account, password |-> Backup!Opened(x.password)]
                           ELSE [account |-> EnvAccount,
                                 password |-> IF EnvAccount = NoAccount THEN "none" ELSE EnvAccount]
              password == IF typed # "none" THEN typed ELSE current.password
          IN Backup!Saved("shipping", [set |-> TRUE, on |-> on, account |-> account,
                                       password |-> Backup!Sealed(password)])
    BY <1>2 DEF Backup!SaveShipping, Backup!NoSecret
  <2>2. DEFINE x == settings["shipping"]
               old == IF x.set THEN Backup!Opened(x.password)
                      ELSE IF EnvAccount = NoAccount THEN "none" ELSE EnvAccount
               password == IF typed # "none" THEN typed ELSE old
               new == [set |-> TRUE, on |-> on, account |-> account, password |-> Backup!Sealed(password)]
  <2>3. Backup!Saved("shipping", new)
    BY <2>1
  <2>4. x.set => x.password \in Seals
    <3>1. CASE x = Backup!Unset
      <4>1. x.set = FALSE
        BY <3>1 DEF Backup!Unset
      <4> QED
        BY <4>1
    <3>2. CASE x \in ShippingRows
      BY <3>2 DEF ShippingRows
    <3> QED
      BY <1>0, <3>1, <3>2 DEF RowsFit, RowFits
  <2>5. old \in Secrets
    BY <2>4, OpenedFits DEF Secrets
  <2>6. password \in Secrets
    BY <2>5 DEF Secrets
  <2>7. RowFits("shipping", new)
    BY <2>6, SealedFits DEF RowFits, ShippingRows
  <2> HIDE DEF new
  <2> QED
    BY <1>0, <2>3, <2>7, SavedKeeps
<1>3. CASE Backup!SaveMail
  <2>1. PICK on \in BOOLEAN, provider \in Backup!Providers, smtp \in Hosts,
             typed \in SUBSET {"key", "pass"} :
          LET x == settings["mail"]
              old(k) == IF x.set THEN Backup!Opened(x[k])
                        ELSE IF k = "key" /\ EnvMail # "none" THEN k ELSE Backup!NoSecret
              secret(k) == IF k \in typed THEN k ELSE old(k)
              new == [set |-> TRUE, on |-> on, provider |-> provider, host |-> smtp,
                      key |-> Backup!Sealed(secret("key")), pass |-> Backup!Sealed(secret("pass"))]
          IN /\ on => Backup!secretOf("mail", new) # Backup!NoSealed
             /\ Backup!Saved("mail", new)
    BY <1>3, Zenon DEF Backup!SaveMail
  <2>2. DEFINE x == settings["mail"]
               old(k) == IF x.set THEN Backup!Opened(x[k])
                        ELSE IF k = "key" /\ EnvMail # "none" THEN k ELSE Backup!NoSecret
               secret(k) == IF k \in typed THEN k ELSE old(k)
               new == [set |-> TRUE, on |-> on, provider |-> provider, host |-> smtp,
                       key |-> Backup!Sealed(secret("key")), pass |-> Backup!Sealed(secret("pass"))]
  <2>3. Backup!Saved("mail", new)
    BY <2>1
  <2>4. x.set => x["key"] \in Seals /\ x["pass"] \in Seals
    <3>1. CASE x = Backup!Unset
      <4>1. x.set = FALSE
        BY <3>1 DEF Backup!Unset
      <4> QED
        BY <4>1
    <3>2. CASE x \in MailRows
      BY <3>2 DEF MailRows
    <3> QED
      BY <1>0, <3>1, <3>2 DEF RowsFit, RowFits
  <2>5. secret("key") \in Secrets /\ secret("pass") \in Secrets
    BY <2>4, OpenedFits DEF Secrets, Backup!NoSecret
  <2>6. RowFits("mail", new)
    BY <2>5, SealedFits DEF RowFits, MailRows, Backup!Providers
  <2> HIDE DEF new
  <2> QED
    BY <1>0, <2>3, <2>6, SavedKeeps
<1> QED
  BY <1>1, <1>2, <1>3

-----------------------------------------------------------------------------
(* Beside a restore: the backup, the install, its SESSION_SECRET.          *)

\* An exported row fits the backup.
LEMMA ExportFits ==
  ASSUME NEW s \in Backup!Sections, NEW x, RowFits(s, x)
  PROVE  RowFits(s, Backup!exportSection(s, x)) /\ Blank(s, Backup!exportSection(s, x))
<1>0. Backup!NoSealed \in Seals
  BY DEF Backup!NoSealed, Backup!NoSecret, Seals, Secrets
<1>1. CASE s = "tax"
  BY <1>1 DEF Backup!exportSection, RowFits, Blank
<1>2. CASE s = "shipping"
  <2>1. Backup!exportSection(s, x) = [x EXCEPT !.password = Backup!NoSealed] /\ x \in ShippingRows
    BY <1>2 DEF Backup!exportSection, RowFits
  <2> QED
    BY <1>0, <1>2, <2>1 DEF RowFits, Blank, ShippingRows
<1>3. CASE s = "mail"
  <2>1. /\ Backup!exportSection(s, x) = [x EXCEPT !.key = Backup!NoSealed, !.pass = Backup!NoSealed]
        /\ x \in MailRows
    BY <1>3 DEF Backup!exportSection, RowFits
  <2> QED
    BY <1>0, <1>3, <2>1 DEF RowFits, Blank, MailRows
<1> QED
  BY <1>1, <1>2, <1>3 DEF Backup!Sections

LEMMA RotateFits ==
  ASSUME RowsFit(settings), Backup!Rotate
  PROVE  RowsFit(settings)'
<1> DEFINE shut(z) == IF z = Backup!NoSealed THEN Backup!NoSealed ELSE [z EXCEPT !.shut = TRUE]
           ship == settings["shipping"]
           mail == settings["mail"]
           ship2 == IF ship.set THEN [ship EXCEPT !.password = shut(ship.password)] ELSE ship
           mail2 == IF mail.set THEN [mail EXCEPT !.key = shut(mail.key), !.pass = shut(mail.pass)] ELSE mail
<1>1. settings' = [settings EXCEPT !["shipping"] = ship2, !["mail"] = mail2]
  BY DEF Backup!Rotate
<1>2. \A z \in Seals : shut(z) \in Seals
  BY DEF Backup!NoSealed, Backup!NoSecret, Seals
<1>3. ship2 = Backup!Unset \/ RowFits("shipping", ship2)
  <2>1. CASE ship = Backup!Unset
    <3>1. ship.set = FALSE
      BY <2>1 DEF Backup!Unset
    <3> QED
      BY <2>1, <3>1
  <2>2. CASE ship \in ShippingRows
    <3>1. shut(ship.password) \in Seals /\ ship.set
      BY <1>2, <2>2 DEF ShippingRows
    <3> HIDE DEF shut
    <3> QED
      BY <2>2, <3>1 DEF ShippingRows, RowFits
  <2> QED
    BY <2>1, <2>2 DEF RowsFit, RowFits, Backup!Sections
<1>4. mail2 = Backup!Unset \/ RowFits("mail", mail2)
  <2>1. CASE mail = Backup!Unset
    <3>1. mail.set = FALSE
      BY <2>1 DEF Backup!Unset
    <3> QED
      BY <2>1, <3>1
  <2>2. CASE mail \in MailRows
    <3>1. shut(mail.key) \in Seals /\ shut(mail.pass) \in Seals /\ mail.set
      BY <1>2, <2>2 DEF MailRows
    <3> HIDE DEF shut
    <3> QED
      BY <2>2, <3>1 DEF MailRows, RowFits
  <2> QED
    BY <2>1, <2>2 DEF RowsFit, RowFits, Backup!Sections
<1> HIDE DEF ship2, mail2
<1>5. /\ DOMAIN settings' = Backup!Sections /\ settings'["tax"] = settings["tax"]
      /\ settings'["shipping"] = ship2 /\ settings'["mail"] = mail2
  BY <1>1 DEF RowsFit, Backup!Sections
<1> QED
  BY <1>3, <1>4, <1>5 DEF RowsFit, Backup!Sections

LEMMA BesideKeeps ==
  ASSUME BackupInv, Backup!Rotate \/ Backup!Export \/ Backup!Reinstall
  PROVE  BackupInv'
<1>0. BackupTyped
  BY DEF BackupInv
<1>1. restore.at = "idle" /\ restore' = restore /\ before' = before /\ touched' = touched /\ blind' = blind
  BY DEF Backup!Rotate, Backup!Export, Backup!Reinstall
<1>2. RowsFit(settings)'
  <2>1. CASE Backup!Rotate
    BY <1>0, <2>1, RotateFits DEF BackupTyped
  <2>2. CASE Backup!Export
    BY <1>0, <2>2 DEF Backup!Export, BackupTyped, RowsFit
  <2>3. CASE Backup!Reinstall
    BY <2>3 DEF Backup!Reinstall, RowsFit
  <2> QED
    BY <2>1, <2>2, <2>3
<1>3. BackupFits'
  <2>1. CASE Backup!Export
    <3>1. backup' = [s \in {r \in Backup!Sections : settings[r].set} |->
                       Backup!exportSection(s, settings[s])]
      BY <2>1 DEF Backup!Export
    <3>2. \A s \in {r \in Backup!Sections : settings[r].set} : RowFits(s, settings[s])
      <4> SUFFICES ASSUME NEW s \in Backup!Sections, settings[s].set
                   PROVE  RowFits(s, settings[s])
        OBVIOUS
      <4>1. settings[s] # Backup!Unset
        <5>1. Backup!Unset.set = FALSE
          BY DEF Backup!Unset
        <5> QED
          BY <5>1
      <4> QED
        BY <1>0, <4>1 DEF BackupTyped, RowsFit
    <3>3. \A s \in DOMAIN backup' :
            s \in Backup!Sections /\ RowFits(s, backup'[s]) /\ Blank(s, backup'[s])
      BY <3>1, <3>2, ExportFits
    <3> QED
      BY <3>3 DEF BackupFits
  <2>2. CASE backup' = backup
    BY <1>0, <2>2 DEF BackupTyped, BackupFits
  <2> QED
    BY <2>1, <2>2 DEF Backup!Rotate, Backup!Reinstall
<1>4. StepsFit'
  BY <1>0, Counting DEF Backup!Rotate, Backup!Export, Backup!Reinstall, BackupTyped, StepsFit
<1>5. RestoreFits'
  BY <1>0, <1>1 DEF BackupTyped, RestoreFits
<1>6. RowsFit(before)' /\ touched' \subseteq Backup!Sections /\ blind' \subseteq Backup!SealedSections
  BY <1>0, <1>1 DEF BackupTyped, RowsFit
<1>7. Restored'
  BY <1>1 DEF Restored
<1> QED
  BY <1>2, <1>3, <1>4, <1>5, <1>6, <1>7 DEF BackupInv, BackupTyped

-----------------------------------------------------------------------------
(* The restore itself.                                                     *)

\* The next section, and what the restore has been through when it gets there.
LEMMA Onward ==
  ASSUME NEW s \in Backup!Sections
  PROVE  /\ Backup!After(s) \in {"shipping", "mail", "answer"}
         /\ Visited = s /\ restore'.at = Backup!After(s) => Passed' = Passed \cup {s} /\ s \notin Passed
<1>1. Backup!After(s) = IF s = "tax" THEN "shipping" ELSE IF s = "shipping" THEN "mail" ELSE "answer"
  BY DEF Backup!After, Backup!Sections
<1>2. ASSUME Visited = s, restore'.at = Backup!After(s)
      PROVE  Passed' = Passed \cup {s} /\ s \notin Passed
  <2>1. Visited' = Backup!After(s)
    BY <1>1, <1>2 DEF Visited
  <2>2. CASE s = "tax"
    BY <1>1, <1>2, <2>1, <2>2 DEF Passed
  <2>3. CASE s = "shipping"
    BY <1>1, <1>2, <2>1, <2>3 DEF Passed
  <2>4. CASE s = "mail"
    BY <1>1, <1>2, <2>1, <2>4 DEF Passed, Backup!Sections
  <2> QED
    BY <2>2, <2>3, <2>4 DEF Backup!Sections
<1> QED
  BY <1>1, <1>2

\* A step of the restore leaves the file, and what it began with.
LEMMA RestoreFrame ==
  ASSUME BackupInv, UNCHANGED <<backup, before, touched, steps>>, RowsFit(settings)', RestoreFits',
         blind' = blind \/ \E s \in Backup!SealedSections : blind' = blind \cup {s}
  PROVE  BackupTyped'
  BY DEF BackupInv, BackupTyped, RowsFit, BackupFits, StepsFit

\* It is over, or has just begun.
LEMMA EdgeKeeps ==
  ASSUME BackupInv, Backup!Begin \/ Backup!RestoreDies \/ Backup!Answer
  PROVE  BackupInv'
<1>0. BackupTyped /\ settings' = settings /\ backup' = backup
  BY DEF BackupInv, Backup!Begin, Backup!RestoreDies, Backup!Answer
<1>1. RowsFit(settings)' /\ BackupFits' /\ Backup!NoReport \in Reports
  BY <1>0 DEF BackupTyped, RowsFit, BackupFits, Backup!NoReport, Reports
<1>2. StepsFit'
  BY <1>0, Counting DEF Backup!Begin, Backup!RestoreDies, Backup!Answer, BackupTyped, StepsFit
<1>3. CASE Backup!Begin
  <2>1. /\ restore' = [at |-> "tax", report |-> Backup!NoReport] /\ before' = settings /\ touched' = {} /\ blind' = {}
    BY <1>3 DEF Backup!Begin
  <2>2. RestoreFits' /\ RowsFit(before)' /\ touched' \subseteq Backup!Sections /\ blind' \subseteq Backup!SealedSections
    BY <1>0, <1>1, <2>1 DEF RestoreFits, BackupTyped, RowsFit, Backup!Sections
  <2>3. Restored'
    BY <1>0, <2>1 DEF Restored, Backup!NoReport
  <2> QED
    BY <1>1, <1>2, <2>2, <2>3 DEF BackupInv, BackupTyped
<1>4. CASE Backup!RestoreDies \/ Backup!Answer
  <2>1. /\ restore' = [at |-> "idle", report |-> Backup!NoReport]
        /\ before' = before /\ touched' = touched /\ blind' = blind
    BY <1>4 DEF Backup!RestoreDies, Backup!Answer
  <2>2. RestoreFits' /\ RowsFit(before)' /\ touched' \subseteq Backup!Sections /\ blind' \subseteq Backup!SealedSections
    BY <1>0, <1>1, <2>1 DEF RestoreFits, BackupTyped, RowsFit
  <2>3. Restored'
    BY <2>1 DEF Restored
  <2> QED
    BY <1>1, <1>2, <2>2, <2>3 DEF BackupInv, BackupTyped
<1> QED
  BY <1>3, <1>4

LEMMA AbsentKeeps ==
  ASSUME BackupInv, Backup!Absent
  PROVE  BackupInv'
<1>0. BackupTyped /\ Restored /\ UNCHANGED <<settings, backup, before, touched, blind, steps>>
  BY DEF BackupInv, Backup!Absent
<1>1. PICK s \in Backup!Sections \ DOMAIN backup :
        /\ restore.at = s /\ restore = [at |-> s, report |-> restore.report]
        /\ restore' = [restore EXCEPT !.at = Backup!After(s)]
  BY <1>0 DEF Backup!Absent, BackupTyped, RestoreFits, Backup!Sections
<1>2. restore' = [at |-> Backup!After(s), report |-> restore.report]
  BY <1>1
<1>3. Visited = s /\ Passed' = Passed \cup {s} /\ Backup!After(s) \in {"shipping", "mail", "answer"}
  BY <1>1, <1>2, Onward DEF Visited, Backup!Sections
<1>4. RowsFit(settings)' /\ RestoreFits'
  BY <1>0, <1>2, <1>3 DEF BackupTyped, RowsFit, RestoreFits, Backup!Sections
<1>5. Restored'
  BY <1>0, <1>1, <1>2, <1>3 DEF Restored, Takes, Backup!Sections
<1> QED
  BY <1>0, <1>4, <1>5, RestoreFrame DEF BackupInv

LEMMA PlainKeeps ==
  ASSUME BackupInv, Backup!RestorePlain
  PROVE  BackupInv'
<1>0. BackupTyped /\ Restored /\ UNCHANGED <<backup, before, touched, blind, steps>>
  BY DEF BackupInv, Backup!RestorePlain
<1>1. /\ restore.at = "tax" /\ restore = [at |-> "tax", report |-> restore.report]
      /\ "tax" \in DOMAIN backup /\ settings' = [settings EXCEPT !["tax"] = backup["tax"]]
      /\ restore' = [restore EXCEPT !.at = Backup!After("tax"), !.report.restored = @ \cup {"tax"}]
  BY <1>0 DEF Backup!RestorePlain, BackupTyped, RestoreFits, Backup!Sections
<1>2. restore' = [at |-> Backup!After("tax"),
                  report |-> [restore.report EXCEPT !.restored = @ \cup {"tax"}]]
  BY <1>1
<1>3. /\ Visited = "tax" /\ Passed' = Passed \cup {"tax"} /\ "tax" \in Backup!Sections
      /\ Backup!After("tax") \in {"shipping", "mail", "answer"}
  BY <1>1, <1>2, Onward DEF Visited, Backup!Sections
<1>4. RowFits("tax", backup["tax"])
  BY <1>0, <1>1 DEF BackupTyped, BackupFits
<1>5. /\ RowsFit(settings)' /\ settings'["tax"] = backup["tax"]
      /\ \A r \in Backup!Sections \ {"tax"} : settings'[r] = settings[r]
  BY <1>0, <1>1, <1>3, <1>4, WritingFits DEF BackupTyped
<1>6. /\ restore'.report.restored = restore.report.restored \cup {"tax"}
      /\ restore'.report \in Reports
  BY <1>0, <1>2, <1>3 DEF BackupTyped, RestoreFits, Reports
<1>7. RestoreFits'
  BY <1>2, <1>3, <1>6 DEF RestoreFits, Backup!Sections
<1>8. Restored'
  BY <1>0, <1>1, <1>2, <1>3, <1>5, <1>6 DEF Restored, Takes
<1> QED
  BY <1>0, <1>5, <1>7, <1>8, RestoreFrame DEF BackupInv

LEMMA MergeKeeps ==
  ASSUME BackupInv, Backup!Merge
  PROVE  BackupInv'
<1>0. BackupTyped /\ Restored /\ UNCHANGED <<settings, backup, before, touched, steps>>
  BY DEF BackupInv, Backup!Merge
<1>1. PICK s \in Backup!SealedSections \cap DOMAIN backup : restore.at = s
  BY DEF Backup!Merge
<1> DEFINE merged == Backup!Merged(s, settings[s], backup[s])
           works == Backup!Live(s, settings[s])
<1>7. PICK live \in {works, Backup!EnvLive(s)} :
        /\ blind' = IF live = works THEN blind ELSE blind \cup {s}
        /\ restore' =
             IF Backup!KeepsOwn(live, s, merged)
               THEN [at |-> Backup!After(s), report |-> Backup!Skipped(restore.report, s)]
               ELSE [at |-> "write", section |-> s, row |-> merged,
                     report |-> IF merged.on /\ Backup!secretOf(s, merged) = Backup!NoSealed
                                  THEN [restore.report EXCEPT !.reenter = @ \cup {s}]
                                  ELSE restore.report]
  BY <1>1, Zenon DEF Backup!Merge
<1>8. /\ blind \subseteq blind' /\ (s \in blind' \/ live = works)
      /\ blind' = blind \/ \E r \in Backup!SealedSections : blind' = blind \cup {r}
  BY <1>1, <1>7
<1> HIDE DEF works
<1>2. /\ RowFits(s, merged) /\ s \in Backup!Sections /\ Visited = s /\ s \notin Passed
      /\ s # "tax" /\ s \notin {"idle", "answer", "write"}
  <2>1. s \in Backup!Sections /\ s # "tax" /\ s \notin {"idle", "answer", "write"}
    BY DEF Backup!SealedSections, Backup!Sections
  <2>2. RowFits(s, merged)
    BY <1>0, <2>1, MergedFits DEF BackupTyped, RowsFit, BackupFits
  <2>3. Visited = s /\ s \notin Passed
    BY <1>1, <2>1 DEF Visited, Passed, Backup!SealedSections
  <2> QED
    BY <2>1, <2>2, <2>3
<1>3. RowsFit(settings)' /\ restore.report \in Reports
  BY <1>0 DEF BackupTyped, RowsFit, RestoreFits
<1>4. s \notin restore.report.restored /\ (s \notin touched => settings[s] = before[s])
  BY <1>0, <1>1, <1>2 DEF Restored
<1>5. CASE Backup!KeepsOwn(live, s, merged)
  <2>1. restore' = [at |-> Backup!After(s), report |-> Backup!Skipped(restore.report, s)]
    BY <1>5, <1>7
  <2>2. /\ restore'.report \in Reports /\ restore'.report.restored = restore.report.restored
        /\ restore'.at = Backup!After(s) /\ restore' = [at |-> restore'.at, report |-> restore'.report]
    BY <1>3, <2>1 DEF Backup!Skipped, Reports
  <2>3. Passed' = Passed \cup {s} /\ restore'.at \in {"shipping", "mail", "answer"}
    BY <1>2, <2>2, Onward
  <2>4. RestoreFits'
    BY <2>2, <2>3 DEF RestoreFits, Backup!Sections
  <2>5. Restored'
    BY <1>0, <1>1, <1>2, <1>8, <2>2, <2>3 DEF Restored, Takes
  <2> QED
    BY <1>0, <1>3, <1>8, <2>4, <2>5, RestoreFrame DEF BackupInv
<1>6. CASE ~Backup!KeepsOwn(live, s, merged)
  <2>1. restore' = [at |-> "write", section |-> s, row |-> merged,
                    report |-> IF merged.on /\ Backup!secretOf(s, merged) = Backup!NoSealed
                                 THEN [restore.report EXCEPT !.reenter = @ \cup {s}] ELSE restore.report]
    BY <1>6, <1>7
  <2> HIDE DEF merged
  <2>2. /\ restore'.at = "write" /\ restore'.section = s /\ restore'.row = merged
        /\ restore'.report \in Reports /\ restore'.report.restored = restore.report.restored
        /\ restore' = [at |-> "write", section |-> restore'.section, row |-> restore'.row,
                       report |-> restore'.report]
    BY <1>3, <2>1 DEF Reports
  <2>3. Passed' = Passed /\ Visited' = s
    BY <1>2, <2>2 DEF Passed, Visited
  <2>4. RestoreFits'
    BY <1>0, <1>2, <2>2 DEF RestoreFits
  <2>5. s \notin touched =>
          /\ merged = Backup!Merged(s, before'[s], backup'[s])
          /\ s \in blind' \/ ~Backup!KeepsOwn(Backup!Live(s, before'[s]), s, merged)
    BY <1>0, <1>2, <1>4, <1>6, <1>8 DEF merged, works
  <2>6. Restored'
    BY <1>0, <1>1, <1>2, <1>8, <2>2, <2>3, <2>5 DEF Restored, Takes
  <2> QED
    BY <1>0, <1>3, <1>8, <2>4, <2>6, RestoreFrame DEF BackupInv
<1> QED
  BY <1>5, <1>6

LEMMA ServiceRestored ==
  ASSUME BackupInv, Backup!RestoreService
  PROVE  BackupInv'
<1>0. BackupTyped /\ Restored /\ UNCHANGED <<backup, before, touched, blind, steps>>
  BY DEF BackupInv, Backup!RestoreService
<1>1. PICK s \in Backup!SealedSections \cap DOMAIN backup :
        /\ restore.at = "write" /\ restore.section = s /\ RowFits(s, restore.row)
        /\ settings' = [settings EXCEPT ![s] = restore.row]
        /\ restore' = [at |-> Backup!After(s),
                       report |-> [restore.report EXCEPT !.restored = @ \cup {s}]]
  BY <1>0 DEF Backup!RestoreService, BackupTyped, RestoreFits, Backup!Sections
<1>2. s \in Backup!Sections /\ Visited = s /\ s # "tax"
  BY <1>1 DEF Backup!SealedSections, Backup!Sections, Visited
<1>3. /\ RowsFit(settings)' /\ settings'[s] = restore.row
      /\ \A r \in Backup!Sections \ {s} : settings'[r] = settings[r]
  BY <1>0, <1>1, <1>2, WritingFits DEF BackupTyped
<1>4. /\ restore'.report.restored = restore.report.restored \cup {s}
      /\ restore'.report \in Reports /\ restore'.at = Backup!After(s)
      /\ restore' = [at |-> restore'.at, report |-> restore'.report]
  BY <1>0, <1>1, <1>2 DEF BackupTyped, RestoreFits, Reports
<1>5. Passed' = Passed \cup {s} /\ restore'.at \in {"shipping", "mail", "answer"}
  BY <1>2, <1>4, Onward
<1>6. RestoreFits'
  BY <1>4, <1>5 DEF RestoreFits, Backup!Sections
<1>7. s \notin touched => Takes(s, restore.row)
  BY <1>0, <1>1 DEF Restored
<1>8. Restored'
  <2>1. restore'.report.restored \subseteq Passed' \cap DOMAIN backup'
    BY <1>0, <1>1, <1>4, <1>5 DEF Restored
  <2>2. ASSUME NEW r \in Backup!Sections \ touched
        PROVE  IF r \in restore'.report.restored THEN Takes(r, settings[r])' ELSE settings'[r] = before'[r]
    <3>1. CASE r = s
      BY <1>0, <1>3, <1>4, <1>7, <2>2, <3>1 DEF Takes
    <3>2. CASE r # s
      BY <1>0, <1>1, <1>3, <1>4, <2>2, <3>2 DEF Restored, Takes
    <3> QED
      BY <3>1, <3>2
  <2> QED
    BY <1>0, <1>5, <2>1, <2>2 DEF Restored
<1> QED
  BY <1>0, <1>3, <1>6, <1>8, RestoreFrame DEF BackupInv

LEMMA StepBackup == BackupInv /\ [Backup!Next]_(Backup!vars) => BackupInv'
<1> SUFFICES ASSUME BackupInv, [Backup!Next]_(Backup!vars)
             PROVE  BackupInv'
  OBVIOUS
<1>1. CASE UNCHANGED Backup!vars
  <2>1. UNCHANGED <<settings, backup, restore, before, touched, blind, steps>>
    BY <1>1 DEF Backup!vars
  <2>2. RowsFit(settings)' /\ RestoreFits'
    BY <2>1 DEF BackupInv, BackupTyped, RowsFit, RestoreFits
  <2>3. BackupTyped' /\ Restored'
    BY <2>1, <2>2, RestoreFrame DEF BackupInv, Restored, Takes, Passed, Visited
  <2> QED
    BY <2>3 DEF BackupInv
<1>2. CASE Backup!Next
  BY <1>2, SavingKeeps, BesideKeeps, EdgeKeeps, AbsentKeeps, PlainKeeps, MergeKeeps, ServiceRestored
     DEF Backup!Next
<1> QED
  BY <1>1, <1>2

LEMMA RestoreStays == Backup!Spec => []Backup!RestoredHonestly
<1>1. BackupInv => Backup!RestoredHonestly
  <2> SUFFICES ASSUME BackupInv
               PROVE  Backup!RestoredHonestly
    OBVIOUS
  <2>0. BackupTyped /\ Restored
    BY DEF BackupInv
  <2>1. Backup!TypeOK
    BY <2>0 DEF BackupTyped, RowsFit, BackupFits, RestoreFits, StepsFit, Reports, Backup!TypeOK
  <2>2. ASSUME NEW s \in Backup!Sections, Backup!Answering(s)
        PROVE  /\ RowFits(s, backup[s]) /\ Blank(s, backup[s])
               /\ before[s] = Backup!Unset \/ RowFits(s, before[s])
               /\ IF s \in restore.report.restored THEN Takes(s, settings[s])
                                                   ELSE settings[s] = before[s]
    BY <2>0, <2>2 DEF Backup!Answering, BackupTyped, BackupFits, RowsFit, Restored
  <2>3. Backup!WorkingKept
    <3> SUFFICES ASSUME NEW s \in Backup!SealedSections \ blind, Backup!Answering(s),
                        Backup!Live(s, before[s]), backup[s].on
                 PROVE  Backup!Live(s, settings[s])
      BY DEF Backup!WorkingKept
    <3>1. s \in Backup!Sections /\ s # "tax"
      BY DEF Backup!SealedSections, Backup!Sections
    <3> QED
      BY <2>2, <3>1, MergedWorks DEF Takes
  <2>4. Backup!ReportTrue
    <3> SUFFICES ASSUME NEW s \in Backup!Sections, Backup!Answering(s), s \in restore.report.restored
                 PROVE  Backup!exportSection(s, settings[s]) = backup[s]
      BY <2>2 DEF Backup!ReportTrue
    <3>1. CASE s = "tax"
      BY <2>2, <3>1 DEF Takes, Backup!exportSection
    <3>2. CASE s \in Backup!SealedSections
      BY <2>2, <3>2, MergedFits DEF Takes, Backup!SealedSections
    <3> QED
      BY <3>1, <3>2 DEF Backup!SealedSections, Backup!Sections
  <2> QED
    BY <2>1, <2>3, <2>4 DEF Backup!RestoredHonestly
<1> QED
  BY <1>1, InitBackup, StepBackup, PTL DEF Backup!Spec

\* A restore keeps the services that worked, and its report is true of the rows
\* (settings-backup.ts:206-228 and :274-313), unless a read of it fails; what customers can order is on offer
\* (packages/shared/src/catalog-availability.ts:88-98).
THEOREM SettingsStayKept == Backup!Spec /\ Catalog!Spec => []SettingsKept
  BY RestoreStays, OfferStays, PTL DEF SettingsKept

-----------------------------------------------------------------------------
(* QuoteConfig: any offers and any models that the shop may have.          *)

\* The least and the greatest number of a set of them: what the fold of an induction
\* would give follows from the well-foundedness of < on the naturals.
LEMMA LeastIn ==
  ASSUME NEW S \in SUBSET Nat, S # {}
  PROVE  Config!Least(S) \in S
<1>1. PICK x \in S : \A y \in S : ~(<<y, x>> \in OpToRel(<, Nat))
  BY WFMin, NatLessThanWellFounded
<1>2. \A y \in S : ~(y < x)
  BY <1>1 DEF OpToRel
<1>3. \A y \in S : x <= y
  BY <1>2
<1> QED
  BY <1>3 DEF Config!Least

LEMMA GreatestIn ==
  ASSUME NEW n \in Nat, NEW S \in SUBSET (1..n), S # {}
  PROVE  Config!Greatest(S) \in S
<1> DEFINE T == {n - x : x \in S}
<1>1. T \in SUBSET Nat
  OBVIOUS
<1>2. T # {}
  <2>1. PICK x \in S : TRUE
    OBVIOUS
  <2>2. n - x \in T
    BY <2>1
  <2> QED
    BY <2>2
<1>3. PICK t \in T : \A u \in T : ~(<<u, t>> \in OpToRel(<, Nat))
  <2> HIDE DEF T
  <2> QED
    BY <1>1, <1>2, WFMin, NatLessThanWellFounded
<1>4. \A u \in T : ~(u < t)
  <2> HIDE DEF T
  <2> QED
    BY <1>1, <1>3 DEF OpToRel
<1>5. PICK x \in S : t = n - x
  OBVIOUS
<1>6. ASSUME NEW y \in S
      PROVE  x >= y
  <2>1. n - y \in T /\ ~(n - y < n - x)
    BY <1>4, <1>5
  <2>2. x \in Int /\ y \in Int
    OBVIOUS
  <2> QED
    BY <2>1, <2>2
<1> QED
  BY <1>6 DEF Config!Greatest

\* A choice, and what may be set of it.
Configs == [material : Materials, colour : Nat, layer : Nat, supports : {"auto", "off", "always"}]

PatchFits(p) ==
  /\ "material" \in DOMAIN p => p["material"] \in Materials
  /\ "colour" \in DOMAIN p => p["colour"] \in Nat
  /\ "layer" \in DOMAIN p => p["layer"] \in Nat
  /\ "supports" \in DOMAIN p => p["supports"] \in {"auto", "off", "always"}

LEMMA OverFits ==
  ASSUME NEW c \in Configs, NEW p, PatchFits(p)
  PROVE  /\ Config!Over(c, p) \in Configs
         /\ \A k \in ConfigKeys : Config!Over(c, p)[k] = IF k \in DOMAIN p THEN p[k] ELSE c[k]
<1>1. DOMAIN c = ConfigKeys
  BY DEF Configs, ConfigKeys
<1> DEFINE o == Config!Over(c, p)
<1>2. o = [k \in ConfigKeys |-> IF k \in DOMAIN p THEN p[k] ELSE c[k]]
  BY <1>1 DEF Config!Over
<1>3. \A k \in ConfigKeys : o[k] = IF k \in DOMAIN p THEN p[k] ELSE c[k]
  BY <1>2
<1>4. /\ c["material"] \in Materials /\ c["colour"] \in Nat /\ c["layer"] \in Nat
      /\ c["supports"] \in {"auto", "off", "always"}
  BY DEF Configs
<1>5. /\ o["material"] \in Materials /\ o["colour"] \in Nat /\ o["layer"] \in Nat
      /\ o["supports"] \in {"auto", "off", "always"}
  BY <1>3, <1>4 DEF PatchFits, ConfigKeys
<1>6. o = [material |-> o["material"], colour |-> o["colour"], layer |-> o["layer"],
           supports |-> o["supports"]]
  BY <1>2 DEF ConfigKeys
<1> HIDE DEF o
<1>7. o \in Configs
  BY <1>5, <1>6 DEF Configs
<1> QED
  BY <1>3, <1>7 DEF o

\* What the model has locked stays.
Locks(c) == \A k \in DOMAIN import.default \cap import.locked : c[k] = import.default[k]

LEMMA UpdateFits ==
  ASSUME import \in Imports, NEW c \in Configs, NEW p, PatchFits(p)
  PROVE  /\ Config!updateConfig(c, p) \in Configs
         /\ \A k \in ConfigKeys : Config!updateConfig(c, p)[k] =
              IF k \in DOMAIN p \ import.locked THEN p[k] ELSE c[k]
         /\ Locks(c) => Locks(Config!updateConfig(c, p))
<1> DEFINE q == Config!filterUnlocked(p)
<1>1. DOMAIN q = DOMAIN p \ import.locked /\ \A k \in DOMAIN q : q[k] = p[k]
  BY DEF Config!filterUnlocked, Config!Without
<1>2. PatchFits(q)
  BY <1>1 DEF PatchFits
<1>3. Config!updateConfig(c, p) = Config!Over(c, q)
  BY DEF Config!updateConfig
<1> HIDE DEF q
<1>4. /\ Config!Over(c, q) \in Configs
      /\ \A k \in ConfigKeys : Config!Over(c, q)[k] = IF k \in DOMAIN q THEN q[k] ELSE c[k]
  BY <1>2, OverFits
<1>5. DOMAIN import.default \subseteq ConfigKeys
  BY ConfigAssumption
<1> QED
  BY <1>1, <1>3, <1>4, <1>5 DEF Locks

-----------------------------------------------------------------------------
Parts == {"material", "layer", "colour"}

ConfigTyped ==
  /\ shop \in Shops /\ seen \in Shops /\ import \in Imports
  /\ config \in Configs
  /\ due \subseteq Parts
  /\ commit = Config!Nothing \/ commit \in [cat : Shops, config : Configs]
  /\ changes \in 0..MaxChanges

\* An effect that is not due has nothing to set, or it has set it since that render.
Effected ==
  /\ commit = Config!Nothing => due = {}
  /\ due # {} => config = commit.config
  /\ commit # Config!Nothing =>
       \A e \in Parts \ due : DOMAIN Config!Patch(e) = {} \/ config[e] # commit.config[e]

\* While a request is under way the card shows what it carries.
Carried == sent # Config!Nothing => sent = config /\ Config!Settled

PanelInv == ConfigTyped /\ Effected /\ Locks(config) /\ Carried

\* An effect sets its own part, to something else than it found, and never in vain:
\* where it has nothing to set, the offer of the render has what the choice says.
LEMMA PatchSets ==
  ASSUME commit \in [cat : Shops, config : Configs], NEW e \in Parts
  PROVE  /\ PatchFits(Config!Patch(e))
         /\ DOMAIN Config!Patch(e) \subseteq {e}
         /\ e \in DOMAIN Config!Patch(e) => Config!Patch(e)[e] # commit.config[e]
         /\ DOMAIN Config!Patch(e) = {} =>
              /\ e = "material" /\ commit.cat.on # {} => commit.config.material \in commit.cat.on
              /\ e = "layer" => commit.config.layer \in commit.cat.layers
              /\ e = "colour" /\ commit.cat.colours[commit.config.material] # {} =>
                   commit.config.colour \in commit.cat.colours[commit.config.material]
<1> DEFINE cat == commit.cat
           c == commit.config
<1>1. /\ cat.on \subseteq Materials /\ cat.colours \in [Materials -> SUBSET Nat]
      /\ cat.layers \in SUBSET (1..TopLayer) /\ cat.layers # {}
      /\ c \in Configs
  BY ConfigAssumption
<1>2. c.material \in Materials /\ c.colour \in Nat /\ c.layer \in Nat
  BY <1>1 DEF Configs
<1>3. CASE e = "material"
  <2>1. CASE cat.on # {} /\ c.material \notin cat.on
    <3>1. Config!Patch(e) = [material |-> Config!Least(cat.on)]
      BY <1>3, <2>1 DEF Config!Patch
    <3>2. Config!Least(cat.on) \in cat.on
      BY <1>1, <2>1, LeastIn, ConfigAssumption
    <3> QED
      BY <1>1, <1>3, <2>1, <3>1, <3>2 DEF PatchFits
  <2>2. CASE ~(cat.on # {} /\ c.material \notin cat.on)
    <3>1. Config!Patch(e) = <<>> /\ DOMAIN Config!Patch(e) = {}
      BY <1>3, <2>2 DEF Config!Patch
    <3> QED
      BY <1>3, <2>2, <3>1 DEF PatchFits
  <2> QED
    BY <2>1, <2>2
<1>4. CASE e = "layer"
  <2>1. CASE c.layer \notin cat.layers
    <3>1. Config!Patch(e) = [layer |-> Config!defaultLayerHeight(cat.layers)]
      BY <1>4, <2>1 DEF Config!Patch
    <3>2. Config!defaultLayerHeight(cat.layers) \in cat.layers
      BY <1>1, GreatestIn, ConfigAssumption DEF Config!defaultLayerHeight
    <3>3. Config!defaultLayerHeight(cat.layers) \in Nat
      BY <1>1, <3>2, ConfigAssumption
    <3> QED
      BY <1>4, <2>1, <3>1, <3>2, <3>3 DEF PatchFits
  <2>2. CASE c.layer \in cat.layers
    <3>1. Config!Patch(e) = <<>> /\ DOMAIN Config!Patch(e) = {}
      BY <1>4, <2>2 DEF Config!Patch
    <3> QED
      BY <1>4, <2>2, <3>1 DEF PatchFits
  <2> QED
    BY <2>1, <2>2
<1>5. CASE e = "colour"
  <2> DEFINE cols == cat.colours[c.material]
  <2>0. cols \in SUBSET Nat
    BY <1>1, <1>2
  <2>1. CASE cols # {} /\ c.colour \notin cols
    <3>1. Config!Patch(e) = [colour |-> Config!Least(cols)]
      BY <1>5, <2>1 DEF Config!Patch
    <3>2. Config!Least(cols) \in cols
      BY <2>0, <2>1, LeastIn
    <3>3. Config!Least(cols) \in Nat /\ Config!Least(cols) # c.colour
      BY <2>0, <2>1, <3>2
    <3>4. PICK v \in Nat : Config!Patch(e) = [colour |-> v] /\ v # c.colour
      BY <3>1, <3>3
    <3>5. DOMAIN Config!Patch(e) = {"colour"} /\ Config!Patch(e)["colour"] = v
      BY <3>4
    <3> QED
      BY <1>5, <3>4, <3>5 DEF PatchFits
  <2>2. CASE ~(cols # {} /\ c.colour \notin cols)
    <3>1. Config!Patch(e) = <<>> /\ DOMAIN Config!Patch(e) = {}
      BY <1>5, <2>2 DEF Config!Patch
    <3> QED
      BY <1>5, <2>2, <3>1 DEF PatchFits
  <2> QED
    BY <2>1, <2>2
<1> QED
  BY <1>3, <1>4, <1>5 DEF Parts

LEMMA InitConfig == Config!Init => PanelInv
<1> SUFFICES ASSUME Config!Init
             PROVE  PanelInv
  OBVIOUS
<1>1. /\ shop \in Shops /\ seen = shop /\ import \in Imports
      /\ config = Config!Over(Config!DefaultConfig, import.default)
      /\ commit = Config!Nothing /\ due = {} /\ sent = Config!Nothing /\ changes = 0
  BY DEF Config!Init
<1>2. Config!DefaultConfig \in Configs /\ PatchFits(import.default)
  BY <1>1, ConfigAssumption DEF Config!DefaultConfig, Configs, PatchFits
<1>3. config \in Configs /\ Locks(config)
  BY <1>1, <1>2, OverFits, ConfigAssumption DEF Locks
<1>4. changes \in 0..MaxChanges
  BY <1>1, ConfigAssumption
<1> QED
  BY <1>1, <1>3, <1>4 DEF PanelInv, ConfigTyped, Effected, Carried

\* A render takes up what there is; what it does not make due was settled before.
LEMMA RenderKeeps ==
  ASSUME PanelInv, Config!Render
  PROVE  PanelInv'
<1>1. /\ due = {} /\ commit # Config!View /\ commit' = [cat |-> seen, config |-> config]
      /\ due' = {e \in Parts : commit = Config!Nothing
                                 \/ Config!Deps(e, commit) # Config!Deps(e, Config!View)}
      /\ UNCHANGED <<shop, seen, import, config, sent, changes>>
  BY DEF Config!Render, Config!View, Parts
<1>2. /\ ConfigTyped' /\ commit' # Config!Nothing
  <2>1. commit' \in [cat : Shops, config : Configs] /\ due' \subseteq Parts
    BY <1>1 DEF PanelInv, ConfigTyped
  <2>2. ConfigTyped'
    BY <1>1, <2>1 DEF PanelInv, ConfigTyped
  <2>3. commit' # Config!Nothing
    <3>1. DOMAIN commit' = {"cat", "config"} /\ DOMAIN Config!Nothing = {"nothing"}
      BY <1>1 DEF Config!Nothing
    <3> QED
      BY <3>1
  <2> QED
    BY <2>2, <2>3
<1>3. ASSUME NEW e \in Parts \ due'
      PROVE  DOMAIN Config!Patch(e)' = {}
  <2>1. commit # Config!Nothing /\ Config!Deps(e, commit) = Config!Deps(e, commit')
    BY <1>1, <1>3 DEF Config!View
  <2>2. commit \in [cat : Shops, config : Configs]
    BY <2>1 DEF PanelInv, ConfigTyped
  <2>3. config = commit'.config /\ commit'.cat = seen
    BY <1>1
  <2>4. DOMAIN Config!Patch(e) = {} \/ commit'.config[e] # commit.config[e]
    BY <1>1, <2>1, <2>3 DEF PanelInv, Effected
  <2>5. CASE e = "material"
    <3>1. commit.cat = commit'.cat /\ commit.config.material = commit'.config.material
      BY <2>1, <2>5 DEF Config!Deps
    <3> QED
      BY <2>4, <2>5, <3>1 DEF Config!Patch
  <2>6. CASE e = "layer"
    <3>1. commit.cat = commit'.cat /\ commit.config.layer = commit'.config.layer
      BY <2>1, <2>6 DEF Config!Deps
    <3> QED
      BY <2>4, <2>6, <3>1 DEF Config!Patch
  <2>7. CASE e = "colour"
    <3>1. /\ commit.cat = commit'.cat /\ commit.config.material = commit'.config.material
          /\ commit.config.colour = commit'.config.colour
      BY <2>1, <2>7 DEF Config!Deps
    <3> QED
      BY <2>4, <2>7, <3>1 DEF Config!Patch
  <2> QED
    BY <2>5, <2>6, <2>7 DEF Parts
<1>4. Effected'
  BY <1>1, <1>2, <1>3 DEF Effected
<1>5. Carried'
  BY <1>1 DEF PanelInv, Carried, Config!Settled
<1>6. Locks(config)'
  BY <1>1 DEF PanelInv, Locks
<1> QED
  BY <1>2, <1>4, <1>5, <1>6 DEF PanelInv

\* The three effects of a render, one after the other.
LEMMA EffectsKeep ==
  ASSUME PanelInv, Config!Effects
  PROVE  PanelInv'
<1> DEFINE does(c, e) == IF e \in due THEN Config!updateConfig(c, Config!Patch(e)) ELSE c
           c1 == does(config, "material")
           c2 == does(c1, "layer")
           c3 == does(c2, "colour")
<1>1. /\ due # {} /\ due' = {} /\ config' = c3
      /\ UNCHANGED <<shop, seen, import, commit, sent, changes>>
  BY DEF Config!Effects
<1>2. /\ import \in Imports /\ commit \in [cat : Shops, config : Configs]
      /\ commit # Config!Nothing /\ config = commit.config /\ config \in Configs /\ Locks(config)
  BY <1>1 DEF PanelInv, ConfigTyped, Effected
<1>3. ASSUME NEW c \in Configs, Locks(c), NEW e \in Parts
      PROVE  /\ does(c, e) \in Configs /\ Locks(does(c, e))
             /\ \A k \in ConfigKeys \ {e} : does(c, e)[k] = c[k]
             /\ e \in due /\ DOMAIN Config!Patch(e) # {} => does(c, e)[e] # commit.config[e]
             /\ ~(e \in due /\ DOMAIN Config!Patch(e) # {}) => does(c, e)[e] = c[e]
  <2>0. /\ PatchFits(Config!Patch(e)) /\ DOMAIN Config!Patch(e) \subseteq {e}
        /\ e \in DOMAIN Config!Patch(e) => Config!Patch(e)[e] # commit.config[e]
        /\ e \in ConfigKeys /\ e \notin import.locked
    BY <1>2, PatchSets, ConfigAssumption DEF Parts, ConfigKeys
  <2>1. CASE e \in due
    BY <1>2, <1>3, <2>0, <2>1, UpdateFits
  <2>2. CASE e \notin due
    BY <1>3, <2>2
  <2> QED
    BY <2>1, <2>2
<1> HIDE DEF does
<1> DEFINE sets(e) == e \in due /\ DOMAIN Config!Patch(e) # {}
<1>5. /\ c1 \in Configs /\ Locks(c1) /\ c1["layer"] = config["layer"] /\ c1["colour"] = config["colour"]
      /\ sets("material") => c1["material"] # commit.config["material"]
  <2>1. "material" \in Parts /\ "layer" \in ConfigKeys \ {"material"} /\ "colour" \in ConfigKeys \ {"material"}
    BY DEF Parts, ConfigKeys
  <2> QED
    BY <1>2, <1>3, <2>1
<1> HIDE DEF c1
<1>6. /\ c2 \in Configs /\ Locks(c2) /\ c2["material"] = c1["material"] /\ c2["colour"] = c1["colour"]
      /\ sets("layer") => c2["layer"] # commit.config["layer"]
  <2>1. "layer" \in Parts /\ "material" \in ConfigKeys \ {"layer"} /\ "colour" \in ConfigKeys \ {"layer"}
    BY DEF Parts, ConfigKeys
  <2> QED
    BY <1>3, <1>5, <2>1
<1> HIDE DEF c2
<1>7. /\ c3 \in Configs /\ Locks(c3) /\ c3["material"] = c2["material"] /\ c3["layer"] = c2["layer"]
      /\ sets("colour") => c3["colour"] # commit.config["colour"]
  <2>1. "colour" \in Parts /\ "material" \in ConfigKeys \ {"colour"} /\ "layer" \in ConfigKeys \ {"colour"}
    BY DEF Parts, ConfigKeys
  <2> QED
    BY <1>3, <1>6, <2>1
<1> HIDE DEF c3
<1>9. \A e \in Parts : e \in due => DOMAIN Config!Patch(e) = {} \/ c3[e] # commit.config[e]
  BY <1>5, <1>6, <1>7 DEF Parts
<1>10. \A e \in Parts : e \notin due => DOMAIN Config!Patch(e) = {}
  BY <1>1, <1>2 DEF PanelInv, Effected
<1>11. \A e \in Parts : Config!Patch(e)' = Config!Patch(e)
  BY <1>1 DEF Config!Patch
<1>12. Effected'
  BY <1>1, <1>2, <1>9, <1>10, <1>11 DEF Effected
<1>13. ConfigTyped' /\ Locks(config)'
  BY <1>1, <1>7 DEF PanelInv, ConfigTyped, Locks
<1>14. Carried'
  BY <1>1 DEF PanelInv, Carried, Config!Settled
<1> QED
  BY <1>12, <1>13, <1>14 DEF PanelInv

\* A pick on a card at rest.
LEMMA ChooseKeeps ==
  ASSUME PanelInv, Config!Choose
  PROVE  PanelInv'
<1>1. PICK p \in Config!Choices : config' = Config!updateConfig(config, p)
  BY DEF Config!Choose
<1>2. /\ Config!Settled /\ sent = Config!Nothing
      /\ UNCHANGED <<shop, seen, import, commit, due, sent, changes>>
  BY DEF Config!Choose
<1>3. /\ ConfigTyped /\ Locks(config) /\ commit = [cat |-> seen, config |-> config] /\ due = {}
      /\ seen.on \subseteq Materials /\ seen.colours \in [Materials -> SUBSET Nat]
      /\ seen.layers \subseteq Nat
  BY <1>2, ConfigAssumption DEF PanelInv, ConfigTyped, Config!Settled, Config!View
<1>4. PatchFits(p)
  <2>1. ASSUME NEW m \in seen.on
        PROVE  PatchFits(Config!chooseMaterial(m))
    <3>1. m \in Materials /\ seen.colours[m] \in SUBSET Nat
      BY <1>3
    <3>2. CASE Config!chooseMaterial(m) = [material |-> m]
      BY <3>1, <3>2 DEF PatchFits
    <3>3. CASE seen.colours[m] # {} /\
               Config!chooseMaterial(m) = [material |-> m, colour |-> Config!Least(seen.colours[m])]
      <4>1. Config!Least(seen.colours[m]) \in Nat
        BY <3>1, <3>3, LeastIn
      <4> QED
        BY <3>1, <3>3, <4>1 DEF PatchFits
    <3> QED
      BY <3>2, <3>3 DEF Config!chooseMaterial
  <2>2. CASE p \in {Config!chooseMaterial(m) : m \in seen.on}
    BY <2>1, <2>2
  <2>3. CASE p \in {[colour |-> c] : c \in seen.colours[config.material]}
    <3>1. config.material \in Materials
      BY <1>3 DEF ConfigTyped, Configs
    <3>2. PICK c \in Nat : p = [colour |-> c]
      BY <1>3, <2>3, <3>1
    <3> QED
      BY <3>2 DEF PatchFits
  <2>4. CASE p \in {[layer |-> l] : l \in IF Config!Cardinality(seen.layers) > 1 THEN seen.layers ELSE {}}
    <3>1. PICK l \in Nat : p = [layer |-> l]
      BY <1>3, <2>4
    <3> QED
      BY <3>1 DEF PatchFits
  <2>5. CASE p \in {[supports |-> x] : x \in IF "supports" \in import.locked THEN {config.supports}
                                                                         ELSE Config!Supports}
    <3>1. config.supports \in {"auto", "off", "always"}
      BY <1>3 DEF ConfigTyped, Configs
    <3>2. PICK x \in {"auto", "off", "always"} : p = [supports |-> x]
      BY <2>5, <3>1 DEF Config!Supports
    <3> QED
      BY <3>2 DEF PatchFits
  <2>6. \/ p \in {Config!chooseMaterial(m) : m \in seen.on}
        \/ p \in {[colour |-> c] : c \in seen.colours[config.material]}
        \/ p \in {[layer |-> l] : l \in IF Config!Cardinality(seen.layers) > 1 THEN seen.layers ELSE {}}
        \/ p \in {[supports |-> x] : x \in IF "supports" \in import.locked THEN {config.supports}
                                                                        ELSE Config!Supports}
    BY <1>1 DEF Config!Choices
  <2> QED
    BY <2>2, <2>3, <2>4, <2>5, <2>6
<1>5. config' \in Configs /\ Locks(config')
  BY <1>1, <1>3, <1>4, UpdateFits DEF ConfigTyped
<1>6. ConfigTyped' /\ Locks(config)' /\ Carried'
  BY <1>2, <1>3, <1>5 DEF ConfigTyped, Locks, Carried
<1>7. Effected'
  <2>1. \A e \in Parts : DOMAIN Config!Patch(e) = {}
    BY <1>3 DEF PanelInv, Effected, Config!Nothing
  <2>2. \A e \in Parts : Config!Patch(e)' = Config!Patch(e)
    BY <1>2 DEF Config!Patch
  <2> QED
    BY <1>2, <1>3, <2>1, <2>2 DEF Effected
<1> QED
  BY <1>6, <1>7 DEF PanelInv

\* The shop, the page around the card, and the order leave the choice alone.
LEMMA AroundKeeps ==
  ASSUME PanelInv, Config!AdminSaves \/ Config!Refresh \/ Config!Submit \/ Config!Order
  PROVE  PanelInv'
<1>0. ConfigTyped /\ UNCHANGED <<import, config, commit, due>>
  BY DEF PanelInv, Config!AdminSaves, Config!Refresh, Config!Submit, Config!Order
<1>1. shop' \in Shops /\ seen' \in Shops
  BY <1>0 DEF ConfigTyped, Config!AdminSaves, Config!Refresh, Config!Submit, Config!Order
<1>2. changes' \in 0..MaxChanges
  <2>1. CASE Config!AdminSaves
    BY <1>0, <2>1, ConfigAssumption DEF ConfigTyped, Config!AdminSaves
  <2>2. CASE changes' = changes
    BY <1>0, <2>2 DEF ConfigTyped
  <2> QED
    BY <2>1, <2>2 DEF Config!Refresh, Config!Submit, Config!Order
<1>3. ConfigTyped' /\ Locks(config)'
  BY <1>0, <1>1, <1>2 DEF PanelInv, ConfigTyped, Locks
<1>4. Effected'
  <2>1. \A e \in Parts : Config!Patch(e)' = Config!Patch(e)
    BY <1>0 DEF Config!Patch
  <2> QED
    BY <1>0, <2>1 DEF PanelInv, Effected
<1>5. Carried'
  BY <1>0 DEF PanelInv, Carried, Config!Settled, Config!View, Config!AdminSaves, Config!Refresh,
              Config!Submit, Config!Order
<1> QED
  BY <1>3, <1>4, <1>5 DEF PanelInv

LEMMA StepConfig == PanelInv /\ [Config!Next]_(Config!vars) => PanelInv'
<1> SUFFICES ASSUME PanelInv, [Config!Next]_(Config!vars)
             PROVE  PanelInv'
  OBVIOUS
<1>1. CASE UNCHANGED Config!vars
  <2>1. \A e \in Parts : Config!Patch(e)' = Config!Patch(e)
    BY <1>1 DEF Config!vars, Config!Patch
  <2>2. ConfigTyped' /\ Effected'
    BY <1>1, <2>1 DEF Config!vars, PanelInv, ConfigTyped, Effected
  <2>3. Locks(config)' /\ Carried'
    BY <1>1 DEF Config!vars, PanelInv, Locks, Carried, Config!Settled, Config!View
  <2> QED
    BY <2>2, <2>3 DEF PanelInv
<1>2. CASE Config!Next
  BY <1>2, RenderKeeps, EffectsKeep, ChooseKeeps, AroundKeeps DEF Config!Next
<1> QED
  BY <1>1, <1>2

\* What the server makes of a choice that keeps the locks is that choice.
LEMMA LocksKept ==
  ASSUME PanelInv, sent # Config!Nothing
  PROVE  Config!normalizeModelConfigLocks(sent) = config
<1> DEFINE keys == {k \in DOMAIN import.default \cap import.locked :
                      k = "layer" => import.default.layer \in shop.layers}
           p == [k \in keys |-> import.default[k]]
<1>1. sent = config /\ config \in Configs /\ Locks(config)
  BY DEF PanelInv, Carried, ConfigTyped
<1>2. Config!normalizeModelConfigLocks(sent) = Config!Over(config, p)
  BY <1>1 DEF Config!normalizeModelConfigLocks
<1>3. \A k \in DOMAIN p : p[k] = config[k]
  BY <1>1 DEF Locks
<1> HIDE DEF p
<1>4. Config!Over(config, p) = [k \in DOMAIN config |-> config[k]]
  BY <1>3 DEF Config!Over
<1>5. config = [k \in DOMAIN config |-> config[k]]
  BY <1>1 DEF Configs
<1> QED
  BY <1>2, <1>4, <1>5

\* A card that has come to rest shows a choice that can be ordered from the offer it
\* was rendered with, and what is ordered is that choice (settings-panel.tsx:97-116,
\* quotations/route.ts:110-113).
THEOREM ChosenStaysOrdered == Config!Spec => ChosenIsOrdered
<1>1. PanelInv => Config!TypeOK /\ Config!RestsOrderable
  <2> SUFFICES ASSUME PanelInv
               PROVE  Config!TypeOK /\ Config!RestsOrderable
    OBVIOUS
  <2>1. Config!TypeOK
    <3>1. config \in [material : Nat, colour : Nat, layer : Nat, supports : Config!Supports]
      BY ConfigAssumption DEF PanelInv, ConfigTyped, Configs, Config!Supports
    <3> QED
      BY <3>1 DEF PanelInv, ConfigTyped, Config!TypeOK, Parts
  <2>2. ASSUME Config!Settled, Config!Orderable(seen)
        PROVE  Config!assertConfigAvailable(seen, config)
    <3>1. commit = [cat |-> seen, config |-> config] /\ due = {}
      BY <2>2 DEF Config!Settled, Config!View
    <3>2. commit # Config!Nothing
      <4>1. DOMAIN commit = {"cat", "config"} /\ DOMAIN Config!Nothing = {"nothing"}
        BY <3>1 DEF Config!Nothing
      <4> QED
        BY <4>1
    <3>3. commit.cat = seen /\ commit.config = config /\ commit \in [cat : Shops, config : Configs]
      BY <3>1 DEF PanelInv, ConfigTyped
    <3>4. \A e \in Parts : DOMAIN Config!Patch(e) = {}
      BY <3>1, <3>2, <3>3 DEF PanelInv, Effected
    <3>5. seen.on # {} => config.material \in seen.on
      BY <3>3, <3>4, PatchSets DEF Parts
    <3>6. config.layer \in seen.layers
      BY <3>3, <3>4, PatchSets DEF Parts
    <3>7. seen.colours[config.material] # {} => config.colour \in seen.colours[config.material]
      BY <3>3, <3>4, PatchSets DEF Parts
    <3> QED
      BY <2>2, <3>5, <3>6, <3>7 DEF Config!Orderable, Config!assertConfigAvailable
  <2> QED
    BY <2>1, <2>2 DEF Config!RestsOrderable
<1>2. PanelInv /\ [Config!Next]_(Config!vars) => [taken' # taken => taken' = config]_(Config!vars)
  <2> SUFFICES ASSUME PanelInv, Config!Next, taken' # taken
               PROVE  taken' = config
    OBVIOUS
  <2>1. Config!Order
    BY DEF Config!Next, Config!Render, Config!Effects, Config!Choose, Config!AdminSaves, Config!Refresh,
           Config!Submit
  <2> QED
    BY <2>1, LocksKept DEF Config!Order
<1> QED
  BY <1>1, <1>2, InitConfig, StepConfig, PTL
     DEF Config!Spec, ChosenIsOrdered, Config!ChosenIsOrdered, Config!PrintedAsShown
=============================================================================
