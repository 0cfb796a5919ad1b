------------------------------ MODULE OrcaRun -------------------------------
(***************************************************************************)
(* runSlice: one execution of a slice attempt from its work directory to   *)
(* its outcome, with one or two runs of OrcaSlicer, their time limit and   *)
(* the removal of what they leave behind.  The executions of one attempt   *)
(* (a job that was replayed) share the work directory; each has a slicer   *)
(* identity of its own, and the directory belongs to whoever made it last. *)
(***************************************************************************)
EXTENDS Naturals

CONSTANTS
  Execs,     \* executions of processJob
  Job,       \* the attempt that each of them executes
  None

VARIABLES
  plate,   \* the model of an attempt is a prearranged plate
  at,      \* where each execution is
  runs,    \* OrcaSlicer runs of it so far
  proc,    \* the slicer of the current run
  strays,  \* a descendant of it that has left its process group
  late,    \* timedOut of the current run
  dir,     \* work directory of each attempt: who made it, and the archive in it
  first,   \* what the primary run came to
  outcome, \* what processJob gets
  source,  \* the run whose archive the outcome was read from
  alone,   \* no other execution has used the directory meanwhile
  up       \* the orchestrator is running

vars == <<plate, at, runs, proc, strays, late, dir, first, outcome, source, alone, up>>

Jobs == {Job[e] : e \in Execs}
Dir(e) == dir[Job[e]]
Others(e) == {x \in Execs \ {e} : Job[x] = Job[e] /\ at[x] \notin {"idle", "over"}}

Init ==
  /\ plate \in [Jobs -> BOOLEAN]
  /\ at = [e \in Execs |-> "idle"]
  /\ runs = [e \in Execs |-> 0]
  /\ proc = [e \in Execs |-> "none"]
  /\ strays = [e \in Execs |-> FALSE]
  /\ late = [e \in Execs |-> FALSE]
  /\ dir = [j \in Jobs |-> None]
  /\ first = [e \in Execs |-> None]
  /\ outcome = [e \in Execs |-> None]
  /\ source = [e \in Execs |-> None]
  /\ alone = [e \in Execs |-> TRUE]
  /\ up = TRUE

\* The directory is removed, under whoever is still working in it.
Disturbed(e) == alone' = [x \in Execs |-> alone[x] /\ x \notin Others(e) /\ (x = e => Others(e) = {})]

\* rm, mkdir, and a verified private copy of the model.
Prepare(e) ==
  /\ at[e] = "idle"
  /\ at' = [at EXCEPT ![e] = "ready"]
  /\ dir' = [dir EXCEPT ![Job[e]] = [of |-> e, archive |-> "none", by |-> None]]
  /\ Disturbed(e)
  /\ UNCHANGED <<runs, proc, strays, late, first, outcome, source, up>>

\* The stored model is not the one that was queued, or the directory is gone.
Throw(e) ==
  /\ \/ at[e] = "idle"
     \/ at[e] = "ready" /\ Dir(e) = None
  /\ outcome' = [outcome EXCEPT ![e] = "thrown"]
  /\ at' = [at EXCEPT ![e] = "reported"]
  /\ UNCHANGED <<runs, proc, strays, late, dir, first, source, alone, up>>

\* runOrca: progress pipe, child in its own process group, and the timer.
Spawn(e) ==
  /\ at[e] = "ready" /\ Dir(e) # None
  /\ at' = [at EXCEPT ![e] = "running"]
  /\ runs' = [runs EXCEPT ![e] = @ + 1]
  /\ proc' = [proc EXCEPT ![e] = "alive"]
  /\ late' = [late EXCEPT ![e] = FALSE]
  /\ UNCHANGED <<strays, dir, first, outcome, source, alone, up>>

\* OrcaSlicer (external): it exports out.3mf, which may come out unusable, and ends.
Export(e) ==
  /\ proc[e] = "alive" /\ Dir(e) # None /\ Dir(e).of = e
  /\ \E a \in {"partial", "good", "bad"} :
       /\ Dir(e).by = <<e, runs[e]>> => Dir(e).archive = "partial" /\ a # "partial"
       /\ dir' = [dir EXCEPT ![Job[e]].archive = a, ![Job[e]].by = <<e, runs[e]>>]
  /\ UNCHANGED <<at, runs, proc, strays, late, first, outcome, source, alone, up>>

End(e) ==
  /\ proc[e] = "alive"
  /\ \E how \in {"exited", "killed"} : proc' = [proc EXCEPT ![e] = how]
  /\ \E s \in BOOLEAN : strays' = [strays EXCEPT ![e] = s]
  /\ UNCHANGED <<at, runs, late, dir, first, outcome, source, alone, up>>

\* The exit event comes first: finish() with its code and signal.
Exit(e) ==
  /\ at[e] = "running" /\ proc[e] # "alive"
  /\ at' = [at EXCEPT ![e] = "finishing"]
  /\ UNCHANGED <<runs, proc, strays, late, dir, first, outcome, source, alone, up>>

\* Mutant: the time limit is armed for the primary run alone.
Limited_First(e) == runs[e] = 1

\* Every run has its time limit.
Limited(e) == TRUE

\* The timer comes first: the process group is killed, finish() is called.
Timeout(e) ==
  /\ at[e] = "running" /\ Limited(e)
  /\ at' = [at EXCEPT ![e] = "finishing"]
  /\ late' = [late EXCEPT ![e] = TRUE]
  /\ \E s \in BOOLEAN : strays' = [strays EXCEPT ![e] = IF proc[e] = "alive" THEN s ELSE @]
  /\ proc' = [proc EXCEPT ![e] = IF @ = "alive" THEN "killed" ELSE @]
  /\ UNCHANGED <<runs, dir, first, outcome, source, alone, up>>

\* Mutant: only the process group of the child is dealt with.
Reaped_Group(e) == strays

\* killIdentityProcesses: nothing of this identity is left.
Reaped(e) == [strays EXCEPT ![e] = FALSE]

Reap(e) ==
  /\ at[e] = "finishing"
  /\ strays' = Reaped(e)
  /\ at' = [at EXCEPT ![e] = "read"]
  /\ UNCHANGED <<runs, proc, late, dir, first, outcome, source, alone, up>>

\* Eight passes were not enough: the orchestrator exits, and its container with it.
ReapFails(e) ==
  /\ at[e] = "finishing" /\ strays[e]
  /\ up' = FALSE
  /\ at' = [x \in Execs |-> "over"]
  /\ proc' = [x \in Execs |-> "none"]
  /\ strays' = [x \in Execs |-> FALSE]
  /\ UNCHANGED <<runs, late, dir, first, outcome, source, alone>>

\* An archive was there to read: it gives plausible filament and time, or an error.
parseSliceInfo(e) == IF Dir(e).archive = "good" THEN "ok" ELSE "BAD_OUTPUT"

\* "An uncommanded SIGKILL with no output is the cgroup OOM killer".
describeMissingOutput(e) == IF proc[e] = "killed" THEN "OUT_OF_MEMORY" ELSE "NO_OUTPUT"

\* What the run comes to.
runOrcaSlice(e) ==
  CASE late[e] -> "TIMEOUT"
    [] ~late[e] /\ Dir(e) # None /\ Dir(e).archive # "none" -> parseSliceInfo(e)
    [] OTHER -> describeMissingOutput(e)

\* Mutant: whatever went wrong, the submitted orientation is tried next.
shouldRetryOrientation_Any(r) == TRUE

shouldRetryOrientation(r) == r \notin {"TIMEOUT", "OUT_OF_MEMORY"}

\* A plate that the shop arranged keeps its placement: no second orientation.
isPrearrangedPlateStl(e) == plate[Job[e]]

\* Mutant: every further run that fails is followed by another one.
Again_Ever(e) == runOrcaSlice(e) # "ok" /\ ~isPrearrangedPlateStl(e)

Again(e) ==
  /\ runs[e] = 1 /\ runOrcaSlice(e) # "ok"
  /\ ~isPrearrangedPlateStl(e) /\ shouldRetryOrientation(runOrcaSlice(e))

\* The primary run is not the last one.
Retry(e) ==
  /\ at[e] = "read" /\ Again(e)
  /\ first' = [first EXCEPT ![e] = runOrcaSlice(e)]
  /\ at' = [at EXCEPT ![e] = "ready"]
  /\ UNCHANGED <<runs, proc, strays, late, dir, outcome, source, alone, up>>

\* The primary's own failure is reported when the fallback fails as well.
Report(e) ==
  /\ at[e] = "read" /\ ~Again(e)
  /\ outcome' = [outcome EXCEPT ![e] = IF runs[e] = 2 /\ runOrcaSlice(e) # "ok" THEN first[e] ELSE runOrcaSlice(e)]
  /\ source' = [source EXCEPT ![e] = IF Dir(e) = None THEN None ELSE Dir(e).by]
  /\ at' = [at EXCEPT ![e] = "reported"]
  /\ UNCHANGED <<runs, proc, strays, late, dir, first, alone, up>>

\* The finally of processJob: the directory goes, the identity is released.
Finally(e) ==
  /\ at[e] = "reported"
  /\ at' = [at EXCEPT ![e] = "over"]
  /\ dir' = [dir EXCEPT ![Job[e]] = None]
  /\ Disturbed(e)
  /\ UNCHANGED <<runs, proc, strays, late, first, outcome, source, up>>

Host(e) ==
  Prepare(e) \/ Throw(e) \/ Spawn(e) \/ Exit(e) \/ Reap(e) \/ Retry(e) \/ Report(e) \/ Finally(e)

Next ==
  /\ up /\ UNCHANGED plate
  /\ \E e \in Execs : Host(e) \/ Export(e) \/ End(e) \/ Timeout(e) \/ ReapFails(e)

Spec == Init /\ [][Next]_vars

\* The orchestrator takes its steps and its timers fire; OrcaSlicer promises nothing.
Fairness == \A e \in Execs : WF_vars(up /\ Host(e) /\ UNCHANGED plate) /\ WF_vars(up /\ Timeout(e) /\ UNCHANGED plate)

FairSpec == Spec /\ Fairness

-----------------------------------------------------------------------------
TypeOK ==
  /\ \A e \in Execs : at[e] \in {"idle", "ready", "running", "finishing", "read", "reported", "over"}
  /\ \A e \in Execs : runs[e] \in 0..2 /\ proc[e] \in {"none", "alive", "exited", "killed"}
  /\ \A e \in Execs : outcome[e] \in {None, "ok", "TIMEOUT", "OUT_OF_MEMORY", "BAD_OUTPUT", "NO_OUTPUT", "thrown"}
  /\ \A j \in Jobs : dir[j] # None => Job[dir[j].of] = j

\* A price comes from an archive that a run of the same attempt wrote to its end, and
\* never after a time limit.  While no other execution of the attempt has made or
\* removed the directory it is the archive of the run that has just ended, not of an
\* earlier one; executions that overlap may read each other's (orca.ts:313-316,
\* :389-413, :489-494).
PricedByItsRun ==
  \A e \in Execs : outcome[e] = "ok" =>
    /\ ~late[e] /\ source[e] # None /\ Job[source[e][1]] = Job[e]
    /\ alone[e] => source[e] = <<e, runs[e]>>

\* An identity goes back to the pool without a process that runs under it
\* (orca.ts:248-262).
ReleasedClean == \A e \in Execs : at[e] = "over" => proc[e] # "alive" /\ ~strays[e]

\* However OrcaSlicer behaves, an execution gives its identity back
\* (orca.ts:271-283).
EverySliceEnds == \A e \in Execs : at[e] = "running" ~> at[e] = "over"

\* An execution leaves no process behind, and prices what its own run wrote, or, once
\* another execution has interfered with the directory, what a run of its attempt wrote.
RunsApart == TypeOK /\ PricedByItsRun /\ ReleasedClean
=============================================================================
