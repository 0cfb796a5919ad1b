---------------------------- MODULE SliceProgress ----------------------------
(***************************************************************************)
(* The progress of one slice attempt on its way into the row: Orca reports *)
(* faster than the row is written, so processJob keeps the newest report   *)
(* and has one writer, which the last writes of the attempt wait for.  A   *)
(* replayed job is a second execution that claims the same attempt.        *)
(***************************************************************************)
EXTENDS Naturals

CONSTANTS
  Runs,   \* executions of processJob for the attempt
  Steps,  \* percentages that are reported: total_percent of Orca, and 97 for its results
  Quiet   \* no report

VARIABLES
  stage,  \* of each execution: idle, slicing, ended (it has an outcome), final or over
  last,   \* lastProgress
  next,   \* queuedProgress
  writer, \* progressWriter: none, waiting for its second, or writing
  held,   \* what it is writing
  shown,  \* progressPct of the row
  state   \* status of the row

vars == <<stage, last, next, writer, held, shown, state>>

Init ==
  /\ stage = [x \in Runs |-> "idle"]
  /\ last = [x \in Runs |-> 1]
  /\ next = [x \in Runs |-> Quiet]
  /\ writer = [x \in Runs |-> "none"]
  /\ held = [x \in Runs |-> Quiet]
  /\ shown = 0
  /\ state = "QUEUED"

\* claimSliceAttempt: also a row that another execution has claimed before.
Claim(x) ==
  /\ stage[x] = "idle" /\ state \in {"QUEUED", "RUNNING"}
  /\ stage' = [stage EXCEPT ![x] = "slicing"]
  /\ state' = "RUNNING" /\ shown' = 1
  /\ UNCHANGED <<last, next, writer, held>>

\* reportProgress: only an advance counts, and it replaces the one that waits.
Advances(x, p) == p > last[x]

Report(x, p) ==
  /\ stage[x] = "slicing" /\ Advances(x, p)
  /\ last' = [last EXCEPT ![x] = p]
  /\ next' = [next EXCEPT ![x] = p]
  /\ writer' = [writer EXCEPT ![x] = IF @ = "none" THEN "waiting" ELSE @]
  /\ UNCHANGED <<stage, held, shown, state>>

\* drainProgress takes the report it found; the next one starts another round.
Take(x) ==
  /\ writer[x] = "waiting" /\ next[x] # Quiet
  /\ writer' = [writer EXCEPT ![x] = "writing"]
  /\ held' = [held EXCEPT ![x] = next[x]]
  /\ next' = [next EXCEPT ![x] = Quiet]
  /\ UNCHANGED <<stage, last, shown, state>>

\* updateRunningSliceAttempt, fenced by the status of the row; a failed write is logged.
Write(x) ==
  /\ writer[x] = "writing"
  /\ shown' \in {IF state = "RUNNING" THEN held[x] ELSE shown, shown}
  /\ writer' = [writer EXCEPT ![x] = IF next[x] = Quiet THEN "none" ELSE "waiting"]
  /\ UNCHANGED <<stage, last, next, held, state>>

\* runSlice returns, or throws.
End(x) ==
  /\ stage[x] = "slicing"
  /\ \E s \in {"ended", "over"} : stage' = [stage EXCEPT ![x] = s]
  /\ UNCHANGED <<last, next, writer, held, shown, state>>

\* Mutant: the writer is left to itself.
Drained_Never(x) == TRUE

\* while (progressWriter) await progressWriter
Drained(x) == writer[x] = "none"

\* 98 with the measured values, or FAILED; then DONE after the preview.
Measure(x) ==
  /\ stage[x] = "ended" /\ Drained(x)
  /\ IF state = "RUNNING"
       THEN \/ stage' = [stage EXCEPT ![x] = "final"] /\ shown' = 98 /\ UNCHANGED state
            \/ stage' = [stage EXCEPT ![x] = "over"] /\ state' = "FAILED" /\ UNCHANGED shown
       ELSE stage' = [stage EXCEPT ![x] = "over"] /\ UNCHANGED <<shown, state>>
  /\ UNCHANGED <<last, next, writer, held>>

Complete(x) ==
  /\ stage[x] = "final"
  /\ stage' = [stage EXCEPT ![x] = "over"]
  /\ IF state = "RUNNING" THEN state' = "DONE" /\ shown' = 100 ELSE UNCHANGED <<shown, state>>
  /\ UNCHANGED <<last, next, writer, held>>

Next ==
  \E x \in Runs :
    \/ Claim(x) \/ Take(x) \/ Write(x) \/ End(x) \/ Measure(x) \/ Complete(x)
    \/ \E p \in Steps : Report(x, p)

Spec == Init /\ [][Next]_vars

-----------------------------------------------------------------------------
TypeOK ==
  /\ stage \in [Runs -> {"idle", "slicing", "ended", "final", "over"}]
  /\ shown \in {0, 1, 98, 100} \cup Steps
  /\ state \in {"QUEUED", "RUNNING", "FAILED", "DONE"}
  /\ \A x \in Runs : next[x] \in Steps \cup {Quiet} /\ last[x] \in Steps \cup {1}

\* Until a second execution claims the attempt the customer never sees its
\* progress fall, not even when a slow write meets the last ones (index.ts:173-234).
Rises == [][(\E x \in Runs : \A y \in Runs \ {x} : stage'[y] = "idle") => shown' >= shown]_vars
=============================================================================
