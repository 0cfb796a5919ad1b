--------------------------- MODULE ProfileBatches ---------------------------
(***************************************************************************)
(* The owner's OrcaSlicer presets: an upload is a batch of rows, the        *)
(* worker places and test-slices it and swaps it in, a slot can be put      *)
(* back on the installed preset at any time, and slices meanwhile load the  *)
(* set of files that belongs to the live rows they were keyed for.          *)
(***************************************************************************)
EXTENDS Naturals

CONSTANTS
  Batches,     \* uploads, in the order they are made
  Shapes,      \* what a file can hold: a sequence of [aim, height] records
  MaxPresets,  \* bound: presets of a file
  MaxCrashes,  \* bound: stops of the worker
  MaxReverts,  \* bound: slots put back on the installed preset
  MaxSlices,   \* bound: slices requested
  None

VARIABLES
  rows,     \* slicerProfileUpload: the slot and the status of each preset of a batch
  call,     \* the web's call that queues a batch: its job is being added, or that failed
  task,     \* the job of each batch in the profile queue
  test,     \* the execution under way: batch, step and what it has found out
  report,   \* batches whose job failed, while the "failed" listener writes that down
  stranded, \* batches whose verdict nobody is left to write
  proven,   \* the sets of rows whose test slices passed
  sets,     \* directories r-<revision>: "fresh" or "old" by the hour of grace
  slicing,  \* the slice under way: what it is keyed for and what it loads
  crashes, reverts, slices

vars == <<rows, call, task, test, report, stranded, proven, sets, slicing, crashes, reverts, slices>>

Row(b, i) == rows[b][i]
RowIds == {r \in Batches \X (1..MaxPresets) : r[2] \in DOMAIN rows[r[1]]}
With(st) == {r \in RowIds : rows[r[1]][r[2]].status \in st}
SlotOf(r) == rows[r[1]][r[2]].slot
Live == With({"ACTIVE"})
Own(b) == {r \in RowIds : r[1] = b}

Init ==
  /\ rows = [b \in Batches |-> <<>>]
  /\ call = [b \in Batches |-> "none"]
  /\ task = [b \in Batches |-> "none"]
  /\ test = None
  /\ report = {} /\ stranded = {}
  /\ proven = {{}}
  /\ sets = <<>>
  /\ slicing = None
  /\ crashes = 0 /\ reverts = 0 /\ slices = 0

(* The web: store the batch, then queue its test. *)

Store(b, shape) ==
  /\ rows[b] = <<>>
  /\ rows' = [rows EXCEPT ![b] = [i \in DOMAIN shape |->
                 [slot |-> shape[i].aim, height |-> shape[i].height, status |-> "PENDING"]]]
  /\ call' = [call EXCEPT ![b] = "adding"]
  /\ UNCHANGED <<task, test, report, stranded, proven, sets, slicing, crashes, reverts, slices>>

Statuses == {"PENDING", "TESTING", "ACTIVE", "SKIPPED", "FAILED", "RETIRED"}
SetStatus(ids, from, to) ==
  [b \in Batches |-> [i \in DOMAIN rows[b] |->
     IF <<b, i>> \in ids /\ rows[b][i].status \in from THEN [rows[b][i] EXCEPT !.status = to] ELSE rows[b][i]]]

\* The job is in the queue also when only the queue's answer is lost.
Enqueue(b) ==
  /\ call[b] = "adding"
  /\ \/ task' = [task EXCEPT ![b] = "waiting"] /\ call' = [call EXCEPT ![b] = "over"]
     \/ task' \in {task, [task EXCEPT ![b] = "waiting"]} /\ call' = [call EXCEPT ![b] = "failing"]
  /\ UNCHANGED <<rows, test, report, stranded, proven, sets, slicing, crashes, reverts, slices>>

\* The catch writes to every row of the batch, whatever has become of it.
EnqueueFailed(b) ==
  /\ call[b] = "failing"
  /\ rows' = SetStatus(Own(b), Statuses, "FAILED")
  /\ call' = [call EXCEPT ![b] = "over"]
  /\ UNCHANGED <<task, test, report, stranded, proven, sets, slicing, crashes, reverts, slices>>

\* The web stops between the rows and the job, or in the catch; createMany answers
\* with an error although its rows are stored; the catch's own write fails.
Abandon(b) ==
  /\ call[b] \in {"adding", "failing"}
  /\ call' = [call EXCEPT ![b] = "over"]
  /\ stranded' = IF task[b] = "none" THEN stranded \cup {b} ELSE stranded
  /\ UNCHANGED <<rows, task, test, report, proven, sets, slicing, crashes, reverts, slices>>

revertToInstalled(slot) ==
  /\ reverts < MaxReverts
  /\ \E r \in Live : SlotOf(r) = slot
  /\ rows' = SetStatus({r \in RowIds : SlotOf(r) = slot}, {"ACTIVE"}, "RETIRED")
  /\ reverts' = reverts + 1
  /\ UNCHANGED <<call, task, test, report, stranded, proven, sets, slicing, crashes, slices>>

(* The worker: one batch at a time. *)

Unsettled_Pending == {"PENDING"}
Unsettled == {"PENDING", "TESTING"}
Start(b) ==
  /\ test = None /\ task[b] = "waiting"
  /\ task' = [task EXCEPT ![b] = "active"]
  /\ LET open == With(Unsettled) \cap Own(b)
     IN /\ rows' = SetStatus(open, Unsettled, "TESTING")
        /\ test' = [batch |-> b, at |-> IF open = {} THEN "ending" ELSE "claimed", live |-> <<>>, with |-> {}]
  /\ UNCHANGED <<call, report, stranded, proven, sets, slicing, crashes, reverts, slices>>

\* planBatch: presets with a slot first, then by layer height where the slot is free.
Aimed(b) == {i \in DOMAIN rows[b] : Row(b, i).slot # None}
Before(b, j, i) == IF j \in Aimed(b) <=> i \in Aimed(b) THEN j < i ELSE j \in Aimed(b)
Wanted(b, i) == IF i \in Aimed(b) THEN Row(b, i).slot ELSE Row(b, i).height
Taken_Never(b, i) == FALSE
Taken(b, i) == \E j \in DOMAIN rows[b] : Before(b, j, i) /\ Wanted(b, j) = Wanted(b, i)
planBatch(b) ==
  LET placed == {i \in DOMAIN rows[b] : Wanted(b, i) # None /\ ~Taken(b, i)}
  IN [i \in placed |-> Wanted(b, i)]

\* The other live presets are read here, and the test set is written.
Plan ==
  /\ test # None /\ test.at = "claimed"
  /\ LET plan == planBatch(test.batch)
         slots == {plan[i] : i \in DOMAIN plan}
     IN /\ slots # {}
        /\ test' = [test EXCEPT !.at = "testing", !.live = plan,
                      !.with = {r \in Live : SlotOf(r) \notin slots} \cup {<<test.batch, i>> : i \in DOMAIN plan}]
  /\ UNCHANGED <<rows, call, task, report, stranded, proven, sets, slicing, crashes, reverts, slices>>

\* ProfileBatchError: a preset that does not resolve or fit, nothing placed, or
\* a test slice that failed.
Refuse ==
  /\ test # None /\ test.at \in {"claimed", "testing"}
  /\ rows' = SetStatus(Own(test.batch), {"PENDING", "TESTING"}, "FAILED")
  /\ test' = [test EXCEPT !.at = "ending"]
  /\ UNCHANGED <<call, task, report, stranded, proven, sets, slicing, crashes, reverts, slices>>

\* Any other error, of markBatchFailed too, fails the job, which has one attempt.
Fail ==
  /\ test # None /\ test.at \in {"claimed", "testing", "passed"}
  /\ task' = [task EXCEPT ![test.batch] = "done"]
  /\ test' = None
  /\ report' = report \cup {test.batch}
  /\ UNCHANGED <<rows, call, stranded, proven, sets, slicing, crashes, reverts, slices>>

\* The "failed" listener, which nothing waits for: its write may fail as well.
WriteFailure(b) ==
  /\ b \in report
  /\ report' = report \ {b}
  /\ \/ rows' = SetStatus(Own(b), {"PENDING", "TESTING"}, "FAILED") /\ UNCHANGED stranded
     \/ stranded' = stranded \cup {b} /\ UNCHANGED rows
  /\ UNCHANGED <<call, task, test, proven, sets, slicing, crashes, reverts, slices>>

Pass ==
  /\ test # None /\ test.at = "testing"
  /\ test' = [test EXCEPT !.at = "passed"]
  /\ proven' = proven \cup {test.with}
  /\ UNCHANGED <<rows, call, task, report, stranded, sets, slicing, crashes, reverts, slices>>

\* One transaction: what was live in the slots is retired, the batch is live.
Passed_Claimed == test.at \in {"testing", "passed"}
Passed == test.at = "passed"
Retired_Batch(slots) == {r \in Own(test.batch) : SlotOf(r) \in slots}
Retired(slots) == {r \in RowIds : SlotOf(r) \in slots}
Swap ==
  /\ test # None /\ Passed
  /\ LET plan == test.live
         after == SetStatus(Retired({plan[i] : i \in DOMAIN plan}), {"ACTIVE"}, "RETIRED")
     IN rows' = [after EXCEPT ![test.batch] =
                   [i \in DOMAIN @ |-> IF i \in DOMAIN plan
                                       THEN [@[i] EXCEPT !.slot = plan[i], !.status = "ACTIVE"]
                                       ELSE [@[i] EXCEPT !.status = "SKIPPED"]]]
  /\ test' = [test EXCEPT !.at = "ending"]
  /\ UNCHANGED <<call, task, report, stranded, proven, sets, slicing, crashes, reverts, slices>>

\* The queue learns that the job is done; a replay of a settled batch ends here at once.
Complete ==
  /\ test # None /\ test.at = "ending"
  /\ task' = [task EXCEPT ![test.batch] = "done"]
  /\ test' = None
  /\ UNCHANGED <<rows, call, report, stranded, proven, sets, slicing, crashes, reverts, slices>>

\* The job is found stalled and handed out once more; a write of the listener is lost;
\* work directories are volatile.
Crash ==
  /\ crashes < MaxCrashes /\ (test # None \/ slicing # None \/ report # {})
  /\ crashes' = crashes + 1
  /\ task' = [b \in Batches |-> IF task[b] = "active" THEN "waiting" ELSE task[b]]
  /\ test' = None /\ slicing' = None
  /\ report' = {} /\ stranded' = stranded \cup report
  /\ UNCHANGED <<rows, call, proven, sets, reverts, slices>>

(* Slices. *)

\* The key of a slice carries the revision of the rows that were live then.
Request ==
  /\ slicing = None /\ slices < MaxSlices
  /\ slices' = slices + 1
  /\ slicing' = [at |-> "queued", key |-> Live, loads |-> {}]
  /\ UNCHANGED <<rows, call, task, test, report, stranded, proven, sets, crashes, reverts>>

\* activeProfileSet: the set of the rows that are live now, written if it is not
\* there; then older ones are pruned.  A job keyed for other presets is refused.
Refused_Never == FALSE
Refused == slicing.key # Live
Pruned(dir) == {d \in DOMAIN sets : d # dir /\ sets[d] = "old"}
\* The directory of a revision, renamed into place once it is complete.
materialiseProfileSet(dir) ==
  [d \in (DOMAIN sets \ Pruned(dir)) \cup {dir} |-> IF d = dir THEN "fresh" ELSE sets[d]]
Begin ==
  /\ slicing # None /\ slicing.at = "queued"
  /\ sets' = IF Live = {} \/ Live \in DOMAIN sets THEN sets
             ELSE materialiseProfileSet(Live)
  /\ slicing' = IF Refused THEN None ELSE [slicing EXCEPT !.at = "slicing", !.loads = Live]
  /\ UNCHANGED <<rows, call, task, test, report, stranded, proven, crashes, reverts, slices>>

\* Another slice job does the same while this one is under way.
Beside ==
  /\ slicing # None /\ slicing.at = "slicing"
  /\ Live # {} /\ Live \notin DOMAIN sets
  /\ sets' = materialiseProfileSet(Live)
  /\ UNCHANGED <<rows, call, task, test, report, stranded, proven, slicing, crashes, reverts, slices>>

Sliced ==
  /\ slicing # None /\ slicing.at = "slicing"
  /\ slicing' = None
  /\ UNCHANGED <<rows, call, task, test, report, stranded, proven, sets, crashes, reverts, slices>>

\* An hour after it was written.
Age(d) ==
  /\ d \in DOMAIN sets /\ sets[d] = "fresh"
  /\ slicing = None
  /\ sets' = [sets EXCEPT ![d] = "old"]
  /\ UNCHANGED <<rows, call, task, test, report, stranded, proven, slicing, crashes, reverts, slices>>

Slots == UNION {UNION {{s[i].aim, s[i].height} : i \in DOMAIN s} : s \in Shapes} \ {None}

Next ==
  \/ \E b \in Batches :
       \/ \E s \in Shapes : Store(b, s)
       \/ Enqueue(b) \/ EnqueueFailed(b) \/ Abandon(b) \/ Start(b) \/ WriteFailure(b)
  \/ \E s \in Slots : revertToInstalled(s)
  \/ Plan \/ Refuse \/ Fail \/ Pass \/ Swap \/ Complete \/ Crash
  \/ Request \/ Begin \/ Beside \/ Sliced
  \/ \E d \in DOMAIN sets : Age(d)

Spec == Init /\ [][Next]_vars

\* A call of the web goes on or is cut short; the worker, which is started again
\* when it stops, runs what is queued, and a listener it has called runs to its end.
Fairness ==
  /\ \A b \in Batches :
       /\ WF_vars(Enqueue(b) \/ Abandon(b)) /\ WF_vars(EnqueueFailed(b) \/ Abandon(b))
       /\ SF_vars(Start(b)) /\ WF_vars(WriteFailure(b))
  /\ WF_vars(Plan \/ Refuse \/ Fail) /\ WF_vars(Pass \/ Refuse \/ Fail)
  /\ WF_vars(Swap \/ Fail) /\ WF_vars(Complete)

FairSpec == Spec /\ Fairness

-----------------------------------------------------------------------------
TypeOK ==
  /\ \A r \in RowIds : Row(r[1], r[2]).status \in Statuses
  /\ call \in [Batches -> {"none", "adding", "failing", "over"}]
  /\ task \in [Batches -> {"none", "waiting", "active", "done"}]
  /\ report \subseteq Batches /\ stranded \subseteq Batches
  /\ \A p \in proven : p \subseteq RowIds
  /\ \A d \in DOMAIN sets : d \subseteq RowIds /\ sets[d] \in {"fresh", "old"}

\* "All pass and the batch replaces what was live": the presets that are live at one
\* time, of whatever batches, belonged to one set whose test slices passed, whatever
\* was uploaded, failed, replayed or put back meanwhile.
Tested(ids) == \E p \in proven : ids \subseteq p
LiveIsProven == Tested(Live)

\* The presets of a batch come to a verdict together: none is live, put aside or
\* failed while another still waits for the same test.
WholeBatch == \A r, s \in RowIds : r[1] = s[1] /\ r \in With({"PENDING", "TESTING"}) =>
                                      Row(s[1], s[2]).status = Row(r[1], r[2]).status

\* A slot is served by one preset, however many of a bundle claim it: two would
\* write the same file of the set, and the last one read would win.
OnePerSlot == \A r, s \in Live : SlotOf(r) = SlotOf(s) => r = s

\* What is cached under a key was sliced with the presets the key names, and only
\* with presets that were tested together, though the live ones change between the request,
\* the start of the job and its end.
KeyedSlice == slicing # None /\ slicing.at = "slicing" => slicing.loads = slicing.key /\ Tested(slicing.key)

\* A batch that was stored comes to a verdict, also when the queue's answer is lost,
\* and when the worker stops under its test and the job is handed out again. It does
\* not, and is shown as waiting or in its test for good, when the web's call ends
\* without a job and without the catch's write, and when the write of the "failed"
\* listener is lost or fails: nothing looks for such a batch again.
BatchSettles ==
  \A b \in Batches : rows[b] # <<>> ~> Own(b) \cap With({"PENDING", "TESTING"}) = {} \/ b \in stranded

\* The comment of pruneOldSets: an earlier revision goes "once nothing can still be
\* slicing with" it.
SetInUseKept == slicing # None /\ slicing.at = "slicing" /\ slicing.loads # {} => slicing.loads \in DOMAIN sets

\* Customers' slices load presets that have passed together, one for each slot.
ServedIsTested == TypeOK /\ LiveIsProven /\ WholeBatch /\ OnePerSlot /\ KeyedSlice
=============================================================================
