-------------------------------- MODULE MCWork --------------------------------
(* The models of the worker's own work, which has to come to an end: the     *)
(* slicer identities, an OrcaSlicer run, a parser child and the test of a    *)
(* batch of presets. The initial state picks the model that runs; the others *)
(* rest.                                                                     *)
EXTENDS SlicerPool, TLC

CONSTANTS Nothing,                                 \* no set, plate or verdict
          Execs,                                   \* OrcaRun
          Uploads, Renders,                        \* ParseRunner
          Batches, Shapes, MaxPresets,             \* ProfileBatches
          MaxCrashes, MaxReverts, MaxSlices,
          MaxBusy,    \* bound: calls of the web, tests, their reports and slices at one time
          MaxEvents   \* bound: crashes, reverts and slices together

VARIABLES part,
          plate, at, runs, proc, strays, late, dir, first, outcome, source, alone, up,
          phase, given, child, said, heard, killer, scratch, answer, png, model, starts,
          rows, call, task, test, report, stranded, proven, sets, slicing, crashes, reverts, slices

orcaVars == <<plate, at, runs, proc, strays, late, dir, first, outcome, source, alone, up>>
parseVars == <<phase, given, child, said, heard, killer, scratch, answer, png, model, starts>>
batchVars == <<rows, call, task, test, report, stranded, proven, sets, slicing, crashes, reverts, slices>>

Orca == INSTANCE OrcaRun WITH Job <- [e \in Execs |-> "j1"], None <- Nothing

Parse == INSTANCE ParseRunner WITH MaxStarts <- 2, None <- Nothing

Batch == INSTANCE ProfileBatches WITH None <- Nothing

\* A printer with two process presets for one layer height; a material with a preset
\* nothing tells the slot of.
Preset(aim, height) == [aim |-> aim, height |-> height]
PrinterShapes ==
  {<<Preset("machine", Nothing), Preset(Nothing, "200"), Preset(Nothing, "200")>>,
   <<Preset("PLA", Nothing), Preset(Nothing, Nothing)>>}

\* An upload without presets is refused (parseProfileUpload).
ASSUME ShapesAssumption ==
  /\ MaxPresets \in Nat
  /\ \A s \in Shapes : s # <<>> /\ DOMAIN s \subseteq 1..MaxPresets

-----------------------------------------------------------------------------
\* A model that rests has nothing to do: the orchestrator of OrcaRun is down.
AllInit ==
  /\ part \in {"pool", "orca", "parse", "batch"}
  /\ Init /\ Parse!Init /\ Batch!Init
  /\ IF part = "orca" THEN Orca!Init
     ELSE /\ plate = [j \in {"j1"} |-> FALSE] /\ at = [e \in Execs |-> "idle"]
          /\ runs = [e \in Execs |-> 0] /\ proc = [e \in Execs |-> "none"]
          /\ strays = [e \in Execs |-> FALSE] /\ late = strays
          /\ dir = [j \in {"j1"} |-> Nothing] /\ first = [e \in Execs |-> Nothing]
          /\ outcome = first /\ source = first /\ alone = [e \in Execs |-> TRUE] /\ up = FALSE

Busy == Cardinality({b \in Batches : call[b] \in {"adding", "failing"}}) + Cardinality(report)
          + (IF test = Nothing THEN 0 ELSE 1) + (IF slicing = Nothing THEN 0 ELSE 1)

AllNext ==
  \/ /\ part = "pool" /\ Next
     /\ UNCHANGED <<part, orcaVars, parseVars, batchVars>>
  \/ /\ part = "orca" /\ Orca!Next
     /\ UNCHANGED <<part, vars, parseVars, batchVars>>
  \/ /\ part = "parse" /\ Parse!Next
     /\ UNCHANGED <<part, vars, orcaVars, batchVars>>
  \/ /\ part = "batch" /\ Batch!Next
     /\ Busy' <= MaxBusy /\ crashes' + reverts' + slices' <= MaxEvents
     /\ UNCHANGED <<part, vars, orcaVars, parseVars>>

\* None of the fair actions of a model that rests can be taken.
AllSpec ==
  /\ AllInit /\ [][AllNext]_<<part, vars, orcaVars, parseVars, batchVars>>
  /\ Fairness /\ Orca!Fairness /\ Parse!Fairness /\ Batch!Fairness

\* OrcaRun and ParseRunner: the child processes of the orchestrator end.
EveryChildEnds == Orca!EverySliceEnds /\ Parse!EveryParseEnds
\* ProfileBatches
ServedIsTested == Batch!ServedIsTested
BatchSettles == Batch!BatchSettles
=============================================================================
