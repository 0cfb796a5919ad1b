----------------------------- MODULE SliceSync -----------------------------
(***************************************************************************)
(* useSliceSync: the effect of one model card that asks for the slice of   *)
(* the current settings and follows it into the page's cache.  A run that  *)
(* is torn down is aborted; nothing of it is applied later, because the    *)
(* page runs the callbacks of one answer without anything in between.      *)
(* The server keeps what SliceContract says of a row: queued, then done or *)
(* failed, queued again when a failed one is asked for.                    *)
(***************************************************************************)
CONSTANTS
  Settings, \* values of settingsKey that the customer tries
  NoRun     \* no run of the effect

VARIABLES
  mounted, \* the card is on the page, and its model is ready
  choice,  \* settingsKey of the card's configuration
  effect,  \* the settings that the effect has run for
  cache,   \* slices: what the page knows of each combination
  run,     \* the run that has not been torn down
  phase,   \* where start() is
  slice    \* the row on the server (external)

vars == <<mounted, choice, effect, cache, run, phase, slice>>

InProgress == {"queued", "slicing"}

Init ==
  /\ mounted = TRUE
  /\ choice \in Settings
  /\ effect = NoRun
  /\ cache = [s \in Settings |-> "none"]
  /\ run = NoRun
  /\ phase = "idle"
  /\ slice = [s \in Settings |-> "none"]

\* updateConfig with another material, layer height, infill or support mode.
Choose(s) ==
  /\ mounted /\ choice = effect /\ s # choice
  /\ choice' = s
  /\ UNCHANGED <<mounted, effect, cache, run, phase, slice>>

\* Mutant: the entry of a run that is torn down stays.
Dropped_Never(c) == c

\* Mutant: the entry is emptied and stays in the cache.
Dropped_Emptied(c) == IF run # NoRun /\ phase # "settled" THEN [c EXCEPT ![run] = NoRun] ELSE c

\* The cleanup of a run that has not settled: dropSlice.
Dropped(c) ==
  IF run # NoRun /\ phase # "settled" THEN [c EXCEPT ![run] = "none"] ELSE c

\* "Already have (or are already fetching) this combination".
Known(c, s) == c[s] \notin {"none", "failed"}

\* The effect runs for new settings: the cleanup of the last run, then a debounce.
RunEffect ==
  /\ mounted /\ effect # choice
  /\ effect' = choice
  /\ cache' = Dropped(cache)
  /\ IF Known(Dropped(cache), choice)
       THEN run' = NoRun /\ phase' = "idle"
       ELSE run' = choice /\ phase' = "debounce"
  /\ UNCHANGED <<mounted, choice, slice>>

\* The timer fires: start() writes the entry and sends the request.
Start ==
  /\ phase = "debounce"
  /\ cache' = [cache EXCEPT ![run] = "queued"]
  /\ phase' = "asked"
  /\ UNCHANGED <<mounted, choice, effect, run, slice>>

\* POST /api/slices makes or restarts the row; an answer leaves with its status.
Serve ==
  /\ phase = "asked" /\ slice[run] \in {"none", "failed"}
  /\ slice' = [slice EXCEPT ![run] = "queued"]
  /\ UNCHANGED <<mounted, choice, effect, cache, run, phase>>

\* setSlice for a row that is not settled, then sleep(POLL_MS).
Answered ==
  /\ phase = "asked" /\ slice[run] \in InProgress
  /\ cache' = [cache EXCEPT ![run] = slice[run]]
  /\ phase' = "resting"
  /\ UNCHANGED <<mounted, choice, effect, run, slice>>

Poll ==
  /\ phase = "resting"
  /\ phase' = "polled"
  /\ UNCHANGED <<mounted, choice, effect, cache, run, slice>>

PollAnswered ==
  /\ phase = "polled" /\ slice[run] \in InProgress
  /\ cache' = [cache EXCEPT ![run] = slice[run]]
  /\ phase' = "resting"
  /\ UNCHANGED <<mounted, choice, effect, run, slice>>

\* A settled row, or any refusal, which readDto turns into a failed slice.
Settled ==
  /\ phase \in {"asked", "polled"}
  /\ \/ slice[run] \in {"done", "failed"} /\ cache' = [cache EXCEPT ![run] = slice[run]]
     \/ cache' = [cache EXCEPT ![run] = "failed"]
  /\ phase' = "settled"
  /\ UNCHANGED <<mounted, choice, effect, run, slice>>

\* The slice pipeline.
Slicer(s) ==
  /\ \/ slice[s] = "queued" /\ slice' = [slice EXCEPT ![s] = "slicing"]
     \/ slice[s] = "slicing" /\ \E end \in {"done", "failed"} : slice' = [slice EXCEPT ![s] = end]
  /\ UNCHANGED <<mounted, choice, effect, cache, run, phase>>

\* The card goes with the page and comes back with it; the cache is the store's.
Unmount ==
  /\ mounted
  /\ mounted' = FALSE
  /\ cache' = Dropped(cache)
  /\ run' = NoRun /\ phase' = "idle" /\ effect' = NoRun
  /\ UNCHANGED <<choice, slice>>

Mount ==
  /\ ~mounted
  /\ mounted' = TRUE
  /\ UNCHANGED <<choice, effect, cache, run, phase, slice>>

Next ==
  \/ \E s \in Settings : Choose(s) \/ Slicer(s)
  \/ RunEffect \/ Start \/ Serve \/ Answered \/ Poll \/ PollAnswered \/ Settled
  \/ Unmount \/ Mount

Spec == Init /\ [][Next]_vars

\* Effects, timers and requests get their turn; the pipeline settles its rows.
Fairness ==
  /\ WF_vars(RunEffect) /\ WF_vars(Start) /\ WF_vars(Serve) /\ WF_vars(Poll)
  /\ WF_vars(Answered \/ PollAnswered \/ Settled)
  /\ \A s \in Settings : WF_vars(Slicer(s))

FairSpec == Spec /\ Fairness

-----------------------------------------------------------------------------
TypeOK ==
  /\ mounted \in BOOLEAN
  /\ choice \in Settings
  /\ effect \in Settings \cup {NoRun}
  /\ run \in Settings \cup {NoRun}
  /\ cache \in [Settings -> {"none", "done", "failed"} \cup InProgress]
  /\ phase \in {"idle", "debounce", "asked", "resting", "polled", "settled"}
  /\ slice \in [Settings -> {"none", "done", "failed"} \cup InProgress]

\* An entry that says a slice is under way has a run that follows it: the effect
\* would otherwise take it for one in progress for ever (use-slice-sync.ts:94-97).
EntryFollowed ==
  \A s \in Settings : cache[s] \in InProgress => run = s /\ phase \in {"asked", "resting", "polled"}

\* Whatever was tried and torn down before: settings that stay chosen on an open
\* page end as a price or a failure (use-slice-sync.ts:11-17).
ChoiceSettles ==
  \A s \in Settings :
    mounted /\ choice = s ~> cache[s] \in {"done", "failed"} \/ choice # s \/ ~mounted
=============================================================================
