--------------------------- MODULE SliceContract ---------------------------
(***************************************************************************)
(* What one SliceResult row promises its readers (the quote page, checkout *)
(* and the operator), whatever web requests, BullMQ and workers do below:  *)
(* a row is created once, runs, and ends DONE or FAILED; DONE is final and *)
(* carries the measurements of its own attempt; FAILED is left only by a   *)
(* retry under an attempt id that was never used before.                   *)
(***************************************************************************)
CONSTANT Attempts   \* the attempt ids randomUUID may hand out

VARIABLES
  status,    \* NONE before the row exists
  attempt,   \* the row's current attempt id
  measured,  \* the attempt whose measurements the row stores
  used       \* attempt ids handed out so far

vars == <<status, attempt, measured, used>>

Live == {"QUEUED", "RUNNING"}

Init ==
  /\ status = "NONE"
  /\ used = {}
  /\ attempt = 0
  /\ measured = 0

\* A fresh attempt opens the row, on a cache miss or after a failure.
Open ==
  /\ status \in {"NONE", "FAILED"}
  /\ status' = "QUEUED"
  /\ attempt' \in Attempts \ used
  /\ used' = used \cup {attempt'}
  /\ UNCHANGED measured

Claim ==
  /\ status \in Live
  /\ status' = "RUNNING"
  /\ UNCHANGED <<attempt, measured, used>>

Measure ==
  /\ status = "RUNNING"
  /\ measured' = attempt
  /\ UNCHANGED <<status, attempt, used>>

Fail ==
  /\ status \in Live
  /\ status' = "FAILED"
  /\ UNCHANGED <<attempt, measured, used>>

Finish ==
  /\ status = "RUNNING"
  /\ measured = attempt
  /\ status' = "DONE"
  /\ UNCHANGED <<attempt, measured, used>>

Next == Open \/ Claim \/ Measure \/ Fail \/ Finish

Spec == Init /\ [][Next]_vars
=============================================================================
