------------------------------ MODULE PdfStore ------------------------------
(***************************************************************************)
(* The stored PDF of one quotation.  The checkout that made the quotation  *)
(* writes it first; administrators regenerate it, from a row read long     *)
(* before.  Every write happens under the Redis lock "pdf-write", a lease  *)
(* that is not renewed: a writer that outlives it goes on beside the next  *)
(* holder.  The file is written under its final name.                      *)
(***************************************************************************)
EXTENDS Naturals, FiniteSets

CONSTANTS
  Regens,    \* regenerate requests
  FirstWriter,  \* the checkout's own write
  NoOne,     \* the lock is free
  MaxOverruns, \* bound: leases that run out under their holder
  MaxFaults  \* bound: failed writes, failed updates, crashes

Writers == Regens \cup {FirstWriter}

VARIABLES
  pc,        \* where each writer is
  snapshot,  \* what its row said: the path is recorded
  lock,      \* the token in Redis
  overrun,   \* writers whose lease ran out
  file,      \* the file: none, partial or complete, and by whom
  recorded,  \* pdfPath is set
  torn,      \* a failure took the file, and no write has completed since
  crashed,   \* the process stopped at least once
  faults,    \* failures so far
  overruns   \* leases that ran out so far

vars == <<pc, snapshot, lock, overrun, file, recorded, torn, crashed, faults, overruns>>

NoFile == [state |-> "none", by |-> NoOne]
Critical == {"check", "remove", "create", "write", "record", "unrecord"}
InSection(w) == pc[w] \in Critical
Active(w) == pc[w] \notin {"idle", "done"}

Init ==
  /\ pc = [w \in Writers |-> IF w = FirstWriter THEN "wait" ELSE "idle"]
  /\ snapshot = [w \in Writers |-> FALSE]
  /\ lock = NoOne /\ overrun = {}
  /\ file = NoFile /\ recorded = FALSE /\ torn = FALSE
  /\ crashed = FALSE /\ faults = 0 /\ overruns = 0

Goto(w, l) == pc' = [pc EXCEPT ![w] = l]

\* The row is read, then the document is rendered from its frozen items.
Regenerate(w) ==
  /\ w \in Regens /\ pc[w] = "idle"
  /\ snapshot' = [snapshot EXCEPT ![w] = recorded]
  /\ Goto(w, "wait")
  /\ UNCHANGED <<lock, overrun, file, recorded, torn, crashed, faults, overruns>>

\* SET NX PX, tried until waitMs has passed.
Acquire(w) ==
  /\ pc[w] = "wait" /\ lock = NoOne
  /\ lock' = w
  /\ Goto(w, "check")
  /\ UNCHANGED <<snapshot, overrun, file, recorded, torn, crashed, faults, overruns>>

GiveUp(w) ==
  /\ pc[w] = "wait" /\ lock # NoOne
  /\ Goto(w, "done")
  /\ UNCHANGED <<snapshot, lock, overrun, file, recorded, torn, crashed, faults, overruns>>

\* The key expires while its holder is at work.
LeaseEnds ==
  /\ lock # NoOne /\ overruns < MaxOverruns
  /\ overruns' = overruns + 1
  /\ overrun' = overrun \cup {lock}
  /\ lock' = NoOne
  /\ UNCHANGED <<pc, snapshot, file, recorded, torn, crashed, faults>>

\* Mutant: whoever ends frees the lock.
Released_Any(w) == NoOne

\* The token-checked release.
Released(w) == IF lock = w THEN NoOne ELSE lock

Leave(w) ==
  /\ Goto(w, "done")
  /\ lock' = Released(w)
  /\ overrun' = overrun \ {w}

\* hasPdfStorageHeadroom, which may refuse.
Check(w) ==
  /\ pc[w] = "check"
  /\ \/ Goto(w, IF w = FirstWriter THEN "create" ELSE "remove") /\ UNCHANGED <<lock, overrun, faults>>
     \/ faults < MaxFaults /\ faults' = faults + 1 /\ Leave(w)
  /\ UNCHANGED <<snapshot, file, recorded, torn, crashed, overruns>>

\* "Replace, don't overwrite in place."
Remove(w) ==
  /\ pc[w] = "remove"
  /\ file' = NoFile
  /\ Goto(w, "create")
  /\ UNCHANGED <<snapshot, lock, overrun, recorded, torn, crashed, faults, overruns>>

\* The flag wx: a file that is there fails the write, untouched.
Create(w) ==
  /\ pc[w] = "create"
  /\ IF file.state = "none"
       THEN /\ file' = [state |-> "partial", by |-> w]
            /\ Goto(w, "write")
            /\ UNCHANGED <<lock, overrun>>
       ELSE /\ UNCHANGED file
            /\ Leave(w)
  /\ UNCHANGED <<snapshot, recorded, torn, crashed, faults, overruns>>

\* The path is recorded unless the row already had it when it was read.  A write that
\* fails half way, for want of space, leaves what it wrote.  Bytes that go to a file
\* someone has removed since change nothing.
Write(w) ==
  /\ pc[w] = "write"
  /\ \/ /\ file' = IF file.by = w THEN [file EXCEPT !.state = "complete"] ELSE file
        /\ torn' = (torn /\ file.by # w)
        /\ IF snapshot[w] THEN Leave(w) ELSE Goto(w, "record") /\ UNCHANGED <<lock, overrun>>
        /\ UNCHANGED faults
     \/ /\ faults < MaxFaults /\ faults' = faults + 1
        /\ torn' = (torn \/ file.by = w)
        /\ Leave(w)
        /\ UNCHANGED file
  /\ UNCHANGED <<snapshot, recorded, crashed, overruns>>

Record(w) ==
  /\ pc[w] = "record"
  /\ \/ recorded' = TRUE /\ Leave(w) /\ UNCHANGED faults
     \/ /\ faults < MaxFaults /\ faults' = faults + 1
        /\ Goto(w, "unrecord")
        /\ UNCHANGED <<lock, overrun, recorded>>
  /\ UNCHANGED <<snapshot, file, torn, crashed, overruns>>

\* Mutant: the file of a failed update stays.
Unrecorded_Kept(f) == f

Unrecorded(f) == NoFile

\* The update failed: removeQuietly(path), whoever wrote the file that is there.
Unrecord(w) ==
  /\ pc[w] = "unrecord"
  /\ file' = Unrecorded(file)
  /\ torn' = TRUE
  /\ Leave(w)
  /\ UNCHANGED <<snapshot, recorded, crashed, faults, overruns>>

\* The web process stops; a lock it held runs out.
Crash ==
  /\ faults < MaxFaults /\ \E w \in Writers : Active(w)
  /\ faults' = faults + 1
  /\ crashed' = TRUE
  /\ torn' = (torn \/ file.state # "complete")
  /\ pc' = [w \in Writers |-> IF Active(w) THEN "done" ELSE pc[w]]
  /\ lock' = NoOne /\ overrun' = {}
  /\ UNCHANGED <<snapshot, file, recorded, overruns>>

Step(w) ==
  \/ Regenerate(w) \/ Acquire(w) \/ GiveUp(w)
  \/ Check(w) \/ Remove(w) \/ Create(w) \/ Write(w) \/ Record(w) \/ Unrecord(w)

Next == LeaseEnds \/ Crash \/ \E w \in Writers : Step(w)

Spec == Init /\ [][Next]_vars

-----------------------------------------------------------------------------
TypeOK ==
  /\ pc \in [Writers -> Critical \cup {"idle", "wait", "done"}]
  /\ snapshot \in [Writers -> BOOLEAN]
  /\ lock \in Writers \cup {NoOne} /\ overrun \subseteq Writers
  /\ file \in [state : {"none", "partial", "complete"}, by : Writers \cup {NoOne}]
  /\ recorded \in BOOLEAN /\ torn \in BOOLEAN /\ crashed \in BOOLEAN

\* Two writers are in the section together only when one of them has outlived its own
\* lease: a late release never lets a third in beside a holder in time
\* (security.ts:87-89).
LeaseAlone ==
  \A v, w \in Writers : v # w /\ InSection(v) /\ InSection(w) => v \in overrun \/ w \in overrun

\* Once everyone is done, a complete file is a recorded one: the failed update takes its
\* file along (quotations/route.ts:458-463, regenerate-pdf/route.ts:134-141).  A process
\* that stops between the two leaves it.
NoOrphanFile ==
  ~crashed /\ (\A w \in Writers : ~Active(w)) /\ file.state = "complete" => recorded

\* "wx keeps the invariant that a stored PDF file is always complete"
\* (regenerate-pdf/route.ts:126-127) holds between one write and the next, leases that
\* run out included, with two exceptions: while a regeneration is between its remove
\* and the end of its write, and after a failure that took the file -- a write that
\* failed half way, an update that failed and removed it, a stop of the process --
\* until a later write completes.
StoredIsComplete ==
  recorded /\ file.state # "complete" => torn \/ \E w \in Writers : pc[w] \in {"create", "write"}

\* What the lease, the order of the writes and the flag wx give the file and its column.
StoredSafely == TypeOK /\ LeaseAlone /\ NoOrphanFile /\ StoredIsComplete
=============================================================================
