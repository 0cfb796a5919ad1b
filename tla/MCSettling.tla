------------------------------ MODULE MCSettling ------------------------------
(* The two models in which a crash leaves something behind that later work   *)
(* has to settle: a slice whose worker died, and a file whose row is gone.   *)
(* The initial state picks the model that runs; the other rests.             *)
EXTENDS SlicePipeline

CONSTANTS Models, Customers, Admins

VARIABLES part, fresh, persisting, doubted, withdrawn, rows, stored, submitted, disk,
          quote, numbers, old, web, sweep, storeFaults

storeVars == <<fresh, persisting, doubted, withdrawn, rows, stored, submitted, disk, quote, numbers,
               old, web, sweep, storeFaults>>

\* One model; one converted model with its STEP source, and nobody who ends its quotation.
Store == INSTANCE QuotationStore
  WITH faults <- storeFaults, Cad <- {}, MaxQuotes <- 1, MaxFaults <- 1
Source == INSTANCE QuotationStore
  WITH faults <- storeFaults, Cad <- Models, MaxQuotes <- 1, MaxFaults <- 1,
       Admins <- {}

\* While the store rests no sweep is due.
AllInit ==
  /\ part \in {"slice", "store", "source"} /\ Init
  /\ part = "store" => Store!Init
  /\ part = "source" => Source!Init
  /\ part = "slice" =>
          /\ fresh = Models /\ persisting = {} /\ doubted = {} /\ withdrawn = {} /\ rows = {}
          /\ stored = {} /\ submitted = {} /\ disk = {}
          /\ quote = [q \in {1} |-> Store!NoQuote] /\ numbers = 0
          /\ old = [uploads |-> {}, quotes |-> {}, records |-> {}, files |-> {}]
          /\ web = [p \in Customers \cup Admins |-> Store!IdleWeb]
          /\ sweep = [Store!IdleSweep EXCEPT !.pc = "resting"] /\ storeFaults = 0

AllNext ==
  \/ part = "slice" /\ Next /\ UNCHANGED <<part, storeVars>>
  \/ part = "store" /\ Store!Next /\ UNCHANGED <<part, vars>>
  \/ part = "source" /\ Source!Next /\ UNCHANGED <<part, vars>>

\* None of the fair actions of a model that rests can be taken; a model without a STEP
\* source has no fair step that one with it has not.
AllSpec ==
  /\ AllInit /\ [][AllNext]_<<part, vars, storeVars>>
  /\ Fairness /\ Store!Fairness /\ Source!Fairness

\* QuotationStore
OrphansCollected == Store!OrphansCollected
=============================================================================
