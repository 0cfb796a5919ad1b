------------------------------ MODULE MCCheckout ------------------------------
(* A small instance of Checkout, or of ParseRunner with two renders of one   *)
(* model: two models with many interleavings and no liveness. The initial    *)
(* state picks the one that runs; the other rests.                           *)
EXTENDS Checkout, TLC

CONSTANTS Uploads, Renders, MaxStarts, None       \* ParseRunner

VARIABLES part, phase, given, child, said, heard, killer, scratch, answer, png, model, starts

parseVars == <<phase, given, child, said, heard, killer, scratch, answer, png, model, starts>>

Parse == INSTANCE ParseRunner

\* An upload is no render, the directory of the model is no upload's, and None is
\* nothing that a variable may hold.
ASSUME ParseRunnerAssumption ==
  /\ Uploads \cap Renders = {}
  /\ "model" \notin Uploads
  /\ MaxStarts \in Nat \ {0}
  /\ None \notin Renders
  /\ None \notin {"ok", "public", "crash", "killed", "timeout", "contract", "failed"}
  /\ None \notin {"kernel", "timer", "runner"}

AllInit == part \in {"checkout", "parse"} /\ Init /\ Parse!Init

AllNext ==
  \/ part = "checkout" /\ Next /\ UNCHANGED <<part, parseVars>>
  \/ part = "parse" /\ Parse!Next /\ UNCHANGED <<part, vars>>

AllSpec == AllInit /\ [][AllNext]_<<part, vars, parseVars>>

\* Pincodes are interchangeable, and so are the renders.
Symmetry == Permutations(Pins) \cup Permutations(Renders)

\* ParseRunner
OwnResults == Parse!OwnResults
=============================================================================
