------------------------------- MODULE MCPages -------------------------------
(* The models that promise a customer's page an end: an upload on the server,*)
(* its card on the page, and the price of the settings chosen on a card. The *)
(* initial state picks the model that runs; the others rest.                 *)
EXTENDS IngestPipeline

CONSTANTS Files,              \* UploadPage
          Settings, NoRun     \* SliceSync

VARIABLES part,
          card, ready, send, cardPoll, cardJob, row, open, visits, listed, fetches,
          wipe, drops, order, cut,
          mounted, choice, effect, cache, loop, phase, slice

pageVars == <<card, ready, send, cardPoll, cardJob, row, open, visits, listed, fetches,
              wipe, drops, order, cut>>
syncVars == <<mounted, choice, effect, cache, loop, phase, slice>>

Page == INSTANCE UploadPage
  WITH poll <- cardPoll, job <- cardJob, MaxCards <- 1, MaxVisits <- 2, Lossy <- TRUE

Sync == INSTANCE SliceSync WITH run <- loop

\* A model that rests waits for a first request: a page nobody opened asks nothing.
AllInit ==
  /\ part \in {"ingest", "page", "sync"}
  /\ Init /\ Page!Init
  /\ IF part = "sync" THEN Sync!Init
     ELSE /\ mounted = FALSE /\ choice = CHOOSE s \in Settings : TRUE
          /\ effect = NoRun /\ loop = NoRun /\ phase = "idle"
          /\ cache = [s \in Settings |-> "none"] /\ slice = cache

AllNext ==
  \/ part = "ingest" /\ Next /\ UNCHANGED <<part, pageVars, syncVars>>
  \/ part = "page" /\ Page!Next /\ UNCHANGED <<part, vars, syncVars>>
  \/ part = "sync" /\ Sync!Next /\ UNCHANGED <<part, vars, pageVars>>

\* None of the fair actions of a model that rests can be taken.
AllSpec ==
  /\ AllInit /\ [][AllNext]_<<part, vars, pageVars, syncVars>>
  /\ Fairness /\ Page!Fairness /\ Sync!Fairness

\* IngestPipeline: an accepted upload is decided, and leaves nothing behind.
AcceptedEnds == AcceptedSettles /\ NothingLeaks
\* UploadPage
FollowedToTheEnd == Page!FollowedToTheEnd
\* SliceSync
ChoiceSettles == Sync!ChoiceSettles
=============================================================================
