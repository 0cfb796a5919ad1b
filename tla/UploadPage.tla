----------------------------- MODULE UploadPage -----------------------------
(***************************************************************************)
(* The quote page and its uploads: the cards of the quote store, the       *)
(* upload and the polling behind each card, the banner that offers what    *)
(* the session still holds on the server, and the deletions the page asks  *)
(* for.  An upload, its ticket and the model it yields share one name.     *)
(* The server is reduced to what the page sees of it: a job and a row.     *)
(***************************************************************************)
EXTENDS Naturals, FiniteSets

CONSTANTS
  Files,     \* the files of this session's uploads
  MaxCards,  \* maxModels: cards that may be added
  MaxVisits, \* bound: times the quote page is opened
  Lossy      \* the answer to a deletion may be lost

VARIABLES
  card,    \* placeholder of each upload in the store
  ready,   \* cards that show the stored model of each upload
  send,    \* the upload request of each card
  poll,    \* follow() of each card: resting, the job read before or after it completed,
           \* or the answer on its way
  job,     \* the ingest job behind the ticket (external)
  row,     \* the model row: unattached, quoted or gone (external)
  open,    \* the quote page is mounted
  visits,  \* how often it was
  listed,  \* serverModels of the banner
  fetches, \* the banner's GET: whether it has been answered, and with what
  wipe,    \* the banner's DELETE and its keep list
  drops,   \* cards whose DELETE is under way: onRemove, or Clear quote
  order,   \* the models of a submission that has not been answered
  cut      \* the cards whose poll was answered with what is no state of the ticket

vars == <<card, ready, send, poll, job, row, open, visits, listed, fetches, wipe, drops, order, cut>>
server == <<job, row>>
banner == <<listed, fetches, wipe>>

Ingesting == {"uploading", "queued", "processing"}
isIngestPending(k) == card[k] \in Ingesting
OnScreen == {k \in Files : ready[k] > 0}
Unattached == {k \in Files : row[k] = "row"}
Cards == Cardinality({k \in Files : card[k] # "none"}) + Cardinality(OnScreen)

Init ==
  /\ card = [k \in Files |-> "none"]
  /\ ready = [k \in Files |-> 0]
  /\ send = [k \in Files |-> "none"]
  /\ poll = [k \in Files |-> "off"]
  /\ job = [k \in Files |-> "none"]
  /\ row = [k \in Files |-> "none"]
  /\ open = TRUE
  /\ visits = 1
  /\ listed = {}
  /\ fetches = {"asked"}
  /\ wipe = [at |-> "idle", keep |-> {}]
  /\ drops = [k \in Files |-> "none"]
  /\ order = {}
  /\ cut = {}

-----------------------------------------------------------------------------
(* Uploading.                                                              *)

\* accept() and startUploads: the limit is on the cards there are now.
AddFile(k) ==
  /\ open /\ send[k] = "none" /\ Cards < MaxCards
  /\ card' = [card EXCEPT ![k] = "uploading"]
  /\ send' = [send EXCEPT ![k] = "waiting"]
  /\ UNCHANGED <<ready, poll, server, open, visits, banner, drops, order, cut>>

\* A place in runPooled: the request goes out, also after the page has gone.
BeginUpload(k) ==
  /\ send[k] = "waiting"
  /\ send' = [send EXCEPT ![k] = "sent"]
  /\ UNCHANGED <<card, ready, poll, server, open, visits, banner, drops, order, cut>>

\* The server queues the file; its 202 is on the way.
AcceptUpload(k) ==
  /\ send[k] = "sent" /\ job[k] = "none"
  /\ job' = [job EXCEPT ![k] = "queued"]
  /\ UNCHANGED <<card, ready, send, poll, row, open, visits, banner, drops, order, cut>>

\* markQueued: the first transition of a card installs its ticket.
markQueued(k) == IF card[k] = "uploading" THEN [card EXCEPT ![k] = "queued"] ELSE card

UploadAnswered(k) ==
  /\ send[k] = "sent" /\ job[k] # "none"
  /\ send' = [send EXCEPT ![k] = "done"]
  /\ card' = markQueued(k)
  /\ poll' = [poll EXCEPT ![k] = IF open /\ card[k] = "uploading" THEN "rest" ELSE @]
  /\ UNCHANGED <<ready, server, open, visits, banner, drops, order, cut>>

\* A refusal, a lost answer or a broken connection: markError without a ticket.
UploadFails(k) ==
  /\ send[k] = "sent"
  /\ send' = [send EXCEPT ![k] = "failed"]
  /\ card' = [card EXCEPT ![k] = IF @ = "none" THEN @ ELSE "error"]
  /\ UNCHANGED <<ready, poll, server, open, visits, banner, drops, order, cut>>

-----------------------------------------------------------------------------
(* useUploadSync.                                                          *)

\* Mutant: an answer about a job that is active ends the loop.
Final_Processing == {"processing", "done", "failed", "unknown"}

\* The answers after which follow() returns.
Final == {"done", "failed", "unknown"}

\* The status route reads the job first, with its return value if it has one ...
Ask(k) ==
  /\ poll[k] = "rest"
  /\ poll' = [poll EXCEPT ![k] = CASE job[k] \in {"none", "forgotten"} -> "unknown"
                                   [] job[k] = "done" -> "after"
                                   [] OTHER -> "before"]
  /\ UNCHANGED <<card, ready, send, server, open, visits, banner, drops, order, cut>>

\* ... then its state, as often as it has to: a job that completed in between is
\* answered as failed, for want of a return value.
TicketState(k) ==
  CASE job[k] = "queued" -> "queued"
    [] job[k] = "active" -> "processing"
    [] job[k] = "done" -> IF poll[k] = "after" THEN "done" ELSE "failed"
    [] job[k] = "failed" -> "failed"
    [] OTHER -> "unknown"

ReadState(k) ==
  /\ poll[k] \in {"before", "after"}
  /\ poll' = [poll EXCEPT ![k] = TicketState(k)]
  /\ UNCHANGED <<card, ready, send, server, open, visits, banner, drops, order, cut>>

\* Mutant: the placeholder makes a card of its own, whatever is on the screen.
markReadyMany_Always(k) == [ready EXCEPT ![k] = @ + 1]

\* A model that the banner has restored in the meantime keeps its one card.
markReadyMany(k) == IF ready[k] > 0 THEN ready ELSE [ready EXCEPT ![k] = 1]

Answer(k) ==
  /\ poll[k] \in {"queued", "processing"} \cup Final
  /\ poll' = [poll EXCEPT ![k] = IF @ \in Final THEN "off" ELSE "rest"]
  /\ CASE poll[k] = "done" ->
            /\ card' = [card EXCEPT ![k] = "none"]
            /\ ready' = markReadyMany(k)
       [] poll[k] \in {"failed", "unknown"} ->
            /\ card' = [card EXCEPT ![k] = "error"]
            /\ UNCHANGED ready
       [] OTHER ->
            /\ card' = [card EXCEPT ![k] = poll[k]]
            /\ UNCHANGED ready
  /\ UNCHANGED <<send, server, open, visits, banner, drops, order, cut>>

\* Mutant: any failed poll is the end of the upload.
Retryable_Never == FALSE

\* 429, a server error or a lost connection is retryable.
Retryable == TRUE

\* A poll that fails, wherever it was, fails as its answer.
PollFails(k) ==
  /\ poll[k] \in {"queued", "processing"} \cup Final
  /\ IF Retryable
       THEN poll' = [poll EXCEPT ![k] = "rest"] /\ UNCHANGED card
       ELSE poll' = [poll EXCEPT ![k] = "off"] /\ card' = [card EXCEPT ![k] = "error"]
  /\ UNCHANGED <<ready, send, server, open, visits, banner, drops, order, cut>>

\* Not retryable: a body that was cut off or is no ticket state, any other refusal, a
\* session that has run out.  The loop ends, and the card with it.
PollCut(k) ==
  /\ poll[k] \in {"queued", "processing"} \cup Final
  /\ poll' = [poll EXCEPT ![k] = "off"]
  /\ card' = [card EXCEPT ![k] = "error"]
  /\ cut' = cut \cup {k}
  /\ UNCHANGED <<ready, send, server, open, visits, banner, drops, order>>

-----------------------------------------------------------------------------
(* What the server does meanwhile.  It keeps a settled job for far longer  *)
(* than an open page takes to ask for it.                                  *)

Serve(k) ==
  /\ \/ job[k] = "queued" /\ job' = [job EXCEPT ![k] = "active"] /\ UNCHANGED row
     \/ job[k] = "active" /\ row[k] = "none" /\ row' = [row EXCEPT ![k] = "row"] /\ UNCHANGED job
     \/ job[k] = "active" /\ row[k] # "none" /\ job' = [job EXCEPT ![k] = "done"] /\ UNCHANGED row
     \/ job[k] = "active" /\ row[k] = "none" /\ job' = [job EXCEPT ![k] = "failed"] /\ UNCHANGED row
     \/ job[k] \in {"done", "failed"} /\ (open => ~isIngestPending(k))
        /\ job' = [job EXCEPT ![k] = "forgotten"] /\ UNCHANGED row
  /\ UNCHANGED <<card, ready, send, poll, open, visits, banner, drops, order, cut>>

-----------------------------------------------------------------------------
(* The banner.                                                             *)

\* GET /api/models reads the unattached rows; the answer is applied later.
ReadModels ==
  /\ "asked" \in fetches
  /\ fetches' = {"answered"}
  /\ listed' = Unattached
  /\ UNCHANGED <<card, ready, send, poll, server, open, visits, wipe, drops, order, cut>>

Offered == IF fetches = {"answered"} THEN listed \ OnScreen ELSE {}

\* Mutant: a restored model is added whether or not it is on the screen.
restoreModels_Always == [k \in Files |-> IF k \in listed THEN ready[k] + 1 ELSE ready[k]]

\* Of the models the banner lists, those that are not on the screen by now.
restoreModels == [k \in Files |-> IF k \in listed \ OnScreen THEN 1 ELSE ready[k]]

Restore ==
  /\ open /\ Offered # {} /\ wipe.at = "idle"
  /\ ready' = restoreModels
  /\ UNCHANGED <<card, send, poll, server, open, visits, banner, drops, order, cut>>

\* "Clear queue": the models on the screen are kept, by their server ids.
AskWipe ==
  /\ open /\ Offered # {} /\ wipe.at = "idle"
  /\ wipe' = [at |-> "sent", keep |-> OnScreen]
  /\ UNCHANGED <<card, ready, send, poll, server, open, visits, listed, fetches, drops, order, cut>>

\* DELETE /api/models removes the unattached rest; refresh() follows.
Wipe ==
  /\ wipe.at = "sent"
  /\ row' = [k \in Files |-> IF k \in Unattached \ wipe.keep THEN "gone" ELSE row[k]]
  /\ wipe' = [at |-> "idle", keep |-> {}]
  /\ fetches' = IF open THEN {"asked"} ELSE fetches
  /\ UNCHANGED <<card, ready, send, poll, job, open, visits, listed, drops, order, cut>>

-----------------------------------------------------------------------------
(* Removing cards.                                                         *)

\* onRemove on a card with an error: only the card goes.
RemoveError(k) ==
  /\ open /\ card[k] = "error"
  /\ card' = [card EXCEPT ![k] = "none"]
  /\ UNCHANGED <<ready, send, poll, server, open, visits, banner, drops, order, cut>>

\* onRemove on a ready card waits for the server.
AskRemove(k) ==
  /\ open /\ ready[k] > 0 /\ drops[k] = "none"
  /\ drops' = [drops EXCEPT ![k] = "card"]
  /\ UNCHANGED <<card, ready, send, poll, server, open, visits, banner, order, cut>>

\* DELETE /api/models/[id]: a row that is quoted or gone is an error.
Removed(k) ==
  /\ drops[k] # "none"
  /\ drops' = [drops EXCEPT ![k] = "none"]
  /\ \/ /\ row[k] = "row"
        /\ row' = [row EXCEPT ![k] = "gone"]
        /\ \/ ready' = IF drops[k] = "card" THEN [ready EXCEPT ![k] = 0] ELSE ready
           \/ Lossy /\ UNCHANGED ready
     \/ UNCHANGED <<row, ready>>
  /\ UNCHANGED <<card, send, poll, job, open, visits, banner, order, cut>>

\* Neither the button nor the click goes on while an upload is pending.
MayClear == \A k \in Files : ~isIngestPending(k)

\* "Clear quote": every ready model is deleted behind an empty store.
ClearQuote ==
  /\ open /\ MayClear /\ Cards > 0
  /\ card' = [k \in Files |-> "none"]
  /\ ready' = [k \in Files |-> 0]
  /\ drops' = [k \in Files |-> IF ready[k] > 0 THEN "quote" ELSE drops[k]]
  /\ poll' = [k \in Files |-> "off"]
  /\ UNCHANGED <<send, server, open, visits, banner, order, cut>>

-----------------------------------------------------------------------------
(* Leaving the page, coming back, checking out.                            *)

\* The cards unmount: uploads that are on their way are aborted, polls stop.
Leave ==
  /\ open /\ visits < MaxVisits
  /\ open' = FALSE
  /\ poll' = [k \in Files |-> "off"]
  /\ card' = [k \in Files |-> IF send[k] = "sent" /\ card[k] # "none" THEN "error" ELSE card[k]]
  /\ send' = [k \in Files |-> IF send[k] = "sent" THEN "failed" ELSE send[k]]
  /\ fetches' = {} /\ listed' = {}
  /\ UNCHANGED <<ready, server, visits, wipe, drops, order, cut>>

\* The store has outlived the page; every card with a ticket is followed anew.
\* A DELETE of the last visit has been answered (bound).
Return ==
  /\ ~open /\ wipe.at = "idle"
  /\ open' = TRUE /\ visits' = visits + 1
  /\ poll' = [k \in Files |-> IF card[k] \in {"queued", "processing"} THEN "rest" ELSE "off"]
  /\ fetches' = {"asked"}
  /\ UNCHANGED <<card, ready, send, server, listed, wipe, drops, order, cut>>

\* The details page submits what is ready, once nothing is pending.
Submit ==
  /\ ~open /\ order = {} /\ OnScreen # {} /\ MayClear
  /\ order' = OnScreen
  /\ UNCHANGED <<card, ready, send, poll, server, open, visits, banner, drops, cut>>

\* The quotation takes its models, or is refused; only then is the store cleared.
Submitted ==
  /\ order # {}
  /\ order' = {}
  /\ \/ /\ order \subseteq Unattached
        /\ row' = [k \in Files |-> IF k \in order THEN "quoted" ELSE row[k]]
        /\ card' = [k \in Files |-> "none"]
        /\ ready' = [k \in Files |-> 0]
        /\ poll' = [k \in Files |-> "off"]
     \/ UNCHANGED <<row, card, ready, poll>>
  /\ UNCHANGED <<send, job, open, visits, banner, drops, cut>>

-----------------------------------------------------------------------------
Next ==
  \/ \E k \in Files :
       \/ AddFile(k) \/ BeginUpload(k) \/ AcceptUpload(k) \/ UploadAnswered(k) \/ UploadFails(k)
       \/ Ask(k) \/ ReadState(k) \/ Answer(k) \/ PollFails(k) \/ PollCut(k) \/ Serve(k)
       \/ RemoveError(k) \/ AskRemove(k) \/ Removed(k)
  \/ ReadModels \/ Restore \/ AskWipe \/ Wipe
  \/ ClearQuote \/ Leave \/ Return \/ Submit \/ Submitted

Spec == Init /\ [][Next]_vars

\* Requests end, timers fire, and the worker gets to every job; a poll that is
\* asked for ever is answered now and then.
Fairness ==
  \A k \in Files :
    /\ WF_vars(BeginUpload(k)) /\ WF_vars(UploadAnswered(k) \/ UploadFails(k))
    /\ WF_vars(Ask(k)) /\ WF_vars(ReadState(k)) /\ SF_vars(Answer(k)) /\ WF_vars(Serve(k))

FairSpec == Spec /\ Fairness

-----------------------------------------------------------------------------
TypeOK ==
  /\ card \in [Files -> {"none", "error"} \cup Ingesting]
  /\ ready \in [Files -> Nat]
  /\ send \in [Files -> {"none", "waiting", "sent", "done", "failed"}]
  /\ poll \in [Files -> {"off", "rest", "before", "after", "queued", "processing"} \cup Final]
  /\ job \in [Files -> {"none", "queued", "active", "done", "failed", "forgotten"}]
  /\ row \in [Files -> {"none", "row", "quoted", "gone"}]
  /\ open \in BOOLEAN /\ visits \in 1..MaxVisits
  /\ listed \subseteq Files /\ fetches \subseteq {"asked", "answered"}
  /\ wipe \in [at : {"idle", "sent"}, keep : SUBSET Files]
  /\ drops \in [Files -> {"none", "card", "quote"}]
  /\ order \subseteq Files /\ cut \subseteq Files

\* The banner and the last poll of a ticket may both bring the same stored model:
\* it gets one card (quote-store.ts:151-176, 207-209).
OneCardEach == \A k \in Files : ready[k] <= 1

\* Retryable trouble with the polling is not trouble with the file
\* (use-upload-sync.ts:47-57): an accepted upload ends as an error only once its job is
\* settled, or by an answer that was no state of the ticket.  The job that is settled
\* may have completed: between the two reads of the status route it is answered as
\* failed, and the banner offers its model.
HonestError ==
  \A k \in Files : card[k] = "error" /\ send[k] = "done" =>
    job[k] \in {"done", "failed", "forgotten"} \/ k \in cut

\* A card that is being checked is settled while the page stays open: its ticket is
\* followed to the end, also by a page that was left and opened again.
FollowedToTheEnd ==
  \A k \in Files : isIngestPending(k) ~> ~isIngestPending(k) \/ ~open

\* The banner clears nothing that is on the page: "Preserve every model still on screen"
\* (session-cleanup-banner.tsx:50-52). A row goes behind its card only when the
\* customer removes it. A model that becomes a card between the click and the
\* server's DELETE is not among those to keep, and goes.
OnScreenKept ==
  [][\A k \in Files : row[k] = "row" /\ row'[k] = "gone" /\ drops[k] = "none" => ready[k] = 0]_vars

\* One card for each file, and an error only for a job that is settled.
CardsTrue == TypeOK /\ OneCardEach /\ HonestError
=============================================================================
