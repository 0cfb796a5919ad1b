---------------------------- MODULE OwnMaterials ----------------------------
(***************************************************************************)
(* One of the shop's own materials in its editor: a name and a text for    *)
(* /materials, and a filament preset, started from one of OrcaSlicer's     *)
(* generics with the density in the box or sent as a file, that the worker *)
(* tests before it goes live.  The editor shows the answer it got last,    *)
(* polls while a test runs, its own or another slot's, and drops what was  *)
(* chosen in the boxes once it is sent.  Answers travel: they may be lost, *)
(* and an older one may come after a newer one.                            *)
(***************************************************************************)
EXTENDS Integers, Sequences, FiniteSetsExt

CONSTANTS
  Generics,    \* ORCA_GENERIC_FILAMENTS, in order
  Densities,   \* what the density box may hold within its limits
  Files,       \* the presets an owner may upload: [generic, density]
  MaxSent,     \* bound: presets, names and texts sent
  MaxCalls,    \* bound: calls and answers on their way at once
  MaxLost,     \* bound: calls and answers lost
  None

VARIABLES
  attempts,    \* the stored presets of the slot, oldest first
  other,       \* a test of another slot is under way
  stored,      \* the name and the text in the row
  page,        \* what of them the page was rendered with
  shown,       \* the state of the profiles the editor holds
  box,         \* what was chosen in the boxes and not sent
  touched,     \* something was chosen since a preset was answered
  pending,     \* the editor takes a call of this material to be under way
  calls,       \* the calls under way and the answers on their way back
  saves,       \* presets, names and texts sent so far
  lost,
  astray       \* an answer was lost, refused or overtaken since the page was loaded

vars == <<attempts, other, stored, page, shown, box, touched, pending, calls, saves, lost, astray>>

Boxes == [generic |-> None, density |-> None]
Unnamed == [name |-> None, guide |-> None]

-----------------------------------------------------------------------------
(* The server.                                                             *)

Where(rows, status) == {i \in DOMAIN rows : rows[i].status = status}

\* Mutant: a failure counts although a later preset has gone live.
failedLater_Ever(rows) == Where(rows, "FAILED") # {}

\* The latest attempt that is not retired failed, after what is live.
failedLater(rows) ==
  LET kept == DOMAIN rows \ Where(rows, "RETIRED")
  IN kept # {} /\ Max(kept) \in Where(rows, "FAILED")

\* What is said of the slot: what its live preset and the one in test were made with,
\* whether the last one failed, and whether any test is under way.  The version orders
\* the states of the server, by the steps their presets have made (stored, tested,
\* retired), and is not part of what is said.
getSlicerProfilesState(rows, elsewhere) ==
  LET Made(s) == IF Where(rows, s) = {} THEN None ELSE rows[Max(Where(rows, s))].made
      steps == 2 * Len(rows) - Cardinality(Where(rows, "PENDING")) + Cardinality(Where(rows, "RETIRED"))
  IN [live |-> Made("ACTIVE"), pending |-> Made("PENDING"), lastError |-> failedLater(rows),
      busy |-> elsewhere \/ Where(rows, "PENDING") # {},
      version |-> IF elsewhere THEN steps ELSE steps + 1]

\* The rows of the slot once one of them passes its test: the one it replaces retires.
GoesLive(rows, i) ==
  [k \in DOMAIN rows |->
     CASE k = i -> [rows[k] EXCEPT !.status = "ACTIVE"]
       [] rows[k].status = "ACTIVE" -> [rows[k] EXCEPT !.status = "RETIRED"]
       [] OTHER -> rows[k]]

\* The worker's verdict on one preset; another slot's test ends.
Verdict ==
  /\ \/ \E i \in Where(attempts, "PENDING") :
          attempts' \in {GoesLive(attempts, i), [attempts EXCEPT ![i].status = "FAILED"]}
        /\ other' = other
     \/ other /\ other' = FALSE /\ attempts' = attempts
  /\ UNCHANGED <<stored, page, shown, box, touched, pending, calls, saves, lost, astray>>

-----------------------------------------------------------------------------
(* What the boxes show, and what is done with them.                        *)

\* What was chosen, else what the preset in test, else the live one, was made with.
ShownBox(field, otherwise) ==
  IF box[field] # None THEN box[field]
  ELSE IF shown.pending # None /\ shown.pending[field] # None THEN shown.pending[field]
  ELSE IF shown.live # None /\ shown.live[field] # None THEN shown.live[field]
  ELSE otherwise

shownGeneric == ShownBox("generic", Generics[1])
shownDensity == ShownBox("density", None)

Type ==
  /\ page.name # None
  /\ \/ \E g \in {Generics[i] : i \in DOMAIN Generics} \ {shownGeneric} : box' = [box EXCEPT !.generic = g]
     \/ \E d \in Densities \ {shownDensity} : box' = [box EXCEPT !.density = d]
  /\ touched' = TRUE
  /\ UNCHANGED <<attempts, other, stored, page, shown, pending, calls, saves, lost, astray>>

Call(kind, body) == [kind |-> kind, at |-> "sent", body |-> body]
Calls(kind) == {c \in calls : c.kind = kind}

\* run: the buttons of the material rest while a call of it is taken to be under way ...
run(kind, body) ==
  /\ ~pending /\ pending' = TRUE
  /\ Call(kind, body) \notin calls /\ Cardinality(calls) < MaxCalls
  /\ calls' = calls \cup {Call(kind, body)}

\* ... and a call of any other material, begun or ended, ends that for all.
OtherRow ==
  /\ pending /\ pending' = FALSE
  /\ UNCHANGED <<attempts, other, stored, page, shown, box, touched, calls, saves, lost, astray>>

testing == shown.pending # None
Spend == saves < MaxSent /\ saves' = saves + 1

\* "Use this" wants a density, "Upload your preset" a file.
SendPreset ==
  /\ page.name # None /\ ~testing /\ Spend
  /\ \/ shownDensity # None /\ run("preset", [generic |-> shownGeneric, density |-> shownDensity])
     \/ \E f \in Files : run("preset", f)
  /\ UNCHANGED <<attempts, other, stored, page, shown, box, touched, lost, astray>>

removeProfile ==
  /\ page.name # None /\ shown.live # None
  /\ run("remove", None)
  /\ UNCHANGED <<attempts, other, stored, page, shown, box, touched, saves, lost, astray>>

\* A name is typed or cleared, a text written or emptied.
SaveText ==
  /\ Spend
  /\ \/ \E n \in {None, "name"} \ {page.name} : run("name", n)
     \/ page.name # None /\ \E g \in {None, "guide"} \ {page.guide} : run("guide", g)
  /\ UNCHANGED <<attempts, other, stored, page, shown, box, touched, lost, astray>>

\* The editor polls while it is told of a test, of whichever slot.
Polls == shown.busy

\* An unanswered poll does not hold up the next.
Poll ==
  /\ Polls /\ Call("poll", None) \notin calls /\ Cardinality(calls) < MaxCalls
  /\ calls' = calls \cup {Call("poll", None)}
  /\ UNCHANGED <<attempts, other, stored, page, shown, box, touched, pending, saves, lost, astray>>

-----------------------------------------------------------------------------
(* The handlers.                                                           *)

Answered(c, answer) ==
  calls' = (calls \ {c}) \cup {[kind |-> c.kind, at |-> "answered", body |-> answer]}

\* GET answers with the state of now; DELETE retires what is live and answers with it.
Serve ==
  /\ \E c \in {d \in calls : d.at = "sent" /\ d.kind \in {"poll", "remove"}} :
       /\ IF c.kind = "remove"
            THEN attempts' = [i \in DOMAIN attempts |->
                   IF attempts[i].status = "ACTIVE" THEN [attempts[i] EXCEPT !.status = "RETIRED"] ELSE attempts[i]]
            ELSE attempts' = attempts
       /\ Answered(c, getSlicerProfilesState(attempts', other))
  /\ UNCHANGED <<other, stored, page, shown, box, touched, pending, saves, lost, astray>>

\* The preset is stored and its test queued; a queue that does not answer fails it and
\* the request is refused.
ServePreset ==
  /\ \E c \in Calls("preset"), status \in {"PENDING", "FAILED"} :
       /\ c.at = "sent"
       /\ attempts' = Append(attempts, [made |-> c.body, status |-> status])
       /\ Answered(c, IF status = "PENDING" THEN getSlicerProfilesState(attempts', other) ELSE None)
  /\ UNCHANGED <<other, stored, page, shown, box, touched, pending, saves, lost, astray>>

\* saveCustomMaterials reads the row ...
ReadRow ==
  /\ \E c \in {d \in calls : d.at = "sent" /\ d.kind \in {"name", "guide"}} :
       calls' = (calls \ {c}) \cup {[kind |-> c.kind, at |-> "read", body |-> c.body, row |-> stored]}
  /\ UNCHANGED <<attempts, other, stored, page, shown, box, touched, pending, saves, lost, astray>>

\* Mutant: a cleared name leaves its text behind.
Saved_KeepsText(row, kind, text) ==
  IF kind = "name" THEN [row EXCEPT !.name = text]
  ELSE IF row.name = None THEN row ELSE [row EXCEPT !.guide = text]

\* An empty name takes the text along; a text needs a name.
Saved(row, kind, text) ==
  CASE kind = "name" /\ text = None -> Unnamed
    [] kind = "name" /\ text # None -> [row EXCEPT !.name = text]
    [] kind = "guide" /\ row.name = None -> row
    [] OTHER -> [row EXCEPT !.guide = text]

\* ... and writes it whole; a text without a name is refused.
WriteRow ==
  /\ \E c \in {d \in calls : d.at = "read"} :
       /\ stored' = Saved(c.row, c.kind, c.body)
       /\ Answered(c, IF c.kind = "guide" /\ c.body # None /\ c.row.name = None THEN None ELSE "saved")
  /\ UNCHANGED <<attempts, other, page, shown, box, touched, pending, saves, lost, astray>>

-----------------------------------------------------------------------------
(* The answers.                                                            *)

\* Mutant: the boxes keep what was chosen.
settle_Not(b) == b

\* What was sent is dropped, with what was chosen since.
settle(b) == Boxes

\* An answer with a state of the profiles is shown; one that refuses is told.
Answer ==
  /\ \E c \in {d \in calls : d.at = "answered"} :
       /\ calls' = calls \ {c}
       /\ pending' = IF c.kind = "poll" THEN pending ELSE FALSE
       /\ box' = IF c.kind = "preset" /\ c.body # None THEN settle(box) ELSE box
       /\ touched' = (touched /\ ~(c.kind = "preset" /\ c.body # None))
       /\ IF c.kind \in {"name", "guide"} \/ c.body = None
            THEN shown' = shown /\ astray' = (astray \/ c.body = None)
            ELSE shown' = c.body /\ astray' = (astray \/ c.body.version < shown.version)
  /\ UNCHANGED <<attempts, other, stored, page, saves, lost>>

\* A call or its answer is lost; the editor goes on as if it had not been made.
Lost ==
  /\ lost < MaxLost /\ lost' = lost + 1
  /\ \E c \in {d \in calls : d.at # "read"} :
       /\ calls' = calls \ {c}
       /\ pending' = IF c.kind = "poll" THEN pending ELSE FALSE
       /\ astray' = (astray \/ c.kind # "poll")
  /\ UNCHANGED <<attempts, other, stored, page, shown, box, touched, saves>>

\* router.refresh renders the names and the texts of now.
Refresh ==
  /\ page # stored
  /\ page' = stored
  /\ UNCHANGED <<attempts, other, stored, shown, box, touched, pending, calls, saves, lost, astray>>

Init ==
  /\ \/ attempts = <<>>
     \/ \E f \in Files, s \in {"ACTIVE", "FAILED"} : attempts = <<[made |-> f, status |-> s]>>
  /\ other = TRUE
  /\ stored = [name |-> "name", guide |-> "guide"] /\ page = stored
  /\ shown = getSlicerProfilesState(attempts, other)
  /\ box = Boxes /\ touched = FALSE /\ pending = FALSE /\ calls = {}
  /\ saves = 0 /\ lost = 0 /\ astray = FALSE

Next ==
  \/ Verdict \/ Type \/ OtherRow \/ SendPreset \/ removeProfile \/ SaveText \/ Poll
  \/ Serve \/ ServePreset \/ ReadRow \/ WriteRow
  \/ Answer \/ Lost \/ Refresh

Spec == Init /\ [][Next]_vars

-----------------------------------------------------------------------------
TypeOK ==
  /\ \A i \in DOMAIN attempts : attempts[i].status \in {"PENDING", "ACTIVE", "FAILED", "RETIRED"}
  /\ other \in BOOLEAN /\ astray \in BOOLEAN
  /\ DOMAIN stored = {"name", "guide"} /\ DOMAIN page = {"name", "guide"}
  /\ pending \in BOOLEAN
  /\ saves \in 0..MaxSent /\ lost \in 0..MaxLost

\* A slot is served by one preset at a time, however tests, removals and uploads meet.
OneLive == Cardinality(Where(attempts, "ACTIVE")) <= 1

\* The copy on /materials belongs to a named material, also when a name and a text are
\* saved side by side (catalog-availability.ts:83-88).
TextHasName == \A r \in {stored, page} : r.guide # None => r.name # None

\* Once the editor has stopped polling and nothing is under way it shows what the server
\* holds, unless an answer was lost, refused or overtaken.
RestsTrue == calls = {} /\ ~shown.busy /\ ~astray => shown = getSlicerProfilesState(attempts, other)

\* "Drop the owner's unsent choices, so the boxes show what was just sent"
\* (custom-materials-editor.tsx:148): until the owner touches them again, the boxes of an
\* editor that is up to date show what the preset in test was made with, a file's density
\* too, also when a file was sent over a density that had been typed.
BoxesTrue ==
  testing /\ ~touched /\ shown = getSlicerProfilesState(attempts, other) =>
      attempts[Max(Where(attempts, "PENDING"))].made.density \in {shownDensity, None}

\* "The last profile didn't pass, so nothing changed": a slot with a preset that passed
\* after every one that failed says nothing of a failure.
FailureTold ==
  shown.lastError /\ ~astray /\ calls = {} /\ ~shown.busy =>
    Where(attempts, "ACTIVE") = {} \/ Max(Where(attempts, "FAILED")) > Max(Where(attempts, "ACTIVE"))

MaterialTold == TypeOK /\ OneLive /\ TextHasName /\ RestsTrue /\ BoxesTrue /\ FailureTold
=============================================================================
