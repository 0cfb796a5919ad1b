---------------------------- MODULE MaterialHelper ----------------------------
(***************************************************************************)
(* "Help me choose": needs, four built in and four slots for the owner's   *)
(* own, and how each material rates on each. Admin -> Filament -> Material *)
(* helper edits and stores them; on the quote page the customer ticks      *)
(* needs, and the best rated material on sale is picked, with a line that  *)
(* says why.                                                               *)
(***************************************************************************)
EXTENDS Integers, FiniteSets, SequencesExt

CONSTANTS
  Catalog,    \* the materials, in the order of the catalogue
  BuiltIn,    \* BUILT_IN_NEEDS
  Slots,      \* OWN_NEEDS
  Defaults,   \* DEFAULT_NEED_SCORES, of every material
  Rate,       \* sellPerGramPaise of each material
  Labels,     \* names the owner may give a need
  Blank,      \* a need without a name
  Rateable,   \* bound: the ratings the owner changes
  Blobs,      \* rows of other versions and of backups, before they are hardened
  MaxEdits,   \* bound: edits between two saves
  MaxSaves,
  MaxPages,   \* bound: pages that are opened
  Null

VARIABLES
  row,        \* the setting as stored, or Null
  form,       \* the editor's state
  dirty,
  put,        \* the save under way: what was sent, and what the server answered
  edits, saves,
  reused,     \* slots that a need was added to in this editor, and not rated since
  page,       \* the helper of the customer's page and the materials it offers, or Null
  ticked, picked, noMatch,
  material    \* the material of the part

editorVars == <<form, dirty, put, edits, saves, reused>>
pageVars == <<page, ticked, picked, noMatch, material>>
vars == <<row, editorVars, pageVars>>

-----------------------------------------------------------------------------
(* The setting: how a stored one is hardened, and what a customer gets.  *)

Ids == Range(Catalog)
NeedIds == BuiltIn \cup Slots

defaultMaterialHelper ==
  [enabled |-> TRUE, builtIn |-> [n \in BuiltIn |-> TRUE], own |-> <<>>, scores |-> Defaults]

\* Mutant: a rating that is missing is none.
Rating_Zero(raw, m, n) == IF m \in DOMAIN raw.scores /\ n \in DOMAIN raw.scores[m] THEN raw.scores[m][n] ELSE 0

\* What is missing or no rating keeps its default.
Rating(raw, m, n) ==
  IF m \in DOMAIN raw.scores /\ n \in DOMAIN raw.scores[m] /\ raw.scores[m][n] \in 0..3
    THEN raw.scores[m][n] ELSE Defaults[m][n]

\* A need without a name is dropped.
normalizeMaterialHelper(raw) ==
  [enabled |-> IF "enabled" \in DOMAIN raw THEN raw.enabled ELSE TRUE,
   builtIn |-> [n \in BuiltIn |-> IF n \in DOMAIN raw.builtIn THEN raw.builtIn[n] ELSE TRUE],
   own |-> Restrict(raw.own, {s \in DOMAIN raw.own : raw.own[s].label # Blank}),
   scores |-> [m \in Ids |-> [n \in NeedIds |-> Rating(raw, m, n)]]]

\* A read that fails yields the defaults.
InForce == IF row = Null THEN defaultMaterialHelper ELSE normalizeMaterialHelper(row)
Reads == {defaultMaterialHelper, InForce}

\* The needs a customer can tick, and the ratings above zero of what is offered; or Null.
toPublicMaterialHelper(settings, offered) ==
  LET needs == {n \in BuiltIn : settings.builtIn[n]} \cup {s \in DOMAIN settings.own : settings.own[s].on}
  IN IF ~settings.enabled \/ needs = {} \/ offered = {} THEN Null
     ELSE [needs |-> [n \in needs |-> IF n \in Slots THEN settings.own[n].label ELSE n],
           scores |-> [m \in offered |-> Restrict(settings.scores[m], {n \in needs : settings.scores[m][n] > 0})]]

Rated(scores, m, n) == IF m \in DOMAIN scores /\ n \in DOMAIN scores[m] THEN scores[m][n] ELSE 0

-----------------------------------------------------------------------------
(* The editor.                                                           *)

Init ==
  /\ row \in {Null} \cup Blobs
  /\ form = InForce /\ dirty = FALSE /\ put = Null /\ edits = 0 /\ saves = 0 /\ reused = {}
  /\ page = Null
  /\ ticked = {} /\ picked = Null /\ noMatch = FALSE /\ material = Catalog[1]

mutate(next) ==
  /\ edits < MaxEdits /\ edits' = edits + 1
  /\ form' = next /\ dirty' = TRUE
  /\ UNCHANGED <<row, put, saves>>

Switch ==
  /\ UNCHANGED reused
  /\ \/ mutate([form EXCEPT !.enabled = ~@])
     \/ \E n \in BuiltIn : mutate([form EXCEPT !.builtIn[n] = ~@])
     \/ \E s \in DOMAIN form.own : mutate([form EXCEPT !.own[s].on = ~@])

\* A free slot is taken; which of them makes no difference.
addNeed ==
  \E s \in Slots \ DOMAIN form.own :
    /\ mutate([form EXCEPT !.own = [t \in DOMAIN @ \cup {s} |-> IF t = s THEN [label |-> Blank, on |-> TRUE] ELSE @[t]]])
    /\ reused' = reused \cup {s}

Rename ==
  \E s \in DOMAIN form.own, label \in Labels \cup {Blank} :
    mutate([form EXCEPT !.own[s].label = label]) /\ UNCHANGED reused

\* Mutant: the ratings of the slot stay.
removeNeed_Kept(s) ==
  mutate([form EXCEPT !.own = Restrict(@, DOMAIN @ \ {s})]) /\ reused' = reused \ {s}

\* A need that is added later in the slot starts unrated.
removeNeed(s) ==
  /\ mutate([form EXCEPT !.own = Restrict(@, DOMAIN @ \ {s}),
                         !.scores = [m \in Ids |-> Restrict(@[m], DOMAIN @[m] \ {s})]])
  /\ reused' = reused \ {s}

\* A rating of a material on sale, on a need that is on.
Score ==
  \E cell \in Rateable, score \in {0, 3} :
    /\ IF cell[2] \in BuiltIn THEN form.builtIn[cell[2]]
       ELSE cell[2] \in DOMAIN form.own /\ form.own[cell[2]].on
    /\ mutate([form EXCEPT !.scores[cell[1]] = [n \in DOMAIN @ \cup {cell[2]} |-> IF n = cell[2] THEN score ELSE @[n]]])
    /\ reused' = reused \ {cell[2]}

\* The whole form is sent; the button wants changes and a name for every need.
save ==
  /\ put = Null /\ dirty /\ saves < MaxSaves
  /\ \A s \in DOMAIN form.own : form.own[s].label # Blank
  /\ put' = [body |-> form, answer |-> Null] /\ saves' = saves + 1
  /\ UNCHANGED <<row, form, dirty, edits, reused>>

\* PUT /api/admin/material-helper: stored normalized, and answered with it.
PUT ==
  /\ put # Null /\ put.answer = Null
  /\ row' = normalizeMaterialHelper(put.body)
  /\ put' = [put EXCEPT !.answer = row']
  /\ UNCHANGED <<form, dirty, edits, saves, reused>>

\* Mutant: what is shown is what was typed.
Answered_Form(data) == UNCHANGED form

\* setState(data)
Answered(data) == form' = data

\* The answer, or the end of a request that failed or whose answer was lost.
saveAnswered ==
  /\ put # Null /\ put' = Null
  /\ \/ put.answer # Null /\ Answered(put.answer) /\ dirty' = FALSE /\ edits' = 0 /\ reused' = {}
     \/ UNCHANGED <<form, dirty, edits, reused>>
  /\ UNCHANGED <<row, saves>>

-----------------------------------------------------------------------------
(* The pick.                                                             *)

Total(scores, m, needs) == SumFunction([n \in needs |-> Rated(scores, m, n)])

\* Mutant: the dearer one on a tie.
Better_Later(best, m, needs, scores) ==
  LET total == Total(scores, m, needs)
  IN IF total = 0 THEN best
     ELSE IF best = Null \/ total >= Total(scores, best, needs) THEN m ELSE best

\* One turn of the loop: a higher total, or the same at a lower rate, takes the place.
Better(best, m, needs, scores) ==
  LET total == Total(scores, m, needs)
      best_total == Total(scores, best, needs)
  IN IF total = 0 THEN best
     ELSE IF best = Null \/ total > best_total \/ (total = best_total /\ Rate[m] < Rate[best]) THEN m
     ELSE best

\* The candidates are what is offered, in the order of the catalogue.
pickMaterial(needs, candidates, scores) ==
  FoldLeft(LAMBDA best, m : IF m \in candidates THEN Better(best, m, needs, scores) ELSE best, Null, Catalog)

\* The line: what the pick is rated on each ticked need, by the needs' names.
describePick(pick, needs, helper) ==
  [n \in needs |-> [named |-> IF n \in DOMAIN helper.needs THEN helper.needs[n] ELSE n,
                    score |-> Rated(helper.scores, pick, n)]]

-----------------------------------------------------------------------------
(* The quote page.                                                       *)

\* The page is rendered with what is saved and on sale at this moment, and keeps it: a
\* material that is not on sale falls back to the first.
Open ==
  /\ page = Null /\ MaxPages > 0
  /\ \E onSale \in SUBSET Ids \ {{}}, chosen \in Ids :
       /\ \E settings \in Reads :
            page' = [helper |-> toPublicMaterialHelper(settings, onSale), offered |-> onSale]
       /\ material' = IF chosen \in onSale THEN chosen
                      ELSE Catalog[Min({i \in DOMAIN Catalog : Catalog[i] \in onSale})]
  /\ UNCHANGED <<ticked, picked, noMatch>>

Shown == page # Null /\ page.helper # Null /\ Cardinality(page.offered) > 1

\* A tick, or its end: the pick is made anew, and selected.
toggle(n) ==
  /\ Shown /\ n \in DOMAIN page.helper.needs
  /\ ticked' = IF n \in ticked THEN ticked \ {n} ELSE ticked \cup {n}
  /\ LET pick == pickMaterial(ticked', page.offered, page.helper.scores)
     IN /\ noMatch' = (ticked' # {} /\ pick = Null)
        /\ picked' = IF pick = Null THEN Null
                     ELSE [id |-> pick, reason |-> describePick(pick, ticked', page.helper)]
        /\ material' = IF pick = Null THEN material ELSE pick
  /\ UNCHANGED page

\* The customer chooses by hand.
chooseMaterial ==
  /\ page # Null /\ \E m \in page.offered : material' = m
  /\ UNCHANGED <<page, ticked, picked, noMatch>>

\* Mutant: the line stays when the material is changed.
Reason_Kept == IF picked = Null THEN Null ELSE picked

Reason == IF picked = Null \/ picked.id # material THEN Null ELSE picked

-----------------------------------------------------------------------------
Editing ==
  \/ Switch \/ addNeed \/ Rename \/ Score \/ save \/ PUT \/ saveAnswered
  \/ \E s \in DOMAIN form.own : removeNeed(s)

Choosing ==
  \/ Open \/ chooseMaterial
  \/ \E n \in NeedIds : toggle(n)

Next ==
  \/ Editing /\ UNCHANGED pageVars
  \/ Choosing /\ UNCHANGED <<row, editorVars>>

Spec == Init /\ [][Next]_vars

-----------------------------------------------------------------------------
\* A need that was added and never rated helps no material, whatever the slot was used
\* for before (material-helper-editor.tsx:57-62).
StartsUnrated ==
  \A s \in reused, m \in Ids : Rated(form.scores, m, s) = 0

\* The editor shows what is stored once nothing is said to be unsaved, though a save
\* was answered after more was typed; and a damaged row is read as one that is complete
\* (material-helper-editor.tsx:78-79, material-helper.ts:96-98).
SettledShown ==
  /\ ~dirty /\ put = Null => form = InForce
  /\ \A settings \in Reads, m \in Ids, n \in BuiltIn :
       row # Null /\ ~(m \in DOMAIN row.scores /\ n \in DOMAIN row.scores[m] /\ row.scores[m][n] \in 0..3)
         => settings.scores[m][n] = Defaults[m][n]

NeedsKept == StartsUnrated /\ SettledShown

\* A pick is offered and rated, none offered totals more, and of those that total the
\* same it is the cheapest, and the first of those (material-helper.ts:179-183).
PickedBest ==
  picked # Null =>
    LET scores == page.helper.scores
        total(m) == Total(scores, m, ticked)
        place(m) == CHOOSE i \in DOMAIN Catalog : Catalog[i] = m
    IN /\ picked.id \in DOMAIN scores /\ total(picked.id) > 0
       /\ \A m \in DOMAIN scores \ {picked.id} :
            \/ total(m) < total(picked.id)
            \/ total(m) = total(picked.id) /\ Rate[m] > Rate[picked.id]
            \/ /\ total(m) = total(picked.id) /\ Rate[m] = Rate[picked.id]
               /\ place(m) > place(picked.id)

\* The line that is shown is about the selected material, and says of every ticked
\* need how it is rated on it, none left out; that no material is made for the ticked
\* needs is said only when none is (material-helper.tsx:45-55, 92-94).
ReasonFits ==
  /\ Reason # Null =>
       Reason.reason = [n \in ticked |-> [named |-> page.helper.needs[n],
                                         score |-> Rated(page.helper.scores, material, n)]]
  /\ noMatch <=> /\ ticked # {}
                 /\ \A m \in page.offered, n \in ticked : Rated(page.helper.scores, m, n) = 0

HelperTrue == PickedBest /\ ReasonFits

ChooserTrue == NeedsKept /\ HelperTrue
=============================================================================
