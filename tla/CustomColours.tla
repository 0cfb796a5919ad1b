--------------------------- MODULE CustomColours ---------------------------
(***************************************************************************)
(* The colours a shop defines itself, in the Catalog editor and in the row *)
(* it saves.  One tab of the editor: what it was rendered with, the edit   *)
(* state on top of it, the little form that adds or changes a colour, the  *)
(* filter under which All and None act, and the save that sends the whole  *)
(* offer while the owner goes on typing.  The handler hardens what it      *)
(* gets; the page takes up the new row only when it is rendered again.     *)
(***************************************************************************)
EXTENDS FiniteSets, Naturals

CONSTANTS
  Materials,  \* the materials of the catalogue
  Palette,    \* [Materials -> the supplier's colours]
  Slugs,      \* [the names an owner may type -> their slugs]
  Texts,      \* [what the hex field may hold -> the colour it spells, or NoHex]
  NoHex,
  Nothing,
  Layers,     \* the layer heights there are
  MaxCustoms, \* MAX_CUSTOM_COLOURS
  MaxAdded,   \* bound: colours added
  MaxSaves    \* bound: saves

VARIABLES
  row,        \* the stored offer
  page,       \* the offer the editor was last rendered with
  state,      \* its edit state
  form,       \* the form of each open material
  dirty, saving,
  put,        \* the offer that a save under way has sent: none, or one
  late,       \* of a save on its way: edits since it was sent, a colour added before it was shown
  added, saves

vars == <<row, page, state, form, dirty, saving, put, late, added, saves>>

Names == DOMAIN Slugs
Hexes == {Texts[t] : t \in DOMAIN Texts} \ {NoHex}
EMPTY_DRAFT == [id |-> Nothing, name |-> Nothing, hex |-> CHOOSE h \in Hexes : TRUE,
                text |-> CHOOSE t \in DOMAIN Texts : Texts[t] = CHOOSE h \in Hexes : TRUE]

\* An offer: the shop's own colours (their order only shows), the colours switched on,
\* and the layer heights.
Offer(customs, on, heights) == [customs |-> customs, on |-> on, heights |-> heights]
Of(offer, m) == {c \in offer.customs : c.material = m}
Ids(customs) == {c.id : c \in customs}

Init ==
  /\ row = Offer({}, Palette, Layers)
  /\ page = row /\ state = row
  /\ form = [m \in Materials |-> EMPTY_DRAFT]
  /\ dirty = FALSE /\ saving = FALSE
  /\ put = {} /\ late = {}
  /\ added = 0 /\ saves = 0

-----------------------------------------------------------------------------
(* The edit state.                                                         *)

\* The supplier's colours, then those of the edit state.
editorColours(m) == Palette[m] \cup Ids(Of(state, m))

mutate(next) ==
  /\ state' = next
  /\ dirty' = TRUE
  /\ late' = late \cup (IF saving THEN {"edited"} ELSE {})
                  \cup (IF (saving \/ page # row) /\ added' > added THEN {"added"} ELSE {})

\* Mutant: an id that the page still shows for a deleted colour is free again.
newCustomColourId_Reused(m, name) ==
  LET used == Ids(state.customs)
      Free(n) == <<m, Slugs[name], n>> \notin used
  IN <<m, Slugs[name], CHOOSE n \in 1..(added + 1) : Free(n) /\ \A k \in 1..(n - 1) : ~Free(k)>>

\* The name seeds the id; a number sets it apart from every id the page was rendered
\* with and every id of the edit state.
newCustomColourId(m, name) ==
  LET used == Ids(page.customs) \cup Ids(state.customs)
      Free(n) == <<m, Slugs[name], n>> \notin used
  IN <<m, Slugs[name], CHOOSE n \in 1..(added + 1) : Free(n) /\ \A k \in 1..(n - 1) : ~Free(k)>>

\* A colour of the edit state is changed in place; a new one is offered at once. What
\* the field showed and a number of its own go with a colour, for the properties.
saveCustom(m, draft) ==
  LET Changed(c) == IF c.id = draft.id
                      THEN [c EXCEPT !.name = draft.name, !.hex = draft.hex, !.text = draft.text] ELSE c
      id == newCustomColourId(m, draft.name)
      new == [id |-> id, name |-> draft.name, hex |-> draft.hex, material |-> m,
              text |-> draft.text, born |-> added + 1]
  IN IF draft.id \in Ids(state.customs)
       THEN [state EXCEPT !.customs = {Changed(c) : c \in @}]
       ELSE [state EXCEPT !.customs = @ \cup {new}, !.on[m] = @ \cup {id}]

deleteCustom(m, id) ==
  [state EXCEPT !.customs = {c \in @ : c.id # id}, !.on[m] = @ \ {id}]

\* The colours a filter leaves: one colour, one name, or all of them.
Shown(m) ==
  {editorColours(m)} \cup {{c} : c \in editorColours(m)}
    \cup {{c.id : c \in {d \in Of(state, m) : d.name = n}} : n \in Names}

\* All and None, over what is shown, and the pill of one colour.
setColours(m) ==
  /\ added' = added
  /\ \E ids \in Shown(m) \ {{}}, on \in BOOLEAN :
       mutate([state EXCEPT !.on[m] = IF on THEN @ \cup ids ELSE @ \ ids])
  /\ UNCHANGED <<row, page, form, saving, put, saves>>

\* Mutant: the last height can be unticked.
LastStays_Not(h) == TRUE

\* The box of the last height is disabled.
LastStays(h) == state.heights # {h}

ToggleHeight ==
  /\ added' = added
  /\ \E h \in Layers :
       /\ LastStays(h)
       /\ mutate([state EXCEPT !.heights = IF h \in @ THEN @ \ {h} ELSE @ \cup {h}])
  /\ UNCHANGED <<row, page, form, saving, put, saves>>

-----------------------------------------------------------------------------
(* The form of a material's own colours.                                   *)

\* The field keeps what was typed; only a complete code changes the colour.
setHex(draft, text) ==
  IF Texts[text] # NoHex THEN [draft EXCEPT !.text = text, !.hex = Texts[text]]
                         ELSE [draft EXCEPT !.text = text]

\* The name, the hex field or the picker, the pencil of a colour, and Cancel.
EditForm(m) ==
  /\ \/ \E n \in Names \ {form[m].name} : form' = [form EXCEPT ![m].name = n]
     \/ \E t \in DOMAIN Texts \ {form[m].text} : form' = [form EXCEPT ![m] = setHex(@, t)]
     \/ \E c \in Of(state, m) :
          /\ c.id # form[m].id
          /\ form' = [form EXCEPT ![m] = [id |-> c.id, name |-> c.name, hex |-> c.hex,
                        text |-> CHOOSE t \in DOMAIN Texts : Texts[t] = c.hex]]
     \/ form[m].id # Nothing /\ form' = [form EXCEPT ![m] = EMPTY_DRAFT]
  /\ UNCHANGED <<row, page, state, dirty, saving, put, late, added, saves>>

\* Mutant: a new colour may take the colour last spelt.
valid_AnyText(m) ==
  /\ form[m].name # Nothing
  /\ \A c \in Of(state, m) : c.name = form[m].name => c.id = form[m].id

\* A name no other colour of the material has, and a field that shows what is saved.
valid(m) ==
  /\ form[m].name # Nothing
  /\ Texts[form[m].text] # NoHex
  /\ \A c \in Of(state, m) : c.name = form[m].name => c.id = form[m].id

Submit(m) ==
  /\ valid(m)
  /\ IF form[m].id = Nothing THEN added < MaxAdded /\ added' = added + 1 ELSE added' = added
  /\ mutate(saveCustom(m, form[m]))
  /\ form' = [form EXCEPT ![m] = EMPTY_DRAFT]
  /\ UNCHANGED <<row, page, saving, put, saves>>

\* Mutant: the form goes on with the colour that was deleted.
Forgets_Not(draft, id) == draft

\* A form that edits the deleted colour starts afresh.
Forgets(draft, id) == IF draft.id = id THEN EMPTY_DRAFT ELSE draft

Delete(m) ==
  /\ added' = added
  /\ \E c \in Of(state, m) :
       /\ form' = [form EXCEPT ![m] = Forgets(@, c.id)]
       /\ mutate(deleteCustom(m, c.id))
  /\ UNCHANGED <<row, page, saving, put, saves>>

\* A folded material, or one without a match, forgets its form.
Fold(m) ==
  /\ form[m] # EMPTY_DRAFT
  /\ form' = [form EXCEPT ![m] = EMPTY_DRAFT]
  /\ UNCHANGED <<row, page, state, dirty, saving, put, late, added, saves>>

-----------------------------------------------------------------------------
(* The save.                                                               *)

\* What is sent: of each material the colours the editor shows as switched on.
Body == [state EXCEPT !.on = [m \in Materials |-> @[m] \cap editorColours(m)]]

save ==
  /\ dirty /\ ~saving /\ saves < MaxSaves
  /\ put' = {Body}
  /\ saving' = TRUE /\ late' = late \ {"edited"} /\ saves' = saves + 1
  /\ UNCHANGED <<row, page, state, form, dirty, added>>

\* Only colours of the material's palette and its own stay on; no height means all.
normalizeAvailability(body) ==
  [body EXCEPT !.on = [m \in Materials |-> @[m] \cap (Palette[m] \cup Ids(Of(body, m)))],
               !.heights = IF @ = {} THEN Layers ELSE @]

\* Too many colours are refused outright; anything else is stored.
PUT ==
  /\ \E body \in put :
       IF Cardinality(body.customs) > MaxCustoms
         THEN UNCHANGED <<row, dirty>>
         ELSE row' = normalizeAvailability(body) /\ dirty' = FALSE
  /\ put' = {} /\ saving' = FALSE
  /\ UNCHANGED <<page, state, form, late, added, saves>>

\* The refusal of a lost connection: what was stored is not known to the editor.
Lost ==
  /\ put # {}
  /\ row' \in {row} \cup {normalizeAvailability(body) : body \in {b \in put : Cardinality(b.customs) <= MaxCustoms}}
  /\ put' = {} /\ saving' = FALSE
  /\ UNCHANGED <<page, state, form, dirty, late, added, saves>>

\* router.refresh after the answer, or another editor's: the page is rendered with the
\* row of now, the edit state stays.
Refresh ==
  /\ page # row
  /\ page' = row
  /\ UNCHANGED <<row, state, form, dirty, saving, put, late, added, saves>>

\* toEditState: the page is loaded anew.
Load ==
  /\ put = {}
  /\ <<page, state, form, dirty, late>> # <<row, row, [m \in Materials |-> EMPTY_DRAFT], FALSE, {}>>
  /\ page' = row /\ state' = row
  /\ form' = [m \in Materials |-> EMPTY_DRAFT]
  /\ dirty' = FALSE /\ late' = {}
  /\ UNCHANGED <<row, saving, put, added, saves>>

-----------------------------------------------------------------------------
Next ==
  \/ ToggleHeight \/ save \/ PUT \/ Lost \/ Refresh \/ Load
  \/ \E m \in Materials : setColours(m) \/ EditForm(m) \/ Submit(m) \/ Delete(m) \/ Fold(m)

Spec == Init /\ [][Next]_vars

-----------------------------------------------------------------------------
TypeOK ==
  /\ \A o \in {row, page, state} :
       /\ \A m \in Materials : o.on[m] \subseteq Palette[m] \cup Ids(Of(o, m))
       /\ o.heights \in SUBSET Layers
  /\ dirty \in BOOLEAN /\ saving \in BOOLEAN /\ late \subseteq {"edited", "added"}
  /\ saving = (put # {})
  /\ added \in 0..MaxAdded /\ saves \in 0..MaxSaves

\* "unique against `taken`" (custom-colours.ts:47-48): an id stands for one colour in what
\* an owner or a customer is looking at, the row, the page as rendered and the edits on it,
\* however colours were added, renamed, deleted and saved.  The exception: a colour that is
\* added while a save has not come back to the page may take the id of a stored one that
\* was deleted meanwhile.
IdMeansOne ==
  "added" \notin late =>
    \A c, d \in row.customs \cup page.customs \cup state.customs :
      c.id = d.id => c.born = d.born

\* No two colours of a material have one name, so that a customer can tell them apart,
\* and none has a colour other than the one its field showed (catalog-editor.tsx:440).
ToldApart ==
  \A o \in {row, state} : \A c, d \in o.customs :
    /\ Texts[c.text] = c.hex
    /\ c # d => c.id # d.id /\ (c.material = d.material => c.name # d.name)

\* An editor that shows nothing unsaved shows what customers are offered: hardening drops
\* nothing that was on the screen. An edit made while a save is under way is the exception:
\* the answer marks it saved (catalog-editor.tsx:164).
CleanIsStored == ~dirty /\ "edited" \notin late => state = row

\* A customer can pick a layer height and, of a material's colours, only what there is.
Pickable == row.heights # {} /\ \A m \in Materials : row.on[m] \subseteq Palette[m] \cup Ids(Of(row, m))

\* The shop's own colours are what its owner was shown.
ColoursTrue == TypeOK /\ IdMeansOne /\ ToldApart /\ CleanIsStored /\ Pickable
=============================================================================
