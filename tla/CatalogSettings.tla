--------------------------- MODULE CatalogSettings ---------------------------
(***************************************************************************)
(* The catalogue row of the shop's settings and its two writers.  The      *)
(* Catalog editor sends the whole offer, the own-materials editor a name;  *)
(* each handler reads the row, keeps from it what belongs to the other     *)
(* editor, and writes it back whole.  One of the shop's own materials      *)
(* stands for all four; the offer is its switch and one token for the      *)
(* rest.  Its live preset comes and goes beside this, and customers order  *)
(* by what they read of both.                                              *)
(***************************************************************************)
EXTENDS FiniteSets, Naturals

CONSTANTS
  Names,      \* the names the owner may give the material
  Offers,     \* what the rest of the offer may be
  NoName,     \* the material has no name
  Flaky,      \* a read of the row may fail
  MaxSaves    \* bound: saves of either editor

VARIABLES
  stored,     \* the row: name, switch, rest of the offer
  ready,      \* a preset of the material is live
  editor,     \* the Catalog editor: its switch and offer, and whether it has unsaved edits
  shown,      \* what that page was last rendered with: the name, and whether it is ready
  catalogPut, \* the handler of a catalogue save
  namePut,    \* the handler of a name save
  sale,       \* an order that is being judged
  had,        \* what has been true since that order arrived
  saves

vars == <<stored, ready, editor, shown, catalogPut, namePut, sale, had, saves>>

Idle == [at |-> "idle"]
Default == [name |-> NoName, on |-> FALSE, rest |-> CHOOSE o \in Offers : TRUE]

Init ==
  /\ stored = Default /\ ready = FALSE
  /\ editor = [on |-> FALSE, rest |-> Default.rest, dirty |-> FALSE]
  /\ shown = [name |-> NoName, ready |-> FALSE]
  /\ catalogPut = Idle /\ namePut = Idle
  /\ sale = Idle /\ had = {} /\ saves = 0

\* getStoredCatalogAvailability: a failed read is the default offer.
Reads == {stored} \cup (IF Flaky THEN {Default} ELSE {})

\* Mutant: a name is enough.
customMaterialProblem_Named(row, live) == row.name = NoName

\* Why the material cannot be offered yet.
customMaterialProblem(row, live) == row.name = NoName \/ ~live

\* What is true of the offer while an order is looked at.
Facts(row, live) == (IF row.on /\ row.name # NoName THEN {"offered"} ELSE {}) \cup (IF live THEN {"ready"} ELSE {})
Seen(row, live) == IF sale.at = "idle" THEN {} ELSE had \cup Facts(row, live)

-----------------------------------------------------------------------------
(* The Catalog editor and PUT /api/admin/catalog.                          *)

\* A material without a name has no box, and one that is not ready cannot be ticked.
Edit ==
  /\ \/ /\ shown.name # NoName
        /\ editor.on \/ shown.ready
        /\ editor' = [editor EXCEPT !.on = ~@, !.dirty = TRUE]
     \/ \E o \in Offers \ {editor.rest} : editor' = [editor EXCEPT !.rest = o, !.dirty = TRUE]
  /\ UNCHANGED <<stored, ready, shown, catalogPut, namePut, sale, had, saves>>

SaveCatalog ==
  /\ editor.dirty /\ catalogPut = Idle /\ saves < MaxSaves
  /\ catalogPut' = [at |-> "sent", on |-> editor.on, rest |-> editor.rest]
  /\ saves' = saves + 1
  /\ UNCHANGED <<stored, ready, editor, shown, namePut, sale, had>>

\* The switch-on check; the answer to a refusal leaves the editor dirty.
CheckCatalog ==
  /\ catalogPut.at = "sent"
  /\ \E row \in Reads :
       LET wanted == [row EXCEPT !.on = catalogPut.on]
       IN catalogPut' = IF wanted.on /\ ~row.on /\ customMaterialProblem(wanted, ready)
                          THEN Idle
                          ELSE [at |-> "checked", on |-> catalogPut.on, rest |-> catalogPut.rest, row |-> row]
  /\ UNCHANGED <<stored, ready, editor, shown, namePut, sale, had, saves>>

\* saveCatalogAvailability reads again, unless the request has its first read cached.
RereadCatalog ==
  /\ catalogPut.at = "checked"
  /\ \E row \in Reads : catalogPut' = [catalogPut EXCEPT !.row = row]
  /\ UNCHANGED <<stored, ready, editor, shown, namePut, sale, had, saves>>

\* The names are kept from what was read; the answer is "saved" whatever was typed since.
WriteCatalog ==
  /\ catalogPut.at = "checked"
  /\ stored' = [name |-> catalogPut.row.name, on |-> catalogPut.on, rest |-> catalogPut.rest]
  /\ had' = Seen(stored', ready)
  /\ catalogPut' = Idle
  /\ editor' = [editor EXCEPT !.dirty = FALSE]
  /\ shown' = [name |-> stored'.name, ready |-> ready]
  /\ UNCHANGED <<ready, namePut, sale, saves>>

-----------------------------------------------------------------------------
(* The own-materials editor and PUT /api/admin/custom-materials.           *)

SaveName ==
  /\ namePut = Idle /\ saves < MaxSaves
  /\ \E n \in (Names \cup {NoName}) \ {shown.name} : namePut' = [at |-> "sent", name |-> n]
  /\ saves' = saves + 1
  /\ UNCHANGED <<stored, ready, editor, shown, catalogPut, sale, had>>

ReadName ==
  /\ namePut.at = "sent"
  /\ \E row \in Reads : namePut' = [at |-> "read", name |-> namePut.name, row |-> row]
  /\ UNCHANGED <<stored, ready, editor, shown, catalogPut, sale, had, saves>>

\* Clearing the name takes the material off sale.
Renamed(row, n) == [row EXCEPT !.name = n, !.on = @ /\ n # NoName]

WriteName ==
  /\ namePut.at = "read"
  /\ stored' = Renamed(namePut.row, namePut.name)
  /\ had' = Seen(stored', ready)
  /\ namePut' = Idle
  /\ shown' = [name |-> namePut.name, ready |-> ready]
  /\ UNCHANGED <<ready, editor, catalogPut, sale, saves>>

-----------------------------------------------------------------------------
(* What happens beside the editors.                                        *)

\* A preset passes its test slice, or the slot goes back to nothing.
PresetChanges ==
  /\ ready' = ~ready
  /\ had' = Seen(stored, ready')
  /\ UNCHANGED <<stored, editor, shown, catalogPut, namePut, sale, saves>>

\* The page is loaded anew, the only time the Catalog editor takes up what is stored;
\* router.refresh renders the rest of it.
Reload ==
  /\ catalogPut = Idle /\ namePut = Idle
  /\ shown' = [name |-> stored.name, ready |-> ready]
  /\ editor' \in {[on |-> stored.on, rest |-> stored.rest, dirty |-> FALSE], editor}
  /\ UNCHANGED <<stored, ready, catalogPut, namePut, sale, had, saves>>

\* An order in the material arrives; getCatalogAvailability reads the row and the
\* live presets, in either order.
Arrive ==
  /\ sale.at = "idle"
  /\ sale' = [at |-> "reads"]
  /\ had' = Facts(stored, ready)
  /\ UNCHANGED <<stored, ready, editor, shown, catalogPut, namePut, saves>>

SaleReads ==
  /\ sale.at = "reads"
  /\ \E row \in Reads :
       sale' = IF "live" \in DOMAIN sale
                 THEN [at |-> "read", row |-> row, live |-> sale.live] ELSE [at |-> "reads", row |-> row]
  /\ UNCHANGED <<stored, ready, editor, shown, catalogPut, namePut, had, saves>>

\* An unreadable list of presets is none.
SaleLooks ==
  /\ sale.at = "reads"
  /\ \E live \in {ready} \cup (IF Flaky THEN {FALSE} ELSE {}) :
       sale' = IF "row" \in DOMAIN sale
                 THEN [at |-> "read", row |-> sale.row, live |-> live] ELSE [at |-> "reads", live |-> live]
  /\ UNCHANGED <<stored, ready, editor, shown, catalogPut, namePut, had, saves>>

\* effectiveAvailability and assertConfigAvailable.
Sold == sale.at = "read" /\ sale.row.on /\ ~customMaterialProblem(sale.row, sale.live)

Answer ==
  /\ sale.at = "read"
  /\ sale' = Idle /\ had' = {}
  /\ UNCHANGED <<stored, ready, editor, shown, catalogPut, namePut, saves>>

-----------------------------------------------------------------------------
Next ==
  \/ Edit \/ SaveCatalog \/ CheckCatalog \/ RereadCatalog \/ WriteCatalog
  \/ SaveName \/ ReadName \/ WriteName
  \/ PresetChanges \/ Reload
  \/ Arrive \/ SaleReads \/ SaleLooks \/ Answer

Spec == Init /\ [][Next]_vars

-----------------------------------------------------------------------------
TypeOK ==
  /\ stored \in [name : Names \cup {NoName}, on : BOOLEAN, rest : Offers]
  /\ ready \in BOOLEAN
  /\ editor \in [on : BOOLEAN, rest : Offers, dirty : BOOLEAN]
  /\ shown \in [name : Names \cup {NoName}, ready : BOOLEAN]
  /\ catalogPut.at \in {"idle", "sent", "checked"} /\ namePut.at \in {"idle", "sent", "read"}
  /\ sale.at \in {"idle", "reads", "read"} /\ had \subseteq {"offered", "ready"}
  /\ saves \in 0..MaxSaves

\* A material is sold only if it was on sale under a name, and had a live preset, while
\* the order was looked at; a preset that failed or a name that was cleared before
\* takes it off sale by itself (catalog-availability.ts:88-98 of the shared package).
SoldOnlyOffered == Sold => had = {"offered", "ready"}

\* "A Catalog save can't undo a rename" (lib/catalog-availability.ts:68-69): what it
\* read, and writes back next, is what the last name save made it.
RenameKept == catalogPut.at = "checked" => catalogPut.row.name = stored.name

\* What customers can order is on offer (packages/shared/src/catalog-availability.ts:88-98).
OfferKept == TypeOK /\ SoldOnlyOffered
=============================================================================
