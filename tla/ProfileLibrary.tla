----------------------------- MODULE ProfileLibrary -----------------------------
(***************************************************************************)
(* Where the presets of a shop come from: OrcaSlicer's own library, out of *)
(* which the installer generates a complete set for one printer, and what  *)
(* the owner uploads, one preset or a bundle, which replaces slots of that *)
(* set.  A preset is a function from its keys to their values; "inherits"  *)
(* names its parent.  A name is a sequence of words, "cond" a conjunction  *)
(* of tests on the printer, "plates" the plates a filament has a           *)
(* temperature for, "host" stands for the keys that act beyond slicing.    *)
(***************************************************************************)
EXTENDS Integers, SequencesExt

CONSTANTS
  Libraries,   \* OrcaSlicer's presets in the order of the directory: [kind, vendor, own]
  Machines,    \* the printers that may be asked for, by name
  PresetFiles, \* what may be uploaded: [zip, presets], a preset being [own, folder]
  MaxUploads,  \* bound
  MaxUsed,     \* bound: the sets that are remembered, of which any two are compared
  None

VARIABLES
  library,   \* the presets under the profiles root
  base,      \* the generated set: [files, spec], or None
  advanced,  \* ADVANCED_PROFILES
  rows,      \* the live uploads by slot: [id, flattened, meta]
  batch,     \* the upload that waits for its test, or None
  uploads,   \* how many there were
  used       \* the sets that models were sliced with, each under its printer id

vars == <<library, base, advanced, rows, batch, uploads, used>>

LAYER_HEIGHTS == ("process:120" :> 120) @@ ("process:160" :> 160) @@ ("process:200" :> 200)

\* Four of the tiers: [types, name, exclude].
TIER_FILAMENTS ==
  ("filament:PLA" :> [types |-> {"PLA"}, name |-> {"Generic", "PLA"}, exclude |-> {"Silk"}])
  @@ ("filament:PLA_CF" :> [types |-> {"PLA-CF"}, name |-> {"CF"}, exclude |-> {}])
  @@ ("filament:PETG_PREMIUM" :> [types |-> {"PETG-CF", "PET"}, name |-> {"PETG", "CF"}, exclude |-> {}])
  @@ ("filament:OTHER_1" :> [types |-> {"PETG", "PET"}, name |-> {"Generic", "PETG"}, exclude |-> {"CF"}])

PROCESS_PREFERENCE == ("process:120" :> "Fine") @@ ("process:160" :> "Optimal") @@ ("process:200" :> "Standard")

CUSTOM_FILAMENT_SLOTS == {"filament:OTHER_1"}

Layers == DOMAIN LAYER_HEIGHTS
Tiers == DOMAIN TIER_FILAMENTS
PROFILE_SLOTS == {"machine"} \cup Layers \cup Tiers

slotKind(slot) == IF slot = "machine" THEN "machine" ELSE IF slot \in Layers THEN "process" ELSE "filament"

slotInScope(slot, adv) == slot \in PROFILE_SLOTS /\ (adv \/ slot \in CUSTOM_FILAMENT_SLOTS)

Value(preset, key, default) == IF key \in DOMAIN preset THEN preset[key] ELSE default

\* A sequence's first element of the least rank: what a stable sort puts first.
Best(s, rank(_)) ==
  IF s = <<>> THEN None ELSE s[CHOOSE i \in DOMAIN s : \A k \in DOMAIN s : rank(s[i]) < rank(s[k]) \/ (rank(s[i]) = rank(s[k]) /\ i <= k)]

-----------------------------------------------------------------------------
(* The index.                                                              *)

Named(kind, name) == SelectSeq(library, LAMBDA e : e.kind = kind /\ e.own["name"] = name)

raw(kind, name, vendor) ==
  LET own == SelectSeq(Named(kind, name), LAMBDA e : e.vendor = vendor)
  IN IF own # <<>> THEN own[1] ELSE IF Named(kind, name) # <<>> THEN Named(kind, name)[1] ELSE None

\* Mutant: the parent's keys win, but for the name.
Merged_Parent(child, parent) == ("name" :> child["name"]) @@ ("inst" :> TRUE) @@ parent @@ child

\* "child keys win"
Merged(child, parent) == child @@ parent

Own(preset) == [key \in DOMAIN preset \ {"inherits"} |-> preset[key]]

\* A preset with its chain, or None where a parent is missing or comes round again.
RECURSIVE flatten(_, _, _, _)
flatten(kind, name, vendor, seen) ==
  LET found == raw(kind, name, vendor)
      parent == Value(found.own, "inherits", None)
      rest == flatten(kind, parent, found.vendor, Append(seen, name))
  IN CASE name \in ToSet(seen) \/ found = None -> None
       [] name \notin ToSet(seen) /\ found # None /\ parent = None -> Own(found.own) @@ ("vendor" :> found.vendor)
       [] OTHER -> IF rest = None THEN None ELSE ("vendor" :> found.vendor) @@ Merged(Own(found.own), rest)

\* An uploaded preset: a parent that came with it goes before the library's.
RECURSIVE flattenPreset(_, _, _, _)
flattenPreset(kind, i, peers, seen) ==
  LET parent == Value(peers[i], "inherits", None)
      peer == {k \in DOMAIN peers \ {i} : peers[k]["name"] = parent}
      rest == IF peer # {}
                THEN flattenPreset(kind, CHOOSE k \in peer : \A h \in peer : k <= h, peers, Append(seen, peers[i]["name"]))
                ELSE flatten(kind, parent, None, <<>>)
  IN CASE peers[i]["name"] \in ToSet(seen) -> None
       [] peers[i]["name"] \notin ToSet(seen) /\ parent = None -> Own(peers[i])
       [] OTHER -> IF rest = None THEN None ELSE Merged(Own(peers[i]), rest)

\* Of presets with one name only the first is considered.
instantiable(kind) ==
  LET first == SelectSeq([i \in DOMAIN library |-> i], LAMBDA i :
                 /\ library[i].kind = kind /\ Value(library[i].own, "inst", FALSE)
                 /\ \A k \in 1..(i - 1) : library[k].kind = kind => library[k].own["name"] # library[i].own["name"])
      flat == [n \in DOMAIN first |-> flatten(kind, library[first[n]].own["name"], library[first[n]].vendor, <<>>)]
  IN SelectSeq(flat, LAMBDA p : p # None)

conditionMatches(cond, machine) ==
  \A part \in cond :
    CASE part.form = "notes" -> (part.word \in Value(machine, "notes", {})) = part.is
      [] part.form = "nozzle" -> Value(machine, "nozzles", <<0>>)[1] = part.is
      [] part.form = "mmu" -> Value(machine, "mmu", FALSE)
      [] OTHER -> FALSE

isCompatible(preset, machineName, machine) ==
  IF Value(preset, "printers", {}) # {} THEN machineName \in preset["printers"]
  ELSE conditionMatches(Value(preset, "cond", {}), machine)

Quotable(m) == Value(m, "nozzles", <<0>>) = <<4>> /\ Value(m, "tech", "FFF") = "FFF" /\ Value(m, "bed", 0) > 0

listPrinters == SelectSeq(instantiable("machine"), Quotable)

-----------------------------------------------------------------------------
(* A preset as the shop handles it.                                        *)

plateFor(filament) ==
  LET usable == SelectSeq(<<"Textured PEI Plate", "High Temp Plate", "Cool Plate">>, LAMBDA p : p \in Value(filament, "plates", {}))
  IN IF usable = <<>> THEN "Textured PEI Plate" ELSE usable[1]

presetKind(p) ==
  CASE "type" \in DOMAIN p -> p["type"]
    [] "type" \notin DOMAIN p /\ "bed" \in DOMAIN p -> "machine"
    [] {"type", "bed"} \cap DOMAIN p = {} /\ "material" \in DOMAIN p -> "filament"
    [] {"type", "bed", "material"} \cap DOMAIN p = {} /\ "layer" \in DOMAIN p -> "process"
    [] OTHER -> None

isDroppedKey(key) == key \in {"inherits", "vendor", "host"}

\* A named system preset; a process or a filament is bound to the shop's machine.
cleanProfile(profile, kind, name, machineName) ==
  LET kept == {key \in DOMAIN profile : ~isDroppedKey(key) /\ (kind # "machine" => key # "cond")}
  IN ("type" :> kind) @@ ("name" :> name) @@ ("inst" :> TRUE)
     @@ (IF kind = "machine" THEN <<>> ELSE "printers" :> {machineName})
     @@ [key \in kept |-> profile[key]]

FILAMENT_FAMILY(slot) ==
  CASE slot \in {"filament:PLA", "filament:PLA_CF"} -> {"PLA", "PLA-CF"}
    [] slot = "filament:PETG_PREMIUM" -> {"PETG", "PETG-CF", "PET"}
    [] OTHER -> {"PLA", "PLA-CF", "PETG", "PETG-CF", "PET", "ABS"}

\* Mutant: only the kind is compared.
slotMismatch_Kind(flat, slot) == presetKind(flat) # None /\ presetKind(flat) # slotKind(slot)

slotMismatch(flat, slot) ==
  \/ presetKind(flat) # None /\ presetKind(flat) # slotKind(slot)
  \/ /\ slot = "machine"
     /\ ~(/\ Len(Value(flat, "nozzles", <<0>>)) = 1 /\ Value(flat, "nozzles", <<0>>)[1] \in 2..12
          /\ Value(flat, "tech", "FFF") = "FFF" /\ Value(flat, "bed", 0) > 0)
  \/ slot \in Layers /\ Value(flat, "layer", 0) # LAYER_HEIGHTS[slot]
  \/ slot \in Tiers /\ (Value(flat, "material", None) \notin FILAMENT_FAMILY(slot) \/ Value(flat, "density", 0) <= 0)

-----------------------------------------------------------------------------
(* The installer: a set for one printer.                                   *)

pickProcess(presets, machineName, machine, slot) ==
  LET fits == SelectSeq(presets, LAMBDA p :
                Value(p, "layer", 0) = LAYER_HEIGHTS[slot] /\ isCompatible(p, machineName, machine))
      preferred == SelectSeq(fits, LAMBDA p : PROCESS_PREFERENCE[slot] \in ToSet(p["name"]))
  IN Best(IF preferred # <<>> THEN preferred ELSE fits, LAMBDA p : Len(p["name"]))

Distance(a, b) == IF a < b THEN b - a ELSE a - b

\* The printer's own preset of the nearest height, at the height that is wanted.
Derived(presets, machineName, machine, slot) ==
  LET mine == SelectSeq(presets, LAMBDA p : isCompatible(p, machineName, machine))
      nearest == Best(mine, LAMBDA p : 100 * Distance(Value(p, "layer", 0), LAYER_HEIGHTS[slot]) + Len(p["name"]))
  IN IF nearest = None THEN None
     ELSE ("layer" :> LAYER_HEIGHTS[slot]) @@ ("name" :> <<"derived">> \o nearest["name"]) @@ nearest

pickFilament(filaments, tier, machineName, machine) ==
  LET rule == TIER_FILAMENTS[tier]
      candidates == SelectSeq(filaments, LAMBDA f :
        /\ Value(f, "material", None) \in rule.types
        /\ rule.name \subseteq ToSet(f["name"]) /\ rule.exclude \cap ToSet(f["name"]) = {}
        /\ isCompatible(f, machineName, machine))
      rank(f) == 100 * (CASE f["vendor"] = machine["vendor"] -> 0 [] f["vendor"] = "Library" -> 1 [] OTHER -> 2)
                 + 10 * (IF f["name"][1] = "Generic" THEN 0 ELSE 1) + Len(f["name"])
  IN Best(candidates, rank)

\* The whole set, or None with nothing written.
generateProfiles(machineName) ==
  LET machine == flatten("machine", machineName, None, <<>>)
      processes == instantiable("process")
      filaments == instantiable("filament")
      process == [s \in Layers |->
        LET preset == pickProcess(processes, machineName, machine, s)
        IN IF preset # None THEN preset ELSE Derived(processes, machineName, machine, s)]
      filament == [t \in Tiers |-> pickFilament(filaments, t, machineName, machine)]
  IN IF \/ machine = None \/ ~\E i \in DOMAIN listPrinters : listPrinters[i]["name"] = machineName
        \/ \E s \in Layers : process[s] = None
        \/ \E t \in Tiers : filament[t] = None \/ Value(filament[t], "density", 0) <= 0
       THEN None
     ELSE [files |-> ("machine" :> cleanProfile(machine, "machine", machineName, machineName))
                     @@ [s \in Layers |-> cleanProfile(process[s], "process", process[s]["name"], machineName)]
                     @@ [t \in Tiers |-> cleanProfile(filament[t], "filament", Append(filament[t]["name"], t), machineName)],
           spec |-> [id |-> <<machineName, {}>>, bedMm |-> machine["bed"], nozzle |-> 4,
                     plates |-> [t \in Tiers |-> plateFor(filament[t])],
                     filamentPresets |-> [t \in Tiers |-> filament[t]["name"]]]]

-----------------------------------------------------------------------------
(* The owner: reading an upload.                                           *)

\* The presets that it puts forward, each with its slot or None; None is a refusal.
parseBundle(file, slot) ==
  LET kind(p) == IF presetKind(p.own) # None THEN presetKind(p.own) ELSE p.folder
      Those(k) == SelectSeq(file.presets, LAMBDA p : kind(p) = k)
      Rows(s, presets) == [i \in DOMAIN presets |-> [slot |-> s, own |-> presets[i].own]]
      machines == Those("machine")
      filaments == Those("filament")
  IN CASE Len(machines) = 1 /\ slot \in {None, "machine"} -> Rows("machine", machines) \o Rows(None, Those("process"))
       [] machines = <<>> /\ Len(filaments) = 1 /\ slot \in Tiers -> Rows(slot, filaments)
       [] OTHER -> None

parseProfileUpload(file, slot) ==
  IF file.zip THEN parseBundle(file, slot)
  ELSE IF slot = None \/ presetKind(file.presets[1].own) \notin {None, slotKind(slot)} THEN None
  ELSE <<[slot |-> slot, own |-> file.presets[1].own]>>

\* The route: a bundle for no slot is a whole printer, and what it unpacked to is looked at again.
slotRefused(slot) == IF slot = None THEN ~advanced ELSE ~slotInScope(slot, advanced)

-----------------------------------------------------------------------------
(* The worker: placing what was uploaded.                                  *)

LayerSlot(flat) ==
  LET fits == {s \in Layers : LAYER_HEIGHTS[s] = Value(flat, "layer", 0)} IN IF fits = {} THEN None ELSE CHOOSE s \in fits : TRUE

metaFor(flat, slot, name) ==
  [presetName |-> name]
  @@ (IF slot = "machine" THEN [bedMm |-> flat["bed"], nozzle |-> flat["nozzles"][1]]
      ELSE IF slot \in Tiers THEN [plate |-> plateFor(flat)] ELSE <<>>)

\* A slot that is taken is not taken again.
FreeSlot(plan, slot) == IF slot \in {plan[i].slot : i \in DOMAIN plan} THEN None ELSE slot

\* The presets in their slots, one after the other.
Placed(ordered, flat) ==
  LET Place(plan, i) ==
        LET slot == FreeSlot(plan, IF ordered[i].slot # None THEN ordered[i].slot ELSE LayerSlot(flat[i]))
        IN IF slot = None THEN plan
           ELSE Append(plan, [slot |-> slot, id |-> <<uploads, i>>, flattened |-> flat[i], name |-> ordered[i].own["name"]])
  IN FoldLeft(Place, <<>>, [i \in DOMAIN ordered |-> i])

\* A plan that can be tested.
Sound(plan) ==
  /\ plan # <<>>
  /\ \A i \in DOMAIN plan : ~slotMismatch(plan[i].flattened, plan[i].slot) /\ slotInScope(plan[i].slot, advanced)

\* Aimed presets first; None when one of them cannot be resolved or does not fit.
planBatch(presets) ==
  LET ordered == SelectSeq(presets, LAMBDA p : p.slot # None) \o SelectSeq(presets, LAMBDA p : p.slot = None)
      peers == [i \in DOMAIN ordered |-> ordered[i].own]
      kind(i) == IF presetKind(peers[i]) # None THEN presetKind(peers[i])
                 ELSE IF ordered[i].slot # None THEN slotKind(ordered[i].slot) ELSE "process"
      flat == [i \in DOMAIN ordered |-> flattenPreset(kind(i), i, peers, <<>>)]
  IN IF (\E i \in DOMAIN flat : flat[i] = None) \/ ~Sound(Placed(ordered, flat)) THEN None ELSE Placed(ordered, flat)

\* Mutant: the printer id says which slots are replaced.
profileRevision_Slots(active) == DOMAIN active

profileRevision(active) == {active[s].id : s \in DOMAIN active}

\* Mutant: the plates of the installed filaments stay.
PlateOf_Installed(spec, active, t) == spec.plates[t]

PlateOf(spec, active, t) == IF t \in DOMAIN active THEN active[t].meta.plate ELSE spec.plates[t]

\* What web and worker derive from the same rows.
Active == [s \in {s \in DOMAIN rows : slotInScope(s, advanced)} |-> rows[s]]

applyActiveProfiles(spec, active) ==
  IF active = <<>> THEN spec
  ELSE [spec EXCEPT !.id = <<@[1], profileRevision(active)>>,
          !.bedMm = IF "machine" \in DOMAIN active THEN active["machine"].meta.bedMm ELSE @,
          !.nozzle = IF "machine" \in DOMAIN active THEN active["machine"].meta.nozzle ELSE @,
          !.plates = [t \in Tiers |-> PlateOf(spec, active, t)],
          !.filamentPresets = [t \in Tiers |-> IF t \in DOMAIN active THEN active[t].meta.presetName ELSE spec.filamentPresets[t]]]

\* The base set with the uploads swapped in.
materialiseProfileSet(active) ==
  LET machineName == base.files["machine"]["name"]
      name(s) == IF s = "machine" THEN machineName ELSE active[s].flattened["name"]
  IN [s \in DOMAIN active |-> cleanProfile(active[s].flattened, slotKind(s), name(s), machineName)] @@ base.files

-----------------------------------------------------------------------------
Init ==
  /\ library \in Libraries
  /\ base = None /\ advanced \in BOOLEAN
  /\ rows = <<>> /\ batch = None /\ uploads = 0 /\ used = {}

\* profile-gen.js generate: a printer it cannot quote for changes nothing.
Generate ==
  /\ base = None
  /\ \E m \in Machines : base' = generateProfiles(m)
  /\ UNCHANGED <<library, advanced, rows, batch, uploads, used>>

\* POST /api/admin/slicer-profiles
Upload ==
  /\ base # None /\ batch = None /\ uploads < MaxUploads
  /\ \E file \in PresetFiles, slot \in PROFILE_SLOTS \cup {None} :
       LET presets == parseProfileUpload(file, slot)
       IN /\ ~slotRefused(slot) /\ presets # None
          /\ ~\E i \in DOMAIN presets : slotRefused(presets[i].slot)
          /\ batch' = presets
  /\ uploads' = uploads + 1
  /\ UNCHANGED <<library, base, advanced, rows, used>>

\* The rows of a plan once it is live.
GoLive(plan) ==
  [s \in {plan[i].slot : i \in DOMAIN plan} |->
     LET p == plan[CHOOSE i \in DOMAIN plan : plan[i].slot = s]
     IN [id |-> p.id, flattened |-> p.flattened, meta |-> metaFor(p.flattened, s, p.name)]]

\* processProfileBatch: the test slices decide whether the plan goes live.
Test ==
  /\ batch # None
  /\ batch' = None
  /\ LET plan == planBatch(batch)
     IN \/ plan # None /\ rows' = GoLive(plan) @@ rows
        \/ UNCHANGED rows
  /\ UNCHANGED <<library, base, advanced, uploads, used>>

\* DELETE of a slot.
Revert ==
  /\ \E s \in DOMAIN Active : rows' = [r \in DOMAIN rows \ {s} |-> rows[r]]
  /\ UNCHANGED <<library, base, advanced, batch, uploads, used>>

\* The operator turns advanced mode on or off, and both sides start again.
Restart ==
  /\ base # None
  /\ advanced' = ~advanced
  /\ UNCHANGED <<library, base, rows, batch, uploads, used>>

LiveSet == materialiseProfileSet(Active)
LiveSpec == applyActiveProfiles(base.spec, Active)

\* A model is sliced with the set that is live.
Slice ==
  /\ base # None /\ Cardinality(used) < MaxUsed
  /\ used' = used \cup {[id |-> LiveSpec.id, files |-> LiveSet, plates |-> LiveSpec.plates]}
  /\ UNCHANGED <<library, base, advanced, rows, batch, uploads>>

Next == Generate \/ Upload \/ Test \/ Revert \/ Restart \/ Slice

Spec == Init /\ [][Next]_vars

-----------------------------------------------------------------------------
TypeOK == advanced \in BOOLEAN /\ uploads \in 0..MaxUploads /\ DOMAIN rows \subseteq PROFILE_SLOTS

\* What the rest of the shop relies on: one nozzle and a volume, the height of the slot,
\* grams that can be worked out.
Works(file, slot) ==
  /\ slot = "machine" => Len(file["nozzles"]) = 1 /\ file["bed"] > 0
  /\ slot \in Layers => file["layer"] = LAYER_HEIGHTS[slot]
  /\ slot \in Tiers => file["material"] \in FILAMENT_FAMILY(slot) /\ file["density"] > 0

\* Every set that slices run with has a file for the printer, for each height and for
\* each material that works there, is bound to one printer and carries none of the
\* keys that act beyond slicing, however presets were put together, replaced and
\* reverted (orca-profile.ts:8-14).
SetFits ==
  \A s \in used :
    /\ DOMAIN s.files = PROFILE_SLOTS
    /\ \A slot \in PROFILE_SLOTS :
         /\ Works(s.files[slot], slot)
         /\ s.files[slot]["type"] = slotKind(slot)
         /\ ~\E key \in DOMAIN s.files[slot] : isDroppedKey(key)
         /\ slot # "machine" => s.files[slot]["printers"] = {s.files["machine"]["name"]}

\* "Printed on": each filament on a plate that it has a temperature for, unless it has one for none.
PlatesUsable ==
  \A s \in used, t \in Tiers :
    LET plates == Value(s.files[t], "plates", {}) IN plates # {} => s.plates[t] \in plates

\* "a changed preset never reuses slices made with the old one": the id in every slice
\* cache key tells two sets apart (orca-profile.ts:205-209).
KeysApart == \A a, b \in used : a.id = b.id => a = b

\* The spec that models are packed and judged by is that of the set they are sliced with.
SpecOfSet ==
  base # None =>
    /\ LiveSpec.bedMm = LiveSet["machine"]["bed"]
    /\ LiveSpec.nozzle = LiveSet["machine"]["nozzles"][1]

\* A chain by hand: from a preset to each parent in turn, as long as there is one.
RECURSIVE ChainOf(_, _, _)
ChainOf(kind, entry, n) ==
  LET parent == Value(entry.own, "inherits", None)
  IN IF n = 0 THEN <<>>
     ELSE <<entry.own>> \o (IF parent = None THEN <<>> ELSE ChainOf(kind, raw(kind, parent, entry.vendor), n - 1))

\* A generated preset has for each key what the nearest of its line says of it.
ValuesInherited ==
  base # None => \A s \in PROFILE_SLOTS :
    LET file == base.files[s]
        whole == IF s = "machine" THEN file["name"]
                 ELSE IF s \in Tiers THEN base.spec.filamentPresets[s]
                 ELSE IF file["name"][1] = "derived" THEN Tail(file["name"]) ELSE file["name"]
        chain == ChainOf(slotKind(s), raw(slotKind(s), whole, None), Len(library))
        Says(key) == {i \in DOMAIN chain : key \in DOMAIN chain[i]}
    IN \A key \in {"nozzles", "bed", "tech", "layer", "material", "density", "plates"} \ (IF s \in Layers THEN {"layer"} ELSE {}) :
         IF Says(key) = {} THEN key \notin DOMAIN file
         ELSE key \in DOMAIN file /\ file[key] = chain[CHOOSE i \in Says(key) : \A k \in Says(key) : i <= k][key]

\* Presets of any origin end in a set that is whole, fits and is never mistaken for another.
PresetsFit == TypeOK /\ SetFits /\ PlatesUsable /\ KeysApart /\ SpecOfSet /\ ValuesInherited
=================================================================================
