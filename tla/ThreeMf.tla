-------------------------------- MODULE ThreeMf --------------------------------
(***************************************************************************)
(* A 3MF project on its way to the models that are stored, sliced and      *)
(* priced: its documents are read, its build items resolved through        *)
(* components to meshes, and these are put on plates, the ones that a      *)
(* slicer authored or ones packed here.                                    *)
(*                                                                         *)
(* A mesh is the rectangle it stands on, with its triangles counted; a     *)
(* transform scales and moves (nothing turns).  A document is [name, unit, *)
(* objects, items]; the settings of a slicer are [supports, filaments,     *)
(* layer, infill], a filament being the set of material names that its     *)
(* own contains, best match first.                                         *)
(***************************************************************************)
EXTENDS Integers, SequencesExt

CONSTANTS
  Archives,       \* the uploads considered
  BedMm,          \* <<width, depth>> of the printer
  PackGap,        \* PACK_GAP_MM
  MaxPlates, MaxTriangles, MaxReferences, MaxDepth,
  Materials, Layers, InfillRange,    \* what the shop prints
  Null

VARIABLES
  file,      \* the upload
  stage,     \* "received", "inspected", "prepared" or "refused"
  found,     \* what inspect3mfUpload returned
  prepared   \* the models that may be persisted

vars == <<file, stage, found, prepared>>

-----------------------------------------------------------------------------
(* Errors: every step takes the budget of its file along, and the first     *)
(* error stays in it.                                                       *)

freshBudget == [triangles |-> 0, references |-> 0, error |-> Null]

Fails(b, code) == [b EXCEPT !.error = IF @ = Null THEN code ELSE @]

\* A number of triangles more.
Counted(b, n) ==
  LET c == [b EXCEPT !.triangles = @ + n]
  IN IF c.triangles > MaxTriangles THEN Fails(c, "TOO_MANY_TRIANGLES") ELSE c

Larger(a, b) == IF a > b THEN a ELSE b

Total(counts) == FoldLeft(LAMBDA n, c : n + c, 0, counts)

\* The one value that a list of values or Nulls agrees on.
TheOne(values) == LET some == ToSet(values) \ {Null} IN IF Cardinality(some) = 1 THEN CHOOSE v \in some : TRUE ELSE Null

Maybe(key, value) == IF value = Null THEN <<>> ELSE key :> value

-----------------------------------------------------------------------------
(* Geometry.                                                               *)

\* Mutant: the outer transform first.
combine_Swapped(a, b) ==
  IF a = Null THEN b ELSE IF b = Null THEN a
  ELSE [s |-> a.s * b.s, x |-> b.x * a.s + a.x, y |-> b.y * a.s + a.y]

\* a, then b.
combine(a, b) ==
  IF a = Null THEN b ELSE IF b = Null THEN a
  ELSE [s |-> a.s * b.s, x |-> a.x * b.s + b.x, y |-> a.y * b.s + b.y]

applyTransform(m, t) ==
  IF t = Null THEN m
  ELSE [m EXCEPT !.x = @ * t.s + t.x, !.y = @ * t.s + t.y, !.w = @ * t.s, !.d = @ * t.s]

\* Translations are in the unit of their document, and a matrix that cannot be read is none.
parseTransform(t, unit) == IF t = Null \/ t.s = 0 THEN Null ELSE [t EXCEPT !.x = @ * unit, !.y = @ * unit]

translateXY(parts, dx, dy) == [i \in DOMAIN parts |-> [parts[i] EXCEPT !.x = @ + dx, !.y = @ + dy]]

\* A part without triangles is nowhere.
Solid(parts) == SelectSeq(parts, LAMBDA p : p.triangles > 0)

Lowest(parts, side) ==
  LET at == {p[side] : p \in ToSet(Solid(parts))} IN IF at = {} THEN 0 ELSE CHOOSE n \in at : \A m \in at : n <= m

normalizeToOrigin(parts) == translateXY(parts, -Lowest(parts, "x"), -Lowest(parts, "y"))

\* The parts as one soup.
mergeParts(b, parts) ==
  LET n == Total([i \in DOMAIN parts |-> parts[i].triangles])
  IN IF n > MaxTriangles THEN Fails(b, "TOO_MANY_TRIANGLES") ELSE IF n = 0 THEN Fails(b, "EMPTY") ELSE b

-----------------------------------------------------------------------------
(* Reading the archive.                                                    *)

\* A mesh in millimetres.
readMeshSpan(m, unit) == applyTransform(m, [s |-> unit, x |-> 0, y |-> 0])

\* Every mesh of the document counts, referenced or not.
parseModelDocument(doc) ==
  [name |-> doc.name,
   objects |-> [id \in DOMAIN doc.objects |->
      IF doc.objects[id].kind = "mesh" THEN [kind |-> "mesh", mesh |-> readMeshSpan(doc.objects[id].mesh, doc.unit)]
      ELSE [kind |-> "components",
            components |-> [i \in DOMAIN doc.objects[id].components |->
               [doc.objects[id].components[i] EXCEPT !.transform = parseTransform(@, doc.unit)]]]],
   buildItems |-> [i \in DOMAIN doc.items |-> [doc.items[i] EXCEPT !.transform = parseTransform(@, doc.unit)]]]

Meshes(entry) == {id \in DOMAIN entry.objects : entry.objects[id].kind = "mesh"}

MeshTriangles(entries) ==
  Total([i \in DOMAIN entries |-> Total([k \in 1..Cardinality(Meshes(entries[i])) |->
      entries[i].objects[SetToSeq(Meshes(entries[i]))[k]].mesh.triangles])])

\* The main document first.
load3mfProject(archive) ==
  LET docs == SelectSeq(archive.docs, LAMBDA d : d.name = "main") \o SelectSeq(archive.docs, LAMBDA d : d.name # "main")
      entries == [i \in DOMAIN docs |-> parseModelDocument(docs[i])]
      read == CASE docs = <<>> -> Fails(freshBudget, "MALFORMED")
                [] \E i, j \in DOMAIN docs : i < j /\ docs[i].name = docs[j].name -> Fails(freshBudget, "MALFORMED")
                [] \E i \in DOMAIN docs : docs[i].unit = Null -> Fails(freshBudget, "MALFORMED")
                [] OTHER -> Counted(freshBudget, MeshTriangles(entries))
  IN IF read.error # Null THEN [error |-> read.error]
     ELSE [error |-> Null, entries |-> entries, main |-> entries[1],
           meshCount |-> Total([i \in DOMAIN entries |-> Cardinality(Meshes(entries[i]))]),
           plateSettings |-> archive.plates, settings |-> archive.settings]

-----------------------------------------------------------------------------
(* What the slicer of the customer was set to.                             *)

stringArray(value) == IF value = Null THEN <<>> ELSE value

normalizeMaterial(words) ==
  LET known == SelectSeq(<<"PETG", "ASA", "ABS", "PLA">>, LAMBDA m : m \in words)
  IN IF known = <<>> THEN Null ELSE known[1]

projectSupports(settings) == IF settings = Null THEN Null ELSE settings.supports

projectMaterial(settings) ==
  TheOne([i \in DOMAIN stringArray(settings.filaments) |-> normalizeMaterial(settings.filaments[i])])

layerHeight(um) == IF um = Null \/ um <= 0 THEN Null ELSE um

projectSourceConfig(settings) ==
  IF settings = Null THEN <<>>
  ELSE Maybe("material", projectMaterial(settings)) @@ Maybe("layer", layerHeight(settings.layer))
       @@ Maybe("infill", settings.infill) @@ Maybe("supports", settings.supports)

materialForExtruder(extruder, settings) ==
  IF extruder \in DOMAIN stringArray(settings.filaments) THEN normalizeMaterial(settings.filaments[extruder]) ELSE Null

\* An object without settings of its own has no extruder.
plateMaterial(ids, slicer, settings) ==
  IF settings = Null THEN Null
  ELSE TheOne([i \in DOMAIN ids |->
         materialForExtruder(IF ids[i] \in DOMAIN slicer.extruder THEN slicer.extruder[ids[i]] ELSE 0, settings)])

configuredSupports(ids, slicer, settings) ==
  projectSupports(settings) = "auto" \/ \E i \in DOMAIN ids : ids[i] \in slicer.supported

parsePlateSettings(project) ==
  LET slicer == project.plateSettings
      Plate(i) ==
        LET ids == slicer.plates[i]
        IN [index |-> i, objectIds |-> ids,
            sourceConfig |-> ("supports" :> IF configuredSupports(ids, slicer, project.settings) THEN "auto" ELSE "off")
              @@ Maybe("material", plateMaterial(ids, slicer, project.settings)) @@ projectSourceConfig(project.settings)]
  IN SelectSeq([i \in DOMAIN slicer.plates |-> Plate(i)], LAMBDA plate : plate.objectIds # <<>>)

sourceConfigFromProject(project) ==
  LET source == projectSourceConfig(project.settings)
  IN IF project.plateSettings = Null THEN source
     ELSE LET plates == parsePlateSettings(project)
              Material(i) == IF "material" \in DOMAIN plates[i].sourceConfig THEN plates[i].sourceConfig["material"] ELSE Null
          IN ("supports" :> IF \E i \in DOMAIN plates : plates[i].sourceConfig["supports"] = "auto" THEN "auto" ELSE "off")
             @@ Maybe("material", TheOne([i \in DOMAIN plates |-> Material(i)])) @@ source

-----------------------------------------------------------------------------
(* From build items to parts.                                              *)

findUniqueEntryWithObject(project, id) ==
  TheOne([i \in DOMAIN project.entries |-> IF id \in DOMAIN project.entries[i].objects THEN project.entries[i] ELSE Null])

EntryNamed(project, name) == TheOne([i \in DOMAIN project.entries |-> IF project.entries[i].name = name THEN project.entries[i] ELSE Null])

\* The parts found so far and the budget: a reference to nothing is skipped.
RECURSIVE resolveObject(_, _, _, _, _, _, _)
resolveObject(project, entry, id, transform, seen, depth, acc) ==
  LET b == [acc.budget EXCEPT !.references = @ + 1]
      target == IF id \in DOMAIN entry.objects THEN entry ELSE findUniqueEntryWithObject(project, id)
      Component(a, c) ==
        LET of == IF c.path = Null THEN target ELSE EntryNamed(project, c.path)
        IN IF of = Null THEN a
           ELSE resolveObject(project, of, c.id, combine(c.transform, transform), seen \cup {<<target.name, id>>}, depth + 1, a)
  IN CASE acc.budget.error # Null -> acc
       [] depth > MaxDepth \/ b.references > MaxReferences -> [acc EXCEPT !.budget = Fails(b, "TOO_COMPLEX")]
       [] target = Null -> [acc EXCEPT !.budget = b]
       [] target # Null /\ <<target.name, id>> \in seen -> [acc EXCEPT !.budget = Fails(b, "MALFORMED")]
       [] OTHER ->
            LET object == target.objects[id]
            IN IF object.kind = "mesh"
                 THEN [parts |-> Append(acc.parts, applyTransform(object.mesh, transform)),
                       budget |-> Counted(b, object.mesh.triangles)]
                 ELSE FoldLeft(Component, [acc EXCEPT !.budget = b], object.components)

\* printable is read and not acted on.
resolveBuildItem(project, item, acc) ==
  resolveObject(project, project.main, item.objectId, item.transform, {}, 0, acc)

\* Without a build item every mesh is a part.
allMeshParts(project) ==
  FoldLeft(LAMBDA parts, e : parts \o [k \in 1..Cardinality(Meshes(e)) |-> e.objects[SetToSeq(Meshes(e))[k]].mesh],
           <<>>, project.entries)

soleItemPositions(project) ==
  LET acc == [parts |-> <<>>, budget |-> freshBudget]
      r == IF project.main.buildItems = <<>> THEN [acc EXCEPT !.parts = allMeshParts(project)]
           ELSE resolveBuildItem(project, project.main.buildItems[1], acc)
  IN [r EXCEPT !.budget = mergeParts(r.budget, r.parts)]

\* Each build item as a soup of its own at the origin, with its footprint.
resolveLooseItems(project) ==
  LET Farthest(parts, at, side) == FoldLeft(LAMBDA n, p : Larger(n, p[at] + p[side]), 0, Solid(parts))
      Item(acc, item) ==
        LET r == resolveBuildItem(project, item, [parts |-> <<>>, budget |-> acc.budget])
            soup == normalizeToOrigin(r.parts)
        IN CASE r.budget.error # Null -> [acc EXCEPT !.budget = r.budget]
             [] Solid(r.parts) = <<>> -> [acc EXCEPT !.budget = r.budget, !.droppedParts = @ + 1]
             [] OTHER -> [acc EXCEPT !.budget = mergeParts(r.budget, r.parts),
                            !.items = Append(@, [positions |-> soup,
                               width |-> Farthest(soup, "x", "w"), depth |-> Farthest(soup, "y", "d")])]
      all == FoldLeft(Item, [items |-> <<>>, droppedParts |-> 0, budget |-> freshBudget], project.main.buildItems)
  IN IF all.items = <<>> THEN [all EXCEPT !.budget = Fails(@, "EMPTY")] ELSE all

-----------------------------------------------------------------------------
(* Packing: rows from left to right, the deepest items first.              *)

EmptyTray == [plates |-> <<>>, plate |-> <<>>, x |-> 0, y |-> 0, shelf |-> 0]

closePlate(tray) ==
  [EmptyTray EXCEPT !.plates = IF tray.plate = <<>> THEN tray.plates ELSE Append(tray.plates, tray.plate)]

DeepestFirst(items) ==
  FoldLeft(LAMBDA done, item :
             SelectSeq(done, LAMBDA o : o.depth >= item.depth) \o <<item>> \o SelectSeq(done, LAMBDA o : o.depth < item.depth),
           <<>>, items)

\* Mutant: a shelf is as deep as the last item on it.
ShelfDepth_Last(shelf, item) == item.depth

ShelfDepth(shelf, item) == Larger(shelf, item.depth)

Usable(side) == Larger(side - 2 * PackGap, 1)

\* An item that fits no plate gets one of its own.
PackItem(tray, item, depth) ==
  IF item.width > Usable(BedMm[1]) \/ item.depth > depth
    THEN LET closed == closePlate(tray)
         IN [closed EXCEPT !.plates = Append(@, <<translateXY(item.positions, PackGap, PackGap)>>)]
    ELSE LET row == IF tray.x > 0 /\ tray.x + item.width > Usable(BedMm[1])
                      THEN [tray EXCEPT !.y = @ + tray.shelf + PackGap, !.x = 0, !.shelf = 0] ELSE tray
             page == IF row.y + item.depth > depth THEN closePlate(row) ELSE row
         IN [page EXCEPT !.plate = Append(@, translateXY(item.positions, PackGap + page.x, PackGap + page.y)),
                         !.x = @ + item.width + PackGap, !.shelf = ShelfDepth(@, item)]

packOntoPlates(items, depth) ==
  closePlate(FoldLeft(LAMBDA tray, item : PackItem(tray, item, depth), EmptyTray, DeepestFirst(items))).plates

PackedPlates(project, loose, packed) ==
  LET budget == IF Len(packed) > MaxPlates THEN Fails(loose.budget, "TOO_COMPLEX")
                ELSE FoldLeft(LAMBDA b, plate : mergeParts(b, FlattenSeq(plate)), loose.budget, packed)
  IN [budget |-> budget, droppedParts |-> loose.droppedParts,
      plates |-> [i \in DOMAIN packed |->
         [index |-> i, items |-> packed[i], partCount |-> Len(packed[i]), computed |-> TRUE,
          sourceConfig |-> sourceConfigFromProject(project)]]]

\* Nothing to pack in a project with one build item or none.
packLooseItems(project) ==
  LET loose == resolveLooseItems(project)
  IN PackedPlates(project, loose, packOntoPlates(loose.items, Usable(BedMm[2])))

\* Mutant: a budget for each plate.
PlateBudget_Each(b) == [freshBudget EXCEPT !.error = b.error]

\* "One shared budget is critical": the plates of a project draw on the same one.
PlateBudget(b) == b

\* Every build item of the objects a plate lists, or the object itself.
PlateParts(project, ids, budget) ==
  LET Listed(acc, id) ==
        LET items == SelectSeq(project.main.buildItems, LAMBDA item : item.objectId = id)
        IN IF items = <<>> THEN resolveObject(project, project.main, id, Null, {}, 0, acc)
           ELSE FoldLeft(LAMBDA a, item : resolveBuildItem(project, item, a), acc, items)
  IN FoldLeft(Listed, [parts |-> <<>>, budget |-> budget], ids)

authoredPlates(project) ==
  LET plates == IF project.plateSettings = Null THEN <<>> ELSE parsePlateSettings(project)
      Extract(acc, plate) ==
        LET r == PlateParts(project, plate.objectIds, PlateBudget(acc.budget))
        IN IF r.budget.error # Null \/ r.parts = <<>> THEN [acc EXCEPT !.budget = r.budget]
           ELSE [budget |-> mergeParts(r.budget, r.parts),
                 plates |-> Append(acc.plates,
                   [index |-> plate.index, items |-> <<normalizeToOrigin(r.parts)>>, partCount |-> Len(plate.objectIds),
                    computed |-> FALSE, sourceConfig |-> plate.sourceConfig])]
      none == [plates |-> <<>>, budget |-> freshBudget]
  IN CASE project.plateSettings # Null /\ Len(project.plateSettings.plates) > MaxPlates ->
            [none EXCEPT !.budget = Fails(@, "TOO_COMPLEX")]
       [] Len(plates) <= 1 -> none
       [] OTHER -> FoldLeft(Extract, none, plates)

-----------------------------------------------------------------------------
(* The upload.                                                             *)

Inspection(budget, plates, model, parts, dropped, config) ==
  [error |-> budget.error, plates |-> plates, model |-> model, partCount |-> parts, droppedParts |-> dropped,
   sourceConfig |-> config]

\* One plate holds all of it: the project stays one model.
PackedInspection(packed, config) ==
  IF Len(packed.plates) > 1 \/ packed.budget.error # Null
    THEN Inspection(packed.budget, packed.plates, Null, 0, packed.droppedParts, config)
    ELSE Inspection(packed.budget, <<>>, packed.plates[1].items, packed.plates[1].partCount, packed.droppedParts, config)

\* The plates of the slicer, else all build items on as few as they need, else the one item.
ProjectInspection(project, authored, config) ==
  CASE project.error # Null -> Inspection(project, <<>>, Null, 0, 0, <<>>)
    [] project.error = Null /\ project.meshCount = 0 -> Inspection([error |-> "EMPTY"], <<>>, Null, 0, 0, <<>>)
    [] OTHER ->
         CASE authored.budget.error # Null \/ authored.plates # <<>> ->
                Inspection(authored.budget, authored.plates, Null, 0, 0, config)
           [] Len(project.main.buildItems) > 1 -> PackedInspection(packLooseItems(project), config)
           [] OTHER -> LET sole == soleItemPositions(project)
                       IN Inspection(sole.budget, <<>>, <<sole.parts>>, 1, 0, config)

inspect3mfUpload(archive) ==
  LET project == load3mfProject(archive)
  IN ProjectInspection(project, authoredPlates(project), sourceConfigFromProject(project))

\* Only what the shop prints is taken over.
normalize3mfSourceConfig(raw) ==
  [key \in {k \in DOMAIN raw :
      CASE k = "material" -> raw[k] \in Materials [] k = "layer" -> raw[k] \in Layers
        [] k = "infill" -> raw[k] \in InfillRange [] k = "supports" -> TRUE} |-> raw[key]]

derivedModel(items, config, locked, parts) ==
  [items |-> items, defaultConfig |-> config, lockedConfig |-> locked, partCount |-> parts]

\* Mutant: every plate locks its supports.
Locks_All(plate) == {"supports"}

\* A plate that was packed here says nothing of supports.
Locks(plate) == IF plate.computed THEN {} ELSE {"supports"}

prepareUploadModels(inspection) ==
  IF Len(inspection.plates) > 1
    THEN [i \in DOMAIN inspection.plates |->
            LET plate == inspection.plates[i]
            IN derivedModel(plate.items, normalize3mfSourceConfig(plate.sourceConfig), Locks(plate), plate.partCount)]
    ELSE <<derivedModel(inspection.model, normalize3mfSourceConfig(inspection.sourceConfig), {}, inspection.partCount)>>

Init ==
  /\ file \in Archives
  /\ stage = "received" /\ found = Null /\ prepared = <<>>

Inspect ==
  /\ stage = "received"
  /\ found' = inspect3mfUpload(file)
  /\ stage' = IF found'.error = Null THEN "inspected" ELSE "refused"
  /\ UNCHANGED <<file, prepared>>

\* A project that authored several plates, of which one has parts, has no canonical model.
Prepare ==
  /\ stage = "inspected"
  /\ IF Len(found.plates) = 1 THEN stage' = "refused" /\ UNCHANGED prepared
     ELSE stage' = "prepared" /\ prepared' = prepareUploadModels(found)
  /\ UNCHANGED <<file, found>>

Next == Inspect \/ Prepare

Spec == Init /\ [][Next]_vars

-----------------------------------------------------------------------------
(* What the customer is owed.                                              *)

TypeOK ==
  /\ stage \in {"received", "inspected", "prepared", "refused"}
  /\ \A i \in DOMAIN prepared : prepared[i].lockedConfig \subseteq {"supports"} /\ prepared[i].partCount \in Nat

\* The parts of an object, carried outwards by one transform after the other.
RECURSIVE Carried(_, _, _)
Carried(project, entry, id) ==
  LET target == IF id \in DOMAIN entry.objects THEN entry ELSE findUniqueEntryWithObject(project, id)
      Component(c) ==
        LET of == IF c.path = Null THEN target ELSE EntryNamed(project, c.path)
            inner == IF of = Null THEN <<>> ELSE Carried(project, of, c.id)
        IN [i \in DOMAIN inner |-> applyTransform(inner[i], c.transform)]
  IN CASE target = Null -> <<>>
       [] target # Null /\ target.objects[id].kind = "mesh" -> <<target.objects[id].mesh>>
       [] OTHER -> FlattenSeq([i \in DOMAIN target.objects[id].components |-> Component(target.objects[id].components[i])])

ItemSoup(project, item) ==
  LET parts == Carried(project, project.main, item.objectId)
  IN [i \in DOMAIN parts |-> applyTransform(parts[i], item.transform)]

PlateSoup(project, ids) ==
  LET Soup(id) ==
        LET items == SelectSeq(project.main.buildItems, LAMBDA item : item.objectId = id)
        IN IF items = <<>> THEN Carried(project, project.main, id)
           ELSE FlattenSeq([i \in DOMAIN items |-> ItemSoup(project, items[i])])
  IN FlattenSeq([i \in DOMAIN ids |-> Soup(ids[i])])

\* What is to be quoted: the plates that a slicer authored, if they are several; else
\* the build items, or all meshes of a file without any.  A build item that none of
\* several authored plates lists is not asked for.
Wanted(project) ==
  LET plates == IF project.plateSettings = Null THEN <<>>
                ELSE SelectSeq(project.plateSettings.plates, LAMBDA ids : PlateSoup(project, ids) # <<>>)
      items == project.main.buildItems
      soups == CASE Len(plates) > 1 -> [i \in DOMAIN plates |-> PlateSoup(project, plates[i])]
                 [] Len(plates) <= 1 /\ items # <<>> -> [i \in DOMAIN items |-> ItemSoup(project, items[i])]
                 [] OTHER -> <<allMeshParts(project)>>
  IN [i \in DOMAIN soups |-> normalizeToOrigin(soups[i])]

Delivered == FlattenSeq([i \in DOMAIN prepared |-> [k \in DOMAIN prepared[i].items |-> normalizeToOrigin(prepared[i].items[k])]])

\* Every soup that has triangles is delivered as often as it is wanted, each part where
\* its transforms put it, and nothing else is: no loose part is left unsliced, however
\* the parts are packed (threemf.ts:246-262), and no part that an authored plate lists
\* (:307-320).
GeometryKept ==
  stage = "prepared" =>
    LET wanted == Wanted(load3mfProject(file))
        Times(soups, soup) == Cardinality({i \in DOMAIN soups : soups[i] = soup})
    IN \A soup \in ToSet(wanted) \cup ToSet(Delivered) :
         Times(Delivered, soup) = IF Solid(soup) = <<>> THEN 0 ELSE Times(wanted, soup)

\* Two soups with a gap between them.
Apart(a, b) ==
  LET Left(s, t, at, side) == \A p \in ToSet(Solid(s)), q \in ToSet(Solid(t)) : p[at] + p[side] + PackGap <= q[at]
  IN Left(a, b, "x", "w") \/ Left(b, a, "x", "w") \/ Left(a, b, "y", "d") \/ Left(b, a, "y", "d")

\* The items of a packed plate do not touch, and lie on the bed unless one is alone there.
PlatesFit ==
  stage = "prepared" => \A m \in ToSet(prepared) : Len(m.items) > 1 =>
    /\ \A i, k \in DOMAIN m.items : i # k => Apart(m.items[i], m.items[k])
    /\ \A i \in DOMAIN m.items : \A p \in ToSet(Solid(m.items[i])) :
         p.x >= PackGap /\ p.x + p.w + PackGap <= BedMm[1] /\ p.y >= PackGap /\ p.y + p.d + PackGap <= BedMm[2]

\* However often the file refers to a mesh, its models stay within the limit together.
WithinBudget ==
  Total([i \in DOMAIN prepared |-> Total([k \in DOMAIN FlattenSeq(prepared[i].items) |->
     FlattenSeq(prepared[i].items)[k].triangles])]) <= MaxTriangles

\* Supports are locked only to what a slicer has configured for that very plate.
LockedByFile ==
  \A i \in DOMAIN prepared : "supports" \in prepared[i].lockedConfig =>
    /\ file.plates # Null
    /\ \E ids \in ToSet(file.plates.plates) :
         /\ \A id \in ToSet(ids) : id \in file.plates.supported => prepared[i].defaultConfig["supports"] = "auto"
         /\ prepared[i].defaultConfig["supports"] = "auto" =>
              configuredSupports(ids, file.plates, file.settings)

\* Parts that were to be packed and have no triangles are counted (threemf.ts:358-374).
PackedCounted ==
  stage = "inspected" =>
    LET project == load3mfProject(file)
        items == project.main.buildItems
    IN authoredPlates(project).plates = <<>> /\ Len(items) > 1 =>
         found.droppedParts = Cardinality({i \in DOMAIN items : Solid(ItemSoup(project, items[i])) = <<>>})

\* An upload is quoted for every part that its plates list or, without several plates,
\* that it is built of, on plates that can be printed.
UploadKept == TypeOK /\ GeometryKept /\ PackedCounted /\ PlatesFit /\ WithinBudget /\ LockedByFile

\* "Never silently zero-filled: a non-zero count means the quote is missing something"
\* (threemf.ts:135-137).  It is zero with authored plates and with a single item,
\* whatever is missing (:200, :228).
DroppedCounted ==
  stage = "inspected" /\ found.droppedParts = 0 =>
    LET project == load3mfProject(file)
    IN \A i \in DOMAIN project.main.buildItems : Solid(ItemSoup(project, project.main.buildItems[i])) # <<>>
================================================================================
