-------------------------- MODULE MCQuotationStore --------------------------
(* Small instances of QuotationStore, and of the models of the files that    *)
(* customers and the owner upload: a 3MF archive, its meshes, and the        *)
(* presets of a printer. The initial state picks the one that runs; the      *)
(* others rest.                                                              *)
EXTENDS QuotationStore, Sequences, TLC

CONSTANTS
  Null,      \* what a file leaves out
  MaxBusy    \* bound: requests under way at one time, once there was a fault

VARIABLES part,
          file, stage, found, prepared,                        \* ThreeMf
          doc, pass, excised, meshes,                          \* MeshXml
          library, base, advanced, live, batch, uploads, used  \* ProfileLibrary

uploadVars == <<file, stage, found, prepared>>
meshVars == <<doc, pass, excised, meshes>>
presetVars == <<library, base, advanced, live, batch, uploads, used>>

-----------------------------------------------------------------------------
(* 3MF archives.                                                           *)

Box(w, d, n) == [kind |-> "mesh", mesh |-> [x |-> 1, y |-> 2, w |-> w, d |-> d, triangles |-> n]]
Group(refs) == [kind |-> "components", components |-> refs]
Ref(id, path, t) == [id |-> id, path |-> path, transform |-> t]
Move(s, x, y) == [s |-> s, x |-> x, y |-> y]
Item(id, t) == [objectId |-> id, transform |-> t]
Doc(name, unit, objects, items) == [name |-> name, unit |-> unit, objects |-> objects, items |-> items]
Archive(docs, plates, settings) == [docs |-> docs, plates |-> plates, settings |-> settings]

\* Up to four loose items of every mix of sizes, one larger than the bed.
Loose ==
  { Archive(<<Doc("main", 1, [i \in 1..n |-> Box(z[i][1], z[i][2], 1)],
                             [i \in 1..n |-> Item(i, Move(1, 4 - i, 3 * i))])>>, Null, Null) :
      <<n, z>> \in UNION { {n} \X [1..n -> {<<1, 2>>, <<3, 1>>, <<4, 4>>, <<5, 2>>, <<13, 1>>}] : n \in 1..4 } }

\* An object made of others, one in a document with a unit of its own: shared,
\* missing, or made of itself.
Graphs ==
  { Archive(<<Doc("part", u, 7 :> Box(1, 2, n) @@ 8 :> Group(<<Ref(7, Null, t)>>), <<>>),
              Doc("main", 1, 1 :> Group(<<Ref(k, p, t), Ref(7, "part", Null)>>) @@ 2 :> Box(1, 1, 0), items)>>,
            Null, Null) :
      u \in {1, 2, Null}, n \in {1, 3}, t \in {Null, Move(1, 2, 0), Move(2, 1, 1), Move(0, 1, 1)},
      k \in {7, 8, 9, 1}, p \in {Null, "part", "gone"},
      items \in {<<>>, <<Item(1, Move(3, 1, 2))>>, <<Item(1, Null), Item(2, Null)>>,
                 <<Item(7, Null), Item(1, Move(2, 5, 5)), Item(1, Null)>>} }

\* Plates of a slicer with their settings; no plate lists the last object.
Settings(supports, filaments, layer, infill) ==
  [supports |-> supports, filaments |-> filaments, layer |-> layer, infill |-> infill]
Plated ==
  { Archive(<<Doc("main", 1, 1 :> Box(2, 1, 1) @@ 2 :> Box(1, 1, 2) @@ 3 :> Box(1, 1, 0) @@ 4 :> Box(1, 2, 1), items)>>,
            [plates |-> plates, extruder |-> extruder, supported |-> supported], settings) :
      items \in {<<Item(1, Null)>>, <<Item(1, Null), Item(2, Move(2, 1, 1))>>,
                 <<Item(1, Null), Item(1, Move(1, 4, 4)), Item(9, Null)>>,
                 <<Item(4, Move(1, 2, 2)), Item(1, Null), Item(2, Null)>>},
      plates \in {<<>>, <<<<1>>>>, <<<<1>>, <<2>>>>, <<<<1, 2>>, <<9>>>>, <<<<1>>, <<1, 2>>, <<>>>>,
                  <<<<9>>, <<>>>>, <<<<3>>, <<1>>>>, <<<<1>>, <<1>>, <<1>>, <<2>>>>, <<<<2, 2>>, <<2, 1>>>>},
      extruder \in {<<>>, <<1, 2>>, 2 :> 2}, supported \in {{}, {1}, {2}},
      settings \in {Null, Settings(Null, <<{"PETG", "PLA"}, {"PLA"}>>, 0, 15),
                    Settings("auto", Null, 200, 99),
                    Settings("off", <<{"TPU"}, {"ASA", "PLA"}>>, 333, Null)} }

Archives == Loose \cup Graphs \cup Plated

-----------------------------------------------------------------------------
(* Model parts.                                                            *)

OpenTag(name) == [kind |-> "open", name |-> name]
Close(name) == [kind |-> "close", name |-> name]
Empty(name) == [kind |-> "self", name |-> name]
Triangle(v) == [kind |-> "self", name |-> "triangle", v |-> v]
Marks == {[kind |-> "quote"], [kind |-> "unquote"]}     \* of a comment
Pair(name) == {OpenTag(name), Close(name)}
UpTo(n, S) == UNION {[1..k -> S] : k \in 0..n}
InMesh(s) == <<OpenTag("mesh")>> \o s \o <<Close("mesh")>>

\* Anything in a mesh; a mesh that can be read with anything around it or in it.
Whole == <<OpenTag("vertices"), Empty("vertex"), Close("vertices"),
           OpenTag("triangles"), Triangle(0), Close("triangles")>>
Around == { a \o Whole \o b : a, b \in UpTo(2, Pair("mesh") \cup Marks \cup {Empty("mesh")} \cup Pair("a")) }
Within ==
  { SubSeq(Whole, 1, k) \o s \o SubSeq(Whole, k + 1, 6) :
      k \in 0..6,
      s \in UpTo(2, Pair("vertices") \cup Pair("a") \cup Marks
                    \cup {Empty("vertex"), Triangle(0), Triangle(1), [kind |-> "bang"]}) }
Halves == UpTo(4, Pair("vertices") \cup Pair("triangles") \cup {Empty("vertex"), Triangle(0), Empty("vertices")})

ModelParts == Around \cup { InMesh(s) : s \in Around \cup Within \cup Halves }

-----------------------------------------------------------------------------
(* Presets of OrcaSlicer, and those an owner uploads.                      *)

Entry(kind, vendor, name, more) ==
  [kind |-> kind, vendor |-> vendor, own |-> ("name" :> name) @@ more]
One == <<"Xyz", "One">>
Dual == <<"Xyz", "Dual">>
Printer(more) ==
  Entry("machine", "Xyz", One, more @@ [inherits |-> <<"common">>, inst |-> TRUE, nozzles |-> <<4>>,
                                        notes |-> {"XYZ"}, host |-> "farm"])
Process(name, layer, more) ==
  Entry("process", "Xyz", name,
        more @@ [inst |-> TRUE, layer |-> layer, cond |-> {[form |-> "nozzle", is |-> 4]}])
Filament(vendor, name, more) ==
  Entry("filament", vendor, name, more @@ [inst |-> TRUE, inherits |-> <<"base">>])

Library ==
  <<Entry("filament", "Library", <<"base">>, [density |-> 124, plates |-> {"Cool Plate"}]),
    Filament("Library", <<"Generic", "PLA", "@System">>, [material |-> "PLA"]),
    Filament("Library", <<"Generic", "PLA", "CF">>, [material |-> "PLA-CF", plates |-> {"High Temp Plate"}]),
    Filament("Library", <<"Generic", "PETG", "CF">>, [material |-> "PET", plates |-> {}]),
    Filament("Library", <<"Generic", "PETG">>,
             [material |-> "PET", plates |-> {"High Temp Plate", "Textured PEI Plate"}])>>
Vendor(more, filaments, processes) ==
  <<Entry("machine", "Xyz", <<"common">>, [bed |-> 150, tech |-> "FFF", nozzles |-> <<4>>]),
    Entry("machine", "Xyz", Dual, [inst |-> TRUE, nozzles |-> <<4, 4>>, bed |-> 200]),
    Printer(more)>> \o processes \o filaments

\* With and without filaments for the printer, and with processes of the same
\* height, without a parent, or for another printer; parents in a circle.
Noted == [form |-> "notes", word |-> "XYZ", is |-> TRUE]
Libraries ==
  { Vendor(m, f, p) \o Library :
      m \in {<<>>, [bed |-> 180]},
      f \in {<<>>,
             <<Filament("Xyz", <<"Xyz", "Generic", "PLA">>,
                        [material |-> "PLA", density |-> 130, cond |-> {Noted, [form |-> "nozzle", is |-> 4]}])>>,
             <<Filament("Xyz", <<"Generic", "PLA", "@Xyz">>, [material |-> "PLA", density |-> 0, printers |-> {One}])>>,
             <<Filament("Abc", <<"Generic", "PLA">>, [inherits |-> <<"Generic", "PLA">>, material |-> "PLA"]),
               Filament("Abc", <<"Generic", "PLA", "Silk">>, [material |-> "PLA", cond |-> {[form |-> "mmu"]}])>>},
      p \in {<<Process(<<"Fine">>, 120, <<>>), Process(<<"Strength", "x">>, 200, <<>>),
               Process(<<"Standard", "a", "b">>, 200, <<>>)>>,
             <<Process(<<"Standard">>, 200, [inherits |-> <<"gone">>]),
               Process(<<"Draft">>, 280, [cond |-> {[form |-> "other"]}]),
               Process(<<"Fine">>, 240, [printers |-> {One}])>>,
             <<Process(<<"Draft">>, 280, [printers |-> {<<"other">>}])>>} }
  \cup { Library \o Vendor(<<>>, <<>>,
           <<Process(<<"Optimal">>, 160, [inherits |-> <<"root">>]),
             Entry("process", "Abc", <<"root">>, [inherits |-> <<"Optimal">>])>>),
         Vendor([inherits |-> One], <<>>, <<>>) \o Library }

Preset(text) == [own |-> text, folder |-> Null]
Mine == [name |-> <<"Own", "printer">>, inherits |-> One, bed |-> 300, nozzles |-> <<6>>]
PresetFiles ==
  { [zip |-> FALSE, presets |-> <<Preset(p)>>] :
      p \in {[name |-> <<"Custom">>, material |-> "PET", density |-> 110, plates |-> {"Cool Plate"}],
             [name |-> <<"Based">>, inherits |-> <<"Generic", "PLA", "CF">>, plates |-> {"Cool Plate"}], Mine} }
  \cup { [zip |-> TRUE, presets |-> s] :
      s \in {<<Preset(Mine), Preset([name |-> <<"Fine">>, inherits |-> <<"Mine">>]),
               Preset([name |-> <<"Mine">>, type |-> "process", layer |-> 120]),
               Preset([name |-> <<"Deep">>, type |-> "process", layer |-> 280])>>,
             <<Preset([name |-> <<"A">>, inherits |-> <<"B">>, material |-> "PLA"]),
               Preset([name |-> <<"B">>, inherits |-> <<"A">>, layer |-> 120])>>,
             <<[own |-> [name |-> <<"F">>, inherits |-> <<"Generic", "PETG">>], folder |-> "filament"],
               Preset([name |-> <<"P">>, layer |-> 200])>>} }

-----------------------------------------------------------------------------
(* The instances.                                                        *)

Upload == INSTANCE ThreeMf
  WITH BedMm <- <<9, 8>>, PackGap <- 1, MaxPlates <- 3, MaxTriangles <- 6, MaxReferences <- 8,
       MaxDepth <- 3, Materials <- {"PLA", "PETG"}, Layers <- {200}, InfillRange <- 10..50

Part == INSTANCE MeshXml
  WITH Documents <- ModelParts, MaxXmlDepth <- 4, MaxElements <- 3, MaxVertices <- 2, MaxTriangles <- 2

Presets == INSTANCE ProfileLibrary
  WITH Machines <- {One, Dual}, MaxUploads <- 2, MaxUsed <- 2, None <- Null, rows <- live

-----------------------------------------------------------------------------
\* A model that rests has no file and no presets.
AllInit ==
  /\ part \in {"store", "upload", "part", "presets"}
  /\ Init
  /\ IF part = "upload" THEN Upload!Init
     ELSE file = Null /\ stage = "refused" /\ found = Null /\ prepared = <<>>
  /\ IF part = "part" THEN Part!Init
     ELSE doc = <<>> /\ pass = "refused" /\ excised = [skeleton |-> <<>>, spans |-> <<>>] /\ meshes = <<>>
  /\ IF part = "presets" THEN Presets!Init
     ELSE /\ library = <<>> /\ base = Null /\ advanced = FALSE
          /\ live = <<>> /\ batch = Null /\ uploads = 0 /\ used = {}

AllNext ==
  \/ /\ part = "store" /\ Next
     /\ faults' > 0 => Cardinality({p \in Actors : web'[p] # IdleWeb}) <= MaxBusy
     /\ UNCHANGED <<part, uploadVars, meshVars, presetVars>>
  \/ part = "upload" /\ Upload!Next /\ UNCHANGED <<part, vars, meshVars, presetVars>>
  \/ part = "part" /\ Part!Next /\ UNCHANGED <<part, vars, uploadVars, presetVars>>
  \/ part = "presets" /\ Presets!Next /\ UNCHANGED <<part, vars, uploadVars, meshVars>>

AllSpec == AllInit /\ [][AllNext]_<<part, vars, uploadVars, meshVars, presetVars>>

\* Requests of a kind are interchangeable, and so are models of a kind; used by
\* the safety runs only.
Symmetry ==
  Permutations(Customers) \cup Permutations(Admins)
    \cup {p \in Permutations(Models) : \A m \in Models : p[m] \in Cad <=> m \in Cad}

\* ThreeMf and MeshXml: what is kept of an uploaded project.
UploadRead == (part = "upload" => Upload!UploadKept) /\ (part = "part" => Part!MeshesKept)
\* ProfileLibrary
PresetsFit == part = "presets" => Presets!PresetsFit
=============================================================================
