----------------------------- MODULE MCShopState -----------------------------
(* One small instance of each model with safety properties and few states:   *)
(* uploads on their way in and on the page, the PDF of a quotation, the      *)
(* sealed settings under a restore, the catalogue, a model's print settings, *)
(* a replayed OrcaSlicer run and its progress, and the revisions of a        *)
(* self-hosted install. The initial state picks the model that runs; the     *)
(* others rest.                                                              *)
EXTENDS IngestPipeline, Sequences, TLC

CONSTANTS FirstWriter, Regens, NoOne, MaxOverruns, MaxPdfFaults,  \* PDF
          Files, MaxCards, MaxVisits,                             \* page
          Execs, Runs,                          \* OrcaSlicer and its progress
          Services, Migrate, Top, MaxRuns, MaxKills,              \* update
          Accounts, Hosts, EnvAccount, EnvMail, NoAccount,                \* sealed settings
          MaxSaves, MaxRotates, MaxRestores,
          Names, Offers, NoName, MaxOffers,                       \* catalogue
          Shops, Imports, Materials, TopLayer, MaxChanges,        \* print settings
          Percents,                                               \* slice progress
          Lost                                                    \* nothing there

\* What stands for nothing is none of the things.
ASSUME LostAssumption ==
  /\ Lost # "ok" /\ Lost \notin 1..Top /\ Lost \notin Execs \X (1..2)
  /\ NoOne \notin Regens \cup {FirstWriter}
ASSUME BoundsAssumption ==
  /\ MaxVisits \in Nat \ {0} /\ Top \in Nat \ {0} /\ MaxKills \in Nat
  /\ Migrate \in Services
  /\ MaxSaves \in Nat /\ MaxRotates \in Nat /\ MaxRestores \in Nat /\ MaxOffers \in Nat

\* The catalogue offers something.
ASSUME OffersAssumption == Offers # {}

\* What a shop may offer, and what a model may bring along: of the settings of a 3MF
\* plate only the supports are ever locked (upload-prepare.ts:157).
ConfigKeys == {"material", "colour", "layer", "supports"}

ASSUME ConfigAssumption ==
  /\ Materials \subseteq Nat /\ 1 \in Materials /\ TopLayer \in Nat /\ MaxChanges \in Nat
  /\ Shops \subseteq [on : SUBSET Materials, colours : [Materials -> SUBSET Nat],
                     layers : (SUBSET (1..TopLayer)) \ {{}}]
  /\ \A m \in Imports :
       /\ m.locked \subseteq {"supports"} /\ DOMAIN m.default \subseteq ConfigKeys
       /\ "material" \in DOMAIN m.default => m.default["material"] \in Materials
       /\ "colour" \in DOMAIN m.default => m.default["colour"] \in Nat
       /\ "layer" \in DOMAIN m.default => m.default["layer"] \in Nat
       /\ "supports" \in DOMAIN m.default => m.default["supports"] \in {"auto", "off", "always"}

\* parseOrcaProgressLine keeps what Orca reports below 96, runOrcaSlice adds 97, and
\* reportProgress lets nothing beyond it through.
ASSUME PercentsAssumption == Percents \subseteq 1..97

VARIABLES part,
          pc, snapshot, lock, overrun, pdf, recorded, torn, crashed, pdfFaults, overruns,
          settings, backup, restore, before, touched, blind, steps,
          stored, ready, editor, shown, catalogPut, namePut, sale, had, saves,
          shop, seen, import, config, commit, due, sent, taken, changes,
          card, cardReady, cardSend, cardPoll, cardJob, row, open, visits, listed, fetches,
          wipe, drops, order, cut,
          plate, at, tries, proc, strays, late, dir, first, outcome, source, alone, host,
          stage, last, next, writer, held, printed, state,
          head, upstream, latest, tags, started, schema, record, env, broken,
          update, said, halfTagged, runs, kills

pdfVars == <<pc, snapshot, lock, overrun, pdf, recorded, torn, crashed, pdfFaults, overruns>>
backupVars == <<settings, backup, restore, before, touched, blind, steps>>
catalogVars == <<stored, ready, editor, shown, catalogPut, namePut, sale, had, saves>>
configVars == <<shop, seen, import, config, commit, due, sent, taken, changes>>
pageVars == <<card, cardReady, cardSend, cardPoll, cardJob, row, open, visits, listed, fetches,
              wipe, drops, order, cut>>
orcaVars == <<plate, at, tries, proc, strays, late, dir, first, outcome, source, alone, host>>
progressVars == <<stage, last, next, writer, held, printed, state>>
updateVars == <<head, upstream, latest, tags, started, schema, record, env, broken,
                update, said, halfTagged, runs, kills>>

-----------------------------------------------------------------------------
Pdf == INSTANCE PdfStore
  WITH file <- pdf, faults <- pdfFaults, MaxFaults <- MaxPdfFaults

Backup == INSTANCE SettingsRestore WITH file <- backup, None <- NoAccount

\* Reads of the row may fail.
Catalog == INSTANCE CatalogSettings WITH Flaky <- TRUE, MaxSaves <- MaxOffers

\* Shops that sell both materials or one, with and without a colour left; models
\* with no settings of their own, with some, and with a locked one.
Shop(on, c1, c2, ls) == [on |-> on, colours |-> <<c1, c2>>, layers |-> ls]
Model(d, l) == [default |-> d, locked |-> l]
SmallShops == {Shop({1, 2}, {1, 2}, {1}, {1, 2}), Shop({2}, {1}, {2}, {1}),
               Shop({1, 2}, {1}, {2}, {1, 2, 3}), Shop({2}, {}, {1, 2}, {2, 3})}
SmallImports == {Model(<<>>, {}), Model([material |-> 2, layer |-> 3], {}),
                 Model([supports |-> "off"], {"supports"}),
                 Model([material |-> 2, layer |-> 1, supports |-> "auto"], {"supports"})}

Config == INSTANCE QuoteConfig

Page == INSTANCE UploadPage
  WITH ready <- cardReady, send <- cardSend, poll <- cardPoll, job <- cardJob, Lossy <- TRUE

\* Two executions of one replayed attempt.
JobOf == [e \in Execs |-> "j1"]
Orca == INSTANCE OrcaRun WITH runs <- tries, up <- host, Job <- JobOf, None <- Lost

Progress == INSTANCE SliceProgress WITH shown <- printed, Steps <- Percents, Quiet <- 0

Update == INSTANCE SelfUpdate WITH up <- started, run <- update, None <- Lost

-----------------------------------------------------------------------------
AllInit ==
  /\ part \in {"ingest", "pdf", "settings", "catalog", "config", "page", "orca", "progress",
              "update"}
  /\ Init /\ Pdf!Init /\ Backup!Init /\ Catalog!Init /\ Config!Init
  /\ Page!Init /\ Orca!Init /\ Progress!Init /\ Update!Init
  /\ part # "update" => broken = {}
  /\ part # "orca" => plate = [j \in {"j1"} |-> TRUE]
  /\ part # "config" => shop = Shop({2}, {1}, {2}, {1}) /\ import = Model(<<>>, {})

AllNext ==
  \/ /\ part = "ingest" /\ Next
     /\ UNCHANGED <<part, pdfVars, backupVars, catalogVars, configVars,
                    pageVars, orcaVars, progressVars, updateVars>>
  \/ /\ part = "pdf" /\ Pdf!Next
     /\ UNCHANGED <<part, vars, backupVars, catalogVars, configVars,
                    pageVars, orcaVars, progressVars, updateVars>>
  \/ /\ part = "settings" /\ Backup!Next
     /\ UNCHANGED <<part, vars, pdfVars, catalogVars, configVars,
                    pageVars, orcaVars, progressVars, updateVars>>
  \/ /\ part = "catalog" /\ Catalog!Next
     /\ UNCHANGED <<part, vars, pdfVars, backupVars, configVars,
                    pageVars, orcaVars, progressVars, updateVars>>
  \/ /\ part = "config" /\ Config!Next
     /\ UNCHANGED <<part, vars, pdfVars, backupVars, catalogVars,
                    pageVars, orcaVars, progressVars, updateVars>>
  \/ /\ part = "page" /\ Page!Next
     /\ UNCHANGED <<part, vars, pdfVars, backupVars, catalogVars,
                    configVars, orcaVars, progressVars, updateVars>>
  \/ /\ part = "orca" /\ Orca!Next
     /\ UNCHANGED <<part, vars, pdfVars, backupVars, catalogVars,
                    configVars, pageVars, progressVars, updateVars>>
  \/ /\ part = "progress" /\ Progress!Next
     /\ UNCHANGED <<part, vars, pdfVars, backupVars, catalogVars,
                    configVars, pageVars, orcaVars, updateVars>>
  \/ /\ part = "update" /\ Update!Next
     /\ UNCHANGED <<part, vars, pdfVars, backupVars, catalogVars,
                    configVars, pageVars, orcaVars, progressVars>>

everything ==
  <<part, vars, pdfVars, backupVars, catalogVars, configVars, pageVars,
    orcaVars, progressVars, updateVars>>

AllSpec == AllInit /\ [][AllNext]_everything

\* Uploads are interchangeable, and so are the files a customer chooses.
Symmetry == Permutations(Uploads) \cup Permutations(Files)

\* PdfStore
StoredSafely == Pdf!StoredSafely
\* SettingsRestore and CatalogSettings: the settings as they are restored, and as the offer
\* is read from them.
SettingsKept == Backup!RestoredHonestly /\ Catalog!OfferKept
\* QuoteConfig
ChosenIsOrdered == Config!ChosenIsOrdered
\* UploadPage
CardsTrue == Page!CardsTrue
\* OrcaRun
RunsApart == Orca!RunsApart
\* SliceProgress
Rises == Progress!Rises
\* SelfUpdate
UpdateHonest == Update!UpdateHonest
=============================================================================
