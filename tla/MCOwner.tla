------------------------------- MODULE MCOwner -------------------------------
(* Small instances of the models of what the owner of a shop runs and edits: *)
(* the rates that orders are billed by, the installer, the rights of the     *)
(* runtime roles, the operator's alerts, the login's rate limit, the editors *)
(* of the dashboard whose saves cross one another, and what customers see of *)
(* what these store. The initial state picks the one that runs; the others   *)
(* rest.                                                                     *)
EXTENDS Naturals, Sequences, FiniteSets, TLC

CONSTANTS
  Photos, Null,
  Releases, TypedRates, AllowedRates, BilledOrders, Couriers, TaxRates, MaxColumn,  \* Rates
  Modes, Domains, Lans, Printers, Passwords, Shops, SeededRates, Extras,
  MaxRuns, MaxStops, MaxFresh,                                                      \* Install
  MaxStarts,                                                                        \* DatabaseRoles
  Replicas, AlertCalls, Interval, Threshold, MaxWithheld, MaxCrashes,                    \* Alerts
  Attempts, Addresses, Window, MaxOwn, MaxAll, Delay,                               \* RateLimits
  MaxListed, MaxLoads, PrintSaves,                                                  \* Showcase
  MaxCustoms, MaxAdded, ColourSaves,                                                \* CustomColours
  MaxSent, MaxCalls, MaxLost,                                                       \* OwnMaterials
  MaxEdits, NeedSaves,                                                              \* MaterialHelper
  MaxTyped, RateSaves, MaxRestores,                                                 \* RatesForm
  Pictures, Fingers, MaxZoom                                                        \* Lightbox

\* The releases have the same rates, and defaults that a shop may use; amounts are
\* whole numbers, and a day of printing has an hour at least.
ASSUME RatesAssumption ==
  /\ Len(Releases) \in Nat \ {0} /\ MaxColumn \in Nat
  /\ {"setup", "sell", "power", "hours", "buffer"} \subseteq DOMAIN Releases[1]
  /\ \A v \in 1..Len(Releases) :
       /\ Releases[v] \in [DOMAIN Releases[1] -> Nat]
       /\ \A f \in DOMAIN Releases[1] : Releases[v][f] \in AllowedRates[f]
  /\ \A f \in DOMAIN Releases[1] : AllowedRates[f] \subseteq Nat
  /\ 0 \notin AllowedRates["hours"]
  /\ \A items \in BilledOrders :
       items \in Seq([grams : Nat, seconds : Nat, quantity : Nat])
  /\ Couriers \subseteq Nat /\ TaxRates \subseteq Nat

ASSUME MaterialsAssumption == Null \notin {"a", "b", "c", "name"}

ASSUME EditorsAssumption ==
  /\ {MaxListed, PrintSaves, MaxAdded, ColourSaves, MaxSent, MaxLost} \subseteq Nat
  /\ Pictures \in Nat \ {0} /\ MaxZoom \in Nat \ {0, 1}

ASSUME StartsAssumption == MaxStarts \in Nat

ASSUME AlertsAssumption ==
  /\ IsFiniteSet(Replicas) /\ Null \notin Nat
  /\ Interval \in Nat \ {0} /\ Threshold \in Nat

ASSUME LoginAssumption ==
  /\ Window \in Nat /\ Delay \in Nat
  /\ MaxOwn \in Nat \ {0} /\ MaxAll \in Nat \ {0}

VARIABLES part,
          version, ratesRow, billForm, taxRow, agreed, bill,                             \* Rates
          photos, list, editor, posts, puts, saves, mixed, fate,                 \* Showcase
          env, answers, caddyfile, profiles, image, volume, up, run, asked, said,
          halved, fresh, runs, stops,                                                    \* Install
          rights, at, provisioned, broken, refused, starts,                      \* DatabaseRoles
          row, page, state, form, dirty, saving, put, late, added, stores,       \* CustomColours
          attempts, other, stored, opened, shown, box, touched, pending, calls,
          sent, lost, astray,                                                    \* OwnMaterials
          helper, sheet, unsaved, posted, edits, rewrites, reused,
          offer, ticked, picked, noMatch, material,                              \* MaterialHelper
          rates, values, altered, rateSave, filled, typed, typedLate, restored, counts, \* RatesForm
          openAt, dialog, faded, due, closing, scroll, view, zoomed, down, pointers,
          dragged, panned, outcome,                                              \* Lightbox
          source, key, shared, gate, alerts, monitor, recent, silence, tally, crashes, \* Alerts
          own, all, request, guesses, stuck, told                                \* RateLimits

billVars == <<version, ratesRow, billForm, taxRow, agreed, bill>>
showcaseVars == <<photos, list, editor, posts, puts, saves, mixed, fate>>
installVars == <<env, answers, caddyfile, profiles, image, volume, up, run, asked, said,
                 halved, fresh, runs, stops>>
roleVars == <<rights, at, provisioned, broken, refused, starts>>
colourVars == <<row, page, state, form, dirty, saving, put, late, added, stores>>
materialVars == <<attempts, other, stored, opened, shown, box, touched, pending, calls,
                  sent, lost, astray>>
helperVars == <<helper, sheet, unsaved, posted, edits, rewrites, reused,
                offer, ticked, picked, noMatch, material>>
rateVars == <<rates, values, altered, rateSave, filled, typed, typedLate, restored, counts>>
viewerVars == <<openAt, dialog, faded, due, closing, scroll, view, zoomed, down, pointers,
                dragged, panned, outcome>>
alertVars == <<source, key, shared, gate, alerts, monitor, recent, silence, tally, crashes>>
loginVars == <<own, all, request, guesses, stuck, told>>
allVars == <<part, billVars, showcaseVars, installVars, roleVars, colourVars,
             materialVars, helperVars, rateVars, viewerVars, alertVars, loginVars>>

-----------------------------------------------------------------------------
(* Rates and orders.                                                       *)

\* The defaults of two releases; what the operator may type; what a field allows;
\* orders of one and of two lines.
Line(g, s, q) == [grams |-> g, seconds |-> s, quantity |-> q]
Price(sell, spool) ==
  [setup |-> 5000, sell |-> sell, power |-> 220, hours |-> 8, buffer |-> 1, spool |-> spool]
TwoReleases == <<Price(349, 60), Price(405, 90)>>
Retyped == [sell |-> {349, 15}, hours |-> {0, 3}]
FieldBounds ==
  [setup |-> 0..100000, sell |-> 10..1000, power |-> 0..1000,
   hours |-> 1..24, buffer |-> 0..60, spool |-> 0..1000]
SmallBills ==
  {<<Line(3, 3600, 1)>>, <<Line(7, 30000, 3), Line(10, 20, 1)>>, <<Line(100, 9000, 9)>>}

-----------------------------------------------------------------------------
(* The rows of two settings.                                             *)

\* The defaults of the helper rate material a, and c, on looks.
Ratings == [m \in {"a", "b", "c"} |-> [n \in {"looks", "own1"} |-> IF n = "own1" \/ m = "b" THEN 0 ELSE 2]]

\* A need of the owner's, a rating out of range and a material without ratings.
DamagedRow ==
  [builtIn |-> <<>>, own |-> [s \in {"own1"} |-> [label |-> "n1", on |-> TRUE]],
   scores |-> [m \in {"a"} |-> [n \in {"looks", "own1"} |-> IF n = "own1" THEN 3 ELSE 7]]]

HelperRate == [m \in {"a", "b", "c"} |-> IF m = "b" THEN 1 ELSE 2]

HelperRow(needs, looks, a, b) ==
  [enabled |-> TRUE, builtIn |-> [n \in {"looks"} |-> looks], own |-> needs,
   scores |-> [m \in {"a", "b", "c"} |-> [n \in {"looks", "own1"} |->
                IF n = "looks" THEN 1 ELSE IF m = "a" THEN a ELSE IF m = "b" THEN b ELSE 3]]]

\* Without a need, and with one of the owner's on which the three rate differently.
HelperRows ==
  {Null, HelperRow(<<>>, FALSE, 0, 0)}
    \cup { HelperRow([s \in {"own1"} |-> [label |-> l, on |-> TRUE]], TRUE, a, b) :
             a \in {0, 3}, b \in {0, 2, 3}, l \in {"n1", "n2"} }

RateFields == {"sell", "spool", "pla", "gst", "spoolShipping", "power", "kwh"}

RateUnits ==
  [f \in RateFields |->
    CASE f = "sell" -> "rupeesPerKg" [] f = "gst" -> "percent"
      [] f \in {"spoolShipping", "kwh"} -> "rupees" [] OTHER -> "plain"]

StoredRates(sell, pla, gst, power) ==
  [f \in RateFields |->
    CASE f = "sell" -> sell [] f = "spool" -> 600 [] f = "pla" -> pla [] f = "gst" -> gst
      [] f = "spoolShipping" -> 9000 [] f = "power" -> power [] f = "kwh" -> 1100]

\* As they ship; with more digits than the form shows; with a power that prints with an exponent.
PlainRates == StoredRates(79800, 565, 18000, 200)
RateRows == {PlainRates, StoredRates(80000, 700, 18125, 200), StoredRates(80000, 600, 18000, 1)}

RateTexts ==
  [f \in RateFields |->
    CASE f = "sell" -> {797000, 798000, 799005, Null} [] f = "pla" -> {600, 601} [] f = "gst" -> {5000, 18125}
      [] f = "spoolShipping" -> {90005} [] f = "power" -> {300} [] OTHER -> {}]

RateBounds == [f \in RateFields |-> IF f = "sell" THEN { 100 * i : i \in 700..900 } ELSE 0..30000]

SpoolKind(m, prefix, cheaper, glitter) ==
  [material |-> m, colour |-> [prefix |-> prefix, cheaper |-> cheaper, glitter |-> glitter]]
SpoolKinds ==
  {SpoolKind("PLA", "plain-", FALSE, FALSE), SpoolKind("PLA", "plain-", TRUE, FALSE),
   SpoolKind("PETG_PREMIUM", "plain-", FALSE, TRUE), SpoolKind("PLA_AESTHETIC", "silk-", TRUE, FALSE),
   SpoolKind("PLA_AESTHETIC", "stone-", FALSE, FALSE), SpoolKind("PLA_AESTHETIC", "plain-", FALSE, FALSE),
   SpoolKind("TPU", "plain-", FALSE, FALSE)}

SmallOrder ==
  [items |-> <<[grams |-> 33, seconds |-> 600, material |-> "PLA",
                colour |-> [prefix |-> "plain-", cheaper |-> TRUE, glitter |-> FALSE]]>>,
   ship |-> 9950, tax |-> 517]

-----------------------------------------------------------------------------
(* The instances.                                                        *)

Pricing == INSTANCE Rates
  WITH Defaults <- Releases, Typed <- TypedRates, Bounds <- AllowedRates, Orders <- BilledOrders,
       Shipping <- Couriers, form <- billForm, gst <- taxRow, Lost <- Null

Prints == INSTANCE Showcase WITH MaxPrints <- MaxListed, MaxSaves <- PrintSaves, files <- photos

Shop == INSTANCE Install WITH Rates <- SeededRates, None <- Null

Roles == INSTANCE DatabaseRoles

\* Two names with one slug; a colour in short, and a text that spells none.
Colours == INSTANCE CustomColours
  WITH Materials <- {"pla"}, Palette <- [m \in {"pla"} |-> {}],
       Slugs <- [n \in {"Red", "red+"} |-> "red"],
       Texts <- [t \in {"#F00", "#F"} |-> IF t = "#F" THEN "none" ELSE t], NoHex <- "none",
       Nothing <- Null, Layers <- {1, 2}, MaxSaves <- ColourSaves,
       saves <- stores

Material == INSTANCE OwnMaterials
  WITH Generics <- <<"g1">>, Densities <- {1}, Files <- {[generic |-> Null, density |-> 2]},
       None <- Null, page <- opened, saves <- sent

\* The editor without a customer, and a customer's page of each of a few rows.
Helper == INSTANCE MaterialHelper
  WITH Catalog <- <<"a", "b">>, BuiltIn <- {"looks"}, Slots <- {"own1"}, Defaults <- Ratings, Blank <- "blank",
       Labels <- {"n1"}, Rateable <- {<<"b", "own1">>, <<"a", "looks">>}, Blobs <- {DamagedRow},
       Rate <- HelperRate, MaxSaves <- NeedSaves, MaxPages <- 0, row <- helper, form <- sheet,
       dirty <- unsaved, put <- posted, saves <- rewrites, page <- offer
Chooser == INSTANCE MaterialHelper
  WITH Catalog <- <<"a", "b", "c">>, BuiltIn <- {"looks"}, Slots <- {"own1"}, Defaults <- Ratings, Blank <- "blank",
       Labels <- {}, Rateable <- {}, Blobs <- HelperRows, Rate <- HelperRate, MaxEdits <- 0, MaxSaves <- 0,
       MaxPages <- 1, row <- helper, form <- sheet, dirty <- unsaved, put <- posted, saves <- rewrites,
       page <- offer

\* Rates of two lines that differ from the others', and amounts at the edges of the rounding.
RateForm == INSTANCE RatesForm
  WITH Unit <- RateUnits, Rows <- RateRows, Typed <- RateTexts, Bounds <- RateBounds, Fine <- {1}, NaN <- Null,
       Kinds <- SpoolKinds, Orders <- {SmallOrder}, MaxSaves <- RateSaves,
       row <- rates, dirty <- altered, put <- rateSave, opened <- filled, late <- typedLate

Viewer == INSTANCE Lightbox
  WITH Count <- Pictures, None <- Null, shown <- faded, pending <- due

Alarm == INSTANCE Alerts WITH Slots <- AlertCalls, Never <- Null, calls <- alerts, counts <- tally

Login == INSTANCE RateLimits

\* No value is another one.
ASSUME ShopAssumption ==
  /\ Null \notin Shops \cup SeededRates \cup Passwords \cup Shop!Kinds /\ Null \notin 1..2
  /\ Null \notin Shop!Configs /\ Null \notin Shop!Profiles /\ Null \notin Shop!Volumes
  /\ Shop!Pending \notin Passwords

-----------------------------------------------------------------------------
\* A model that rests has no earlier rights or attempts.
AllInit ==
  /\ part \in {"bills", "prints", "shop", "roles", "colours", "material",
                "helper", "chooser", "rates", "viewer", "alerts", "login"}
  /\ IF part = "roles" THEN Roles!Init
     ELSE /\ rights = {} /\ at = 0 /\ provisioned = FALSE /\ broken = TRUE
          /\ refused = {} /\ starts = 2
  /\ Pricing!Init /\ Prints!Init /\ Shop!Init /\ Colours!Init /\ Material!Init
  /\ part # "material" => attempts = <<>>
  /\ IF part = "chooser" THEN Chooser!Init ELSE Helper!Init
  /\ RateForm!Init /\ Viewer!Init /\ Alarm!Init /\ Login!Init
  /\ part \notin {"helper", "chooser"} => helper = Null
  /\ part # "rates" => rates = PlainRates
  /\ part # "alerts" => source = "error"

AllNext ==
  \/ /\ part = "bills" /\ Pricing!Next
     /\ UNCHANGED <<part, showcaseVars, installVars, roleVars, colourVars, materialVars,
                   helperVars, rateVars, viewerVars, alertVars, loginVars>>
  \/ /\ part = "prints" /\ Prints!Next
     /\ UNCHANGED <<part, billVars, installVars, roleVars, colourVars, materialVars,
                   helperVars, rateVars, viewerVars, alertVars, loginVars>>
  \/ /\ part = "shop" /\ Shop!Next
     /\ UNCHANGED <<part, billVars, showcaseVars, roleVars, colourVars, materialVars,
                   helperVars, rateVars, viewerVars, alertVars, loginVars>>
  \/ /\ part = "roles" /\ Roles!Next
     /\ UNCHANGED <<part, billVars, showcaseVars, installVars, colourVars, materialVars,
                   helperVars, rateVars, viewerVars, alertVars, loginVars>>
  \/ /\ part = "colours" /\ Colours!Next
     /\ UNCHANGED <<part, billVars, showcaseVars, installVars, roleVars, materialVars,
                   helperVars, rateVars, viewerVars, alertVars, loginVars>>
  \/ /\ part = "material" /\ Material!Next
     /\ UNCHANGED <<part, billVars, showcaseVars, installVars, roleVars, colourVars,
                   helperVars, rateVars, viewerVars, alertVars, loginVars>>
  \/ /\ part = "helper" /\ Helper!Next
     /\ UNCHANGED <<part, billVars, showcaseVars, installVars, roleVars, colourVars,
                   materialVars, rateVars, viewerVars, alertVars, loginVars>>
  \/ /\ part = "chooser" /\ Chooser!Next
     /\ UNCHANGED <<part, billVars, showcaseVars, installVars, roleVars, colourVars,
                   materialVars, rateVars, viewerVars, alertVars, loginVars>>
  \/ /\ part = "rates" /\ RateForm!Next
     /\ UNCHANGED <<part, billVars, showcaseVars, installVars, roleVars, colourVars,
                   materialVars, helperVars, viewerVars, alertVars, loginVars>>
  \/ /\ part = "viewer" /\ Viewer!Next
     /\ UNCHANGED <<part, billVars, showcaseVars, installVars, roleVars, colourVars,
                   materialVars, helperVars, rateVars, alertVars, loginVars>>
  \/ /\ part = "alerts" /\ Alarm!Next
     /\ UNCHANGED <<part, billVars, showcaseVars, installVars, roleVars, colourVars,
                   materialVars, helperVars, rateVars, viewerVars, loginVars>>
  \/ /\ part = "login" /\ Login!Next
     /\ UNCHANGED <<part, billVars, showcaseVars, installVars, roleVars, colourVars,
                   materialVars, helperVars, rateVars, viewerVars, alertVars>>

AllSpec == AllInit /\ [][AllNext]_allVars

Symmetry == Permutations(Photos)

\* Rates: what orders are billed.
BilledRight == Pricing!BilledRight
\* Showcase, CustomColours, OwnMaterials, MaterialHelper and RatesForm: what the editors show,
\* send and store; MaterialHelper and Lightbox: what customers are shown of it.
EditorsTrue ==
  CASE part = "prints" -> Prints!ShowcaseTrue
    [] part = "colours" -> Colours!ColoursTrue
    [] part = "material" -> Material!MaterialTold
    [] part = "helper" -> Helper!NeedsKept
    [] part = "rates" -> RateForm!RatesTrue
    [] part = "chooser" -> Chooser!HelperTrue
    [] part = "viewer" -> Viewer!ViewerTrue
    [] OTHER -> TRUE
\* Install and DatabaseRoles: what the server runs with; Alerts: that its operator hears of
\* an outage; RateLimits: that its login is guessed at no faster than it says.
ServerFits ==
  CASE part = "shop" -> Shop!InstallTrue
    [] part = "roles" -> Roles!RightsFit
    [] part = "alerts" -> Alarm!AlertsHeard
    [] part = "login" -> Login!LoginBounded
    [] OTHER -> TRUE
=============================================================================
