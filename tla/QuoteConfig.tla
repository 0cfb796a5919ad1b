----------------------------- MODULE QuoteConfig -----------------------------
(***************************************************************************)
(* What one model is to be printed in: the settings panel of its card,     *)
(* whose three effects keep the choice within the catalog the page was     *)
(* rendered with, the shop that changes its offer meanwhile, the settings  *)
(* a 3MF plate brings along and locks, and the order route, which judges   *)
(* the choice by the offer of now.  The materials are numbered in catalog  *)
(* order, the colours in palette order, the layer heights upwards.         *)
(***************************************************************************)
EXTENDS FiniteSets, Naturals

CONSTANTS
  Shops,      \* the offers the shop may make: [on, colours, layers]
  Imports,    \* what an upload brings along: [default |-> partial config, locked |-> keys]
  MaxChanges  \* bound: the offer changes at most so often

VARIABLES
  shop,       \* the shop's offer now
  seen,       \* the offer the page was rendered with
  import,     \* the default and the locks of the model
  config,     \* the choice in the quote store
  commit,     \* the offer and the choice the panel was last rendered with
  due,        \* its effects that run after that render
  sent,       \* the choice a request carries, or nothing
  taken,      \* the choice the order was accepted with, or nothing
  changes

vars == <<shop, seen, import, config, commit, due, sent, taken, changes>>

Supports == {"auto", "off", "always"}
Nothing == [nothing |-> TRUE]
Least(S) == CHOOSE x \in S : \A y \in S : x <= y
Greatest(S) == CHOOSE x \in S : \A y \in S : x >= y

\* Later settings win.
Over(base, patch) == [k \in DOMAIN base |-> IF k \in DOMAIN patch THEN patch[k] ELSE base[k]]
Without(patch, keys) == [k \in DOMAIN patch \ keys |-> patch[k]]

DefaultConfig == [material |-> 1, colour |-> 1, layer |-> 2, supports |-> "auto"]

Init ==
  /\ shop \in Shops /\ seen = shop
  /\ import \in Imports
  /\ config = Over(DefaultConfig, import.default)
  /\ commit = Nothing /\ due = {}
  /\ sent = Nothing /\ taken = Nothing /\ changes = 0

-----------------------------------------------------------------------------
(* The panel.                                                              *)

defaultLayerHeight(layers) == IF 2 \in layers THEN 2 ELSE Greatest(layers)

View == [cat |-> seen, config |-> config]
Settled == commit = View /\ due = {}

\* Mutant: the colour is looked at only when the colour changes.
Deps_Missing(e, v) == IF e = "layer" THEN <<v.cat, v.config.layer>> ELSE <<v.cat, v.config.colour>>

\* The dependency lists of the three effects.
Deps(e, v) ==
  CASE e = "material" -> <<v.cat, v.config.material>>
    [] e = "layer"    -> <<v.cat, v.config.layer>>
    [] e = "colour"   -> <<v.cat, v.config.material, v.config.colour>>

Render ==
  /\ due = {} /\ commit # View /\ taken = Nothing
  /\ commit' = View
  /\ due' = {e \in {"material", "layer", "colour"} :
               commit = Nothing \/ Deps(e, commit) # Deps(e, View)}
  /\ UNCHANGED <<shop, seen, import, config, sent, taken, changes>>

\* What each effect sets, by the render it belongs to.
Patch(e) ==
  LET cat == commit.cat
      c == commit.config
  IN CASE e = "material" /\ cat.on # {} /\ c.material \notin cat.on -> [material |-> Least(cat.on)]
       [] e = "layer" /\ c.layer \notin cat.layers -> [layer |-> defaultLayerHeight(cat.layers)]
       [] e = "colour" /\ cat.colours[c.material] # {} /\ c.colour \notin cat.colours[c.material] ->
            [colour |-> Least(cat.colours[c.material])]
       [] OTHER -> <<>>

\* updateConfig leaves alone what the model has locked.
filterUnlocked(patch) == Without(patch, import.locked)
updateConfig(cfg, patch) == Over(cfg, filterUnlocked(patch))

\* The effects of a render run together, in their order, on the store of now.
Effects ==
  /\ due # {}
  /\ due' = {}
  /\ LET run(cfg, e) == IF e \in due THEN updateConfig(cfg, Patch(e)) ELSE cfg
     IN config' = run(run(run(config, "material"), "layer"), "colour")
  /\ UNCHANGED <<shop, seen, import, commit, sent, taken, changes>>

\* A pick in the list or from the helper takes a colour of the new material along.
chooseMaterial(m) ==
  LET cols == seen.colours[m]
  IN IF config.colour \in cols \/ cols = {}
       THEN [material |-> m] ELSE [material |-> m, colour |-> Least(cols)]

\* A click flushes what is due before it is handled; locked supports are disabled.
Choices ==
  {chooseMaterial(m) : m \in seen.on}
    \cup {[colour |-> c] : c \in seen.colours[config.material]}
    \cup {[layer |-> l] : l \in IF Cardinality(seen.layers) > 1 THEN seen.layers ELSE {}}
    \cup {[supports |-> s] : s \in IF "supports" \in import.locked THEN {config.supports} ELSE Supports}

Choose ==
  /\ Settled /\ sent = Nothing
  /\ \E patch \in Choices : config' = updateConfig(config, patch)
  /\ UNCHANGED <<shop, seen, import, commit, due, sent, taken, changes>>

-----------------------------------------------------------------------------
(* The shop and the server.                                                *)

AdminSaves ==
  /\ changes < MaxChanges /\ taken = Nothing
  /\ changes' = changes + 1
  /\ shop' \in Shops \ {shop}
  /\ UNCHANGED <<seen, import, config, commit, due, sent, taken>>

\* A navigation or router.refresh renders the page with the offer of now, but not
\* while the form waits for its answer.
Refresh ==
  /\ seen # shop /\ sent = Nothing /\ taken = Nothing
  /\ seen' = shop
  /\ UNCHANGED <<shop, import, config, commit, due, sent, taken, changes>>

Submit ==
  /\ Settled /\ sent = Nothing /\ taken = Nothing
  /\ sent' = config
  /\ UNCHANGED <<shop, seen, import, config, commit, due, taken, changes>>

\* Mutant: a default of the file counts as locked.
normalizeModelConfigLocks_All(cfg) == Over(cfg, import.default)

\* Locked settings are the file's; a locked height the shop has dropped is not.
normalizeModelConfigLocks(cfg) ==
  LET d == import.default
      keys == {k \in DOMAIN d \cap import.locked : k = "layer" => d.layer \in shop.layers}
  IN Over(cfg, [k \in keys |-> d[k]])

assertConfigAvailable(cat, cfg) ==
  /\ cfg.material \in cat.on
  /\ cfg.colour \in cat.colours[cfg.material]
  /\ cfg.layer \in cat.layers

Order ==
  /\ sent # Nothing
  /\ sent' = Nothing
  /\ LET cfg == normalizeModelConfigLocks(sent)
     IN taken' = IF assertConfigAvailable(shop, cfg) THEN cfg ELSE taken
  /\ UNCHANGED <<shop, seen, import, config, commit, due, changes>>

-----------------------------------------------------------------------------
Next ==
  \/ Render \/ Effects \/ Choose
  \/ AdminSaves \/ Refresh \/ Submit \/ Order

Spec == Init /\ [][Next]_vars

-----------------------------------------------------------------------------
TypeOK ==
  /\ shop \in Shops /\ seen \in Shops
  /\ import \in Imports
  /\ config \in [material : Nat, colour : Nat, layer : Nat, supports : Supports]
  /\ due \subseteq {"material", "layer", "colour"}
  /\ changes \in 0..MaxChanges

\* The effects run with the values of their own render, so one may undo or miss what
\* another has just set: yet they come to rest, and what they rest at can be ordered
\* from the offer shown, whatever the file brought (settings-panel.tsx:97-116).
Orderable(cat) == cat.on # {} /\ \A m \in cat.on : cat.colours[m] # {}
RestsOrderable == Settled /\ Orderable(seen) => assertConfigAvailable(seen, config)

\* An order is printed as the card showed it, or refused: "the server must never
\* reinterpret what the customer submitted" (quotations/route.ts:110-113).
PrintedAsShown == [][taken' # taken => taken' = config]_vars

\* The choice on a card can be ordered, and what is ordered is that choice.
ChosenIsOrdered == [](TypeOK /\ RestsOrderable) /\ PrintedAsShown
=============================================================================
