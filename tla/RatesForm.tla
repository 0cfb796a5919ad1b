------------------------------- MODULE RatesForm -------------------------------
(***************************************************************************)
(* Admin -> Rates as a form: texts in rupees, percent and kilograms over a *)
(* row in paise, ratios and grams; the cell that says whether a spool is   *)
(* covered by what customers pay; and the cost and the profit that the     *)
(* dashboard estimates of an order with the rates that are stored.         *)
(* A text is the number it spells, in thousandths of the unit it is typed  *)
(* in; NaN spells none.                                                    *)
(***************************************************************************)
EXTENDS Integers, Sequences, FiniteSets, Functions

CONSTANTS
  Unit,       \* of each field: "rupees", "rupeesPerKg", "percent" or "plain"
  Rows,       \* what the row may hold when the form is opened, or after a restore
  Typed,      \* what may be typed into each field
  Bounds,     \* PRICING_BOUNDS, on stored values
  Fine,       \* stored values that print with an exponent
  NaN,
  Kinds,      \* what is estimated: [material, colour]
  Orders,     \* orders: [items, ship, tax]; an item is [material, colour, grams, seconds]
  MaxTyped, MaxSaves, MaxRestores,   \* bounds
  Null

VARIABLES
  row,
  values,     \* the texts of the open form, or Null
  dirty,
  put,        \* the save under way: its body, and whether the server has stored or refused it
  opened,     \* the row the form was filled in from
  typed,      \* fields that were typed into, since the form was opened
  late,       \* of those, the ones typed into while a save was under way
  restored,   \* the row was changed under the form
  counts

vars == <<row, values, dirty, put, opened, typed, late, restored, counts>>

Fields == DOMAIN Unit

\* Math.round of a / b: halves go up.
Rounded(a, b) == (2 * a + b) \div (2 * b)

-----------------------------------------------------------------------------
(* Texts. Paise are stored whole, the price of a gram in thousandths of a  *)
(* paisa, a ratio in hundredths of a thousandth, the rest as it is typed.  *)

toText(value, unit) ==
  IF value \in Fine THEN NaN
  ELSE IF unit = "rupees" THEN 10 * value
  ELSE IF unit = "rupeesPerKg" THEN 10 * value
  ELSE IF unit = "percent" THEN 10 * Rounded(value, 10)
  ELSE value

\* Mutant: a percentage is cut off after two decimals.
fromText_Cut(text, unit) ==
  IF unit = "percent" THEN 10 * (text \div 100) * 10
  ELSE IF unit = "plain" THEN text
  ELSE Rounded(text, 10)

\* Of a text that spells a number: to whole paise, to 0.01 rupees per kg, to 0.01 %.
fromText(text, unit) ==
  IF unit = "percent" THEN 10 * Rounded(text, 10)
  ELSE IF unit = "plain" THEN text
  ELSE Rounded(text, 10)

stored(f) == fromText(values[f], Unit[f])
invalid == {f \in Fields : values[f] = NaN \/ stored(f) \notin Bounds[f]}

-----------------------------------------------------------------------------
(* Costs.                                                                *)

\* A colour is known by its prefix, by whether it comes in a cheaper line only, and by
\* whether it glitters.
Prefixes ==
  [p \in {"matte-", "dual-", "tri-", "metallic-", "stone-", "starlight-", "glow-", "wood-"} |->
    CASE p = "matte-" -> "matte" [] p \in {"dual-", "tri-"} -> "dualTriSilk" [] p = "metallic-" -> "metallic"
      [] p = "stone-" -> "stone" [] p = "starlight-" -> "starlight" [] p = "glow-" -> "glow" [] OTHER -> "wood"]

Single ==
  [m \in {"PLA_CF", "PETG", "ABS", "ASA", "TPU", "OTHER_1", "OTHER_2"} |->
    CASE m = "PLA_CF" -> "plaCf" [] m = "PETG" -> "petgHs" [] m = "ABS" -> "abs" [] m = "ASA" -> "asa"
      [] m = "TPU" -> "tpu" [] m = "OTHER_1" -> "other1" [] OTHER -> "other2"]

\* Mutant: an unknown colour of the aesthetic tier is bought as the basic line.
filamentLine_Basic(material, c) ==
  IF material = "PLA_AESTHETIC" /\ c.prefix \notin DOMAIN Prefixes \cup {"silk-"} THEN "plaPlus"
  ELSE IF material \in DOMAIN Single THEN Single[material]
  ELSE IF material = "PLA" THEN IF c.cheaper THEN "pla" ELSE "plaPlus"
  ELSE IF material = "PETG_PREMIUM" THEN
    IF c.prefix = "petg-cf-" THEN "petgCf" ELSE IF c.glitter THEN "translucentGlitter" ELSE "translucent"
  ELSE IF c.prefix = "silk-" THEN IF c.cheaper THEN "silkClearance" ELSE "silk"
  ELSE Prefixes[c.prefix]

\* The line a colour is bought as; unknown colours fall back to the tier's own.
filamentLine(material, c) ==
  IF material \in DOMAIN Single THEN Single[material]
  ELSE IF material = "PLA" THEN IF c.cheaper THEN "pla" ELSE "plaPlus"
  ELSE IF material = "PETG_PREMIUM" THEN
    IF c.prefix = "petg-cf-" THEN "petgCf" ELSE IF c.glitter THEN "translucentGlitter" ELSE "translucent"
  ELSE IF c.prefix = "silk-" THEN IF c.cheaper THEN "silkClearance" ELSE "silk"
  ELSE IF c.prefix \in DOMAIN Prefixes THEN Prefixes[c.prefix] ELSE "silk"

\* The lines the editor lists under each material.
MATERIAL_LINES ==
  [m \in DOMAIN Single \cup {"PLA", "PETG_PREMIUM", "PLA_AESTHETIC"} |->
    CASE m = "PLA" -> {"plaPlus", "pla"}
      [] m = "PETG_PREMIUM" -> {"translucent", "translucentGlitter", "petgCf"}
      [] m = "PLA_AESTHETIC" -> {"silk", "silkClearance", "matte", "dualTriSilk", "metallic", "stone",
                                 "starlight", "glow", "wood"}
      [] OTHER -> {Single[m]}]

\* A line has a field of its own; the model gives the lines that are alike one.
SpoolField(line) == IF line \in Fields THEN line ELSE "spool"
SellField(m) == IF m \in Fields THEN m ELSE "sell"

\* The list price, its GST and the shipping.
spoolCostPerKgPaise(list, basis) == list * 100 + Rounded(list * basis["gst"], 1000) + basis["spoolShipping"]

filamentCostPerKgPaise(item, basis) ==
  spoolCostPerKgPaise(basis[SpoolField(filamentLine(item.material, item.colour))], basis)

\* Electricity is power by price by hours.
estimateItemCostPaise(item, basis) ==
  Rounded(item.grams * filamentCostPerKgPaise(item, basis), 1000)
    + Rounded(item.seconds * basis["power"] * basis["kwh"], 3600 * 1000)

\* Mutant: the tax is counted in.
estimateOrderProfitPaise_Taxed(order, items, basis) ==
  order.total - order.ship - SumFunction([i \in DOMAIN items |-> estimateItemCostPaise(items[i], basis)])

\* What the customer pays for printing, less what producing it costs.
estimateOrderProfitPaise(order, items, basis) ==
  order.total - order.ship - order.tax
    - SumFunction([i \in DOMAIN items |-> estimateItemCostPaise(items[i], basis)])

\* The cell of a line: what a gram lands at is not below what customers pay.
notCovered(line, m) ==
  spoolCostPerKgPaise(stored(SpoolField(line)), [gst |-> stored("gst"), spoolShipping |-> stored("spoolShipping")])
    >= stored(SellField(m))

-----------------------------------------------------------------------------
(* The form.                                                             *)

Init ==
  /\ row \in Rows
  /\ values = Null /\ dirty = FALSE /\ put = Null /\ opened = Null
  /\ typed = {} /\ late = {} /\ restored = FALSE
  /\ counts = [typed |-> 0, saves |-> 0, restores |-> 0]

\* The page is opened, or opened anew.
Open ==
  /\ put = Null /\ (values = Null \/ ~dirty)
  /\ values' = [f \in Fields |-> toText(row[f], Unit[f])] /\ opened' = row
  /\ typed' = {} /\ late' = {} /\ restored' = FALSE
  /\ UNCHANGED <<row, dirty, put, counts>>

Type(f) ==
  /\ values # Null /\ counts.typed < MaxTyped
  /\ \E text \in Typed[f] : values' = [values EXCEPT ![f] = text]
  /\ dirty' = TRUE /\ typed' = typed \cup {f}
  /\ late' = IF put = Null THEN late \ {f} ELSE late \cup {f}
  /\ counts' = [counts EXCEPT !.typed = @ + 1]
  /\ UNCHANGED <<row, put, opened, restored>>

\* Mutant: only what was typed is sent; the server completes it from its defaults.
Body_Typed == [f \in Fields |-> IF f \in typed THEN stored(f) ELSE CHOOSE v \in Bounds[f] : TRUE]

\* The whole set is sent, the hidden fields, too.
Body == [f \in Fields |-> stored(f)]

save ==
  /\ values # Null /\ dirty /\ put = Null /\ invalid = {} /\ counts.saves < MaxSaves
  /\ put' = [body |-> Body, at |-> "sent"]
  /\ counts' = [counts EXCEPT !.saves = @ + 1]
  /\ UNCHANGED <<row, values, dirty, opened, typed, late, restored>>

\* PUT /api/admin/pricing: stored, or the database fails.
PUT ==
  /\ put # Null /\ put.at = "sent"
  /\ \/ row' = put.body /\ restored' = FALSE /\ put' = [put EXCEPT !.at = "stored"]
     \/ put' = [put EXCEPT !.at = "failed"] /\ UNCHANGED <<row, restored>>
  /\ UNCHANGED <<values, dirty, opened, typed, late, counts>>

\* The answer, which may be lost; the page is refreshed, and the form keeps its texts.
saveAnswered ==
  /\ put # Null /\ put.at # "sent" /\ put' = Null
  /\ dirty' \in IF put.at = "stored" THEN BOOLEAN ELSE {TRUE}
  /\ UNCHANGED <<row, values, opened, typed, late, restored, counts>>

\* A backup is restored, or another tab saves.
Restore ==
  /\ counts.restores < MaxRestores
  /\ row' \in Rows /\ restored' = TRUE
  /\ counts' = [counts EXCEPT !.restores = @ + 1]
  /\ UNCHANGED <<values, dirty, put, opened, typed, late>>

Next == Open \/ save \/ PUT \/ saveAnswered \/ Restore \/ \E f \in Fields : Type(f)

Spec == Init /\ [][Next]_vars

-----------------------------------------------------------------------------
\* A save sends back what it was not asked to change: exactly, or, where the form shows
\* fewer digits than are stored, within half of the last one it shows
\* (rates-editor.tsx:103-123, 257-263).
UntouchedKept ==
  put # Null =>
    \A f \in Fields \ typed :
      /\ 2 * (put.body[f] - opened[f]) \in -10..10
      /\ Unit[f] # "percent" \/ opened[f] % 10 = 0 => put.body[f] = opened[f]

\* Once the form has nothing unsaved, the shop's rates are what it shows: except for what
\* was typed during the save, and for what others have stored (rates-editor.tsx:274).
SavedShown ==
  values # Null /\ ~dirty /\ put = Null /\ ~restored /\ counts.saves > 0 =>
    \A f \in typed \ late : row[f] = stored(f)

\* Every colour is bought as a line that the editor lists under its material and under no
\* other; and the cell of it says that a spool is not covered exactly when an order of it
\* is estimated at no less than what is charged (costs.ts:201-203, rates-editor.tsx:198-203).
CoverTold ==
  values # Null /\ invalid = {} /\ row = Body =>
    \A kind \in Kinds :
      LET line == filamentLine(kind.material, kind.colour)
          kilo == [material |-> kind.material, colour |-> kind.colour, grams |-> 1000, seconds |-> 0]
      IN /\ {m \in DOMAIN MATERIAL_LINES : line \in MATERIAL_LINES[m]} = {kind.material}
         /\ notCovered(line, kind.material) <=>
              estimateItemCostPaise(kilo, row) >= row[SellField(kind.material)]

\* Whatever is stored, neither courier nor tax makes a profit: an order earns what its
\* printing is charged, to the rounding of the bill, less its cost (costs.ts:270-282).
ProfitTrue ==
  \A order \in Orders :
    LET cost == SumFunction([i \in DOMAIN order.items |-> estimateItemCostPaise(order.items[i], row)])
        charged == SumFunction([i \in DOMAIN order.items |->
                     Rounded(order.items[i].grams * row[SellField(order.items[i].material)], 1000)])
        total == 100 * Rounded(charged + order.ship + order.tax, 100)
        profit == estimateOrderProfitPaise([total |-> total, ship |-> order.ship, tax |-> order.tax],
                                           order.items, row)
    IN profit + cost - charged \in -50..50

RatesTrue == UntouchedKept /\ SavedShown /\ CoverTold /\ ProfitTrue
=============================================================================
