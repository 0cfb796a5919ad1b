-------------------------------- MODULE Rates --------------------------------
(***************************************************************************)
(* The shop's rates and what an order is charged by them: the settings row *)
(* over the defaults of the installed version, the editor that sends the   *)
(* whole set back, a restore, an upgrade, and an order that is priced,     *)
(* taxed, rounded off, checked against the column limits and stored.       *)
(* Money is in paise; the selling rate in tenths of a paisa per gram.      *)
(***************************************************************************)
EXTENDS Integers, Sequences, Functions

CONSTANTS
  Defaults,   \* the rates of each version of the code, in order
  Typed,      \* what the owner may type into each field
  Bounds,     \* what findPricingIssues lets through
  Orders,     \* orders: sequences of [grams, seconds, quantity]
  Shipping,   \* courier charges an order may carry; 0 is none
  TaxRates,   \* GST in basis points; 0 is off
  MaxColumn,  \* bound: 2^31 - 1 of the Int columns, scaled to the small amounts
  Lost        \* no row, no order

VARIABLES
  version,    \* the installed version
  ratesRow,   \* the row of the rates, or Lost
  form,       \* the rates editor: its fields, which of them were typed, whether the read worked
  gst,        \* the rate of the tax row
  agreed,     \* the rates the owner saved or restored last, as they were then, or Lost
  bill        \* the order under way: its lines and courier charge, then its quotation

vars == <<version, ratesRow, form, gst, agreed, bill>>

Fields == DOMAIN Defaults[1]
Closed == [open |-> FALSE]

\* normalizePricing: a default for what is missing or out of bounds.
normalizePricing(raw) ==
  [f \in Fields |-> IF f \in DOMAIN raw /\ raw[f] \in Bounds[f] THEN raw[f] ELSE Defaults[version][f]]

\* Mutant: a shop keeps the release it has saved nothing since.
getPricing_Shipped(unread) ==
  IF ratesRow = Lost \/ unread THEN Defaults[1] ELSE normalizePricing(ratesRow)

\* getPricing: a read that fails yields the defaults.
getPricing(unread) ==
  IF ratesRow = Lost \/ unread THEN Defaults[version] ELSE normalizePricing(ratesRow)

Reads == {getPricing(unread) : unread \in BOOLEAN}

Init ==
  /\ version = 1 /\ ratesRow = Lost /\ form = Closed
  /\ gst = 0 /\ agreed = Lost /\ bill = Lost

-----------------------------------------------------------------------------
(* Admin -> Rates.                                                         *)

\* The page is opened: every field is filled in, the hidden ones, too.
Open ==
  /\ form = Closed
  /\ \E read \in Reads : form' = [open |-> TRUE, values |-> read, typed |-> {}]
  /\ UNCHANGED <<version, ratesRow, gst, agreed, bill>>

Type ==
  /\ form.open
  /\ \E f \in DOMAIN Typed, v \in UNION {Typed[x] : x \in DOMAIN Typed} :
       /\ v \in Typed[f]
       /\ form' = [form EXCEPT !.values[f] = v, !.typed = @ \cup {f}]
  /\ UNCHANGED <<version, ratesRow, gst, agreed, bill>>

\* Mutant: the row holds what was sent.
savePricing_Raw(input) == input

\* savePricing: normalized, and stored complete.
savePricing(input) == normalizePricing(input)

findPricingIssues(input) == {f \in DOMAIN input : input[f] \notin Bounds[f]}

\* PUT /api/admin/pricing refuses any field out of bounds.
Save ==
  /\ form.open /\ form.typed # {} /\ findPricingIssues(form.values) = {}
  /\ ratesRow' = savePricing(form.values)
  /\ form' = [form EXCEPT !.typed = {}]
  /\ agreed' = form.values
  /\ UNCHANGED <<version, gst, bill>>

Leave ==
  /\ form.open
  /\ form' = Closed
  /\ UNCHANGED <<version, ratesRow, gst, agreed, bill>>

\* A restore of a backup, whose rates may come from a version with fewer fields: what
\* they lack is as the installed version has it then.
Restore ==
  /\ form = Closed
  /\ \E fs \in SUBSET Fields :
       /\ fs # {}
       /\ ratesRow' = savePricing([f \in fs |-> Defaults[1][f]])
       /\ agreed' = [f \in Fields |-> IF f \in fs THEN Defaults[1][f] ELSE Defaults[version][f]]
  /\ UNCHANGED <<version, form, gst, bill>>

\* The install is upgraded to a version with other defaults.
Upgrade ==
  /\ version < Len(Defaults) /\ form = Closed
  /\ version' = version + 1
  /\ UNCHANGED <<ratesRow, form, gst, agreed, bill>>

SaveTax ==
  /\ \E bp \in TaxRates \ {gst} : gst' = bp
  /\ UNCHANGED <<version, ratesRow, form, agreed, bill>>

-----------------------------------------------------------------------------
(* A bill.                                                               *)

\* Math.round of a / b: halves go up.
Rounded(a, b) == (2 * a + b) \div (2 * b)

priceLine(item, rates) ==
  LET grams == item.grams * item.quantity
      seconds == item.seconds * item.quantity
  IN [seconds |-> seconds, unitSeconds |-> item.seconds,
      electricity |-> Rounded(seconds * rates["power"], 3600),
      subtotal |-> Rounded(grams * rates["sell"], 10)]

priceQuote(items, rates) ==
  LET lines == [i \in 1..Len(items) |-> priceLine(items[i], rates)]
  IN [lines |-> lines, setup |-> rates["setup"],
      total |-> rates["setup"] + SumFunction([i \in DOMAIN lines |-> lines[i].subtotal]),
      seconds |-> SumFunction([i \in DOMAIN lines |-> lines[i].seconds])]

taxOn(amount, bp) == Rounded(amount * bp, 10000)

withTax(quote, shipping, bp) ==
  LET tax == IF bp > 0 THEN taxOn(quote + shipping, bp) ELSE 0
      exact == quote + shipping + tax
      grand == 100 * Rounded(exact, 100)
  IN [tax |-> tax, roundOff |-> grand - exact, grand |-> grand]

\* Mutant: part of a day counts as none.
PrintDays_Floor(seconds, rates) == seconds \div (3600 * rates["hours"])

\* Math.ceil of the days the printing takes.
PrintDays(seconds, rates) == (seconds + 3600 * rates["hours"] - 1) \div (3600 * rates["hours"])

estimateCompletionDate(seconds, rates) ==
  LET days == PrintDays(seconds, rates) IN (IF days < 1 THEN 1 ELSE days) + rates["buffer"]

\* The rates of the shop: those agreed, or the defaults while the owner saved none.
Agreed == IF agreed = Lost THEN Defaults[version] ELSE agreed

Place ==
  /\ bill = Lost
  /\ \E items \in Orders, ship \in Shipping :
       bill' = [at |-> "placed", items |-> items, ship |-> ship]
  /\ UNCHANGED <<version, ratesRow, form, gst, agreed>>

\* Rates and GST are read, together; either read may fail.
Price ==
  /\ bill # Lost /\ bill.at = "placed"
  /\ \E unread \in BOOLEAN, bp \in {gst, 0} :
       LET rates == getPricing(unread)
           quote == priceQuote(bill.items, rates)
           sums == withTax(quote.total, bill.ship, bp)
       IN bill' = [at |-> "priced", unread |-> unread, agreed |-> Agreed, rates |-> rates, lines |-> quote.lines, setup |-> quote.setup,
                    quote |-> quote.total, ship |-> bill.ship, bp |-> bp, tax |-> sums.tax,
                    roundOff |-> sums.roundOff, total |-> sums.grand,
                    seconds |-> quote.seconds, days |-> estimateCompletionDate(quote.seconds, rates)]
  /\ UNCHANGED <<version, ratesRow, form, gst, agreed>>

Abs(n) == IF n < 0 THEN -n ELSE n

\* Mutant: the printing is checked, the sum with shipping and tax is not.
persistedIntegers_NoGrand(q) ==
  {q.setup, q.quote, q.ship, q.tax, Abs(q.roundOff)}
    \cup UNION {{l.unitSeconds, l.electricity, l.subtotal} : l \in {q.lines[i] : i \in DOMAIN q.lines}}

persistedIntegers(q) ==
  {q.setup, q.quote, q.ship, q.tax, Abs(q.roundOff), q.total}
    \cup UNION {{l.unitSeconds, l.electricity, l.subtotal} : l \in {q.lines[i] : i \in DOMAIN q.lines}}

\* QUOTE_TOO_LARGE, or the quotation is stored.
Store ==
  /\ bill # Lost /\ bill.at = "priced"
  /\ bill' = IF \A v \in persistedIntegers(bill) : v \in 0..MaxColumn
                THEN [bill EXCEPT !.at = "stored"] ELSE Lost
  /\ UNCHANGED <<version, ratesRow, form, gst, agreed>>

Done ==
  /\ bill # Lost /\ bill.at = "stored"
  /\ bill' = Lost
  /\ UNCHANGED <<version, ratesRow, form, gst, agreed>>

-----------------------------------------------------------------------------
Next ==
  \/ Open \/ Type \/ Save \/ Leave \/ Restore \/ Upgrade \/ SaveTax
  \/ Place \/ Price \/ Store \/ Done

Spec == Init /\ [][Next]_vars

-----------------------------------------------------------------------------
Stored == bill # Lost /\ bill.at = "stored"

\* Mutant: a total that is rounded down has no row for it.
Rows_Added(q) == <<q.setup, q.ship, IF q.bp > 0 THEN q.tax ELSE 0, IF q.roundOff > 0 THEN q.roundOff ELSE 0>>

\* The rows of the quotation page and the PDF, above the total and below the lines.
Rows(q) == <<q.setup, q.ship, IF q.bp > 0 THEN q.tax ELSE 0, q.roundOff>>

TypeOK ==
  /\ version \in 1..Len(Defaults)
  /\ ratesRow = Lost \/ DOMAIN ratesRow \subseteq Fields
  /\ gst \in TaxRates \cup {0}

\* What a shop has saved is not repriced by anything but another save: the rates in
\* force are those of its last save or restore, as they were then, whatever defaults
\* later versions bring (apps/web/lib/pricing-settings.ts:45-46,
\* packages/shared/src/pricing-settings.ts:207-209).
RatesStick == getPricing(FALSE) = Agreed

\* An order is priced by the rates the owner agreed to, whole and of one moment, unless
\* they could not be read: then by the defaults of the version (pricing-settings.ts:23-26).
BilledByRates ==
  Stored => bill.rates = bill.agreed \/ (bill.unread /\ \E v \in 1..version : bill.rates = Defaults[v])

\* The statement adds up to a whole rupee: the lines and the rows shown are the total
\* (tax-settings.ts:44-48, quotation/[number]/page.tsx:138-175).
StatementAddsUp ==
  Stored =>
    /\ bill.total = SumFunction([i \in DOMAIN bill.lines |-> bill.lines[i].subtotal]) + SumFunction(Rows(bill))
    /\ bill.total % 100 = 0

\* Every amount fits its Int column (quotations/route.ts:229-251).
ColumnsFit ==
  Stored =>
    /\ {bill.setup, bill.ship, bill.tax, bill.total} \subseteq 0..MaxColumn
    /\ Abs(bill.roundOff) <= MaxColumn
    /\ \A i \in DOMAIN bill.lines : {bill.lines[i].unitSeconds, bill.lines[i].subtotal} \subseteq 0..MaxColumn

\* The date promised leaves the hours that the printing takes (completion-date.ts:3-7).
EnoughDays == Stored => bill.seconds <= (bill.days - bill.rates["buffer"]) * 3600 * bill.rates["hours"]

\* Orders are billed by the rates the owner saved last, or by the defaults where these
\* could not be read, to the rupee, within the columns and with the days they take.
BilledRight == TypeOK /\ RatesStick /\ BilledByRates /\ StatementAddsUp /\ ColumnsFit /\ EnoughDays
=============================================================================
