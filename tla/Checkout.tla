------------------------------ MODULE Checkout ------------------------------
(***************************************************************************)
(* A price from the quote page to the quotation: the estimator of the      *)
(* builder, the shipping that the quote store carries, the total that the  *)
(* checkout form shows and the total that the server charges.  The prices  *)
(* of the shop may change at any time; the quote pages keep those they     *)
(* were rendered with.  A quote is a number, and what it ships as is       *)
(* coarser than the quote (shippingBinding).                               *)
(***************************************************************************)
EXTENDS Naturals, Sequences

CONSTANTS
  Pins,      \* pincodes that the customer may type
  MaxQuote,  \* quotes are 1..MaxQuote; 0 is a quote without a price yet
  MaxRates,  \* bound: changes of the shop's prices
  MaxMounts, \* bound: times the builder is opened
  MaxAsks,   \* bound: estimates that are asked for
  Nothing    \* no pincode, no estimate, no key

ASSUME CheckoutAssumption ==
  /\ MaxQuote \in Nat /\ MaxRates \in Nat /\ MaxAsks \in Nat
  /\ MaxMounts \in Nat \ {0}
  /\ Nothing \notin Pins \X Seq(Nat)

VARIABLES
  rates,  \* the shop's prices, by version
  seen,   \* the version that the quote pages were rendered with
  quote,  \* what the cards add up to
  adding, \* an upload is being checked
  place,  \* the page: builder, details or elsewhere
  mount,  \* the instance of ShippingEstimate
  field,  \* its pincode
  loading,\* its status: whether it waits for an answer
  sig,    \* sigRef of every instance, as it was rendered last
  asks,   \* the estimates asked for: request, answer, answer being read, or consumed
  saved,  \* shipping, in the quote store
  submit, \* the submission that has not been answered
  order   \* the quotation

vars == <<rates, seen, quote, adding, place, mount, field, loading, sig, asks, saved, submit, order>>
estimator == <<mount, field, loading>>
shop == <<rates, order>>

Parcel(q, r) == q \div 2 + r

\* Mutant: an estimate belongs to the exact quote it was made for.
shippingParcelKey_Exact(q, r) == <<q, r>>

\* The key that the page gives a parcel.
shippingParcelKey(q, r) == <<Parcel(q, r)>>

\* currentKey: pincode and parcel, or nothing while there is no price.
Key(p, q, r) == IF q = 0 THEN Nothing ELSE <<p, shippingParcelKey(q, r)>>
currentKey == Key(field, quote, seen)

\* sigRef is written by every render of the instance on the page.
Render(p, q, r) == sig' = [sig EXCEPT ![mount] = Key(p, q, r)]

Init ==
  /\ rates = 0 /\ seen = 0
  /\ quote = 0 /\ adding = FALSE
  /\ place = "builder"
  /\ mount = 1 /\ field = Nothing /\ loading = FALSE
  /\ sig = [m \in 1..MaxMounts |-> Nothing]
  /\ asks = <<>>
  /\ saved = Nothing
  /\ submit = Nothing /\ order = Nothing

-----------------------------------------------------------------------------
(* The builder.                                                            *)

\* A card changes, or its slice arrives: the quote has another price or none.
EditQuote(q) ==
  /\ place = "builder" /\ ~adding /\ q # quote
  /\ quote' = q
  /\ Render(field, q, seen)
  /\ UNCHANGED <<seen, adding, place, estimator, asks, saved, submit, shop>>

\* addUploading forgets the estimate.
AddModel ==
  /\ place = "builder" /\ ~adding
  /\ adding' = TRUE /\ saved' = Nothing
  /\ UNCHANGED <<seen, quote, place, estimator, sig, asks, submit, shop>>

\* The upload becomes a card, which forgets the estimate again, or fails or is taken away.
ModelChecked ==
  /\ adding
  /\ adding' = FALSE
  /\ saved' \in {Nothing, saved}
  /\ UNCHANGED <<seen, quote, place, estimator, sig, asks, submit, shop>>

\* restoreModels: models that the session still has become cards.
Restore ==
  /\ place = "builder" /\ saved # Nothing
  /\ saved' = Nothing
  /\ UNCHANGED <<seen, quote, adding, place, estimator, sig, asks, submit, shop>>

onPincodeChange(p) ==
  /\ place = "builder" /\ quote # 0 /\ ~adding /\ p # field
  /\ field' = p /\ loading' = FALSE
  /\ saved' = Nothing
  /\ Render(p, quote, seen)
  /\ UNCHANGED <<seen, quote, adding, place, mount, asks, submit, shop>>

\* The form of the estimator: the request carries what the cards say now.
Ask ==
  /\ place = "builder" /\ quote # 0 /\ ~adding
  /\ field # Nothing /\ ~loading /\ Len(asks) < MaxAsks
  /\ loading' = TRUE
  /\ asks' = Append(asks, [at |-> "sent", by |-> mount, pin |-> field, quote |-> quote, list |-> seen, key |-> currentKey, token |-> Nothing])
  /\ UNCHANGED <<seen, quote, adding, place, mount, field, sig, saved, submit, shop>>

\* What the shop's courier makes of a parcel: a price, or one of its refusals.
\* lists: the prices that the page asked under, and those that the server answered under.
Estimates(pin, parcel, lists) == {Nothing, [pin |-> pin, parcel |-> parcel, lists |-> lists]}

\* POST /api/shipping prices the cards again, at the shop's own rates, and signs the result.
Estimate(i) ==
  /\ asks[i].at = "sent"
  /\ \E token \in Estimates(asks[i].pin, Parcel(asks[i].quote, rates), {asks[i].list, rates}) :
       asks' = [asks EXCEPT ![i].at = "answered", ![i].token = token]
  /\ UNCHANGED <<seen, quote, adding, place, estimator, sig, saved, submit, shop>>

\* A response that the customer has moved on from.
Stale(i) == asks[i].key # sig[asks[i].by]

\* A request whose answer has been dealt with.
Over == [at |-> "over"]

\* fetch resolves with the head of the response; the check for a stale one is made here, and only here.
Arrive(i) ==
  /\ asks[i].at = "answered"
  /\ asks' = [asks EXCEPT ![i] = IF Stale(i) THEN Over ELSE [@ EXCEPT !.at = "reading"]]
  /\ UNCHANGED <<seen, quote, adding, place, estimator, sig, saved, submit, shop>>

\* The body has been read: onSubmit goes on, in a form that has changed or is gone as well.
Receive(i) ==
  /\ asks[i].at = "reading"
  /\ asks' = [asks EXCEPT ![i] = Over]
  /\ saved' = IF asks[i].token = Nothing THEN Nothing
              ELSE [pin |-> asks[i].pin, key |-> asks[i].key[2], token |-> asks[i].token]
  /\ loading' = (loading /\ (asks[i].by # mount \/ place # "builder"))
  /\ UNCHANGED <<seen, quote, adding, place, mount, field, sig, submit, shop>>

-----------------------------------------------------------------------------
(* The pages.                                                              *)

\* Continue: the builder, and its estimator with it, are unmounted.
Continue ==
  /\ place = "builder" /\ quote # 0 /\ ~adding
  /\ place' = "details"
  /\ UNCHANGED <<seen, quote, adding, estimator, sig, asks, saved, submit, shop>>

\* Leaving /quote: the next visit renders its pages with the prices of that day.
Leave ==
  /\ place # "elsewhere"
  /\ place' = "elsewhere"
  /\ UNCHANGED <<seen, quote, adding, estimator, sig, asks, saved, submit, shop>>

\* Back in the builder, with a new and empty estimator.
Build ==
  /\ place # "builder" /\ mount < MaxMounts
  /\ place' = "builder"
  /\ mount' = mount + 1 /\ field' = Nothing /\ loading' = FALSE
  /\ seen' = IF place = "elsewhere" THEN rates ELSE seen
  /\ sig' = [sig EXCEPT ![mount + 1] = Key(Nothing, quote, IF place = "elsewhere" THEN rates ELSE seen)]
  /\ UNCHANGED <<quote, adding, asks, saved, submit, shop>>

\* The operator saves other rates or another tax.
AdminSaves ==
  /\ rates < MaxRates
  /\ rates' = rates + 1
  /\ UNCHANGED <<seen, quote, adding, place, estimator, sig, asks, saved, submit, order>>

-----------------------------------------------------------------------------
(* The checkout form.                                                      *)

\* The estimate that the form trusts, and the total that it shows.
shippingValid ==
  IF saved # Nothing /\ saved.key = shippingParcelKey(quote, seen) THEN saved.token ELSE Nothing
Total(q, r, ship) == [quote |-> q, rates |-> r, ship |-> ship]

\* Mutant: an estimate that the form does not trust is left out of the request.
Sent_Valid == shippingValid

\* "Send the saved shipping token even if the client thinks it is stale".
Sent == IF saved = Nothing THEN Nothing ELSE saved.token

Submit ==
  /\ place = "details" /\ quote # 0 /\ ~adding /\ submit = Nothing
  /\ submit' = [quote |-> quote, token |-> Sent, wanted |-> saved # Nothing, shown |-> Total(quote, seen, shippingValid)]
  /\ UNCHANGED <<seen, quote, adding, place, estimator, sig, asks, saved, shop>>

\* Mutant: the signature is checked, the parcel it was made for is not.
verifyEstimateToken_AnyParcel(token, q) == TRUE

\* The signed parcel is the one of the quote that is being sold.
verifyEstimateToken(token, q) == token.parcel = Parcel(q, rates)

\* POST /api/quotations: the quotation is made at the prices of this moment.
Sell ==
  /\ submit # Nothing /\ order = Nothing
  /\ submit.token # Nothing => verifyEstimateToken(submit.token, submit.quote)
  /\ order' = [total |-> Total(submit.quote, rates, submit.token), shown |-> submit.shown, wanted |-> submit.wanted]
  /\ UNCHANGED <<rates, seen, quote, adding, place, estimator, sig, asks, saved, submit>>

\* SHIPPING_STALE (another parcel, an expired token) or any other refusal: the form shows the error and may be sent again.
Refuse ==
  /\ submit # Nothing /\ order = Nothing
  /\ submit' = Nothing
  /\ UNCHANGED <<seen, quote, adding, place, estimator, sig, asks, saved, shop>>

\* The answer: clear(), and on to the quotation.
Sold ==
  /\ submit # Nothing /\ order # Nothing
  /\ submit' = Nothing
  /\ quote' = 0 /\ saved' = Nothing /\ place' = "elsewhere"
  /\ UNCHANGED <<seen, adding, estimator, sig, asks, shop>>

\* One quotation; its answer is the last step.
Next ==
  \/ /\ order = Nothing
     /\ \/ \E q \in 0..MaxQuote : EditQuote(q)
        \/ \E p \in Pins : onPincodeChange(p)
        \/ \E i \in 1..Len(asks) : Estimate(i) \/ Arrive(i) \/ Receive(i)
        \/ AddModel \/ ModelChecked \/ Restore \/ Ask \/ Continue \/ Leave \/ Build
        \/ AdminSaves \/ Submit \/ Sell \/ Refuse
  \/ Sold

Spec == Init /\ [][Next]_vars

-----------------------------------------------------------------------------
TypeOK ==
  /\ rates \in 0..MaxRates /\ seen \in 0..MaxRates
  /\ quote \in 0..MaxQuote /\ adding \in BOOLEAN /\ loading \in BOOLEAN
  /\ place \in {"builder", "details", "elsewhere"}
  /\ mount \in 1..MaxMounts /\ field \in Pins \cup {Nothing}
  /\ \A i \in 1..Len(asks) : asks[i].at \in {"sent", "answered", "reading", "over"}

\* The price lists that a quotation has been through: the page's at the submission,
\* the shop's at the sale and, with delivery, the two that its estimate was made under.
Lists(o) ==
  {o.shown.rates, o.total.rates} \cup (IF o.total.ship = Nothing THEN {} ELSE o.total.ship.lists)

\* A quotation made under one price list charges the very total that the form showed,
\* shipping included (checkout-form.tsx:92-99). After a change of prices on the way it
\* may charge another: the form's "exactly what submitting charges" says more than that.
ChargedAsShown == order # Nothing /\ Lists(order) = {order.shown.rates} => order.total = order.shown

\* A customer who chose delivery gets it with this very price or is told to ask
\* again; the quotation never leaves it out (checkout-form.tsx:135-138).
NothingDropped == order # Nothing /\ order.wanted => order.total.ship # Nothing

\* The estimate that checkout carries is for the pincode in the form: "clear the estimate
\* carried to checkout so the old pincode+amount can never be submitted"
\* (shipping-estimate.tsx:125-127).
SavedAsTyped == saved # Nothing /\ place = "builder" /\ field # Nothing => saved.pin = field

\* From the estimator to the quotation the price stays what was shown.
PriceKept == TypeOK /\ ChargedAsShown /\ NothingDropped
=============================================================================
