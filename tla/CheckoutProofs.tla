--------------------------- MODULE CheckoutProofs ---------------------------
(***************************************************************************)
(* Theorems about Checkout, for any pincodes, quotes, price changes and    *)
(* estimates: what the customer saw of a price is what the quotation       *)
(* charges, unless the shop changed its prices on the way.  And about      *)
(* ParseRunner, which MCCheckout instantiates beside it, for any uploads,  *)
(* renders and starts: a parser child's verdict, its files and its preview *)
(* are its own.                                                            *)
(***************************************************************************)
EXTENDS MCCheckout, TLAPS

Tokens == [pin : Pins, parcel : Nat, lists : SUBSET Nat]
ParcelKeys == {<<n>> : n \in Nat}
Requests ==
  [at : {"sent", "answered", "reading"}, by : 1..MaxMounts, pin : Pins, quote : 1..MaxQuote,
   list : Nat, key : Pins \X ParcelKeys, token : Tokens \cup {Nothing}]

\* The whole state is well typed.
Typed ==
  /\ rates \in 0..MaxRates /\ seen \in 0..MaxRates
  /\ quote \in 0..MaxQuote /\ adding \in BOOLEAN /\ loading \in BOOLEAN
  /\ place \in {"builder", "details", "elsewhere"}
  /\ mount \in 1..MaxMounts /\ field \in Pins \cup {Nothing}
  /\ asks \in Seq(Requests \cup {Over})

\* An estimate's token: under one price list its key is the one of the signed parcel.
TokenTrue(key, token) ==
  /\ token # Nothing => token.lists # {}
  /\ \A l \in Nat : token # Nothing /\ token.lists = {l} => key = <<token.parcel>>

\* A request carries the parcel key of its quote at the prices of the page.
AskTrue(a) ==
  a # Over =>
    /\ a.key[2] = shippingParcelKey(a.quote, a.list)
    /\ TokenTrue(a.key[2], a.token)

\* The estimate in the store is a signed one.
SavedTrue == saved # Nothing => saved.token # Nothing /\ TokenTrue(saved.key, saved.token)

\* What was submitted: under one price list the total on the form is the one the
\* server will make of it whenever it accepts the parcel.
SubmitTrue ==
  submit # Nothing =>
    /\ submit.wanted => submit.token # Nothing
    /\ submit.shown.rates \in Nat
    /\ submit.token = Nothing => submit.shown = Total(submit.quote, submit.shown.rates, Nothing)
    /\ submit.token # Nothing =>
         /\ submit.token.lists # {}
         /\ submit.token.lists = {submit.shown.rates} =>
              \/ submit.token.parcel # Parcel(submit.quote, submit.shown.rates)
              \/ submit.shown = Total(submit.quote, submit.shown.rates, submit.token)

CheckoutInv ==
  /\ Typed
  /\ \A i \in 1..Len(asks) : AskTrue(asks[i])
  /\ SavedTrue /\ SubmitTrue
  /\ ChargedAsShown /\ NothingDropped

-----------------------------------------------------------------------------
(* The operators                                                           *)

LEMMA ParcelType ==
  ASSUME NEW q \in Nat, NEW r \in Nat
  PROVE  Parcel(q, r) \in Nat /\ shippingParcelKey(q, r) \in ParcelKeys
BY DEF Parcel, shippingParcelKey, ParcelKeys

\* The key of a priced quote names the pincode and the parcel.
LEMMA KeyType ==
  ASSUME NEW p \in Pins, NEW q \in Nat \ {0}, NEW r \in Nat
  PROVE  Key(p, q, r) = <<p, shippingParcelKey(q, r)>> /\ Key(p, q, r) \in Pins \X ParcelKeys
BY ParcelType DEF Key

\* A request that has been dealt with is none that waits.
LEMMA Waiting ==
  ASSUME Typed, NEW i \in 1..Len(asks), asks[i].at \in {"sent", "answered", "reading"}
  PROVE  asks[i] \in Requests /\ asks[i] # Over /\ i \in DOMAIN asks
<1>1. asks[i] \in Requests \cup {Over} /\ i \in DOMAIN asks
  BY DEF Typed
<1> QED
  BY <1>1 DEF Over

-----------------------------------------------------------------------------
(* Types                                                                   *)

LEMMA InitTyped == Init => Typed
<1> SUFFICES ASSUME Init
             PROVE  Typed
  OBVIOUS
<1>1. asks \in Seq(Requests \cup {Over})
  BY DEF Init
<1>2. rates \in 0..MaxRates /\ seen \in 0..MaxRates /\ quote \in 0..MaxQuote /\ mount \in 1..MaxMounts
  BY CheckoutAssumption DEF Init
<1> QED
  BY <1>1, <1>2 DEF Init, Typed

\* What an answered request holds is still a request.
LEMMA Answered ==
  ASSUME Typed, NEW i \in 1..Len(asks), asks[i] \in Requests, NEW l \in Nat,
         NEW token \in Estimates(asks[i].pin, Parcel(asks[i].quote, l), {asks[i].list, l})
  PROVE  [asks[i] EXCEPT !.at = "answered", !.token = token] \in Requests
<1>1. asks[i].quote \in Nat /\ asks[i].list \in Nat /\ asks[i].pin \in Pins
  BY DEF Requests
<1>2. Parcel(asks[i].quote, l) \in Nat /\ {asks[i].list, l} \in SUBSET Nat
  BY <1>1, ParcelType
<1>3. token \in Tokens \cup {Nothing}
  BY <1>1, <1>2 DEF Estimates, Tokens
<1> QED
  BY <1>3 DEF Requests

LEMMA StepTyped == Typed /\ [Next]_vars => Typed'
<1> SUFFICES ASSUME Typed, [Next]_vars
             PROVE  Typed'
  OBVIOUS
<1> USE CheckoutAssumption
<1>1. ASSUME NEW q \in 0..MaxQuote, EditQuote(q)
      PROVE  Typed'
  BY <1>1 DEF EditQuote, Typed, estimator, shop
<1>2. ASSUME NEW p \in Pins, onPincodeChange(p)
      PROVE  Typed'
  BY <1>2 DEF onPincodeChange, Typed, shop
<1>3. ASSUME NEW i \in 1..Len(asks), Estimate(i)
      PROVE  Typed'
  <2>1. asks[i] \in Requests /\ i \in DOMAIN asks /\ rates \in Nat
    BY <1>3, Waiting DEF Estimate, Typed
  <2>2. PICK token \in Estimates(asks[i].pin, Parcel(asks[i].quote, rates), {asks[i].list, rates}) :
          asks' = [asks EXCEPT ![i].at = "answered", ![i].token = token]
    BY <1>3 DEF Estimate
  <2>3. [asks[i] EXCEPT !.at = "answered", !.token = token] \in Requests
    BY <2>1, Answered
  <2>4. asks' = [asks EXCEPT ![i] = [asks[i] EXCEPT !.at = "answered", !.token = token]]
    BY <2>1, <2>2
  <2>5. asks' \in Seq(Requests \cup {Over})
    BY <2>1, <2>3, <2>4 DEF Typed
  <2> QED
    BY <1>3, <2>5 DEF Estimate, Typed, estimator, shop
<1>4. ASSUME NEW i \in 1..Len(asks), Arrive(i)
      PROVE  Typed'
  <2>1. asks[i] \in Requests /\ i \in DOMAIN asks
    BY <1>4, Waiting DEF Arrive
  <2>2. [asks[i] EXCEPT !.at = "reading"] \in Requests
    BY <2>1 DEF Requests
  <2>3. asks' \in Seq(Requests \cup {Over})
    BY <1>4, <2>1, <2>2 DEF Arrive, Typed
  <2> QED
    BY <1>4, <2>3 DEF Arrive, Typed, estimator, shop
<1>5. ASSUME NEW i \in 1..Len(asks), Receive(i)
      PROVE  Typed'
  <2>1. asks' \in Seq(Requests \cup {Over})
    BY <1>5 DEF Receive, Typed
  <2>2. loading' \in BOOLEAN
    BY <1>5, Zenon DEF Receive, Typed
  <2> QED
    BY <1>5, <2>1, <2>2 DEF Receive, Typed, shop
<1>6. CASE Ask
  <2> DEFINE a == [at |-> "sent", by |-> mount, pin |-> field, quote |-> quote,
                   list |-> seen, key |-> currentKey, token |-> Nothing]
  <2>1. field \in Pins /\ quote \in 1..MaxQuote /\ seen \in Nat /\ quote \in Nat \ {0}
    BY <1>6 DEF Ask, Typed
  <2>2. currentKey \in Pins \X ParcelKeys
    BY <2>1, KeyType DEF currentKey
  <2>3. a \in Requests
    BY <2>1, <2>2 DEF Requests, Typed
  <2>4. asks' = Append(asks, a)
    BY <1>6 DEF Ask
  <2> HIDE DEF a
  <2>5. asks' \in Seq(Requests \cup {Over})
    BY <2>3, <2>4 DEF Typed
  <2> QED
    BY <1>6, <2>5 DEF Ask, Typed, shop
<1>7. CASE AddModel \/ ModelChecked \/ Restore \/ Continue \/ Leave \/ Submit \/ Sell \/ Refuse \/ Sold
  <2>1. /\ rates' = rates /\ seen' = seen /\ asks' = asks
        /\ mount' = mount /\ field' = field /\ loading' = loading
        /\ quote' \in {quote, 0} /\ adding' \in {adding, TRUE, FALSE}
        /\ place' \in {place, "details", "elsewhere"}
    BY <1>7 DEF AddModel, ModelChecked, Restore, Continue, Leave, Submit, Sell, Refuse, Sold,
                estimator, shop
  <2>2. quote' \in 0..MaxQuote
    BY <2>1 DEF Typed
  <2>3. adding' \in BOOLEAN /\ place' \in {"builder", "details", "elsewhere"}
    BY <2>1, Zenon DEF Typed
  <2> QED
    BY <2>1, <2>2, <2>3 DEF Typed
<1>8. CASE Build
  <2>1. /\ mount' = mount + 1 /\ mount < MaxMounts /\ seen' \in {seen, rates} /\ field' = Nothing
        /\ rates' = rates /\ quote' = quote /\ adding' = adding /\ asks' = asks
        /\ place' = "builder" /\ loading' = FALSE
    BY <1>8 DEF Build, shop
  <2>2. mount' \in 1..MaxMounts /\ seen' \in 0..MaxRates
    BY <2>1 DEF Typed
  <2> QED
    BY <2>1, <2>2 DEF Typed
<1>9. CASE AdminSaves
  BY <1>9 DEF AdminSaves, Typed, estimator
<1>10. CASE UNCHANGED vars
  BY <1>10 DEF vars, Typed, estimator
<1> QED
  BY <1>1, <1>2, <1>3, <1>4, <1>5, <1>6, <1>7, <1>8, <1>9, <1>10 DEF Next

-----------------------------------------------------------------------------
(* What the customer saw                                                   *)

LEMMA InitTrue == Init => CheckoutInv
BY InitTyped DEF Init, CheckoutInv, SavedTrue, SubmitTrue, ChargedAsShown, NothingDropped

\* The sale depends on what was submitted and on the quotation.
LEMMA SaleKept ==
  ASSUME CheckoutInv, UNCHANGED <<submit, order>>
  PROVE  SubmitTrue' /\ ChargedAsShown' /\ NothingDropped'
BY DEF CheckoutInv, SubmitTrue, ChargedAsShown, NothingDropped

\* And the estimates on what was asked and what was saved.
LEMMA EstimatesKept ==
  ASSUME CheckoutInv, asks' = asks, saved' \in {saved, Nothing}
  PROVE  (\A i \in 1..Len(asks) : AskTrue(asks[i]))' /\ SavedTrue'
BY DEF CheckoutInv, AskTrue, SavedTrue

LEMMA StepTrue == CheckoutInv /\ [Next]_vars => CheckoutInv'
<1> SUFFICES ASSUME CheckoutInv, [Next]_vars
             PROVE  CheckoutInv'
  OBVIOUS
<1>0. Typed /\ Typed'
  BY StepTyped DEF CheckoutInv
<1> DEFINE AsksTrue == \A i \in 1..Len(asks) : AskTrue(asks[i])
           SaleTrue == SubmitTrue /\ ChargedAsShown /\ NothingDropped
<1>1. ASSUME \/ \E q \in 0..MaxQuote : EditQuote(q)
             \/ \E p \in Pins : onPincodeChange(p)
             \/ AddModel \/ ModelChecked \/ Restore \/ Continue \/ Leave \/ Build
             \/ AdminSaves \/ UNCHANGED vars
      PROVE  CheckoutInv'
  <2>1. asks' = asks /\ saved' \in {saved, Nothing} /\ UNCHANGED <<submit, order>>
    BY <1>1 DEF EditQuote, onPincodeChange, AddModel, ModelChecked, Restore, Continue, Leave,
                Build, AdminSaves, vars, shop
  <2> QED
    BY <1>0, <2>1, SaleKept, EstimatesKept DEF CheckoutInv
<1>2. ASSUME NEW i \in 1..Len(asks), Estimate(i)
      PROVE  CheckoutInv'
  <2>1. asks[i] \in Requests /\ asks[i] # Over /\ i \in DOMAIN asks /\ AskTrue(asks[i]) /\ rates \in Nat
    BY <1>0, <1>2, Waiting DEF Estimate, CheckoutInv, Typed
  <2>2. PICK token \in Estimates(asks[i].pin, Parcel(asks[i].quote, rates), {asks[i].list, rates}) :
          asks' = [asks EXCEPT ![i].at = "answered", ![i].token = token]
    BY <1>2 DEF Estimate
  <2>3. /\ asks'[i] = [asks[i] EXCEPT !.at = "answered", !.token = token]
        /\ Len(asks') = Len(asks)
        /\ \A j \in 1..Len(asks) : j # i => asks'[j] = asks[j]
    BY <2>1, <2>2, <1>0 DEF Typed
  <2>4. /\ asks'[i].key = asks[i].key /\ asks'[i].quote = asks[i].quote
        /\ asks'[i].list = asks[i].list /\ asks'[i].token = token
    BY <2>1, <2>3 DEF Requests
  <2>5. TokenTrue(asks[i].key[2], token)
    <3> SUFFICES ASSUME token # Nothing
                 PROVE  TokenTrue(asks[i].key[2], token)
      BY DEF TokenTrue
    <3>1. token.parcel = Parcel(asks[i].quote, rates) /\ token.lists = {asks[i].list, rates}
      BY <2>2 DEF Estimates
    <3>2. asks[i].key[2] = <<Parcel(asks[i].quote, asks[i].list)>>
      BY <2>1 DEF AskTrue, shippingParcelKey
    <3>3. ASSUME NEW l \in Nat, token.lists = {l}
          PROVE  asks[i].key[2] = <<token.parcel>>
      <4>1. asks[i].list = l /\ rates = l
        BY <3>1, <3>3
      <4> QED
        BY <3>1, <3>2, <4>1
    <3> QED
      BY <3>1, <3>3 DEF TokenTrue
  <2>6. AsksTrue'
    <3> SUFFICES ASSUME NEW j \in 1..Len(asks)
                 PROVE  AskTrue(asks[j])'
      BY <2>3
    <3>1. CASE j = i
      BY <2>1, <2>4, <2>5, <3>1 DEF AskTrue
    <3>2. CASE j # i
      <4>1. AskTrue(asks[j]) /\ asks'[j] = asks[j]
        BY <2>3, <3>2 DEF CheckoutInv
      <4> QED
        BY <4>1 DEF AskTrue
    <3> QED
      BY <3>1, <3>2
  <2>7. SavedTrue' /\ SaleTrue'
    BY <1>2, SaleKept DEF Estimate, CheckoutInv, SavedTrue, shop
  <2> QED
    BY <1>0, <2>6, <2>7 DEF CheckoutInv
<1>3. ASSUME NEW i \in 1..Len(asks), Arrive(i)
      PROVE  CheckoutInv'
  <2>1. asks[i] \in Requests /\ asks[i] # Over /\ i \in DOMAIN asks /\ AskTrue(asks[i])
    BY <1>0, <1>3, Waiting DEF Arrive, CheckoutInv
  <2>2. /\ Len(asks') = Len(asks)
        /\ asks'[i] \in {Over, [asks[i] EXCEPT !.at = "reading"]}
        /\ \A j \in 1..Len(asks) : j # i => asks'[j] = asks[j]
    BY <1>0, <1>3, <2>1 DEF Arrive, Typed
  <2>3. asks'[i] # Over =>
          /\ asks'[i].key = asks[i].key /\ asks'[i].quote = asks[i].quote
          /\ asks'[i].list = asks[i].list /\ asks'[i].token = asks[i].token
    BY <2>1, <2>2 DEF Requests
  <2>4. AsksTrue'
    <3> SUFFICES ASSUME NEW j \in 1..Len(asks)
                 PROVE  AskTrue(asks[j])'
      BY <2>2
    <3>1. CASE j = i
      BY <2>1, <2>3, <3>1 DEF AskTrue
    <3>2. CASE j # i
      <4>1. AskTrue(asks[j]) /\ asks'[j] = asks[j]
        BY <2>2, <3>2 DEF CheckoutInv
      <4> QED
        BY <4>1 DEF AskTrue
    <3> QED
      BY <3>1, <3>2
  <2>5. SavedTrue' /\ SaleTrue'
    BY <1>3, SaleKept DEF Arrive, CheckoutInv, SavedTrue, shop
  <2> QED
    BY <1>0, <2>4, <2>5 DEF CheckoutInv
<1>4. ASSUME NEW i \in 1..Len(asks), Receive(i)
      PROVE  CheckoutInv'
  <2>1. asks[i] \in Requests /\ asks[i] # Over /\ i \in DOMAIN asks /\ AskTrue(asks[i])
    BY <1>0, <1>4, Waiting DEF Receive, CheckoutInv
  <2>2. AsksTrue'
    <3> SUFFICES ASSUME NEW j \in 1..Len(asks')
                 PROVE  AskTrue(asks[j])'
      OBVIOUS
    <3>1. j \in 1..Len(asks) /\ (asks'[j] = Over \/ asks'[j] = asks[j])
      BY <1>0, <1>4 DEF Receive, Typed
    <3>2. AskTrue(asks[j])
      BY <3>1 DEF CheckoutInv
    <3> QED
      BY <3>1, <3>2 DEF AskTrue
  <2>3. SaleTrue'
    BY <1>4, SaleKept DEF Receive, shop
  <2>4. SavedTrue'
    <3>1. \/ saved' = Nothing
          \/ /\ asks[i].token # Nothing
             /\ saved' = [pin |-> asks[i].pin, key |-> asks[i].key[2], token |-> asks[i].token]
      BY <1>4 DEF Receive
    <3> QED
      BY <2>1, <3>1 DEF SavedTrue, AskTrue
  <2> QED
    BY <1>0, <2>2, <2>3, <2>4 DEF CheckoutInv
<1>5. CASE Ask
  <2> DEFINE a == [at |-> "sent", by |-> mount, pin |-> field, quote |-> quote,
                   list |-> seen, key |-> currentKey, token |-> Nothing]
  <2>1. asks' = Append(asks, a) /\ asks \in Seq(Requests \cup {Over})
    BY <1>5, <1>0 DEF Ask, Typed
  <2>2. currentKey = <<field, shippingParcelKey(quote, seen)>>
    BY <1>5 DEF Ask, currentKey, Key
  <2>3. /\ a.quote = quote /\ a.token = Nothing /\ a.list = seen
        /\ a.key = <<field, shippingParcelKey(quote, seen)>>
    BY <2>2
  <2> HIDE DEF a
  <2>4. ASSUME NEW j \in 1..Len(asks')
        PROVE  AskTrue(asks[j])'
    <3>1. asks'[j] = a \/ (j \in 1..Len(asks) /\ asks'[j] = asks[j])
      BY <2>1
    <3>2. CASE asks'[j] = a
      BY <2>3, <3>2 DEF AskTrue, TokenTrue
    <3>3. CASE j \in 1..Len(asks) /\ asks'[j] = asks[j]
      BY <3>3 DEF AskTrue, CheckoutInv
    <3> QED
      BY <3>1, <3>2, <3>3
  <2>5. SavedTrue' /\ SaleTrue'
    BY <1>5, SaleKept DEF Ask, CheckoutInv, SavedTrue, shop
  <2> QED
    BY <1>0, <2>4, <2>5 DEF CheckoutInv
<1>6. CASE Refuse \/ Sold
  <2>1. asks' = asks /\ saved' \in {saved, Nothing} /\ submit' = Nothing /\ order' = order
    BY <1>6 DEF Refuse, Sold, shop
  <2>2. SaleTrue'
    BY <2>1 DEF CheckoutInv, SubmitTrue, ChargedAsShown, NothingDropped
  <2> QED
    BY <1>0, <2>1, <2>2, EstimatesKept DEF CheckoutInv
<1>7. CASE Submit
  <2>1. asks' = asks /\ saved' = saved /\ order' = order
    BY <1>7 DEF Submit, shop
  <2>2. /\ submit'.quote = quote /\ submit'.token = Sent
        /\ submit'.wanted = (saved # Nothing)
        /\ submit'.shown = Total(quote, seen, shippingValid)
        /\ submit'.shown.rates = seen /\ seen \in Nat
    BY <1>0, <1>7 DEF Submit, Total, Typed
  <2>3. CASE saved = Nothing
    <3>1. Sent = Nothing /\ shippingValid = Nothing
      BY <2>3 DEF Sent, shippingValid
    <3> QED
      BY <1>0, <2>1, <2>2, <2>3, <3>1, EstimatesKept
         DEF CheckoutInv, SubmitTrue, ChargedAsShown, NothingDropped
  <2>4. CASE saved # Nothing
    <3>1. Sent = saved.token /\ saved.token # Nothing /\ saved.token.lists # {}
      BY <2>4 DEF Sent, CheckoutInv, SavedTrue, TokenTrue
    <3>2. ASSUME saved.token.lists = {seen}, saved.token.parcel = Parcel(quote, seen)
          PROVE  Total(quote, seen, shippingValid) = Total(quote, seen, Sent)
      <4>1. saved.key = <<saved.token.parcel>>
        BY <2>2, <2>4, <3>2 DEF CheckoutInv, SavedTrue, TokenTrue
      <4>2. saved.key = shippingParcelKey(quote, seen)
        BY <3>2, <4>1 DEF shippingParcelKey
      <4> QED
        BY <2>4, <3>1, <4>2 DEF shippingValid
    <3>3. SubmitTrue'
      BY <2>2, <3>1, <3>2 DEF SubmitTrue
    <3> QED
      BY <1>0, <2>1, <3>3, EstimatesKept DEF CheckoutInv, ChargedAsShown, NothingDropped
  <2> QED
    BY <2>3, <2>4
<1>8. CASE Sell
  <2>1. asks' = asks /\ saved' = saved /\ submit' = submit
    BY <1>8 DEF Sell
  <2>2. /\ order'.total = Total(submit.quote, rates, submit.token)
        /\ order'.shown = submit.shown /\ order'.wanted = submit.wanted
        /\ submit # Nothing
        /\ submit.token # Nothing => submit.token.parcel = Parcel(submit.quote, rates)
    BY <1>8 DEF Sell, verifyEstimateToken
  <2>3. order'.total.rates = rates /\ order'.total.ship = submit.token
    BY <2>2 DEF Total
  <2>4. SubmitTrue /\ SubmitTrue'
    BY <2>1 DEF CheckoutInv, SubmitTrue
  <2>5. ChargedAsShown'
    <3> SUFFICES ASSUME Lists(order') = {submit.shown.rates}
                 PROVE  order'.total = submit.shown
      BY <2>2 DEF ChargedAsShown
    <3>1. rates = submit.shown.rates
      BY <2>2, <2>3 DEF Lists
    <3>2. submit.token # Nothing => submit.token.lists \subseteq {submit.shown.rates}
      BY <2>2, <2>3 DEF Lists
    <3>3. submit.token # Nothing => submit.token.lists = {submit.shown.rates}
      BY <2>2, <2>4, <3>2 DEF SubmitTrue
    <3> QED
      BY <2>2, <2>4, <3>1, <3>3 DEF SubmitTrue
  <2>6. NothingDropped'
    BY <2>2, <2>3, <2>4 DEF NothingDropped, SubmitTrue
  <2> QED
    BY <1>0, <2>1, <2>4, <2>5, <2>6, EstimatesKept DEF CheckoutInv
<1> QED
  BY <1>1, <1>2, <1>3, <1>4, <1>5, <1>6, <1>7, <1>8 DEF Next

\* From the estimator to the quotation the price stays what was shown, unless the shop
\* changed its prices on the way (checkout-form.tsx:92-99), and the delivery that was
\* chosen stays in it (:135-138).
THEOREM PriceStays == Spec => []PriceKept
<1>1. CheckoutInv => PriceKept
  <2> SUFFICES ASSUME CheckoutInv
               PROVE  TypeOK
    BY DEF PriceKept, CheckoutInv
  <2>1. ASSUME NEW i \in 1..Len(asks)
        PROVE  asks[i].at \in {"sent", "answered", "reading", "over"}
    <3>1. asks[i] \in Requests \cup {Over}
      BY DEF CheckoutInv, Typed
    <3> QED
      BY <3>1 DEF Requests, Over
  <2> QED
    BY <2>1 DEF CheckoutInv, Typed, TypeOK
<1> QED
  BY <1>1, InitTrue, StepTrue, PTL DEF Spec

-----------------------------------------------------------------------------
(* The parse runner                                                        *)

Runners == Parse!Runners
Outcomes == {"ok", "public", "crash"}
Verdicts == {"ok", "public", "killed", "timeout", "contract", "failed"}
Sayings == [code : {"0", "64", "70", "SIGKILL"}, line : {"ok", "public", "none"}]

ParseTyped ==
  /\ phase \in [Runners -> {"idle", "staged", "running", "reaping", "answered", "written", "over"}]
  /\ given \in [Runners -> Outcomes \cup {None}]
  /\ child \in [Runners -> {"none", "running", "spoken", "ended"}]
  /\ said \in [Runners -> Sayings \cup {None}]
  /\ heard \in [Runners -> Verdicts \cup {None}]
  /\ killer \in [Uploads -> {None, "kernel", "timer", "runner"}]
  /\ scratch \in [Uploads \cup {"model"} -> {"gone", "empty", "full"}]
  /\ answer \in [Uploads -> Verdicts \cup {None}]
  /\ png \in {None} \cup Renders /\ model \in {"bare", "shown", "deleted"}
  /\ starts \in 1..MaxStarts

Dead(r) == child[r] \in {"none", "ended"}

\* A runner has a child while it waits for one, and what the child has said.
ChildTrue(r) ==
  /\ phase[r] \in {"idle", "staged"} => child[r] = "none"
  /\ phase[r] = "running" => child[r] # "none"
  /\ phase[r] \in {"reaping", "answered", "written", "over"} => Dead(r)
  /\ phase[r] = "reaping" => heard[r] \in Verdicts
  /\ child[r] = "spoken" => said[r] \in Sayings
  /\ phase[r] = "running" /\ child[r] = "ended" =>
       said[r] \in Sayings /\ said[r].code = "SIGKILL"

\* An upload's child works undisturbed in a directory of its own until it is killed,
\* and a good or a public verdict is what an undisturbed child made of its input.
UploadTrue(u) ==
  /\ phase[u] \in {"idle", "staged", "running", "reaping"} => answer[u] = None
  /\ phase[u] \in {"idle", "staged"} => killer[u] = None
  /\ phase[u] = "staged" => given[u] \in Outcomes /\ scratch[u] = "empty"
  /\ child[u] = "running" => given[u] \in Outcomes /\ scratch[u] = "empty" /\ killer[u] = None
  /\ child[u] = "spoken" =>
       given[u] \in Outcomes /\ said[u] = Parse!Ending(given[u]) /\ killer[u] = None
  /\ phase[u] = "reaping" /\ heard[u] \in {"ok", "public"} => given[u] = heard[u] /\ killer[u] = None
  /\ answer[u] \in {"ok", "public"} => given[u] = answer[u] /\ killer[u] = None
  /\ phase[u] = "answered" => scratch[u] = "full"
  /\ phase[u] # "written"
  /\ phase[u] = "over" /\ starts = 1 => scratch[u] = "gone"

\* A preview that is recorded, or about to be, is there.
PreviewTrue ==
  model # "deleted" /\ (model = "shown" \/ \E r \in Renders : phase[r] = "written") => png # None

ParseInv ==
  /\ ParseTyped
  /\ \A r \in Runners : ChildTrue(r)
  /\ \A u \in Uploads : UploadTrue(u)
  /\ PreviewTrue

\* What a step of another runner may do to a runner: nothing, or kill its child.
Steady(v) ==
  /\ phase'[v] = phase[v] /\ given'[v] = given[v] /\ heard'[v] = heard[v]
  /\ v \in Uploads => answer'[v] = answer[v] /\ scratch'[v] = scratch[v]
  /\ \/ /\ child'[v] = child[v] /\ said'[v] = said[v]
        /\ v \in Uploads => killer'[v] = killer[v]
     \/ /\ ~Dead(v) /\ child'[v] = "ended"
        /\ said'[v] \in Sayings /\ said'[v].code = "SIGKILL"

LEMMA SteadyKeeps ==
  ASSUME ParseInv, ParseTyped', starts' = starts, NEW v \in Runners, Steady(v)
  PROVE  ChildTrue(v)' /\ (v \in Uploads => UploadTrue(v)')
<1>1. ChildTrue(v) /\ (v \in Uploads => UploadTrue(v))
  BY DEF ParseInv
<1>2. /\ phase[v] \in {"idle", "staged", "running", "reaping", "answered", "written", "over"}
      /\ child[v] \in {"none", "running", "spoken", "ended"}
  BY DEF ParseInv, ParseTyped
<1>3. CASE /\ child'[v] = child[v] /\ said'[v] = said[v]
           /\ v \in Uploads => killer'[v] = killer[v]
  <2>1. ChildTrue(v)'
    BY <1>1, <1>3 DEF Steady, ChildTrue, Dead
  <2>2. v \in Uploads => UploadTrue(v)'
    BY <1>1, <1>3 DEF Steady, UploadTrue
  <2> QED
    BY <2>1, <2>2
<1>4. CASE /\ ~Dead(v) /\ child'[v] = "ended"
           /\ said'[v] \in Sayings /\ said'[v].code = "SIGKILL"
  <2>1. phase[v] = "running"
    BY <1>1, <1>2, <1>4 DEF ChildTrue, Dead
  <2>2. ChildTrue(v)'
    BY <2>1, <1>4 DEF Steady, ChildTrue
  <2>3. v \in Uploads => UploadTrue(v)'
    BY <2>1, <1>1, <1>4, ParseRunnerAssumption DEF Steady, UploadTrue
  <2> QED
    BY <2>2, <2>3
<1> QED
  BY <1>3, <1>4 DEF Steady

\* A step of one runner keeps the invariant when it keeps its own part of it.
LEMMA OneRunner ==
  ASSUME ParseInv, NEW r \in Runners, starts' = starts, ParseTyped',
         \A v \in Runners \ {r} : Steady(v),
         ChildTrue(r)', r \in Uploads => UploadTrue(r)', PreviewTrue'
  PROVE  ParseInv'
<1>1. ASSUME NEW v \in Runners \ {r}
      PROVE  ChildTrue(v)' /\ (v \in Uploads => UploadTrue(v)')
  BY SteadyKeeps
<1>2. Uploads \subseteq Runners
  BY DEF Runners, Parse!Runners
<1> QED
  BY <1>1, <1>2 DEF ParseInv

LEMMA PreviewKept ==
  ASSUME PreviewTrue, png' = png, model' = model,
         \A r \in Renders : phase'[r] = "written" => phase[r] = "written"
  PROVE  PreviewTrue'
BY DEF PreviewTrue

\* The directories of uploads are their own.
LEMMA OwnDirectory ==
  ASSUME NEW r \in Runners
  PROVE  /\ Parse!workDir(r) \in Uploads \cup {"model"}
         /\ r \in Uploads => Parse!workDir(r) = r
         /\ \A v \in Uploads \ {r} : Parse!workDir(r) # v
BY ParseRunnerAssumption DEF Parse!workDir

LEMMA EndingType ==
  ASSUME NEW o \in Outcomes
  PROVE  /\ Parse!Ending(o) \in Sayings /\ Parse!Ending(o).code # "SIGKILL"
         /\ Parse!Ending(o).code = "0" => o = "ok"
         /\ Parse!Ending(o).code = "64" => o = "public"
BY DEF Outcomes, Sayings, Parse!Ending

\* A verdict needs its exit code, and the time limit overrides both.
LEMMA VerdictType ==
  ASSUME NEW c, NEW l, NEW t \in BOOLEAN
  PROVE  LET v == Parse!parseChildOutput([code |-> c, line |-> l, timedOut |-> t])
         IN  /\ v \in Verdicts
             /\ v = "ok" => c = "0" /\ ~t
             /\ v = "public" => c = "64" /\ ~t
BY DEF Verdicts, Parse!parseChildOutput

\* A kill ends the children it meets and leaves the others as they are.
LEMMA KilledEnds ==
  ASSUME ParseInv, NEW V \in SUBSET Runners, NEW by \in {"kernel", "timer", "runner"},
         Parse!Killed(V, by)
  PROVE  /\ child' \in [Runners -> {"none", "running", "spoken", "ended"}]
         /\ said' \in [Runners -> Sayings \cup {None}]
         /\ killer' \in [Uploads -> {None, "kernel", "timer", "runner"}]
         /\ \A r \in Runners :
              \/ /\ r \notin V \/ Dead(r)
                 /\ child'[r] = child[r] /\ said'[r] = said[r]
                 /\ r \in Uploads => killer'[r] = killer[r]
              \/ /\ r \in V /\ ~Dead(r) /\ child'[r] = "ended"
                 /\ said'[r] \in Sayings /\ said'[r].code = "SIGKILL"
<1> DEFINE hit == {r \in V : child[r] \in {"running", "spoken"}}
           Last(r) == [code |-> "SIGKILL", line |-> IF child[r] = "spoken" THEN said[r].line ELSE "none"]
<1>1. /\ child' = [r \in Runners |-> IF r \in hit THEN "ended" ELSE child[r]]
      /\ said' = [r \in Runners |-> IF r \in hit THEN Last(r) ELSE said[r]]
      /\ killer' = [r \in Uploads |-> IF r \in hit THEN by ELSE killer[r]]
  BY DEF Parse!Killed, Runners
<1>2. ASSUME NEW r \in hit
      PROVE  Last(r) \in Sayings /\ Last(r).code = "SIGKILL"
  <2>1. child[r] = "spoken" => said[r] \in Sayings
    BY DEF ParseInv, ChildTrue
  <2> QED
    BY <2>1 DEF Sayings
<1>3. \A r \in Runners : r \in hit <=> r \in V /\ ~Dead(r)
  BY DEF ParseInv, ParseTyped, Dead
<1>4. Uploads \subseteq Runners
  BY DEF Runners, Parse!Runners
<1> HIDE DEF hit, Last
<1>5. /\ child' \in [Runners -> {"none", "running", "spoken", "ended"}]
      /\ said' \in [Runners -> Sayings \cup {None}]
      /\ killer' \in [Uploads -> {None, "kernel", "timer", "runner"}]
  BY <1>1, <1>2 DEF ParseInv, ParseTyped
<1> QED
  BY <1>1, <1>2, <1>3, <1>4, <1>5

\* The input is staged in a directory of its own, or it is not and the run is over.
LEMMA StageKeeps ==
  ASSUME ParseInv, NEW r \in Runners,
         \/ \E i \in Parse!Inputs : Parse!Stage(r, i)
         \/ Parse!StageFails(r)
         \/ Parse!Skip(r)
  PROVE  ParseInv'
<1> USE ParseRunnerAssumption
<1>0. /\ ParseTyped /\ ChildTrue(r) /\ (r \in Uploads => UploadTrue(r)) /\ PreviewTrue
      /\ Runners = Uploads \cup Renders
  BY DEF ParseInv, Runners, Parse!Runners
<1>1. ASSUME NEW i \in Parse!Inputs, Parse!Stage(r, i)
      PROVE  ParseInv'
  <2>1. Parse!executeParseChild(i) \in Outcomes
    BY DEF Parse!executeParseChild, Outcomes
  <2>2. /\ phase[r] = "idle" /\ phase' = [phase EXCEPT ![r] = "staged"]
        /\ given' = [given EXCEPT ![r] = Parse!executeParseChild(i)]
        /\ scratch' = [scratch EXCEPT ![Parse!workDir(r)] = "empty"]
        /\ UNCHANGED <<child, said, heard, killer, answer, png, model, starts>>
    BY <1>1 DEF Parse!Stage
  <2>3. ParseTyped'
    BY <1>0, <2>1, <2>2, OwnDirectory DEF ParseTyped
  <2>4. ASSUME NEW v \in Runners \ {r}
        PROVE  Steady(v)
    BY <1>0, <2>2, OwnDirectory DEF Steady, ParseTyped
  <2>5. ChildTrue(r)' /\ (r \in Uploads => UploadTrue(r)')
    BY <1>0, <2>1, <2>2, OwnDirectory DEF ParseTyped, ChildTrue, UploadTrue
  <2>6. PreviewTrue'
    BY <1>0, <2>2, PreviewKept DEF ParseTyped
  <2> QED
    BY <2>2, <2>3, <2>4, <2>5, <2>6, OneRunner
<1>2. CASE Parse!StageFails(r)
  <2>1. /\ phase[r] = "idle" /\ phase' = [phase EXCEPT ![r] = "over"]
        /\ answer' = IF r \in Uploads THEN [answer EXCEPT ![r] = "failed"] ELSE answer
        /\ scratch' = [scratch EXCEPT ![Parse!workDir(r)] = "gone"]
        /\ given' = IF r \in Uploads THEN given ELSE [given EXCEPT ![r] = None]
        /\ UNCHANGED <<child, said, heard, killer, png, model, starts>>
    BY <1>2 DEF Parse!StageFails, Parse!Answered, Parse!Kept
  <2>2. ParseTyped'
    BY <1>0, <2>1, OwnDirectory DEF ParseTyped, Verdicts
  <2>3. ASSUME NEW v \in Runners \ {r}
        PROVE  Steady(v)
    BY <1>0, <2>1, OwnDirectory DEF Steady, ParseTyped
  <2>4. ChildTrue(r)' /\ (r \in Uploads => UploadTrue(r)')
    BY <1>0, <2>1, OwnDirectory DEF ParseTyped, ChildTrue, UploadTrue, Dead
  <2>5. PreviewTrue'
    BY <1>0, <2>1, PreviewKept DEF ParseTyped
  <2> QED
    BY <2>1, <2>2, <2>3, <2>4, <2>5, OneRunner
<1>3. CASE Parse!Skip(r)
  <2>1. /\ r \in Renders /\ phase[r] = "idle" /\ phase' = [phase EXCEPT ![r] = "over"]
        /\ UNCHANGED <<given, child, said, heard, killer, scratch, answer, png, model, starts>>
    BY <1>3 DEF Parse!Skip
  <2>2. ParseTyped' /\ ChildTrue(r)' /\ r \notin Uploads
    BY <1>0, <2>1 DEF ParseTyped, ChildTrue, Dead
  <2>3. ASSUME NEW v \in Runners \ {r}
        PROVE  Steady(v)
    BY <1>0, <2>1 DEF Steady, ParseTyped
  <2>4. PreviewTrue'
    BY <1>0, <2>1, PreviewKept DEF ParseTyped
  <2> QED
    BY <2>1, <2>2, <2>3, <2>4, OneRunner
<1> QED
  BY <1>1, <1>2, <1>3

\* The child: it starts, says its piece, or is killed for memory.
LEMMA ChildKeeps ==
  ASSUME ParseInv, NEW r \in Runners,
         Parse!Spawn(r) \/ Parse!Speak(r) \/ Parse!OutOfMemory(r)
  PROVE  ParseInv'
<1> USE ParseRunnerAssumption
<1>0. /\ ParseTyped /\ ChildTrue(r) /\ (r \in Uploads => UploadTrue(r)) /\ PreviewTrue
      /\ Runners = Uploads \cup Renders
  BY DEF ParseInv, Runners, Parse!Runners
<1>1. CASE Parse!Spawn(r)
  <2>1. Parse!parseChildOutput([code |-> "-1", line |-> "none", timedOut |-> FALSE]) = "failed"
    BY DEF Parse!parseChildOutput
  <2>2. /\ phase[r] = "staged"
        /\ UNCHANGED <<given, said, killer, scratch, answer, png, model, starts>>
        /\ \/ /\ phase' = [phase EXCEPT ![r] = "reaping"] /\ child' = child
              /\ heard' = [heard EXCEPT ![r] = "failed"]
           \/ /\ phase' = [phase EXCEPT ![r] = "running"] /\ heard' = heard
              /\ child' = [child EXCEPT ![r] = "running"]
    BY <1>1, <2>1 DEF Parse!Spawn
  <2>3. ParseTyped'
    BY <1>0, <2>2 DEF ParseTyped, Verdicts
  <2>4. ASSUME NEW v \in Runners \ {r}
        PROVE  Steady(v)
    BY <1>0, <2>2 DEF Steady, ParseTyped
  <2>5. ChildTrue(r)' /\ (r \in Uploads => UploadTrue(r)')
    BY <1>0, <2>2 DEF ParseTyped, ChildTrue, UploadTrue, Dead, Verdicts
  <2>6. PreviewTrue'
    BY <1>0, <2>2, PreviewKept DEF ParseTyped
  <2> QED
    BY <2>2, <2>3, <2>4, <2>5, <2>6, OneRunner
<1>2. CASE Parse!Speak(r)
  <2> DEFINE here == scratch[Parse!workDir(r)] = "empty"
             o == IF given[r] = "ok" /\ ~here THEN "crash" ELSE given[r]
  <2>1. /\ child[r] = "running" /\ child' = [child EXCEPT ![r] = "spoken"]
        /\ said' = [said EXCEPT ![r] = Parse!Ending(o)]
        /\ scratch' = [scratch EXCEPT ![Parse!workDir(r)] =
                         IF given[r] = "ok" /\ here THEN "full" ELSE @]
        /\ UNCHANGED <<phase, given, heard, killer, answer, png, model, starts>>
    BY <1>2 DEF Parse!Speak
  <2>2. phase[r] = "running"
    BY <1>0, <2>1 DEF ParseTyped, ChildTrue, Dead
  <2>3. Parse!Ending(o) \in Sayings
    BY DEF Parse!Ending, Sayings
  <2>4. r \in Uploads => given[r] \in Outcomes /\ Parse!Ending(o) = Parse!Ending(given[r])
    BY <1>0, <2>1, OwnDirectory DEF UploadTrue
  <2> HIDE DEF here, o
  <2>5. ParseTyped'
    BY <1>0, <2>1, <2>3, OwnDirectory DEF ParseTyped
  <2>6. ASSUME NEW v \in Runners \ {r}
        PROVE  Steady(v)
    BY <1>0, <2>1, OwnDirectory DEF Steady, ParseTyped
  <2>7. ChildTrue(r)'
    BY <1>0, <2>1, <2>2, <2>3 DEF ParseTyped, ChildTrue
  <2>8. r \in Uploads => UploadTrue(r)'
    BY <1>0, <2>1, <2>2, <2>4 DEF ParseTyped, UploadTrue
  <2>9. PreviewTrue'
    BY <1>0, <2>1, PreviewKept DEF ParseTyped
  <2> QED
    BY <2>1, <2>5, <2>6, <2>7, <2>8, <2>9, OneRunner
<1>3. CASE Parse!OutOfMemory(r)
  <2>1. /\ Parse!Killed({r}, "kernel")
        /\ UNCHANGED <<phase, given, heard, scratch, answer, png, model, starts>>
    BY <1>3 DEF Parse!OutOfMemory
  <2>2. ParseTyped'
    BY <1>0, <2>1, KilledEnds DEF ParseTyped
  <2>3. ASSUME NEW v \in Runners
        PROVE  Steady(v)
    BY <2>1, KilledEnds DEF Steady
  <2>4. ChildTrue(r)' /\ (r \in Uploads => UploadTrue(r)')
    BY <2>1, <2>2, <2>3, SteadyKeeps
  <2>5. PreviewTrue'
    BY <1>0, <2>1, PreviewKept
  <2> QED
    BY <2>1, <2>2, <2>3, <2>4, <2>5, OneRunner
<1> QED
  BY <1>1, <1>2, <1>3

\* The runner hears of the end of its child, or its timer fires.
LEMMA EndKeeps ==
  ASSUME ParseInv, NEW r \in Runners, Parse!Exit(r) \/ Parse!Timeout(r)
  PROVE  ParseInv'
<1> USE ParseRunnerAssumption
<1>0. /\ ParseTyped /\ ChildTrue(r) /\ (r \in Uploads => UploadTrue(r)) /\ PreviewTrue
      /\ Runners = Uploads \cup Renders
  BY DEF ParseInv, Runners, Parse!Runners
<1>1. CASE Parse!Exit(r)
  <2>1. PICK line \in {said[r].line, "none"} :
          heard' = [heard EXCEPT ![r] = Parse!parseChildOutput(
                      [code |-> said[r].code, line |-> line, timedOut |-> FALSE])]
    BY <1>1 DEF Parse!Exit
  <2> DEFINE h == Parse!parseChildOutput([code |-> said[r].code, line |-> line, timedOut |-> FALSE])
  <2>2. /\ phase[r] = "running" /\ child[r] \in {"spoken", "ended"}
        /\ child' = [child EXCEPT ![r] = "ended"] /\ said' = [said EXCEPT ![r] = None]
        /\ phase' = [phase EXCEPT ![r] = "reaping"] /\ heard' = [heard EXCEPT ![r] = h]
        /\ UNCHANGED <<given, killer, scratch, answer, png, model, starts>>
    BY <1>1, <2>1 DEF Parse!Exit
  <2>3. /\ h \in Verdicts
        /\ h = "ok" => said[r].code = "0"
        /\ h = "public" => said[r].code = "64"
    BY VerdictType
  <2> HIDE DEF h
  <2>4. h \in {"ok", "public"} => child[r] = "spoken"
    BY <1>0, <2>2, <2>3 DEF ChildTrue
  <2>5. r \in Uploads /\ h \in {"ok", "public"} => given[r] = h /\ killer[r] = None
    BY <1>0, <2>3, <2>4, EndingType DEF UploadTrue
  <2>6. ParseTyped'
    BY <1>0, <2>2, <2>3 DEF ParseTyped
  <2>7. ASSUME NEW v \in Runners \ {r}
        PROVE  Steady(v)
    BY <1>0, <2>2 DEF Steady, ParseTyped
  <2>8. ChildTrue(r)'
    BY <1>0, <2>2, <2>3 DEF ParseTyped, ChildTrue, Dead
  <2>9. r \in Uploads => UploadTrue(r)'
    BY <1>0, <2>2, <2>5 DEF ParseTyped, UploadTrue
  <2>10. PreviewTrue'
    BY <1>0, <2>2, PreviewKept DEF ParseTyped
  <2> QED
    BY <2>2, <2>6, <2>7, <2>8, <2>9, <2>10, OneRunner
<1>2. CASE Parse!Timeout(r)
  <2>1. Parse!parseChildOutput([code |-> "-1", line |-> "none", timedOut |-> TRUE]) = "timeout"
    BY DEF Parse!parseChildOutput
  <2>2. /\ phase[r] = "running" /\ Parse!Killed({r}, "timer")
        /\ phase' = [phase EXCEPT ![r] = "reaping"]
        /\ heard' = [heard EXCEPT ![r] = "timeout"]
        /\ UNCHANGED <<given, scratch, answer, png, model, starts>>
    BY <1>2, <2>1 DEF Parse!Timeout, Parse!Expired
  <2>3. ParseTyped'
    BY <1>0, <2>2, KilledEnds DEF ParseTyped, Verdicts
  <2>4. ASSUME NEW v \in Runners \ {r}
        PROVE  Steady(v)
    BY <1>0, <2>2, KilledEnds DEF Steady, ParseTyped
  <2>5. phase'[r] = "reaping" /\ heard'[r] = "timeout" /\ child'[r] \in {"none", "ended"}
    BY <1>0, <2>2, KilledEnds DEF ParseTyped, Dead
  <2>6. ChildTrue(r)'
    BY <2>5 DEF ChildTrue, Dead, Verdicts
  <2>7. r \in Uploads => UploadTrue(r)'
    BY <1>0, <2>2, <2>5 DEF UploadTrue
  <2>8. PreviewTrue'
    BY <1>0, <2>2, PreviewKept DEF ParseTyped
  <2> QED
    BY <2>2, <2>3, <2>4, <2>6, <2>7, <2>8, OneRunner
<1> QED
  BY <1>1, <1>2

\* The uid is reaped and the answer given.
LEMMA ReportKeeps ==
  ASSUME ParseInv, NEW r \in Runners, Parse!Report(r)
  PROVE  ParseInv'
<1> USE ParseRunnerAssumption
<1>0. /\ ParseTyped /\ ChildTrue(r) /\ (r \in Uploads => UploadTrue(r)) /\ PreviewTrue
      /\ Runners = Uploads \cup Renders
  BY DEF ParseInv, Runners, Parse!Runners
<1> DEFINE full == scratch[Parse!workDir(r)] = "full"
           a == IF heard[r] = "ok" /\ ~full THEN "failed" ELSE heard[r]
<1>1. /\ phase[r] = "reaping" /\ Parse!Killed(Runners, "runner")
      /\ answer' = IF r \in Uploads THEN [answer EXCEPT ![r] = a] ELSE answer
      /\ scratch' = IF r \in Uploads /\ a = "ok" THEN scratch
                    ELSE [scratch EXCEPT ![Parse!workDir(r)] = "gone"]
      /\ phase' = [phase EXCEPT ![r] = IF a = "ok" THEN "answered" ELSE "over"]
      /\ given' = IF r \in Uploads THEN given ELSE [given EXCEPT ![r] = None]
      /\ heard' = [heard EXCEPT ![r] = None]
      /\ UNCHANGED <<png, model, starts>>
  BY DEF Parse!Report, Parse!Answered, Parse!Kept, Parse!Verified, Parse!Reaped, Runners
<1>2. a \in Verdicts /\ (a \in {"ok", "public"} => a = heard[r]) /\ (a = "ok" => full)
  BY <1>0, <1>1 DEF ChildTrue, Verdicts
<1>3. Dead(r) /\ child'[r] = child[r] /\ (r \in Uploads => killer'[r] = killer[r])
  BY <1>0, <1>1, KilledEnds DEF ChildTrue
<1>4. r \in Uploads /\ a = "ok" => scratch[r] = "full"
  BY <1>2, OwnDirectory
<1> HIDE DEF full, a
<1>5. ParseTyped'
  <2>1. phase' \in [Runners -> {"idle", "staged", "running", "reaping", "answered", "written", "over"}]
    BY <1>0, <1>1 DEF ParseTyped
  <2>2. given' \in [Runners -> Outcomes \cup {None}] /\ heard' \in [Runners -> Verdicts \cup {None}]
    BY <1>0, <1>1 DEF ParseTyped
  <2>3. answer' \in [Uploads -> Verdicts \cup {None}]
    BY <1>0, <1>1, <1>2 DEF ParseTyped
  <2>4. scratch' \in [Uploads \cup {"model"} -> {"gone", "empty", "full"}]
    BY <1>0, <1>1, OwnDirectory DEF ParseTyped
  <2> QED
    BY <1>0, <1>1, <2>1, <2>2, <2>3, <2>4, KilledEnds DEF ParseTyped
<1>6. ASSUME NEW v \in Runners \ {r}
      PROVE  Steady(v)
  <2>1. /\ phase'[v] = phase[v] /\ given'[v] = given[v] /\ heard'[v] = heard[v]
        /\ v \in Uploads => answer'[v] = answer[v] /\ scratch'[v] = scratch[v]
    BY <1>0, <1>1, OwnDirectory DEF ParseTyped
  <2> QED
    BY <1>1, <2>1, KilledEnds DEF Steady
<1>7. ChildTrue(r)'
  BY <1>0, <1>1, <1>3 DEF ChildTrue, Dead, ParseTyped
<1>8. r \in Uploads => UploadTrue(r)'
  BY <1>0, <1>1, <1>2, <1>3, <1>4, OwnDirectory DEF UploadTrue, ParseTyped, Dead
<1>9. PreviewTrue'
  BY <1>0, <1>1, PreviewKept DEF ParseTyped
<1> QED
  BY <1>1, <1>5, <1>6, <1>7, <1>8, <1>9, OneRunner

\* After the answer: the models are promoted, the preview is stored and recorded.
LEMMA AfterKeeps ==
  ASSUME ParseInv, NEW r \in Runners,
         Parse!Promote(r) \/ Parse!Write(r) \/ Parse!Record(r)
  PROVE  ParseInv'
<1> USE ParseRunnerAssumption
<1>0. /\ ParseTyped /\ ChildTrue(r) /\ (r \in Uploads => UploadTrue(r)) /\ PreviewTrue
      /\ Runners = Uploads \cup Renders
  BY DEF ParseInv, Runners, Parse!Runners
<1>1. CASE Parse!Promote(r)
  <2>1. /\ r \in Uploads /\ phase[r] = "answered"
        /\ scratch' = [scratch EXCEPT ![r] = "gone"] /\ phase' = [phase EXCEPT ![r] = "over"]
        /\ UNCHANGED <<given, child, said, heard, killer, answer, png, model, starts>>
    BY <1>1 DEF Parse!Promote
  <2>2. ParseTyped'
    BY <1>0, <2>1 DEF ParseTyped
  <2>3. ASSUME NEW v \in Runners \ {r}
        PROVE  Steady(v)
    BY <1>0, <2>1 DEF Steady, ParseTyped
  <2>4. ChildTrue(r)' /\ UploadTrue(r)'
    BY <1>0, <2>1 DEF ParseTyped, ChildTrue, UploadTrue, Dead
  <2>5. PreviewTrue'
    BY <1>0, <2>1, PreviewKept DEF ParseTyped
  <2> QED
    BY <2>1, <2>2, <2>3, <2>4, <2>5, OneRunner
<1>2. CASE Parse!Write(r)
  <2>1. /\ r \in Renders /\ r \notin Uploads /\ phase[r] = "answered"
        /\ phase' = [phase EXCEPT ![r] = IF png = None THEN "written" ELSE "over"]
        /\ png' = IF png = None THEN r ELSE png
        /\ UNCHANGED <<given, child, said, heard, killer, scratch, answer, model, starts>>
    BY <1>2 DEF Parse!Write, Parse!Writable
  <2>2. ParseTyped'
    BY <1>0, <2>1 DEF ParseTyped
  <2>3. ASSUME NEW v \in Runners \ {r}
        PROVE  Steady(v)
    BY <1>0, <2>1 DEF Steady, ParseTyped
  <2>4. ChildTrue(r)'
    BY <1>0, <2>1 DEF ParseTyped, ChildTrue, Dead
  <2>5. PreviewTrue'
    BY <2>1 DEF PreviewTrue
  <2> QED
    BY <2>1, <2>2, <2>3, <2>4, <2>5, OneRunner
<1>3. CASE Parse!Record(r)
  <2>1. /\ phase[r] = "written" /\ phase' = [phase EXCEPT ![r] = "over"]
        /\ model' = IF model = "deleted" THEN model ELSE "shown"
        /\ UNCHANGED <<given, child, said, heard, killer, scratch, answer, png, starts>>
    BY <1>3 DEF Parse!Record
  <2>2. r \in Renders /\ r \notin Uploads
    BY <1>0, <2>1 DEF UploadTrue
  <2>3. ParseTyped'
    BY <1>0, <2>1 DEF ParseTyped
  <2>4. ASSUME NEW v \in Runners \ {r}
        PROVE  Steady(v)
    BY <1>0, <2>1 DEF Steady, ParseTyped
  <2>5. ChildTrue(r)'
    BY <1>0, <2>1 DEF ParseTyped, ChildTrue, Dead
  <2>6. PreviewTrue'
    BY <1>0, <2>1, <2>2 DEF PreviewTrue
  <2> QED
    BY <2>1, <2>2, <2>3, <2>4, <2>5, <2>6, OneRunner
<1> QED
  BY <1>1, <1>2, <1>3

\* A restart takes every child and forgets every answer that was not given.
LEMMA RestartKeeps ==
  ASSUME ParseInv, Parse!Restart
  PROVE  ParseInv'
<1> USE ParseRunnerAssumption
<1>0. ParseTyped /\ Runners = Uploads \cup Renders
  BY DEF ParseInv, Runners, Parse!Runners
<1>1. /\ starts < MaxStarts /\ starts' = starts + 1
      /\ child' = [r \in Runners |-> "none"]
      /\ phase' = [r \in Runners |-> IF ~Parse!Active(r) THEN phase[r]
                                    ELSE IF r \in Uploads THEN "over" ELSE "idle"]
      /\ answer' = [u \in Uploads |-> IF Parse!Active(u) THEN None ELSE answer[u]]
      /\ said' = [r \in Runners |-> None] /\ heard' = [r \in Runners |-> None]
      /\ killer' = [u \in Uploads |-> IF Parse!Active(u) THEN None ELSE killer[u]]
      /\ given' = [r \in Runners |-> IF r \in Renders \/ Parse!Active(r) THEN None ELSE given[r]]
      /\ UNCHANGED <<scratch, png, model>>
  BY DEF Parse!Restart, Runners
<1>2. ParseTyped'
  BY <1>0, <1>1 DEF ParseTyped
<1>3. ASSUME NEW r \in Runners
      PROVE  ChildTrue(r)'
  <2>1. phase'[r] \in {"idle", "over"} /\ child'[r] = "none"
    BY <1>0, <1>1, <1>3 DEF ParseTyped, Parse!Active
  <2> QED
    BY <2>1 DEF ChildTrue, Dead
<1>4. ASSUME NEW u \in Uploads
      PROVE  UploadTrue(u)'
  <2>1. starts' # 1
    BY <1>0, <1>1 DEF ParseTyped
  <2>2. child'[u] = "none" /\ UploadTrue(u) /\ u \in Runners
    BY <1>0, <1>1 DEF ParseInv
  <2>3. CASE Parse!Active(u)
    <3>1. phase'[u] = "over" /\ answer'[u] = None
      BY <1>0, <1>1, <2>3
    <3> QED
      BY <2>1, <2>2, <3>1 DEF UploadTrue
  <2>4. CASE ~Parse!Active(u)
    <3>1. /\ phase'[u] = phase[u] /\ phase[u] \in {"idle", "over"}
          /\ answer'[u] = answer[u] /\ killer'[u] = killer[u] /\ given'[u] = given[u]
      BY <1>0, <1>1, <2>4 DEF Parse!Active
    <3> QED
      BY <2>1, <2>2, <3>1 DEF UploadTrue
  <2> QED
    BY <2>3, <2>4
<1>5. PreviewTrue'
  <2>1. \A r \in Renders : phase'[r] = "written" => phase[r] = "written"
    BY <1>0, <1>1
  <2> QED
    BY <1>1, <2>1, PreviewKept DEF ParseInv
<1> QED
  BY <1>2, <1>3, <1>4, <1>5 DEF ParseInv

\* The customer removes the model.
LEMMA DeleteKeeps ==
  ASSUME ParseInv, Parse!Delete
  PROVE  ParseInv'
<1>1. /\ png' = (IF model = "shown" THEN None ELSE png) /\ model' = "deleted"
      /\ UNCHANGED <<phase, given, child, said, heard, killer, scratch, answer, starts>>
  BY DEF Parse!Delete
<1>2. ParseTyped' /\ PreviewTrue'
  BY <1>1 DEF ParseInv, ParseTyped, PreviewTrue
<1>3. \A r \in Runners : ChildTrue(r)'
  BY <1>1 DEF ParseInv, ChildTrue, Dead
<1>4. \A u \in Uploads : UploadTrue(u)'
  BY <1>1 DEF ParseInv, UploadTrue
<1> QED
  BY <1>2, <1>3, <1>4 DEF ParseInv

LEMMA InitParse == Parse!Init => ParseInv
<1> SUFFICES ASSUME Parse!Init
             PROVE  ParseInv
  OBVIOUS
<1> USE ParseRunnerAssumption
<1>1. ParseTyped
  BY DEF Parse!Init, ParseTyped, Runners
<1>2. \A r \in Runners : ChildTrue(r)
  BY DEF Parse!Init, ChildTrue, Runners
<1>3. \A u \in Uploads : UploadTrue(u)
  BY DEF Parse!Init, UploadTrue, Parse!Runners
<1>4. PreviewTrue
  BY DEF Parse!Init, PreviewTrue, Parse!Runners
<1> QED
  BY <1>1, <1>2, <1>3, <1>4 DEF ParseInv

LEMMA StepParse == ParseInv /\ [Parse!Next]_(Parse!vars) => ParseInv'
<1> SUFFICES ASSUME ParseInv, [Parse!Next]_(Parse!vars)
             PROVE  ParseInv'
  OBVIOUS
<1>1. CASE Parse!Next
  <2>1. ASSUME NEW r \in Runners, Parse!Step(r)
        PROVE  ParseInv'
    BY <2>1, StageKeeps, ChildKeeps, EndKeeps, ReportKeeps, AfterKeeps DEF Parse!Step
  <2> QED
    BY <1>1, <2>1, RestartKeeps, DeleteKeeps DEF Parse!Next, Runners
<1>2. CASE UNCHANGED Parse!vars
  <2>1. UNCHANGED <<phase, given, child, said, heard, killer, scratch, answer, png, model, starts>>
    BY <1>2 DEF Parse!vars
  <2>2. ParseTyped' /\ PreviewTrue'
    BY <2>1 DEF ParseInv, ParseTyped, PreviewTrue
  <2>3. \A r \in Runners : ChildTrue(r)'
    BY <2>1 DEF ParseInv, ChildTrue, Dead
  <2>4. \A u \in Uploads : UploadTrue(u)'
    BY <2>1 DEF ParseInv, UploadTrue
  <2> QED
    BY <2>2, <2>3, <2>4 DEF ParseInv
<1> QED
  BY <1>1, <1>2

\* A preview that the row names is never written again: only the deletion of the
\* model, or a render that found no file, changes it.
LEMMA PreviewStays ==
  ASSUME ParseInv, [Parse!Next]_(Parse!vars), model = "shown", model' = "shown"
  PROVE  png # None /\ png' = png
<1>1. png # None
  BY DEF ParseInv, PreviewTrue
<1>2. CASE UNCHANGED Parse!vars
  BY <1>1, <1>2 DEF Parse!vars
<1>3. CASE Parse!Delete \/ Parse!Restart
  BY <1>1, <1>3 DEF Parse!Delete, Parse!Restart
<1>4. ASSUME NEW r \in Runners, Parse!Step(r)
      PROVE  png' = png
  <2>1. CASE Parse!Write(r)
    BY <1>1, <2>1 DEF Parse!Write, Parse!Writable
  <2>2. CASE (\E i \in Parse!Inputs : Parse!Stage(r, i)) \/ Parse!StageFails(r) \/ Parse!Skip(r)
    BY <2>2 DEF Parse!Stage, Parse!StageFails, Parse!Skip
  <2>3. CASE \/ Parse!Spawn(r) \/ Parse!Speak(r) \/ Parse!OutOfMemory(r) \/ Parse!Exit(r)
             \/ Parse!Timeout(r) \/ Parse!Report(r) \/ Parse!Promote(r) \/ Parse!Record(r)
    BY <2>3 DEF Parse!Spawn, Parse!Speak, Parse!OutOfMemory, Parse!Exit, Parse!Timeout,
                Parse!Report, Parse!Promote, Parse!Record
  <2> QED
    BY <1>4, <2>1, <2>2, <2>3 DEF Parse!Step
<1> QED
  BY <1>1, <1>2, <1>3, <1>4 DEF Parse!Next, Runners

LEMMA ParseSafe == ParseInv => Parse!TypeOK /\ Parse!OwnVerdict /\ Parse!NothingLeft
<1> SUFFICES ASSUME ParseInv
             PROVE  Parse!TypeOK /\ Parse!OwnVerdict /\ Parse!NothingLeft
  OBVIOUS
<1> USE ParseRunnerAssumption
<1>1. Parse!TypeOK
  BY DEF ParseInv, ParseTyped, Parse!TypeOK, Runners, Verdicts
<1>2. Parse!OwnVerdict
  BY DEF ParseInv, UploadTrue, Parse!OwnVerdict
<1>3. Parse!NothingLeft
  BY DEF ParseInv, ChildTrue, UploadTrue, Dead, Parse!NothingLeft, Runners
<1> QED
  BY <1>1, <1>2, <1>3

\* Whatever kills them, hangs them or restarts the orchestrator, the verdict of a
\* parse, its files and the preview of a model are those of the child that made
\* them (parse-runner.ts:267-311 and :342-377, index.ts:299-329).
THEOREM ResultsOwn == Parse!Spec => OwnResults
<1>1. ParseInv /\ ParseInv' /\ [Parse!Next]_(Parse!vars)
        => [model = "shown" /\ model' = "shown" => png # None /\ png' = png]_<<model, png>>
  BY PreviewStays
<1> QED
  BY <1>1, InitParse, StepParse, ParseSafe, PTL
     DEF Parse!Spec, OwnResults, Parse!OwnResults, Parse!FirstWins
=============================================================================
