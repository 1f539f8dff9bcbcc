------------------------------ MODULE Takings -------------------------------
(***************************************************************************)
(* What an order earns: the amount, the mall's fee, extra payments and     *)
(* refunds, app/orders/__init__.py (settlement, extras, the details form)  *)
(* and backfill_amounts of app/malls/collect.py.  Amounts are small        *)
(* numbers and a rate is a whole factor, so that nothing is rounded.       *)
(***************************************************************************)
EXTENDS Integers, FiniteSets, FiniteSetsExt

CONSTANTS
  Buys,       \* orders
  Extras,     \* rows of order_extras
  MaxWon,     \* bound: an amount typed or read
  Rates,      \* fee rates of the malls; 0 stands for none
  ShopOf      \* the channel of an order

ASSUME TakingsBounds ==
  Rates \subseteq Nat /\ 0 \in Rates /\ MaxWon \in Nat /\ IsFiniteSet(Extras)

VARIABLES
  earned,     \* orders
  extra,      \* order_extras
  rateOf,     \* settings: the rate of each mall
  found       \* backfill_amounts: what the mall says of orders without an amount

takingVars == <<earned, extra, rateOf, found>>

Shops    == {ShopOf[o] : o \in Buys}
Methods  == {"bank", "mall", "custom"}
NoExtra  == [of |-> 0, amount |-> 0, fee |-> 0]
Won      == 1..MaxWon

ExtrasOf(o) == {x \in Extras : extra[x].amount > 0 /\ extra[x].of = o}
ExtraAmount(o) == MapThenSumSet(LAMBDA x : extra[x].amount, ExtrasOf(o))
ExtraFee(o)    == MapThenSumSet(LAMBDA x : extra[x].fee, ExtrasOf(o))

TakingsOK ==
  /\ \A o \in Buys : /\ {earned[o].amount, earned[o].refund} \subseteq Nat
                     /\ earned[o].fee \in Int /\ earned[o].rate \in Rates
                     /\ {earned[o].manual, earned[o].shipped} \subseteq BOOLEAN
                     /\ {earned[o].dated, earned[o].cancelled} \subseteq BOOLEAN
  /\ \A x \in Extras : extra[x] = NoExtra \/ extra[x].of \in Buys
  /\ rateOf \in [Shops -> Rates]
-----------------------------------------------------------------------------
\* fee_for
FeeFor(o, amount) == amount * rateOf[ShopOf[o]]

\* recalc_fee_for_amount: extra payments keep the fee they came with
Recalculated(e, o) == (e.amount - ExtraAmount(o)) * e.rate + ExtraFee(o)

Open(o) == ~earned[o].cancelled /\ ~earned[o].shipped

OnEarned(e) ==
  /\ earned' = e
  /\ UNCHANGED <<rateOf, found>>

Paid(o, amount, fee) == [earned EXCEPT ![o].amount = @ + amount, ![o].fee = @ + fee]
NoteExtra(x, o, amount, fee) ==
  /\ extra[x] = NoExtra
  /\ extra' = [extra EXCEPT ![x] = [of |-> o, amount |-> amount, fee |-> fee]]

\* add_extra, _extra_fee: paid by transfer, at the order's mall, or at a rate that is typed in
AddExtra(x, o, amount, method, rate) ==
  LET fee == CASE method = "bank" -> 0 [] method = "mall" -> FeeFor(o, amount)
               [] OTHER -> amount * rate
  IN /\ Open(o)
     /\ NoteExtra(x, o, amount, fee)
     /\ OnEarned(Paid(o, amount, fee))

\* merge_as_extra: an order that was only a payment goes into another one, at its own mall's
\* rate, and is cancelled; matching and waybills, which forbid it, are left out
MergeAsExtra(x, o, to) ==
  LET fee == FeeFor(o, earned[o].amount) IN
  /\ o # to /\ Open(o) /\ Open(to) /\ earned[o].amount > 0
  /\ NoteExtra(x, to, earned[o].amount, fee)
  /\ OnEarned([Paid(to, earned[o].amount, fee) EXCEPT ![o].cancelled = TRUE])

\* delete_extra: an order that went into another one stays cancelled
DeleteExtra(x) ==
  LET o == extra[x].of IN
  /\ extra[x] # NoExtra /\ ~earned[o].shipped
  /\ extra' = [extra EXCEPT ![x] = NoExtra]
  /\ OnEarned([earned EXCEPT ![o].amount = Max({0, @ - extra[x].amount}),
                             ![o].fee = Max({0, @ - extra[x].fee})])

FeeOnAll(o) ==                                                        \* mutant
  [earned[o] EXCEPT !.fee = FeeFor(o, earned[o].amount), !.rate = rateOf[ShopOf[o]]]
\* what the mall keeps of the part that was paid there
SettledFee(o) ==
  [earned[o] EXCEPT !.fee = FeeFor(o, earned[o].amount - ExtraAmount(o)) + ExtraFee(o),
                    !.rate = rateOf[ShopOf[o]]]

\* _stage_check, apply_settlement_defaults: the first shipping fills in the fee
ShipBuy(o) ==
  /\ Open(o)
  /\ LET e == IF earned[o].dated \/ earned[o].manual
                 \/ (SettledFee(o).fee = 0 /\ SettledFee(o).rate = 0 /\ ExtraFee(o) = 0)
              THEN earned[o] ELSE SettledFee(o)
     IN OnEarned([earned EXCEPT ![o] = [e EXCEPT !.shipped = TRUE, !.dated = TRUE]])
  /\ UNCHANGED extra

\* ship_today fills in no fee
ShipBuyToday(o) ==
  /\ Open(o)
  /\ OnEarned([earned EXCEPT ![o].shipped = TRUE, ![o].dated = TRUE])
  /\ UNCHANGED extra

\* shipping undone, the order cancelled or restored: what it earned stays
SetBuy(o, shipped, cancelled) ==
  /\ shipped => earned[o].shipped
  /\ OnEarned([earned EXCEPT ![o].shipped = shipped, ![o].cancelled = cancelled])
  /\ UNCHANGED extra

\* the details form: another amount takes the fee along, unless it was put in by hand
EditAmount(o, amount) ==
  /\ amount # earned[o].amount
  /\ LET e == [earned[o] EXCEPT !.amount = amount]
     IN OnEarned([earned EXCEPT ![o] =
          IF e.manual \/ e.rate = 0 THEN e ELSE [e EXCEPT !.fee = Recalculated(e, o)]])
  /\ UNCHANGED extra

\* _apply_settlement: a fee by hand, or a refund of no more than the amount
SettleByHand(o, fee) ==
  /\ fee # earned[o].fee
  /\ OnEarned([earned EXCEPT ![o].fee = fee, ![o].rate = 0, ![o].manual = TRUE])
  /\ UNCHANGED extra

Refund(o, amount) ==
  /\ amount <= earned[o].amount
  /\ OnEarned([earned EXCEPT ![o].refund = amount])
  /\ UNCHANGED extra

\* settlement_backfill: shipped orders whose fee was not put in by hand, at the rates of today;
\* an order whose fee is the same is passed over, unless its shipping cost is missing
SettlementBackfill(uncosted) ==
  /\ OnEarned([o \in Buys |->
       IF earned[o].shipped /\ ~earned[o].cancelled /\ ~earned[o].manual
          /\ (SettledFee(o).fee # earned[o].fee \/ o \in uncosted)
       THEN SettledFee(o) ELSE earned[o]])
  /\ UNCHANGED extra

\* the settings form
SetRate(s, rate) ==
  /\ rateOf' = [rateOf EXCEPT ![s] = rate]
  /\ UNCHANGED <<earned, extra, found>>

\* backfill_amounts asks the mall, and then fills in the amounts that are still missing
AskAmounts(amount) ==
  /\ found' = [o \in {p \in Buys : ~earned[p].cancelled /\ earned[p].amount = 0} |-> amount]
  /\ found' # << >>
  /\ UNCHANGED <<earned, extra, rateOf>>

FillAmounts ==
  /\ found # << >>
  /\ found' = << >>
  /\ earned' = [o \in Buys |->
       IF o \in DOMAIN found /\ earned[o].amount = 0
       THEN [earned[o] EXCEPT !.amount = found[o]] ELSE earned[o]]
  /\ UNCHANGED <<extra, rateOf>>

\* orders as they come in; the mall's amount may be missing
TakingsInit ==
  /\ earned \in [Buys -> [amount : {0, 1}, fee : {0}, rate : {0}, refund : {0}, manual : {FALSE},
                          shipped : {FALSE}, dated : {FALSE}, cancelled : {FALSE}]]
  /\ extra = [x \in Extras |-> NoExtra]
  /\ rateOf \in [Shops -> Rates] /\ found = << >>

\* an amount below the extra payments is left out (README)
MoneyStep ==
  \/ \E x \in Extras, o \in Buys :
       \/ \E amount \in Won, method \in Methods, rate \in Rates : AddExtra(x, o, amount, method, rate)
       \/ \E to \in Buys : MergeAsExtra(x, o, to)
       \/ DeleteExtra(x)
  \/ \E o \in Buys :
       \/ ShipBuy(o) \/ ShipBuyToday(o)
       \/ \E shipped, cancelled \in BOOLEAN : SetBuy(o, shipped, cancelled)
       \/ \E amount \in 0..MaxWon : ExtraAmount(o) <= amount /\ EditAmount(o, amount)
       \/ SettleByHand(o, 1) \/ Refund(o, 1)
  \/ \E uncosted \in SUBSET Buys : SettlementBackfill(uncosted)
  \/ \E s \in Shops, rate \in Rates : SetRate(s, rate)

FillStep == FillAmounts \/ \E amount \in Won : AskAmounts(amount)

MoneySpec == TakingsInit /\ [][MoneyStep]_takingVars
-----------------------------------------------------------------------------
\* A fee that nobody put in by hand is that of the amount without the extra payments, at the
\* rate it was reckoned with, and that of each extra payment (apply_settlement_defaults: else a
\* payment by transfer pays the mall, and one at the mall pays it twice; recalc_fee_for_amount:
\* when an amount is put right, the fee follows)
FeeIsExplained ==
  \A o \in Buys : ~earned[o].manual =>
    earned[o].fee = (earned[o].amount - ExtraAmount(o)) * earned[o].rate + ExtraFee(o)
=============================================================================
