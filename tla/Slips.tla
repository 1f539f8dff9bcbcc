------------------------------- MODULE Slips --------------------------------
(***************************************************************************)
(* Purchase slips of one day: app/purchase/__init__.py next_slip_no,       *)
(* create_batch, update_batch, create_assets, the batchId of update_asset, *)
(* cancel_batch, uncancel_batch, return_batch, confirm_batch, add_payment, *)
(* part_purchase.  A 'provisional' slip (V) lists machines that have not   *)
(* arrived.  Texts, dates, prices of single machines and the log are left  *)
(* out.  Parts here are the moves of one slip; Parts has the store.        *)
(***************************************************************************)
EXTENDS OwsState, Integers, FiniteSetsExt

CONSTANTS
  Slips,       \* purchase_batches.id
  MaxSlipNo,   \* 999, counted from OWS_SLIP_SEQ_START
  MaxAmount,   \* bound of the amounts
  NoSlip,      \* a NULL batch_id
  Unbought     \* of a machine that is not registered yet

ASSUME SlipBounds == MaxSlipNo \in Nat \ {0} /\ MaxAmount \in Nat
ASSUME NoSlipIsNone == {NoSlip, Unbought} \cap Slips = {} /\ NoSlip # Unbought

VARIABLES
  slip,     \* purchase_batches
  slipOf,   \* assets.batch_id
  moved     \* history: machines that were put on another slip by hand

slipVars == <<slip, slipOf, moved>>

SlipStages == {"none", "provisional", "purchased"}
\* qty: of parts, all in the store
NewSlip(stage, n, supplier, total, settled, qty) ==
  [stage |-> stage, no |-> n, cancelled |-> FALSE, returned |-> FALSE, supplier |-> supplier,
   total |-> total, paid |-> 0, settled |-> settled, bought |-> qty, moves |-> qty]
NoSlipRow == NewSlip("none", 0, FALSE, 0, FALSE, 0)

\* _batch_fields_from_body: what the screen sends of the money, the amount paid included, goes
\* into the row as it is; what it leaves out stays
SlipFields == [supplier : BOOLEAN, total : 0..MaxAmount, paid : 0..MaxAmount, settled : BOOLEAN]
Written(row, f) == [row EXCEPT !.supplier = f.supplier, !.total = f.total, !.paid = f.paid,
                               !.settled = f.settled]

SlipsOK ==
  /\ \A b \in Slips :
       /\ slip[b].stage \in SlipStages /\ slip[b].no \in 0..MaxSlipNo
       /\ slip[b].total \in 0..MaxAmount /\ slip[b].paid \in 0..MaxAmount
       /\ slip[b].bought \in Nat /\ slip[b].moves \in Int
  /\ slipOf \in [Assets -> Slips \cup {NoSlip, Unbought}]
  /\ moved \subseteq Assets

Of(b) == {a \in Assets : slipOf[a] = b}
Exists(b) == slip[b].stage # "none"

\* next_slip_no: V and P count apart, from the slips that have such a number now
NextSlipNo(stage) == Max({slip[b].no : b \in {c \in Slips : slip[c].stage = stage}} \cup {0}) + 1

InHouse == {"in_stock", "refurbishing", "ready", "repair", "as", "painting", "defective",
            "returned"}

RestUnchanged == UNCHANGED <<orderVars, link, prebuild, waybill, tracking, ticket, listed,
                             provisional>>
BooksOnly == UNCHANGED <<recordVars, slipOf, moved>>
-----------------------------------------------------------------------------
\* create_batch: the slip and its machines in one transaction
CreateSlip(b, stage, f, S) ==
  /\ ~Exists(b)
  /\ stage = "purchased" => f.supplier
  /\ NextSlipNo(stage) <= MaxSlipNo
  /\ S \subseteq Of(Unbought)
  /\ slip' = [slip EXCEPT ![b] = Written(NewSlip(stage, NextSlipNo(stage), FALSE, 0, FALSE, 0),
                                         f)]
  /\ slipOf' = [a \in Assets |-> IF a \in S THEN b ELSE slipOf[a]]
  /\ received' = IF stage = "purchased" THEN received \cup S ELSE received \ S
  /\ UNCHANGED <<status, before, moved>>
  /\ RestUnchanged

AddToSlipUncounted(b, a) ==                                           \* mutant
  /\ slipOf[a] = Unbought
  /\ b # NoSlip => Exists(b) /\ ~slip[b].cancelled
  /\ slipOf' = [slipOf EXCEPT ![a] = b]
  /\ received' = IF b # NoSlip THEN received \ {a} ELSE received \cup {a}
  /\ UNCHANGED <<slip, status, before, moved>>
  /\ RestUnchanged
\* create_assets: one more machine, on a slip that is not cancelled or on none
AddToSlip(b, a) ==
  /\ slipOf[a] = Unbought
  /\ b # NoSlip => Exists(b) /\ ~slip[b].cancelled
  /\ slipOf' = [slipOf EXCEPT ![a] = b]
  /\ received' = IF b # NoSlip /\ slip[b].stage = "provisional" THEN received \ {a}
                 ELSE received \cup {a}
  /\ UNCHANGED <<slip, status, before, moved>>
  /\ RestUnchanged

\* update_asset with a batchId: any slip there is, cancelled or not; received stays
MoveToSlip(a, b) ==
  /\ slipOf[a] \notin {Unbought, b}
  /\ b # NoSlip => Exists(b)
  /\ slipOf' = [slipOf EXCEPT ![a] = b]
  /\ moved' = moved \cup {a}
  /\ UNCHANGED <<slip, recordVars>>

\* update_batch: the total may fall below what is paid, the amount paid rise above the total
UpdateSlip(b, f) ==
  /\ Exists(b)
  /\ slip[b].stage = "purchased" => f.supplier
  /\ slip' = [slip EXCEPT ![b] = Written(@, f)]
  /\ BooksOnly

\* a slip is taken back unless an order, a shipment or a recall has one of its machines, or one
\* is cancelled already; the moves of its parts are offset
CancelSlip(b) ==
  /\ Exists(b) /\ ~slip[b].cancelled
  /\ \A a \in Of(b) : status[a] \in InHouse
  /\ slip' = [slip EXCEPT ![b].cancelled = TRUE, ![b].moves = 0]
  /\ status' = [a \in Assets |-> IF a \in Of(b) THEN "cancelled" ELSE status[a]]
  /\ before' = [a \in Assets |-> IF a \in Of(b) THEN status[a] ELSE before[a]]
  /\ UNCHANGED <<slipOf, received, moved>>
  /\ RestUnchanged

UncancelledBare(b) == slip[b].moves                                   \* mutant
Uncancelled(b) == slip[b].moves + (slip[b].bought - slip[b].moves)

UncancelSlip(b) ==
  /\ slip[b].cancelled
  /\ slip' = [slip EXCEPT ![b].cancelled = FALSE, ![b].moves = Uncancelled(b)]
  /\ status' = [a \in Assets |-> IF a \in Of(b) /\ status[a] = "cancelled" THEN before[a]
                                 ELSE status[a]]
  /\ UNCHANGED <<slipOf, before, received, moved>>
  /\ RestUnchanged

\* return_batch: all machines go back to the supplier, or those the screen names
ReturnSlip(b, only) ==
  LET S == IF only = {} THEN Of(b) ELSE only \cap Of(b) IN
  /\ Exists(b) /\ ~slip[b].cancelled
  /\ \A a \in S : status[a] \in InHouse
  /\ status' = [a \in Assets |-> IF a \in S THEN "returned" ELSE status[a]]
  /\ slip' = [slip EXCEPT ![b].returned = @ \/ only = {}]
  /\ UNCHANGED <<slipOf, before, received, moved>>
  /\ RestUnchanged

\* the machines have arrived; the slip gets a purchase number and its V number lapses
ConfirmSlip(b, f) ==
  /\ slip[b].stage = "provisional" /\ ~slip[b].cancelled
  /\ f.supplier
  /\ NextSlipNo("purchased") <= MaxSlipNo
  /\ slip' = [slip EXCEPT ![b] = [Written(@, f) EXCEPT !.stage = "purchased",
                                                       !.no = NextSlipNo("purchased")]]
  /\ received' = received \cup Of(b)
  /\ UNCHANGED <<slipOf, status, before, moved>>
  /\ RestUnchanged

PaySlipOver(b, amount) ==                                             \* mutant
  LET paid == slip[b].paid + amount IN
  /\ slip[b].stage = "purchased" /\ ~slip[b].cancelled
  /\ amount # 0
  /\ paid <= slip[b].total
  /\ slip' = [slip EXCEPT ![b].paid = paid,
                          ![b].settled = paid >= slip[b].total /\ slip[b].total > 0]
  /\ BooksOnly
\* add_payment: a correction may not go below nothing, a payment not above the total
PaySlip(b, amount) ==
  LET paid == slip[b].paid + amount IN
  /\ slip[b].stage = "purchased" /\ ~slip[b].cancelled
  /\ amount # 0
  /\ paid >= 0
  /\ amount > 0 => paid <= slip[b].total
  /\ slip' = [slip EXCEPT ![b].paid = paid,
                          ![b].settled = paid >= slip[b].total /\ slip[b].total > 0]
  /\ BooksOnly

\* part_purchase: a purchase slip of parts, paid or not
BuyParts(b, qty, total, unpaid) ==
  /\ ~Exists(b)
  /\ NextSlipNo("purchased") <= MaxSlipNo
  /\ slip' = [slip EXCEPT ![b] = NewSlip("purchased", NextSlipNo("purchased"), TRUE, total,
                                       ~unpaid, qty)]
  /\ BooksOnly

SlipNext ==
  \E b \in Slips :
    \/ \E stage \in SlipStages \ {"none"}, f \in SlipFields, S \in SUBSET Assets :
         CreateSlip(b, stage, f, S)
    \/ \E a \in Assets : MoveToSlip(a, b) \/ MoveToSlip(a, NoSlip)
    \/ \E a \in Assets, c \in {b, NoSlip} : AddToSlip(c, a)
    \/ \E f \in SlipFields : UpdateSlip(b, f) \/ ConfirmSlip(b, f)
    \/ CancelSlip(b) \/ UncancelSlip(b)
    \/ \E only \in SUBSET Assets : ReturnSlip(b, only)
    \/ \E amount \in {-1, 1} : PaySlip(b, amount)
    \/ \E unpaid \in BOOLEAN : BuyParts(b, 1, MaxAmount, unpaid)

SlipInit ==
  /\ slip = [b \in Slips |-> NoSlipRow]
  /\ slipOf = [a \in Assets |-> Unbought]
  /\ moved = {}

\* whatever the desks do beside: none of them takes back that a machine has arrived
SlipRest == UNCHANGED slipVars /\ received \subseteq received'

SlipSpec == Init /\ SlipInit /\ [][SlipNext \/ SlipRest]_<<recordVars, slipVars>>
-----------------------------------------------------------------------------
\* A machine that stays on its slip is counted as arrived exactly when the slip is a purchase,
\* whatever was cancelled, returned, added or confirmed in between (confirm_batch: without it
\* the machine would never be counted as stock)
ArrivedWithItsSlip ==
  \A b \in Slips : \A a \in Of(b) \ moved : slip[b].stage = "purchased" => a \in received

\* A cancelled slip adds no parts to the store and any other adds what was bought, however
\* often it was cancelled and taken up again; and no two slips of a kind wear one number
SlipsKeepTheirParts ==
  \A b \in Slips :
    /\ slip[b].moves = IF slip[b].cancelled THEN 0 ELSE slip[b].bought
    /\ \A c \in Slips \ {b} : Exists(b) /\ slip[b].stage = slip[c].stage => slip[b].no # slip[c].no
=============================================================================
