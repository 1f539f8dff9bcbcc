------------------------------ MODULE MCHouse -------------------------------
(***************************************************************************)
(* The purchase house beside the order desk, one scene at a time: machines *)
(* handed over to the rental division, purchase slips, the ledger of       *)
(* parts, sale slips, and asset numbers.  A scene is chosen in the initial *)
(* state and never left; the state of the others rests.                    *)
(***************************************************************************)
EXTENDS OrderBoard, AssetDesk, Transfers, Slips, Parts, SaleLedger, Numbering, MCStart

CONSTANTS o1, a1, a2, u1, b1, b2, t1, r1

VARIABLE scene

houseVars == <<recordVars, transferVars, slipVars, partVars, saleVars, numberVars, scene>>

HouseInit ==
  /\ scene \in {"handover", "slips", "parts", "sales", "numbers"}
  /\ StartAt(Inspected, u1, Unlinked, "in_stock")
  /\ received = IF scene = "slips" THEN {} ELSE Assets
  /\ NoTickets
  /\ TransferInit /\ SlipInit /\ PartsInit /\ SaleInit /\ NumberInit
  \* bound: both machines begin in one division; a2 has an empty specification, a1 none or
  \* one that the supplier wrote
  /\ \A a \in Assets : division[a] = division[a1]
  /\ scene # "handover" => division[a1] = "sale"
  /\ \A a \in Assets : spec[a] \in IF a = a1 /\ scene = "parts"
                                   THEN {<< >>, << [size |-> 2, ours |-> FALSE] >>} ELSE {<< >>}

Match(wanted) == SetOrderAssets(o1, wanted, FALSE, {}, a1, a1)
-----------------------------------------------------------------------------
\* two machines and two hand-overs; orders and listings touch a2, staff decide about a1; an
\* order takes machines of the sale division only
HandoverScene ==
  \/ TransferStep
  \/ /\ UNCHANGED transferVars
     /\ \/ \E wanted \in SUBSET {a2} :
             /\ \A a \in wanted \ AssetsOf(o1) : division[a] = "sale"
             /\ Match(wanted)
        \/ ShippingOn(o1, u1)
        \/ division[a2] = "sale" /\ ChangeListing(a2)
  \/ DivisionException({a1}, "rental")
  \/ DivisionUnlock({a1})
  \/ HoldOverride({a1}, {"dup_buy"})
  \/ HoldOverrideUndo({a1})
  \/ RmsSync([a \in Assets |-> IF a = a2 THEN "out" ELSE "absent"])
  \/ RentalMissingAck({a2})

Sent(supplier, total, paid) ==
  [supplier |-> supplier, total |-> total, paid |-> paid, settled |-> FALSE]

\* two slips, one machine and an order for it; what the screen sends of the money varies where
\* money moves: one slip's number tells that the other was made first
SlipScene ==
  \/ \E b \in Slips :
       \/ \E stage \in SlipStages \ {"none"}, S \in {{}, {a1}} :
            CreateSlip(b, stage, Sent(stage = "purchased", 1, 0), S)
       \/ CancelSlip(b) \/ UncancelSlip(b)
       \/ \E paid \in 0..1 : ConfirmSlip(b, Sent(TRUE, 1, paid))
  \/ \E only \in {{}, {a1}} : ReturnSlip(b1, only)
  \/ \E unpaid \in BOOLEAN : BuyParts(b2, 1, 1, unpaid)
  \/ AddToSlip(b1, a1) \/ AddToSlip(NoSlip, a1) \/ MoveToSlip(a1, b2)
  \/ slip[b1].no = 2 /\ \E amount \in {1, -1} : PaySlip(b2, amount)
  \/ slip[b1].no = 2 /\ \E total, paid \in 0..1 : UpdateSlip(b2, Sent(TRUE, total, paid))
  \/ /\ UNCHANGED slipVars
     /\ \/ \E wanted \in SUBSET ({a1} \ Of(Unbought)) : Match(wanted)
        \/ ShippingOn(o1, u1)
        \/ slipOf[a1] = b1 /\ (PurchaseCancel(a1) \/ PurchaseUncancel(a1))

\* one machine, one order with its options, two sizes of one part
PartScene ==
  \/ \E wanted \in SUBSET {a1} :
       /\ Match(wanted)
       /\ PartsOnMatch(o1, wanted \ AssetsOf(o1), AssetsOf(o1) \ wanted)
  \/ Cancel(o1, FALSE) /\ PartsOnCancel(o1)
  \/ RestoreCancel(o1) /\ UNCHANGED partVars
  \/ /\ UNCHANGED recordVars
     /\ \/ \E x \in {1, Sold} : TickOption(o1, x) \/ UntickOption(o1, x)
        \/ PartUse(o1, a1, 2, FALSE) \/ PartUseAhead(o1, 2, FALSE)
        \/ AddRepair(a1, 2, TRUE)
        \/ \E i \in DOMAIN repairs : DeleteRepair(i)
        \/ BaseSpecApply(a1)
        \/ /\ repairs = << >> /\ ticked = {}
           /\ \/ \E used \in {{}, {2}} : SaveTicketItems(t1, used)
              \/ WriteSpec(a1, << >>)
              \/ PricePart(1)
              \/ supplied[2] = 1 /\ StockParts(2, 1)
              \/ supplied[2] = 2 /\ StockParts(2, -1)

\* one machine, a slip made here, a slip of TMS and an order
SaleScene ==
  \/ \E s \in Sales, restock \in BOOLEAN :
       \/ CreateSale(s, {}) \/ CreateSale(s, {a1}) \/ AddLines(s, {a1})
       \/ \E stage \in {"live", "returned"}, paid \in BOOLEAN : EditHead(s, stage, paid)
       \/ EditLine(s, a1) \/ UndoLine(s, a1)
       \/ \E stage \in Dead : DropLine(s, a1, stage, restock)
       \/ CancelSale(s, restock) \/ UncancelSale(s)
  \/ \E s \in TmsSales, stage \in SaleStages \ {"none"} :
       \/ TmsLine(s, a1, stage)
       \/ \E paid \in BOOLEAN : TmsHead(s, stage, paid)
  \/ PutBack(a1) \/ Dismiss(a1)
  \/ /\ UNCHANGED saleVars
     /\ ((\E wanted \in SUBSET {a1} : Match(wanted)) \/ ShippingOn(o1, u1))

\* two machines, one request; TMS types a number of its own and one of ours
NumberScene ==
  \/ \E r \in Requests :
       \/ \E n \in 0..LastNo, reached \in BOOLEAN : Ask(r, n, reached)
       \/ Refuse(r) \/ IssueNo(r)
       \/ \E u \in Units :
            \/ RegisterNext(r, u)
            \/ \E n \in Numbers : RegisterTyped(r, u, n) \/ FixTakeFree(r, u, n)
            \/ \E v \in Units : FixTake(r, u, v)
  \/ \E u, v \in Units : FixSwap(u, v)
  \/ \E n \in {1, FirstNo + 1}, says \in {"none", "ok", "gone"} : TmsTypes(n, says)

HouseNext ==
  /\ UNCHANGED scene
  /\ \/ /\ scene = "handover" /\ HandoverScene
        /\ UNCHANGED <<slipVars, partVars, saleVars, numberVars>>
     \/ /\ scene = "slips" /\ SlipScene
        /\ UNCHANGED <<transferVars, partVars, saleVars, numberVars>>
     \/ /\ scene = "parts" /\ PartScene
        /\ UNCHANGED <<transferVars, slipVars, saleVars, numberVars>>
     \/ /\ scene = "sales" /\ SaleScene
        /\ UNCHANGED <<transferVars, slipVars, partVars, numberVars>>
     \/ /\ scene = "numbers" /\ NumberScene
        /\ UNCHANGED <<recordVars, transferVars, slipVars, partVars, saleVars>>

HouseSpec == HouseInit /\ [][HouseNext]_houseVars
-----------------------------------------------------------------------------
\* The rows of the purchase house are rows its tables can hold; what is paid for a slip never
\* falls below nothing, whatever total and amount were typed beside the payments (add_payment)
HouseOK == TransfersOK /\ SlipsOK /\ PartsLedgerOK /\ SalesOK /\ NumbersOK
=============================================================================
