------------------------------ MODULE OwsState ------------------------------
(***************************************************************************)
(* The rows the order desk shares: orders, assets, the links between them, *)
(* the prebuilds of assets, and waybills.  Every handler runs inside one   *)
(* BEGIN IMMEDIATE transaction (app/db.py, tx), so a handler that makes no *)
(* call to another system is one step over these variables; the modules    *)
(* OrderBoard, Prebuild, AssetDesk, Waybill, Recall and AsDesk give the    *)
(* steps and Ows composes them.                                            *)
(***************************************************************************)
EXTENDS Naturals, FiniteSets

CONSTANTS
  Orders,          \* orders.id
  Assets,          \* assets.id
  Users,           \* display names of the staff
  Admins,          \* the users with is_admin
  Reviews,         \* orders with is_review: an empty box may be sent to a reviewer
  MaxWid,          \* bound: the last waybills.wid of the day (WB-<today>-NN)
  Tickets,         \* as_tickets.id
  HandStatuses,    \* bound: the statuses staff set by hand, Manual when there is none
  AllowDuplicate,  \* setting order_asset_duplicate (_allow_duplicate_asset_matching)
  NoOne,           \* an empty *_by column
  Tracker,         \* 'CJ배송추적', the name the tracker signs with
  NoOrder,         \* a NULL used_order_id / order_id
  NoAsset,         \* a NULL as_tickets.asset_id
  NoTicket         \* a NULL as_ticket_id

ASSUME AdminsAreUsers == Admins \subseteq Users
ASSUME DuplicateIsSwitch == AllowDuplicate \in BOOLEAN
ASSUME ReviewsAreOrders == Reviews \subseteq Orders
ASSUME BoundsAreNumbers == MaxWid \in Nat
ASSUME NullsAreNotRows == /\ {NoOne, Tracker} \cap Users = {} /\ NoOrder \notin Orders
                          /\ NoAsset \notin Assets /\ NoTicket \notin Tickets

VARIABLES
  stages,       \* the *_done columns and preparing of each order that are 1
  marks,        \* cancelled_at / archived_at / delivered_at that are not ''
  by,           \* preparing_by, production_by, inspection_by, shipping_by
  unpicked,     \* orders with an option the preparer has not ticked (order_option_checks)
  link,         \* order_assets: prev_status of a linked pair, Unlinked otherwise
  status,       \* assets.status
  listed,       \* assets with stock_listed = 1
  provisional,  \* assets with tier = '가재고' (received, repair not finished)
  received,     \* assets with received = 1
  before,       \* the status the last '매입취소' (purchase cancelled) event noted for an asset
  prebuild,     \* asset_prebuilds, one row at most per asset
  waybill,      \* waybills
  tracking,     \* orders.tracking_no: the wid whose invoice it is, NoInvoice when ''
  ticket        \* as_tickets

orderVars  == <<stages, marks, by, unpicked>>
assetVars  == <<status, listed, provisional, received, before>>
recordVars == <<orderVars, assetVars, link, prebuild, waybill, tracking, ticket>>

(***************************************************************************)
(* Values                                                                  *)
(***************************************************************************)
Stages    == {"preparing", "production", "inspection", "shipping"}
Marks     == {"cancelled", "archived", "delivered"}
Signers   == Users \cup {NoOne, Tracker}

AssetStatuses == {"in_stock", "refurbishing", "repair", "as", "painting", "defective",
                  "ready", "reserved", "shipped", "returning", "scrapped", "cancelled",
                  "returned"}
Available  == {"in_stock", "refurbishing", "ready"}
Manual     == {"in_stock", "refurbishing", "repair", "as", "painting", "defective",
               "ready", "scrapped"}
Forceable  == {"shipped", "scrapped"}
Unlinked   == "unlinked"

ASSUME HandStatusesAreManual == HandStatuses \subseteq Manual

BuildSteps  == {"production", "inspection", "ready"}
NoPrebuild  == [row |-> FALSE, done |-> {}, producer |-> NoOne, inspector |-> NoOne,
                usedBy |-> NoOrder, rework |-> FALSE, voided |-> FALSE]
NewPrebuild == [NoPrebuild EXCEPT !.row = TRUE]
PrebuildRows ==
  [row : BOOLEAN, done : SUBSET BuildSteps, producer : Signers, inspector : Signers,
   usedBy : Orders \cup {NoOrder}, rework : BOOLEAN, voided : BOOLEAN]

Wids == 1..MaxWid
WaybillStatuses == {"none", "pending", "reserved", "issued", "test", "canceled", "delivered"}
\* cj_stage_cd: '' before any scan, "early" for 01..03, "moving" for 11..82, "91" delivered
CjStages   == {"", "early", "moving", "91"}
OpenStatusNotPending == {"issued", "test"}                          \* mutant
OpenStatus == {"issued", "test", "pending"}
\* lead: the first row of the request (the common part of cust_use_no);
\* prev: asset_ids and asset_prev of a recall
NoWaybill  == [status |-> "none", type |-> "forward", order |-> NoOrder, ticket |-> NoTicket,
               lead |-> 0, stage |-> "", invoiced |-> FALSE,
               prev |-> [a \in Assets |-> Unlinked]]
WaybillRows ==
  [status : WaybillStatuses, type : {"forward", "recall"}, order : Orders \cup {NoOrder},
   ticket : Tickets \cup {NoTicket}, lead : 0..MaxWid, stage : CjStages, invoiced : BOOLEAN,
   prev : [Assets -> AssetStatuses \cup {Unlinked}]]

TicketStatuses == {"none", "received", "collecting", "arrived", "repairing", "done",
                   "returned", "cancelled"}
NoTicketRow == [status |-> "none", asset |-> NoAsset, intake |-> "parcel",
                charge |-> "company", paid |-> FALSE]
TicketRows ==
  [status : TicketStatuses, asset : Assets \cup {NoAsset}, intake : {"parcel", "visit"},
   charge : {"company", "customer"}, paid : BOOLEAN]

NoInvoice == 0

(***************************************************************************)
(* Queries the handlers share                                              *)
(***************************************************************************)
Cancelled(o) == "cancelled" \in marks[o]
Archived(o)  == "archived" \in marks[o]
Shipped(o)   == "shipping" \in stages[o]
Live(o)      == ~Cancelled(o) /\ ~Archived(o)

AssetsOf(o)  == {a \in Assets : link[o][a] # Unlinked}
HoldersInView(a) == {o \in Orders : link[o][a] # Unlinked /\ Live(o)}  \* mutant
\* the orders a guard finds through order_assets, with and without the archived ones
Holders(a)   == {o \in Orders : link[o][a] # Unlinked /\ ~Cancelled(o)}
LiveHolders(a) == {o \in Holders(a) : ~Archived(o)}

\* waybills WHERE order_id=o AND type='forward' AND status IN (...)
ForwardOf(o, open) ==
  {w \in Wids : waybill[w].type = "forward" /\ waybill[w].order = o /\ waybill[w].status \in open}

\* the status an asset gets back when its order lets it go
Back(prev) == IF prev \in Available THEN prev ELSE "ready"

HandedOverFromRepair(S) ==                                            \* mutant
  [a \in Assets |-> IF a \in S /\ status[a] = "as" THEN "shipped" ELSE status[a]]
\* a machine of S is with its customer for good
HandedOver(S) ==
  [a \in Assets |-> IF a \in S /\ status[a] \notin {"shipped", "scrapped"}
                    THEN "shipped" ELSE status[a]]

UnlinkNothing(o, S) == link                                          \* mutant
Unlink(o, S) == [link EXCEPT ![o] = [a \in Assets |-> IF a \in S THEN Unlinked ELSE @[a]]]

ReleasedNot(o, S) == status                                           \* mutant
ReleasedAfterUnlink(o, S) ==                                          \* mutant
  [a \in Assets |-> IF a \in S /\ status[a] \in {"reserved", "shipped"}
                    THEN Unlink(o, S)[o][a] ELSE status[a]]
\* the assets of S that are reserved or shipped fall back to their prev_status in order o
Released(o, S) ==
  [a \in Assets |-> IF a \in S /\ status[a] \in {"reserved", "shipped"}
                    THEN Back(link[o][a]) ELSE status[a]]

FreedStillUsed(p) == [p EXCEPT !.rework = FALSE, !.voided = FALSE]    \* mutant
FreedStillVoid(p) == [p EXCEPT !.usedBy = NoOrder]                    \* mutant
\* a prebuild row let go by its order: used_*, credit_* and spec_change_* are cleared
Freed(p) == [p EXCEPT !.usedBy = NoOrder, !.rework = FALSE, !.voided = FALSE]

(***************************************************************************)
(* Types                                                                   *)
(***************************************************************************)
OrdersOK ==
  /\ stages \in [Orders -> SUBSET Stages]
  /\ marks \in [Orders -> SUBSET Marks]
  /\ by \in [Orders -> [Stages -> Signers]]
  /\ unpicked \in SUBSET Orders
  /\ link \in [Orders -> [Assets -> AssetStatuses \cup {Unlinked}]]
  /\ tracking \in [Orders -> Wids \cup {NoInvoice}]

AssetsOK ==
  /\ status \in [Assets -> AssetStatuses]
  /\ before \in [Assets -> AssetStatuses]
  /\ listed \in SUBSET Assets
  /\ provisional \in SUBSET Assets
  /\ received \in SUBSET Assets
  /\ prebuild \in [Assets -> PrebuildRows]

ParcelsOK ==
  /\ waybill \in [Wids -> WaybillRows]
  /\ ticket \in [Tickets -> TicketRows]

RecordsOK == OrdersOK /\ AssetsOK /\ ParcelsOK

(***************************************************************************)
(* Initial states: orders just collected from a mall, assets just bought   *)
(***************************************************************************)
Init ==
  /\ stages = [o \in Orders |-> {}]
  /\ marks = [o \in Orders |-> {}]
  /\ by = [o \in Orders |-> [s \in Stages |-> NoOne]]
  /\ unpicked \in SUBSET Orders
  /\ link = [o \in Orders |-> [a \in Assets |-> Unlinked]]
  /\ status = [a \in Assets |-> "in_stock"]
  /\ listed = {}
  /\ provisional \in SUBSET Assets
  /\ received \in {Assets, {}}
  /\ before = [a \in Assets |-> "in_stock"]
  /\ prebuild = [a \in Assets |-> NoPrebuild]
  /\ waybill = [w \in Wids |-> NoWaybill]
  /\ tracking = [o \in Orders |-> NoInvoice]
  /\ ticket = [t \in Tickets |-> NoTicketRow]
=============================================================================
