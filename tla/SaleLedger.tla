----------------------------- MODULE SaleLedger -----------------------------
(***************************************************************************)
(* Sale slips and their lines: app/purchase/sale_entry.py (slips made and  *)
(* edited here) and app/purchase/sales.py (slips that follow the old       *)
(* system, TMS).  One line is one machine on one slip.  A slip or line     *)
(* touched here is protected from TMS; money, texts and dates are left     *)
(* out, and '판매' and '판매완료' are one live stage.                      *)
(***************************************************************************)
EXTENDS OwsState

CONSTANTS
  OwsSales,     \* sale_slips with source = 'ows'
  TmsSales,     \* the others
  Rentals,      \* assets of the rental division
  TmsRevives    \* whether TMS takes up a cancelled sale again, or adds a line to one

ASSUME SalesAreApart == OwsSales \cap TmsSales = {} /\ TmsRevives \in BOOLEAN
ASSUME RentalsAreAssets == Rentals \subseteq Assets

VARIABLES
  sale,      \* sale_slips
  line,      \* tms_sales, by slip and machine
  comeback   \* the last of the events '복귀후보', '복귀후보종결', '재고복귀' of an asset

saleVars == <<sale, line, comeback>>

Sales == OwsSales \cup TmsSales
SaleStages == {"none", "live", "returned", "cancelled"}
NoSale == [stage |-> "none", prev |-> "live", edited |-> FALSE, dated |-> FALSE, paid |-> FALSE]
NoLine == [stage |-> "none", kind |-> "", own |-> FALSE, edited |-> FALSE]

SalesOK ==
  /\ sale \in [Sales -> [stage : SaleStages, prev : SaleStages, edited : BOOLEAN,
                         dated : BOOLEAN, paid : BOOLEAN]]
  /\ line \in [Sales -> [Assets -> [stage : SaleStages, kind : {"", "line", "slip"},
                                    own : BOOLEAN, edited : BOOLEAN]]]
  /\ comeback \in [Assets -> {"none", "open", "closed"}]

LinesOf(s)    == {a \in Assets : line[s][a].stage = "live"}
Selling(a)    == {s \in Sales : a \in LinesOf(s) /\ sale[s].stage # "cancelled"}
OpenSale(s)   == sale[s].stage \in {"live", "returned"}
SellableFrom  == {"in_stock", "refurbishing", "repair", "as", "painting", "defective", "ready"}

\* _check_asset: a machine that is here, ours, and sold to nobody
CanSell(a) ==
  /\ a \notin Rentals
  /\ status[a] \notin {"cancelled", "returned", "scrapped", "reserved", "returning"}
  /\ Holders(a) = {}
  /\ a \in received
  /\ Selling(a) = {}

\* _ship_asset, _restore_asset: sold machines are out, and off the malls
SoldOut(S) ==
  /\ status' = [a \in Assets |-> IF a \in S /\ status[a] \in SellableFrom THEN "shipped"
                                 ELSE status[a]]
  /\ listed' = listed \ S
  /\ UNCHANGED <<orderVars, provisional, received, before, link, prebuild, waybill, tracking,
                 ticket>>

\* _recompute: a slip of ours whose lines all came back, one at least as a return, is a return
Stage(lines) ==
  IF /\ \A a \in Assets : lines[a].stage # "live"
     /\ \E a \in Assets : lines[a].stage = "returned"
  THEN "returned" ELSE "live"

Touched(s, lines) ==
  /\ line' = [line EXCEPT ![s] = lines]
  /\ sale' = [sale EXCEPT ![s].edited = TRUE,
                          ![s].stage = IF s \in OwsSales THEN Stage(lines) ELSE @]
-----------------------------------------------------------------------------
(***************************************************************************)
(* Slips made and edited here                                              *)
(***************************************************************************)
WithLines(s, S) ==
  [a \in Assets |-> IF a \in S THEN [NoLine EXCEPT !.stage = "live", !.own = TRUE, !.edited = TRUE]
                    ELSE line[s][a]]

\* all machines or none; without one, an amount was typed
CreateSale(s, S) ==
  /\ s \in OwsSales /\ sale[s].stage = "none"
  /\ \A a \in S : CanSell(a)
  /\ line' = [line EXCEPT ![s] = WithLines(s, S)]
  /\ sale' = [sale EXCEPT ![s] = [NoSale EXCEPT !.stage = "live", !.edited = TRUE]]
  /\ SoldOut(S)
  /\ UNCHANGED comeback

\* a machine that has a line on the slip, dead or alive, cannot get a second one
AddLines(s, S) ==
  /\ OpenSale(s)
  /\ \A a \in S : CanSell(a) /\ line[s][a].stage = "none"
  /\ Touched(s, WithLines(s, S))
  /\ SoldOut(S)
  /\ UNCHANGED comeback

\* sale_slip_update: the payment columns only on a slip of ours, the stage only on one of TMS
EditHead(s, stage, paid) ==
  /\ OpenSale(s)
  /\ s \in OwsSales => stage = sale[s].stage
  /\ s \in TmsSales => paid = sale[s].paid
  /\ sale' = [sale EXCEPT ![s].edited = TRUE, ![s].paid = paid,
                ![s].stage = IF s \in OwsSales THEN Stage(line[s]) ELSE stage]
  /\ UNCHANGED <<recordVars, line, comeback>>

EditLine(s, a) ==
  /\ OpenSale(s) /\ a \in LinesOf(s)
  /\ Touched(s, [line[s] EXCEPT ![a].edited = TRUE])
  /\ UNCHANGED <<recordVars, comeback>>

\* _release_asset: back in stock when staff say so, else a candidate for it
LetGo(S, restock) ==
  LET out == {a \in S : status[a] \in {"shipped", "scrapped"} /\ Holders(a) = {}}
      back == IF restock THEN out ELSE {} IN
  /\ status' = [a \in Assets |-> IF a \in back THEN "in_stock" ELSE status[a]]
  /\ provisional' = provisional \ back
  /\ received' = received \cup back
  /\ comeback' = [a \in Assets |-> IF a \in back THEN "none"
                                   ELSE IF a \in out /\ comeback[a] = "none" THEN "open"
                                   ELSE comeback[a]]
  /\ UNCHANGED <<orderVars, listed, before, link, prebuild, waybill, tracking, ticket>>

\* one line is cancelled, or its machine came back
DropLine(s, a, stage, restock) ==
  /\ OpenSale(s) /\ a \in LinesOf(s)
  /\ Touched(s, [line[s] EXCEPT ![a].stage = stage, ![a].edited = TRUE,
                                ![a].kind = IF stage = "cancelled" THEN "line" ELSE @])
  /\ LetGo({a}, restock)

CancelSale(s, restock) ==
  /\ OpenSale(s)
  /\ sale' = [sale EXCEPT ![s].stage = "cancelled", ![s].prev = sale[s].stage,
                          ![s].edited = TRUE, ![s].dated = TRUE]
  /\ line' = [line EXCEPT ![s] = [a \in Assets |->
                IF a \in LinesOf(s)
                THEN [@[a] EXCEPT !.stage = "cancelled", !.kind = "slip", !.edited = TRUE]
                ELSE @[a]]]
  /\ LetGo(LinesOf(s), restock)

\* _restore_guard: nobody else has the machine by now
Restorable(s, a) ==
  /\ a \notin Rentals
  /\ status[a] \notin {"cancelled", "returned", "reserved", "returning"}
  /\ Holders(a) = {}
  /\ Selling(a) \ {s} = {}

Revived(s, S) ==
  [a \in Assets |-> IF a \in S THEN [line[s][a] EXCEPT !.stage = "live", !.kind = "", !.edited = TRUE]
                    ELSE line[s][a]]
\* the sale stands again: an open candidate is closed
Resold(S) ==
  /\ SoldOut(S)
  /\ comeback' = [a \in Assets |-> IF a \in S /\ comeback[a] = "open" THEN "closed" ELSE comeback[a]]

\* only what was cancelled here, with the lines that went with the slip; one machine that is
\* taken stops it all
UncancelSale(s) ==
  LET S == {a \in Assets : line[s][a].stage = "cancelled" /\ line[s][a].kind = "slip"} IN
  /\ sale[s].stage = "cancelled" /\ sale[s].dated
  /\ s \in OwsSales \/ sale[s].edited
  /\ \A a \in S : Restorable(s, a)
  /\ line' = [line EXCEPT ![s] = Revived(s, S)]
  /\ sale' = [sale EXCEPT ![s].edited = TRUE, ![s].dated = FALSE, ![s].prev = "live",
                ![s].stage = IF s \in OwsSales THEN Stage(Revived(s, S)) ELSE sale[s].prev]
  /\ Resold(S)

\* _undo_line: a return, or a cancel of this line alone
UndoLine(s, a) ==
  /\ OpenSale(s)
  /\ line[s][a].stage \in {"returned", "cancelled"} /\ line[s][a].edited
  /\ line[s][a].stage = "cancelled" => line[s][a].kind # "slip"
  /\ Restorable(s, a)
  /\ Touched(s, Revived(s, {a}))
  /\ Resold({a})
-----------------------------------------------------------------------------
(***************************************************************************)
(* Slips that come from TMS                                                *)
(***************************************************************************)
\* a line counts again: out of Dead, or its slip no more cancelled
Revives(dead, from, to) == from \in dead /\ to \notin dead
MayFollow(dead, from, to) == Revives(dead, from, to) => TmsRevives
Dead == {"returned", "cancelled"}

TmsLineUnasked(s, a, stage) ==                                        \* mutant
  /\ MayFollow(Dead, line[s][a].stage, stage)
  /\ line[s][a].stage = "none" /\ sale[s].stage = "cancelled" => TmsRevives
  /\ ~line[s][a].edited
  /\ line' = [line EXCEPT ![s][a].stage = stage]
  /\ UNCHANGED <<recordVars, sale, comeback>>
\* upsert_asset_sales: no new line for a machine sold on a line of ours, no change to a line
\* edited here, and any other line follows
TmsLine(s, a, stage) ==
  /\ s \in TmsSales
  /\ MayFollow(Dead, line[s][a].stage, stage)
  /\ line[s][a].stage = "none" /\ sale[s].stage = "cancelled" => TmsRevives
  /\ ~line[s][a].edited
  /\ line[s][a].stage = "none" => \A t \in Sales : ~(line[t][a].own /\ a \in LinesOf(t))
  /\ line' = [line EXCEPT ![s][a].stage = stage]
  /\ UNCHANGED <<recordVars, sale, comeback>>

\* apply_sale_slips: a slip edited here follows TMS in its payment alone
TmsHead(s, stage, paid) ==
  /\ s \in TmsSales
  /\ MayFollow({"cancelled"}, sale[s].stage, stage)
  /\ sale' = IF sale[s].edited THEN [sale EXCEPT ![s].paid = paid]
             ELSE [sale EXCEPT ![s].stage = stage, ![s].paid = paid]
  /\ UNCHANGED <<recordVars, line, comeback>>

\* asset_restock: the candidate is inspected and back, or dismissed
PutBack(a) ==
  /\ status[a] \in {"shipped", "scrapped"}
  /\ status' = [status EXCEPT ![a] = "in_stock"]
  /\ provisional' = provisional \ {a}
  /\ received' = received \cup {a}
  /\ comeback' = [comeback EXCEPT ![a] = "none"]
  /\ UNCHANGED <<orderVars, listed, before, link, prebuild, waybill, tracking, ticket, sale, line>>

Dismiss(a) ==
  /\ comeback' = [comeback EXCEPT ![a] = "closed"]
  /\ UNCHANGED <<recordVars, sale, line>>

SaleNext ==
  \/ \E s \in Sales, restock \in BOOLEAN :
       \/ \E S \in SUBSET Assets : CreateSale(s, S) \/ (S # {} /\ AddLines(s, S))
       \/ \E stage \in {"live", "returned"}, paid \in BOOLEAN : EditHead(s, stage, paid)
       \/ \E a \in Assets : \/ EditLine(s, a) \/ UndoLine(s, a)
                            \/ \E stage \in Dead : DropLine(s, a, stage, restock)
       \/ CancelSale(s, restock) \/ UncancelSale(s)
  \/ \E s \in TmsSales, stage \in SaleStages \ {"none"} :
       \/ \E a \in Assets : TmsLine(s, a, stage)
       \/ \E paid \in BOOLEAN : TmsHead(s, stage, paid)
  \/ \E a \in Assets : PutBack(a) \/ Dismiss(a)

SaleInit ==
  /\ sale = [s \in Sales |-> NoSale]
  /\ line = [s \in Sales |-> [a \in Assets |-> NoLine]]
  /\ comeback = [a \in Assets |-> "none"]

\* whatever the desks do to the machines beside
SaleSpec == SaleInit /\ [][SaleNext]_saleVars
-----------------------------------------------------------------------------
\* A machine sold on a slip of this program is on no other living line, however slips are
\* cancelled, returned and taken up again here and whatever TMS sends meanwhile, as long as TMS
\* does not take up a dead sale of its own (upsert_asset_sales, _restore_guard)
SoldOnOneSlip ==
  \A a \in Assets : \A s \in Selling(a) : line[s][a].own => Selling(a) = {s}
=============================================================================
