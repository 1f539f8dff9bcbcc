----------------------------- MODULE OrderBoard -----------------------------
(***************************************************************************)
(* The handlers of app/orders/__init__.py that move an order through its   *)
(* stages and tie assets to it: PATCH /orders/<oid>, POST /orders/bulk     *)
(* (the same per-row rules, one row after another), POST /orders/ship-today*)
(* and the option check of app/prep.  Order texts, amounts, option parts   *)
(* and the event log are left out; the push of an invoice to the mall that *)
(* follows a shipping check runs outside the transaction.                  *)
(***************************************************************************)
EXTENDS OwsState

\* _stage_check refuses every stage of a cancelled or an archived order
Stageable(o) == Live(o)

ClaimedByProducer(o, u) ==                                            \* mutant
  "preparing" \in stages[o] /\ by[o]["production"] \notin {NoOne, u} /\ u \notin Admins
\* another worker has claimed the order by checking 'preparing'
Claimed(o, u) ==
  /\ "preparing" \in stages[o]
  /\ by[o]["preparing"] \notin {NoOne, u}
  /\ u \notin Admins

PreparingOn(o, u) ==
  /\ Stageable(o)
  /\ ~Claimed(o, u)
  /\ "production" \notin stages[o]
  /\ stages' = [stages EXCEPT ![o] = @ \cup {"preparing"}]
  /\ by' = [by EXCEPT ![o]["preparing"] = u]
  /\ UNCHANGED <<marks, unpicked, assetVars, link, prebuild, waybill, tracking, ticket>>

PreparingOff(o, u) ==
  /\ Stageable(o)
  /\ ~Claimed(o, u)
  /\ stages' = [stages EXCEPT ![o] = @ \ {"preparing"}]
  /\ UNCHANGED <<by, marks, unpicked, assetVars, link, prebuild, waybill, tracking, ticket>>

\* the credit of a prebuild is void once its reworked machine is produced again
ProductionOn(o, u) ==
  /\ Stageable(o)
  /\ ~Claimed(o, u)
  /\ o \notin unpicked
  /\ stages' = [stages EXCEPT ![o] = (@ \ {"preparing"}) \cup {"production"}]
  /\ by' = [by EXCEPT ![o]["production"] = u]
  /\ prebuild' = [a \in Assets |-> IF prebuild[a].usedBy = o /\ prebuild[a].rework
                                   THEN [prebuild[a] EXCEPT !.voided = TRUE] ELSE prebuild[a]]
  /\ UNCHANGED <<marks, unpicked, assetVars, link, waybill, tracking, ticket>>

ProductionOffInspected(o) ==                                          \* mutant
  /\ Stageable(o)
  /\ stages' = [stages EXCEPT ![o] = @ \ {"production"}]
  /\ UNCHANGED <<by, marks, unpicked, assetVars, link, prebuild, waybill, tracking, ticket>>
ProductionOff(o) ==
  /\ Stageable(o)
  /\ "inspection" \notin stages[o]
  /\ stages' = [stages EXCEPT ![o] = @ \ {"production"}]
  /\ prebuild' = [a \in Assets |-> IF prebuild[a].usedBy = o /\ prebuild[a].rework
                                   THEN [prebuild[a] EXCEPT !.voided = FALSE] ELSE prebuild[a]]
  /\ UNCHANGED <<by, marks, unpicked, assetVars, link, waybill, tracking, ticket>>

InspectionOn(o, u) ==
  /\ Stageable(o)
  /\ "production" \in stages[o]
  /\ stages' = [stages EXCEPT ![o] = @ \cup {"inspection"}]
  /\ by' = [by EXCEPT ![o]["inspection"] = u]
  /\ UNCHANGED <<marks, unpicked, assetVars, link, prebuild, waybill, tracking, ticket>>

\* the assets of o that are 'shipped' are 'reserved' again
Unshipped(o) ==
  [a \in Assets |-> IF a \in AssetsOf(o) /\ status[a] = "shipped" THEN "reserved" ELSE status[a]]

\* taking the inspection back takes the shipping check back with it
InspectionOff(o) ==
  /\ Stageable(o)
  /\ status' = IF Shipped(o) THEN Unshipped(o) ELSE status
  /\ stages' = [stages EXCEPT ![o] = @ \ {"inspection", "shipping"}]
  /\ UNCHANGED <<by, marks, unpicked, listed, provisional, received, before, link, prebuild,
                 waybill, tracking, ticket>>

ShipAssetsUnlisted(S) ==                                              \* mutant
  status' = status /\ listed' = listed \ UNION {AssetsOf(o) : o \in S}
\* every asset of the orders in S goes out: 'shipped', and off the malls' stock (_unlist)
ShipAssets(S) ==
  LET gone == UNION {AssetsOf(o) : o \in S} IN
  /\ status' = [a \in Assets |-> IF a \in gone THEN "shipped" ELSE status[a]]
  /\ listed' = listed \ gone

ShippingOn(o, u) ==
  /\ Stageable(o)
  /\ {"production", "inspection"} \subseteq stages[o]
  /\ AssetsOf(o) \cap provisional = {}
  /\ stages' = [stages EXCEPT ![o] = @ \cup {"shipping"}]
  /\ by' = [by EXCEPT ![o]["shipping"] = IF @ = NoOne THEN u ELSE @]
  /\ ShipAssets({o})
  /\ UNCHANGED <<marks, unpicked, provisional, received, before, link, prebuild, waybill,
                 tracking, ticket>>

ShippingOff(o) ==
  /\ Stageable(o)
  /\ stages' = [stages EXCEPT ![o] = @ \ {"shipping"}]
  /\ status' = Unshipped(o)
  /\ UNCHANGED <<by, marks, unpicked, listed, provisional, received, before, link, prebuild,
                 waybill, tracking, ticket>>

\* ship_today closes the inspected orders among the ids the screen sends
ShipToday(S, u) ==
  /\ \A o \in S : Live(o) /\ ~Shipped(o) /\ "inspection" \in stages[o]
  /\ stages' = [o \in Orders |-> IF o \in S THEN stages[o] \cup {"shipping"} ELSE stages[o]]
  /\ by' = [o \in Orders |-> IF o \in S THEN [by[o] EXCEPT !["shipping"] = u] ELSE by[o]]
  /\ ShipAssets(S)
  /\ UNCHANGED <<marks, unpicked, provisional, received, before, link, prebuild, waybill,
                 tracking, ticket>>
-----------------------------------------------------------------------------
(***************************************************************************)
(* Matching assets (_set_order_assets): all checks come before any write   *)
(***************************************************************************)

\* a ticket the guard looks for; 'arrived' is not among the statuses it names
UnderRepair(a) ==
  \E t \in Tickets : /\ ticket[t].asset = a
                     /\ ticket[t].status \in {"received", "collecting", "repairing", "done"}

Matchable(o, a, force) ==
  /\ a \in received
  /\ \/ status[a] \in Available
     \/ AllowDuplicate /\ Holders(a) # {}
     \/ force /\ status[a] \in Forceable /\ Holders(a) = {}
  /\ ~UnderRepair(a)
  /\ AllowDuplicate \/ LiveHolders(a) \ {o} = {}

\* prebuilt and ready: matching the asset uses the prebuild up
Usable(a) == /\ prebuild[a].row /\ "ready" \in prebuild[a].done
             /\ prebuild[a].usedBy = NoOrder

\* The order takes over the stages of a prebuild whose specification fits; of several
\* added at once the last in id order, last, leaves its workers' names.  Of several
\* dropped at once the last to go, gone, decides whether the stages fall back.
SetOrderAssets(o, wanted, force, misfits, last, gone) ==
  LET add    == wanted \ AssetsOf(o)
      drop   == AssetsOf(o) \ wanted
      used   == {a \in add : Usable(a)}
      fits   == used \ misfits
      freed  == {a \in drop : prebuild[a].usedBy = o}
      made   == IF fits = {} THEN by[o]
                ELSE [by[o] EXCEPT !["production"] = prebuild[last].producer,
                                   !["inspection"] = prebuild[last].inspector]
      undone == /\ freed # {}
                /\ made["production"] = prebuild[gone].producer
                /\ made["inspection"] = prebuild[gone].inspector
                /\ \A a \in Assets \ freed : a \notin used /\ prebuild[a].usedBy # o
  IN
  /\ Live(o)
  /\ ~Shipped(o)
  /\ ForwardOf(o, OpenStatus) = {}
  /\ \A a \in add : Matchable(o, a, force)
  /\ fits # {} => last \in fits
  /\ freed # {} => gone \in freed
  /\ link' = [link EXCEPT ![o] = [a \in Assets |-> IF a \in add THEN status[a]
                                                   ELSE IF a \in drop THEN Unlinked ELSE @[a]]]
  /\ status' = [a \in Assets |-> IF a \in add THEN "reserved" ELSE Released(o, drop)[a]]
  /\ prebuild' = [a \in Assets |->
       IF a \in used
       THEN [prebuild[a] EXCEPT !.usedBy = o, !.voided = FALSE, !.rework = (a \in misfits)]
       ELSE IF a \in freed THEN Freed(prebuild[a]) ELSE prebuild[a]]
  /\ stages' = [stages EXCEPT ![o] = IF undone THEN @ \ {"production", "inspection"}
                                     ELSE IF fits = {} THEN @
                                     ELSE (@ \ {"preparing"}) \cup {"production", "inspection"}]
  /\ by' = [by EXCEPT ![o] = IF undone THEN [made EXCEPT !["production"] = NoOne,
                                                         !["inspection"] = NoOne]
                             ELSE made]
  /\ UNCHANGED <<marks, unpicked, listed, provisional, received, before, waybill, tracking,
                 ticket>>

\* action prebuildRework: the machine is to be built again to another specification
PrebuildRework(o, a) ==
  /\ ~Shipped(o)
  /\ prebuild[a].usedBy = o
  /\ prebuild' = [prebuild EXCEPT ![a].rework = TRUE, ![a].voided = FALSE]
  /\ stages' = [stages EXCEPT ![o] = @ \ {"production", "inspection", "preparing"}]
  /\ by' = [by EXCEPT ![o]["production"] = NoOne, ![o]["inspection"] = NoOne]
  /\ UNCHANGED <<marks, unpicked, assetVars, link, waybill, tracking, ticket>>
-----------------------------------------------------------------------------
(***************************************************************************)
(* Cancelling, archiving and the option check                              *)
(***************************************************************************)

\* the open waybill the cancel guard asks about; a 'pending' one is not looked for
Uncollected(o) == {w \in ForwardOf(o, {"issued", "test"}) : waybill[w].stage = ""}

\* LIMIT 1 lets the code look at any one of several open forward waybills
Cancel(o, force) ==
  /\ ~Archived(o)
  /\ \/ force
     \/ ForwardOf(o, {"issued", "test"}) \ Uncollected(o) # {}
     \/ Uncollected(o) = {}
  /\ marks' = [marks EXCEPT ![o] = @ \cup {"cancelled"}]
  /\ stages' = [stages EXCEPT ![o] = @ \ {"preparing"}]
  /\ status' = Released(o, AssetsOf(o))
  /\ prebuild' = [a \in Assets |-> IF prebuild[a].usedBy = o THEN Freed(prebuild[a])
                                   ELSE prebuild[a]]
  /\ link' = Unlink(o, Assets)
  /\ UNCHANGED <<by, unpicked, listed, provisional, received, before, waybill, tracking, ticket>>

RestoreCancel(o) ==
  /\ Cancelled(o)
  /\ marks' = [marks EXCEPT ![o] = @ \ {"cancelled"}]
  /\ UNCHANGED <<stages, by, unpicked, assetVars, link, prebuild, waybill, tracking, ticket>>

SetDelivered(o, value) ==
  /\ marks' = [marks EXCEPT ![o] = IF value THEN @ \cup {"delivered"} ELSE @ \ {"delivered"}]
  /\ UNCHANGED <<stages, by, unpicked, assetVars, link, prebuild, waybill, tracking, ticket>>

Archive(o) ==
  /\ Shipped(o) \/ marks[o] \cap {"cancelled", "delivered"} # {}
  /\ marks' = [marks EXCEPT ![o] = @ \cup {"archived"}]
  /\ UNCHANGED <<stages, by, unpicked, assetVars, link, prebuild, waybill, tracking, ticket>>

Unarchive(o) ==
  /\ marks' = [marks EXCEPT ![o] = @ \ {"archived"}]
  /\ UNCHANGED <<stages, by, unpicked, assetVars, link, prebuild, waybill, tracking, ticket>>

\* toggle_check ticks the last unticked option of o, or unticks one
PickOption(o, checked) ==
  /\ Live(o)
  /\ checked \/ ~Shipped(o)
  /\ unpicked' = IF checked THEN unpicked \ {o} ELSE unpicked \cup {o}
  /\ UNCHANGED <<stages, marks, by, assetVars, link, prebuild, waybill, tracking, ticket>>
-----------------------------------------------------------------------------
StageStep(o, u) ==
  \/ PreparingOn(o, u) \/ PreparingOff(o, u)
  \/ ProductionOn(o, u) \/ ProductionOff(o)
  \/ InspectionOn(o, u) \/ InspectionOff(o)
  \/ ShippingOn(o, u) \/ ShippingOff(o)

MatchStep(o) ==
  \/ \E wanted, misfits \in SUBSET Assets, force \in BOOLEAN, last, gone \in Assets :
       SetOrderAssets(o, wanted, force, misfits, last, gone)
  \/ \E a \in Assets : PrebuildRework(o, a)

MarkStep(o) ==
  \/ \E force \in BOOLEAN : Cancel(o, force)
  \/ RestoreCancel(o) \/ Archive(o) \/ Unarchive(o)
  \/ \E value \in BOOLEAN : SetDelivered(o, value) \/ PickOption(o, value)

BoardNext ==
  \/ \E o \in Orders : \/ \E u \in Users : StageStep(o, u)
                       \/ MatchStep(o)
                       \/ MarkStep(o)
  \/ \E S \in SUBSET Orders \ {{}}, u \in Users : ShipToday(S, u)
=============================================================================
