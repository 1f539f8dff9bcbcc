------------------------------ MODULE Prebuild ------------------------------
(***************************************************************************)
(* Building machines ahead of an order: app/orders/prebuild.py.  A prebuild*)
(* row has its own production -> inspection -> ready ladder; once an order *)
(* has used it (SetOrderAssets) the row is closed to these handlers.       *)
(***************************************************************************)
EXTENDS OwsState

PrebuildOnly ==
  UNCHANGED <<orderVars, assetVars, link, waybill, tracking, ticket>>

\* a second POST for the same asset answers with the row that is there
CreatePrebuild(a) ==
  /\ a \in received
  /\ status[a] \in Available
  /\ LiveHolders(a) = {}
  /\ ~prebuild[a].row
  /\ prebuild' = [prebuild EXCEPT ![a] = NewPrebuild]
  /\ PrebuildOnly

\* every step of update_prebuild needs a row no order has used
Editable(a) == prebuild[a].row /\ prebuild[a].usedBy = NoOrder

BuildProduction(a, u, value) ==
  /\ Editable(a)
  /\ value \/ "inspection" \notin prebuild[a].done
  /\ prebuild' = [prebuild EXCEPT
       ![a].done = IF value THEN @ \cup {"production"} ELSE @ \ {"production"},
       ![a].producer = IF value THEN u ELSE NoOne]
  /\ PrebuildOnly


BuildInspection(a, u, value) ==
  /\ Editable(a)
  /\ IF value THEN "production" \in prebuild[a].done ELSE "ready" \notin prebuild[a].done
  /\ prebuild' = [prebuild EXCEPT
       ![a].done = IF value THEN @ \cup {"inspection"} ELSE @ \ {"inspection"},
       ![a].inspector = IF value THEN u ELSE NoOne]
  /\ PrebuildOnly

BuildReady(a, value) ==
  /\ Editable(a)
  /\ value => "inspection" \in prebuild[a].done
  /\ prebuild' = [prebuild EXCEPT
       ![a].done = IF value THEN @ \cup {"ready"} ELSE @ \ {"ready"},
       ![a].voided = FALSE, ![a].rework = FALSE]
  /\ PrebuildOnly

\* action cancel of update_prebuild and delete_prebuild: both delete the row
DeletePrebuild(a) ==
  /\ Editable(a)
  /\ prebuild' = [prebuild EXCEPT ![a] = NoPrebuild]
  /\ PrebuildOnly

PrebuildNext ==
  \E a \in Assets :
    \/ CreatePrebuild(a) \/ DeletePrebuild(a)
    \/ \E value \in BOOLEAN :
         \/ BuildReady(a, value)
         \/ \E u \in Users : BuildProduction(a, u, value) \/ BuildInspection(a, u, value)
=============================================================================
