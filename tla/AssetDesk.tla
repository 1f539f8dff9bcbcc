----------------------------- MODULE AssetDesk ------------------------------
(***************************************************************************)
(* What the purchase screens do to the status of one asset:                *)
(* app/purchase/__init__.py update_asset, bulk_assets, bulk_stock_listing, *)
(* assets_purchase_cancel / _uncancel, asset_restock, confirm_batch.  A    *)
(* bulk request treats its assets one after another by the same rules.     *)
(* Specification texts, prices, numbers and the event log are left out.    *)
(***************************************************************************)
EXTENDS OwsState

AssetOnly == UNCHANGED <<orderVars, link, prebuild, waybill, tracking, ticket>>

\* a status an order or a recall gave is not changed by hand
ChangeStatus(a, s) ==
  /\ s # status[a]
  /\ status[a] \notin {"reserved", "shipped", "returning"}
  /\ status' = [status EXCEPT ![a] = s]
  /\ listed' = IF s \in Available THEN listed ELSE listed \ {a}
  /\ UNCHANGED <<provisional, received, before>>
  /\ AssetOnly

ChangeTier(a) ==
  /\ provisional' = IF a \in provisional THEN provisional \ {a} ELSE provisional \cup {a}
  /\ UNCHANGED <<status, listed, received, before>>
  /\ AssetOnly

\* the stock switch looks at the division and the product code, never at the status
ChangeListing(a) ==
  /\ listed' = IF a \in listed THEN listed \ {a} ELSE listed \cup {a}
  /\ UNCHANGED <<status, provisional, received, before>>
  /\ AssetOnly

Cancelable == {"in_stock", "refurbishing", "ready", "repair", "as", "painting", "defective",
               "returned"}

PurchaseCancel(a) ==
  /\ status[a] \in Cancelable
  /\ LiveHolders(a) = {}
  /\ status' = [status EXCEPT ![a] = "cancelled"]
  /\ before' = [before EXCEPT ![a] = status[a]]
  /\ listed' = listed \ {a}
  /\ UNCHANGED <<provisional, received>>
  /\ AssetOnly

PurchaseUncancel(a) ==
  /\ status[a] = "cancelled"
  /\ status' = [status EXCEPT ![a] = before[a]]
  /\ UNCHANGED <<listed, provisional, received, before>>
  /\ AssetOnly

\* a machine that came back is put in stock whoever its order is
Restock(a) ==
  /\ status[a] \in {"shipped", "scrapped"}
  /\ status' = [status EXCEPT ![a] = "in_stock"]
  /\ provisional' = provisional \ {a}
  /\ received' = received \cup {a}
  /\ UNCHANGED <<listed, before>>
  /\ AssetOnly

\* confirm_batch: the assets of a provisional slip have arrived
Receive(S) ==
  /\ S \cap received = {}
  /\ received' = received \cup S
  /\ UNCHANGED <<status, listed, provisional, before>>
  /\ AssetOnly

AssetNext ==
  \/ \E a \in Assets :
       \/ \E s \in HandStatuses : ChangeStatus(a, s)
       \/ ChangeTier(a) \/ ChangeListing(a)
       \/ PurchaseCancel(a) \/ PurchaseUncancel(a) \/ Restock(a)
  \/ \E S \in SUBSET Assets \ {{}} : Receive(S)
=============================================================================
