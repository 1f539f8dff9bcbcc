-------------------------------- MODULE Desk --------------------------------
(***************************************************************************)
(* The order desk without parcels: stages, matching, cancelling, prebuilds *)
(* and the purchase screens work on the same assets.  Each step is one     *)
(* write transaction; requests of several workers come in any order.       *)
(***************************************************************************)
EXTENDS OrderBoard, Prebuild, AssetDesk

Next == BoardNext \/ PrebuildNext \/ AssetNext

Spec == Init /\ [][Next]_recordVars

\* the desk where staff put a machine in stock again only when no order holds it, which
\* asset_restock leaves to them
CarefulSpec == Init /\ [][Next /\ \A a \in Assets : Restock(a) => Holders(a) = {}]_recordVars
-----------------------------------------------------------------------------
(***************************************************************************)
(* What the desk promises                                                  *)
(***************************************************************************)

\* An order is only inspected while it counts as produced: no undo, rework or change of
\* assets takes the production away under the inspection (_stage_check, _set_order_assets)
InspectedIsProduced ==
  \A o \in Orders : "inspection" \in stages[o] => "production" \in stages[o]

\* An order that went out of the desk has been inspected: no way back through the stages
\* leaves a shipped order behind
ShippedIsInspected ==
  \A o \in Orders : "shipping" \in stages[o] => "inspection" \in stages[o]

\* A cancelled order holds no machine and no prebuild (_set_order_assets refuses it, the
\* cancel branch of patch_order releases both)
CancelledHoldsNothing ==
  \A o \in Orders : Cancelled(o) => /\ AssetsOf(o) = {}
                                    /\ \A a \in Assets : prebuild[a].usedBy # o

\* A reserved machine is reserved for somebody: an order that is not cancelled links it.
\* Otherwise it would lie in the store for ever, neither sellable nor sold
ReservedIsHeld == \A a \in Assets : status[a] = "reserved" => Holders(a) # {}

\* A prebuild spent on an order belongs to a machine of that order, and was ready for it
UsedIsLinked ==
  \A a \in Assets, o \in Orders :
    prebuild[a].usedBy = o => a \in AssetsOf(o) /\ "ready" \in prebuild[a].done

\* A prebuilt machine passes its steps in order, and only a finished one is ready
PrebuildLadder ==
  \A a \in Assets : /\ "ready" \in prebuild[a].done => "inspection" \in prebuild[a].done
                    /\ "inspection" \in prebuild[a].done => "production" \in prebuild[a].done

\* The prebuilder loses the credit for a machine only to an order that still uses it and has
\* to build it again: whatever lets the machine go gives the credit back
VoidIsRework ==
  \A a \in Assets : prebuild[a].voided => prebuild[a].rework /\ prebuild[a].usedBy \in Orders

\* With order_asset_duplicate off no machine is promised to two open orders
NoDoubleSale == AllowDuplicate \/ \A a \in Assets : Cardinality(LiveHolders(a)) <= 1

\* The machines of a shipped order are not waiting in the store: every way to close an order
\* ships its machines in the same transaction, every way back reserves them again
ShippedIsOut ==
  \A o \in Orders : Shipped(o) => \A a \in AssetsOf(o) : status[a] # "reserved"

\* The production of a claimed order is signed by the worker who claimed it, by an
\* administrator, or by the builder of a prebuild the same step uses up
ClaimIsKept ==
  [][\A o \in Orders :
       LET claimant == by[o]["preparing"]
           signed   == by'[o]["production"] IN
       /\ "preparing" \in stages[o] /\ claimant # NoOne
       /\ "production" \in stages'[o] \ stages[o]
       => \/ signed \in Admins \cup {claimant}
          \/ \E a \in Assets : /\ prebuild[a].usedBy # o /\ prebuild'[a].usedBy = o
                               /\ signed = prebuild[a].producer]_recordVars

\* A machine that leaves the sellable statuses for anything but a reservation leaves the
\* malls' stock in the same transaction (_unlist): otherwise a mall sells what is not there
LeavingStockUnlists ==
  [][\A a \in Assets :
       status[a] \in Available \cup {"reserved"} /\ status'[a] \notin Available \cup {"reserved"}
       => a \notin listed']_recordVars
=============================================================================
