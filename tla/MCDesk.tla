------------------------------- MODULE MCDesk --------------------------------
(***************************************************************************)
(* The order desk in two scenes: one order, two machines that look alike,  *)
(* a worker and an administrator (stages, matching, prebuilds); and two    *)
(* inspected orders that want the same machine, beside the purchase        *)
(* screens.                                                                *)
(***************************************************************************)
EXTENDS Desk, MCStart, TLC

CONSTANTS o1, o2, a1, a2, u1, u2

VARIABLE wantedBy2   \* the machine both orders want; NoAsset in the first scene

deskVars == <<recordVars, wantedBy2>>

\* bound: in the first scene the machines have been received and are not provisional, and the
\* second order, which rests, has no option; in the second scene both orders are inspected by
\* u1 and their options picked, and the machines are bought, received or not
DeskInit ==
  \/ wantedBy2 = NoAsset /\ Init /\ provisional = {} /\ received = Assets /\ o2 \notin unpicked
  \/ /\ wantedBy2 \in Assets
     /\ StartAt(Inspected, u1, Unlinked, "in_stock") /\ NoTickets
     /\ received \in {Assets, {}}

\* a specification can differ only from that of a prebuild the order takes; force matters to
\* duplicates, of which one order has none
MatchAlone(o) ==
  \E wanted \in SUBSET Assets :
    \E misfits \in SUBSET {a \in wanted \ AssetsOf(o) : Usable(a)}, last, gone \in Assets :
      SetOrderAssets(o, wanted, FALSE, misfits, last, gone)

OrderStep(o) ==
  \/ \E u \in Users : StageStep(o, u) \/ ShipToday({o}, u)
  \/ MatchAlone(o)
  \/ \E a \in Assets : PrebuildRework(o, a)
  \/ Cancel(o, TRUE) \/ RestoreCancel(o) \/ Archive(o) \/ Unarchive(o)
  \/ \E value \in BOOLEAN : SetDelivered(o, value) \/ PickOption(o, value)

\* bound: prebuilds are produced by either of the two and inspected by u2
BuildStep(a) ==
  \/ CreatePrebuild(a) \/ DeletePrebuild(a)
  \/ \E value \in BOOLEAN : \/ BuildReady(a, value)
                            \/ \E u \in Users : BuildProduction(a, u, value)
                            \/ BuildInspection(a, u2, value)

\* bound: the second order rests
StagesScene == OrderStep(o1) \/ \E a \in Assets : BuildStep(a)
-----------------------------------------------------------------------------
\* bound: no prebuilds, so what they add to a match does not matter
MatchOne(o, a) ==
  \E wanted \in SUBSET {a}, force \in BOOLEAN : SetOrderAssets(o, wanted, force, {}, a, a)

Mark(o) ==
  \/ \E force \in BOOLEAN : Cancel(o, force)
  \/ RestoreCancel(o) \/ Archive(o) \/ Unarchive(o) \/ SetDelivered(o, TRUE)

Ship ==
  \/ \E o \in Orders : ShippingOn(o, u1) \/ ShippingOff(o) \/ InspectionOff(o)
  \/ \E S \in SUBSET Orders \ {{}} : ShipToday(S, u1)

\* staff put only machines in stock again that no order holds
Careful(a) ==
  \/ \E s \in HandStatuses : ChangeStatus(a, s)
  \/ ChangeTier(a) \/ ChangeListing(a)
  \/ PurchaseCancel(a) \/ PurchaseUncancel(a)
  \/ (Holders(a) = {} /\ Restock(a))
  \/ Receive({a})

\* bound: the other machine rests
MatchScene(a) == Ship \/ (\E o \in Orders : MatchOne(o, a) \/ Mark(o)) \/ Careful(a)
-----------------------------------------------------------------------------
DeskSceneNext ==
  /\ UNCHANGED wantedBy2
  /\ \/ wantedBy2 = NoAsset /\ StagesScene
     \/ wantedBy2 # NoAsset /\ MatchScene(wantedBy2)

DeskSpec == DeskInit /\ [][DeskSceneNext]_deskVars

Alike == Permutations(Assets)
=============================================================================
