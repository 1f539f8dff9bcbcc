----------------------------- MODULE DeskProofs -----------------------------
(***************************************************************************)
(* Theorems about the order desk, for any orders, machines and workers.    *)
(***************************************************************************)
EXTENDS Desk, TLAPS, FiniteSetTheorems

\* A prebuild row that is not there, and a new one, are rows of the table
LEMMA PrebuildTyping == NoPrebuild \in PrebuildRows /\ NewPrebuild \in PrebuildRows
  BY DEF NoPrebuild, NewPrebuild, PrebuildRows, Signers

\* Using a prebuild up, freeing one and marking one for rework leave a row of the table
LEMMA PrebuildChangeTyping ==
  ASSUME NEW p \in PrebuildRows, NEW o \in Orders, NEW b \in BOOLEAN
  PROVE  /\ [p EXCEPT !.usedBy = o, !.voided = FALSE, !.rework = b] \in PrebuildRows
         /\ [p EXCEPT !.rework = TRUE, !.voided = FALSE] \in PrebuildRows
         /\ Freed(p) \in PrebuildRows
  BY DEF PrebuildRows, Freed

\* Working on the steps of a prebuild leaves a row of the table
LEMMA BuildTyping ==
  ASSUME NEW p \in PrebuildRows, NEW done \in SUBSET BuildSteps, NEW signer \in Signers
  PROVE  /\ [p EXCEPT !.done = done, !.producer = signer] \in PrebuildRows
         /\ [p EXCEPT !.done = done, !.inspector = signer] \in PrebuildRows
         /\ [p EXCEPT !.done = done, !.voided = FALSE, !.rework = FALSE] \in PrebuildRows
  BY DEF PrebuildRows

\* A waybill row that is not there is a row of the table
LEMMA WaybillTyping == NoWaybill \in WaybillRows
<1>1. NoWaybill.prev \in [Assets -> AssetStatuses \cup {Unlinked}]
  BY DEF NoWaybill
<1>2. 0 \in 0..MaxWid
  BY BoundsAreNumbers
<1>3. QED
  BY <1>1, <1>2 DEF NoWaybill, WaybillRows, WaybillStatuses, CjStages

\* The initial rows are rows of their tables
LEMMA InitTyping == Init => RecordsOK
<1> SUFFICES ASSUME Init PROVE RecordsOK
  OBVIOUS
<1>1. OrdersOK
  BY DEF Init, OrdersOK, Signers, AssetStatuses
<1>2. AssetsOK
  BY PrebuildTyping DEF Init, AssetsOK, AssetStatuses
<1>3. ParcelsOK
  BY WaybillTyping DEF Init, ParcelsOK, NoTicketRow, TicketRows, TicketStatuses
<1>4. QED
  BY <1>1, <1>2, <1>3 DEF RecordsOK

\* What Released answers is a status of every machine
LEMMA ReleasedTyping ==
  ASSUME OrdersOK, AssetsOK, NEW o \in Orders, NEW S
  PROVE  Released(o, S) \in [Assets -> AssetStatuses]
  BY DEF OrdersOK, AssetsOK, Released, Back, Available, AssetStatuses

\* What Unlink leaves is a link table
LEMMA UnlinkTyping ==
  ASSUME OrdersOK, NEW o \in Orders, NEW S
  PROVE  Unlink(o, S) \in [Orders -> [Assets -> AssetStatuses \cup {Unlinked}]]
  BY DEF OrdersOK, Unlink

\* The stage checks of an order leave rows of the tables
LEMMA StageTyping ==
  ASSUME RecordsOK, NEW o \in Orders, NEW u \in Users, StageStep(o, u)
  PROVE  RecordsOK'
<1> USE DEF RecordsOK, OrdersOK, AssetsOK, ParcelsOK, orderVars, assetVars
<1>1. CASE PreparingOn(o, u)
  BY <1>1 DEF PreparingOn, Stages, Signers
<1>2. CASE PreparingOff(o, u)
  BY <1>2 DEF PreparingOff
<1>3. CASE ProductionOn(o, u)
  BY <1>3 DEF ProductionOn, Stages, Signers, PrebuildRows
<1>4. CASE ProductionOff(o)
  BY <1>4 DEF ProductionOff, PrebuildRows
<1>5. CASE InspectionOn(o, u)
  BY <1>5 DEF InspectionOn, Stages, Signers
<1>6. CASE InspectionOff(o)
  BY <1>6 DEF InspectionOff, Unshipped, AssetStatuses
<1>7. CASE ShippingOn(o, u)
  BY <1>7 DEF ShippingOn, ShipAssets, Stages, Signers, AssetStatuses
<1>8. CASE ShippingOff(o)
  BY <1>8 DEF ShippingOff, Unshipped, AssetStatuses
<1>9. QED
  BY <1>1, <1>2, <1>3, <1>4, <1>5, <1>6, <1>7, <1>8 DEF StageStep

\* A change of an order's machines leaves rows of the tables
LEMMA MatchTyping ==
  ASSUME RecordsOK, NEW o \in Orders, MatchStep(o)
  PROVE  RecordsOK'
<1> USE DEF RecordsOK, OrdersOK, AssetsOK, ParcelsOK, orderVars, assetVars
<1>1. ASSUME NEW wanted \in SUBSET Assets, NEW misfits \in SUBSET Assets, NEW force \in BOOLEAN,
             NEW last \in Assets, NEW gone \in Assets,
             SetOrderAssets(o, wanted, force, misfits, last, gone)
      PROVE  RecordsOK'
  <2>1. link' \in [Orders -> [Assets -> AssetStatuses \cup {Unlinked}]]
    BY <1>1 DEF SetOrderAssets
  <2>2. status' \in [Assets -> AssetStatuses]
    <3>1. Released(o, AssetsOf(o) \ wanted) \in [Assets -> AssetStatuses]
      BY ReleasedTyping
    <3>2. QED
      BY <1>1, <3>1 DEF SetOrderAssets, AssetStatuses
  <2>3. prebuild' \in [Assets -> PrebuildRows]
    <3>1. \A a \in Assets :
            /\ [prebuild[a] EXCEPT !.usedBy = o, !.voided = FALSE, !.rework = (a \in misfits)]
                 \in PrebuildRows
            /\ Freed(prebuild[a]) \in PrebuildRows
      <4>1. \A a \in Assets : (a \in misfits) \in BOOLEAN
        OBVIOUS
      <4>2. QED
        BY <4>1, PrebuildChangeTyping
    <3>2. QED
      BY <1>1, <3>1, Zenon DEF SetOrderAssets
  <2>4. stages' \in [Orders -> SUBSET Stages]
    BY <1>1 DEF SetOrderAssets, Stages
  <2>5. by' \in [Orders -> [Stages -> Signers]]
    BY <1>1 DEF SetOrderAssets, Signers, PrebuildRows
  <2>6. QED
    BY <1>1, <2>1, <2>2, <2>3, <2>4, <2>5 DEF SetOrderAssets
<1>2. ASSUME NEW a \in Assets, PrebuildRework(o, a)
      PROVE  RecordsOK'
  <2>1. prebuild' \in [Assets -> PrebuildRows]
    <3>1. prebuild' = [prebuild EXCEPT ![a] = [prebuild[a] EXCEPT !.rework = TRUE, !.voided = FALSE]]
      BY <1>2 DEF PrebuildRework
    <3>2. QED
      BY <3>1, PrebuildChangeTyping
  <2>2. stages' \in [Orders -> SUBSET Stages] /\ by' \in [Orders -> [Stages -> Signers]]
    BY <1>2 DEF PrebuildRework, Stages, Signers
  <2>3. QED
    BY <1>2, <2>1, <2>2 DEF PrebuildRework
<1>3. QED
  BY <1>1, <1>2 DEF MatchStep

\* Cancelling, archiving and picking leave rows of the tables
LEMMA MarkTyping ==
  ASSUME RecordsOK, NEW o \in Orders, MarkStep(o)
  PROVE  RecordsOK'
<1> USE DEF RecordsOK, OrdersOK, AssetsOK, ParcelsOK, orderVars, assetVars, Marks
<1>1. ASSUME NEW force \in BOOLEAN, Cancel(o, force)
      PROVE  RecordsOK'
  <2>1. status' \in [Assets -> AssetStatuses]
    BY <1>1, ReleasedTyping DEF Cancel
  <2>2. link' \in [Orders -> [Assets -> AssetStatuses \cup {Unlinked}]]
    BY <1>1, UnlinkTyping DEF Cancel
  <2>3. QED
    BY <1>1, <2>1, <2>2 DEF Cancel, Freed, PrebuildRows
<1>2. CASE RestoreCancel(o)
  BY <1>2 DEF RestoreCancel
<1>3. CASE Archive(o)
  BY <1>3 DEF Archive
<1>4. CASE Unarchive(o)
  BY <1>4 DEF Unarchive
<1>5. ASSUME NEW value \in BOOLEAN, SetDelivered(o, value)
      PROVE  RecordsOK'
  BY <1>5 DEF SetDelivered
<1>6. ASSUME NEW value \in BOOLEAN, PickOption(o, value)
      PROVE  RecordsOK'
  BY <1>6 DEF PickOption
<1>7. QED
  BY <1>1, <1>2, <1>3, <1>4, <1>5, <1>6 DEF MarkStep

\* Closing the day's orders leaves rows of the tables
LEMMA ShipTodayTyping ==
  ASSUME RecordsOK, NEW S \in SUBSET Orders, NEW u \in Users, ShipToday(S, u)
  PROVE  RecordsOK'
<1>1. stages' \in [Orders -> SUBSET Stages] /\ by' \in [Orders -> [Stages -> Signers]]
  BY DEF RecordsOK, OrdersOK, ShipToday, Stages, Signers
<1>2. status' \in [Assets -> AssetStatuses] /\ listed' \in SUBSET Assets
  BY DEF RecordsOK, AssetsOK, ShipToday, ShipAssets, AssetStatuses
<1>3. QED
  BY <1>1, <1>2 DEF RecordsOK, OrdersOK, AssetsOK, ParcelsOK, ShipToday

\* The prebuild screens leave rows of the tables
LEMMA PrebuildStepTyping ==
  ASSUME RecordsOK, PrebuildNext
  PROVE  RecordsOK'
<1>1. prebuild' \in [Assets -> PrebuildRows]
  <2> USE DEF RecordsOK, AssetsOK
  <2>1. ASSUME NEW a \in Assets, CreatePrebuild(a) \/ DeletePrebuild(a)
        PROVE  prebuild' \in [Assets -> PrebuildRows]
    BY <2>1, PrebuildTyping DEF CreatePrebuild, DeletePrebuild
  <2>2. ASSUME NEW a \in Assets, NEW value \in BOOLEAN, BuildReady(a, value)
        PROVE  prebuild' \in [Assets -> PrebuildRows]
    <3> DEFINE done == IF value THEN prebuild[a].done \cup {"ready"}
                                ELSE prebuild[a].done \ {"ready"}
    <3>1. done \in SUBSET BuildSteps
      BY DEF PrebuildRows, BuildSteps
    <3>2. [prebuild[a] EXCEPT !.done = done, !.voided = FALSE, !.rework = FALSE] \in PrebuildRows
      BY <3>1, BuildTyping DEF Signers
    <3>3. prebuild' = [prebuild EXCEPT ![a] = [prebuild[a] EXCEPT !.done = done, !.voided = FALSE, !.rework = FALSE]]
      BY <2>2 DEF BuildReady
    <3>4. QED
      BY <3>2, <3>3
  <2>3. ASSUME NEW a \in Assets, NEW value \in BOOLEAN, NEW u \in Users,
               BuildProduction(a, u, value)
        PROVE  prebuild' \in [Assets -> PrebuildRows]
    <3> DEFINE done == IF value THEN prebuild[a].done \cup {"production"}
                                ELSE prebuild[a].done \ {"production"}
    <3> DEFINE signer == IF value THEN u ELSE NoOne
    <3>1. done \in SUBSET BuildSteps /\ signer \in Signers
      BY DEF PrebuildRows, BuildSteps, Signers
    <3>2. [prebuild[a] EXCEPT !.done = done, !.producer = signer] \in PrebuildRows
      BY <3>1, BuildTyping
    <3>3. prebuild' = [prebuild EXCEPT ![a] = [prebuild[a] EXCEPT !.done = done, !.producer = signer]]
      BY <2>3 DEF BuildProduction
    <3>4. QED
      BY <3>2, <3>3
  <2>4. ASSUME NEW a \in Assets, NEW value \in BOOLEAN, NEW u \in Users,
               BuildInspection(a, u, value)
        PROVE  prebuild' \in [Assets -> PrebuildRows]
    <3> DEFINE done == IF value THEN prebuild[a].done \cup {"inspection"}
                                ELSE prebuild[a].done \ {"inspection"}
    <3> DEFINE signer == IF value THEN u ELSE NoOne
    <3>1. done \in SUBSET BuildSteps /\ signer \in Signers
      BY DEF PrebuildRows, BuildSteps, Signers
    <3>2. [prebuild[a] EXCEPT !.done = done, !.inspector = signer] \in PrebuildRows
      BY <3>1, BuildTyping
    <3>3. prebuild' = [prebuild EXCEPT ![a] = [prebuild[a] EXCEPT !.done = done, !.inspector = signer]]
      BY <2>4 DEF BuildInspection
    <3>4. QED
      BY <3>2, <3>3
  <2>5. QED
    BY <2>1, <2>2, <2>3, <2>4 DEF PrebuildNext
<1>2. PrebuildOnly
  BY DEF PrebuildNext, CreatePrebuild, DeletePrebuild, BuildReady, BuildProduction,
         BuildInspection
<1>3. QED
  BY <1>1, <1>2 DEF PrebuildOnly, RecordsOK, OrdersOK, AssetsOK, ParcelsOK, orderVars, assetVars

\* The purchase screens leave rows of the tables
LEMMA AssetTyping ==
  ASSUME RecordsOK, AssetNext
  PROVE  RecordsOK'
<1> USE DEF RecordsOK, OrdersOK, AssetsOK, ParcelsOK, orderVars, AssetOnly
<1>1. ASSUME NEW a \in Assets, NEW s \in HandStatuses, ChangeStatus(a, s)
      PROVE  RecordsOK'
  BY <1>1, HandStatusesAreManual DEF ChangeStatus, Manual, AssetStatuses
<1>2. ASSUME NEW a \in Assets, ChangeTier(a) \/ ChangeListing(a)
      PROVE  RecordsOK'
  BY <1>2 DEF ChangeTier, ChangeListing
<1>3. ASSUME NEW a \in Assets, PurchaseCancel(a)
      PROVE  RecordsOK'
  BY <1>3 DEF PurchaseCancel, AssetStatuses
<1>4. ASSUME NEW a \in Assets, PurchaseUncancel(a) \/ Restock(a)
      PROVE  RecordsOK'
  BY <1>4 DEF PurchaseUncancel, Restock, AssetStatuses
<1>5. ASSUME NEW S \in SUBSET Assets, Receive(S)
      PROVE  RecordsOK'
  BY <1>5 DEF Receive
<1>6. QED
  BY <1>1, <1>2, <1>3, <1>4, <1>5 DEF AssetNext

\* Every step of the desk leaves rows of the tables
LEMMA NextTyping == RecordsOK /\ [Next]_recordVars => RecordsOK'
<1> SUFFICES ASSUME RecordsOK, [Next]_recordVars PROVE RecordsOK'
  OBVIOUS
<1>1. CASE BoardNext
  BY <1>1, StageTyping, MatchTyping, MarkTyping, ShipTodayTyping DEF BoardNext
<1>2. CASE PrebuildNext
  BY <1>2, PrebuildStepTyping
<1>3. CASE AssetNext
  BY <1>3, AssetTyping
<1>4. CASE UNCHANGED recordVars
  BY <1>4 DEF recordVars, orderVars, assetVars, RecordsOK, OrdersOK, AssetsOK, ParcelsOK
<1>5. QED
  BY <1>1, <1>2, <1>3, <1>4 DEF Next

\* The rows of every table stay rows the schema allows, whatever the desk does
\* (app/orders, app/purchase: every handler that changes an order or a machine)
THEOREM DeskTyping == Spec => []RecordsOK
<1>1. QED
  BY InitTyping, NextTyping, PTL DEF Spec
-----------------------------------------------------------------------------
(***************************************************************************)
(* Frames: what the steps of a screen leave alone                          *)
(***************************************************************************)

\* The prebuild screens write nothing but the prebuilds
LEMMA PrebuildFrame == PrebuildNext => UNCHANGED <<stages, marks, by, link, status, before>>
  BY DEF PrebuildNext, CreatePrebuild, DeletePrebuild, BuildReady, BuildProduction,
         BuildInspection, PrebuildOnly, orderVars, assetVars

\* The purchase screens write nothing of an order or a prebuild
LEMMA AssetFrame == AssetNext => UNCHANGED <<stages, marks, by, link, prebuild>>
  BY DEF AssetNext, ChangeStatus, ChangeTier, ChangeListing, PurchaseCancel, PurchaseUncancel,
         Restock, Receive, AssetOnly, orderVars

\* Taking a stage or taking it back leaves the links, the marks and the purchase history
LEMMA StageFrame ==
  ASSUME NEW o \in Orders, NEW u \in Users, StageStep(o, u)
  PROVE  UNCHANGED <<link, marks, before>>
  BY DEF StageStep, PreparingOn, PreparingOff, ProductionOn, ProductionOff, InspectionOn,
         InspectionOff, ShippingOn, ShippingOff, assetVars

\* The marks of an order other than a cancel leave its stages and its machines
LEMMA MarkFrame ==
  ASSUME NEW o \in Orders, MarkStep(o), \A force \in BOOLEAN : ~Cancel(o, force)
  PROVE  UNCHANGED <<stages, link, status, before, prebuild>>
  BY DEF MarkStep, RestoreCancel, Archive, Unarchive, SetDelivered, PickOption, assetVars
-----------------------------------------------------------------------------
(***************************************************************************)
(* The ladder of stages                                                    *)
(***************************************************************************)
StagesClimb == InspectedIsProduced /\ ShippedIsInspected

\* A step of one order's stages keeps them in their order
LEMMA StageClimbs ==
  ASSUME RecordsOK, StagesClimb, NEW o \in Orders, NEW u \in Users, StageStep(o, u)
  PROVE  StagesClimb'
<1> USE DEF RecordsOK, OrdersOK, StagesClimb, InspectedIsProduced, ShippedIsInspected
<1>1. CASE PreparingOn(o, u)
  BY <1>1 DEF PreparingOn
<1>2. CASE PreparingOff(o, u)
  BY <1>2 DEF PreparingOff
<1>3. CASE ProductionOn(o, u)
  BY <1>3 DEF ProductionOn
<1>4. CASE ProductionOff(o)
  BY <1>4 DEF ProductionOff
<1>5. CASE InspectionOn(o, u)
  BY <1>5 DEF InspectionOn
<1>6. CASE InspectionOff(o)
  BY <1>6 DEF InspectionOff
<1>7. CASE ShippingOn(o, u)
  BY <1>7 DEF ShippingOn
<1>8. CASE ShippingOff(o)
  BY <1>8 DEF ShippingOff
<1>9. QED
  BY <1>1, <1>2, <1>3, <1>4, <1>5, <1>6, <1>7, <1>8 DEF StageStep

\* Every step of the desk keeps the stages of every order in their order
LEMMA NextClimbs == RecordsOK /\ StagesClimb /\ [Next]_recordVars => StagesClimb'
<1> SUFFICES ASSUME RecordsOK, StagesClimb, [Next]_recordVars PROVE StagesClimb'
  OBVIOUS
<1> USE DEF StagesClimb, InspectedIsProduced, ShippedIsInspected
<1>1. ASSUME NEW o \in Orders, NEW u \in Users, StageStep(o, u)
      PROVE  StagesClimb'
  BY <1>1, StageClimbs
<1>2. ASSUME NEW o \in Orders, MatchStep(o)
      PROVE  StagesClimb'
  <2>1. ASSUME NEW wanted, NEW misfits, NEW force, NEW last, NEW gone,
               SetOrderAssets(o, wanted, force, misfits, last, gone)
        PROVE  StagesClimb'
    <3>1. "shipping" \notin stages[o] /\ \A r \in Orders \ {o} : stages'[r] = stages[r]
      BY <2>1 DEF SetOrderAssets, Shipped, RecordsOK, OrdersOK
    <3>2. \/ stages'[o] = stages[o]
          \/ stages'[o] = stages[o] \ {"production", "inspection"}
          \/ stages'[o] = (stages[o] \ {"preparing"}) \cup {"production", "inspection"}
      BY <2>1 DEF SetOrderAssets, RecordsOK, OrdersOK
    <3>3. QED
      BY <3>1, <3>2
  <2>2. ASSUME NEW a \in Assets, PrebuildRework(o, a)
        PROVE  StagesClimb'
    BY <2>2 DEF PrebuildRework, Shipped, RecordsOK, OrdersOK
  <2>3. QED
    BY <1>2, <2>1, <2>2 DEF MatchStep
<1>3. ASSUME NEW o \in Orders, MarkStep(o)
      PROVE  StagesClimb'
  <2>1. ASSUME NEW force \in BOOLEAN, Cancel(o, force)
        PROVE  StagesClimb'
    BY <2>1 DEF Cancel, RecordsOK, OrdersOK
  <2>2. QED
    BY <1>3, <2>1, MarkFrame
<1>4. ASSUME NEW S \in SUBSET Orders, NEW u \in Users, ShipToday(S, u)
      PROVE  StagesClimb'
  BY <1>4 DEF ShipToday, RecordsOK, OrdersOK
<1>5. CASE PrebuildNext
  BY <1>5, PrebuildFrame
<1>6. CASE AssetNext
  BY <1>6, AssetFrame
<1>7. CASE UNCHANGED recordVars
  BY <1>7 DEF recordVars, orderVars
<1>8. QED
  BY <1>1, <1>2, <1>3, <1>4, <1>5, <1>6, <1>7 DEF Next, BoardNext

\* No way through the stages, the matching, the rework or the cancelling of orders leaves an
\* order inspected that is not produced, or shipped that is not inspected (_stage_check)
THEOREM DeskStagesClimb == Spec => [](InspectedIsProduced /\ ShippedIsInspected)
<1>1. Init => StagesClimb
  BY DEF Init, StagesClimb, InspectedIsProduced, ShippedIsInspected
<1>2. Spec => [](RecordsOK /\ StagesClimb)
  BY <1>1, InitTyping, NextTyping, NextClimbs, PTL DEF Spec
<1>3. QED
  BY <1>2, PTL DEF StagesClimb
-----------------------------------------------------------------------------
(***************************************************************************)
(* Cancelled orders and reserved machines                                  *)
(***************************************************************************)

\* A change of machines only touches the links of an order that is not cancelled
LEMMA MatchLinks ==
  ASSUME RecordsOK, NEW o \in Orders, MatchStep(o)
  PROVE  /\ UNCHANGED <<marks, before>>
         /\ \A r \in Orders \ {o} : link'[r] = link[r]
         /\ link'[o] # link[o] => Live(o)
         /\ \A a \in Assets, r \in Orders : prebuild'[a].usedBy = r /\ prebuild[a].usedBy # r
                                        => r = o /\ Live(o)
<1> USE DEF RecordsOK, OrdersOK, AssetsOK
<1>1. ASSUME NEW wanted, NEW misfits, NEW force, NEW last, NEW gone,
             SetOrderAssets(o, wanted, force, misfits, last, gone)
      PROVE  /\ UNCHANGED <<marks, before>> /\ Live(o)
             /\ \A r \in Orders \ {o} : link'[r] = link[r]
             /\ \A a \in Assets, r \in Orders :
                  prebuild'[a].usedBy = r /\ prebuild[a].usedBy # r => r = o
  <2>1. UNCHANGED <<marks, before>> /\ Live(o) /\ \A r \in Orders \ {o} : link'[r] = link[r]
    BY <1>1 DEF SetOrderAssets
  <2>2. ASSUME NEW a \in Assets
        PROVE  prebuild'[a].usedBy \in {o, NoOrder, prebuild[a].usedBy}
    BY <1>1 DEF SetOrderAssets, Freed, PrebuildRows
  <2>3. QED
    BY <2>1, <2>2, NullsAreNotRows
<1>2. ASSUME NEW a \in Assets, PrebuildRework(o, a)
      PROVE  /\ UNCHANGED <<marks, before, link>>
             /\ \A b \in Assets : prebuild'[b].usedBy = prebuild[b].usedBy
  BY <1>2 DEF PrebuildRework, PrebuildRows, assetVars
<1>3. QED
  BY <1>1, <1>2 DEF MatchStep

\* Releasing the machines of an order leaves none of them reserved
LEMMA ReleasedIsFree ==
  ASSUME NEW o \in Orders, NEW S \in SUBSET Assets, NEW a \in S
  PROVE  Released(o, S)[a] # "reserved"
  BY DEF Released, Back, Available

\* Releasing them leaves the other machines as they are
LEMMA ReleasedFrame ==
  ASSUME AssetsOK, NEW o \in Orders, NEW S \in SUBSET Assets, NEW a \in Assets \ S
  PROVE  Released(o, S)[a] = status[a]
  BY DEF Released, AssetsOK

\* A freed prebuild is used by no order
LEMMA FreedUsesNothing == ASSUME NEW p \in PrebuildRows PROVE Freed(p).usedBy = NoOrder
  BY DEF Freed, PrebuildRows

\* The prebuild screens tie no prebuild to an order
LEMMA PrebuildUses ==
  ASSUME RecordsOK, PrebuildNext
  PROVE  \A a \in Assets, r \in Orders : prebuild'[a].usedBy = r => prebuild[a].usedBy = r
<1> USE NullsAreNotRows DEF RecordsOK, AssetsOK, PrebuildRows
<1>1. ASSUME NEW b \in Assets, CreatePrebuild(b) \/ DeletePrebuild(b)
      PROVE  \A a \in Assets, r \in Orders : prebuild'[a].usedBy = r => prebuild[a].usedBy = r
  BY <1>1 DEF CreatePrebuild, DeletePrebuild, NoPrebuild, NewPrebuild
<1>2. ASSUME NEW b \in Assets, NEW value \in BOOLEAN, BuildReady(b, value)
      PROVE  \A a \in Assets : prebuild'[a].usedBy = prebuild[a].usedBy
  BY <1>2 DEF BuildReady
<1>3. ASSUME NEW b \in Assets, NEW value \in BOOLEAN, NEW u \in Users,
             BuildProduction(b, u, value) \/ BuildInspection(b, u, value)
      PROVE  \A a \in Assets : prebuild'[a].usedBy = prebuild[a].usedBy
  BY <1>3 DEF BuildProduction, BuildInspection
<1>4. QED
  BY <1>1, <1>2, <1>3 DEF PrebuildNext

\* Every step of the desk leaves a cancelled order without machine and prebuild
LEMMA NextHoldsNothing ==
  RecordsOK /\ CancelledHoldsNothing /\ [Next]_recordVars => CancelledHoldsNothing'
<1> SUFFICES ASSUME RecordsOK, CancelledHoldsNothing, [Next]_recordVars
             PROVE  CancelledHoldsNothing'
  OBVIOUS
<1> USE DEF CancelledHoldsNothing, AssetsOf, Cancelled, RecordsOK, OrdersOK, AssetsOK
<1>1. ASSUME NEW o \in Orders, NEW u \in Users, StageStep(o, u)
      PROVE  CancelledHoldsNothing'
  <2>1. \A a \in Assets : prebuild'[a].usedBy = prebuild[a].usedBy
    <3>1. CASE ProductionOn(o, u)
      BY <3>1 DEF ProductionOn, PrebuildRows
    <3>2. CASE ProductionOff(o)
      BY <3>2 DEF ProductionOff, PrebuildRows
    <3>3. CASE ~ProductionOn(o, u) /\ ~ProductionOff(o)
      BY <1>1, <3>3 DEF StageStep, PreparingOn, PreparingOff, InspectionOn, InspectionOff,
                        ShippingOn, ShippingOff
    <3>4. QED
      BY <3>1, <3>2, <3>3
  <2>2. QED
    BY <1>1, <2>1, StageFrame
<1>2. ASSUME NEW o \in Orders, MatchStep(o)
      PROVE  CancelledHoldsNothing'
  <2>1. /\ UNCHANGED marks
        /\ \A r \in Orders \ {o} : link'[r] = link[r]
        /\ link'[o] # link[o] => Live(o)
        /\ \A a \in Assets, r \in Orders : prebuild'[a].usedBy = r /\ prebuild[a].usedBy # r
                                        => r = o /\ Live(o)
    BY <1>2, MatchLinks
  <2>2. ASSUME NEW r \in Orders, Cancelled(r)'
        PROVE  link'[r] = link[r] /\ \A a \in Assets : prebuild'[a].usedBy # r
    <3>1. Cancelled(r) /\ ~Live(r)
      BY <2>1, <2>2 DEF Live
    <3>2. QED
      BY <2>1, <3>1
  <2>3. QED
    BY <2>1, <2>2
<1>3. ASSUME NEW o \in Orders, MarkStep(o)
      PROVE  CancelledHoldsNothing'
  <2>1. ASSUME NEW force \in BOOLEAN, Cancel(o, force)
        PROVE  CancelledHoldsNothing'
    <3>1. \A a \in Assets : link'[o][a] = Unlinked
      BY <2>1 DEF Cancel, Unlink
    <3>2. ASSUME NEW a \in Assets
          PROVE  prebuild'[a].usedBy = IF prebuild[a].usedBy = o THEN NoOrder
                                       ELSE prebuild[a].usedBy
      <4>1. prebuild'[a] = IF prebuild[a].usedBy = o THEN Freed(prebuild[a]) ELSE prebuild[a]
        BY <2>1 DEF Cancel
      <4>2. Freed(prebuild[a]).usedBy = NoOrder
        BY FreedUsesNothing
      <4>3. QED
        BY <4>1, <4>2
    <3>3. ASSUME NEW r \in Orders \ {o}
          PROVE  link'[r] = link[r] /\ marks'[r] = marks[r]
      BY <2>1 DEF Cancel, Unlink
    <3>4. ASSUME NEW r \in Orders, Cancelled(r)', NEW a \in Assets
          PROVE  link'[r][a] = Unlinked /\ prebuild'[a].usedBy # r
      <4>1. CASE r = o
        BY <3>1, <3>2, <4>1, NullsAreNotRows
      <4>2. CASE r # o
        BY <3>2, <3>3, <3>4, <4>2, NullsAreNotRows
      <4>3. QED
        BY <4>1, <4>2
    <3>5. QED
      BY <3>4
  <2>2. CASE \A force \in BOOLEAN : ~Cancel(o, force)
    <3>1. \A r \in Orders : Cancelled(r)' => Cancelled(r)
      BY <1>3, <2>2 DEF MarkStep, RestoreCancel, Archive, Unarchive, SetDelivered, PickOption
    <3>2. QED
      BY <1>3, <2>2, <3>1, MarkFrame
  <2>3. QED
    BY <2>1, <2>2
<1>4. ASSUME NEW S \in SUBSET Orders, NEW u \in Users, ShipToday(S, u)
      PROVE  CancelledHoldsNothing'
  <2>1. UNCHANGED <<marks, link, prebuild>>
    BY <1>4 DEF ShipToday
  <2>2. QED
    BY <2>1
<1>5. CASE PrebuildNext
  <2>1. /\ UNCHANGED <<marks, link>>
        /\ \A a \in Assets, r \in Orders : prebuild'[a].usedBy = r => prebuild[a].usedBy = r
    BY <1>5, PrebuildUses, PrebuildFrame
  <2>2. QED
    BY <2>1
<1>6. CASE AssetNext
  BY <1>6, AssetFrame
<1>7. CASE UNCHANGED recordVars
  BY <1>7 DEF recordVars, orderVars
<1>8. QED
  BY <1>1, <1>2, <1>3, <1>4, <1>5, <1>6, <1>7 DEF Next, BoardNext

\* A cancelled order holds no machine and no prebuild, and gets none while it is cancelled
\* (the cancel branch of patch_order, _set_order_assets)
THEOREM DeskCancelledHoldsNothing == Spec => []CancelledHoldsNothing
<1>1. Init => CancelledHoldsNothing
  BY DEF Init, CancelledHoldsNothing, Cancelled
<1>2. QED
  BY <1>1, InitTyping, NextTyping, NextHoldsNothing, PTL DEF Spec
-----------------------------------------------------------------------------
\* The purchase history never gives a machine the status 'reserved' back: without this the
\* undo of a purchase cancel could reserve a machine for nobody
HeldInv == ReservedIsHeld /\ \A a \in Assets : before[a] # "reserved"

\* A step of one order's stages reserves again only what the order still holds
LEMMA StageHolds ==
  ASSUME RecordsOK, HeldInv, NEW o \in Orders, NEW u \in Users, StageStep(o, u)
  PROVE  HeldInv'
<1>1. \A a \in Assets : status'[a] = "reserved" => Holders(a) # {}
  <2> USE DEF HeldInv, ReservedIsHeld
  <2>1. CASE UNCHANGED status
    BY <2>1
  <2>2. CASE Live(o) /\ status' = Unshipped(o)
    BY <2>2 DEF Unshipped, AssetsOf, Holders, Live
  <2>3. CASE ShippingOn(o, u)
    BY <2>3 DEF ShippingOn, ShipAssets
  <2>4. QED
    BY <2>1, <2>2, <2>3 DEF StageStep, PreparingOn, PreparingOff, ProductionOn, ProductionOff,
       InspectionOn, InspectionOff, ShippingOff, Stageable, assetVars
<1>2. QED
  BY <1>1, StageFrame DEF HeldInv, ReservedIsHeld, Holders, Cancelled

\* Every step of the desk keeps reserved machines with their orders
LEMMA NextHeld == RecordsOK /\ HeldInv /\ [Next]_recordVars => HeldInv'
<1> SUFFICES ASSUME RecordsOK, HeldInv, [Next]_recordVars PROVE HeldInv'
  OBVIOUS
<1> USE DEF HeldInv, ReservedIsHeld, Holders, Cancelled, RecordsOK, OrdersOK, AssetsOK
<1>1. ASSUME NEW o \in Orders, NEW u \in Users, StageStep(o, u)
      PROVE  HeldInv'
  BY <1>1, StageHolds
<1>2. ASSUME NEW o \in Orders, MatchStep(o)
      PROVE  HeldInv'
  <2>1. ASSUME NEW wanted \in SUBSET Assets, NEW misfits, NEW force, NEW last, NEW gone,
               SetOrderAssets(o, wanted, force, misfits, last, gone)
        PROVE  HeldInv'
    <3> DEFINE add  == wanted \ AssetsOf(o)
               drop == AssetsOf(o) \ wanted
    <3>1. /\ UNCHANGED <<marks, before>> /\ Live(o)
          /\ status' = [a \in Assets |-> IF a \in add THEN "reserved" ELSE Released(o, drop)[a]]
      BY <2>1 DEF SetOrderAssets
    <3>2. ASSUME NEW a \in Assets
          PROVE  link'[o][a] = IF a \in add THEN status[a]
                               ELSE IF a \in drop THEN Unlinked ELSE link[o][a]
      BY <2>1 DEF SetOrderAssets
    <3>3. \A r \in Orders \ {o} : link'[r] = link[r]
      BY <2>1 DEF SetOrderAssets
    <3>4. ASSUME NEW a \in Assets, status'[a] = "reserved"
          PROVE  Holders(a)' # {}
      <4>1. CASE a \in add
        BY <3>1, <3>2, <4>1 DEF Live, AssetStatuses, Unlinked
      <4>2. CASE a \in drop
        BY <3>1, <3>4, <4>2, ReleasedIsFree DEF AssetsOf
      <4>3. CASE a \notin add \cup drop
        <5>1. status[a] = "reserved"
          <6>1. drop \in SUBSET Assets /\ a \in Assets \ drop
            BY <4>3 DEF AssetsOf
          <6>2. Released(o, drop)[a] = status[a]
            BY <6>1, ReleasedFrame
          <6>3. QED
            BY <3>1, <3>4, <4>3, <6>2
        <5>2. \A r \in Orders : link'[r][a] = link[r][a]
          BY <3>2, <3>3, <4>3
        <5>3. QED
          BY <3>1, <5>1, <5>2
      <4>4. QED
        BY <4>1, <4>2, <4>3
    <3>5. QED
      BY <3>1, <3>4
  <2>2. ASSUME NEW a \in Assets, PrebuildRework(o, a)
        PROVE  HeldInv'
    BY <2>2 DEF PrebuildRework, assetVars
  <2>3. QED
    BY <1>2, <2>1, <2>2 DEF MatchStep
<1>3. ASSUME NEW o \in Orders, MarkStep(o)
      PROVE  HeldInv'
  <2>1. ASSUME NEW force \in BOOLEAN, Cancel(o, force)
        PROVE  HeldInv'
    <3>1. /\ status' = Released(o, AssetsOf(o)) /\ UNCHANGED before
          /\ \A r \in Orders \ {o} : link'[r] = link[r] /\ marks'[r] = marks[r]
      BY <2>1 DEF Cancel, Unlink
    <3>2. ASSUME NEW a \in Assets, status'[a] = "reserved"
          PROVE  Holders(a)' # {}
      <4>1. a \notin AssetsOf(o) /\ status[a] = "reserved"
        BY <3>1, <3>2, ReleasedIsFree, ReleasedFrame DEF AssetsOf
      <4>2. PICK r \in Holders(a) : TRUE
        BY <4>1
      <4>3. r # o
        BY <4>1, <4>2 DEF AssetsOf
      <4>4. QED
        BY <3>1, <4>2, <4>3
    <3>3. QED
      BY <3>1, <3>2
  <2>2. CASE \A force \in BOOLEAN : ~Cancel(o, force)
    <3>1. \A r \in Orders : Cancelled(r)' => Cancelled(r)
      BY <1>3, <2>2 DEF MarkStep, RestoreCancel, Archive, Unarchive, SetDelivered, PickOption
    <3>2. QED
      BY <1>3, <2>2, <3>1, MarkFrame
  <2>3. QED
    BY <2>1, <2>2
<1>4. ASSUME NEW S \in SUBSET Orders, NEW u \in Users, ShipToday(S, u)
      PROVE  HeldInv'
  BY <1>4 DEF ShipToday, ShipAssets
<1>5. CASE PrebuildNext
  BY <1>5, PrebuildFrame
<1>6. CASE AssetNext
  <2>1. UNCHANGED <<link, marks>>
    BY <1>6, AssetFrame
  <2>2. \A a \in Assets : /\ status'[a] = "reserved" => status[a] = "reserved"
                         /\ before'[a] # "reserved"
    BY <1>6, HandStatusesAreManual DEF AssetNext, ChangeStatus, ChangeTier, ChangeListing,
       PurchaseCancel, PurchaseUncancel, Restock, Receive, Manual, Cancelable
  <2>3. QED
    BY <2>1, <2>2
<1>7. CASE UNCHANGED recordVars
  BY <1>7 DEF recordVars, orderVars, assetVars
<1>8. QED
  BY <1>1, <1>2, <1>3, <1>4, <1>5, <1>6, <1>7 DEF Next, BoardNext

\* A reserved machine is reserved for an order that is not cancelled and links it, whatever
\* the board and the purchase screens do to either (_set_order_assets, patch_order,
\* update_asset, assets_purchase_cancel)
THEOREM DeskReservedIsHeld == Spec => []ReservedIsHeld
<1>1. Init => HeldInv
  BY DEF Init, HeldInv, ReservedIsHeld
<1>2. Spec => [](RecordsOK /\ HeldInv)
  BY <1>1, InitTyping, NextTyping, NextHeld, PTL DEF Spec
<1>3. QED
  BY <1>2, PTL DEF HeldInv
-----------------------------------------------------------------------------
(***************************************************************************)
(* Prebuilds                                                               *)
(***************************************************************************)
Climbs(p) == /\ "ready" \in p.done => "inspection" \in p.done
             /\ "inspection" \in p.done => "production" \in p.done
Credited(p) == p.voided => p.rework /\ p.usedBy \in Orders
Finished(p) == p.usedBy \in Orders => "ready" \in p.done
RowOK(p) == Climbs(p) /\ Credited(p) /\ Finished(p)

\* The three promises about prebuilds, row by row
BuildInv == \A a \in Assets : /\ RowOK(prebuild[a])
                             /\ \A o \in Orders : prebuild[a].usedBy = o => link[o][a] # Unlinked

\* Row by row the three promises are the same
LEMMA BuildInvSplits ==
  ASSUME RecordsOK
  PROVE  BuildInv <=> UsedIsLinked /\ PrebuildLadder /\ VoidIsRework
  BY DEF RecordsOK, AssetsOK, PrebuildRows, BuildInv, RowOK, Climbs, Credited, Finished,
         UsedIsLinked, PrebuildLadder, VoidIsRework, AssetsOf

\* Rows that orders use up, mark for rework, void, give their credit back and let go stay good
LEMMA RowChanges ==
  ASSUME NEW p \in PrebuildRows, RowOK(p), NEW o \in Orders, NEW b \in BOOLEAN
  PROVE  /\ "ready" \in p.done => RowOK([p EXCEPT !.usedBy = o, !.voided = FALSE, !.rework = b])
         /\ RowOK([p EXCEPT !.rework = TRUE, !.voided = FALSE])
         /\ RowOK([p EXCEPT !.voided = FALSE])
         /\ p.usedBy = o /\ p.rework => RowOK([p EXCEPT !.voided = TRUE])
         /\ RowOK(Freed(p))
  BY NullsAreNotRows DEF PrebuildRows, RowOK, Climbs, Credited, Finished, Freed

\* The steps of a prebuild no order has used keep its ladder
LEMMA BuildClimbs ==
  ASSUME RecordsOK, BuildInv, PrebuildNext, NEW c \in Assets
  PROVE  RowOK(prebuild'[c])
<1> USE NullsAreNotRows DEF RecordsOK, AssetsOK, BuildInv, RowOK, Climbs, Credited, Finished,
        PrebuildRows
<1>1. ASSUME NEW a \in Assets, CreatePrebuild(a) \/ DeletePrebuild(a)
      PROVE  RowOK(prebuild'[c])
  BY <1>1 DEF CreatePrebuild, DeletePrebuild, NoPrebuild, NewPrebuild
<1>2. ASSUME NEW a \in Assets, NEW value \in BOOLEAN, BuildReady(a, value)
      PROVE  RowOK(prebuild'[c])
  BY <1>2 DEF BuildReady, Editable
<1>3. ASSUME NEW a \in Assets, NEW value \in BOOLEAN, NEW u \in Users,
             BuildProduction(a, u, value)
      PROVE  RowOK(prebuild'[c])
  BY <1>3 DEF BuildProduction, Editable
<1>4. ASSUME NEW a \in Assets, NEW value \in BOOLEAN, NEW u \in Users,
             BuildInspection(a, u, value)
      PROVE  RowOK(prebuild'[c])
  BY <1>4 DEF BuildInspection, Editable
<1>5. QED
  BY <1>1, <1>2, <1>3, <1>4 DEF PrebuildNext

\* Every step of the desk keeps the promises about prebuilds
LEMMA NextBuilds == RecordsOK /\ BuildInv /\ [Next]_recordVars => BuildInv'
<1> SUFFICES ASSUME RecordsOK, BuildInv, [Next]_recordVars, NEW c \in Assets
             PROVE  /\ RowOK(prebuild'[c])
                    /\ \A r \in Orders : prebuild'[c].usedBy = r => link'[r][c] # Unlinked
  BY DEF BuildInv, RowOK, Climbs, Credited, Finished
<1> DEFINE Good == /\ RowOK(prebuild'[c])
                   /\ \A r \in Orders : prebuild'[c].usedBy = r => link'[r][c] # Unlinked
           p == prebuild[c]
<1>a. /\ p \in PrebuildRows /\ RowOK(p) /\ p.usedBy \in Orders \cup {NoOrder}
      /\ \A r \in Orders : p.usedBy = r => link[r][c] # Unlinked
  BY DEF RecordsOK, AssetsOK, BuildInv, PrebuildRows
<1>b. ASSUME UNCHANGED <<prebuild, link>> PROVE Good
  BY <1>a, <1>b
<1>1. ASSUME NEW o \in Orders, NEW u \in Users, StageStep(o, u)
      PROVE  Good
  <2>1. UNCHANGED link
    BY <1>1, StageFrame
  <2>2. \/ prebuild'[c] = p
        \/ prebuild'[c] = [p EXCEPT !.voided = FALSE]
        \/ p.usedBy = o /\ p.rework /\ prebuild'[c] = [p EXCEPT !.voided = TRUE]
    BY <1>1 DEF StageStep, PreparingOn, PreparingOff, ProductionOn, ProductionOff, InspectionOn,
                InspectionOff, ShippingOn, ShippingOff
  <2>3. RowOK(prebuild'[c])
    BY <1>a, <2>2, RowChanges
  <2>4. prebuild'[c].usedBy = p.usedBy
    BY <1>a, <2>2 DEF PrebuildRows
  <2>5. QED
    BY <1>a, <2>1, <2>3, <2>4
<1>2. ASSUME NEW o \in Orders, MatchStep(o)
      PROVE  Good
  <2>1. ASSUME NEW wanted \in SUBSET Assets, NEW misfits, NEW force, NEW last, NEW gone,
               SetOrderAssets(o, wanted, force, misfits, last, gone)
        PROVE  Good
    <3> DEFINE add  == wanted \ AssetsOf(o)
               drop == AssetsOf(o) \ wanted
               fit  == c \in misfits
    <3>1. /\ link'[o][c] = IF c \in add THEN status[c]
                           ELSE IF c \in drop THEN Unlinked ELSE link[o][c]
          /\ \A r \in Orders \ {o} : link'[r] = link[r]
      BY <2>1 DEF SetOrderAssets, RecordsOK, OrdersOK
    <3>2. prebuild'[c] = IF c \in add /\ Usable(c)
                         THEN [p EXCEPT !.usedBy = o, !.voided = FALSE, !.rework = fit]
                         ELSE IF c \in drop /\ p.usedBy = o THEN Freed(p) ELSE p
      BY <2>1 DEF SetOrderAssets
    <3>3. CASE c \in add /\ Usable(c)
      <4>1. fit \in BOOLEAN
        OBVIOUS
      <4>2. RowOK(prebuild'[c])
        <5>1. "ready" \in p.done
          BY <3>3 DEF Usable
        <5>2. RowOK([p EXCEPT !.usedBy = o, !.voided = FALSE, !.rework = fit])
          <6> HIDE DEF fit, p
          <6>1. QED
            BY <1>a, <4>1, <5>1, RowChanges
        <5>3. prebuild'[c] = [p EXCEPT !.usedBy = o, !.voided = FALSE, !.rework = fit]
          BY <3>2, <3>3
        <5>4. QED
          BY <5>2, <5>3
      <4>3. prebuild'[c].usedBy = o
        BY <1>a, <3>2, <3>3 DEF PrebuildRows
      <4>4. link'[o][c] # Unlinked
        BY <3>1, <3>3 DEF RecordsOK, AssetsOK, AssetStatuses, Unlinked
      <4>5. QED
        BY <4>2, <4>3, <4>4
    <3>4. CASE c \in drop /\ p.usedBy = o
      <4>1. prebuild'[c] = Freed(p)
        BY <3>2, <3>4
      <4>2. RowOK(Freed(p)) /\ Freed(p).usedBy = NoOrder
        BY <1>a, RowChanges, FreedUsesNothing
      <4>3. QED
        BY <4>1, <4>2, NullsAreNotRows
    <3>5. CASE ~(c \in add /\ Usable(c)) /\ ~(c \in drop /\ p.usedBy = o)
      <4>1. prebuild'[c] = p
        BY <3>2, <3>5
      <4>2. ASSUME NEW r \in Orders, p.usedBy = r
            PROVE  link'[r][c] # Unlinked
        BY <1>a, <3>1, <3>5, <4>2 DEF AssetsOf
      <4>3. QED
        BY <1>a, <4>1, <4>2
    <3>6. QED
      BY <3>3, <3>4, <3>5
  <2>2. ASSUME NEW a \in Assets, PrebuildRework(o, a)
        PROVE  Good
    <3>1. UNCHANGED link
      BY <2>2 DEF PrebuildRework
    <3>2. prebuild'[c] \in {p, [p EXCEPT !.rework = TRUE, !.voided = FALSE]}
      BY <2>2 DEF PrebuildRework, RecordsOK, AssetsOK
    <3>3. RowOK(prebuild'[c]) /\ prebuild'[c].usedBy = p.usedBy
      BY <1>a, <3>2, RowChanges DEF PrebuildRows
    <3>4. QED
      BY <1>a, <3>1, <3>3
  <2>3. QED
    BY <1>2, <2>1, <2>2 DEF MatchStep
<1>3. ASSUME NEW o \in Orders, MarkStep(o)
      PROVE  Good
  <2>1. ASSUME NEW force \in BOOLEAN, Cancel(o, force)
        PROVE  Good
    <3>1. prebuild'[c] = IF p.usedBy = o THEN Freed(p) ELSE p
      BY <2>1 DEF Cancel
    <3>2. \A r \in Orders \ {o} : link'[r] = link[r]
      BY <2>1 DEF Cancel, Unlink, RecordsOK, OrdersOK
    <3>3. RowOK(Freed(p)) /\ Freed(p).usedBy = NoOrder
      BY <1>a, RowChanges, FreedUsesNothing
    <3>4. QED
      BY <1>a, <3>1, <3>2, <3>3, NullsAreNotRows
  <2>2. QED
    BY <1>3, <1>b, <2>1, MarkFrame
<1>4. ASSUME NEW S \in SUBSET Orders, NEW u \in Users, ShipToday(S, u)
      PROVE  Good
  BY <1>4, <1>b DEF ShipToday
<1>5. CASE PrebuildNext
  <2>1. UNCHANGED link /\ \A r \in Orders : prebuild'[c].usedBy = r => p.usedBy = r
    BY <1>5, PrebuildFrame, PrebuildUses
  <2>2. QED
    BY <1>5, <1>a, <2>1, BuildClimbs
<1>6. CASE AssetNext
  BY <1>6, <1>b, AssetFrame
<1>7. CASE UNCHANGED recordVars
  BY <1>7, <1>b DEF recordVars
<1>8. QED
  BY <1>1, <1>2, <1>3, <1>4, <1>5, <1>6, <1>7 DEF Next, BoardNext

\* A prebuild an order has used belongs to a machine of that order and was ready; its builder
\* loses the credit only while the order has it built again; its steps are passed in order
\* (app/orders/prebuild.py, _set_order_assets, the cancel branch of patch_order)
THEOREM DeskPrebuilds == Spec => [](UsedIsLinked /\ PrebuildLadder /\ VoidIsRework)
<1>1. Init => BuildInv
  BY NullsAreNotRows DEF Init, BuildInv, RowOK, Climbs, Credited, Finished, NoPrebuild
<1>2. Spec => [](RecordsOK /\ BuildInv)
  BY <1>1, InitTyping, NextTyping, NextBuilds, PTL DEF Spec
<1>3. RecordsOK /\ BuildInv => UsedIsLinked /\ PrebuildLadder /\ VoidIsRework
  BY BuildInvSplits
<1>4. QED
  BY <1>2, <1>3, PTL

\* The builder of a prebuild loses the credit only to an order that has it built again: whatever
\* lets the machine go gives the credit back (_stage_check, _set_order_assets, patch_order)
THEOREM DeskVoidIsRework == Spec => []VoidIsRework
<1>1. QED
  BY DeskPrebuilds, PTL
-----------------------------------------------------------------------------
(***************************************************************************)
(* What no step of the desk does                                           *)
(***************************************************************************)

\* Of the stage checks only 'production' makes an order produced, and it signs for the claimant
LEMMA StageSigns ==
  ASSUME RecordsOK, NEW o \in Orders, NEW u \in Users, StageStep(o, u), NEW r \in Orders,
         "preparing" \in stages[r], by[r]["preparing"] # NoOne,
         "production" \in stages'[r] \ stages[r]
  PROVE  by'[r]["production"] \in Admins \cup {by[r]["preparing"]}
<1> USE DEF RecordsOK, OrdersOK, Stages
<1>1. ProductionOn(o, u) /\ r = o
  BY DEF StageStep, PreparingOn, PreparingOff, ProductionOn, ProductionOff, InspectionOn,
         InspectionOff, ShippingOn, ShippingOff
<1>2. by'[r]["production"] = u
  BY <1>1 DEF ProductionOn
<1>3. QED
  BY <1>1, <1>2 DEF ProductionOn, Claimed

\* A match makes an order produced only by a prebuild it uses up, whose builder signs
LEMMA MatchSigns ==
  ASSUME RecordsOK, NEW o \in Orders, MatchStep(o), NEW r \in Orders,
         "production" \in stages'[r] \ stages[r]
  PROVE  \E a \in Assets : /\ prebuild[a].usedBy # r /\ prebuild'[a].usedBy = r
                           /\ by'[r]["production"] = prebuild[a].producer
<1> USE DEF RecordsOK, OrdersOK, AssetsOK
<1>1. ASSUME NEW wanted \in SUBSET Assets, NEW misfits \in SUBSET Assets, NEW force,
             NEW last \in Assets, NEW gone \in Assets,
             SetOrderAssets(o, wanted, force, misfits, last, gone)
      PROVE  /\ r = o /\ last \in wanted \ AssetsOf(o) /\ Usable(last)
             /\ prebuild'[last].usedBy = o
             /\ by'[o]["production"] = prebuild[last].producer
  <2> DEFINE add  == wanted \ AssetsOf(o)
             used == {a \in add : Usable(a)}
             fits == used \ misfits
  <2>1. r = o
    BY <1>1 DEF SetOrderAssets
  <2>2. /\ fits # {} /\ last \in fits
        /\ by'[o]["production"] = prebuild[last].producer
    BY <1>1, <2>1 DEF SetOrderAssets, Stages
  <2>3. prebuild'[last].usedBy = o
    <3>1. last \in used
      BY <2>2
    <3>2. prebuild'[last] = [prebuild[last] EXCEPT !.usedBy = o, !.voided = FALSE,
                                                  !.rework = (last \in misfits)]
      BY <1>1, <3>1 DEF SetOrderAssets
    <3>3. QED
      BY <3>2 DEF PrebuildRows
  <2>4. QED
    BY <2>1, <2>2, <2>3
<1>2. ASSUME NEW a \in Assets, PrebuildRework(o, a)
      PROVE  FALSE
  BY <1>2 DEF PrebuildRework
<1>3. PICK wanted \in SUBSET Assets, misfits \in SUBSET Assets, force \in BOOLEAN,
           last \in Assets, gone \in Assets :
             SetOrderAssets(o, wanted, force, misfits, last, gone)
  BY <1>2 DEF MatchStep
<1>4. QED
  BY <1>1, <1>3, NullsAreNotRows DEF Usable

\* No other step of the desk makes an order produced
LEMMA NextSigns ==
  ASSUME RecordsOK, [Next]_recordVars, NEW r \in Orders,
         "preparing" \in stages[r], by[r]["preparing"] # NoOne,
         "production" \in stages'[r] \ stages[r]
  PROVE  \/ by'[r]["production"] \in Admins \cup {by[r]["preparing"]}
         \/ \E a \in Assets : /\ prebuild[a].usedBy # r /\ prebuild'[a].usedBy = r
                              /\ by'[r]["production"] = prebuild[a].producer
<1>1. ASSUME NEW o \in Orders, MarkStep(o)
      PROVE  stages'[r] \subseteq stages[r]
  BY <1>1 DEF MarkStep, Cancel, RestoreCancel, Archive, Unarchive, SetDelivered, PickOption,
              RecordsOK, OrdersOK
<1>2. ASSUME NEW S \in SUBSET Orders, NEW u \in Users, ShipToday(S, u)
      PROVE  "production" \notin stages'[r] \ stages[r]
  BY <1>2 DEF ShipToday
<1>3. PrebuildNext \/ AssetNext => UNCHANGED stages
  BY PrebuildFrame, AssetFrame
<1>4. UNCHANGED recordVars => UNCHANGED stages
  BY DEF recordVars, orderVars
<1>5. PICK o \in Orders : (\E u \in Users : StageStep(o, u)) \/ MatchStep(o)
  BY <1>1, <1>2, <1>3, <1>4 DEF Next, BoardNext
<1>6. QED
  BY <1>5, StageSigns, MatchSigns

\* Nobody signs for the production of an order another worker has claimed, but an administrator
\* or the builder of the prebuild that the same step uses up (_stage_check, _set_order_assets)
THEOREM DeskClaimIsKept == Spec => ClaimIsKept
<1>1. RecordsOK /\ [Next]_recordVars =>
        [\A o \in Orders :
           LET claimant == by[o]["preparing"]
               signed   == by'[o]["production"] IN
           /\ "preparing" \in stages[o] /\ claimant # NoOne
           /\ "production" \in stages'[o] \ stages[o]
           => \/ signed \in Admins \cup {claimant}
              \/ \E a \in Assets : /\ prebuild[a].usedBy # o /\ prebuild'[a].usedBy = o
                                   /\ signed = prebuild[a].producer]_recordVars
  BY NextSigns
<1>2. QED
  BY <1>1, DeskTyping, PTL DEF Spec, ClaimIsKept

\* A machine that leaves the statuses a mall may sell is off the malls' stock after the step
LEMMA NextUnlists ==
  ASSUME RecordsOK, [Next]_recordVars, NEW c \in Assets,
         status[c] \in Available \cup {"reserved"}, status'[c] \notin Available \cup {"reserved"}
  PROVE  c \notin listed'
<1> USE DEF RecordsOK, AssetsOK, Available
<1>1. ASSUME NEW o \in Orders, NEW u \in Users, StageStep(o, u)
      PROVE  c \notin listed'
  BY <1>1 DEF StageStep, PreparingOn, PreparingOff, ProductionOn, ProductionOff, InspectionOn,
     InspectionOff, ShippingOn, ShippingOff, Unshipped, ShipAssets, assetVars
<1>2. ASSUME NEW o \in Orders, NEW S \in SUBSET Assets
      PROVE  Released(o, S)[c] \in Available \cup {"reserved"}
  BY DEF Released, Back
<1>3. ASSUME NEW o \in Orders, MatchStep(o)
      PROVE  FALSE
  <2>1. ASSUME NEW wanted, NEW misfits, NEW force, NEW last, NEW gone,
               SetOrderAssets(o, wanted, force, misfits, last, gone)
        PROVE  FALSE
    <3>1. AssetsOf(o) \ wanted \in SUBSET Assets
      BY DEF AssetsOf
    <3>2. Released(o, AssetsOf(o) \ wanted)[c] \in Available \cup {"reserved"}
      BY <1>2, <3>1
    <3>3. QED
      BY <2>1, <3>2 DEF SetOrderAssets
  <2>2. ASSUME NEW a, PrebuildRework(o, a)
        PROVE  FALSE
    BY <2>2 DEF PrebuildRework, assetVars
  <2>3. QED
    BY <1>3, <2>1, <2>2 DEF MatchStep
<1>4. ASSUME NEW o \in Orders, MarkStep(o)
      PROVE  FALSE
  <2>1. AssetsOf(o) \in SUBSET Assets
    BY DEF AssetsOf
  <2>2. ASSUME NEW force, Cancel(o, force)
        PROVE  FALSE
    <3>1. Released(o, AssetsOf(o))[c] \in Available \cup {"reserved"}
      BY <1>2, <2>1
    <3>2. QED
      BY <2>2, <3>1 DEF Cancel
  <2>3. QED
    BY <1>4, <2>2 DEF MarkStep, RestoreCancel, Archive, Unarchive, SetDelivered, PickOption,
       assetVars
<1>5. ASSUME NEW S \in SUBSET Orders, NEW u \in Users, ShipToday(S, u)
      PROVE  c \notin listed'
  BY <1>5 DEF ShipToday, ShipAssets
<1>6. CASE PrebuildNext
  BY <1>6, PrebuildFrame
<1>7. CASE AssetNext
  BY <1>7 DEF AssetNext, ChangeStatus, ChangeTier, ChangeListing, PurchaseCancel,
     PurchaseUncancel, Restock, Receive
<1>8. CASE UNCHANGED recordVars
  BY <1>8 DEF recordVars, assetVars
<1>9. QED
  BY <1>1, <1>3, <1>4, <1>5, <1>6, <1>7, <1>8 DEF Next, BoardNext

\* A machine that can be sold no more leaves the malls' stock in the transaction that changes
\* its status, whoever changes it (_unlist)
THEOREM DeskUnlistsWhatLeaves == Spec => LeavingStockUnlists
<1>1. RecordsOK /\ [Next]_recordVars =>
        [\A a \in Assets :
           status[a] \in Available \cup {"reserved"} /\ status'[a] \notin Available \cup {"reserved"}
           => a \notin listed']_recordVars
  BY NextUnlists
<1>2. QED
  BY <1>1, DeskTyping, PTL DEF Spec, LeavingStockUnlists
-----------------------------------------------------------------------------
(***************************************************************************)
(* One order per machine, where duplicates are off                         *)
(***************************************************************************)
Has(o, a) == link[o][a] # Unlinked

\* No two orders have one machine, archived or not, and a machine that an order has is reserved
\* or, for an order that went out, shipped
HolderInv ==
  /\ \A o, p \in Orders, a \in Assets : Has(o, a) /\ Has(p, a) => o = p
  /\ \A o \in Orders, a \in Assets :
       Has(o, a) => status[a] = "shipped" \/ (status[a] = "reserved" /\ ~Shipped(o))

\* Nobody but an order's match gives it a machine
LEMMA LinksOnlyGo ==
  ASSUME RecordsOK, [Next]_recordVars, \A o \in Orders : ~MatchStep(o)
  PROVE  \A o \in Orders, a \in Assets : link'[o][a] \in {link[o][a], Unlinked}
<1>1. ASSUME NEW o \in Orders, NEW u \in Users, StageStep(o, u)
      PROVE  UNCHANGED link
  BY <1>1, StageFrame
<1>2. ASSUME NEW o \in Orders, MarkStep(o)
      PROVE  \A r \in Orders, a \in Assets : link'[r][a] \in {link[r][a], Unlinked}
  <2>1. ASSUME NEW force, Cancel(o, force)
        PROVE  \A r \in Orders, a \in Assets : link'[r][a] \in {link[r][a], Unlinked}
    BY <2>1 DEF Cancel, Unlink, RecordsOK, OrdersOK
  <2>2. QED
    BY <1>2, <2>1, MarkFrame
<1>3. ASSUME NEW S \in SUBSET Orders, NEW u \in Users, ShipToday(S, u)
      PROVE  UNCHANGED link
  BY <1>3 DEF ShipToday
<1>4. PrebuildNext \/ AssetNext \/ UNCHANGED recordVars => UNCHANGED link
  BY PrebuildFrame, AssetFrame DEF recordVars
<1>5. QED
  BY <1>1, <1>2, <1>3, <1>4 DEF Next, BoardNext

\* A match gives an order only machines that no order has, and reserves them
LEMMA MatchTakes ==
  ASSUME RecordsOK, CancelledHoldsNothing, HolderInv, ~AllowDuplicate, NEW o \in Orders, MatchStep(o),
         NEW r \in Orders, NEW c \in Assets, Has(r, c)'
  PROVE  /\ Has(r, c) \/ (r = o /\ \A p \in Orders : ~Has(p, c))
         /\ status'[c] = "shipped" \/ (status'[c] = "reserved" /\ ~Shipped(r)')
<1> USE DEF RecordsOK, OrdersOK, AssetsOK, Has
<1>1. ASSUME NEW wanted, NEW misfits, NEW force, NEW last, NEW gone,
             SetOrderAssets(o, wanted, force, misfits, last, gone)
      PROVE  /\ Has(r, c) \/ (r = o /\ \A p \in Orders : ~Has(p, c))
             /\ status'[c] = "shipped" \/ (status'[c] = "reserved" /\ ~Shipped(r)')
  <2> DEFINE add  == wanted \ AssetsOf(o)
             drop == AssetsOf(o) \ wanted
  <2>1. /\ link'[o][c] = IF c \in add THEN status[c]
                         ELSE IF c \in drop THEN Unlinked ELSE link[o][c]
        /\ \A p \in Orders \ {o} : link'[p] = link[p]
        /\ status'[c] = IF c \in add THEN "reserved" ELSE Released(o, drop)[c]
        /\ c \in add => Matchable(o, c, force)
        /\ ~Shipped(o)
        /\ \A p \in Orders : Shipped(p)' => Shipped(p)
    <3>1. \A p \in Orders : Shipped(p)' => Shipped(p)
      BY <1>1 DEF SetOrderAssets, Shipped, Stages
    <3>2. /\ link'[o][c] = IF c \in add THEN status[c]
                           ELSE IF c \in drop THEN Unlinked ELSE link[o][c]
          /\ \A p \in Orders \ {o} : link'[p] = link[p]
      BY <1>1 DEF SetOrderAssets
    <3>3. QED
      BY <1>1, <3>1, <3>2 DEF SetOrderAssets
  <2>2. ASSUME c \in add
        PROVE  \A p \in Orders : ~Has(p, c)
    <3>1. CASE status[c] \in Available
      BY <3>1 DEF HolderInv, Available
    <3>2. CASE Holders(c) = {} /\ status[c] \in {"scrapped", "shipped"}
      BY <3>2 DEF Holders, CancelledHoldsNothing, AssetsOf
    <3>3. QED
      BY <2>1, <2>2, <3>1, <3>2 DEF Matchable, Forceable
  <2>3. CASE c \in add
    BY <2>1, <2>2, <2>3
  <2>4. CASE c \notin add
    <3>1. Has(r, c) /\ c \notin drop
      BY <2>1, <2>4 DEF HolderInv, AssetsOf
    <3>2. status'[c] = status[c]
      <4>1. drop \in SUBSET Assets /\ c \in Assets \ drop
        BY <3>1 DEF AssetsOf
      <4>2. QED
        BY <2>1, <2>4, <4>1, ReleasedFrame
    <3>3. QED
      BY <2>1, <3>1, <3>2 DEF HolderInv
  <2>5. QED
    BY <2>3, <2>4
<1>2. ASSUME NEW a \in Assets, PrebuildRework(o, a)
      PROVE  /\ Has(r, c)
             /\ status'[c] = "shipped" \/ (status'[c] = "reserved" /\ ~Shipped(r)')
  BY <1>2 DEF PrebuildRework, HolderInv, Shipped, assetVars, Stages
<1>3. QED
  BY <1>1, <1>2 DEF MatchStep

\* Where no step but a match gives a machine, an order that still has its machine has it as before
LEMMA NextTakes ==
  ASSUME RecordsOK, CancelledHoldsNothing, HolderInv, ~AllowDuplicate,
         [Next /\ \A a \in Assets : Restock(a) => Holders(a) = {}]_recordVars,
         NEW r \in Orders, NEW c \in Assets, Has(r, c)'
  PROVE  /\ Has(r, c) \/ (MatchStep(r) /\ \A p \in Orders : ~Has(p, c))
         /\ status'[c] = "shipped" \/ (status'[c] = "reserved" /\ ~Shipped(r)')
<1> DEFINE Kept == Has(r, c) => status'[c] = "shipped" \/ (status'[c] = "reserved" /\ ~Shipped(r)')
<1> USE DEF RecordsOK, OrdersOK, AssetsOK, HolderInv, Has, Shipped
<1>1. ASSUME NEW o \in Orders, NEW u \in Users, StageStep(o, u)
      PROVE  Kept
  BY <1>1 DEF StageStep, PreparingOn, PreparingOff, ProductionOn, ProductionOff, InspectionOn,
     InspectionOff, ShippingOn, ShippingOff, Unshipped, ShipAssets, AssetsOf, assetVars, Stages
<1>2. ASSUME NEW o \in Orders, NEW force \in BOOLEAN, Cancel(o, force)
      PROVE  Kept
  <2>1. r # o /\ Has(r, c)
    BY <1>2 DEF Cancel, Unlink
  <2>2. AssetsOf(o) \in SUBSET Assets /\ c \in Assets \ AssetsOf(o)
    BY <2>1 DEF AssetsOf
  <2>3. status'[c] = status[c] /\ stages'[r] = stages[r]
    BY <1>2, <2>1, <2>2, ReleasedFrame DEF Cancel
  <2>4. QED
    BY <2>3
<1>3. ASSUME NEW o \in Orders, MarkStep(o), \A force \in BOOLEAN : ~Cancel(o, force)
      PROVE  Kept
  BY <1>3, MarkFrame
<1>4. ASSUME NEW S \in SUBSET Orders, NEW u \in Users, ShipToday(S, u)
      PROVE  Kept
  BY <1>4 DEF ShipToday, ShipAssets, AssetsOf
<1>5. CASE PrebuildNext
  BY <1>5, PrebuildFrame
<1>6. CASE AssetNext /\ \A a \in Assets : Restock(a) => Holders(a) = {}
  <2>1. ASSUME NEW a \in Assets, Restock(a), Has(r, c)
        PROVE  status'[c] = status[c]
    <3>1. r \in Holders(c)
      BY <2>1 DEF Holders, CancelledHoldsNothing, AssetsOf
    <3>2. QED
      BY <1>6, <2>1, <3>1 DEF Restock
  <2>2. ASSUME Has(r, c), \A a \in Assets : ~Restock(a)
        PROVE  status'[c] = status[c]
    BY <1>6, <2>2 DEF AssetNext, ChangeStatus, ChangeTier, ChangeListing, PurchaseCancel,
       PurchaseUncancel, Receive, Cancelable
  <2>3. QED
    BY <1>6, <2>1, <2>2, AssetFrame
<1>7. CASE UNCHANGED recordVars
  BY <1>7 DEF recordVars, assetVars, orderVars
<1>8. CASE \A o \in Orders : ~MatchStep(o)
  <2>1. Has(r, c)
    BY <1>8, LinksOnlyGo
  <2>2. Kept
    BY <1>1, <1>2, <1>3, <1>4, <1>5, <1>6, <1>7, <1>8 DEF Next, BoardNext, MarkStep
  <2>3. QED
    BY <2>1, <2>2
<1>9. QED
  BY <1>8, MatchTakes

\* Every step of the careful desk keeps the one order of a machine
LEMMA NextHolders ==
  RecordsOK /\ CancelledHoldsNothing /\ HolderInv /\ ~AllowDuplicate
    /\ [Next /\ \A a \in Assets : Restock(a) => Holders(a) = {}]_recordVars
  => HolderInv'
<1> SUFFICES ASSUME RecordsOK, CancelledHoldsNothing, HolderInv, ~AllowDuplicate,
                    [Next /\ \A a \in Assets : Restock(a) => Holders(a) = {}]_recordVars
             PROVE  HolderInv'
  OBVIOUS
<1>1. ASSUME NEW o \in Orders, NEW p \in Orders, NEW a \in Assets, Has(o, a)', Has(p, a)'
      PROVE  o = p
  <2>1. CASE Has(o, a) /\ Has(p, a)
    BY <2>1 DEF HolderInv
  <2>2. CASE Has(o, a) /\ ~Has(p, a)
    BY <1>1, <2>2, NextTakes
  <2>3. CASE ~Has(o, a) /\ Has(p, a)
    BY <1>1, <2>3, NextTakes
  <2>4. CASE ~Has(o, a) /\ ~Has(p, a)
    <3>1. MatchStep(o) /\ MatchStep(p)
      BY <1>1, <2>4, NextTakes
    <3>2. o # p => link'[p] = link[p]
      BY <3>1, MatchLinks
    <3>3. QED
      BY <1>1, <2>4, <3>2 DEF Has
  <2>5. QED
    BY <2>1, <2>2, <2>3, <2>4
<1>2. ASSUME NEW o \in Orders, NEW a \in Assets, Has(o, a)'
      PROVE  status'[a] = "shipped" \/ (status'[a] = "reserved" /\ ~Shipped(o)')
  BY <1>2, NextTakes
<1>3. QED
  BY <1>1, <1>2 DEF HolderInv

\* What holds of the desk, and the one order each machine has where duplicates are off
LEMMA CarefulDesk ==
  CarefulSpec /\ ~AllowDuplicate => [](RecordsOK /\ CancelledHoldsNothing /\ HolderInv)
<1>1. Init => CancelledHoldsNothing /\ HolderInv
  BY DEF Init, CancelledHoldsNothing, HolderInv, Has, Cancelled
<1>2. [Next /\ \A a \in Assets : Restock(a) => Holders(a) = {}]_recordVars => [Next]_recordVars
  OBVIOUS
<1>3. ASSUME ~AllowDuplicate
      PROVE  CarefulSpec => [](RecordsOK /\ CancelledHoldsNothing /\ HolderInv)
  <2>1. RecordsOK /\ CancelledHoldsNothing /\ HolderInv
          /\ [Next /\ \A a \in Assets : Restock(a) => Holders(a) = {}]_recordVars
        => (RecordsOK /\ CancelledHoldsNothing /\ HolderInv)'
    BY <1>2, <1>3, NextTyping, NextHoldsNothing, NextHolders
  <2>2. QED
    BY <1>1, <2>1, InitTyping, PTL DEF CarefulSpec
<1>4. QED
  BY <1>3

\* With order_asset_duplicate off no machine is promised to two open orders, where staff put only
\* machines in stock again that no order holds (_set_order_assets, asset_restock)
THEOREM DeskNeverSellsTwice == CarefulSpec => []NoDoubleSale
<1>1. HolderInv => NoDoubleSale
  <2>1. ASSUME HolderInv, NEW a \in Assets
        PROVE  Cardinality(LiveHolders(a)) <= 1
    <3>1. CASE LiveHolders(a) = {}
      BY <3>1, FS_EmptySet
    <3>2. ASSUME NEW o \in LiveHolders(a)
          PROVE  Cardinality(LiveHolders(a)) <= 1
      <4>1. ASSUME NEW p \in LiveHolders(a) PROVE p = o
        BY <2>1, <3>2 DEF HolderInv, Has, LiveHolders, Holders
      <4>2. LiveHolders(a) = {o}
        BY <3>2, <4>1
      <4>3. Cardinality({o}) = 1
        BY FS_Singleton
      <4>4. QED
        BY <4>2, <4>3
    <3>3. QED
      BY <3>1, <3>2
  <2>2. QED
    BY <2>1 DEF NoDoubleSale
<1>2. AllowDuplicate => NoDoubleSale
  BY DEF NoDoubleSale
<1>3. ASSUME AllowDuplicate PROVE []NoDoubleSale
  BY <1>2, <1>3, PTL
<1>4. ASSUME ~AllowDuplicate PROVE CarefulSpec => []NoDoubleSale
  BY <1>1, <1>4, CarefulDesk, PTL
<1>5. QED
  BY <1>3, <1>4

\* The machines of an order that went out do not wait in the store: with duplicates off and care
\* in restocking, each way to close an order ships its machines and each way back reserves them
\* (_stage_check, ship_today)
THEOREM DeskShippedIsOut == CarefulSpec /\ ~AllowDuplicate => []ShippedIsOut
<1>1. HolderInv => ShippedIsOut
  BY DEF HolderInv, ShippedIsOut, Has, AssetsOf
<1>2. QED
  BY <1>1, CarefulDesk, PTL
=============================================================================
