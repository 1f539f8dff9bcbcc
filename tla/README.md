# A verification project for the operations workflow system (OWS)

OWS is the back office of a shop that sells refurbished computers: orders come in from malls, staff
build and inspect machines, match them to orders, print waybills of the parcel company CJ, collect
machines that come back and repair them, and buy, sell and hand over stock. It is a Flask program
over SQLite (`src/app`), one process with eight request threads and some background threads. It
replaces an old system, TMS, step by step and follows it meanwhile; a sister program, RMS, rents
machines out.

This directory states what that program promises, in TLA+, checks the promises on small instances
with TLC, and proves some of them for every instance with TLAPS.

## 1. How the program runs

* Every write is made inside `tx(write=True)`, a `BEGIN IMMEDIATE` transaction (`app/db.py`).
  Write transactions exclude each other, so one transaction is one atomic step.
* The program never waits for another system inside a transaction. A request that talks to CJ, a
  mall, the text provider, TMS or RMS is *look and reserve* (a transaction), *call*, *record*
  (another transaction). Other requests run in between, and the process may stop between any two.
* Background threads: the CJ tracker (every three hours), the mall collector, the sweeper of invoice
  pushes (every ten minutes), the link with TMS and the automatic sync of its exported sheets, the
  watcher of the QC program's file.
* A request's account is read before its transaction (`load_session`), so is what TMS says of a
  number, and what a preview showed: each of these may be old when it is used.

## 2. Inventory

Components, what each keeps, and what makes it correct. `PROJECT.json` lists the same parts with
their status.

| Component | State | Operations | Hard behaviour | Correct when |
|---|---|---|---|---|
| Orders: stages (`orders`) | `orders`: preparing, production, inspection, shipping and who did them; cancelled, archived, delivered | PATCH /orders, bulk, ship-today | workers overtake each other; a stage undone under a later one; two ways to ship | a later stage implies the earlier ones; a claim is kept; closing an order ships its machines |
| Orders: matching | `order_assets` with the status a machine had before | `_set_order_assets`, cancel | two orders and one machine; letting go in any order; archived orders | no machine is sold twice; a reserved machine has an order; a cancelled order holds nothing |
| Orders: settlement | amount, fee, refund, `order_extras` | details, settle, extras, merge, backfill | amounts that come later, extras on top, rates that change | a fee can be explained by the amount |
| Prebuild | `asset_prebuilds` | create, steps, delete; used and freed by matching | credit and rework when several are used | used prebuilds belong to linked machines; void credit only for a rework |
| Prep options | `order_option_checks`, part costs | tick, rules | ticks around matching | an option costs a machine once, and only while it is ticked |
| Waybills | `waybills`, `orders.tracking_no` | issue, A/S return, manual, cancel | lost CJ answers, crashes, stale snapshots, reused numbers | one shipment per order; the shown number is alive; requests end |
| Recall and tracking | `waybills` of type recall, `assets.status` | recall, received, tracker, sweep | two pickups of one machine; tracker against people; crash | a machine 'returning' is awaited; so is a ticket 'collecting' |
| A/S tickets (`asvc`) | `as_tickets` | create, update, payment, delete | several fields in one request; CJ closes tickets | a closed ticket's machine is out |
| Purchase: machines | `assets`, `asset_events` | status, tier, listing, cancel, restock, receipt | against matching | machines leave the malls' stock when they cannot be sold |
| Purchase: slips | `purchase_batches` | create, move, cancel, return, confirm, pay | the same machines and parts through several of these | machines and parts follow their slip |
| Purchase: parts | `part_stock_moves`, `asset_repairs`, specifications | options, use by hand, repairs, stock-taking | given back twice or never | no part is lost or counted twice |
| Sale slips | `sale_slips`, `tms_sales`, events of comeback | create, edit, cancel, undo; TMS's slips | two sources of one sale | a machine is sold on one slip |
| Numbering | `asset_no_counters`, `assets.asset_no` | register, type, swap, take over | two requests, and TMS in between | a number comes into use once |
| Transfers | `asset_transfers`, `assets.division` | propose, commit, ack, reject, roll back, exceptions | two programs, time limit, lost answers | a machine has one owner, a roll-back gives back what the commit took |
| TMS link, automatic sync | `tms_shadow`, the link's state file | ticks, sheets, deletions, restorations | failed ticks, old sheets, hands in between | machines end up as TMS has them; hand work stays |
| TMS outbox | `tms_outbox` | queue, send, retry, give up | answers lost, imports in between | a cost reaches TMS or waits |
| First judgement, cutover, reclassification | `division_ref`, `tms_dual_entries`, audit log | plan/apply/undo, scan/judge, apply/undo | a person decides in between | undo leaves decisions; late input is listed |
| Masters | `suppliers`, `supplier_tms_links`, `models` | create, rename, alias, split, sync | several identities, chains | one primary, flat aliases, current values |
| Mall collection, import | `orders` | collect, upload, edit, shipping updates | the same order from two sources, named by number, by contents or not at all | an order known by a key is not stored again; staff's work is kept |
| QC follow-up | `orders`, `order_assets` | read file, advance, archive, merge, undo | one sale in two rows, two sales that look like one | the same file changes nothing twice; a merge loses neither sale nor machine |
| Invoice push | `mall_sent_at` | at once, by hand, sweep | lost answers, stops, reissued numbers | an issued number is told |
| Texts (`notify`) | `sms_log` | automatic, by hand, test | two requests, the day's cap | a text once |
| Accounts (`auth`, `settings`) | `users`, `sessions`, `user_perms` | set up, log in, manage | administrators against each other | an administrator remains |

The parts meet in a few rows. An asset's `status` is written by matching, stages, purchase, sale
slips, imports, recalls and tickets; `order_assets` by matching, cancelling and arriving recalls; a
waybill's `status` by the request that issues it, by cancels, by people at the door and by the
tracker; a ticket's `status` by the repair desk and by everything that happens to its parcels; an
asset's `division` by hand-overs, staff, the first judgement and imports. Most of the properties
relate two of these.

## 3. Modules

```
OwsState            rows, values, queries the handlers share, types, Init
 |- OrderBoard      stages, matching, cancelling, archiving, the option tick
 |- Prebuild        prebuilt machines
 |- AssetDesk       the purchase screens, machine by machine
 |- AsDesk          repair tickets
 |- Courier         requests to CJ: reserve, register, fail, crash
 |   |- Waybill     issuing and cancelling
 |   |- Recall      pickups, the tracker, the sweep
 |- Transfers       hand-over of machines in two phases      implements Handover
 |- Slips  Parts  SaleLedger                                 the purchase house
 |- Desk  = OrderBoard + Prebuild + AssetDesk       (Spec, promises of the desk)
 |- Ows   = Desk + Waybill + Recall + AsDesk        (OwsSpec, promises of the parcels)
Handover            what a hand-over promises, abstractly
Numbering  InvoicePush  TmsOutbox  Texts  Intake  TmsSync  Accounts
Backfill  Cutover  Masters  Reclass  QcFollow  Takings       components with tables of their own
Induction           folds, sums and induction over finite sets and numbers (lemmas)
DeskProofs          theorems about Desk          ParcelProofs     about Ows
HouseProofs         Numbering, Slips, SaleLedger TransfersProofs  Transfers and Handover
OutsideProofs       Accounts, Cutover, TmsSync, QcFollow, Reclass
IntakeProofs        Intake, Takings              MastersProofs    Masters
MCDesk MCParcel MCRecall              the desk and the parcels
MCHouse    OrderBoard + AssetDesk + Transfers + Slips + Parts + SaleLedger, and Numbering
MCFollow   InvoicePush and TmsSync, with fairness
MCOutside  Intake, Accounts, Cutover, Masters, Reclass, QcFollow, Takings
MCClaims            Texts, Takings, QcFollow where a sentence of the code is refuted (the runs
                    MCTexts, MCFee, MCChain); MCOutbox and MCBackfill check TmsOutbox and
                    Backfill themselves
MCStart                               orders that have passed some stages
```

How state and actions correspond to the code:

* Variables are columns or tables, named beside their declaration. In `OwsState`, `link[o][a]` is
  `Unlinked` or the row's `prev_status`, so the link and the status a machine gets back are one
  value, as in the table. A variable whose comment begins with *history* is not the program's: it
  remembers what a property speaks of (`times`, `moved`, `supplied`, `told`, `got`, `decided`).
* One action is one write transaction, with all it does: `Cancel` frees machines, prebuilds and links
  in the step that marks the order; `CancelSlip` cancels machines and takes parts back in the step
  that cancels the slip.
* Where two components write in one transaction, the composing module joins their halves. Matching in
  the scene of parts is `SetOrderAssets` (machines and links) *and* `PartsOnMatch` (the parts the
  ticked options book), cancelling is `Cancel` *and* `PartsOnCancel`.
* `SetOrderAssets` handles all machines of one call. Its parameters `misfits` (prebuilds whose
  specification does not fit), `last` and `gone` (which of several machines comes last in id order)
  stand for data the model does not have.
* A CJ request is `Reserve`, `Register` for each parcel, and then `IssueCommit` / `RecallCommit` or
  `IssueCleanUp` / `RecallFail`. `job` is the local state of the running request, and `booked` is
  CJ's own record, which the program cannot see.
* A cancel is `CancelRead` (snapshot), `CancelAsk`, `CancelWrite`, which goes by the snapshot
  (`undo`). A tracker round is `StartRound` (its list), then for one row after another `TrackAsk`
  (what CJ answers, kept in `watch`) and `TrackWrite`, a transaction of its own; `Apply` writes back
  the status the round read, as `_apply_stage` does. `Crash` drops every running request and the
  tracker's list; rows and bookings stay.
* Every other call is cut the same way: `ReadOrder`, `CallMall`, `Record` for an invoice; `LookUp`,
  `GoOut`, `Logged` for a text; `Ask`, then `RegisterTyped` for a number; `Begin`, `Fetch`, `Store`
  for mall orders; `FetchRows`, `ApplyRows`, `FetchMarks`, `ApplyMarks`, `Finish` for a tick of the
  TMS link, which `FailTick` may end anywhere; `StartScan`, `ScanPage`, `EndScan` for the cut-over
  alarm; `ReadQc`, then `SyncOnce` for the QC file; `Plan`, `Apply`, `Undo` for the first judgement;
  `AskApply`, then `Apply` for a reclassification; `Call` (the account is read), then the handler.
* In `Transfers` the proposal is looked at once when made (`Propose`) and again when committed
  (`Commit`, which stops if anything in the way has come up). `Handover` has neither proposals nor
  time limits: `owner` is `division`, and `open` is computed from the commits that are not settled.

Definitions with the comment *mutant* are wrong versions of the definition they precede. No
specification uses them. They show, for each property, a plausible mistake the property catches.

## 4. What the runs check

The runs that pass, with the size of their state space:

| Run | States | Shows |
|---|---|---|
| `MCDesk` | 828 k | one order, two machines that can both be prebuilt, a worker and an administrator; or two orders and one machine, duplicates off, beside the purchase handlers: `InspectedIsProduced`, `ReservedIsHeld`, `CancelledHoldsNothing`, `UsedIsLinked`, `VoidIsRework`, `ClaimIsKept`, `NoDoubleSale`, `ShippedIsOut` |
| `MCParcel` | 708 k | issuing and cancelling one or two parcels of an order, among people only (`CalmRequestsEnd`, under fairness) or with crashes, the tracker and the rest of the order's life: `TypeOK`, `OneShipment`, `TrackingIsAlive`, `OnlyOldNewsRevives` |
| `MCRecall` | 2.38 M | an order and a ticket collect the same machine, by hasty people with crashes or by people who wait with the tracker, and a ticket's whole life: `ReturningIsAwaited`, `CollectingIsAwaitedInTurn`, `ReturnedGoesOut` |
| `MCHouse` | 627 k | the purchase house in five scenes: `HandoverKept` (the refinement), `HandoverIsClear`, `ArrivedWithItsSlip`, `SlipsKeepTheirParts`, `PartsAreConserved`, `OptionCostIsCurrent`, `SoldOnOneSlip`, `NumbersComeOnce`, `HouseOK` |
| `MCFollow` | 89 k | what goes on by itself: `IssuedIsTold` and `TmsIsFollowedThere` under fairness, `HandWorkIsKept`, `ImportsLeaveNoGhost`, `FollowOK` |
| `MCOutside` | 783 k | ten scenes around the desk: `ImportsAddOnce`, `ImportsKeepWork`, `AdminRemains`, `LateInputIsListed`, `MastersAgree`, `HandCategoryStays`, `FollowUpSettles`, `MergesLoseNothing`, `FeeIsExplained`, `OutsideOK` |

A *scene* is chosen in the initial state and never left; the variables of the other scenes rest. It
keeps components that share no table in one run without multiplying their states. The scenes that
do share tables with the desk (`handover`, `slips`, `parts`, `sales`) take the desk's own actions in
between: matching, shipping, cancelling, listing, purchase cancels.

`CHECK_DEADLOCK FALSE` is set in all of them: the bounds (no waybill number left, every request
ended) let a run come to rest, and a desk where nobody does anything is not an error.

### Bounds and why they are enough

* *One or two orders, one or two machines.* The properties speak of one order and a machine, or of
  two orders and one machine; the second machine in the first scene of `MCDesk` is there because the
  stages an order takes over from prebuilds depend on which goes last (the two are alike, which is the
  symmetry of that run), the one in the scene of hand-overs because a commit moves several at once.
* *One way to say a thing.* The first scene of `MCDesk` leaves out choices that come to the same: a
  prebuild that is not taken has no specification to compare, and `force` matters to scrapped machines
  and open waybills, of which that scene has none.
* *`MaxWid`, `MaxCid`, `MaxSlipNo`, `MaxInvoices`* bound the numbers given out: two are two
  overlapping requests, three add one that begins after another has ended.
* *`HandStatuses`* is the set of statuses staff choose by hand: one that can be matched, one that is
  in repair, and, in `MCDesk`, `scrapped`, which only a forced match takes, make the differences
  the code makes.
* *Start.* `MCDesk` (its second scene), `MCParcel`, `MCRecall` and `MCHouse` start from `StartAt`:
  orders that have passed the stages the scenario needs, a state the handlers reach. The others start
  empty.
* *`calm`, `scene`.* In `MCParcel`, and in the scenes `waiting` and `ticket` of `MCRecall`, nobody
  cancels a pending waybill while its request runs, as the shipping screen asks
  (`src/static/js/shipping.js:29`), and a parcel is not scanned before the request that books it is
  answered, which takes seconds. `ReturningIsAwaited` holds with hasty cancels as well.
* In the second scene of `MCDesk` staff restock only machines no order links; in `MCParcel` a cancel without CJ
  (`forceLocal`) is asked for among people only, and (`Waits`) nobody writes a row between CJ's
  answer to the tracker and the tracker's write, a moment. `MCRevived` is the same module without
  `Waits`. Section 5 says what happens otherwise.
* *Slips*: what the screen sends of the money varies where money moves: the amount paid at a
  confirmation, and total and amount paid at an edit of the second slip.
* *Duplicates* (`AllowDuplicate`, the setting `order_asset_duplicate`) are off where two orders meet:
  `NoDoubleSale` is promised only while they are off. The theorems about `Spec` cover both.
* *Hand-overs*: the desk touches one machine and staff decide about the other, so both kinds of change
  meet the two commits. RMS reports of the first only, at any time.
* *Parts*: two sizes, one axis of the specification; counting the store moves a size by one. *Sales*:
  one slip made here, one of TMS; `TmsRevives` is FALSE, TMS does not take up a dead sale.
* *TMS*: `Whims` is FALSE, TMS does not empty a column nor delete a row again that it restored
  within an outage. One number, two values, one change by staff, one failed tick: enough for a tick
  and a sheet to be overtaken by the next change.
* *Cut-over*: `Patient` is TRUE, a new date is saved between scans. Pages of one row make every scan
  of two changes one that can fail half way.
* *Masters* are three scenes because supplier aliases, supplier identities and models do not read each
  other; two words in two spellings make equal, different and merely similar names.
* *Imports*: two orders of one customer for one thing at Coupang, the second of a day's later hour;
  files tell of the first by a made-up number without address and of the second by no number at all.
  So every kind of key decides, two of an order's keys may find different rows, and the second order
  is new for one source and old for another. Staff touch the row that came first and do not retype it
  as the second order, and the mall's address stays while staff change theirs. The proofs have none
  of these bounds.
* *QC*: in the scene `qc` one order of QC, one row of a mall, one machine and every action of the
  desk; in the scene `twins` two orders of QC that look alike, both imported, the second shipped, with
  a machine each, and a row of a mall, where the desk cancels and matches nothing. Every pair is alike
  enough, as the thresholds decide only which pairs are looked at. `Amount` says only the mall's row
  has one.
* *Money*: rates are 0 or 1, so nothing is rounded; amounts up to two make an extra smaller than, equal
  to and larger than the order.

### Fairness

* `MCParcel`: a running request takes its next step. The code justifies it: each call to CJ has a
  time limit (`src/app/cj/client.py:69`, 15 seconds for a token, `:93`, 20 seconds for a call, one
  repetition), an exception of a call is a failed call, and both endings are plain code behind it.
  `CalmRequestsEnd` says nothing of a process that is stopped: then the row stays `pending`, which
  the screen tells staff to cancel.
* `MCFollow`, `push`: the sweeper begins a round every ten minutes (`start_push_sweeper`) and each of
  its calls ends, by a time limit. Nothing is assumed of the requests that push at once: they may
  die. A stop drops the threads and the counts of attempts.
* `MCFollow`, `sync`: a tick goes on (the daemon's loop; its calls to the gate have time limits), an
  exported sheet that waits is applied, and when the folder is empty another is exported. A tick may
  fail, a bounded number of times; the code repeats it after the interval.

## 5. Where the code and its comments disagree

Six runs expect a violation. Each checks one sentence of the code, and TLC shows the steps that
break it. `PROJECT.json` quotes the sentences.

| Run | Refuted | Steps |
|---|---|---|
| `MCRevived` | `CancelledStaysCancelled` | CJ answers the tracker, a person cancels at CJ and here, without force, the tracker writes |
| `MCTexts` | `OneTextEach` | two requests look at the log, both send, the second row is refused afterwards |
| `MCOutbox` | `ChangeIsQueued` | staff enter a cost of a machine whose shadow has no key; none ever has |
| `MCBackfill` | `UndoLeavesDecided` | a run turns a machine, a person locks its division, the run is undone |
| `MCFee` | `FeeIsExplained` | an order ships at amount 0, the mall's amount is filled in, the fee stays 0 |
| `MCChain` | `MergesKeepMachines` | a row of the first of two like QC orders is taken for a second row of the other, a mall's row for one of the first; all count as sold, and the merge moves a machine to a row whose machines it deletes next |

Modelling met more places where the code does what a comment or another handler does not expect.
The modules follow the code, and no run is kept for them.

*Orders.*

* `ship_today` (`src/app/orders/__init__.py:2281`) does not look at the tier of the machines, while
  `_stage_check` refuses to ship provisional ones (`:1134`), writes `shipping_by` anew (`:2297`),
  which `:1143` says is kept, and fills in no fee, which a later regular shipping then does not do
  either because the date is there; only `settlement_backfill` does.
* Releasing a machine (`:1734`) can make it 'ready' when another order took it from repair and
  duplicates are on; `:1733` says it is not promoted.
* Matching a ready prebuild (`:1678`) completes production while an option is open, which the stage
  itself refuses (`:1082`).
* A machine of an archived order can be restocked and matched again (`purchase/__init__.py:4016`);
  unarchiving the first order (`:1646`) gives two open orders of one machine.
* The guard against matching a customer's machine (`:1642`) does not name the ticket status
  'arrived'.
* An amount edited below the extras makes the fee negative, and deleting an extra then clamps it.
  Restoring an order that was merged as an extra counts its money twice; deleting that extra first
  counts it zero times. Merging charges the mall's rate also on the transfers the merged order had.
  A refund may exceed the amount after a later edit.
* An order at amount 0 that gets an extra is never filled in by `backfill_amounts`.

*Parcels.*

* A pending waybill cancelled while its request runs (`waybill.py:1361`) is issued by the request
  afterwards (`:597`); a new one may be on its way by then.
* A booking of a stopped process stays at CJ when its pending row is cancelled (`:1342`), and a pickup
  taken in between the snapshot of a cancel and its write is marked cancelled (`:1361`, against
  `:1332`).
* A waybill cancelled by force while CJ still has the parcel is revived by the round that read it
  before, however long ago; `MCRevived` shows that no force is needed.
* One request that changes who pays and closes the ticket passes the payment gate
  (`asvc/__init__.py:1081`, against `:1078`).
* `mall_sent_at` is never cleared: when a waybill is cancelled and issued anew, the mall keeps the old
  number and the sweeper passes the order over.

*The purchase house.*

* Hand-overs: a roll-back gives back status and division whatever the desk did since, and not the
  listing; it is allowed when RMS took the machines in but has not acknowledged
  (`transfers.py:702`). Whether a proposal is too old is looked at only through the next proposal,
  which expires it. An exception of the division does not look at open transfers. Acknowledging
  a rental that RMS misses writes an empty state over 'rented'.
* Slips: numbers of provisional slips are given out again after a confirmation renames them; a machine
  can be moved to a cancelled slip (`update_asset`, where `create_assets` refuses at
  `purchase/__init__.py:2508`), and from a provisional to a purchase slip without being counted as
  arrived; cancelling a slip accepts machines in repair for a customer, does not unlist and does
  not look at orders; one machine cancelled by itself blocks the cancel of its slip; taking the
  purchase cancel of one machine back revives it on a cancelled slip; a total can be lowered
  below what is paid; creating, editing and confirming a slip write the amount paid as it was sent
  (`:1520`), above the total too, where `add_payment` refuses it (`:3915`).
* Parts: moves that wait for a machine stay when their order is cancelled; unticking in another order
  can leave a specification that names a part that was taken back (`:888`); `base_spec_apply` is not
  idempotent for storage, against `:1029`.
* Sales: TMS taking up a dead sale, or adding a line to a slip cancelled here, makes a second live line;
  a line edited here stays live when TMS cancels it; a machine on a live sale line can be matched
  by force and restocked; a second return of one machine is not offered
  (`sale_entry.py:338` against `:13`).
* `mark_rental` archives an order that holds reserved machines.

*Following other programs.*

* TMS ticks: a value that TMS empties and sets again is not followed; a deletion, restoration and
  deletion within one outage leave the mark wrong; a machine first created by an old sheet after TMS
  deleted its row is never marked; corrections over the limit are not sent again by the incremental
  tick; the state file is written as a whole, so a tick can undo what the cut-over saved
  meanwhile.
* Cut-over: a date saved during a scan is judged by the old setting, and the cursor passes what the new
  one would have listed.
* Outbox: two writers of `tms_outbox` lose an update, and a row given up can be sent once more.
* First judgement and reclassification: both plan outside their transaction. Undoing a
  reclassification sets the shadow so that the next change in TMS applies it again, and goes by the
  value, so a category changed away and back counts as untouched.
* Masters: names that conflict are passed over by the incremental sync and not tried again until they
  change; choosing a deleted identity as the primary marks its supplier deleted, and the next
  partner row takes the mark off.
* TMS and the malls' stock: staff can list a machine that TMS has sold or scrapped, whatever its
  status (`purchase/__init__.py:2908` and `:2731` ask for product code and division only); matching
  and an exception of the division do not unlist. So "no machine that is gone is listed" is no
  promise of the program; what an import does to the list is one, `ImportsLeaveNoGhost`.
* Imports, two orders in one row: the first key of an order without number is recipient, product and
  address without the day (`importers/dedupe.py:87`), so the customer's next order of the same thing
  is taken for the first; two orders of one minute at Coupang with the same quantity become one.
* Imports, one order in two rows, against `malls/collect.py:3`: a file without the number and a mall
  other than Coupang share no key unless all contents and the amount agree to the minute the file
  names; a product code that a merge promotes changes the key the row is found by; the index in memory
  has the keys a row had before the merges of this import (`dedupe.py:227`); so does any edit of
  recipient, product, code or time, which at Coupang are the key. Staff may type any order number a
  second time.
* Collecting: a pending change of the address, applied late, overwrites a later edit; an older answer
  may be stored after a newer one; a cancellation at the mall is never taken in. A tick that meets a
  manual collection notes a failure and backs off for half an hour.
* QC: a customer's second order looks like the first, so it can be taken off the board as the second
  row of the first (`qc_shipped.py:118` reaches the threshold by name, product and date); a row
  that was taken off sells again when CJ reports its parcel (`recall.py:433` does not ask) or when it
  is unarchived, which keeps `duplicate_of`, and shipped; two mall rows can be archived as doubles of
  one QC row (`qc_shipped.py:229`, against `:174`); the clean-up takes down the row with the amount
  while the one without it counts; restoring a merged row gives neither sale nor machines back, and
  the next changed file archives it again; stages advance on cancelled orders, around the machines
  and the ladder; a merge that moves one machine to one row from two fails as a whole (the primary
  key of `order_assets`); the file's signature is its time in seconds and its size; a clean-up that
  fails is swallowed.
* Texts: rows that the UNIQUE rule refuses do not count for the cap of the day.

## 6. What is proved

The theorems hold for every value of the constants that the named assumptions allow: any number of
orders, machines, workers, tickets, waybills, slips, proposals, people, runs and rows.

| Theorem | From | States |
|---|---|---|
| *`DeskProofs`* | | |
| `DeskTyping` | `Spec` | `[]RecordsOK` |
| `DeskStagesClimb` | `Spec` | `[](InspectedIsProduced /\ ShippedIsInspected)` |
| `DeskCancelledHoldsNothing` | `Spec` | `[]CancelledHoldsNothing` |
| `DeskReservedIsHeld` | `Spec` | `[]ReservedIsHeld` |
| `DeskPrebuilds`, `DeskVoidIsRework` | `Spec` | `[](UsedIsLinked /\ PrebuildLadder /\ VoidIsRework)` |
| `DeskClaimIsKept` | `Spec` | `ClaimIsKept`, a property of steps |
| `DeskUnlistsWhatLeaves` | `Spec` | `LeavingStockUnlists`, a property of steps; no run checks it |
| `DeskNeverSellsTwice` | `CarefulSpec` | `[]NoDoubleSale` |
| `DeskShippedIsOut` | `CarefulSpec`, no duplicates | `[]ShippedIsOut` |
| *`ParcelProofs`* | | |
| `OwsTyping` | `OwsSpec` | `[]TypeOK` |
| `OwsReturnedGoesOut` | `OwsSpec` | `ReturnedGoesOut`, a property of steps |
| `PatientTrackingIsAlive` | `PatientSpec` | `[]TrackingIsAlive` |
| `PatientOneShipment` | `PatientSpec` | `[]OneShipment` |
| `PatientReturningIsAwaited` | `PatientSpec` | `[]ReturningIsAwaited` |
| `PickupCollectingIsAwaited` | `PickupSpec` | `[]CollectingIsAwaited` |
| `OwsOnlyOldNewsRevives` | `OwsSpec` | `OnlyOldNewsRevives`, a property of steps: what `MCRevived` shows is the only way besides a running request |
| *`TransfersProofs`* | | |
| `TransfersAreHandovers` | `TransferSpec` | `HandoverKept`: the two-phase hand-over implements `Handover` |
| `HandoversAreClear` | `TransferSpec` | `HandoverIsClear`, a property of steps |
| *`HouseProofs`* | | |
| `NumbersNeverComeTwice` | `NumberSpec` | `[]NumbersComeOnce` |
| `SlipsArrive` | `SlipSpec` | `[]ArrivedWithItsSlip` |
| `SlipsKeep` | `SlipSpec` | `[]SlipsKeepTheirParts` |
| `SalesAreSingle` | `SaleSpec`, not `TmsRevives` | `[]SoldOnOneSlip` |
| `PartsStay` | `PartsSpec` | `[]PartsAreConserved` |
| `OptionsAreCharged` | `PartsSpec` | `[]OptionCostIsCurrent` |
| *`OutsideProofs`* | | |
| `AdminAlwaysRemains` | `AccountSpec` | `[]AdminRemains` |
| `LateInputAlwaysListed` | `CutoverSpec`, `Patient` | `[]LateInputIsListed` |
| `GhostsAreNotImported` | `SyncSpec` | `ImportsLeaveNoGhost`, a property of steps |
| `ImportsKeepHandWork` | `SyncSpec` | `HandWorkIsKept`, a property of steps |
| `ChoicesStay` | `ReclassSpec` | `HandCategoryStays`, a property of steps |
| `FollowingAgainIsIdle` | `QcSpec` | `FollowUpSettles`, a property of steps |
| `UnchainedMergesLoseNothing` | `QcSpec` | `MergesLoseNothing`, a property of steps; `MCChain` refutes it of chained rows |
| *`IntakeProofs`* | | |
| `ImportsAddNothingTwice` | `IntakeSpec` | `ImportsAddOnce`, a property of steps |
| `IntakeRowsAreSane` | `IntakeSpec` | `[]IntakeOK` |
| `ImportsKeepTheWork` | `IntakeSpec` | `ImportsKeepWork`, a property of steps |
| `FeesAreExplained` | `MoneySpec` | `[]FeeIsExplained` |
| `TakingsAreSane` | `MoneySpec` | `[]TakingsOK` |
| *`MastersProofs`* | | |
| `MastersAlwaysAgree` | `MastersSpec` | `[]MastersAgree` |
| `MastersRowsAreSane` | `MastersSpec` | `[]MastersOK` |

### From which assumptions

The ASSUMEs of the modules say that bounds are numbers, that switches are Booleans, that null values
are not rows, that administrators are users and that `HandStatuses` are statuses the screens offer.
Every module with one is extended by a run, so TLC evaluates them. Some theorems speak of less than
every step; the restrictions are those of the runs (section 4), and section 5 says what happens
without them:

* `CarefulSpec` is the desk where staff restock only a machine that no order holds. The screens show
  the order that still holds one (`purchase/__init__.py:4015`) but restock it all the same, and then an
  archived order and an open one can have one machine.
* `PatientSpec` is `OwsSpec` where requests come in turn. Nobody cancels the row of a running request
  or takes its machine in (the shipping screen asks for that, `static/js/shipping.js:29`); CJ has no
  news of a parcel before the request that books it is answered, which takes seconds; a cancel
  without CJ (`forceLocal`) is not used on a parcel that CJ still has; and (`Undisturbed`) between
  CJ's answer to the tracker and its write, which is one call and the wait for a lock, nobody
  writes that row. The code enforces none of these. Requests still overlap each other, cancels of
  other rows, crashes and the tracker in every way. `OnlyOldNewsRevives` needs none of them. `OneShipment` and
  `TrackingIsAlive` fail without it, as `MCRevived` and section 5 show.
* `PickupSpec` is `PatientSpec` where nobody gives a ticket the status 'collecting' by hand; the screen
  offers it, and then nothing reports.
* `SlipSpec` puts the slips beside any program that does not take back that a machine has arrived
  (`SlipRest`). That the desk is one is a lemma, `DeskIsRest`; the sale slips only add to `received`.
* `PartsSpec` puts the ledger of parts beside any desk that says what an order has after a matching or
  a cancel (`NowHas`) and takes no machine from an order otherwise (`PartsRest`). That the desk is one is
  two lemmas, `DeskSaysWhatItHas` and `DeskRestsBesideParts`. A received recall is not one: it unlinks the
  machine and leaves its parts in it on purpose (`revert_option_parts`, `purchase/__init__.py:893`).
  Sizes, machines and tickets are finitely many (`RowsAreFinite`).
* `MoneySpec` is `Takings` without `FillStep`, the amounts a mall sends after the order was settled; with
  it `MCFee` refutes `FeeIsExplained`. The orders and extras of `Intake` and `Takings` are finitely many,
  as rows of a table are.
* Not `TmsRevives`: TMS does not take up a sale that it had cancelled, nor adds a line to one.
  `Patient` of `Cutover`: the date is saved while no scan runs.

* `MergesLoseNothing` says what a merge does while no row is taken for the second row of a QC order
  whose own row is a second one (`Chained`); the specification has chained rows all the same.

`SyncSpec` states fairness for the run's liveness property; the theorems do not use it, nor the
restriction of the run that TMS empties no column (`Whims` is any Boolean).

The arguments:

* *Types.* Each handler keeps `RecordsOK`. The proof goes handler by handler; lemmas say what
  `Released`, `Unlink` and a new prebuild are.
* *Stages.* Each step that takes a stage away takes the later ones with it or is refused while they
  are there. The conjunction is inductive and neither half is: undoing the inspection must take the
  shipping back, undoing the production is refused only because of the inspection.
* *Cancelled orders.* Linking asks for a live order, and cancelling unlinks and frees in one step.
  Using a prebuild and linking its machine are the same step.
* *Reserved machines.* `ReservedIsHeld` alone is not inductive: `PurchaseUncancel` gives a machine
  back the status noted in `before`, which might be 'reserved'. The invariant `HeldInv` adds that it
  never is. Its hard case is letting a machine go: `Released` never leaves 'reserved' behind, whatever
  other orders link it.
* *Prebuilds.* `BuildInv` says the three properties of one row at a time, so that a handler that
  changes one row needs one argument. The hard case is `SetOrderAssets`, which uses some rows and
  frees others in the same step.
* *Duplicates.* `NoDoubleSale` and `ShippedIsOut` count holders and look at closed orders; the invariant
  `HolderInv` forgets both: no two orders, open or not, have one machine, and what an order has is
  reserved or, if it went out, shipped. Matching looks for other holders in its own transaction;
  restocking is the one handler that would break it.
* *Claims, unlisting.* Properties of steps, from the types alone, handler by handler. The hard case of
  `ClaimIsKept` is matching, which signs the production as the builder of a prebuild the step uses.
* *Parcels, in turn.* None of the properties is inductive: a request, a cancel and a round of the
  tracker act by rows they read earlier. `TurnInv` says what each still knows. The rows of a running
  request are pending, its own and in nobody else's hands (`RowsInTurn`); what a cancel read is
  still so, and CJ has let go of a row that it may write off (`SeenAsIs`); the number an order shows is
  the first of its own request (`Tracked`); the tracker's list holds rows that were issued, and one
  cancelled since is no longer CJ's, so CJ says nothing of it that could bring it back (`Watched`). From it
  `TrackingIsAlive` follows at once. `OneShipment` needs beside it that a request reserves only
  where the order has nothing open and that no row comes back to life; parcels of one request share
  its `lead`.
* *Cancelled waybills.* `OnlyOldNewsRevives` holds handler by handler once it is known that a request
  writes only rows of its own (`OwnRows`, an invariant of `OwsSpec` as it is).
* *Machines on their way.* `Awaited` adds to `ReturningIsAwaited` that no noted status is 'returning',
  so giving one back never leaves the machine waiting for nobody, and that a waybill for nobody
  notes none.
* *Tickets.* A ticket goes to 'collecting' with the commit of its pickup, and a pickup that stops being
  issued takes it on in the same step. `ReturnedGoesOut` is a property of steps: every handler that
  closes a ticket moves its machine in the same transaction.
* *Administrators.* `AdminRemains` is not inductive: creating an account in an empty table would make
  somebody who is not an administrator. `AccountInv` adds `Admitted`: where a request was let in,
  there is an account, hence an administrator. A handler that takes an administrator away counts
  the others inside its transaction (`NotTheLast`), so it does not matter how old its reading of
  the caller is.
* *Hand-overs.* Between its own steps `TransferSpec` lets every other variable change in any way the
  types allow, so the theorems hold beside any desk, not only the modelled one. The refinement needs
  `OneOpen`: no machine is in two commits that are not settled. It is what makes `OpenFrom`, the
  mapped state, a function of the machine; `Commit` keeps it because it judges the machine again in
  its own transaction. An expired or rejected proposal is a stutter of `Handover`.
* *Numbers.* `NumberInv` says that the day's counter is not behind any number of this program that
  came into use; typing a number moves it as giving one out does. The next number lies above the
  counter, so it is new; that a finite range of numbers has a largest one is a lemma from the
  well-founded order of the naturals.
* *Slips.* `SlipInv` adds that a machine is only on a slip there is; without it a new slip could find
  machines that never came. The number of a new slip lies above all of its kind (`MaxIsLargest`).
* *Sales.* A living line is ours only if it is protected (`LinesOK`), and a slip that was cancelled here
  sells nothing and is protected (`HeadOK`), so taking it up again revives only what it checks.
  `Counts` is the one condition that each handler is measured by: a line that counts after a step did
  before, or nobody else has the machine, or neither line is ours.
* *Parts.* Neither property is inductive alone: a handler works through machines, options and rows one
  after another, and between two of them the ledger is neither the old one nor the new one.
  `Books` holds all the way: an option's cost lies where it may be charged, once, and what is in the
  store and in the rows is what it was. `Pieced`, `Apply` and `Struck` keep it, so every fold of them
  does (`RunOfFold` of `Induction`). `Reverted` goes from the newest row to the oldest; the invariant
  of that run is that no row to take back is left above the place it looks at. What waited for a
  machine is followed in two folds at once: each row is given or waits on.
* *Cut-over.* `CutoverInv`: a scan under way has the setting that holds, and whatever lies up to its
  place, or up to the cursor, is listed if it is late (`Passed`). New input comes behind both.
* *TMS.* `RowInv`: what staff typed differs from the shadow, the value TMS had when it was looked at
  last, and is not empty. So no import takes it for a value that may follow TMS. An import writes
  the list in one place, after it has decided status and division, and only to take off.
* *Categories.* `ReclassInv`: where staff chose against automation, the machine has what they chose,
  the shadow is another category and the machine is marked as edited. So the imports do not follow
  it, an application spares it unless it is picked, and an undoing meets it only if it would take
  back that very category.
* *QC.* A run moves stages first, then takes rows off, then merges, and what the later parts do must not
  undo what the earlier found settled. What is taken off is marked as somebody's second row, so no
  stage of it moves again (`AdvancedSame`); what is merged away no longer counts, so no pair is left
  (`SyncOnceSettles`); and which QC order a row resembles, and what was judged, does not depend on
  either. A merge loses nothing because two pairs have no row in common (`PairsApart`): if one row
  were in two pairs, one of the pairs would chain. Then the row that stays for one pair is dropped for
  no other, whatever the order they are worked off in.
* *Imports.* An import is a fold over the orders it carries; its accumulator is the table and the index
  taken of it at the beginning, which merges do not renew. `Induction` says that a fold exists,
  that it is one step after another, and what a property kept by each step gives for the whole.
  `StoredSoFar` is that property: old rows are kept as `RowKept` allows, the index still has them as
  they were, and each new row is of an item that shared no number, import key or content key with any
  of them. `RowKept` is transitive, so many merges keep as one does. That an order which is not added
  has a row comes from its keys: each says number, import key, or customer and product of its order
  (`KeySays`), so two orders that share one agree in that (`SharedKey`).
* *Fees.* A sum over the extras of an order does not depend on the order they are added in
  (`Induction`). So an extra that is paid, merged or deleted moves amount and fee by its own, an
  edit recomputes the fee from the rate that was kept and from what is no extra, and settling by hand
  marks the fee as typed. Only `FillStep` changes an amount and leaves the fee.
* *Masters.* An import numbers its new partners and models one after another. The invariant says
  that the numbers have no gap, that room for unknown ones was kept, that key and identity determine
  each other, that an alias never points to an alias, and that a name is there once. Models may
  be behind the partners only for keys that were not taken in yet.

### Only model-checked

* Liveness: `CalmRequestsEnd`, `IssuedIsTold`, `TmsIsFollowedThere`. Fairness and ENABLED are out of
  the prover's reach.
* `HouseOK`, `FollowOK` and `OutsideOK`, the types of the components that are in one run together. What
  the proofs need of them is part of the invariants above.
* `CollectingIsAwaitedInTurn`: `PickupCollectingIsAwaited` is the theorem, from the initial states of
  `Ows`; the scene of `MCRecall` starts in the middle of a recall.
* Every property of `OwsSpec` in the scenes of hasty people: `ReturningIsAwaited` holds there too, in
  the instance of `MCRecall`.

`ShippedIsInspected` is a property of the desk. The tracker closes an order whose parcel moves
whatever its stages are (`_auto_ship_confirm`), so `Ows` does not promise it.

## 7. Abstractions

* Texts, dates, names, the scope of categories and the event log are left out, except events that
  the program reads back (`before`, `comeback`, `ran`, `judged`). Amounts appear where a
  property is about money, as small numbers. Time limits that select rows (21 and 31 days, 200
  rows) are left out: every row is recent. Time limits that decide something are a step that may
  happen at any time (`Age` of a proposal, `Expire` of an invoice, `Clock` of the quiet hours,
  `Wait` of a mall's cooling down).
* Permissions are left out except in `Accounts`, and the rental division except in `Transfers`.
* An order with several forward waybills is looked at with `LIMIT 1` when it is cancelled; the model
  lets the code see any one of them.
* Bulk handlers apply the same rules to one row after another inside one transaction; the model takes
  the rows as separate steps, which allows more.
* CJ's stages are grouped as the code tells them apart: none, 01 to 03, 11 to 82 (the order is
  closed), 91 (delivered). An answer of CJ to the collection of invoices and the transaction that applies it are
  one step (`Sweep`), because that transaction reads the row again; the tracker's are two. A parcel
  does not travel back. At most one cancel of a row is in flight.
* Similarity of texts is a function or a score that the run chooses: `Coarse` (the minute of a time,
  the name of a product without its option) of orders, `Score` of QC's orders, spellings of one word
  in `Masters`. The thresholds are the code's.
* One value stands for all columns that are treated alike: those compared three ways in `TmsSync`,
  those filled in or followed in `Masters`.
* What is outside the program is an action of its own with every outcome: CJ's answers, the malls',
  TMS's tables, its log of restorations and its numbers, RMS's inventory, QC's file.
* In `Intake`, the six kinds of keys are the code's. Address, telephone and message are one text, and
  product and option are one; texts compare as equal or not, as after the code's normalising.
* In `QcFollow`, of an order's stages only shipping is kept, and the archive of the rental division is
  left out. `SyncOnce` and `QcMerge` do not happen where two pairs would move one machine to one row
  (`MergesApart`): there the second UPDATE fails and the code rolls the transaction back. A plan is
  worked off in any order; the code takes the one of the rows that stay.

## 8. How to run

`tlc -config MCDesk.cfg MCDesk` and likewise for the others; `MCRevived.cfg` belongs to the module
`MCParcel`, `MCTexts.cfg`, `MCFee.cfg` and `MCChain.cfg` to `MCClaims`, `MCOutbox.cfg` to `TmsOutbox` and
`MCBackfill.cfg` to `Backfill`. The longest, `MCRecall`, takes about three minutes with two workers. `tlapm DeskProofs.tla`
and likewise `ParcelProofs`, `HouseProofs`, `OutsideProofs`, `IntakeProofs`, `MastersProofs`,
`TransfersProofs` and `Induction` check the proofs; the longest, `ParcelProofs`, takes a few minutes.

## 9. Plan, and what is not modelled

What is open: `ReturningIsAwaited` for hasty people as well, and what `Backfill` and `Texts` promise
where requests come in turn.

Not modelled:

* *Mall adapters, CJ payloads and labels, file parsing, the specification catalogue and product
  information*: they translate formats and match texts; they keep no state. Their results are
  inputs of `Intake`, `Courier` and `Masters`.
* *Mall stock sync*: it counts listed machines and makes a table; which machines are listed is in
  `AssetDesk`, `TmsSync` and `Transfers`.
* *Settings values, reports, the browser's scripts, cj tools and test routes*: independent values,
  reading, or calls of handlers that are modelled.
* *Migrations, backups, start-up and the watchdog*: they act on files and processes. A stop is
  `Crash` and `Stop`. On Windows the watchdog's `terminate` gives no time for the backup at
  shutdown, and its stop file is removed when the watchdog starts; no state of the model shows it.
* Of modelled components, the fields named in `PROJECT.json`: notes, documents, costs, prices,
  printing, previews.
