------------------------------ MODULE TmsSync -------------------------------
(***************************************************************************)
(* How machines follow the old system (TMS): _prepare and apply_rows of    *)
(* app/purchase/migration.py, the ticks of tms_link.py over the gate to    *)
(* TMS, and the exported sheets of autosync.py.  One value of a machine    *)
(* stands for the columns that are compared three ways.  Serials, costs,   *)
(* suppliers and slips of an import are left out: serials agree.           *)
(***************************************************************************)
EXTENDS Naturals, FiniteSets, SequencesExt

CONSTANTS
  Numbers,          \* asset numbers that TMS has or had
  Fixed,            \* tms_number_fixes: numbers that staff put right, never made again
  MaxValue,         \* values of a column: 0 is an empty one
  Cats,             \* categories
  Runners,          \* the daemon of tms_link and [apply now]
  CorrectionLimit,  \* CORRECTION_LIMIT
  MaxChanges,       \* bound: changes in TMS
  MaxHand,          \* bound: changes by staff
  MaxFailures,      \* bound: ticks that fail
  Whims             \* whether TMS empties a column, deletes a row that it has restored
                    \* before, or one that came with a sheet still to be applied

ASSUME SyncBounds == /\ {MaxValue, CorrectionLimit, MaxChanges, MaxHand, MaxFailures} \subseteq Nat
                     /\ Whims \in BOOLEAN

VARIABLES
  tms,       \* HB_TBL재고, by number
  restores,  \* its log of restored rows
  clock,     \* changes of TMS so far
  machine,   \* assets, by number
  state,     \* tms_link_state.json
  tick,      \* the ticks under way
  sheet,     \* an exported sheet that waits in the folder
  hand,      \* changes by staff so far
  failures   \* ticks that failed so far

syncVars == <<tms, restores, clock, machine, state, tick, sheet, hand, failures>>

TmsKinds == {"stock", "out", "junk", "rented", "back"}
Settled  == {"in_stock", "shipped", "scrapped", "reserved"}   \* one of each kind of status
NotHere  == [here |-> FALSE]
NoSheet  == <<>>
Idle     == [at |-> "idle", rows |-> NoSheet, time |-> 0, gone |-> {}, back |-> {}, seen |-> 0]

SyncOK ==
  /\ \A n \in Numbers :
       /\ tms[n].value \in 0..MaxValue /\ tms[n].kind \in TmsKinds
       /\ machine[n].here => /\ {machine[n].value, machine[n].shadow} \subseteq 0..MaxValue
                             /\ machine[n].status \in Settled
                             /\ {machine[n].cat, machine[n].autoCat} \subseteq Cats
  /\ \A r \in Runners : tick[r].at \in {"idle", "rows", "lists", "marks", "end"}
  /\ state.cursor \in 0..clock /\ state.restored \in 0..Len(restores)
-----------------------------------------------------------------------------
(***************************************************************************)
(* One imported row                                                        *)
(***************************************************************************)
\* TMS_STATUS_MAP
Mapped(kind) == CASE kind = "stock" -> "in_stock" [] kind = "back" -> "in_stock"
                  [] kind \in {"out", "rented"} -> "shipped" [] kind = "junk" -> "scrapped"
RentedOut == {"rented", "back"}       \* TMS_RENTAL_STATUSES
AutoTo    == {"shipped", "scrapped"}  \* AUTO_STATUS_TO, and out of work and stock only

\* TMS put its value right, and OWS still has what TMS had before
CorrectedBlindly(m, row) ==                                           \* mutant
  m.value # 0 /\ row.value # 0 /\ m.value # row.value /\ m.shadow # 0
Corrected(m, row) ==
  m.value # 0 /\ row.value # 0 /\ m.value # row.value /\ m.shadow = m.value

GoesOut(m, row)     == Mapped(row.kind) \in AutoTo /\ m.status = "in_stock"
TurnsRental(m, row) == row.kind \in RentedOut /\ ~m.divisionLocked /\ ~m.rental

StillListedAnyway(m, row) == m.listed /\ ~TurnsRental(m, row)          \* mutant
StillListed(m, row) == m.listed /\ ~GoesOut(m, row) /\ ~TurnsRental(m, row)

\* an empty column is filled, a correction followed unless too many came at once; the category
\* follows while it is the one that automation chose last; the status goes only out
Followed(m, row, held) ==
  [m EXCEPT
    !.value   = IF @ = 0 \/ (Corrected(m, row) /\ ~held) THEN row.value ELSE @,
    !.shadow  = IF Corrected(m, row) /\ held THEN @ ELSE row.value,
    !.cat     = IF m.autoCat = @ THEN row.cat ELSE @,
    !.autoCat = IF @ = m.cat THEN row.cat ELSE @,
    !.status  = IF GoesOut(m, row) THEN Mapped(row.kind) ELSE @,
    !.rental  = @ \/ TurnsRental(m, row),
    !.listed  = StillListed(m, row),
    !.noticed = @ \/ (m.status \in AutoTo /\ Mapped(row.kind) = "in_stock"),
    !.own     = @ /\ m.value # row.value]

Created(row) ==
  [here |-> TRUE, value |-> row.value, shadow |-> row.value, cat |-> row.cat,
   autoCat |-> row.cat, status |-> Mapped(row.kind), rental |-> row.kind \in RentedOut,
   divisionLocked |-> FALSE, listed |-> FALSE, noticed |-> FALSE, marked |-> FALSE,
   tmsLock |-> FALSE, own |-> FALSE]

\* apply_screen, _apply_one: the rows of one screen or sheet in one transaction
Imported(rows) ==
  LET follows(n) == machine[n].here /\ ~machine[n].tmsLock
      held == Cardinality({n \in DOMAIN rows : follows(n) /\ Corrected(machine[n], rows[n])})
                > CorrectionLimit
  IN [n \in Numbers |->
        IF n \notin DOMAIN rows THEN machine[n]
        ELSE IF machine[n].here
        THEN IF follows(n) THEN Followed(machine[n], rows[n], held) ELSE machine[n]
        ELSE IF n \in Fixed THEN machine[n] ELSE Created(rows[n])]
-----------------------------------------------------------------------------
(***************************************************************************)
(* A tick of tms_link                                                      *)
(***************************************************************************)
After(again)    == IF again THEN state.cursor ELSE state.cursor + 1
RowsSince(time) == [n \in {k \in Numbers : ~tms[k].gone /\ tms[k].at >= time} |-> tms[n]]

\* the rows that changed after the cursor; the overlap may reach back over the last change
\* again; all rows without a cursor
FetchRows(r, full, again) ==
  /\ tick[r] = Idle
  /\ tick' = [tick EXCEPT ![r] = [Idle EXCEPT !.at = "rows", !.time = clock,
                                    !.rows = RowsSince(IF full THEN 0 ELSE After(again))]]
  /\ UNCHANGED <<tms, restores, clock, machine, state, sheet, hand, failures>>

ApplyRows(r) ==
  /\ tick[r].at = "rows"
  /\ machine' = Imported(tick[r].rows)
  /\ tick' = [tick EXCEPT ![r].at = "lists", ![r].rows = NoSheet]
  /\ UNCHANGED <<tms, restores, clock, state, sheet, hand, failures>>

\* the rows that are deleted now, and the restores after the last one seen
FetchMarks(r, again) ==
  /\ tick[r].at = "lists"
  /\ tick' = [tick EXCEPT ![r].at = "marks",
                ![r].gone = {n \in Numbers : tms[n].gone /\ tms[n].goneAt >= After(again)},
                ![r].back = {restores[i] : i \in (state.restored + 1)..Len(restores)},
                ![r].seen = Len(restores)]
  /\ UNCHANGED <<tms, restores, clock, machine, state, sheet, hand, failures>>

\* apply_deletions, then apply_restores
Marked(gone, back) ==
  [n \in Numbers |-> IF ~machine[n].here THEN machine[n]
                     ELSE [machine[n] EXCEPT !.marked = (@ \/ n \in gone) /\ n \notin back]]

ApplyMarks(r) ==
  /\ tick[r].at = "marks"
  /\ machine' = Marked(tick[r].gone, tick[r].back)
  /\ tick' = [tick EXCEPT ![r].at = "end", ![r].gone = {}, ![r].back = {}]
  /\ UNCHANGED <<tms, restores, clock, state, sheet, hand, failures>>

\* _write_state, at the end of a tick that met no error
Finish(r) ==
  /\ tick[r].at = "end"
  /\ state' = [cursor |-> tick[r].time, restored |-> tick[r].seen]
  /\ tick' = [tick EXCEPT ![r] = Idle]
  /\ UNCHANGED <<tms, restores, clock, machine, sheet, hand, failures>>

FailTickKept(r) ==                                                    \* mutant
  /\ tick[r] # Idle /\ failures < MaxFailures
  /\ failures' = failures + 1
  /\ state' = [cursor |-> tick[r].time, restored |-> tick[r].seen]
  /\ tick' = [tick EXCEPT ![r] = Idle]
  /\ UNCHANGED <<tms, restores, clock, machine, sheet, hand>>
\* the gate does not answer, or the process stops: the next tick asks for the same again
FailTick(r) ==
  /\ tick[r] # Idle /\ failures < MaxFailures
  /\ failures' = failures + 1
  /\ tick' = [tick EXCEPT ![r] = Idle]
  /\ UNCHANGED <<tms, restores, clock, machine, state, sheet, hand>>

TickStep(r) ==
  \/ \E again \in BOOLEAN : FetchRows(r, state.cursor = 0, again) \/ FetchMarks(r, again)
  \/ ApplyRows(r) \/ ApplyMarks(r) \/ Finish(r)
-----------------------------------------------------------------------------
(***************************************************************************)
(* Sheets, TMS itself, and staff                                           *)
(***************************************************************************)
\* tools/tms_export leaves a sheet in the folder; an older one there is replaced
Export ==
  /\ sheet' = RowsSince(0)
  /\ UNCHANGED <<tms, restores, clock, machine, state, tick, hand, failures>>

\* autosync: the sheet is applied once
ApplySheet ==
  /\ sheet # NoSheet
  /\ machine' = Imported(sheet)
  /\ sheet' = NoSheet
  /\ UNCHANGED <<tms, restores, clock, state, tick, hand, failures>>

InTms(n, row) ==
  /\ clock < MaxChanges
  /\ clock' = clock + 1
  /\ tms' = [tms EXCEPT ![n] = row]
  /\ UNCHANGED <<machine, state, tick, sheet, hand, failures>>

ChangeRow(n, v, c, kind) ==
  /\ ~tms[n].gone
  /\ v = 0 => tms[n].value = 0 \/ Whims
  /\ InTms(n, [tms[n] EXCEPT !.value = v, !.cat = c, !.kind = kind, !.at = clock + 1])
  /\ UNCHANGED restores

DeleteRow(n) ==
  /\ ~tms[n].gone
  /\ Contains(restores, n) \/ (n \in DOMAIN sheet /\ ~machine[n].here) => Whims
  /\ InTms(n, [tms[n] EXCEPT !.gone = TRUE, !.goneAt = clock + 1])
  /\ UNCHANGED restores

RestoreRow(n) ==
  /\ tms[n].gone
  /\ InTms(n, [tms[n] EXCEPT !.gone = FALSE, !.at = clock + 1])
  /\ restores' = Append(restores, n)

HandEdit(n, m) ==
  /\ hand < MaxHand
  /\ hand' = hand + 1
  /\ machine' = [machine EXCEPT ![n] = m]
  /\ UNCHANGED <<tms, restores, clock, state, tick, sheet, failures>>

\* update_asset; what TMS does not have is staff's own
TypeValue(n, v) ==
  /\ v # machine[n].value
  /\ HandEdit(n, [machine[n] EXCEPT !.value = v, !.own = v # 0 /\ v # machine[n].shadow])
ChooseCat(n, c)  == HandEdit(n, [machine[n] EXCEPT !.cat = c])
\* the switch of the stock list asks for the division only, and to switch on
ListIt(n) ==
  /\ machine[n].listed \/ ~machine[n].rental
  /\ HandEdit(n, [machine[n] EXCEPT !.listed = ~@])
\* an order, a sale, a return to stock, a status by hand: shipping, selling and scrapping
\* unlist; matching does not
MoveStatus(n, s) ==
  HandEdit(n, [machine[n] EXCEPT !.status = s, !.listed = @ /\ s \notin AutoTo])
LockDivision(n, rental) ==
  HandEdit(n, [machine[n] EXCEPT !.rental = rental, !.divisionLocked = TRUE])
\* a number conflict is settled: what TMS says of this number is wrong
LockNumber(n) == HandEdit(n, [machine[n] EXCEPT !.tmsLock = TRUE])

HandStep(n) ==
  /\ machine[n].here
  /\ \/ \E v \in 0..MaxValue : TypeValue(n, v)
     \/ \E c \in Cats : ChooseCat(n, c)
     \/ ListIt(n) \/ LockNumber(n)
     \/ \E s \in Settled : MoveStatus(n, s)
     \/ \E rental \in BOOLEAN : LockDivision(n, rental)

TmsStep(n) ==
  \/ \E v \in 0..MaxValue, c \in Cats, kind \in TmsKinds : ChangeRow(n, v, c, kind)
  \/ DeleteRow(n) \/ RestoreRow(n)

SyncInit ==
  /\ tms \in [Numbers -> [value : {1}, cat : Cats, kind : {"stock"}, gone : {FALSE},
                          at : {0}, goneAt : {0}]]
  /\ restores = <<>> /\ clock = 0
  /\ machine = [n \in Numbers |-> NotHere]
  /\ state = [cursor |-> 0, restored |-> 0]
  /\ tick = [r \in Runners |-> Idle]
  /\ sheet = NoSheet /\ hand = 0 /\ failures = 0

SyncNext ==
  \/ \E r \in Runners : TickStep(r) \/ FailTick(r)
  \/ Export \/ ApplySheet
  \/ \E n \in Numbers : TmsStep(n) \/ HandStep(n)

\* the daemon runs every two minutes and a sheet is exported every two hours
SyncFairness ==
  /\ \A r \in Runners : WF_syncVars(TickStep(r))
  /\ WF_syncVars(Export /\ sheet = NoSheet) /\ WF_syncVars(ApplySheet)

SyncSpec == SyncInit /\ [][SyncNext]_syncVars /\ SyncFairness
-----------------------------------------------------------------------------
\* No import takes away what staff typed and TMS never had, nor touches a machine whose number
\* was put right, nor brings a machine back to stock or gives a fixed number to a new machine
\* (the head of autosync.py: what staff entered is never overwritten)
HandWorkIsKept ==
  [][hand' = hand => \A n \in Numbers :
       /\ machine[n].here /\ machine[n].own => machine'[n].value = machine[n].value
       /\ machine[n].here /\ machine[n].tmsLock
            => machine'[n] = [machine[n] EXCEPT !.marked = machine'[n].marked]
       /\ machine'[n].here /\ machine'[n].status = "in_stock" /\ machine[n].here
            => machine[n].status = "in_stock"
       /\ n \in Fixed /\ machine'[n].here => machine[n].here]_syncVars

\* An import puts no machine on the malls' stock list, and one that it sells, scraps or moves to
\* rental leaves the list in the same step, whoever listed it and whenever (apply_rows: it would
\* be counted as stock that is not there)
ImportsLeaveNoGhost ==
  [][hand' = hand => \A n \in Numbers :
       machine[n].here /\ machine'[n].listed
         => /\ machine[n].listed
            /\ machine'[n].status = machine[n].status
            /\ machine'[n].rental => machine[n].rental]_syncVars

\* Once TMS and the ticks come to rest, a machine that staff left alone has the value TMS has,
\* and the mark of a deleted row as TMS has it, however ticks failed on the way and old sheets
\* came late (sync_once: the cursor is kept only by a tick that went through)
TmsIsFollowed ==
  \A n \in Numbers \ Fixed :
    <>[](\/ ~machine[n].here /\ tms[n].gone
         \/ /\ machine[n].here /\ machine[n].marked = tms[n].gone
            /\ tms[n].gone \/ hand > 0 \/ machine[n].value = tms[n].value)
=============================================================================
