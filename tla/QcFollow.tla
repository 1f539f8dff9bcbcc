------------------------------ MODULE QcFollow ------------------------------
(***************************************************************************)
(* Following the QC program, app/settings/qc_watch.py, qc_import.py and    *)
(* qc_shipped.py.  QC keeps its orders in a file, takes them off when they *)
(* are shipped, and leaves backups.  One sale can have two rows here: one  *)
(* imported from QC, with the machine, and one collected from the mall,    *)
(* with the amount.  The watcher moves stages forward, takes a second row  *)
(* off the board, or merges the two when both count as sold.  Two orders   *)
(* of one customer in QC look alike too, so a row imported from QC can be  *)
(* taken for the second row of another QC order.  Of the stages of a row   *)
(* only the last is kept, whether it is shipped; how alike a row and a QC  *)
(* order look is a score.                                                  *)
(***************************************************************************)
EXTENDS Integers, FiniteSets, Sequences

CONSTANTS
  Malls,      \* orders collected from the malls
  Qcs,        \* orders of the QC program; also the rows imported from it
  Gear,       \* machines
  Score,      \* _score of a row and a QC order
  MinScore,   \* MIN_SCORE
  Amount,     \* what a row says was paid
  GearOf,     \* managementNumber: the machine QC noted for its order
  NoRow,      \* duplicate_of is empty; also no QC order
  QcRuns,     \* the watcher's thread and requests
  MaxWrites   \* bound: how often QC writes its file

QcRows == Malls \cup Qcs

ASSUME QcFollowIsSane ==
  /\ NoRow \notin QcRows /\ {MaxWrites, MinScore} \subseteq Nat /\ GearOf \in [Qcs -> Gear]
  /\ Score \in [QcRows -> [Qcs -> Int]] /\ Amount \in [QcRows -> Nat]

VARIABLES
  qcFile,    \* orders.json: how far QC is with each of its orders
  backed,    \* QC orders that some backup of the file has as shipped
  rowOf,     \* orders
  gearOn,    \* order_assets: <<row, machine>>
  judged,    \* audit_log: the QC order that a row was linked to last
  qcRead,    \* what each run has read of the file before its transaction
  qcFresh,   \* the file is not the one of the last run (_last_seen)
  qcWrites

qcVars == <<qcFile, backed, rowOf, gearOn, judged, qcRead, qcFresh, qcWrites>>

NoQcRow  == [in |-> FALSE, shipped |-> FALSE, archived |-> FALSE,
             cancelled |-> FALSE, dup |-> NoRow]
Unread   == [busy |-> FALSE]
QcStates == {"gone", "listed", "shipped", "closed"}
SentInQc == {"shipped", "closed"}

QcFollowOK ==
  /\ qcFile \in [Qcs -> QcStates] /\ backed \subseteq Qcs
  /\ rowOf \in [QcRows -> [in : BOOLEAN, shipped : BOOLEAN, archived : BOOLEAN,
                           cancelled : BOOLEAN, dup : QcRows \cup {NoRow}]]
  /\ gearOn \subseteq QcRows \X Gear
  /\ judged \in [QcRows -> Qcs \cup {NoRow}]

Missing(f) == {q \in Qcs : f[q] # "gone" /\ ~rowOf[q].in}
-----------------------------------------------------------------------------
AdvancedAll(rs, f) ==                                                 \* mutant
  [r \in QcRows |->
     IF r \notin Qcs \/ ~rs[r].in THEN rs[r]
     ELSE [rs[r] EXCEPT !.shipped = @ \/ f[r] \in SentInQc, !.archived = @ \/ f[r] = "closed"]]
\* _advance_fields: forward only, and no row that was taken off as a duplicate; cancelled rows too
Advanced(rs, f) ==
  [r \in QcRows |->
     IF r \notin Qcs \/ ~rs[r].in \/ rs[r].dup # NoRow THEN rs[r]
     ELSE [rs[r] EXCEPT !.shipped = @ \/ f[r] \in SentInQc, !.archived = @ \/ f[r] = "closed"]]

\* _load_nas: shipped in the file as it is now, or in a backup
SoldInQc == backed \cup {q \in Qcs : qcFile[q] \in SentInQc}

Board(rs) == {r \in QcRows : rs[r].in /\ ~rs[r].cancelled /\ ~rs[r].shipped /\ ~rs[r].archived}

\* _plan_shipped, first step: the one QC order that a row resembles most
Likely(r) == {q \in SoldInQc : Score[r][q] >= MinScore}
BestOf(r) ==
  LET L == Likely(r) IN {q \in L : \A p \in L \ {q} : Score[r][q] > Score[r][p]}
FitOf(r)  == LET B == BestOf(r) IN IF B = {} THEN NoRow ELSE CHOOSE q \in B : TRUE

\* _dup_note: that QC order has a row of its own here
Doubled(rs) == {r \in Board(rs) : FitOf(r) \notin {NoRow, r} /\ rs[FitOf(r)].in}

\* second step: one QC order goes to one row, the one it resembles most
Hits(rs) ==
  LET cands == {r \in Board(rs) : FitOf(r) # NoRow} \ Doubled(rs)
  IN {r \in cands : \A s \in cands \ {r} :
        FitOf(s) = FitOf(r) => Score[r][FitOf(r)] > Score[s][FitOf(s)]}

\* archive_duplicates: only if the other row is shipped, and without marking this one shipped
TakenDown(rs) == {r \in Doubled(rs) : rs[FitOf(r)].shipped}
Archived(rs, S) ==
  [r \in QcRows |-> IF r \in S THEN [rs[r] EXCEPT !.archived = TRUE, !.dup = FitOf(r)] ELSE rs[r]]
Judged(S) == [r \in QcRows |-> IF r \in S THEN FitOf(r) ELSE judged[r]]

\* _dup_pairs, _merge_plan: both rows count as sold, and QC's order has one row of a mall only
QcPairs(rs, js) ==
  {p \in QcRows \X Qcs : /\ js[p[1]] = p[2] /\ p[1] # p[2] /\ rs[p[2]].in
                         /\ ~rs[p[1]].cancelled /\ ~rs[p[2]].cancelled}
MergePlan(rs, js) ==
  LET Q == QcPairs(rs, js)
  IN {p \in Q : /\ rs[p[1]].shipped /\ rs[p[2]].shipped
                /\ \A o \in Q : o[2] = p[2] => o = p}

Keep(p) == IF Amount[p[2]] > Amount[p[1]] THEN p[2] ELSE p[1]
Drop(p) == IF Amount[p[2]] > Amount[p[1]] THEN p[1] ELSE p[2]

\* the order in which a plan is worked off, by the number of the row that stays: any order here;
\* two rows make one item
RowsIn(p) == {p[1], p[2]}
Orders(P) ==
  {s \in UNION {[1..n -> P] : n \in 0..Cardinality(P)} :
     /\ \A i, j \in DOMAIN s : i # j => RowsIn(s[i]) # RowsIn(s[j])
     /\ \A p \in P : \E i \in DOMAIN s : RowsIn(s[i]) = RowsIn(p)}

\* merge_duplicates: a row that is dropped does not count any more, and says for which; the last says
Drops(s, r) == {i \in DOMAIN s : Drop(s[i]) = r}
KeptFor(s, r) == Keep(s[CHOOSE i \in Drops(s, r) : \A j \in Drops(s, r) : j <= i])
MergedRows(rs, s) ==
  [r \in QcRows |->
     IF Drops(s, r) # {}
     THEN [rs[r] EXCEPT !.shipped = FALSE, !.archived = TRUE, !.dup = KeptFor(s, r)] ELSE rs[r]]

\* moveAssets, as the plan has them before anything is merged
Moves(p) == {a \in Gear : <<Drop(p), a>> \in gearOn /\ <<Keep(p), a>> \notin gearOn}
\* a machine moves with the first pair that drops its row; whatever else is on a dropped row is
\* deleted, also what moved there before
StaysMoved(s, i) ==
  /\ \A j \in 1..(i - 1) : Drop(s[j]) # Drop(s[i])
  /\ \A j \in DOMAIN s : j > i => Drop(s[j]) # Keep(s[i])

MergedGearDeleted(s) == {l \in gearOn : Drops(s, l[1]) = {}}           \* mutant
MergedGear(s) ==
  {l \in gearOn : Drops(s, l[1]) = {}}
    \cup UNION {{<<Keep(s[i]), a>> : a \in Moves(s[i])} : i \in {j \in DOMAIN s : StaysMoved(s, j)}}

\* no machine is moved to one row from two: the second UPDATE would fail
MergesApart(s) ==
  \A i, j \in DOMAIN s : i # j /\ Keep(s[i]) = Keep(s[j]) => Moves(s[i]) \cap Moves(s[j]) = {}
-----------------------------------------------------------------------------
\* the QC program writes its file; what was in it goes into a backup
QcWrites(q, to) ==
  /\ qcWrites < MaxWrites /\ to # qcFile[q]
  /\ qcWrites' = qcWrites + 1
  /\ backed' = SoldInQc
  /\ qcFile' = [qcFile EXCEPT ![q] = to]
  /\ qcFresh' = TRUE
  /\ UNCHANGED <<rowOf, gearOn, judged, qcRead>>

\* sync_once reads the file if it is another one; [run now], and an import, in any case
ReadQc(w, force) ==
  /\ ~qcRead[w].busy /\ (force \/ qcFresh)
  /\ qcRead' = [qcRead EXCEPT ![w] = [busy |-> TRUE, file |-> qcFile]]
  /\ UNCHANGED <<qcFile, backed, rowOf, gearOn, judged, qcFresh, qcWrites>>

EndQc(w) ==
  /\ qcRead' = [qcRead EXCEPT ![w] = Unread]
  /\ UNCHANGED <<qcFile, backed, qcWrites>>

\* sync_once, its transaction: stages, then rows that are there twice, then rows sold twice
SyncOnce(w) ==
  /\ qcRead[w].busy
  /\ LET rs == Advanced(rowOf, qcRead[w].file)
         S  == TakenDown(rs)
         as == Archived(rs, S)
     IN \E s \in Orders(MergePlan(as, Judged(S))) :
          /\ MergesApart(s)
          /\ rowOf'  = MergedRows(as, s)
          /\ judged' = Judged(S)
          /\ gearOn' = MergedGear(s)
  /\ qcFresh' = (qcFile # qcRead[w].file)
  /\ EndQc(w)

\* the folder is away, or the tick fails
FailQc(w) ==
  /\ qcRead[w].busy
  /\ EndQc(w)
  /\ UNCHANGED <<rowOf, gearOn, judged, qcFresh>>

\* qc_run: new rows as QC has them, stages of old ones forward, and the machine on both
QcRun(w) ==
  /\ qcRead[w].busy
  /\ LET f == qcRead[w].file
         N == Missing(f)
     IN /\ rowOf' = [r \in QcRows |->
                       IF r \in N THEN [NoQcRow EXCEPT !.in = TRUE, !.shipped = f[r] \in SentInQc,
                                                      !.archived = f[r] = "closed"]
                       ELSE Advanced(rowOf, f)[r]]
        /\ gearOn' = gearOn \cup {<<q, GearOf[q]>> : q \in {p \in Qcs : f[p] # "gone"}}
  /\ EndQc(w)
  /\ UNCHANGED <<judged, qcFresh>>

OnRows(rs) ==
  /\ rowOf' = rs
  /\ UNCHANGED <<qcFile, backed, qcRead, qcFresh, qcWrites>>

\* qc_shipped_apply: what was picked of the sure ones is shipped and closed
QcShippedApply(S) ==
  /\ S # {}
  /\ OnRows([r \in QcRows |-> IF r \in S THEN [rowOf[r] EXCEPT !.shipped = TRUE, !.archived = TRUE]
                                ELSE rowOf[r]])
  /\ judged' = Judged(S)
  /\ UNCHANGED gearOn

\* qc_shipped_dismiss
QcDismiss(S) ==
  /\ S # {}
  /\ OnRows(Archived(rowOf, S))
  /\ judged' = Judged(S)
  /\ UNCHANGED gearOn

\* qc_shipped_restore: back on the board; a merged row gets neither its sale nor its machines back
QcRestore(r) ==
  /\ rowOf[r].dup # NoRow
  /\ OnRows([rowOf EXCEPT ![r].archived = FALSE, ![r].dup = NoRow])
  /\ UNCHANGED <<gearOn, judged>>

\* qc_merge: a pair is skipped for a row that was excluded, with every pair of that row
QcMerge(P) ==
  /\ \A p \in MergePlan(rowOf, judged) \ P : \E r \in RowsIn(p) : \A o \in P : r \notin RowsIn(o)
  /\ \E s \in Orders(P) :
       /\ s # <<>> /\ MergesApart(s)
       /\ OnRows(MergedRows(rowOf, s))
       /\ gearOn' = MergedGear(s)
       /\ UNCHANGED judged

\* an order is collected from its mall
CollectRow(m) ==
  /\ ~rowOf[m].in
  /\ OnRows([rowOf EXCEPT ![m].in = TRUE])
  /\ UNCHANGED <<gearOn, judged>>

\* _set_order_assets: machines go on a row, or off it
MatchRow(r, A) ==
  /\ rowOf[r].in /\ ~rowOf[r].cancelled /\ ~rowOf[r].archived /\ ~rowOf[r].shipped
  /\ OnRows(rowOf)
  /\ gearOn' = {l \in gearOn : l[1] # r} \cup {<<r, a>> : a \in A}
  /\ UNCHANGED judged

OnRow(r, row) == row # rowOf[r] /\ OnRows([rowOf EXCEPT ![r] = row]) /\ UNCHANGED judged

\* _stage_check: the desk ships an order, or takes that back
ShipRow(r, done) ==
  /\ rowOf[r].in /\ ~rowOf[r].cancelled /\ ~rowOf[r].archived
  /\ OnRow(r, [rowOf[r] EXCEPT !.shipped = done])
  /\ UNCHANGED gearOn

\* cancel and restoreCancel: a cancelled order holds no machine
CancelRow(r) ==
  /\ rowOf[r].in /\ ~rowOf[r].archived
  /\ OnRow(r, [rowOf[r] EXCEPT !.cancelled = TRUE])
  /\ gearOn' = {l \in gearOn : l[1] # r}
UncancelRow(r) ==
  /\ OnRow(r, [rowOf[r] EXCEPT !.cancelled = FALSE])
  /\ UNCHANGED gearOn

\* [archive], by hand or when CJ has delivered the parcel: the order is shipped, cancelled or marked
\* as delivered, and any can be marked; [unarchive] leaves what the row says it is the second row of
ArchiveRow(r) ==
  /\ rowOf[r].in
  /\ OnRow(r, [rowOf[r] EXCEPT !.archived = TRUE])
  /\ UNCHANGED gearOn
UnarchiveRow(r) ==
  /\ OnRow(r, [rowOf[r] EXCEPT !.archived = FALSE])
  /\ UNCHANGED gearOn

\* _auto_ship_confirm: CJ has the parcel on its way, and no look at whether the row was taken off
AutoShipRow(r) ==
  /\ rowOf[r].in /\ ~rowOf[r].cancelled
  /\ OnRow(r, [rowOf[r] EXCEPT !.shipped = TRUE])
  /\ UNCHANGED gearOn

QcInit ==
  /\ qcFile = [q \in Qcs |-> "gone"] /\ backed = {} /\ qcWrites = 0 /\ qcFresh = TRUE
  /\ rowOf = [r \in QcRows |-> NoQcRow]
  /\ gearOn = {} /\ judged = [r \in QcRows |-> NoRow]
  /\ qcRead = [w \in QcRuns |-> Unread]

\* where runs with several orders of QC begin: each was imported with its machine when all but the
\* first were shipped
FirstQc == CHOOSE q \in Qcs : TRUE
QcStart ==
  /\ qcFile = [q \in Qcs |-> IF q = FirstQc THEN "listed" ELSE "shipped"]
  /\ rowOf = [r \in QcRows |-> [NoQcRow EXCEPT !.in = r \in Qcs, !.shipped = r \in Qcs \ {FirstQc}]]
  /\ gearOn = {<<q, GearOf[q]>> : q \in Qcs} /\ judged = [r \in QcRows |-> NoRow]
  /\ backed = {} /\ qcFresh = TRUE /\ qcWrites = Cardinality(Qcs)
  /\ qcRead = [w \in QcRuns |-> Unread]

QcNext ==
  \/ \E q \in Qcs, to \in QcStates : QcWrites(q, to)
  \/ \E w \in QcRuns : \/ SyncOnce(w) \/ FailQc(w) \/ QcRun(w)
                       \/ \E force \in BOOLEAN : ReadQc(w, force)
  \/ \E S \in SUBSET Hits(rowOf) : QcShippedApply(S)
  \/ \E S \in SUBSET TakenDown(rowOf) : QcDismiss(S)
  \/ \E P \in SUBSET MergePlan(rowOf, judged) : QcMerge(P)
  \/ \E m \in Malls : CollectRow(m)
  \/ \E r \in QcRows : \/ QcRestore(r) \/ CancelRow(r) \/ UncancelRow(r) \/ ArchiveRow(r)
                       \/ UnarchiveRow(r) \/ AutoShipRow(r)
                       \/ \E done \in BOOLEAN : ShipRow(r, done)
                       \/ \E A \in SUBSET Gear : MatchRow(r, A)

QcSpec == QcInit /\ [][QcNext]_qcVars
-----------------------------------------------------------------------------
\* Following the same file a second time changes nothing: no row is moved on or taken off, and no
\* pair is merged again (_advance_fields: once the same pairs were merged every twenty seconds and
\* the turnover went up and down)
SettledBy(f) ==
  /\ Advanced(rowOf, f) = rowOf
  /\ TakenDown(rowOf) = {}
  /\ MergePlan(rowOf, judged) = {}
FollowUpSettles ==
  [][\A w \in QcRuns : SyncOnce(w) => \A f \in {qcRead[w].file} : SettledBy(f)']_qcVars

Merging == (\E w \in QcRuns : SyncOnce(w)) \/ \E P \in SUBSET MergePlan(rowOf, judged) : QcMerge(P)

\* some row is taken for the second of a QC order whose own row is taken for the second of another
Chained(js) == \E q \in Qcs : js[q] \notin {q, NoRow} /\ \E r \in QcRows \ {q} : js[r] = q

\* A merge stops the sale of one row in favour of another that counts, and what machine went to
\* whom stays known: a machine is on its row or on the one that its row is the second of
\* (merge_duplicates), as long as no row is the second of a second one
MergesLoseNothing ==
  [][Merging /\ ~Chained(judged') =>
       \A r \in QcRows :
         /\ rowOf[r].shipped /\ ~rowOf'[r].shipped =>
              rowOf'[r].dup # NoRow /\ rowOf'[rowOf'[r].dup].shipped
         /\ \A a \in Gear : <<r, a>> \in gearOn =>
              <<r, a>> \in gearOn' \/ <<rowOf'[r].dup, a>> \in gearOn']_qcVars

\* What machine went to whom must not be cut off by a merge (qc_shipped.py:649)
MergesKeepMachines ==
  [][Merging => \A l \in gearOn : \E r \in QcRows : <<r, l[2]>> \in gearOn']_qcVars
=============================================================================
