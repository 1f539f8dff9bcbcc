------------------------------ MODULE Cutover -------------------------------
(***************************************************************************)
(* The alarm for double entry, app/purchase/cutover.py: from a cut-over    *)
(* date on nothing is to be entered in the old system (TMS) any more.  A   *)
(* scan reads TMS's feed of changes from a cursor and lists what was added *)
(* since that date; a person judges each entry.  The cursor is kept in the *)
(* state file of tms_link, which every scan reads as a whole when it       *)
(* begins and writes as a whole when it ends.                              *)
(***************************************************************************)
EXTENDS Naturals, Sequences

CONSTANTS
  Scanners,   \* the daemon's tick and [scan now]
  MaxFeed,    \* bound: changes in TMS
  MaxDate,    \* bound: days; 0 stands for no date
  PageSize,   \* PAGE
  MaxSaves,   \* bound: times the date is saved
  Patient     \* whether the date is saved only while no scan runs

ASSUME CutoverBounds == {MaxFeed, MaxDate, PageSize, MaxSaves} \subseteq Nat /\ Patient \in BOOLEAN

VARIABLES
  feed,     \* HIS of TMS: which kind of change, on which day
  cutover,  \* the setting: date, enabled, baselineCursor
  cursor,   \* cutover_cursor in tms_link_state.json
  entries,  \* tms_dual_entries: status by position in the feed
  scan,     \* scans under way: after, the setting they read, and whether they have read
  saves     \* times the date was saved

cutoverVars == <<feed, cutover, cursor, entries, scan, saves>>

Days     == 1..MaxDate
Resting  == [running |-> FALSE]
Statuses == {"open", "ok", "reentered"}

CutoverOK ==
  /\ feed \in Seq([added : BOOLEAN, day : Days]) /\ Len(feed) <= MaxFeed
  /\ cutover \in [date : 0..MaxDate, enabled : BOOLEAN, baseline : 0..MaxFeed]
  /\ cursor \in 0..MaxFeed
  /\ entries \in [1..MaxFeed -> Statuses \cup {"none"}]
  /\ \A s \in Scanners : scan[s].running => scan[s].after \in 0..MaxFeed
-----------------------------------------------------------------------------
IsActive(cfg) == cfg.enabled /\ cfg.date # 0

LaterThan(cfg, change) == change.added /\ change.day > cfg.date       \* mutant
\* an addition on the day of the cut-over or after it
Late(cfg, change) == change.added /\ change.day >= cfg.date

\* TMS; its days do not run back
Input(added, day) ==
  /\ Len(feed) < MaxFeed
  /\ feed # <<>> => feed[Len(feed)].day <= day
  /\ feed' = Append(feed, [added |-> added, day |-> day])
  /\ UNCHANGED <<cutover, cursor, entries, scan, saves>>

StartScan(s) ==
  /\ ~scan[s].running /\ IsActive(cutover)
  /\ scan' = [scan EXCEPT ![s] = [running |-> TRUE, cfg |-> cutover,
                after |-> IF cursor # 0 THEN cursor ELSE cutover.baseline]]
  /\ UNCHANGED <<feed, cutover, cursor, entries, saves>>

\* INSERT OR IGNORE: a change that is listed already keeps its entry
Listed(page, cfg) ==
  [i \in 1..MaxFeed |->
     IF i \in page /\ Late(cfg, feed[i]) /\ entries[i] = "none" THEN "open" ELSE entries[i]]

\* a page is stored in one transaction, and the scan's own cursor moves behind it
ScanPage(s) ==
  /\ scan[s].running /\ scan[s].after < Len(feed)
  /\ LET last == IF scan[s].after + PageSize < Len(feed) THEN scan[s].after + PageSize
                                                         ELSE Len(feed)
     IN /\ entries' = Listed((scan[s].after + 1)..last, scan[s].cfg)
        /\ scan' = [scan EXCEPT ![s].after = last]
  /\ UNCHANGED <<feed, cutover, cursor, saves>>

\* _write_state: also after MAX_PAGES pages
EndScan(s) ==
  /\ scan[s].running
  /\ cursor' = scan[s].after
  /\ scan' = [scan EXCEPT ![s] = Resting]
  /\ UNCHANGED <<feed, cutover, entries, saves>>

\* the gate fails or the process stops: the file keeps its cursor, the pages stay stored
FailScan(s) ==
  /\ scan[s].running
  /\ scan' = [scan EXCEPT ![s] = Resting]
  /\ UNCHANGED <<feed, cutover, cursor, entries, saves>>

\* cutover_set: a new date starts from the end of the feed, without a gate from its beginning;
\* the file is written before the setting is stored
SaveDate(date, enabled, gate) ==
  /\ saves < MaxSaves
  /\ Patient => \A s \in Scanners : ~scan[s].running
  /\ saves' = saves + 1
  /\ LET baseline == IF gate /\ date # 0 THEN Len(feed) ELSE 0
         new      == date # cutover.date
     IN /\ cursor'  = IF new THEN baseline ELSE cursor
        /\ cutover' = [date |-> date, enabled |-> enabled,
                       baseline |-> IF new THEN baseline ELSE cutover.baseline]
  /\ UNCHANGED <<feed, entries, scan>>

\* cutover_entry_status
Judge(i, status) ==
  /\ entries[i] # "none"
  /\ entries' = [entries EXCEPT ![i] = status]
  /\ UNCHANGED <<feed, cutover, cursor, scan, saves>>

CutoverInit ==
  /\ feed = <<>> /\ cursor = 0 /\ saves = 0
  /\ cutover = [date |-> 0, enabled |-> TRUE, baseline |-> 0]
  /\ entries = [i \in 1..MaxFeed |-> "none"]
  /\ scan = [s \in Scanners |-> Resting]

CutoverNext ==
  \/ \E added \in BOOLEAN, day \in Days : Input(added, day)
  \/ \E s \in Scanners : StartScan(s) \/ ScanPage(s) \/ EndScan(s) \/ FailScan(s)
  \/ \E date \in 0..MaxDate, enabled, gate \in BOOLEAN : SaveDate(date, enabled, gate)
  \/ \E i \in 1..MaxFeed, status \in Statuses : Judge(i, status)

CutoverSpec == CutoverInit /\ [][CutoverNext]_cutoverVars
-----------------------------------------------------------------------------
\* What was added in TMS behind the baseline, on or after the cut-over date, is listed when the
\* cursor has passed it, whichever scans overlapped or failed half way (cutover.scan: the cursor
\* moves page by page, and what is seen twice is stored once)
LateInputIsListed ==
  \A i \in 1..Len(feed) :
    cutover.date # 0 /\ i > cutover.baseline /\ i <= cursor /\ feed[i].added
      /\ feed[i].day >= cutover.date => entries[i] # "none"
=============================================================================
