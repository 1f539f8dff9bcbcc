----------------------------- MODULE Numbering ------------------------------
(***************************************************************************)
(* Asset numbers of one day: app/purchase/numbering.py, next_asset_no,     *)
(* _add_assets and the number fixes of app/purchase/__init__.py.  Numbers  *)
(* below FirstNo belong to the old system (TMS), the rest to this program. *)
(* A request asks the link's copy of TMS first (outside any transaction)   *)
(* and registers afterwards by that answer.  Prices, texts and serial      *)
(* numbers are left out; a '<no>-오류<n>' number is Odd, of no day.         *)
(***************************************************************************)
EXTENDS Naturals, FiniteSets

CONSTANTS
  Units,      \* machines to register
  Requests,   \* requests in flight
  FirstNo,    \* OWS_ASSET_SEQ_START
  LastNo,     \* 9999
  Odd, Unregistered

ASSUME NumberBands == FirstNo \in Nat /\ LastNo \in Nat /\ 1 < FirstNo /\ FirstNo <= LastNo
ASSUME OddIsNoNumber == Odd \notin Nat /\ Unregistered \notin Nat /\ Odd # Unregistered

VARIABLES
  no,         \* assets.asset_no
  counter,    \* asset_no_counters.last_seq of the day, 0 when there is no row
  copy,       \* what the copy of TMS says of a number: "ok", "gone" (deleted) or "none"
  asked,      \* the answer each request got before its transaction
  tmsLocked,  \* assets with tms_lock = 1
  times       \* history: how often a number of ours came into use

numberVars == <<no, counter, copy, asked, tmsLocked, times>>

Numbers == 1..LastNo
OwsBand == FirstNo..LastNo
Verdicts == {"none", "ok", "gone", "unknown"}
NotAsked == [open |-> FALSE, want |-> 0, verdict |-> "unknown", hold |-> FALSE]

NumbersOK ==
  /\ no \in [Units -> Numbers \cup {Odd, Unregistered}]
  /\ counter \in 0..LastNo
  /\ copy \in [Numbers -> {"none", "ok", "gone"}]
  /\ asked \in [Requests -> [open : BOOLEAN, want : 0..LastNo, verdict : Verdicts, hold : BOOLEAN]]
  /\ tmsLocked \subseteq Units
  /\ times \in [OwsBand -> Nat]

Worn == {no[u] : u \in Units} \cap Numbers
Free(n) == n \notin Worn
Top(S) == IF S = {} THEN 0 ELSE CHOOSE m \in S : \A n \in S : n <= m

NextNoAssetsOnly == Top((Worn \cap OwsBand) \cup {FirstNo - 1}) + 1       \* mutant
\* next_asset_no: behind every number of ours that is worn, issued or typed by hand
NextNo == Top((Worn \cap OwsBand) \cup {counter, FirstNo - 1}) + 1

Used(n) == times' = [times EXCEPT ![n] = @ + 1]
-----------------------------------------------------------------------------
(***************************************************************************)
(* The question to the link, outside the transaction                       *)
(***************************************************************************)
\* precheck_bodies / precheck_nos: the number typed (0: none, number it automatically); a
\* stale copy or a link out of order answers "unknown" and holds nothing back
Ask(r, n, reached) ==
  /\ ~asked[r].open
  /\ asked' = [asked EXCEPT ![r] =
       [open |-> TRUE, want |-> n,
        verdict |-> IF n = 0 \/ ~reached THEN "unknown" ELSE copy[n],
        hold |-> n = 0 /\ reached /\ \E m \in OwsBand : copy[m] = "ok"]]
  /\ UNCHANGED <<no, counter, copy, tmsLocked, times>>

\* validate_manual_no: a TMS number must be known to TMS, one of ours must not
Acceptable(n, verdict) ==
  IF n \in OwsBand THEN verdict \in {"none", "unknown"} ELSE verdict \in {"ok", "unknown"}

\* a number of ours typed by hand moves the day's counter
Reserved(n) ==
  IF n \in OwsBand
  THEN /\ counter' = IF n > counter THEN n ELSE counter
       /\ times' = IF times[n] = 0 THEN [times EXCEPT ![n] = 1] ELSE times
  ELSE UNCHANGED <<counter, times>>

Answered(r) == asked' = [asked EXCEPT ![r] = NotAsked]
Automatic(r) == asked[r].open /\ asked[r].want = 0 /\ ~asked[r].hold
Typed(r, n)  == asked[r].open /\ asked[r].want = n /\ Acceptable(n, asked[r].verdict) /\ Free(n)

\* the request ends in an error: on hold, number refused or in use
Refuse(r) ==
  /\ asked[r].open
  /\ Answered(r)
  /\ UNCHANGED <<no, counter, copy, tmsLocked, times>>
-----------------------------------------------------------------------------
(***************************************************************************)
(* The transactions                                                        *)
(***************************************************************************)
\* _add_assets of one machine without a number
RegisterNext(r, u) ==
  /\ Automatic(r)
  /\ no[u] = Unregistered
  /\ NextNo <= LastNo /\ Free(NextNo)
  /\ no' = [no EXCEPT ![u] = NextNo]
  /\ counter' = NextNo
  /\ Used(NextNo)
  /\ Answered(r)
  /\ UNCHANGED <<copy, tmsLocked>>

\* _add_assets, update_asset: the number a person typed
RegisterTyped(r, u, n) ==
  /\ Typed(r, n)
  /\ Reserved(n)
  /\ no' = [no EXCEPT ![u] = n]
  /\ Answered(r)
  /\ UNCHANGED <<copy, tmsLocked>>

\* issue_asset_no ([자동 채번], and RMS on a return): the number is spent, worn or not
IssueNo(r) ==
  /\ Automatic(r)
  /\ NextNo <= LastNo
  /\ counter' = NextNo
  /\ Used(NextNo)
  /\ Answered(r)
  /\ UNCHANGED <<no, copy, tmsLocked>>
-----------------------------------------------------------------------------
(***************************************************************************)
(* Number fixes (asset_number_fix): both machines are locked against TMS    *)
(***************************************************************************)
\* two machines exchange their numbers
FixSwap(u, v) ==
  /\ u # v /\ {no[u], no[v]} \subseteq Numbers
  /\ no' = [no EXCEPT ![u] = no[v], ![v] = no[u]]
  /\ tmsLocked' = tmsLocked \cup {u, v}
  /\ UNCHANGED <<counter, copy, asked, times>>

\* u takes the number v wears; v steps back to the number typed for it, or to an odd one
FixTake(r, u, v) ==
  LET n == asked[r].want IN
  /\ u # v /\ no[u] # Unregistered /\ no[v] \in Numbers
  /\ asked[r].open
  /\ n # 0 => Typed(r, n)
  /\ Reserved(n)
  /\ no' = [no EXCEPT ![u] = no[v], ![v] = IF n = 0 THEN Odd ELSE n]
  /\ tmsLocked' = tmsLocked \cup {u, v}
  /\ Answered(r)
  /\ UNCHANGED copy

\* u takes a number nobody wears
FixTakeFree(r, u, n) ==
  /\ no[u] # Unregistered
  /\ Typed(r, n)
  /\ Reserved(n)
  /\ no' = [no EXCEPT ![u] = n]
  /\ tmsLocked' = tmsLocked \cup {u}
  /\ Answered(r)
  /\ UNCHANGED copy

\* somebody types, or deletes, a number in TMS and the copy follows
TmsTypes(n, says) ==
  /\ copy' = [copy EXCEPT ![n] = says]
  /\ UNCHANGED <<no, counter, asked, tmsLocked, times>>

NumberNext ==
  \/ \E r \in Requests :
       \/ \E n \in 0..LastNo, reached \in BOOLEAN : Ask(r, n, reached)
       \/ Refuse(r) \/ IssueNo(r)
       \/ \E u \in Units :
            \/ RegisterNext(r, u)
            \/ \E n \in Numbers : RegisterTyped(r, u, n) \/ FixTakeFree(r, u, n)
            \/ \E v \in Units : FixTake(r, u, v)
  \/ \E u, v \in Units : FixSwap(u, v)
  \/ \E n \in Numbers, says \in {"none", "ok", "gone"} : TmsTypes(n, says)

NumberInit ==
  /\ no = [u \in Units |-> Unregistered]
  /\ counter = 0
  /\ copy = [n \in Numbers |-> "none"]
  /\ asked = [r \in Requests |-> NotAsked]
  /\ tmsLocked = {}
  /\ times = [n \in OwsBand |-> 0]

NumberSpec == NumberInit /\ [][NumberNext]_numberVars
-----------------------------------------------------------------------------
\* A number of this program comes into use once: it is not given out again after its machine
\* was renumbered, after a person typed it, or while it lies unused in a form (asset_no_counters)
NumbersComeOnce == \A n \in OwsBand : times[n] <= 1
=============================================================================
