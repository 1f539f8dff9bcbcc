---------------------------- MODULE OutsideProofs ---------------------------
(***************************************************************************)
(* What lies around the orders and the machines: the accounts, the         *)
(* cut-over from TMS, the machines that follow TMS, their categories and   *)
(* the rows that follow the QC program, for any number of people, runs,    *)
(* machines and rows.                                                      *)
(***************************************************************************)
EXTENDS Accounts, Cutover, TmsSync, QcFollow, Reclass, Induction

(***************************************************************************)
(* Accounts: whoever may manage them, the program keeps an administrator   *)
(* who can log in, whatever requests overlap                               *)
(***************************************************************************)
\* somebody is there whom a request was let in for
Admitted == \A c \in Callers : caller[c].as # Nobody => Known # {}

\* what every step keeps: only a request that was let in changes accounts, and by then there is
\* an administrator
AccountInv == AccountsOK /\ AdminRemains /\ Admitted

USE DEF Known, Usable

\* p is not the last one: after any change to p alone there is still somebody
LEMMA NotTheLast ==
  ASSUME AccountsOK, NEW p \in Staff, NotLastAdmin(p), NEW row,
         account' = [account EXCEPT ![p] = row]
  PROVE  \E q \in Staff : account'[q].exists /\ account'[q].admin /\ account'[q].enabled
<1>1. PICK q \in Staff \ {p} : account[q].exists /\ account[q].admin /\ account[q].enabled
  BY DEF NotLastAdmin
<1>2. account'[q] = account[q]
  BY <1>1 DEF AccountsOK
<1> QED BY <1>1, <1>2

\* an account that stays or becomes one of an enabled administrator is enough
LEMMA AnyAdminIsEnough ==
  ASSUME NEW q \in Staff, account'[q].exists, account'[q].admin, account'[q].enabled
  PROVE  AdminRemains' /\ Known' # {}
BY DEF AdminRemains

\* A request that is answered is no longer let in
LEMMA CallerEnds ==
  ASSUME AccountsOK, NEW c \in Callers, Ends(c)
  PROVE  /\ caller' \in [Callers -> [as : Staff \cup {Nobody}, admin : BOOLEAN, perms : SUBSET Perms]]
         /\ \A d \in Callers : caller'[d].as # Nobody => caller[d].as # Nobody
BY DEF AccountsOK, Ends, NotCalled

\* the administrator who is there when a request that was let in writes
LEMMA SomebodyManages ==
  ASSUME AccountInv, NEW c \in Callers, caller[c].as # Nobody
  PROVE  \E q \in Staff : account[q].exists /\ account[q].admin /\ account[q].enabled
BY DEF AccountInv, Admitted, AdminRemains

\* Nobody has an account at first
LEMMA AccountInitially == AccountInit => AccountInv
BY NobodyIsNone DEF AccountInit, AccountInv, AccountsOK, AdminRemains, Admitted, NoAccount, NotCalled

\* The first account is an administrator's
LEMMA SetupKeeps ==
  ASSUME AccountInv, NEW p \in Staff, Setup(p)
  PROVE  AccountInv'
<1> USE DEF AccountInv, Setup
<1>1. AccountsOK'
  BY DEF AccountsOK
<1>2. account'[p].exists /\ account'[p].admin /\ account'[p].enabled
  BY DEF AccountsOK
<1> QED BY <1>1, <1>2, AnyAdminIsEnough DEF Admitted

\* nothing but sessions and callers moves
LEMMA AccountsRest ==
  ASSUME AccountInv, AccountsOK', UNCHANGED account,
         \A d \in Callers : caller'[d].as # Nobody => caller[d].as # Nobody \/ Known # {}
  PROVE  AccountInv'
BY DEF AccountInv, AdminRemains, Admitted

\* A request is let in by a session of an account that is there
LEMMA CallKeeps ==
  ASSUME AccountInv, NEW c \in Callers, NEW p \in Staff, Call(c, p)
  PROVE  AccountInv'
<1>1. AccountsOK'
  BY DEF AccountInv, AccountsOK, Call
<1>2. \A d \in Callers : caller'[d].as # Nobody => caller[d].as # Nobody \/ Known # {}
  BY DEF AccountInv, AccountsOK, Call
<1> QED BY <1>1, <1>2, AccountsRest DEF Call

\* A new account is another one than the administrator's
LEMMA CreateKeeps ==
  ASSUME AccountInv, NEW c \in Callers, NEW p \in Staff, NEW admin \in BOOLEAN,
         NEW perms \in SUBSET Perms, CreateUser(c, p, admin, perms)
  PROVE  AccountInv'
<1>1. AccountsOK'
  BY CallerEnds DEF AccountInv, AccountsOK, CreateUser
<1>2. PICK q \in Staff : account[q].exists /\ account[q].admin /\ account[q].enabled
  BY SomebodyManages DEF CreateUser, MayManage
<1>3. account'[q] = account[q]
  BY <1>2 DEF AccountInv, AccountsOK, CreateUser
<1> QED BY <1>1, <1>2, <1>3, AnyAdminIsEnough DEF AccountInv, Admitted

\* Who is disabled or demoted is not the last administrator, read again in the transaction
LEMMA UpdateKeeps ==
  ASSUME AccountInv, NEW c \in Callers, NEW p \in Staff, NEW enabled \in BOOLEAN,
         NEW admin \in BOOLEAN, UpdateUser(c, p, enabled, admin)
  PROVE  AccountInv'
<1> DEFINE row == [account[p] EXCEPT !.enabled = enabled, !.admin = admin]
<1>0. account' = [account EXCEPT ![p] = row] /\ p \in Staff /\ account[p].exists
  BY DEF UpdateUser, MayTouch, AccountInv, AccountsOK
<1>1. AccountsOK'
  BY <1>0, CallerEnds DEF AccountInv, AccountsOK, UpdateUser
<1>2. \E q \in Staff : account'[q].exists /\ account'[q].admin /\ account'[q].enabled
  <2>1. CASE account[p].admin /\ (~enabled \/ ~admin)
    <3>1. NotLastAdmin(p)
      BY <2>1 DEF UpdateUser
    <3> QED BY <3>1, <1>0, NotTheLast DEF AccountInv
  <2>2. CASE account[p].admin /\ enabled /\ admin
    <3>1. account'[p].exists /\ account'[p].admin /\ account'[p].enabled
      BY <1>0, <2>2 DEF AccountInv, AccountsOK
    <3> QED BY <3>1
  <2>3. CASE ~account[p].admin
    <3>1. PICK q \in Staff : account[q].exists /\ account[q].admin /\ account[q].enabled
      BY SomebodyManages DEF UpdateUser, MayManage
    <3>2. account'[q] = account[q]
      BY <1>0, <2>3, <3>1 DEF AccountInv, AccountsOK
    <3> QED BY <3>1, <3>2
  <2> QED BY <2>1, <2>2, <2>3
<1> QED BY <1>1, <1>2, AnyAdminIsEnough DEF AccountInv, Admitted

\* Neither is who is deleted
LEMMA DeleteKeeps ==
  ASSUME AccountInv, NEW c \in Callers, NEW p \in Staff, DeleteUser(c, p)
  PROVE  AccountInv'
<1>1. AccountsOK'
  BY CallerEnds DEF AccountInv, AccountsOK, DeleteUser, NoAccount
<1>2. \E q \in Staff : account'[q].exists /\ account'[q].admin /\ account'[q].enabled
  <2>1. CASE account[p].admin
    BY <2>1, NotTheLast DEF DeleteUser, AccountInv
  <2>2. CASE ~account[p].admin
    <3>1. PICK q \in Staff : account[q].exists /\ account[q].admin /\ account[q].enabled
      BY SomebodyManages DEF DeleteUser, MayManage
    <3>2. account'[q] = account[q]
      BY <2>2, <3>1 DEF AccountInv, AccountsOK, DeleteUser
    <3> QED BY <3>1, <3>2
  <2> QED BY <2>1, <2>2
<1> QED BY <1>1, <1>2, AnyAdminIsEnough DEF AccountInv, Admitted

\* Permissions do not make an administrator
LEMMA PermsKeeps ==
  ASSUME AccountInv, NEW c \in Callers, NEW p \in Staff, NEW perms \in SUBSET Perms,
         SetUserPerms(c, p, perms)
  PROVE  AccountInv'
<1>1. AccountsOK'
  BY CallerEnds DEF AccountInv, AccountsOK, SetUserPerms
<1>2. PICK q \in Staff : account[q].exists /\ account[q].admin /\ account[q].enabled
  BY SomebodyManages DEF SetUserPerms, MayManage
<1>3. account'[q].exists /\ account'[q].admin /\ account'[q].enabled
  BY <1>2 DEF AccountInv, AccountsOK, SetUserPerms
<1> QED BY <1>1, <1>3, AnyAdminIsEnough DEF AccountInv, Admitted

\* Every step of people, of their sessions and of their requests
LEMMA AccountStep == AccountInv /\ [AccountNext]_accountVars => AccountInv'
<1> SUFFICES ASSUME AccountInv, [AccountNext]_accountVars PROVE AccountInv'
  OBVIOUS
<1>1. CASE UNCHANGED accountVars
  BY <1>1 DEF AccountInv, AccountsOK, AdminRemains, Admitted, accountVars
<1>2. ASSUME NEW p \in Staff, Setup(p) \/ Login(p) \/ Logout(p) PROVE AccountInv'
  <2>1. CASE Setup(p)
    BY <2>1, SetupKeeps
  <2>2. CASE Login(p) \/ Logout(p)
    <3>1. AccountsOK' /\ UNCHANGED <<account, caller>>
      BY <2>2 DEF AccountInv, AccountsOK, Login, Logout
    <3> QED BY <3>1, AccountsRest
  <2> QED BY <1>2, <2>1, <2>2
<1>3. ASSUME NEW c \in Callers, GiveUp(c) PROVE AccountInv'
  <2>1. AccountsOK' /\ \A d \in Callers : caller'[d].as # Nobody => caller[d].as # Nobody
    BY <1>3, CallerEnds DEF AccountInv, AccountsOK, GiveUp
  <2> QED BY <1>3, <2>1, AccountsRest DEF GiveUp
<1>4. ASSUME NEW c \in Callers, NEW p \in Staff, Call(c, p) PROVE AccountInv'
  BY <1>4, CallKeeps
<1>5. ASSUME NEW c \in Callers, NEW p \in Staff, ResetPassword(c, p) PROVE AccountInv'
  <2>1. AccountsOK' /\ \A d \in Callers : caller'[d].as # Nobody => caller[d].as # Nobody
    BY <1>5, CallerEnds DEF AccountInv, AccountsOK, ResetPassword
  <2> QED BY <1>5, <2>1, AccountsRest DEF ResetPassword
<1>6. ASSUME NEW c \in Callers, NEW p \in Staff, DeleteUser(c, p) PROVE AccountInv'
  BY <1>6, DeleteKeeps
<1>7. ASSUME NEW c \in Callers, NEW p \in Staff, NEW admin \in BOOLEAN, NEW enabled \in BOOLEAN,
             UpdateUser(c, p, enabled, admin)
      PROVE  AccountInv'
  BY <1>7, UpdateKeeps
<1>8. ASSUME NEW c \in Callers, NEW p \in Staff, NEW perms \in SUBSET Perms,
             \/ SetUserPerms(c, p, perms)
             \/ \E admin \in BOOLEAN : CreateUser(c, p, admin, perms)
      PROVE  AccountInv'
  BY <1>8, PermsKeeps, CreateKeeps
<1> QED BY <1>1, <1>2, <1>3, <1>4, <1>5, <1>6, <1>7, <1>8 DEF AccountNext

\* Two administrators who demote, disable or delete each other at once, each by what the gate
\* read of them before, never lock everybody out (_assert_not_last_admin in the transaction)
THEOREM AdminAlwaysRemains == AccountSpec => []AdminRemains
<1>1. AccountInv => AdminRemains
  BY DEF AccountInv
<1> QED BY AccountInitially, AccountStep, <1>1, PTL DEF AccountSpec

-----------------------------------------------------------------------------
(***************************************************************************)
(* The cut-over from TMS: the cursor leaves nothing late behind            *)
(***************************************************************************)
Inputs  == [added : BOOLEAN, day : Days]
Settings == [date : 0..MaxDate, enabled : BOOLEAN, baseline : 0..MaxFeed]
ScanRows == {Resting} \cup [running : {TRUE}, cfg : Settings, after : 0..MaxFeed]

\* What was entered late up to a place of the feed is listed
Passed(f, es, cfg, upto) ==
  \A i \in 1..Len(f) :
    cfg.date # 0 /\ i > cfg.baseline /\ i <= upto /\ Late(cfg, f[i]) => es[i] # "none"

\* what every step keeps: a scan under way has the setting that holds, and has listed what it
\* has passed
CutoverInv ==
  /\ feed \in Seq(Inputs) /\ Len(feed) <= MaxFeed
  /\ cutover \in Settings /\ cutover.baseline <= Len(feed)
  /\ cursor \in 0..Len(feed)
  /\ entries \in [1..MaxFeed -> Statuses \cup {"none"}]
  /\ scan \in [Scanners -> ScanRows]
  /\ \A s \in Scanners : scan[s].running =>
       /\ scan[s].cfg = cutover /\ scan[s].after \in 0..Len(feed)
       /\ Passed(feed, entries, cutover, scan[s].after)
  /\ Passed(feed, entries, cutover, cursor)

\* A row of a scan that runs
LEMMA RunningScan ==
  ASSUME CutoverInv, NEW s \in Scanners, scan[s].running
  PROVE  /\ scan[s] \in [running : {TRUE}, cfg : Settings, after : 0..MaxFeed]
         /\ scan[s].cfg = cutover /\ scan[s].after \in 0..Len(feed)
         /\ Passed(feed, entries, cutover, scan[s].after) /\ Len(feed) \in Nat
<1>1. scan[s] # Resting
  BY DEF Resting
<1>2. scan[s] \in [running : {TRUE}, cfg : Settings, after : 0..MaxFeed]
  BY <1>1 DEF CutoverInv, ScanRows
<1>3. /\ scan[s].cfg = cutover /\ scan[s].after \in 0..Len(feed)
      /\ Passed(feed, entries, cutover, scan[s].after)
  BY DEF CutoverInv
<1>4. Len(feed) \in Nat
  BY DEF CutoverInv
<1> QED BY <1>2, <1>3, <1>4

\* What is entered next lies behind every cursor
LEMMA InputKeeps ==
  ASSUME CutoverInv, NEW added \in BOOLEAN, NEW day \in Days, Input(added, day)
  PROVE  CutoverInv'
<1> DEFINE change == [added |-> added, day |-> day]
<1>1. change \in Inputs
  BY Zenon DEF Inputs
<1>2. /\ feed' = Append(feed, change) /\ Len(feed) < MaxFeed
      /\ UNCHANGED <<cutover, cursor, entries, scan>>
  BY DEF Input
<1> HIDE DEF change
<1>3. /\ feed' \in Seq(Inputs) /\ Len(feed') = Len(feed) + 1 /\ Len(feed) \in Nat
      /\ \A i \in 1..Len(feed) : feed'[i] = feed[i]
  BY <1>1, <1>2 DEF CutoverInv
<1>4. ASSUME NEW n \in 0..Len(feed), Passed(feed, entries, cutover, n)
      PROVE  Passed(feed', entries', cutover', n)
  BY <1>2, <1>3, <1>4 DEF Passed, Late
<1>5. MaxFeed \in Nat
  BY CutoverBounds
<1>6. /\ Len(feed') <= MaxFeed /\ cutover.baseline <= Len(feed') /\ cursor \in 0..Len(feed')
      /\ Passed(feed', entries', cutover', cursor')
  BY <1>2, <1>3, <1>4, <1>5 DEF CutoverInv, Settings
<1>7. ASSUME NEW s \in Scanners, scan[s].running
      PROVE  /\ scan[s].cfg = cutover /\ scan[s].after \in 0..Len(feed')
             /\ Passed(feed', entries', cutover', scan[s].after)
  <2>1. /\ scan[s].cfg = cutover /\ scan[s].after \in 0..Len(feed)
        /\ Passed(feed, entries, cutover, scan[s].after)
    BY <1>7, RunningScan
  <2> QED BY <1>3, <1>4, <2>1
<1> QED BY <1>2, <1>3, <1>6, <1>7 DEF CutoverInv

\* A scan starts from the cursor, or from where the setting began
LEMMA StartScanKeeps ==
  ASSUME CutoverInv, NEW s \in Scanners, StartScan(s)
  PROVE  CutoverInv'
<1> DEFINE from == IF cursor # 0 THEN cursor ELSE cutover.baseline
           row  == [running |-> TRUE, cfg |-> cutover, after |-> from]
<1>1. scan' = [scan EXCEPT ![s] = row] /\ UNCHANGED <<feed, cutover, cursor, entries>>
  BY DEF StartScan
<1>2. Len(feed) \in Nat /\ cutover.baseline \in Nat /\ MaxFeed \in Nat
  BY CutoverBounds DEF CutoverInv, Settings
<1>3. from \in 0..Len(feed) /\ from \in 0..MaxFeed /\ Passed(feed, entries, cutover, from)
  BY <1>2 DEF CutoverInv, Passed
<1> HIDE DEF from
<1>4. row \in ScanRows /\ row.running = TRUE /\ row.cfg = cutover /\ row.after = from
  BY <1>3 DEF ScanRows, CutoverInv
<1> HIDE DEF row
<1>5. /\ scan' \in [Scanners -> ScanRows]
      /\ \A t \in Scanners : scan'[t] = IF t = s THEN row ELSE scan[t]
  BY <1>1, <1>4 DEF CutoverInv
<1> QED BY <1>1, <1>3, <1>4, <1>5 DEF CutoverInv, Passed

\* A page is listed before the scan moves behind it
LEMMA ScanPageKeeps ==
  ASSUME CutoverInv, NEW s \in Scanners, ScanPage(s)
  PROVE  CutoverInv'
<1> DEFINE was  == scan[s].after
           last == IF was + PageSize < Len(feed) THEN was + PageSize ELSE Len(feed)
           row  == [scan[s] EXCEPT !.after = last]
<1>1. /\ scan[s].running /\ was < Len(feed) /\ UNCHANGED <<feed, cutover, cursor>>
      /\ entries' = Listed((was + 1)..last, scan[s].cfg)
      /\ scan' = [scan EXCEPT ![s] = row]
  BY DEF ScanPage, CutoverInv
<1>2. /\ scan[s] \in [running : {TRUE}, cfg : Settings, after : 0..MaxFeed]
      /\ scan[s].cfg = cutover /\ was \in 0..Len(feed) /\ Passed(feed, entries, cutover, was)
      /\ Len(feed) \in Nat /\ Len(feed) <= MaxFeed /\ MaxFeed \in Nat /\ PageSize \in Nat
  BY <1>1, RunningScan, CutoverBounds DEF CutoverInv
<1>3. last \in 0..Len(feed) /\ last \in 0..MaxFeed
  BY <1>2
<1>4. row \in ScanRows /\ row.cfg = cutover /\ row.after = last
  BY <1>2, <1>3 DEF ScanRows
<1> HIDE DEF last, row
<1>5. /\ entries' \in [1..MaxFeed -> Statuses \cup {"none"}]
      /\ \A i \in 1..MaxFeed : entries[i] # "none" => entries'[i] # "none"
      /\ \A i \in 1..MaxFeed : i > was /\ i <= last /\ Late(cutover, feed[i]) => entries'[i] # "none"
  <2>1. \A i \in 1..MaxFeed : i > was /\ i <= last => i \in (was + 1)..last
    BY <1>2, <1>3
  <2>2. \A i \in 1..MaxFeed :
          entries'[i] = IF i \in (was + 1)..last /\ Late(cutover, feed[i]) /\ entries[i] = "none"
                        THEN "open" ELSE entries[i]
    BY <1>1, <1>2 DEF Listed
  <2>3. entries' \in [1..MaxFeed -> Statuses \cup {"none"}]
    BY <1>1 DEF Listed, CutoverInv, Statuses
  <2> QED BY <2>1, <2>2, <2>3
<1>6. \A n \in 0..Len(feed) : Passed(feed, entries, cutover, n) => Passed(feed', entries', cutover', n)
  BY <1>1, <1>2, <1>5 DEF Passed, Late
<1>7. Passed(feed', entries', cutover', last)
  BY <1>1, <1>2, <1>3, <1>5 DEF Passed, Late
<1>8. /\ scan' \in [Scanners -> ScanRows]
      /\ \A t \in Scanners : scan'[t] = IF t = s THEN row ELSE scan[t]
  BY <1>1, <1>4 DEF CutoverInv
<1> QED BY <1>1, <1>3, <1>4, <1>5, <1>6, <1>7, <1>8 DEF CutoverInv

\* A scan ends, with its cursor or without
LEMMA ScanEnds ==
  ASSUME CutoverInv, NEW s \in Scanners, EndScan(s) \/ FailScan(s)
  PROVE  CutoverInv'
<1>1. /\ scan[s].running /\ scan' = [scan EXCEPT ![s] = Resting]
      /\ UNCHANGED <<feed, cutover, entries>> /\ (cursor' = cursor \/ cursor' = scan[s].after)
  BY DEF EndScan, FailScan
<1>2. cursor' \in 0..Len(feed) /\ Passed(feed, entries, cutover, cursor')
  BY <1>1, RunningScan DEF CutoverInv
<1>3. Passed(feed', entries', cutover', cursor')
  BY <1>1, <1>2 DEF Passed
<1>4. Resting \in ScanRows /\ ~Resting.running
  BY DEF ScanRows, Resting
<1>5. /\ scan' \in [Scanners -> ScanRows]
      /\ \A t \in Scanners : scan'[t] = IF t = s THEN Resting ELSE scan[t]
  BY <1>1, <1>4 DEF CutoverInv
<1> QED BY <1>1, <1>2, <1>3, <1>4, <1>5 DEF CutoverInv, Passed

\* A new date starts with the cursor at its baseline
LEMMA SaveDateKeeps ==
  ASSUME CutoverInv, Patient, NEW date \in 0..MaxDate, NEW enabled \in BOOLEAN,
         NEW gate \in BOOLEAN, SaveDate(date, enabled, gate)
  PROVE  CutoverInv'
<1> DEFINE baseline == IF gate /\ date # 0 THEN Len(feed) ELSE 0
           new      == date # cutover.date
           base     == IF new THEN baseline ELSE cutover.baseline
           row      == [date |-> date, enabled |-> enabled, baseline |-> base]
<1>1. /\ \A s \in Scanners : ~scan[s].running
      /\ cursor' = IF new THEN baseline ELSE cursor
      /\ cutover' = row
      /\ UNCHANGED <<feed, entries, scan>>
  BY DEF SaveDate
<1>2. Len(feed) \in Nat /\ Len(feed) <= MaxFeed /\ MaxFeed \in Nat /\ cutover.baseline \in 0..Len(feed)
  BY CutoverBounds DEF CutoverInv, Settings
<1>3. base \in 0..Len(feed) /\ base \in 0..MaxFeed /\ cursor' \in 0..Len(feed)
  BY <1>1, <1>2 DEF CutoverInv
<1>4. new => base = cursor'
  BY <1>1
<1>5. ~new => base = cutover.baseline /\ cursor' = cursor /\ date = cutover.date
  BY <1>1
<1> HIDE DEF base, new
<1>6. row \in Settings /\ row.date = date /\ row.baseline = base
  BY <1>3, Zenon DEF Settings
<1> HIDE DEF row
<1>7. Passed(feed', entries', cutover', cursor')
  <2>1. CASE new
    BY <1>1, <1>3, <1>4, <1>6, <2>1 DEF Passed
  <2>2. CASE ~new
    BY <1>1, <1>5, <1>6, <2>2 DEF Passed, Late, CutoverInv
  <2> QED BY <2>1, <2>2
<1> QED BY <1>1, <1>3, <1>6, <1>7 DEF CutoverInv

\* Every step of the alarm, with the date saved while no scan runs
LEMMA CutoverStepKeeps == CutoverInv /\ Patient /\ [CutoverNext]_cutoverVars => CutoverInv'
<1> SUFFICES ASSUME CutoverInv, Patient, [CutoverNext]_cutoverVars PROVE CutoverInv'
  OBVIOUS
<1>1. ASSUME NEW i \in 1..MaxFeed, NEW status \in Statuses, Judge(i, status)
      PROVE  CutoverInv'
  <2>1. entries' = [entries EXCEPT ![i] = status] /\ UNCHANGED <<feed, cutover, cursor, scan>>
    BY <1>1 DEF Judge
  <2>2. \A j \in 1..MaxFeed : entries[j] # "none" => entries'[j] # "none"
    BY <2>1 DEF CutoverInv, Statuses
  <2>3. entries' \in [1..MaxFeed -> Statuses \cup {"none"}]
    BY <2>1 DEF CutoverInv
  <2>4. Len(feed) \in Nat /\ Len(feed) <= MaxFeed /\ MaxFeed \in Nat
    BY CutoverBounds DEF CutoverInv
  <2>5. \A n \in 0..Len(feed) : Passed(feed, entries, cutover, n) => Passed(feed', entries', cutover', n)
    BY <2>1, <2>2, <2>4 DEF Passed
  <2> QED BY <2>1, <2>3, <2>5 DEF CutoverInv
<1>2. CASE UNCHANGED cutoverVars
  BY <1>2 DEF cutoverVars, CutoverInv, Passed
<1> QED BY <1>1, <1>2, InputKeeps, StartScanKeeps, ScanPageKeeps, ScanEnds, SaveDateKeeps
        DEF CutoverNext

\* Nothing is entered at first
LEMMA CutoverInitKeeps == CutoverInit => CutoverInv
<1> SUFFICES ASSUME CutoverInit PROVE CutoverInv
  OBVIOUS
<1>1. MaxFeed \in Nat /\ MaxDate \in Nat
  BY CutoverBounds
<1>2. cutover \in Settings /\ cutover.baseline = 0
  BY <1>1 DEF CutoverInit, Settings
<1>3. Resting \in ScanRows /\ ~Resting.running
  BY DEF ScanRows, Resting
<1>4. feed \in Seq(Inputs) /\ Len(feed) = 0
  BY DEF CutoverInit
<1> QED BY <1>1, <1>2, <1>3, <1>4 DEF CutoverInit, CutoverInv, Passed

\* What was added in TMS on or after the cut-over date, behind the baseline, is listed once the
\* cursor has passed it, whichever scans overlap or fail half way, as long as the date is not
\* saved while one runs (cutover.scan, _write_state)
THEOREM LateInputAlwaysListed == CutoverSpec /\ Patient => []LateInputIsListed
<1> SUFFICES ASSUME Patient PROVE CutoverSpec => []LateInputIsListed
  OBVIOUS
<1>1. CutoverInv => LateInputIsListed
  BY DEF CutoverInv, Passed, Late, LateInputIsListed
<1>2. CutoverInv /\ [CutoverNext]_cutoverVars => CutoverInv'
  BY CutoverStepKeeps
<1> QED BY <1>1, <1>2, CutoverInitKeeps, PTL DEF CutoverSpec

-----------------------------------------------------------------------------
(***************************************************************************)
(* The QC program: following the same file again changes nothing, and      *)
(* merges lose nothing                                                     *)
(***************************************************************************)
QcRowSet == [in : BOOLEAN, shipped : BOOLEAN, archived : BOOLEAN, cancelled : BOOLEAN,
             dup : QcRows \cup {NoRow}]
QcTyped(rs) == rs \in [QcRows -> QcRowSet]

\* what every step keeps
QcInv == QcTyped(rowOf) /\ backed \subseteq Qcs

\* The QC order a row resembles most is one of QC's
LEMMA FitIsOne ==
  ASSUME backed \subseteq Qcs, NEW r \in QcRows
  PROVE  FitOf(r) \in Qcs \cup {NoRow}
<1>1. BestOf(r) \subseteq Qcs
  BY DEF BestOf, Likely, SoldInQc
<1> QED BY <1>1 DEF FitOf

\* Stages go forward, but not of what was taken off
LEMMA AdvancedRows ==
  ASSUME NEW rs, QcTyped(rs), NEW f
  PROVE  /\ QcTyped(Advanced(rs, f))
         /\ \A r \in QcRows :
              LET new == Advanced(rs, f)[r]
              IN /\ new.in = rs[r].in /\ new.cancelled = rs[r].cancelled /\ new.dup = rs[r].dup
                 /\ rs[r].shipped => new.shipped
                 /\ IF r \notin Qcs \/ ~rs[r].in \/ rs[r].dup # NoRow THEN new = rs[r]
                    ELSE (f[r] \in SentInQc => new.shipped) /\ (f[r] = "closed" => new.archived)
<1> DEFINE x(r) == rs[r].shipped \/ f[r] \in SentInQc
           y(r) == rs[r].archived \/ f[r] = "closed"
           new(r) == [rs[r] EXCEPT !.shipped = x(r), !.archived = y(r)]
           old(r) == r \notin Qcs \/ ~rs[r].in \/ rs[r].dup # NoRow
<1>1. Advanced(rs, f) = [r \in QcRows |-> IF old(r) THEN rs[r] ELSE new(r)]
  <2>1. \A r \in QcRows : new(r) = [rs[r] EXCEPT !.shipped = @ \/ f[r] \in SentInQc,
                                                 !.archived = @ \/ f[r] = "closed"]
    BY DEF QcTyped, QcRowSet
  <2> HIDE DEF new
  <2> QED BY <2>1 DEF Advanced
<1>2. ASSUME NEW r \in QcRows
      PROVE  /\ new(r) \in QcRowSet /\ new(r).shipped = x(r) /\ new(r).archived = y(r)
             /\ new(r).dup = rs[r].dup /\ new(r).in = rs[r].in
             /\ new(r).cancelled = rs[r].cancelled
  <2>1. rs[r] \in QcRowSet /\ rs[r].dup \in QcRows \cup {NoRow}
    BY DEF QcTyped, QcRowSet
  <2>2. x(r) \in BOOLEAN /\ y(r) \in BOOLEAN
    BY Zenon
  <2> HIDE DEF x, y
  <2> QED BY <2>1, <2>2, Zenon DEF QcRowSet
<1> HIDE DEF new
<1>3. \A r \in QcRows : Advanced(rs, f)[r] = IF old(r) THEN rs[r] ELSE new(r)
  BY <1>1
<1>4. QcTyped(Advanced(rs, f))
  BY <1>1, <1>2 DEF QcTyped
<1> QED BY <1>2, <1>3, <1>4

\* Rows of the board are taken off as the second of a sale
LEMMA ArchivedRows ==
  ASSUME backed \subseteq Qcs, NEW rs, QcTyped(rs), NEW S \in SUBSET QcRows
  PROVE  /\ QcTyped(Archived(rs, S))
         /\ \A r \in QcRows :
              LET new == Archived(rs, S)[r]
              IN /\ new.in = rs[r].in /\ new.cancelled = rs[r].cancelled
                 /\ new.shipped = rs[r].shipped
                 /\ IF r \in S THEN new.archived /\ new.dup = FitOf(r) ELSE new = rs[r]
<1> DEFINE new(r) == [rs[r] EXCEPT !.archived = TRUE, !.dup = FitOf(r)]
<1>1. ASSUME NEW r \in QcRows
      PROVE  /\ new(r) \in QcRowSet /\ new(r).archived = TRUE /\ new(r).shipped = rs[r].shipped
             /\ new(r).in = rs[r].in /\ new(r).cancelled = rs[r].cancelled
             /\ new(r).dup = FitOf(r)
  <2>1. rs[r] \in QcRowSet /\ TRUE \in BOOLEAN /\ FitOf(r) \in QcRows \cup {NoRow}
    BY FitIsOne DEF QcTyped, QcRows
  <2> QED BY <2>1, Zenon DEF QcRowSet
<1>2. Archived(rs, S) = [r \in QcRows |-> IF r \in S THEN new(r) ELSE rs[r]]
  BY DEF Archived
<1> HIDE DEF new
<1>3. \A r \in QcRows : Archived(rs, S)[r] = IF r \in S THEN new(r) ELSE rs[r]
  BY <1>2
<1>4. QcTyped(Archived(rs, S))
  BY <1>1, <1>2 DEF QcTyped
<1> QED BY <1>1, <1>3, <1>4

\* What a plan is worked off in: a sequence of its pairs
LEMMA OrdersArePairs ==
  ASSUME NEW rs, NEW js, NEW P \in SUBSET MergePlan(rs, js), NEW s \in Orders(P)
  PROVE  \E n \in Nat : /\ s \in [1..n -> P]
                        /\ \A i \in 1..n : /\ s[i] \in QcPairs(rs, js)
                                           /\ s[i][1] \in QcRows /\ s[i][2] \in QcRows
                                           /\ Keep(s[i]) \in QcRows /\ Drop(s[i]) \in QcRows
                                           /\ {Keep(s[i]), Drop(s[i])} = RowsIn(s[i])
                                           /\ Keep(s[i]) # Drop(s[i])
                                           /\ rs[Keep(s[i])].shipped
<1>1. PICK n \in 0..Cardinality(P) : s \in [1..n -> P]
  BY DEF Orders
<1>2. n \in Nat
  OBVIOUS
<1>3. ASSUME NEW p \in P
      PROVE  /\ p \in QcPairs(rs, js) /\ p[1] \in QcRows /\ p[2] \in QcRows
             /\ Keep(p) \in QcRows /\ Drop(p) \in QcRows
             /\ {Keep(p), Drop(p)} = RowsIn(p) /\ Keep(p) # Drop(p) /\ rs[Keep(p)].shipped
  <2>1. p \in QcPairs(rs, js) /\ rs[p[1]].shipped /\ rs[p[2]].shipped
    BY DEF MergePlan
  <2>2. p[1] \in QcRows /\ p[2] \in QcRows /\ p[1] # p[2]
    BY <2>1 DEF QcPairs, QcRows
  <2> QED BY <2>1, <2>2 DEF Keep, Drop, RowsIn
<1> QED BY <1>1, <1>2, <1>3

\* The last pair that drops a row says for which
LEMMA LastDropSays ==
  ASSUME NEW n \in Nat, NEW P, NEW s \in [1..n -> P], NEW r, Drops(s, r) # {}
  PROVE  \E i \in 1..n : Drop(s[i]) = r /\ KeptFor(s, r) = Keep(s[i])
<1>1. Drops(s, r) \subseteq 1..n /\ Drops(s, r) \subseteq 0..n
  BY DEF Drops
<1>2. \E i \in Drops(s, r) : \A j \in Drops(s, r) : j <= i
  BY <1>1, LargestOfSome
<1> DEFINE l == CHOOSE i \in Drops(s, r) : \A j \in Drops(s, r) : j <= i
<1>3. l \in Drops(s, r) /\ KeptFor(s, r) = Keep(s[l])
  BY <1>2 DEF KeptFor
<1> HIDE DEF l
<1> QED BY <1>1, <1>3 DEF Drops

\* Merged rows: what is dropped does not count any more, and says for which
LEMMA MergedAre ==
  ASSUME NEW rs, QcTyped(rs), NEW js, NEW P \in SUBSET MergePlan(rs, js), NEW s \in Orders(P)
  PROVE  /\ QcTyped(MergedRows(rs, s))
         /\ \A r \in QcRows :
              LET new == MergedRows(rs, s)[r]
              IN /\ new.in = rs[r].in /\ new.cancelled = rs[r].cancelled
                 /\ IF Drops(s, r) # {} THEN ~new.shipped /\ new.archived /\ new.dup = KeptFor(s, r)
                                             /\ new.dup \in QcRows
                    ELSE new = rs[r]
<1> DEFINE new(r) == [rs[r] EXCEPT !.shipped = FALSE, !.archived = TRUE, !.dup = KeptFor(s, r)]
<1>1. ASSUME NEW r \in QcRows, Drops(s, r) # {}
      PROVE  /\ new(r) \in QcRowSet /\ new(r).archived = TRUE /\ new(r).shipped = FALSE
             /\ new(r).in = rs[r].in /\ new(r).cancelled = rs[r].cancelled
             /\ new(r).dup = KeptFor(s, r) /\ KeptFor(s, r) \in QcRows
  <2>1. PICK n \in Nat : s \in [1..n -> P] /\ \A i \in 1..n : Keep(s[i]) \in QcRows
    BY OrdersArePairs
  <2>2. KeptFor(s, r) \in QcRows
    BY <1>1, <2>1, LastDropSays
  <2>3. rs[r] \in QcRowSet /\ TRUE \in BOOLEAN /\ FALSE \in BOOLEAN
    BY DEF QcTyped
  <2> QED BY <2>2, <2>3, Zenon DEF QcRowSet
<1>2. MergedRows(rs, s) = [r \in QcRows |-> IF Drops(s, r) # {} THEN new(r) ELSE rs[r]]
  BY DEF MergedRows
<1> HIDE DEF new
<1>3. \A r \in QcRows : MergedRows(rs, s)[r] = IF Drops(s, r) # {} THEN new(r) ELSE rs[r]
  BY <1>2
<1>4. QcTyped(MergedRows(rs, s))
  BY <1>1, <1>2 DEF QcTyped
<1> QED BY <1>1, <1>3, <1>4

\* The watcher's transaction: stages, rows that are there twice, rows sold twice
LEMMA SyncOnceDoes ==
  ASSUME QcInv, NEW w \in QcRuns, SyncOnce(w)
  PROVE  \E as, S, s : 
           LET rs == Advanced(rowOf, qcRead[w].file)
           IN /\ S = TakenDown(rs) /\ as = Archived(rs, S) /\ QcTyped(rs) /\ QcTyped(as)
              /\ S \in SUBSET QcRows /\ s \in Orders(MergePlan(as, Judged(S)))
              /\ rowOf' = MergedRows(as, s) /\ judged' = Judged(S) /\ gearOn' = MergedGear(s)
              /\ UNCHANGED <<qcFile, backed>>
<1> DEFINE rs == Advanced(rowOf, qcRead[w].file)
           S  == TakenDown(rs)
           as == Archived(rs, S)
<1>1. PICK s \in Orders(MergePlan(as, Judged(S))) :
        rowOf' = MergedRows(as, s) /\ judged' = Judged(S) /\ gearOn' = MergedGear(s)
  BY DEF SyncOnce
<1>2. UNCHANGED <<qcFile, backed>>
  BY DEF SyncOnce, EndQc
<1>3. QcTyped(rs) /\ backed \subseteq Qcs
  BY AdvancedRows DEF QcInv
<1>4. S \in SUBSET QcRows
  BY DEF TakenDown, Doubled, Board
<1> HIDE DEF rs, S
<1>5. QcTyped(as)
  BY <1>3, <1>4, ArchivedRows
<1> HIDE DEF as
<1> QED BY <1>1, <1>2, <1>3, <1>4, <1>5 DEF rs, S, as

\* Rows that are as far as QC's file has them stay as they are
LEMMA AdvancedSame ==
  ASSUME NEW rs, QcTyped(rs), NEW f,
         \A q \in Qcs : rs[q].in /\ rs[q].dup = NoRow =>
           /\ f[q] \in SentInQc => rs[q].shipped
           /\ f[q] = "closed" => rs[q].archived
  PROVE  Advanced(rs, f) = rs
<1> DEFINE old(r) == r \notin Qcs \/ ~rs[r].in \/ rs[r].dup # NoRow
           new(r) == [rs[r] EXCEPT !.shipped = rs[r].shipped \/ f[r] \in SentInQc,
                                   !.archived = rs[r].archived \/ f[r] = "closed"]
<1>1. Advanced(rs, f) = [r \in QcRows |-> IF old(r) THEN rs[r] ELSE new(r)]
  BY Zenon DEF Advanced
<1>2. ASSUME NEW r \in QcRows, ~old(r)
      PROVE  new(r) = rs[r]
  <2>1. /\ (rs[r].shipped \/ f[r] \in SentInQc) = rs[r].shipped
        /\ (rs[r].archived \/ f[r] = "closed") = rs[r].archived
    <3>1. rs[r].shipped \in BOOLEAN /\ rs[r].archived \in BOOLEAN
      BY DEF QcTyped, QcRowSet
    <3> QED BY <1>2, <3>1
  <2>2. rs[r] \in QcRowSet
    BY DEF QcTyped
  <2>3. rs[r] = [rs[r] EXCEPT !.shipped = rs[r].shipped, !.archived = rs[r].archived]
    BY <2>2 DEF QcRowSet
  <2> QED BY <2>1, <2>3
<1> HIDE DEF new, old
<1> QED BY <1>1, <1>2 DEF QcTyped

\* Following a file settles it: what is judged and which QC order a row resembles do not change
\* while the transaction runs
LEMMA SyncOnceSettles ==
  ASSUME QcInv, NEW w \in QcRuns, SyncOnce(w), NEW f, f = qcRead[w].file
  PROVE  SettledBy(f)'
<1> DEFINE rs == Advanced(rowOf, f)
<1>1. PICK as, S, s :
        /\ S = TakenDown(rs) /\ as = Archived(rs, S) /\ QcTyped(rs) /\ QcTyped(as)
        /\ S \in SUBSET QcRows /\ s \in Orders(MergePlan(as, Judged(S)))
        /\ rowOf' = MergedRows(as, s) /\ judged' = Judged(S) /\ gearOn' = MergedGear(s)
        /\ UNCHANGED <<qcFile, backed>>
  BY SyncOnceDoes
<1>2. \A r \in QcRows : FitOf(r)' = FitOf(r)
  <2>1. SoldInQc' = SoldInQc
    BY <1>1 DEF SoldInQc
  <2> QED BY <2>1 DEF FitOf, BestOf, Likely
<1>3. /\ QcTyped(rowOf')
      /\ \A r \in QcRows :
           /\ rowOf'[r].in = as[r].in /\ rowOf'[r].cancelled = as[r].cancelled
           /\ Drops(s, r) # {} => /\ ~rowOf'[r].shipped /\ rowOf'[r].archived
                                  /\ rowOf'[r].dup \in QcRows
           /\ Drops(s, r) = {} => rowOf'[r] = as[r]
  <2>1. MergePlan(as, Judged(S)) \in SUBSET MergePlan(as, Judged(S))
    OBVIOUS
  <2> HIDE DEF rs
  <2> QED BY <1>1, <2>1, MergedAre
<1>4. \A r \in QcRows :
        /\ as[r].in = rs[r].in /\ as[r].cancelled = rs[r].cancelled
        /\ as[r].shipped = rs[r].shipped
        /\ r \in S => as[r].archived /\ as[r].dup = FitOf(r) /\ FitOf(r) \notin {NoRow, r}
        /\ r \notin S => as[r] = rs[r]
  <2>1. \A r \in S : FitOf(r) \notin {NoRow, r}
    BY <1>1 DEF TakenDown, Doubled
  <2> HIDE DEF rs
  <2>2. backed \subseteq Qcs
    BY DEF QcInv
  <2> QED BY <1>1, <2>1, <2>2, ArchivedRows
<1>5. \A r \in QcRows :
        /\ rs[r].in = rowOf[r].in /\ rs[r].dup = rowOf[r].dup
        /\ r \in Qcs /\ rs[r].in /\ rs[r].dup = NoRow =>
             (f[r] \in SentInQc => rs[r].shipped) /\ (f[r] = "closed" => rs[r].archived)
  BY AdvancedRows DEF QcInv
<1> HIDE DEF rs
<1>6. Advanced(rowOf', f) = rowOf'
  <2>1. ASSUME NEW q \in Qcs, rowOf'[q].in, rowOf'[q].dup = NoRow
        PROVE  /\ f[q] \in SentInQc => rowOf'[q].shipped
               /\ f[q] = "closed" => rowOf'[q].archived
    <3>1. q \in QcRows /\ NoRow \notin QcRows
      BY QcFollowIsSane DEF QcRows
    <3>2. rowOf'[q] = as[q]
      BY <1>3, <2>1, <3>1
    <3>3. as[q] = rs[q]
      BY <1>4, <2>1, <3>1, <3>2
    <3> QED BY <1>5, <2>1, <3>1, <3>2, <3>3
  <2> QED BY <1>3, <2>1, AdvancedSame
<1>7. TakenDown(rowOf)' = {}
  <2> SUFFICES ASSUME NEW r \in TakenDown(rowOf)' PROVE FALSE
    OBVIOUS
  <2>1. /\ r \in QcRows /\ rowOf'[r].in /\ ~rowOf'[r].cancelled /\ ~rowOf'[r].shipped
        /\ ~rowOf'[r].archived
    BY DEF TakenDown, Doubled, Board
  <2>2. /\ FitOf(r) \notin {NoRow, r} /\ rowOf'[FitOf(r)].in /\ rowOf'[FitOf(r)].shipped
    <3>1. FitOf(r)' \notin {NoRow, r} /\ rowOf'[FitOf(r)'].in /\ rowOf'[FitOf(r)'].shipped
      BY DEF TakenDown, Doubled
    <3> QED BY <1>2, <2>1, <3>1
  <2>3. FitOf(r) \in QcRows
    <3>1. backed \subseteq Qcs
      BY DEF QcInv
    <3> QED BY <2>1, <2>2, <3>1, FitIsOne DEF QcRows
  <2>4. rowOf'[r] = as[r] /\ as[r] = rs[r]
    BY <1>3, <1>4, <2>1
  <2>5. rs[FitOf(r)].in /\ rs[FitOf(r)].shipped
    BY <1>3, <1>4, <2>2, <2>3
  <2>6. r \in TakenDown(rs)
    BY <2>1, <2>2, <2>4, <2>5 DEF TakenDown, Doubled, Board
  <2> QED BY <1>1, <1>4, <2>1, <2>4, <2>6
<1>8. MergePlan(rowOf', judged') = {}
  <2> SUFFICES ASSUME NEW p \in MergePlan(rowOf', judged') PROVE FALSE
    OBVIOUS
  <2>1. QcPairs(rowOf', judged') = QcPairs(as, Judged(S))
    <3>1. \A q \in QcRows \X Qcs : q[1] \in QcRows /\ q[2] \in QcRows
      BY DEF QcRows
    <3> QED BY <1>1, <1>3, <3>1 DEF QcPairs
  <2>2. /\ p \in QcPairs(as, Judged(S)) /\ rowOf'[p[1]].shipped /\ rowOf'[p[2]].shipped
        /\ \A o \in QcPairs(as, Judged(S)) : o[2] = p[2] => o = p
    BY <2>1 DEF MergePlan
  <2>3. p[1] \in QcRows /\ p[2] \in QcRows
    BY <2>2 DEF QcPairs, QcRows
  <2>4. p \in MergePlan(as, Judged(S))
    <3>1. as[p[1]].shipped /\ as[p[2]].shipped
      BY <1>3, <2>2, <2>3
    <3> QED BY <2>2, <3>1 DEF MergePlan
  <2>5. PICK i \in DOMAIN s : RowsIn(s[i]) = RowsIn(p)
    BY <1>1, <2>4 DEF Orders
  <2>6. Drop(s[i]) \in RowsIn(p)
    <3>1. Drop(s[i]) \in RowsIn(s[i])
      BY DEF Drop, RowsIn
    <3> QED BY <2>5, <3>1
  <2>7. Drop(s[i]) \in QcRows /\ rowOf'[Drop(s[i])].shipped
    BY <2>2, <2>3, <2>6 DEF RowsIn
  <2>8. Drops(s, Drop(s[i])) # {}
    BY DEF Drops
  <2> QED BY <1>3, <2>7, <2>8
<1> QED BY <1>6, <1>7, <1>8 DEF SettledBy

\* Unless a row is the second of a second one, two pairs of a plan have no row in common
LEMMA PairsApart ==
  ASSUME NEW rs, NEW js, ~Chained(js), NEW p \in MergePlan(rs, js), NEW o \in MergePlan(rs, js),
         RowsIn(p) # RowsIn(o)
  PROVE  RowsIn(p) \cap RowsIn(o) = {}
<1>1. /\ p[1] \in QcRows /\ p[2] \in Qcs /\ js[p[1]] = p[2] /\ p[1] # p[2]
      /\ o[1] \in QcRows /\ o[2] \in Qcs /\ js[o[1]] = o[2] /\ o[1] # o[2]
      /\ p[2] \in QcRows /\ o[2] \in QcRows
  BY DEF MergePlan, QcPairs, QcRows
<1>2. p[2] # o[2]
  BY DEF MergePlan
<1>3. \A q \in Qcs, r \in QcRows : js[q] \in QcRows /\ js[q] # q /\ r # q => js[r] # q
  BY QcFollowIsSane DEF Chained
<1>4. p[1] # o[2] /\ o[1] # p[2]
  BY <1>1, <1>3
<1> QED BY <1>1, <1>2, <1>4 DEF RowsIn

\* So a merge loses nothing then: the row that stays is dropped for no other
LEMMA MergeLosesNothing ==
  ASSUME NEW rs, QcTyped(rs), NEW js, ~Chained(js), NEW P \in SUBSET MergePlan(rs, js),
         NEW s \in Orders(P), NEW r \in QcRows
  PROVE  LET ms == MergedRows(rs, s)
         IN /\ rs[r].shipped /\ ~ms[r].shipped => ms[r].dup # NoRow /\ ms[ms[r].dup].shipped
            /\ \A a \in Gear : <<r, a>> \in gearOn =>
                 <<r, a>> \in MergedGear(s) \/ <<ms[r].dup, a>> \in MergedGear(s)
<1> DEFINE ms == MergedRows(rs, s)
<1>1. PICK n \in Nat : /\ s \in [1..n -> P]
                       /\ \A i \in 1..n : /\ Keep(s[i]) \in QcRows /\ Drop(s[i]) \in QcRows
                                          /\ {Keep(s[i]), Drop(s[i])} = RowsIn(s[i])
                                          /\ Keep(s[i]) # Drop(s[i])
                                          /\ rs[Keep(s[i])].shipped
  BY OrdersArePairs
<1>2. DOMAIN s = 1..n
  BY <1>1
<1>3. \A x \in QcRows : IF Drops(s, x) # {} THEN ms[x].dup = KeptFor(s, x) ELSE ms[x] = rs[x]
  BY MergedAre
<1>4. CASE Drops(s, r) = {}
  <2>1. \A a : <<r, a>> \in gearOn => <<r, a>> \in MergedGear(s)
    BY <1>4 DEF MergedGear
  <2>2. ms[r] = rs[r]
    BY <1>3, <1>4
  <2> HIDE DEF ms
  <2>3. ~(rs[r].shipped /\ ~ms[r].shipped)
    BY <2>2
  <2> QED BY <2>1, <2>3 DEF ms
<1>5. CASE Drops(s, r) # {}
  <2>1. PICK i \in 1..n : Drop(s[i]) = r /\ KeptFor(s, r) = Keep(s[i])
    <3>1. n \in Nat /\ s \in [1..n -> P] /\ Drops(s, r) # {}
      BY <1>1, <1>5
    <3> QED BY <3>1, LastDropSays
  <2>2. \A j \in 1..n : j # i => Drop(s[j]) \notin RowsIn(s[i])
    <3> SUFFICES ASSUME NEW j \in 1..n, j # i PROVE Drop(s[j]) \notin RowsIn(s[i])
      OBVIOUS
    <3>1. RowsIn(s[j]) # RowsIn(s[i])
      BY <1>2 DEF Orders
    <3>2. s[j] \in MergePlan(rs, js) /\ s[i] \in MergePlan(rs, js)
      BY <1>1
    <3>3. RowsIn(s[j]) \cap RowsIn(s[i]) = {}
      BY <3>1, <3>2, PairsApart
    <3> QED BY <1>1, <3>3
  <2>3. /\ \A j \in 1..n : Drop(s[j]) # Keep(s[i])
        /\ \A j \in 1..n : j # i => Drop(s[j]) # Drop(s[i])
    BY <1>1, <2>2
  <2>4. Drops(s, Keep(s[i])) = {}
    BY <1>2, <2>3 DEF Drops
  <2>5. ms[r].dup = Keep(s[i]) /\ ms[Keep(s[i])] = rs[Keep(s[i])]
    BY <1>1, <1>3, <1>5, <2>1, <2>4
  <2>6. StaysMoved(s, i)
    BY <1>2, <2>3 DEF StaysMoved
  <2>7. ASSUME NEW a \in Gear, <<r, a>> \in gearOn
        PROVE  <<Keep(s[i]), a>> \in MergedGear(s)
    <3>1. CASE <<Keep(s[i]), a>> \in gearOn
      BY <2>4, <3>1 DEF MergedGear
    <3>2. CASE <<Keep(s[i]), a>> \notin gearOn
      <4>1. a \in Moves(s[i])
        BY <2>1, <2>7, <3>2 DEF Moves
      <4> QED BY <1>2, <2>6, <4>1 DEF MergedGear
    <3> QED BY <3>1, <3>2
  <2>8. NoRow \notin QcRows
    BY QcFollowIsSane
  <2> HIDE DEF ms
  <2>9. ms[r].dup # NoRow /\ ms[ms[r].dup].shipped
    BY <1>1, <2>1, <2>5, <2>8
  <2>10. \A a \in Gear : <<r, a>> \in gearOn => <<ms[r].dup, a>> \in MergedGear(s)
    BY <2>5, <2>7
  <2> QED BY <2>9, <2>10 DEF ms
<1> QED BY <1>4, <1>5

\* The rows of another part of a step stay rows
LEMMA OneRowKeeps ==
  ASSUME QcInv, NEW r, NEW b \in BOOLEAN
  PROVE  /\ QcTyped([rowOf EXCEPT ![r] = [rowOf[r] EXCEPT !.in = b]])
         /\ QcTyped([rowOf EXCEPT ![r] = [rowOf[r] EXCEPT !.shipped = b]])
         /\ QcTyped([rowOf EXCEPT ![r] = [rowOf[r] EXCEPT !.archived = b]])
         /\ QcTyped([rowOf EXCEPT ![r] = [rowOf[r] EXCEPT !.cancelled = b]])
<1>1. QcTyped(rowOf) /\ (r \in QcRows => rowOf[r] \in QcRowSet)
  BY DEF QcInv, QcTyped
<1>2. ASSUME r \in QcRows
      PROVE  /\ [rowOf[r] EXCEPT !.in = b] \in QcRowSet
             /\ [rowOf[r] EXCEPT !.shipped = b] \in QcRowSet
             /\ [rowOf[r] EXCEPT !.archived = b] \in QcRowSet
             /\ [rowOf[r] EXCEPT !.cancelled = b] \in QcRowSet
  BY <1>1, <1>2 DEF QcRowSet
<1> QED BY <1>1, <1>2 DEF QcTyped

\* What the board does with rows
LEMMA BoardKeeps ==
  ASSUME QcInv,
         \/ \E S \in SUBSET Hits(rowOf) : QcShippedApply(S)
         \/ \E S \in SUBSET TakenDown(rowOf) : QcDismiss(S)
         \/ \E P \in SUBSET MergePlan(rowOf, judged) : QcMerge(P)
         \/ \E m \in Malls : CollectRow(m)
         \/ \E r \in QcRows : \/ QcRestore(r) \/ CancelRow(r) \/ UncancelRow(r) \/ ArchiveRow(r)
                              \/ UnarchiveRow(r) \/ AutoShipRow(r)
                              \/ \E done \in BOOLEAN : ShipRow(r, done)
                              \/ \E A \in SUBSET Gear : MatchRow(r, A)
  PROVE  QcInv'
<1>1. QcTyped(rowOf) /\ backed \subseteq Qcs
  BY DEF QcInv
<1>2. UNCHANGED backed
  BY Zenon DEF QcShippedApply, QcDismiss, QcMerge, CollectRow, QcRestore, CancelRow, UncancelRow,
       ArchiveRow, UnarchiveRow, AutoShipRow, ShipRow, MatchRow, OnRow, OnRows
<1>3. ASSUME NEW S \in SUBSET Hits(rowOf), QcShippedApply(S)
      PROVE  QcTyped(rowOf')
  <2> DEFINE new(r) == [rowOf[r] EXCEPT !.shipped = TRUE, !.archived = TRUE]
  <2>1. rowOf' = [r \in QcRows |-> IF r \in S THEN new(r) ELSE rowOf[r]]
    BY <1>3 DEF QcShippedApply, OnRows
  <2>2. \A r \in QcRows : new(r) \in QcRowSet
    <3> SUFFICES ASSUME NEW r \in QcRows PROVE new(r) \in QcRowSet
      OBVIOUS
    <3>1. rowOf[r] \in QcRowSet /\ TRUE \in BOOLEAN
      BY <1>1 DEF QcTyped
    <3> QED BY <3>1, Zenon DEF QcRowSet
  <2> HIDE DEF new
  <2> QED BY <1>1, <2>1, <2>2 DEF QcTyped
<1>4. ASSUME NEW S \in SUBSET TakenDown(rowOf), QcDismiss(S)
      PROVE  QcTyped(rowOf')
  <2>1. S \in SUBSET QcRows
    BY DEF TakenDown, Doubled, Board
  <2>2. rowOf' = Archived(rowOf, S)
    BY <1>4 DEF QcDismiss, OnRows
  <2> QED BY <1>1, <2>1, <2>2, ArchivedRows
<1>5. ASSUME NEW P \in SUBSET MergePlan(rowOf, judged), QcMerge(P)
      PROVE  QcTyped(rowOf')
  <2>1. PICK s \in Orders(P) : rowOf' = MergedRows(rowOf, s)
    BY <1>5 DEF QcMerge, OnRows
  <2> QED BY <1>1, <2>1, MergedAre
<1>6. ASSUME NEW m \in Malls, CollectRow(m)
      PROVE  QcTyped(rowOf')
  BY <1>1, <1>6, OneRowKeeps DEF CollectRow, OnRows, QcTyped, QcRows, QcRowSet
<1>7. ASSUME NEW r \in QcRows, QcRestore(r)
      PROVE  QcTyped(rowOf')
  BY <1>1, <1>7 DEF QcRestore, OnRows, QcTyped, QcRowSet
<1>8. ASSUME NEW r \in QcRows,
             \/ CancelRow(r) \/ UncancelRow(r) \/ ArchiveRow(r) \/ UnarchiveRow(r) \/ AutoShipRow(r)
             \/ \E done \in BOOLEAN : ShipRow(r, done)
      PROVE  QcTyped(rowOf')
  <2>1. \E b \in BOOLEAN :
          \/ rowOf' = [rowOf EXCEPT ![r] = [rowOf[r] EXCEPT !.shipped = b]]
          \/ rowOf' = [rowOf EXCEPT ![r] = [rowOf[r] EXCEPT !.archived = b]]
          \/ rowOf' = [rowOf EXCEPT ![r] = [rowOf[r] EXCEPT !.cancelled = b]]
    BY <1>8, Zenon
    DEF CancelRow, UncancelRow, ArchiveRow, UnarchiveRow, AutoShipRow, ShipRow, OnRow, OnRows
  <2> QED BY <2>1, OneRowKeeps
<1>9. ASSUME NEW r \in QcRows, NEW A \in SUBSET Gear, MatchRow(r, A)
      PROVE  QcTyped(rowOf')
  BY <1>1, <1>9 DEF MatchRow, OnRows
<1>10. QcTyped(rowOf')
  BY <1>3, <1>4, <1>5, <1>6, <1>7, <1>8, <1>9
<1> QED BY <1>1, <1>2, <1>10 DEF QcInv, QcTyped

\* Every step keeps what rows are
LEMMA QcStepKeeps == QcInv /\ [QcNext]_qcVars => QcInv'
<1> SUFFICES ASSUME QcInv, [QcNext]_qcVars PROVE QcInv'
  OBVIOUS
<1>1. QcTyped(rowOf) /\ backed \subseteq Qcs
  BY DEF QcInv
<1>2. ASSUME NEW q \in Qcs, NEW to \in QcStates, QcWrites(q, to)
      PROVE  QcInv'
  <2>1. rowOf' = rowOf /\ backed' \subseteq Qcs
    BY <1>1, <1>2 DEF QcWrites, SoldInQc
  <2> QED BY <1>1, <2>1 DEF QcInv, QcTyped
<1>3. ASSUME NEW w \in QcRuns, SyncOnce(w)
      PROVE  QcInv'
  <2>1. PICK as, S, s : /\ QcTyped(as) /\ s \in Orders(MergePlan(as, Judged(S)))
                        /\ rowOf' = MergedRows(as, s) /\ backed' = backed
    BY <1>3, SyncOnceDoes
  <2>2. QcTyped(MergedRows(as, s))
    <3>1. MergePlan(as, Judged(S)) \in SUBSET MergePlan(as, Judged(S))
      OBVIOUS
    <3> QED BY <2>1, <3>1, MergedAre
  <2> QED BY <1>1, <2>1, <2>2 DEF QcInv, QcTyped
<1>4. ASSUME NEW w \in QcRuns, QcRun(w)
      PROVE  QcInv'
  <2> DEFINE f == qcRead[w].file
             new(r) == [NoQcRow EXCEPT !.in = TRUE, !.shipped = f[r] \in SentInQc,
                                       !.archived = f[r] = "closed"]
  <2>1. /\ rowOf' = [r \in QcRows |-> IF r \in Missing(f) THEN new(r) ELSE Advanced(rowOf, f)[r]]
        /\ backed' = backed
    BY <1>4 DEF QcRun, EndQc
  <2>2. \A r : new(r) \in QcRowSet
    <3> SUFFICES ASSUME NEW r PROVE new(r) \in QcRowSet
      OBVIOUS
    <3>1. TRUE \in BOOLEAN /\ FALSE \in BOOLEAN /\ NoRow \in QcRows \cup {NoRow}
      OBVIOUS
    <3>2. (f[r] \in SentInQc) \in BOOLEAN /\ (f[r] = "closed") \in BOOLEAN
      OBVIOUS
    <3>3. NoQcRow \in QcRowSet
      BY <3>1, Zenon DEF NoQcRow, QcRowSet
    <3> QED BY <3>1, <3>2, <3>3, Zenon DEF QcRowSet
  <2>3. QcTyped(Advanced(rowOf, f))
    BY <1>1, AdvancedRows
  <2> HIDE DEF new, f
  <2> QED BY <1>1, <2>1, <2>2, <2>3 DEF QcInv, QcTyped
<1>5. ASSUME \/ \E w \in QcRuns : FailQc(w) \/ \E force \in BOOLEAN : ReadQc(w, force)
             \/ UNCHANGED qcVars
      PROVE  QcInv'
  <2>1. rowOf' = rowOf /\ backed' = backed
    BY <1>5 DEF FailQc, ReadQc, EndQc, qcVars
  <2> QED BY <1>1, <2>1 DEF QcInv, QcTyped
<1> QED BY <1>2, <1>3, <1>4, <1>5, BoardKeeps DEF QcNext

\* Nothing is there before the first step
LEMMA QcInitKeeps == QcInit => QcInv
BY DEF QcInit, QcInv, QcTyped, QcRowSet, NoQcRow

\* Following the same file again changes nothing, whatever people and other runs did before
\* (sync_once, _advance_fields)
THEOREM FollowingAgainIsIdle == QcSpec => FollowUpSettles
<1>1. QcInv => [\A w \in QcRuns : SyncOnce(w) =>
                  \A f \in {qcRead[w].file} : SettledBy(f)']_qcVars
  BY SyncOnceSettles
<1>2. QcInv /\ [QcNext]_qcVars => QcInv'
  BY QcStepKeeps
<1> QED BY <1>1, <1>2, QcInitKeeps, PTL DEF QcSpec, FollowUpSettles

\* Merging rows stops no sale but in favour of one that counts, and keeps what machine went to
\* whom, unless a row is taken for the second of a second one (merge_duplicates)
THEOREM UnchainedMergesLoseNothing == QcSpec => MergesLoseNothing
<1> DEFINE Kept(r) ==
             /\ rowOf[r].shipped /\ ~rowOf'[r].shipped =>
                  rowOf'[r].dup # NoRow /\ rowOf'[rowOf'[r].dup].shipped
             /\ \A a \in Gear : <<r, a>> \in gearOn =>
                  <<r, a>> \in gearOn' \/ <<rowOf'[r].dup, a>> \in gearOn'
<1>1. ASSUME QcInv, NEW w \in QcRuns, SyncOnce(w), ~Chained(judged'), NEW r \in QcRows
      PROVE  Kept(r)
  <2> DEFINE rs == Advanced(rowOf, qcRead[w].file)
  <2>1. PICK as, S, s :
          /\ S = TakenDown(rs) /\ as = Archived(rs, S) /\ QcTyped(rs) /\ QcTyped(as)
          /\ S \in SUBSET QcRows /\ s \in Orders(MergePlan(as, Judged(S)))
          /\ rowOf' = MergedRows(as, s) /\ judged' = Judged(S) /\ gearOn' = MergedGear(s)
    BY <1>1, SyncOnceDoes
  <2>2. rowOf[r].shipped => rs[r].shipped
    BY <1>1, AdvancedRows DEF QcInv
  <2> HIDE DEF rs
  <2>3. rowOf[r].shipped => as[r].shipped
    BY <1>1, <2>1, <2>2, ArchivedRows DEF QcInv
  <2>4. MergePlan(as, Judged(S)) \in SUBSET MergePlan(as, Judged(S)) /\ ~Chained(Judged(S))
    BY <1>1, <2>1
  <2>5. /\ as[r].shipped /\ ~rowOf'[r].shipped =>
             rowOf'[r].dup # NoRow /\ rowOf'[rowOf'[r].dup].shipped
        /\ \A a \in Gear : <<r, a>> \in gearOn =>
             <<r, a>> \in gearOn' \/ <<rowOf'[r].dup, a>> \in gearOn'
    BY <2>1, <2>4, MergeLosesNothing
  <2> QED BY <2>3, <2>5
<1>2. ASSUME QcInv, NEW P \in SUBSET MergePlan(rowOf, judged), QcMerge(P), ~Chained(judged'),
             NEW r \in QcRows
      PROVE  Kept(r)
  <2>1. PICK s \in Orders(P) : /\ rowOf' = MergedRows(rowOf, s) /\ gearOn' = MergedGear(s)
                               /\ judged' = judged
    BY <1>2 DEF QcMerge, OnRows
  <2>2. QcTyped(rowOf) /\ ~Chained(judged)
    BY <1>2, <2>1 DEF QcInv
  <2> QED BY <2>1, <2>2, MergeLosesNothing
<1>3. QcInv => [Merging /\ ~Chained(judged') => \A r \in QcRows : Kept(r)]_qcVars
  BY <1>1, <1>2 DEF Merging
<1>4. QcInv /\ [QcNext]_qcVars => QcInv'
  BY QcStepKeeps
<1> QED BY <1>3, <1>4, QcInitKeeps, PTL DEF QcSpec, MergesLoseNothing

-----------------------------------------------------------------------------
(***************************************************************************)
(* Following TMS: imports leave what staff did, and unlist what goes       *)
(***************************************************************************)
MachineFields == {"here", "value", "shadow", "cat", "autoCat", "status", "rental",
                  "divisionLocked", "listed", "noticed", "marked", "tmsLock", "own"}

\* A machine as every step keeps it: what staff typed is a value that TMS did not have when it
\* was looked at last, so no correction of TMS can be meant for it
RowInv(m) ==
  /\ m = [f \in MachineFields |-> m[f]] /\ m.here = TRUE
  /\ m.own => m.value # 0 /\ m.value # m.shadow

SyncInv ==
  /\ DOMAIN machine = Numbers /\ hand \in Nat
  /\ \A n \in Numbers : machine[n].here => RowInv(machine[n])

\* What an import may do to a machine that staff worked on, or listed
KeptBy(m, new) ==
  /\ m.here /\ new.listed => m.listed /\ new.status = m.status /\ (new.rental => m.rental)
  /\ m.here /\ m.own => new.value = m.value
  /\ m.here /\ m.tmsLock => new = [m EXCEPT !.marked = new.marked]
  /\ new.here /\ new.status = "in_stock" /\ m.here => m.status = "in_stock"

\* A machine that is left as it is
LEMMA SameIsKept ==
  ASSUME NEW m, m.here => RowInv(m)
  PROVE  KeptBy(m, m)
<1>1. ASSUME m = [f \in MachineFields |-> m[f]]
      PROVE  m = [m EXCEPT !.marked = m.marked]
  BY <1>1, Zenon
<1> QED BY <1>1 DEF KeptBy, RowInv

\* A machine that follows the row of an import
LEMMA FollowedKeeps ==
  ASSUME NEW m, RowInv(m), NEW row, NEW held
  PROVE  /\ RowInv(Followed(m, row, held))
         /\ m.own => Followed(m, row, held).value = m.value
         /\ Followed(m, row, held).status = "in_stock" => m.status = "in_stock"
         /\ Followed(m, row, held).listed
              => /\ m.listed /\ Followed(m, row, held).status = m.status
                 /\ (Followed(m, row, held).rental => m.rental)
<1> DEFINE new == Followed(m, row, held)
<1>1. DOMAIN m = MachineFields /\ m = [f \in MachineFields |-> m[f]]
  BY Zenon DEF RowInv
<1>2. new = [f \in MachineFields |-> new[f]]
  BY <1>1, Zenon DEF Followed
<1>3. /\ new.value = IF m.value = 0 \/ (Corrected(m, row) /\ ~held) THEN row.value ELSE m.value
      /\ new.shadow = IF Corrected(m, row) /\ held THEN m.shadow ELSE row.value
  BY <1>1, Zenon DEF Followed, MachineFields
<1>4. /\ new.status = IF GoesOut(m, row) THEN Mapped(row.kind) ELSE m.status
      /\ new.rental = (m.rental \/ TurnsRental(m, row)) /\ new.listed = StillListed(m, row)
  BY <1>1, Zenon DEF Followed, MachineFields
<1>5. new.own = (m.own /\ m.value # row.value) /\ new.here = m.here
  BY <1>1, Zenon DEF Followed, MachineFields
<1> HIDE DEF new
<1>6. m.here = TRUE /\ (m.own => m.value # 0 /\ m.value # m.shadow)
  BY DEF RowInv
<1>7. m.own => new.value = m.value /\ new.shadow = row.value
  BY <1>3, <1>6 DEF Corrected
<1>8. new.own => new.value # 0 /\ new.value # new.shadow
  BY <1>5, <1>6, <1>7
<1>9. new.listed => m.listed /\ new.status = m.status /\ (new.rental => m.rental)
  BY <1>4 DEF StillListed
<1>10. new.status = "in_stock" => m.status = "in_stock"
  BY <1>4 DEF GoesOut, AutoTo
<1>11. new.here = TRUE
  BY <1>5, <1>6
<1>12. RowInv(new)
  BY <1>2, <1>8, <1>11, Zenon DEF RowInv
<1> QED BY <1>7, <1>9, <1>10, <1>12 DEF new

\* A machine that an import makes
LEMMA CreatedKeeps == ASSUME NEW row PROVE RowInv(Created(row))
<1> DEFINE new == Created(row)
<1>1. new.here = TRUE /\ new.own = FALSE /\ new.listed = FALSE
  BY Zenon DEF Created
<1>2. new = [f \in MachineFields |-> new[f]]
  BY DEF Created, MachineFields
<1> HIDE DEF new
<1>3. RowInv(new)
  BY <1>1, <1>2, Zenon DEF RowInv
<1> QED BY <1>3 DEF new

\* The rows of one screen or sheet
LEMMA ImportedKeeps ==
  ASSUME SyncInv, NEW rows, machine' = Imported(rows)
  PROVE  /\ DOMAIN machine' = Numbers
         /\ \A n \in Numbers : /\ machine'[n].here => RowInv(machine'[n])
                               /\ KeptBy(machine[n], machine'[n])
                               /\ n \in Fixed /\ machine'[n].here => machine[n].here
<1> DEFINE follows(n) == machine[n].here /\ ~machine[n].tmsLock
           held == Cardinality({n \in DOMAIN rows : follows(n) /\ Corrected(machine[n], rows[n])})
                     > CorrectionLimit
<1>1. machine' = [n \in Numbers |->
                    IF n \notin DOMAIN rows THEN machine[n]
                    ELSE IF machine[n].here
                    THEN IF follows(n) THEN Followed(machine[n], rows[n], held) ELSE machine[n]
                    ELSE IF n \in Fixed THEN machine[n] ELSE Created(rows[n])]
  BY DEF Imported
<1> HIDE DEF held
<1>2. ASSUME NEW n \in Numbers
      PROVE  /\ machine'[n].here => RowInv(machine'[n])
             /\ KeptBy(machine[n], machine'[n])
             /\ n \in Fixed /\ machine'[n].here => machine[n].here
  <2>1. machine[n].here => RowInv(machine[n])
    BY DEF SyncInv
  <2>2. CASE machine'[n] = machine[n]
    BY <2>1, <2>2, SameIsKept
  <2>3. CASE machine[n].here /\ ~machine[n].tmsLock
             /\ machine'[n] = Followed(machine[n], rows[n], held)
    BY <2>1, <2>3, FollowedKeeps DEF KeptBy
  <2>4. CASE ~machine[n].here /\ n \notin Fixed /\ machine'[n] = Created(rows[n])
    BY <2>4, CreatedKeeps DEF KeptBy
  <2> QED BY <1>1, <2>2, <2>3, <2>4
<1> QED BY <1>1, <1>2

\* The marks of deleted and restored rows
LEMMA MarkedKeeps ==
  ASSUME SyncInv, NEW gone, NEW back, machine' = Marked(gone, back)
  PROVE  /\ DOMAIN machine' = Numbers
         /\ \A n \in Numbers : /\ machine'[n].here => RowInv(machine'[n])
                               /\ KeptBy(machine[n], machine'[n])
                               /\ n \in Fixed /\ machine'[n].here => machine[n].here
<1> DEFINE mark(n) == (machine[n].marked \/ n \in gone) /\ n \notin back
           new(n)  == [machine[n] EXCEPT !.marked = mark(n)]
<1>1. machine' = [n \in Numbers |-> IF ~machine[n].here THEN machine[n] ELSE new(n)]
  BY DEF Marked
<1>2. ASSUME NEW n \in Numbers, machine[n].here
      PROVE  RowInv(new(n)) /\ KeptBy(machine[n], new(n))
  <2> DEFINE m == machine[n]
             x == mark(n)
  <2>1. RowInv(m)
    BY <1>2 DEF SyncInv
  <2> HIDE DEF m, x
  <2>2. DOMAIN m = MachineFields /\ m = [f \in MachineFields |-> m[f]]
    BY <2>1, Zenon DEF RowInv
  <2> DEFINE new1 == [m EXCEPT !.marked = x]
  <2>3. /\ new1.value = m.value /\ new1.shadow = m.shadow /\ new1.own = m.own
        /\ new1.listed = m.listed /\ new1.status = m.status /\ new1.rental = m.rental
        /\ new1.here = m.here /\ new1.marked = x
    BY <2>2, Zenon DEF MachineFields
  <2>4. new1 = [f \in MachineFields |-> new1[f]]
    BY <2>2, Zenon
  <2>5. new1 = [m EXCEPT !.marked = new1.marked]
    BY <2>3, Zenon
  <2> HIDE DEF new1
  <2>6. RowInv(new1)
    BY <2>1, <2>3, <2>4 DEF RowInv
  <2>7. KeptBy(m, new1)
    BY <2>3, <2>5 DEF KeptBy
  <2> QED BY <2>6, <2>7 DEF new1, m, x
<1> HIDE DEF new
<1>3. ASSUME NEW n \in Numbers, ~machine[n].here
      PROVE  KeptBy(machine[n], machine[n])
  BY <1>3 DEF KeptBy
<1> QED BY <1>1, <1>2, <1>3 DEF RowInv

\* What staff do to a machine
LEMMA HandStepKeeps ==
  ASSUME SyncInv, NEW n \in Numbers, HandStep(n)
  PROVE  SyncInv' /\ hand' # hand
<1> DEFINE m == machine[n]
<1>1. RowInv(m) /\ DOMAIN machine = Numbers /\ hand \in Nat
  BY DEF HandStep, SyncInv
<1>2. ASSUME NEW new, HandEdit(n, new), RowInv(new)
      PROVE  SyncInv' /\ hand' # hand
  BY <1>1, <1>2 DEF HandEdit, SyncInv
<1> HIDE DEF m
<1>3. /\ DOMAIN m = MachineFields /\ m = [f \in MachineFields |-> m[f]] /\ m.here = TRUE
      /\ (m.own => m.value # 0 /\ m.value # m.shadow)
  BY <1>1, Zenon DEF RowInv
<1>4. ASSUME NEW v \in 0..MaxValue, TypeValue(n, v)
      PROVE  SyncInv' /\ hand' # hand
  <2> DEFINE new == [m EXCEPT !.value = v, !.own = v # 0 /\ v # m.shadow]
  <2>1. HandEdit(n, new)
    BY <1>4 DEF TypeValue, m
  <2>2. /\ new.value = v /\ new.own = (v # 0 /\ v # m.shadow) /\ new.shadow = m.shadow
        /\ new.here = m.here /\ new.listed = m.listed /\ new.status = m.status
        /\ new.rental = m.rental /\ new = [f \in MachineFields |-> new[f]]
    BY <1>3, Zenon DEF MachineFields
  <2> HIDE DEF new
  <2>3. RowInv(new)
    BY <1>3, <2>2, Zenon DEF RowInv
  <2> QED BY <1>2, <2>1, <2>3
<1>5. ASSUME NEW c \in Cats, ChooseCat(n, c)
      PROVE  SyncInv' /\ hand' # hand
  <2> DEFINE new == [m EXCEPT !.cat = c]
  <2>1. HandEdit(n, new)
    BY <1>5 DEF ChooseCat, m
  <2>2. /\ new.value = m.value /\ new.own = m.own /\ new.shadow = m.shadow
        /\ new.here = m.here /\ new.listed = m.listed /\ new.status = m.status
        /\ new.rental = m.rental /\ new = [f \in MachineFields |-> new[f]]
    BY <1>3, Zenon DEF MachineFields
  <2> HIDE DEF new
  <2>3. RowInv(new)
    BY <1>3, <2>2, Zenon DEF RowInv
  <2> QED BY <1>2, <2>1, <2>3
<1>6. CASE LockNumber(n)
  <2> DEFINE new == [m EXCEPT !.tmsLock = TRUE]
  <2>1. HandEdit(n, new)
    BY <1>6 DEF LockNumber, m
  <2>2. /\ new.value = m.value /\ new.own = m.own /\ new.shadow = m.shadow
        /\ new.here = m.here /\ new.listed = m.listed /\ new.status = m.status
        /\ new.rental = m.rental /\ new = [f \in MachineFields |-> new[f]]
    BY <1>3, Zenon DEF MachineFields
  <2> HIDE DEF new
  <2>3. RowInv(new)
    BY <1>3, <2>2, Zenon DEF RowInv
  <2> QED BY <1>2, <2>1, <2>3
<1>7. CASE ListIt(n)
  <2> DEFINE new == [m EXCEPT !.listed = ~m.listed]
  <2>1. HandEdit(n, new)
    BY <1>7 DEF ListIt, m
  <2>2. /\ new.value = m.value /\ new.own = m.own /\ new.shadow = m.shadow
        /\ new.here = m.here /\ new.status = m.status
        /\ new.rental = m.rental /\ new = [f \in MachineFields |-> new[f]]
    BY <1>3, Zenon DEF MachineFields
  <2> HIDE DEF new
  <2>3. RowInv(new)
    BY <1>3, <2>2, Zenon DEF RowInv
  <2> QED BY <1>2, <2>1, <2>3
<1>8. ASSUME NEW s \in Settled, MoveStatus(n, s)
      PROVE  SyncInv' /\ hand' # hand
  <2> DEFINE new == [m EXCEPT !.status = s, !.listed = m.listed /\ s \notin AutoTo]
  <2>1. HandEdit(n, new)
    BY <1>8 DEF MoveStatus, m
  <2>2. /\ new.value = m.value /\ new.own = m.own /\ new.shadow = m.shadow
        /\ new.here = m.here /\ new.rental = m.rental /\ new = [f \in MachineFields |-> new[f]]
    BY <1>3, Zenon DEF MachineFields
  <2> HIDE DEF new
  <2>3. RowInv(new)
    BY <1>3, <2>2, Zenon DEF RowInv
  <2> QED BY <1>2, <2>1, <2>3
<1>9. ASSUME NEW rental \in BOOLEAN, LockDivision(n, rental)
      PROVE  SyncInv' /\ hand' # hand
  <2> DEFINE new == [m EXCEPT !.rental = rental, !.divisionLocked = TRUE]
  <2>1. HandEdit(n, new)
    BY <1>9 DEF LockDivision, m
  <2>2. /\ new.value = m.value /\ new.own = m.own /\ new.shadow = m.shadow
        /\ new.here = m.here /\ new.rental = rental /\ new = [f \in MachineFields |-> new[f]]
    BY <1>3, Zenon DEF MachineFields
  <2> HIDE DEF new
  <2>3. RowInv(new)
    BY <1>3, <2>2, Zenon DEF RowInv
  <2> QED BY <1>2, <2>1, <2>3
<1> QED BY <1>4, <1>5, <1>6, <1>7, <1>8, <1>9 DEF HandStep

\* What a step that is not staff's may do to the machines
ImportsKeep ==
  hand' = hand => \A n \in Numbers : /\ KeptBy(machine[n], machine'[n])
                                     /\ n \in Fixed /\ machine'[n].here => machine[n].here

\* Every step of TMS, of the ticks, of the sheets and of staff
LEMMA SyncStepKeeps == SyncInv /\ [SyncNext]_syncVars => SyncInv' /\ ImportsKeep
<1> SUFFICES ASSUME SyncInv, [SyncNext]_syncVars PROVE SyncInv' /\ ImportsKeep
  OBVIOUS
<1>1. ASSUME UNCHANGED <<machine, hand>>
      PROVE  SyncInv' /\ ImportsKeep
  BY <1>1, SameIsKept DEF SyncInv, ImportsKeep
<1>2. ASSUME NEW rows, machine' = Imported(rows), UNCHANGED hand
      PROVE  SyncInv' /\ ImportsKeep
  BY <1>2, ImportedKeeps DEF SyncInv, ImportsKeep
<1>3. ASSUME NEW gone, NEW back, machine' = Marked(gone, back), UNCHANGED hand
      PROVE  SyncInv' /\ ImportsKeep
  BY <1>3, MarkedKeeps DEF SyncInv, ImportsKeep
<1>4. ASSUME NEW r \in Runners, TickStep(r) \/ FailTick(r)
      PROVE  SyncInv' /\ ImportsKeep
  <2>1. CASE ApplyRows(r)
    BY <1>2, <2>1 DEF ApplyRows
  <2>2. CASE ApplyMarks(r)
    BY <1>3, <2>2 DEF ApplyMarks
  <2>3. ASSUME NEW full, NEW again, FetchRows(r, full, again) \/ FetchMarks(r, again)
        PROVE  SyncInv' /\ ImportsKeep
    BY <1>1, <2>3 DEF FetchRows, FetchMarks
  <2>4. CASE Finish(r) \/ FailTick(r)
    BY <1>1, <2>4 DEF Finish, FailTick
  <2> QED BY <1>4, <2>1, <2>2, <2>3, <2>4 DEF TickStep
<1>5. CASE Export \/ ApplySheet
  <2>1. CASE Export
    BY <1>1, <2>1 DEF Export
  <2>2. CASE ApplySheet
    BY <1>2, <2>2 DEF ApplySheet
  <2> QED BY <1>5, <2>1, <2>2
<1>6. ASSUME NEW n \in Numbers, TmsStep(n)
      PROVE  SyncInv' /\ ImportsKeep
  BY <1>1, <1>6 DEF TmsStep, ChangeRow, DeleteRow, RestoreRow, InTms
<1>7. ASSUME NEW n \in Numbers, HandStep(n)
      PROVE  SyncInv' /\ ImportsKeep
  BY <1>7, HandStepKeeps DEF ImportsKeep
<1>8. CASE UNCHANGED syncVars
  BY <1>1, <1>8 DEF syncVars
<1> QED BY <1>4, <1>5, <1>6, <1>7, <1>8 DEF SyncNext

\* No machine is known at first
LEMMA SyncInitKeeps == SyncInit => SyncInv
<1>1. NotHere.here = FALSE
  BY Zenon DEF NotHere
<1> QED BY <1>1 DEF SyncInit, SyncInv

\* An import puts no machine on the malls' stock list, and what it sells, scraps or moves to rental
\* is off it in the same step, whichever tick, sheet or screen writes it and whoever listed the
\* machine before (apply_rows)
THEOREM GhostsAreNotImported == SyncSpec => ImportsLeaveNoGhost
<1>1. ImportsKeep =>
        (hand' = hand => \A n \in Numbers :
           machine[n].here /\ machine'[n].listed
             => /\ machine[n].listed
                /\ machine'[n].status = machine[n].status
                /\ (machine'[n].rental => machine[n].rental))
  BY DEF ImportsKeep, KeptBy
<1>2. SyncInv /\ [SyncNext]_syncVars => SyncInv' /\ ImportsKeep
  BY SyncStepKeeps
<1> QED BY <1>1, <1>2, SyncInitKeeps, PTL DEF SyncSpec, ImportsLeaveNoGhost

\* No import takes away what staff typed and TMS never had, touches a machine whose number was put
\* right, brings a machine back to stock, or makes a machine of a fixed number, however late or
\* often it is applied (apply_rows, apply_deletions, autosync)
THEOREM ImportsKeepHandWork == SyncSpec => HandWorkIsKept
<1>1. SyncInv /\ [SyncNext]_syncVars => SyncInv' /\ [ImportsKeep]_syncVars
  BY SyncStepKeeps
<1>2. ImportsKeep => (hand' = hand => \A n \in Numbers :
       /\ machine[n].here /\ machine[n].own => machine'[n].value = machine[n].value
       /\ machine[n].here /\ machine[n].tmsLock
            => machine'[n] = [machine[n] EXCEPT !.marked = machine'[n].marked]
       /\ machine'[n].here /\ machine'[n].status = "in_stock" /\ machine[n].here
            => machine[n].status = "in_stock"
       /\ n \in Fixed /\ machine'[n].here => machine[n].here)
  BY DEF ImportsKeep, KeptBy
<1> QED BY <1>1, <1>2, SyncInitKeeps, PTL DEF SyncSpec, HandWorkIsKept

-----------------------------------------------------------------------------
(***************************************************************************)
(* Reclassification: a category that staff chose stays                     *)
(***************************************************************************)
KeptFields == {"cat", "shadow", "edited", "locked", "gone"}

\* What staff chose against automation is what the machine has, and it is marked as theirs
ChoiceHolds(k, c) == c # NoCat => k.cat = c /\ k.shadow # k.cat /\ k.edited = TRUE

\* what every step keeps: the choices hold, and an application notes the same machines on both
\* sides of what it moved
ReclassInv ==
  /\ DOMAIN kept = Machines /\ DOMAIN ran = Runs
  /\ choice = [n \in Machines |-> choice[n]]
  /\ \A n \in Machines : DOMAIN kept[n] = KeptFields /\ ChoiceHolds(kept[n], choice[n])
  /\ \A r \in Runs : ran[r].at # "none" => DOMAIN ran[r].from = DOMAIN ran[r].to

\* A choice goes when its machine leaves it
ChoiceStays ==
  \A n \in Machines : choice[n] # NoCat /\ kept'[n].cat # choice[n] => choice'[n] # choice[n]

\* A step that moves some machines' categories, and drops their choices with them
LEMMA MovesKeep ==
  ASSUME ReclassInv, NEW S, NEW to,
         kept' = [n \in Machines |-> IF n \in S
                    THEN [kept[n] EXCEPT !.cat = to[n], !.shadow = to[n]] ELSE kept[n]],
         choice' = [n \in Machines |-> choice'[n]],
         \A n \in Machines : choice'[n] = NoCat \/ (n \notin S /\ choice'[n] = choice[n]),
         DOMAIN ran' = Runs,
         \A r \in Runs : ran'[r].at # "none" => DOMAIN ran'[r].from = DOMAIN ran'[r].to
  PROVE  ReclassInv' /\ ChoiceStays
<1>1. ASSUME NEW n \in Machines
      PROVE  /\ DOMAIN kept'[n] = KeptFields /\ ChoiceHolds(kept'[n], choice'[n])
             /\ choice[n] # NoCat /\ kept'[n].cat # choice[n] => choice'[n] # choice[n]
  <2>1. DOMAIN kept[n] = KeptFields /\ ChoiceHolds(kept[n], choice[n])
    BY DEF ReclassInv
  <2>2. CASE n \in S
    BY <2>1, <2>2 DEF ChoiceHolds
  <2>3. CASE n \notin S
    BY <2>1, <2>3 DEF ChoiceHolds
  <2> QED BY <2>2, <2>3
<1> QED BY <1>1 DEF ReclassInv, ChoiceStays

\* A bulk application moves what staff chose only where they picked the machine
LEMMA ApplyMoves ==
  ASSUME ReclassInv, NEW r \in Runs, Apply(r)
  PROVE  ReclassInv' /\ ChoiceStays
<1> DEFINE S == Selected(asked.to, asked.gone, asked.locked, asked.picked)
<1>1. \A n \in Machines : choice'[n] = NoCat \/ (n \notin S /\ choice'[n] = choice[n])
  <2>0. choice' = [n \in Machines |-> IF n \in S \cap asked.picked THEN NoCat ELSE choice[n]]
    BY DEF Apply
  <2>1. ASSUME NEW n \in Machines, n \in S, choice'[n] # NoCat PROVE FALSE
    <3>1. n \notin asked.picked /\ choice[n] # NoCat
      BY <2>0, <2>1
    <3>2. kept[n].edited
      BY <2>1, <3>1 DEF ReclassInv, ChoiceHolds
    <3> QED BY <2>1, <3>1, <3>2 DEF Selected, Protected
  <2>2. ASSUME NEW n \in Machines, n \notin S PROVE choice'[n] = NoCat \/ choice'[n] = choice[n]
    BY <2>0, <2>2
  <2> HIDE DEF S
  <2> QED BY <2>1, <2>2, Zenon
<1>2. /\ DOMAIN ran' = Runs
      /\ \A s \in Runs : ran'[s].at # "none" => DOMAIN ran'[s].from = DOMAIN ran'[s].to
  BY DEF Apply, ReclassInv
<1>3. kept' = [n \in Machines |-> IF n \in S
                 THEN [kept[n] EXCEPT !.cat = asked.to[n], !.shadow = asked.to[n]] ELSE kept[n]]
  BY DEF Apply, OnKept
<1>4. choice' = [n \in Machines |-> choice'[n]]
  BY DEF Apply
<1> HIDE DEF S
<1> QED BY <1>1, <1>2, <1>3, <1>4, MovesKeep

\* Undoing one gives back only what still has the category it gave
LEMMA UndoMoves ==
  ASSUME ReclassInv, NEW r \in Runs, UndoApply(r)
  PROVE  ReclassInv' /\ ChoiceStays
<1> DEFINE S == Undoable(r)
           to == ran[r].from
<1>1. \A n \in Machines : choice'[n] = NoCat \/ (n \notin S /\ choice'[n] = choice[n])
  <2>0. choice' = [n \in Machines |->
          IF n \in DOMAIN ran[r].to /\ ran[r].to[n] = choice[n] THEN NoCat ELSE choice[n]]
    BY DEF UndoApply
  <2>1. ASSUME NEW n \in Machines, n \in S, choice'[n] # NoCat PROVE FALSE
    <3>1. n \in DOMAIN ran[r].to /\ kept[n].cat = ran[r].to[n]
      BY <2>1 DEF UndoApply, Undoable, ReclassInv
    <3>2. choice'[n] = choice[n] /\ ran[r].to[n] # choice[n]
      BY <2>0, <2>1, <3>1
    <3> QED BY <2>1, <3>1, <3>2 DEF ReclassInv, ChoiceHolds
  <2>2. ASSUME NEW n \in Machines, n \notin S PROVE choice'[n] = NoCat \/ choice'[n] = choice[n]
    BY <2>0, <2>2
  <2> HIDE DEF S
  <2> QED BY <2>1, <2>2, Zenon
<1>2. /\ DOMAIN ran' = Runs
      /\ \A s \in Runs : ran'[s].at # "none" => DOMAIN ran'[s].from = DOMAIN ran'[s].to
  <2>1. /\ DOMAIN ran = Runs /\ ran[r].at = "applied" /\ ran' = [ran EXCEPT ![r].at = "undone"]
        /\ \A s \in Runs : ran[s].at # "none" => DOMAIN ran[s].from = DOMAIN ran[s].to
    BY DEF UndoApply, ReclassInv
  <2>2. DOMAIN ran' = Runs /\ (\A s \in Runs \ {r} : ran'[s] = ran[s])
        /\ ran'[r] = [ran[r] EXCEPT !.at = "undone"]
    BY <2>1
  <2>3. ran'[r].from = ran[r].from /\ ran'[r].to = ran[r].to
    BY <2>2
  <2> QED BY <2>1, <2>2, <2>3
<1>3. kept' = [n \in Machines |-> IF n \in S
                 THEN [kept[n] EXCEPT !.cat = to[n], !.shadow = to[n]] ELSE kept[n]]
  BY DEF UndoApply, OnKept
<1>4. choice' = [n \in Machines |-> choice'[n]]
  BY DEF UndoApply
<1> HIDE DEF S, to
<1> QED BY <1>1, <1>2, <1>3, <1>4, MovesKeep

\* What happens to one machine
LEMMA OneMachineKeeps ==
  ASSUME ReclassInv, NEW n \in Machines,
         \/ FollowTms(n)
         \/ \E c \in Categories : ChooseCategory(n, c)
         \/ \E gone, locked \in BOOLEAN : Alters(n, gone, locked)
  PROVE  ReclassInv' /\ ChoiceStays
<1>1. /\ DOMAIN kept = Machines /\ choice = [m \in Machines |-> choice[m]]
      /\ DOMAIN kept[n] = KeptFields
      /\ ChoiceHolds(kept[n], choice[n])
  BY DEF ReclassInv
<1>2. ASSUME UNCHANGED ran, NEW k, NEW c, kept' = [kept EXCEPT ![n] = k], DOMAIN k = KeptFields,
             choice' = [choice EXCEPT ![n] = c], ChoiceHolds(k, c),
             choice[n] # NoCat /\ k.cat # choice[n] => c # choice[n]
      PROVE  ReclassInv' /\ ChoiceStays
  BY <1>1, <1>2 DEF ReclassInv, ChoiceStays, ChoiceHolds
<1>3. choice = [choice EXCEPT ![n] = choice[n]]
  BY <1>1
<1>4. CASE FollowTms(n)
  <2> DEFINE k == [kept[n] EXCEPT !.cat = target[n], !.shadow = target[n]]
  <2>1. kept' = [kept EXCEPT ![n] = k] /\ UNCHANGED <<ran, choice>> /\ choice[n] = NoCat
    BY <1>1, <1>4 DEF FollowTms, OnKept, ChoiceHolds
  <2>2. DOMAIN k = KeptFields
    BY <1>1
  <2> HIDE DEF k
  <2> QED BY <1>2, <1>3, <2>1, <2>2 DEF ChoiceHolds
<1>5. ASSUME NEW c \in Categories, ChooseCategory(n, c)
      PROVE  ReclassInv' /\ ChoiceStays
  <2> DEFINE k == [kept[n] EXCEPT !.cat = c, !.edited = TRUE]
             d == IF c = kept[n].shadow THEN NoCat ELSE c
  <2>1. /\ kept' = [kept EXCEPT ![n] = k] /\ choice' = [choice EXCEPT ![n] = d]
        /\ UNCHANGED ran /\ c # kept[n].cat
    BY <1>5 DEF ChooseCategory
  <2>2. DOMAIN k = KeptFields /\ k.cat = c /\ k.shadow = kept[n].shadow /\ k.edited = TRUE
    BY <1>1 DEF KeptFields
  <2>3. ChoiceHolds(k, d) /\ (choice[n] # NoCat => d # choice[n])
    BY <1>1, <2>1, <2>2 DEF ChoiceHolds
  <2> HIDE DEF k, d
  <2> QED BY <1>2, <2>1, <2>2, <2>3
<1>6. ASSUME NEW gone \in BOOLEAN, NEW locked \in BOOLEAN, Alters(n, gone, locked)
      PROVE  ReclassInv' /\ ChoiceStays
  <2> DEFINE k == [kept[n] EXCEPT !.gone = gone, !.locked = @ \/ locked]
  <2>1. kept' = [kept EXCEPT ![n] = k] /\ UNCHANGED <<ran, choice>>
    BY <1>1, <1>6 DEF Alters
  <2>2. /\ DOMAIN k = KeptFields /\ k.cat = kept[n].cat /\ k.shadow = kept[n].shadow
        /\ k.edited = kept[n].edited
    BY <1>1 DEF KeptFields
  <2> HIDE DEF k
  <2>3. ChoiceHolds(k, choice[n]) /\ (choice[n] # NoCat => k.cat = choice[n])
    BY <1>1, <2>2 DEF ChoiceHolds
  <2> QED BY <1>2, <1>3, <2>1, <2>2, <2>3
<1> QED BY <1>4, <1>5, <1>6

\* Every step of TMS, of an application, of the imports and of staff
LEMMA ReclassStepKeeps ==
  ReclassInv /\ [ReclassNext]_reclassVars => ReclassInv' /\ [ChoiceStays]_reclassVars
<1> SUFFICES ASSUME ReclassInv, [ReclassNext]_reclassVars PROVE ReclassInv' /\ ChoiceStays
  OBVIOUS
<1>1. ASSUME UNCHANGED <<kept, ran, choice>>
      PROVE  ReclassInv' /\ ChoiceStays
  BY <1>1 DEF ReclassInv, ChoiceStays, ChoiceHolds
<1>2. ASSUME NEW withGone, NEW withLocked, NEW picked,
             AskApply(withGone, withLocked, picked) \/ DropApply \/ UNCHANGED reclassVars
      PROVE  ReclassInv' /\ ChoiceStays
  BY <1>1, <1>2 DEF AskApply, DropApply, reclassVars
<1>3. ASSUME NEW n, NEW c, Turns(n, c)
      PROVE  ReclassInv' /\ ChoiceStays
  BY <1>1, <1>3 DEF Turns
<1> QED BY <1>2, <1>3, ApplyMoves, UndoMoves, OneMachineKeeps DEF ReclassNext

\* Nobody has chosen at first
LEMMA ReclassInitKeeps == ReclassInit => ReclassInv
<1> SUFFICES ASSUME ReclassInit PROVE ReclassInv
  OBVIOUS
<1>1. DOMAIN kept = Machines /\ DOMAIN ran = Runs /\ choice = [n \in Machines |-> choice[n]]
  BY DEF ReclassInit
<1>2. \A n \in Machines : DOMAIN kept[n] = KeptFields /\ choice[n] = NoCat
  BY DEF ReclassInit, KeptFields
<1>3. \A r \in Runs : ran[r].at = "none"
  BY DEF ReclassInit, Unrun
<1> QED BY <1>1, <1>2, <1>3 DEF ReclassInv, ChoiceHolds

\* A category that staff chose against automation goes only by another choice, by an application
\* they picked the machine for, or with the undoing of the one that had brought the machine to
\* that very category, however imports, applications and undoings take turns (reclass_apply,
\* reclass_undo, apply_rows)
THEOREM ChoicesStay == ReclassSpec => HandCategoryStays
<1>1. ChoiceStays => (\A n \in Machines :
        choice[n] # NoCat /\ kept'[n].cat # choice[n] => choice'[n] # choice[n])
  BY DEF ChoiceStays
<1> QED BY <1>1, ReclassStepKeeps, ReclassInitKeeps, PTL DEF ReclassSpec, HandCategoryStays
=============================================================================
