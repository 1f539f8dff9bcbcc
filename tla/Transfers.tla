----------------------------- MODULE Transfers ------------------------------
(***************************************************************************)
(* app/purchase/transfers.py: machines handed over between the sale        *)
(* division (this program) and the rental division (RMS), in two phases    *)
(* beside the order desk.  RMS itself is another program: it refreshes the *)
(* copy of its inventory kept here, and acknowledges what it has taken in. *)
(* Numbers nobody knows, notes, warnings and the event log are left out.   *)
(***************************************************************************)
EXTENDS OwsState

CONSTANTS
  MaxCid,       \* bound: commit ids of the day (TRF-<date>-NNNN)
  Twins,        \* assets that share their serial number with another asset
  SoldRecords   \* assets with a '판매' event: the old system sold them once

ASSUME TransferBounds == MaxCid \in Nat /\ Twins \subseteq Assets /\ SoldRecords \subseteq Assets

VARIABLES
  division,    \* assets.division
  locked,      \* assets with division_locked = 1
  override,    \* assets.hold_override: the reasons staff waived
  rms,         \* what RMS is known to say of each asset (rms_inventory, or sent along)
  transfer     \* asset_transfers with their items

transferVars == <<division, locked, override, rms, transfer>>

Divisions == {"sale", "rental"}
Overridable == {"dup_buy", "sold_rec"}
RmsSays == {"absent", "in", "out", "twice"}   \* "out": rented or holding
Cids == 1..MaxCid
NoSnapshot == [a \in Assets |-> [division |-> "sale", status |-> "in_stock", provisional |-> FALSE]]
NoTransfer == [state |-> "none", to |-> "sale", fresh |-> FALSE, ok |-> {}, snapshot |-> NoSnapshot]

TransfersOK ==
  /\ division \in [Assets -> Divisions]
  /\ locked \in SUBSET Assets
  /\ override \in [Assets -> SUBSET Overridable]
  /\ rms \in [Assets -> RmsSays]
  /\ \A c \in Cids :
       /\ transfer[c].state \in {"none", "pending", "expired", "rejected", "committed", "done",
                                 "rolled_back"}
       /\ transfer[c].ok \in SUBSET Assets /\ transfer[c].to \in Divisions
-----------------------------------------------------------------------------
\* within PENDING_TTL_MIN of its proposal
Fresh(c) == transfer[c].state = "pending" /\ transfer[c].fresh

\* the other transfers that keep the asset for themselves
Blocking(a, self) ==
  {c \in Cids \ self : a \in transfer[c].ok /\ (transfer[c].state = "committed" \/ Fresh(c))}

\* what the books say against it, less what staff waived
DataHolds(a) ==
  ({h \in {"dup_buy"} : a \in Twins}
     \cup {h \in {"sold_rec"} : a \in SoldRecords \/ Holders(a) # {}}) \ override[a]

\* a machine shipped, listed or matched cannot go to rental, one a customer of RMS holds
\* cannot come to sale
Elsewhere(a, to) ==
  \/ to = "rental" /\ (status[a] = "shipped" \/ a \in listed \/ Holders(a) # {})
  \/ to = "sale" /\ rms[a] = "out"

\* _inspect: noop, blocked or ok
Movable(a, to, self) ==
  /\ division[a] # to
  /\ a \notin locked
  /\ Blocking(a, self) = {}
  /\ DataHolds(a) = {}
  /\ status[a] # "scrapped"
  /\ ~Elsewhere(a, to)
  /\ rms[a] # "twice"

Propose(c, S, to) ==
  /\ transfer[c].state = "none" /\ \A d \in Cids : d < c => transfer[d].state # "none"
  /\ transfer' = [d \in Cids |->
       IF d = c THEN [NoTransfer EXCEPT !.state = "pending", !.to = to, !.fresh = TRUE,
                                        !.ok = {a \in S : Movable(a, to, {})}]
       ELSE IF transfer[d].state = "pending" /\ ~transfer[d].fresh
            THEN [transfer[d] EXCEPT !.state = "expired"] ELSE transfer[d]]
  /\ UNCHANGED <<recordVars, division, locked, override, rms>>

\* half an hour passes; older proposals age first
Age(c) ==
  /\ Fresh(c) /\ \A d \in Cids : d < c => ~Fresh(d)
  /\ transfer' = [transfer EXCEPT ![c].fresh = FALSE]
  /\ UNCHANGED <<recordVars, division, locked, override, rms>>

\* the recheck finds machines that changed since the proposal: they are dropped, nothing moves
CommitStopped(c) ==
  LET good == {a \in transfer[c].ok : Movable(a, transfer[c].to, {c})} IN
  /\ transfer[c].state = "pending"
  /\ good # transfer[c].ok
  /\ transfer' = [transfer EXCEPT ![c].ok = good]
  /\ UNCHANGED <<recordVars, division, locked, override, rms>>

AsItIsNow(a, to) ==                                                  \* mutant
  [division |-> to, status |-> status[a], provisional |-> a \in provisional]
AsItWas(a, to) ==
  [division |-> division[a], status |-> status[a], provisional |-> a \in provisional]

\* every machine of the proposal changes hands at once; one that comes to sale arrives
\* uninspected: in_stock, '실재고', off the malls
Move(c) ==
  LET S == transfer[c].ok  to == transfer[c].to IN
  /\ division' = [a \in Assets |-> IF a \in S THEN to ELSE division[a]]
  /\ listed' = listed \ S
  /\ status' = [a \in Assets |-> IF a \in S /\ to = "sale" THEN "in_stock" ELSE status[a]]
  /\ provisional' = IF to = "sale" THEN provisional \ S ELSE provisional
  /\ transfer' = [transfer EXCEPT ![c].state = "committed", ![c].snapshot = [a \in Assets |->
       IF a \in S THEN AsItWas(a, to) ELSE NoSnapshot[a]]]
  /\ UNCHANGED <<orderVars, received, before, link, prebuild, waybill, tracking, ticket,
                 locked, override, rms>>

CommitUnchecked(c) == transfer[c].state = "pending" /\ Move(c)      \* mutant
Commit(c) ==
  /\ transfer[c].state = "pending"
  /\ \A a \in transfer[c].ok : Movable(a, transfer[c].to, {c})
  /\ Move(c)

\* (the snapshot is kept by the code; nothing reads it any more)
Settled(c, from, to) ==
  /\ transfer[c].state = from
  /\ transfer' = [transfer EXCEPT ![c].state = to, ![c].snapshot = NoSnapshot]
  /\ UNCHANGED <<recordVars, division, locked, override, rms>>

Ack(c)    == Settled(c, "committed", "done")
Reject(c) == Settled(c, "pending", "rejected")

\* the snapshot is written back whatever the desk has done with the machine since
Rollback(c) ==
  LET S == transfer[c].ok  was == transfer[c].snapshot IN
  /\ transfer[c].state = "committed"
  /\ division' = [a \in Assets |-> IF a \in S THEN was[a].division ELSE division[a]]
  /\ status' = [a \in Assets |-> IF a \in S THEN was[a].status ELSE status[a]]
  /\ provisional' = {a \in Assets : IF a \in S THEN was[a].provisional ELSE a \in provisional}
  /\ transfer' = [transfer EXCEPT ![c].state = "rolled_back", ![c].snapshot = NoSnapshot]
  /\ UNCHANGED <<orderVars, listed, received, before, link, prebuild, waybill, tracking,
                 ticket, locked, override, rms>>
-----------------------------------------------------------------------------
\* staff decide the division by hand and lock it, or unlock it
DivisionException(S, d) ==
  /\ division' = [a \in Assets |-> IF a \in S THEN d ELSE division[a]]
  /\ locked' = locked \cup S
  /\ UNCHANGED <<recordVars, override, rms, transfer>>

DivisionUnlock(S) ==
  /\ locked' = locked \ S
  /\ UNCHANGED <<recordVars, division, override, rms, transfer>>

HoldOverride(S, kinds) ==
  /\ kinds # {}
  /\ override' = [a \in Assets |-> IF a \in S THEN override[a] \cup kinds ELSE override[a]]
  /\ UNCHANGED <<recordVars, division, locked, rms, transfer>>

HoldOverrideUndo(S) ==
  /\ override' = [a \in Assets |-> IF a \in S THEN {} ELSE override[a]]
  /\ UNCHANGED <<recordVars, division, locked, rms, transfer>>

\* RMS pushes its whole inventory; an empty list is refused
RmsSync(says) ==
  /\ \E a \in Assets : says[a] # "absent"
  /\ rms' = says
  /\ UNCHANGED <<recordVars, division, locked, override, transfer>>

\* RMS says it made these machines; what the copy said of them before is replaced
RentalMissingAck(S) ==
  /\ rms' = [a \in Assets |-> IF a \in S THEN "in" ELSE rms[a]]
  /\ UNCHANGED <<recordVars, division, locked, override, transfer>>

TransferStep ==
  \/ \E c \in Cids : \/ \E S \in SUBSET Assets \ {{}}, to \in Divisions : Propose(c, S, to)
                     \/ Age(c) \/ CommitStopped(c) \/ Commit(c)
                     \/ Ack(c) \/ Reject(c) \/ Rollback(c)

BookStep ==
  \E S \in SUBSET Assets \ {{}} :
    \/ \E d \in Divisions : DivisionException(S, d)
    \/ DivisionUnlock(S) \/ HoldOverrideUndo(S)
    \/ \E kinds \in SUBSET Overridable : HoldOverride(S, kinds)

RmsStep ==
  \/ \E says \in [Assets -> RmsSays] : RmsSync(says)
  \/ \E S \in SUBSET Assets \ {{}} : RentalMissingAck(S)

TransferNext == TransferStep \/ BookStep \/ RmsStep

TransferInit ==
  /\ division \in [Assets -> Divisions]
  /\ locked = {}
  /\ override = [a \in Assets |-> {}]
  /\ rms = [a \in Assets |-> "absent"]
  /\ transfer = [c \in Cids |-> NoTransfer]

\* hand-overs beside whatever the rest of the program does with the machines meanwhile
TransferSpec ==
  /\ AssetsOK /\ TransferInit
  /\ [][TransferNext \/ (UNCHANGED transferVars /\ AssetsOK')]_<<recordVars, transferVars>>
-----------------------------------------------------------------------------
\* the division the open hand-over of each machine took it from
OpenFrom == [a \in Assets |->
  IF \E c \in Cids : transfer[c].state = "committed" /\ a \in transfer[c].ok
  THEN transfer[CHOOSE c \in Cids : transfer[c].state = "committed"
                                    /\ a \in transfer[c].ok].snapshot[a].division
  ELSE "closed"]

Promise == INSTANCE Handover WITH Machines <- Assets, Closed <- "closed",
                                  owner <- division, open <- OpenFrom

\* The two-phase protocol with its proposals, time limit, recheck and roll-back implements the
\* plain hand-over: all machines of a commit move at once, no machine is in two open commits,
\* and a roll-back gives back exactly what that commit took
HandoverKept == Promise!Spec

\* A machine given to rental by a commit is at that moment neither sold, nor on the malls, nor
\* with an order, however long ago the proposal was looked at (_do_commit inspects again)
HandoverIsClear ==
  [][\A c \in Cids : transfer[c].state = "pending" /\ transfer'[c].state = "committed"
       => \A a \in transfer[c].ok :
            /\ division'[a] # division[a]
            /\ transfer[c].to = "rental" => a \notin listed /\ Holders(a) = {}
            /\ \A d \in Cids \ {c} : transfer[d].state = "committed" => a \notin transfer[d].ok
    ]_<<recordVars, transferVars>>
=============================================================================
