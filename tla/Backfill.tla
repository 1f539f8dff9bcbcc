------------------------------ MODULE Backfill ------------------------------
(***************************************************************************)
(* The first judgement of the division (app/purchase/backfill.py): a run   *)
(* plans outside its transaction, turns machines into rental ones, and can *)
(* be undone by its number.  Beside it the other writers of the division:  *)
(* transfers.py, apply_rows of migration.py.  What the evidence of RMS and *)
(* TMS says of a machine is Evidence; notes and the log are left out.      *)
(***************************************************************************)
EXTENDS Naturals, FiniteSets

CONSTANTS
  Machines,
  Runs,      \* backfill runs: BF-<date>-NN
  Hand, Tms, None   \* other values of assets.division_ref: a transfer's id, 'TMS-AUTO', ''

VARIABLES
  division,   \* assets.division
  fixed,      \* assets with division_locked = 1
  ref,        \* assets.division_ref
  was,        \* the division a transfer that is not settled took the machine from
  run,        \* the runs: planned, then kept as settings['division_backfill_<run>']
  decided     \* history: machines whose division somebody decided after the run turned them

backfillVars == <<division, fixed, ref, was, run, decided>>

Divisions == {"sale", "rental"}
\* R1 and R2: rental; R3: rental for good; anything else: not touched
Evidence == {"nothing", "rental", "for good"}
NoRun == [state |-> "none", items |-> {}, for_good |-> {}, prev |-> [m \in Machines |-> "sale"]]

BackfillOK ==
  /\ division \in [Machines -> Divisions]
  /\ fixed \in SUBSET Machines
  /\ ref \in [Machines -> Runs \cup {Hand, Tms, None}]
  /\ was \in [Machines -> Divisions \cup {"settled"}]
  /\ \A b \in Runs : run[b].state \in {"none", "planned", "applied"}
  /\ decided \in [Runs -> SUBSET Machines]

Decided(S) == decided' = [b \in Runs |-> decided[b] \cup {m \in S : ref[m] = b}]
-----------------------------------------------------------------------------
\* _do_backfill up to its transaction: not what is locked, nor what is rental already
Plan(b, says) ==
  LET for_good == {m \in Machines : says[m] = "for good"}
      items == {m \in Machines \ fixed : /\ says[m] # "nothing"
                                         /\ division[m] # "rental" \/ m \in for_good} IN
  /\ run[b].state = "none"
  /\ items # {}
  /\ run' = [run EXCEPT ![b] = [state |-> "planned", items |-> items, for_good |-> for_good,
                                prev |-> division]]
  /\ UNCHANGED <<division, fixed, ref, was, decided>>

\* its transaction: the snapshot of the plan, and the machines not locked in the meantime
Apply(b) ==
  LET turned == run[b].items \ fixed IN
  /\ run[b].state = "planned"
  /\ division' = [m \in Machines |-> IF m \in turned THEN "rental" ELSE division[m]]
  /\ fixed' = fixed \cup (turned \cap run[b].for_good)
  /\ ref' = [m \in Machines |-> IF m \in turned THEN b ELSE ref[m]]
  /\ run' = [run EXCEPT ![b].state = "applied"]
  /\ UNCHANGED <<was, decided>>

\* _do_undo: every machine whose division_ref is still the run's
Undo(b) ==
  LET back == {m \in run[b].items : ref[m] = b} IN
  /\ run[b].state = "applied"
  /\ division' = [m \in Machines |-> IF m \in back THEN run[b].prev[m] ELSE division[m]]
  /\ fixed' = fixed \ back
  /\ ref' = [m \in Machines |-> IF m \in back THEN None ELSE ref[m]]
  /\ UNCHANGED <<was, run, decided>>
-----------------------------------------------------------------------------
\* set_division_exception: somebody decides; division_ref stays
DecideByHand(m, d) ==
  /\ division' = [division EXCEPT ![m] = d]
  /\ fixed' = fixed \cup {m}
  /\ Decided({m})
  /\ UNCHANGED <<ref, was, run>>

UnlockByHand(m) ==
  /\ fixed' = fixed \ {m}
  /\ UNCHANGED <<division, ref, was, run, decided>>

\* the commit of a transfer, and its roll-back, as far as the division goes
HandOver(m) ==
  /\ m \notin fixed
  /\ division' = [division EXCEPT ![m] = IF @ = "sale" THEN "rental" ELSE "sale"]
  /\ was' = [was EXCEPT ![m] = division[m]]
  /\ ref' = [ref EXCEPT ![m] = Hand]
  /\ Decided({m})
  /\ UNCHANGED <<fixed, run>>

HandBack(m) ==
  /\ was[m] # "settled"
  /\ division' = [division EXCEPT ![m] = was[m]]
  /\ was' = [was EXCEPT ![m] = "settled"]
  /\ ref' = [ref EXCEPT ![m] = None]
  /\ Decided({m})
  /\ UNCHANGED <<fixed, run>>

\* an imported row says the machine is rented out
TurnedByTms(m) ==
  /\ m \notin fixed /\ division[m] = "sale"
  /\ division' = [division EXCEPT ![m] = "rental"]
  /\ ref' = [ref EXCEPT ![m] = Tms]
  /\ UNCHANGED <<fixed, was, run, decided>>

BackfillNext ==
  \/ \E b \in Runs : \/ \E says \in [Machines -> Evidence] : Plan(b, says)
                     \/ Apply(b) \/ Undo(b)
  \/ \E m \in Machines : \/ \E d \in Divisions : DecideByHand(m, d)
                         \/ UnlockByHand(m) \/ HandOver(m) \/ HandBack(m) \/ TurnedByTms(m)

BackfillInit ==
  /\ division = [m \in Machines |-> "sale"]
  /\ fixed = {}
  /\ ref = [m \in Machines |-> None]
  /\ was = [m \in Machines |-> "settled"]
  /\ run = [b \in Runs |-> NoRun]
  /\ decided = [b \in Runs |-> {}]

BackfillSpec == BackfillInit /\ [][BackfillNext]_backfillVars
-----------------------------------------------------------------------------
\* Undoing a run leaves the machines alone that somebody decided about, or that were handed
\* over, since the run turned them (the comment in _do_undo says so)
UndoLeavesDecided ==
  [][\A b \in Runs : Undo(b) =>
       \A m \in decided[b] : division'[m] = division[m] /\ (m \in fixed => m \in fixed')
    ]_backfillVars
=============================================================================
