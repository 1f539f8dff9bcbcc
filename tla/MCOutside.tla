------------------------------- MODULE MCOutside -------------------------------
(***************************************************************************)
(* What lies around the orders and the machines: orders coming in,         *)
(* accounts, the cut-over from TMS, the masters, the reclassification, the *)
(* QC program and what an order earns.                                     *)
(* They share no table that one of their properties speaks of, so each     *)
(* is a scene of its own, chosen in the initial state.                     *)
(***************************************************************************)
EXTENDS Intake, Accounts, Cutover, Masters, Reclass, QcFollow, Takings

VARIABLE scene

outsideVars == <<intakeVars, accountVars, cutoverVars, mastersVars, reclassVars, qcVars, takingVars, scene>>

\* every row resembles every order of QC enough, that of the mall the first most; only the mall
\* knows what was paid
MCScore  == [r \in QcRows |-> [q \in Qcs |-> MinScore + (IF r \in Malls /\ q = FirstQc THEN 1 ELSE 0)]]
MCAmount == [r \in QcRows |-> IF r \in Malls THEN 1 ELSE 0]
MCGearOf == CHOOSE f \in [Qcs -> Gear] : \A p, q \in Qcs : p # q => f[p] # f[q]
\* a customer orders twice the same at Coupang; one file tells of the first order by a made-up
\* number and without an address, another of the second by no number
Order(no, key, at, code, addr, paid) ==
  [no |-> no, key |-> key, channel |-> "coupang", who |-> "kim", what |-> "laptop / 8G", at |-> at,
   qty |-> 1, code |-> code, addr |-> addr, paid |-> paid]
MCTold == [k \in MallOrders |-> IF k = "k1" THEN Order(k, "i1", "10:05", "123", "d1", 1)
                                ELSE Order(k, "i2", "11:00", "A_B_C", "d1", 1)]
MCLines == {Order(MadeUp, "i1", "10:05:01", Blank, Blank, 0), Order(NoNumber, "i3", "11:00", "123", "d1", 0)}
MCValues == {Blank, NoKey, Coupang, "kim", "laptop / 8G", "laptop", "10:05:01", "10:05", "11:00"}
              \cup Digits \cup Shaped \cup Addresses \cup {"i1", "i2", "i3"}
MCCoarse == [v \in Values |-> CASE v = "laptop / 8G" -> "laptop" [] v = "10:05:01" -> "10:05" [] OTHER -> v]
\* one mall
MCShopOf == [o \in Buys |-> 1]

OutsideInit ==
  /\ IntakeInit /\ AccountInit /\ CutoverInit /\ MastersInit
  /\ ReclassInit /\ TakingsInit
  /\ scene \in {"intake", "accounts", "cutover", "aliases", "identities",
                "models", "reclass", "qc", "twins", "money"}
  /\ IF scene = "twins" THEN QcStart ELSE QcInit
  /\ scene # "money" => rateOf[1] = 0 /\ \A o \in Buys : earned[o].amount = 0
  /\ scene # "reclass" => \A n \in Machines : target[n] = kept[n].cat /\ kept[n].shadow = target[n]
                                                /\ target[n] = CHOOSE c \in Categories : TRUE

\* bound: the mall's addresses stay, staff's change; staff touch the row that came first, and do
\* not retype it as the second order
IntakeScene ==
  /\ IntakeNext
  /\ \A k \in MallOrders : placed'[k] \in {Blank, "d1"}
  /\ carried' = carried /\ rows' # rows =>
       /\ \A r \in DOMAIN rows' \ {1} : r \in DOMAIN rows /\ rows'[r] = rows[r]
       /\ rows'[1].at = "11:00" => rows # <<>> /\ rows[1].at = "11:00"

\* bound: one partner of TMS, which stays as it is
AliasScene == RowStep \/ AliasStep \/ PartnerStep(1)

\* bound: suppliers and partners of the first word, in two spellings
IdentityScene ==
  \/ SyncPartners
  \/ \E n \in Names, kind \in Kinds : CreateSupplier(n, kind, 0)
  \/ IdentityStep
  \/ \E k \in Partners, there \in BOOLEAN, spelling \in Spellings, kind \in Kinds :
       PartnerChanges(k, there, [name |-> <<1, spelling>>, kind |-> kind, value |-> 0])

\* bound: one order of QC, which writes its file twice, and its machine
QcScene ==
  /\ QcNext /\ qcWrites' <= 2
  /\ \A q \in Qcs \ {FirstQc} : qcFile'[q] = "gone"
  /\ gearOn' \subseteq QcRows \X {GearOf[FirstQc]}

\* bound: QC ships the first order and no more, and the desk cancels nothing and matches nothing
TwinScene ==
  /\ QcNext
  /\ \A q \in Qcs : qcFile'[q] \in {"shipped", qcFile[q]}
  /\ \A r \in QcRows : ~rowOf'[r].cancelled
  /\ ~\E r \in QcRows, A \in SUBSET Gear : MatchRow(r, A)

\* bound: no order earns more than two
MoneyScene == MoneyStep /\ \A o \in Buys : earned'[o].amount <= MaxWon

OutsideNext ==
  /\ UNCHANGED scene
  /\ \/ /\ scene = "intake" /\ IntakeScene
        /\ UNCHANGED <<accountVars, cutoverVars, mastersVars, reclassVars, qcVars, takingVars>>
     \/ /\ scene = "accounts" /\ AccountNext
        /\ UNCHANGED <<intakeVars, cutoverVars, mastersVars, reclassVars, qcVars, takingVars>>
     \/ /\ scene = "cutover" /\ CutoverNext
        /\ UNCHANGED <<intakeVars, accountVars, mastersVars, reclassVars, qcVars, takingVars>>
     \/ /\ \/ scene = "aliases" /\ AliasScene
           \/ scene = "identities" /\ IdentityScene
           \/ scene = "models" /\ ModelStep
        /\ UNCHANGED <<intakeVars, accountVars, cutoverVars, reclassVars, qcVars, takingVars>>
     \/ /\ scene = "reclass" /\ ReclassNext
        /\ UNCHANGED <<intakeVars, accountVars, cutoverVars, mastersVars, qcVars, takingVars>>
     \/ /\ \/ scene = "qc" /\ QcScene
           \/ scene = "twins" /\ TwinScene
        /\ UNCHANGED <<intakeVars, accountVars, cutoverVars, mastersVars, reclassVars, takingVars>>
     \/ /\ scene = "money" /\ MoneyScene
        /\ UNCHANGED <<intakeVars, accountVars, cutoverVars, mastersVars, reclassVars, qcVars>>

OutsideSpec == OutsideInit /\ [][OutsideNext]_outsideVars
-----------------------------------------------------------------------------
\* The rows around the desk are rows their tables can hold
OutsideOK ==
  /\ IntakeOK /\ AccountsOK /\ CutoverOK /\ MastersOK /\ ReclassOK
  /\ QcFollowOK /\ TakingsOK
=============================================================================
