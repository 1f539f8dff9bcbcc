-------------------------- MODULE TransfersProofs --------------------------
(***************************************************************************)
(* The two-phase hand-over implements the plain one, and what it gives to  *)
(* rental is clear at that moment: for any number of machines and of       *)
(* hand-overs, whatever the rest of the program does meanwhile.            *)
(***************************************************************************)
EXTENDS Transfers, TLAPS

States == {"none", "pending", "expired", "rejected", "committed", "done", "rolled_back"}
Snapshots == [division : Divisions, status : AssetStatuses, provisional : BOOLEAN]
TransferRows == [state : States, to : Divisions, fresh : BOOLEAN, ok : SUBSET Assets,
                 snapshot : [Assets -> Snapshots]]

Committed(c) == transfer[c].state = "committed"

\* no machine is in two commits that are not settled: what makes OpenFrom well defined
OneOpen == \A c, d \in Cids : c # d /\ Committed(c) /\ Committed(d)
                                => transfer[c].ok \cap transfer[d].ok = {}

TransferInv ==
  /\ AssetsOK
  /\ division \in [Assets -> Divisions]
  /\ transfer \in [Cids -> TransferRows]
  /\ OneOpen

\* The empty row of a transfer, and the empty snapshot, are of their types
LEMMA NothingNoted == NoSnapshot \in [Assets -> Snapshots] /\ NoTransfer \in TransferRows
BY DEF NoSnapshot, NoTransfer, Snapshots, TransferRows, States, Divisions, AssetStatuses
-----------------------------------------------------------------------------
(***************************************************************************)
(* The open hand-over of a machine                                         *)
(***************************************************************************)
OpenIsKnown ==
  /\ \A c \in Cids : Committed(c) => \A a \in transfer[c].ok :
       a \in Assets /\ OpenFrom[a] = transfer[c].snapshot[a].division
  /\ \A a \in Assets :
       (\A c \in Cids : ~(Committed(c) /\ a \in transfer[c].ok)) => OpenFrom[a] = "closed"

\* At most one transfer of a machine is committed, so which it is is known
LEMMA OneIsOpen == TransferInv => OpenIsKnown
<1> SUFFICES ASSUME TransferInv PROVE OpenIsKnown
  OBVIOUS
<1>1. ASSUME NEW c \in Cids, Committed(c), NEW a \in transfer[c].ok
      PROVE  a \in Assets /\ OpenFrom[a] = transfer[c].snapshot[a].division
  <2>1. a \in Assets
    BY <1>1 DEF TransferInv, TransferRows
  <2> DEFINE d == CHOOSE e \in Cids : transfer[e].state = "committed" /\ a \in transfer[e].ok
  <2>2. d \in Cids /\ Committed(d) /\ a \in transfer[d].ok
    BY <1>1 DEF Committed
  <2>3. d = c
    BY <1>1, <2>2 DEF TransferInv, OneOpen
  <2>4. OpenFrom[a] = transfer[d].snapshot[a].division
    BY <1>1, <2>1 DEF OpenFrom, Committed
  <2> QED BY <2>1, <2>3, <2>4
<1>2. ASSUME NEW a \in Assets, \A c \in Cids : ~(Committed(c) /\ a \in transfer[c].ok)
      PROVE  OpenFrom[a] = "closed"
  BY <1>2 DEF OpenFrom, Committed
<1> QED BY <1>1, <1>2 DEF OpenIsKnown

\* the same after a step
LEMMA OneIsOpenNext == TransferInv' => OpenIsKnown'
BY OneIsOpen, PTL

\* steps that leave the commits alone
LEMMA CommitsRest ==
  ASSUME TransferInv, AssetsOK', division' \in [Assets -> Divisions], transfer' \in [Cids -> TransferRows],
         \A c \in Cids : /\ Committed(c)' <=> Committed(c)
                         /\ Committed(c) => /\ transfer'[c].ok = transfer[c].ok
                                            /\ transfer'[c].snapshot = transfer[c].snapshot
  PROVE  TransferInv' /\ UNCHANGED OpenFrom
<1>1. TransferInv'
  BY DEF TransferInv, OneOpen, Cids, TransferRows, States, Snapshots, Divisions, AssetStatuses, Committed
<1>2. ASSUME NEW a \in Assets PROVE OpenFrom'[a] = OpenFrom[a]
  <2>1. CASE \E c \in Cids : Committed(c) /\ a \in transfer[c].ok
    <3>1. PICK c \in Cids : Committed(c) /\ a \in transfer[c].ok
      BY <2>1
    <3>2. OpenFrom[a] = transfer[c].snapshot[a].division
      BY <3>1, OneIsOpen DEF OpenIsKnown
    <3>3. TransferInv' /\ Committed(c)' /\ a \in transfer'[c].ok
      BY <1>1, <3>1
    <3>4. OpenFrom'[a] = transfer'[c].snapshot[a].division
      BY <3>3, OneIsOpenNext DEF OpenIsKnown, Cids, Committed
    <3> QED BY <3>1, <3>2, <3>4
  <2>2. CASE ~\E c \in Cids : Committed(c) /\ a \in transfer[c].ok
    BY <1>1, <2>2, OneIsOpen, OneIsOpenNext DEF OpenIsKnown, Cids, Committed
  <2> QED BY <2>1, <2>2
<1>3. OpenFrom' = OpenFrom
  BY <1>2 DEF OpenFrom
<1> QED BY <1>1, <1>3
-----------------------------------------------------------------------------
(***************************************************************************)
(* Each step maps to a step of the plain hand-over or to none              *)
(***************************************************************************)
Kept == TransferInv' /\ [Promise!Next]_Promise!vars

\* What leaves the divisions and the open hand-overs alone keeps: the promise stutters
LEMMA Stutters ==
  ASSUME TransferInv', UNCHANGED <<division, OpenFrom>>
  PROVE  Kept
BY DEF Kept, Promise!vars

\* What leaves transfers and divisions alone keeps
LEMMA RestKeeps ==
  ASSUME TransferInv, AssetsOK', UNCHANGED <<division, transfer>>
  PROVE  Kept
BY CommitsRest, Stutters DEF TransferInv, Committed

\* A proposal opens nothing yet
LEMMA ProposeKeeps ==
  ASSUME TransferInv, NEW c \in Cids, NEW S \in SUBSET Assets, NEW to \in Divisions,
         Propose(c, S, to)
  PROVE  Kept
<1>1. AssetsOK' /\ UNCHANGED division
  BY DEF Propose, recordVars, assetVars, TransferInv, AssetsOK
<1>2. transfer' \in [Cids -> TransferRows]
  BY NothingNoted DEF Propose, TransferInv, TransferRows, States
<1>3. \A d \in Cids : /\ Committed(d)' <=> Committed(d)
                      /\ Committed(d) => transfer'[d] = transfer[d]
  BY NothingNoted DEF Propose, TransferInv, Committed, NoTransfer, TransferRows
<1> QED BY <1>1, <1>2, <1>3, CommitsRest, Stutters DEF TransferInv

\* one proposal changes, and stays one or ends without a commit
LEMMA ProposalKeeps ==
  ASSUME TransferInv, NEW c \in Cids, Age(c) \/ CommitStopped(c) \/ Reject(c)
  PROVE  Kept
<1>1. AssetsOK' /\ UNCHANGED division
  BY DEF Age, CommitStopped, Reject, Settled, recordVars, assetVars, TransferInv, AssetsOK
<1>2. transfer[c].state = "pending" /\ \A d \in Cids \ {c} : transfer'[d] = transfer[d]
  BY DEF Age, CommitStopped, Reject, Settled, Fresh, TransferInv
<1>3. transfer' \in [Cids -> TransferRows] /\ ~Committed(c)'
  <2>1. CASE Age(c)
    BY <2>1, <1>2 DEF Age, TransferInv, TransferRows, Committed
  <2>2. CASE CommitStopped(c)
    BY <2>2, <1>2 DEF CommitStopped, TransferInv, TransferRows, Committed
  <2>3. CASE Reject(c)
    BY <2>3, <1>2, NothingNoted DEF Reject, Settled, TransferInv, TransferRows, Committed, States
  <2> QED BY <2>1, <2>2, <2>3
<1>4. \A d \in Cids : /\ Committed(d)' <=> Committed(d)
                      /\ Committed(d) => transfer'[d] = transfer[d]
  BY <1>2, <1>3 DEF Committed
<1> QED BY <1>1, <1>3, <1>4, CommitsRest, Stutters DEF TransferInv

\* An exception of the divisions is a step of the promise
LEMMA ExceptionKeeps ==
  ASSUME TransferInv, NEW S \in SUBSET Assets, NEW d \in Divisions, DivisionException(S, d)
  PROVE  Kept
<1>1. AssetsOK' /\ division' \in [Assets -> Divisions]
  BY DEF DivisionException, recordVars, assetVars, TransferInv, AssetsOK
<1>2. TransferInv' /\ UNCHANGED OpenFrom
  BY <1>1, CommitsRest DEF DivisionException, TransferInv, Committed
<1>3. Promise!Assign(S, d)
  BY <1>2 DEF DivisionException, Promise!Assign
<1> QED BY <1>2, <1>3 DEF Kept, Promise!Next
\* what is open after a step that opens or closes the hand-over c
LEMMA OthersStayOpen ==
  ASSUME TransferInv, TransferInv', NEW c \in Cids,
         \A d \in Cids \ {c} : transfer'[d] = transfer[d],
         NEW a \in Assets \ transfer[c].ok, transfer'[c].ok = transfer[c].ok
  PROVE  OpenFrom'[a] = OpenFrom[a]
<1> USE OneIsOpen, OneIsOpenNext DEF OpenIsKnown
<1>1. CASE \E d \in Cids : Committed(d) /\ a \in transfer[d].ok
  <2>1. PICK d \in Cids : Committed(d) /\ a \in transfer[d].ok
    BY <1>1
  <2>2. d # c /\ Committed(d)' /\ transfer'[d] = transfer[d]
    BY <2>1 DEF Committed
  <2>3. OpenFrom[a] = transfer[d].snapshot[a].division
    BY <2>1
  <2>4. OpenFrom'[a] = transfer'[d].snapshot[a].division
    BY <2>1, <2>2 DEF Cids
  <2> QED BY <2>2, <2>3, <2>4
<1>2. CASE \A d \in Cids : ~(Committed(d) /\ a \in transfer[d].ok)
  <2>1. \A d \in Cids : ~(Committed(d)' /\ a \in transfer'[d].ok)
    BY <1>2 DEF Committed
  <2>2. OpenFrom[a] = "closed"
    BY <1>2
  <2>3. OpenFrom'[a] = "closed"
    BY <2>1 DEF Cids
  <2> QED BY <2>2, <2>3
<1> QED BY <1>1, <1>2

\* settled or undone: the machines of c are in no open hand-over any more
LEMMA Closes ==
  ASSUME TransferInv, NEW c \in Cids, Committed(c), AssetsOK',
         division' \in [Assets -> Divisions], NEW end \in States \ {"committed"},
         transfer' = [transfer EXCEPT ![c].state = end, ![c].snapshot = NoSnapshot]
  PROVE  /\ TransferInv'
         /\ OpenFrom' = [a \in Assets |-> IF a \in transfer[c].ok THEN "closed" ELSE OpenFrom[a]]
<1>1. transfer' \in [Cids -> TransferRows] /\ ~Committed(c)' /\ transfer'[c].ok = transfer[c].ok
  BY NothingNoted DEF TransferInv, TransferRows, Committed
<1>2. \A d \in Cids \ {c} : transfer'[d] = transfer[d]
  BY DEF TransferInv
<1>3. OneOpen'
  BY <1>1, <1>2 DEF TransferInv, OneOpen, Committed, Cids
<1>4. TransferInv'
  BY <1>1, <1>3 DEF TransferInv, Cids, TransferRows, States, Snapshots, Divisions, AssetStatuses
<1>5. ASSUME NEW a \in transfer[c].ok PROVE a \in Assets /\ OpenFrom'[a] = "closed"
  <2>1. a \in Assets
    BY DEF TransferInv, TransferRows
  <2>2. \A d \in Cids : ~(Committed(d)' /\ a \in transfer'[d].ok)
    BY <1>1, <1>2 DEF TransferInv, OneOpen, Committed
  <2> QED BY <2>1, <2>2, <1>4, OneIsOpenNext DEF OpenIsKnown, Cids
<1>6. \A a \in Assets \ transfer[c].ok : OpenFrom'[a] = OpenFrom[a]
  BY <1>1, <1>2, <1>4, OthersStayOpen
<1>7. OpenFrom' = [a \in Assets |-> OpenFrom'[a]]
  BY DEF OpenFrom
<1> QED BY <1>4, <1>5, <1>6, <1>7

\* An acknowledgement closes what the commit opened
LEMMA AckKeeps ==
  ASSUME TransferInv, NEW c \in Cids, Ack(c)
  PROVE  Kept
<1> DEFINE S == transfer[c].ok
<1>1. AssetsOK' /\ UNCHANGED division /\ Committed(c) /\ S \in SUBSET Assets
  BY DEF Ack, Settled, recordVars, assetVars, TransferInv, AssetsOK, Committed, TransferRows
<1>2. /\ TransferInv'
      /\ OpenFrom' = [a \in Assets |-> IF a \in S THEN "closed" ELSE OpenFrom[a]]
  <2>1. /\ transfer' = [transfer EXCEPT ![c].state = "done", ![c].snapshot = NoSnapshot]
        /\ "done" \in States \ {"committed"} /\ division' \in [Assets -> Divisions]
    BY <1>1 DEF Ack, Settled, TransferInv, States
  <2> QED BY <1>1, <2>1, Closes
<1>3. \A a \in S : OpenFrom[a] # "closed"
  BY <1>1, OneIsOpen DEF OpenIsKnown, TransferInv, TransferRows, Snapshots, Divisions
<1>4. Promise!Settle(S)
  BY <1>1, <1>2, <1>3 DEF Promise!Settle
<1> QED BY <1>1, <1>2, <1>4 DEF Kept, Promise!Next

\* A rollback takes its machines back where they came from
LEMMA RollbackKeeps ==
  ASSUME TransferInv, NEW c \in Cids, Rollback(c)
  PROVE  Kept
<1> DEFINE S == transfer[c].ok
<1>1. Committed(c) /\ S \in SUBSET Assets /\ transfer[c].snapshot \in [Assets -> Snapshots]
  BY DEF Rollback, TransferInv, Committed, TransferRows
<1>2. AssetsOK' /\ division' \in [Assets -> Divisions]
  BY <1>1 DEF Rollback, TransferInv, AssetsOK, Snapshots
<1>3. /\ TransferInv'
      /\ OpenFrom' = [a \in Assets |-> IF a \in S THEN "closed" ELSE OpenFrom[a]]
  <2>1. /\ transfer' = [transfer EXCEPT ![c].state = "rolled_back", ![c].snapshot = NoSnapshot]
        /\ "rolled_back" \in States \ {"committed"}
    BY DEF Rollback, States
  <2> QED BY <1>1, <1>2, <2>1, Closes
<1>4. \A a \in S : OpenFrom[a] = transfer[c].snapshot[a].division /\ OpenFrom[a] # "closed"
  BY <1>1, OneIsOpen DEF OpenIsKnown, Snapshots, Divisions
<1>5. Promise!Undo(S)
  BY <1>1, <1>3, <1>4 DEF Promise!Undo, Rollback
<1> QED BY <1>1, <1>3, <1>5 DEF Kept, Promise!Next
\* all of the machines of c go to the other division at once, and none of them was in another
\* open hand-over
LEMMA CommitKeeps ==
  ASSUME TransferInv, NEW c \in Cids, Commit(c)
  PROVE  Kept
<1> DEFINE S == transfer[c].ok
           to == transfer[c].to
           from == CHOOSE d \in Divisions : d # to
           taken == [a \in Assets |-> IF a \in S THEN AsItWas(a, to) ELSE NoSnapshot[a]]
<1>1. /\ S \in SUBSET Assets /\ to \in Divisions /\ from \in Divisions /\ from # to
      /\ transfer[c].state = "pending"
  BY DEF Commit, TransferInv, TransferRows, Divisions
<1>2. \A a \in S : division[a] = from
  BY <1>1 DEF Commit, Movable, TransferInv, Divisions
<1>3. \A a \in S, d \in Cids : ~(Committed(d) /\ a \in transfer[d].ok)
  BY <1>1 DEF Commit, Movable, Blocking, Committed
<1>4. taken \in [Assets -> Snapshots] /\ \A a \in S : taken[a].division = division[a]
  BY <1>1, NothingNoted DEF AsItWas, TransferInv, AssetsOK, Snapshots
<1>5. transfer' = [transfer EXCEPT ![c].state = "committed", ![c].snapshot = taken]
  BY DEF Commit, Move
<1>6. /\ transfer' \in [Cids -> TransferRows]
      /\ Committed(c)' /\ transfer'[c].ok = S /\ transfer'[c].snapshot = taken
      /\ \A d \in Cids \ {c} : transfer'[d] = transfer[d]
  BY <1>4, <1>5 DEF TransferInv, TransferRows, States, Committed
<1>7. AssetsOK' /\ division' \in [Assets -> Divisions]
  BY <1>1 DEF Commit, Move, TransferInv, AssetsOK, AssetStatuses
<1>8. OneOpen'
  BY <1>3, <1>6 DEF TransferInv, OneOpen, Committed, Cids
<1>9. TransferInv'
  BY <1>6, <1>7, <1>8 DEF TransferInv, Cids, TransferRows, States, Snapshots, Divisions,
                          AssetStatuses
<1>10. \A a \in S : OpenFrom[a] = "closed" /\ OpenFrom'[a] = from
  BY <1>1, <1>2, <1>3, <1>4, <1>6, <1>9, OneIsOpen, OneIsOpenNext DEF OpenIsKnown, Cids
<1>11. OpenFrom' = [a \in Assets |-> IF a \in S THEN from ELSE OpenFrom[a]]
  <2>1. \A a \in Assets \ S : OpenFrom'[a] = OpenFrom[a]
    BY <1>6, <1>9, OthersStayOpen
  <2>2. OpenFrom' = [a \in Assets |-> OpenFrom'[a]]
    BY DEF OpenFrom
  <2> QED BY <1>10, <2>1, <2>2
<1>12. Promise!Give(S, from, to)
  BY <1>1, <1>2, <1>10, <1>11 DEF Promise!Give, Commit, Move
<1> QED BY <1>1, <1>9, <1>12 DEF Kept, Promise!Next

Book == TransferNext \/ (UNCHANGED transferVars /\ AssetsOK')

\* No step of the book keeping disturbs what it keeps
LEMMA TransferStepKeeps == TransferInv /\ [Book]_<<recordVars, transferVars>> => Kept
<1> SUFFICES ASSUME TransferInv, [Book]_<<recordVars, transferVars>> PROVE Kept
  OBVIOUS
<1>1. CASE UNCHANGED <<recordVars, transferVars>>
  <2>1. AssetsOK' /\ UNCHANGED <<division, transfer>>
    BY <1>1 DEF recordVars, assetVars, transferVars, TransferInv, AssetsOK
  <2> QED BY <2>1, RestKeeps
<1>2. CASE UNCHANGED transferVars /\ AssetsOK'
  BY <1>2, RestKeeps DEF transferVars
<1>3. CASE TransferStep
  BY <1>3, ProposeKeeps, ProposalKeeps, CommitKeeps, AckKeeps, RollbackKeeps DEF TransferStep
<1>4. CASE BookStep
  <2>1. ASSUME NEW S \in SUBSET Assets, NEW d \in Divisions, DivisionException(S, d) PROVE Kept
    BY <2>1, ExceptionKeeps
  <2>2. ASSUME NEW S \in SUBSET Assets, NEW kinds \in SUBSET Overridable,
               DivisionUnlock(S) \/ HoldOverrideUndo(S) \/ HoldOverride(S, kinds)
        PROVE  Kept
    <3>1. AssetsOK' /\ UNCHANGED <<division, transfer>>
      BY <2>2 DEF DivisionUnlock, HoldOverrideUndo, HoldOverride, recordVars, assetVars,
                  TransferInv, AssetsOK
    <3> QED BY <3>1, RestKeeps
  <2> QED BY <1>4, <2>1, <2>2 DEF BookStep
<1>5. CASE RmsStep
  <2>1. AssetsOK' /\ UNCHANGED <<division, transfer>>
    BY <1>5 DEF RmsStep, RmsSync, RentalMissingAck, recordVars, assetVars, TransferInv, AssetsOK
  <2> QED BY <2>1, RestKeeps
<1> QED BY <1>1, <1>2, <1>3, <1>4, <1>5 DEF Book, TransferNext

\* Nothing is handed over at the start
LEMMA TransferInitially ==
  AssetsOK /\ TransferInit => TransferInv /\ Promise!Init
<1> SUFFICES ASSUME AssetsOK, TransferInit PROVE TransferInv /\ Promise!Init
  OBVIOUS
<1>1. \A c \in Cids : transfer[c] = NoTransfer /\ ~Committed(c)
  BY DEF TransferInit, NoTransfer, Committed
<1>2. TransferInv
  BY <1>1, NothingNoted DEF TransferInit, TransferInv, OneOpen
<1>3. OpenFrom = [a \in Assets |-> "closed"]
  BY <1>1 DEF OpenFrom, Committed
<1> QED BY <1>2, <1>3 DEF Promise!Init, TransferInit

\* Proposals with a time limit, a recheck and a roll-back give what the plain hand-over promises:
\* the machines of a commit change owner together, none is in two open hand-overs, and a
\* roll-back gives each back to the division its own commit took it from
THEOREM TransfersAreHandovers == TransferSpec => HandoverKept
<1>1. TransferInv /\ [Book]_<<recordVars, transferVars>> => TransferInv'
  BY TransferStepKeeps DEF Kept
<1>2. TransferInv /\ [Book]_<<recordVars, transferVars>> => [Promise!Next]_Promise!vars
  BY TransferStepKeeps DEF Kept
<1> QED BY <1>1, <1>2, TransferInitially, PTL DEF TransferSpec, Book, HandoverKept, Promise!Spec

\* what a step must be that turns a proposal into a commit
LEMMA OnlyCommits ==
  ASSUME TransferInv, [Book]_<<recordVars, transferVars>>, NEW c \in Cids,
         transfer[c].state = "pending", transfer'[c].state = "committed"
  PROVE  Commit(c)
<1>1. transfer' # transfer
  OBVIOUS
<1>2. TransferStep
  BY <1>1 DEF Book, TransferNext, BookStep, RmsStep, DivisionException, DivisionUnlock,
              HoldOverride, HoldOverrideUndo, RmsSync, RentalMissingAck, transferVars
<1>3. ASSUME NEW d \in Cids, NEW S \in SUBSET Assets, NEW to \in Divisions, Propose(d, S, to)
      PROVE  FALSE
  BY <1>3 DEF Propose, TransferInv, TransferRows, NoTransfer
<1>4. ASSUME NEW d \in Cids, Age(d) \/ CommitStopped(d) \/ Ack(d) \/ Reject(d) \/ Rollback(d)
      PROVE  FALSE
  <2>1. CASE Age(d)
    BY <2>1 DEF Age, TransferInv, TransferRows
  <2>2. CASE CommitStopped(d)
    BY <2>2 DEF CommitStopped, TransferInv, TransferRows
  <2>3. CASE Ack(d) \/ Reject(d)
    BY <2>3 DEF Ack, Reject, Settled, TransferInv, TransferRows
  <2>4. CASE Rollback(d)
    BY <2>4 DEF Rollback, TransferInv, TransferRows
  <2> QED BY <1>4, <2>1, <2>2, <2>3, <2>4
<1>5. ASSUME NEW d \in Cids, Commit(d) PROVE d = c
  BY <1>5 DEF Commit, Move, TransferInv, TransferRows
<1> QED BY <1>2, <1>3, <1>4, <1>5 DEF TransferStep

\* What goes to rental is at that moment neither sold nor listed nor with an order, nor in another
\* hand-over, whatever happened since it was proposed (_do_commit inspects again)
THEOREM HandoversAreClear == TransferSpec => HandoverIsClear
<1> DEFINE Clear(c) == \A a \in transfer[c].ok :
              /\ division'[a] # division[a]
              /\ transfer[c].to = "rental" => a \notin listed /\ Holders(a) = {}
              /\ \A d \in Cids \ {c} : transfer[d].state = "committed" => a \notin transfer[d].ok
           Clean == \A c \in Cids :
              transfer[c].state = "pending" /\ transfer'[c].state = "committed" => Clear(c)
<1>1. TransferInv /\ [Book]_<<recordVars, transferVars>> => Clean
  <2> SUFFICES ASSUME TransferInv, [Book]_<<recordVars, transferVars>>, NEW c \in Cids,
                      transfer[c].state = "pending", transfer'[c].state = "committed",
                      NEW a \in transfer[c].ok
               PROVE  /\ division'[a] # division[a]
                      /\ transfer[c].to = "rental" => a \notin listed /\ Holders(a) = {}
                      /\ \A d \in Cids \ {c} :
                           transfer[d].state = "committed" => a \notin transfer[d].ok
    OBVIOUS
  <2>1. Commit(c)
    BY OnlyCommits
  <2>2. a \in Assets /\ Movable(a, transfer[c].to, {c}) /\ Move(c)
    BY <2>1 DEF Commit, TransferInv, TransferRows
  <2>3. division'[a] # division[a]
    BY <2>2 DEF Movable, Move
  <2> QED BY <2>2, <2>3 DEF Movable, Elsewhere, Blocking
<1>2. TransferInv /\ [Book]_<<recordVars, transferVars>> => TransferInv'
  BY TransferStepKeeps DEF Kept
<1>3. TransferInv /\ TransferInv' /\ [Book]_<<recordVars, transferVars>>
        => [Clean]_<<recordVars, transferVars>>
  BY <1>1
<1> QED BY <1>2, <1>3, TransferInitially, PTL DEF TransferSpec, Book, HandoverIsClear
=============================================================================
