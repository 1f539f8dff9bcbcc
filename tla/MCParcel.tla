------------------------------ MODULE MCParcel ------------------------------
(***************************************************************************)
(* Issuing and cancelling the waybills of one order, among people only, or *)
(* with the tracker, crashes and the rest of the order's life.             *)
(***************************************************************************)
EXTENDS Ows, MCStart

CONSTANTS o1, a1, u1,
          Waits     \* nobody overtakes the tracker between CJ's answer and its write

VARIABLE calm   \* people only; chosen in the initial state

\* bound: the order is produced and inspected and its machine reserved
ParcelInit ==
  /\ StartAt(Inspected, u1, "in_stock", "reserved")
  /\ received = Assets
  /\ NoTickets
  /\ CourierInit
  /\ calm \in BOOLEAN

\* the screen says to wait for the parcel company before a 'pending' waybill is cancelled
CancelWaybill(w) ==
  \/ w \notin InFlight /\ CancelRead(w)
  \/ \E forceLocal \in {FALSE, calm} : CancelAsk(w, forceLocal)
  \/ CancelWrite(w)

OrderMoves ==
  /\ \E o \in Orders : \/ \E force \in BOOLEAN : Cancel(o, force)
                       \/ RestoreCancel(o)
  /\ UNCHANGED courierVars

People ==
  \/ \E o \in Orders, n \in 1..2, real \in BOOLEAN : IssueReserve(o, n, real)
  \/ \E type \in {"forward", "recall"} : ManualNote(type)
  \/ \E w \in Wids : Register(w) \/ IssueCommit(w) \/ IssueCleanUp(w) \/ CancelWaybill(w)
  \/ OrderMoves

\* a parcel gets nowhere before the request that registers it has ended
Others ==
  \/ Crash
  \/ StartRound
  \/ \E w \in Wids : TrackAsk(w) \/ TrackWrite(w) \/ (w \notin InFlight /\ Sweep(w))
  \/ /\ \E o \in Orders : ShippingOn(o, u1) \/ ShippingOff(o) \/ Unarchive(o)
     /\ UNCHANGED courierVars

\* bound: the last number is given out among people only
ParcelNext ==
  /\ UNCHANGED calm
  /\ People \/ (~calm /\ Others)
  /\ Waits => Undisturbed
  /\ ~calm => waybill'[MaxWid] = NoWaybill

\* every call to CJ has a time limit, so each running request comes to its next transaction
ParcelSpec ==
  /\ ParcelInit /\ [][ParcelNext]_<<vars, calm>>
  /\ \A w \in Wids :
       WF_<<vars, calm>>((Register(w) \/ IssueCommit(w) \/ IssueCleanUp(w)) /\ UNCHANGED calm)
-----------------------------------------------------------------------------
\* Where the process does not stop, every request for a waybill ends and leaves no row
\* 'pending': a row left behind would refuse every later waybill of the order (issue_waybill)
CalmRequestsEnd == calm => RequestsEnd
=============================================================================
