------------------------------ MODULE MCRecall ------------------------------
(***************************************************************************)
(* One machine and the pickups and parcels that concern it, in three       *)
(* scenes: a shipped order and a repair ticket of the machine are both     *)
(* collected, by people who do not wait for a request to end, or by people *)
(* who do, with the tracker; and the repair ticket's whole life.           *)
(***************************************************************************)
EXTENDS Ows, MCStart

CONSTANTS o1, a1, t1, u1

VARIABLE scene   \* "hasty", "waiting" or "ticket"; chosen in the initial state

\* bound: the order went out, and its customer has sent in a ticket for the machine; or the
\* machine was sold long ago and its order is no longer looked at
RecallInit ==
  /\ received = Assets
  /\ CourierInit
  /\ \/ /\ scene \in {"hasty", "waiting"}
        /\ StartAt(Gone, u1, "in_stock", "shipped")
        /\ ticket = [t \in Tickets |-> [NoTicketRow EXCEPT !.status = "received", !.asset = a1]]
     \/ /\ scene = "ticket"
        /\ StartAt({}, u1, Unlinked, "shipped")
        /\ NoTickets

\* a pickup is cancelled or taken in after its request has ended, except by the hasty
Ended(w) == scene = "hasty" \/ w \notin InFlight

Pickups ==
  \/ \E t \in Tickets, real \in BOOLEAN : RecallTicket(t, real)
  \/ \E w \in Wids : Register(w) \/ RecallCommit(w) \/ RecallFail(w)
  \/ \E w \in Wids : (Ended(w) /\ CancelRead(w)) \/ CancelAsk(w, FALSE) \/ CancelWrite(w)
  \/ \E w \in Wids : Ended(w) /\ MarkReceived(w, "refurbishing")

OrderPickups == \E o \in Orders, real \in BOOLEAN : RecallOrder(o, real)

Desks ==
  /\ UNCHANGED courierVars
  /\ \/ \E o \in Orders : Cancel(o, TRUE)
     \/ \E a \in Assets : Restock(a)

\* the tracker's rounds beside the people
Follow ==
  \/ StartRound
  \/ \E w \in Wids : TrackAsk(w) \/ TrackWrite(w) \/ (w \notin InFlight /\ Sweep(w))

\* and the ticket's machine sent back to its customer
Returns ==
  \/ \E t \in Tickets, real \in BOOLEAN : ReturnReserve(t, real)
  \/ \E w \in Wids : IssueCommit(w) \/ IssueCleanUp(w)

\* what the repair desk, the shelf and the parcels of nobody's add
TicketDesk ==
  \/ /\ UNCHANGED courierVars
     /\ TicketNext \/ \E a \in Assets : Restock(a)
  \/ \E type \in {"forward", "recall"}, real \in BOOLEAN : ManualReserve(type, real)

\* bound: one waybill in the ticket's scene
PickupNext ==
  /\ UNCHANGED scene
  /\ \/ Pickups
     \/ scene \in {"hasty", "waiting"} /\ (OrderPickups \/ Crash)
     \/ scene = "hasty" /\ Desks
     \/ scene \in {"waiting", "ticket"} /\ (Follow \/ Returns)
     \/ scene = "ticket" /\ TicketDesk
  /\ scene = "ticket" => waybill'[MaxWid] = NoWaybill
  /\ Undisturbed

RecallSpec == RecallInit /\ [][PickupNext]_<<vars, scene>>
-----------------------------------------------------------------------------
\* Where people wait for a pickup's request, a ticket that is collecting has a pickup that will
\* still report (_auto_recall_arrived and the sweep): else it never moves by itself again
CollectingIsAwaitedInTurn == scene = "waiting" => CollectingIsAwaited
=============================================================================
