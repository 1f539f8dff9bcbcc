------------------------------ MODULE Waybill -------------------------------
(***************************************************************************)
(* Issuing and cancelling waybills: app/orders/waybill.py issue_waybill,   *)
(* issue_as_return_waybill, issue_manual_waybill and cancel_waybill.       *)
(* Addresses, labels, box counts, the CJ settings (whether a booking is    *)
(* real is a choice of each request) and the text message are left out.    *)
(***************************************************************************)
EXTENDS Courier

ToOrder(o)  == [NoWaybill EXCEPT !.order = o]
ToTicket(t) == [NoWaybill EXCEPT !.ticket = t]

\* issue_waybill, first transaction: n parcels of order o
IssueReserve(o, n, real) ==
  /\ Live(o)
  /\ stages[o] \cap {"inspection", "shipping"} # {}
  /\ ForwardOf(o, OpenStatus) = {}
  /\ AssetsOf(o) # {} \/ o \in Reviews
  /\ AssetsOf(o) \cap provisional = {}
  /\ o \notin unpicked
  /\ Reserve(n, real, [ToOrder(o) EXCEPT !.invoiced = ~real])
  /\ UNCHANGED <<undo, booked, watch, orderVars, assetVars, link, prebuild, tracking, ticket>>

\* a ticket whose customer pays and has not (payment_pending)
Unpaid(t) == ticket[t].charge = "customer" /\ ~ticket[t].paid

\* waybills WHERE as_ticket_id=t AND type=type AND status IN (...)
OfTicket(t, type) ==
  {w \in Wids : waybill[w].ticket = t /\ waybill[w].type = type /\ waybill[w].status \in OpenStatus}

\* issue_as_return_waybill, first transaction
ReturnReserve(t, real) ==
  /\ ticket[t].status \notin {"none", "returned", "cancelled"}
  /\ ~Unpaid(t)
  /\ OfTicket(t, "forward") = {}
  /\ Reserve(1, real, [ToTicket(t) EXCEPT !.invoiced = ~real])
  /\ UNCHANGED <<undo, booked, watch, orderVars, assetVars, link, prebuild, tracking, ticket>>

\* issue_manual_waybill, first transaction: a parcel or a pickup of no order and no ticket.
\* A reservation is only noted: CJ is not asked, the request ends
ManualReserve(type, real) ==
  /\ Reserve(1, real, [NoWaybill EXCEPT !.type = type, !.invoiced = ~real])
  /\ UNCHANGED <<undo, booked, watch, orderVars, assetVars, link, prebuild, tracking, ticket>>

ManualNote(type) ==
  /\ LastWid < MaxWid
  /\ waybill' = [waybill EXCEPT ![LastWid + 1] =
       [NoWaybill EXCEPT !.status = "reserved", !.type = type, !.lead = LastWid + 1]]
  /\ UNCHANGED <<courierVars, orderVars, assetVars, link, prebuild, tracking, ticket>>

\* a row no order and no ticket asked for
Manually(w) == waybill[w].order = NoOrder /\ waybill[w].ticket = NoTicket
Outgoing(w) == waybill[w].type = "forward" \/ Manually(w)

\* last transaction: the rows get their result whatever became of them meanwhile.  A manual
\* waybill is 'issued' even when CJ was not asked
IssueCommit(w) ==
  /\ Ready(w)
  /\ Outgoing(w)
  /\ LET result == IF job[w].real \/ Manually(w) THEN "issued" ELSE "test"
         number(v) == IF v.type = "forward" THEN TRUE ELSE ~job[w].real
         o      == waybill[w].order
         t      == waybill[w].ticket IN
     /\ waybill' = [v \in Wids |-> IF v \in job[w].rows
                                   THEN [waybill[v] EXCEPT !.status = result,
                                                           !.invoiced = number(waybill[v])]
                                   ELSE waybill[v]]
     /\ tracking' = IF o = NoOrder THEN tracking ELSE [tracking EXCEPT ![o] = w]
     /\ ticket' = IF t = NoTicket THEN ticket ELSE [ticket EXCEPT ![t].status = "done"]
  /\ job' = [job EXCEPT ![w] = NoJob]
  /\ UNCHANGED <<undo, booked, watch, orderVars, assetVars, link, prebuild>>

\* CJ failed: the parcels already registered are cancelled as far as CJ answers, the rows
\* still 'pending' are deleted
IssueCleanUp(w) ==
  /\ job[w].failed
  /\ Outgoing(w)
  /\ \E kept \in SUBSET job[w].sent : booked' = booked \ (job[w].sent \ kept)
  /\ waybill' = Dropped(w)
  /\ job' = [job EXCEPT ![w] = NoJob]
  /\ UNCHANGED <<undo, watch, orderVars, assetVars, link, prebuild, tracking, ticket>>
-----------------------------------------------------------------------------
(***************************************************************************)
(* cancel_waybill                                                          *)
(***************************************************************************)

\* the snapshot is read, nothing is locked; at most one cancel per row is in flight (bound)
CancelRead(w) ==
  /\ waybill[w].status \notin {"none", "canceled", "delivered"}
  /\ ~undo[w].active
  /\ undo' = [undo EXCEPT ![w] = Snapshot(w)]
  /\ UNCHANGED <<job, booked, watch, recordVars>>

\* CJ cancels its booking, or refuses (collected, or no longer known), and its answer may be
\* lost: without one the request ends, a refusal ends it unless forceLocal
CancelAsk(w, forceLocal) ==
  /\ undo[w].ask
  /\ booked' \in {booked, booked \ {w}}
  /\ \/ undo' = [undo EXCEPT ![w] = NoUndo]
     \/ /\ booked' # booked \/ forceLocal
        /\ undo' = [undo EXCEPT ![w].ask = FALSE]
  /\ UNCHANGED <<job, watch, recordVars>>

RenumberedNot(w) == tracking                                          \* mutant
\* the order's number goes with the parcel that had it
Renumbered(w) ==
  LET seen == undo[w] IN
  IF /\ seen.type = "forward" /\ seen.order # NoOrder
     /\ seen.invoiced /\ seen.lead = w /\ tracking[seen.order] = w
  THEN [tracking EXCEPT ![seen.order] = NoInvoice] ELSE tracking

\* the write goes by the snapshot: neither its status nor its invoice is read again.  When a
\* recall's row is gone the restore fails and the transaction is rolled back
CancelWrite(w) ==
  LET seen   == undo[w]
      t      == seen.ticket
      recall == seen.type = "recall" /\ waybill[w].status # "none" IN
  /\ undo[w].active /\ ~undo[w].ask
  /\ waybill' = [waybill EXCEPT ![w].status = IF @ = "none" THEN @ ELSE "canceled"]
  /\ status' = IF recall THEN Restored(w) ELSE status
  /\ ticket' = IF recall /\ t # NoTicket /\ ticket[t].status = "collecting"
               THEN [ticket EXCEPT ![t].status = "received"] ELSE ticket
  /\ tracking' = Renumbered(w)
  /\ undo' = [undo EXCEPT ![w] = NoUndo]
  /\ UNCHANGED <<job, booked, watch, orderVars, listed, provisional, received, before, link,
                 prebuild>>
-----------------------------------------------------------------------------
IssueNext ==
  \/ \E real \in BOOLEAN :
       \/ \E o \in Orders, n \in 1..2 : IssueReserve(o, n, real)
       \/ \E t \in Tickets : ReturnReserve(t, real)
       \/ \E type \in {"forward", "recall"} : ManualReserve(type, real)
  \/ \E type \in {"forward", "recall"} : ManualNote(type)
  \/ \E w \in Wids : Register(w) \/ IssueCommit(w) \/ IssueCleanUp(w)

CancelNext ==
  \E w \in Wids : \/ CancelRead(w)
                  \/ \E forceLocal \in BOOLEAN : CancelAsk(w, forceLocal)
                  \/ CancelWrite(w)
=============================================================================
