-------------------------------- MODULE Ows ---------------------------------
(***************************************************************************)
(* The order desk, the parcel company and the repair desk together.        *)
(***************************************************************************)
EXTENDS Desk, Waybill, Recall, AsDesk

vars == <<recordVars, courierVars>>

OwsInit == Init /\ CourierInit

OwsNext ==
  \/ (Next \/ TicketNext) /\ UNCHANGED courierVars
  \/ IssueNext \/ CancelNext \/ RecallNext \/ TrackNext
  \/ Crash

OwsSpec == OwsInit /\ [][OwsNext]_vars

\* What CJ has told the tracker of a row is written before anybody else writes the row, or has
\* CJ let go of its parcel
Undisturbed ==
  \A w \in Wids : watch'[w].told # "" => waybill'[w] = waybill[w] /\ w \in booked'

\* Requests in turn: nobody cancels the row of a running request or takes its machine in, CJ
\* has no news of it, a parcel CJ still has is not cancelled by force, and the tracker is not
\* overtaken
Patient ==
  /\ Undisturbed
  /\ \A w \in Wids :
       /\ w \in InFlight => ~undo'[w].active /\ waybill'[w].stage = ""
       /\ undo[w].ask /\ undo'[w].active /\ ~undo'[w].ask => w \notin booked'

PatientSpec == OwsInit /\ [][OwsNext /\ Patient]_vars

\* 'collecting' is a pickup's word: nobody gives a ticket that status by hand
ByPickup ==
  waybill' = waybill =>
    \A t \in Tickets : ticket'[t].status = "collecting" => ticket[t].status = "collecting"

PickupSpec == OwsInit /\ [][OwsNext /\ Patient /\ ByPickup]_vars

CourierOK ==
  /\ job \in [Wids -> Jobs]
  /\ undo \in [Wids -> Undos]
  /\ booked \in SUBSET Wids
  /\ watch \in [Wids -> Watches]

\* Every row of every table is one the schema and the constants of the code allow
TypeOK == RecordsOK /\ CourierOK
-----------------------------------------------------------------------------
(***************************************************************************)
(* What the parcels promise                                                *)
(***************************************************************************)

\* One shipment per order: two open outgoing waybills of an order are parcels of one request
\* (issue_waybill, issue_as_return_waybill: a duplicate is refused while one is open)
OneShipment ==
  \A v, w \in Wids :
    /\ {waybill[v].type, waybill[w].type} = {"forward"}
    /\ {waybill[v].status, waybill[w].status} \subseteq OpenStatus
    /\ \/ waybill[v].order = waybill[w].order /\ waybill[v].order # NoOrder
       \/ waybill[v].ticket = waybill[w].ticket /\ waybill[v].ticket # NoTicket
    => waybill[v].lead = waybill[w].lead

\* The tracking number the order shows is that of a parcel which has not been cancelled
TrackingIsAlive ==
  \A o \in Orders : tracking[o] # NoInvoice =>
    /\ waybill[tracking[o]].order = o
    /\ waybill[tracking[o]].status \in {"issued", "test", "delivered"}

\* A machine 'returning' waits for a pickup that is open and knows the status to give back
ReturningIsAwaited ==
  \A a \in Assets : status[a] = "returning" =>
    \E w \in Wids : /\ waybill[w].type = "recall" /\ waybill[w].status \in OpenStatus
                    /\ waybill[w].prev[a] \notin {Unlinked, "returning"}

\* A ticket 'collecting' has a pickup that is open: when the pickup is cancelled or arrives,
\* by hand or by CJ, the ticket moves on (recall_arrived, cancel_waybill)
CollectingIsAwaited ==
  \A t \in Tickets : ticket[t].status = "collecting" =>
    \E w \in Wids : /\ waybill[w].type = "recall" /\ waybill[w].ticket = t
                    /\ waybill[w].status \in {"issued", "test"}

\* A ticket is closed with its machine out of the house: by hand or by CJ's word, in one
\* transaction (update_ticket, _auto_as_return_delivered).  Otherwise a customer's machine
\* stays in our stock
ReturnedGoesOut ==
  [][\A t \in Tickets, a \in Assets :
       /\ ticket[t].status # "returned" /\ ticket'[t].status = "returned"
       /\ ticket'[t].asset = a
       => status'[a] \in {"shipped", "scrapped"}]_vars

\* Only what was under way before brings a cancelled waybill back to life: the request that
\* reserved it, or what CJ has told the tracker; never the collection of invoices, a pickup
\* taken in or a new request (sweep_recall_invoices, mark_recall_received, _next_wid)
OnlyOldNewsRevives ==
  [][\A w \in Wids :
       /\ waybill[w].status = "canceled" /\ waybill'[w].status # "canceled"
       => w \in InFlight \/ watch[w].told # ""]_vars

\* Every request that reserved rows ends, and leaves none of them 'pending'
RequestsEnd ==
  \A w \in Wids : w \in InFlight ~> w \notin InFlight /\ waybill[w].status # "pending"
-----------------------------------------------------------------------------
(***************************************************************************)
(* What comments of the code say of it, and the runs refute                *)
(***************************************************************************)

\* A waybill somebody cancelled does not come back to life (sweep_recall_invoices, "취소/실패
\* 송장은 되살리지 않는다")
CancelledStaysCancelled ==
  [][\A w \in Wids : waybill[w].status = "canceled" => waybill'[w].status = "canceled"]_vars
=============================================================================
