------------------------------- MODULE AsDesk -------------------------------
(***************************************************************************)
(* Repair tickets: app/asvc/__init__.py create_ticket, update_ticket,      *)
(* set_payment and delete_ticket.  Customer texts, amounts, repair items   *)
(* and documents are left out; a ticket's number is never used again.      *)
(***************************************************************************)
EXTENDS OwsState

TicketOnly ==
  UNCHANGED <<orderVars, link, prebuild, waybill, tracking, listed, provisional, received, before>>

\* a customer who brings the machine is served at once: 'arrived'
CreateTicket(t, a, intake, charge) ==
  /\ ticket[t].status = "none"
  /\ ticket' = [ticket EXCEPT ![t] =
       [status |-> IF intake = "visit" THEN "arrived" ELSE "received", asset |-> a,
        intake |-> intake, charge |-> charge, paid |-> FALSE]]
  /\ UNCHANGED status
  /\ TicketOnly

Exists(t) == ticket[t].status # "none"

Absent == "absent"

\* the request does not name a status: before a pickup is booked it follows the intake
Followed(t, intake) ==
  LET now    == ticket[t].status
      booked == \E w \in Wids : /\ waybill[w].ticket = t /\ waybill[w].type = "recall"
                                /\ waybill[w].status \notin {"none", "canceled"} IN
  IF intake = ticket[t].intake THEN now
  ELSE IF intake = "visit" THEN IF now = "received" THEN "arrived" ELSE now
  ELSE IF now = "arrived" /\ ~booked THEN "received" ELSE now

\* update_ticket: chargeTo, intake, assetNo and status of one request, written in this order;
\* the payment gate looks at the row as it was before the request
PatchTicket(t, charge, intake, a, s) ==
  LET closes == s = "returned" /\ ticket[t].status # "returned" IN
  /\ Exists(t)
  /\ closes => ticket[t].charge = "company" \/ ticket[t].paid
  /\ ticket' = [ticket EXCEPT ![t].charge = charge, ![t].intake = intake, ![t].asset = a,
                              ![t].status = IF s = Absent THEN Followed(t, intake) ELSE s]
  /\ status' = IF closes THEN HandedOver({a}) ELSE status
  /\ TicketOnly

SetPayment(t, paid) ==
  /\ Exists(t)
  /\ ticket' = [ticket EXCEPT ![t].paid = paid]
  /\ UNCHANGED status
  /\ TicketOnly

\* delete_ticket: cancelled, never removed
DeleteTicket(t) ==
  /\ ticket[t].status \in {"received", "arrived"}
  /\ \A w \in Wids : waybill[w].ticket = t => waybill[w].status \in {"none", "canceled"}
  /\ ~ticket[t].paid
  /\ ticket' = [ticket EXCEPT ![t].status = "cancelled"]
  /\ UNCHANGED status
  /\ TicketOnly

TicketNext ==
  \E t \in Tickets :
    \/ \E a \in Assets \cup {NoAsset}, charge \in {"company", "customer"},
          intake \in {"parcel", "visit"} :
         \/ CreateTicket(t, a, intake, charge)
         \/ \E s \in (TicketStatuses \ {"none"}) \cup {Absent} :
              PatchTicket(t, charge, intake, a, s)
    \/ \E paid \in BOOLEAN : SetPayment(t, paid)
    \/ DeleteTicket(t)
=============================================================================
