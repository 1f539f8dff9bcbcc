------------------------------- MODULE Recall -------------------------------
(***************************************************************************)
(* Collecting machines and following parcels: app/orders/recall.py         *)
(* recall_order, recall_as, mark_recall_received, the tracker              *)
(* (tracker_tick, _run_tracking, _apply_stage) and the collection of the   *)
(* invoices of recalls (sweep_recall_invoices).  Dates, reasons and the    *)
(* text messages are left out.                                             *)
(***************************************************************************)
EXTENDS Courier

\* _mark_returning, whatever the status was
MarkReturning(S) == status' = [a \in Assets |-> IF a \in S THEN "returning" ELSE status[a]]

\* waybills WHERE type='recall' AND status IN ('issued','test','pending')
OpenRecalls == {w \in Wids : waybill[w].type = "recall" /\ waybill[w].status \in OpenStatus}

RecallRow(o, t, S) ==
  [NoWaybill EXCEPT !.type = "recall", !.order = o, !.ticket = t,
                    !.prev = [a \in Assets |-> IF a \in S THEN status[a] ELSE Unlinked]]

\* recall_order: the stage of the order and its marks are not looked at
RecallOrder(o, real) ==
  /\ \A w \in OpenRecalls : waybill[w].order # o
  /\ Reserve(1, real, RecallRow(o, NoTicket, AssetsOf(o)))
  /\ MarkReturning(AssetsOf(o))
  /\ UNCHANGED <<undo, booked, watch, orderVars, listed, provisional, received, before, link,
                 prebuild, tracking, ticket>>

\* recall_as: the row names the ticket, not its order
RecallTicket(t, real) ==
  /\ ticket[t].status # "none"
  /\ \A w \in OpenRecalls : waybill[w].ticket # t
  /\ Reserve(1, real, RecallRow(NoOrder, t, {ticket[t].asset}))
  /\ MarkReturning({ticket[t].asset})
  /\ UNCHANGED <<undo, booked, watch, orderVars, listed, provisional, received, before, link,
                 prebuild, tracking, ticket>>

Collects(w) == waybill[w].type = "recall"
               /\ (waybill[w].order # NoOrder \/ waybill[w].ticket # NoTicket)

RecallCommit(w) ==
  /\ Ready(w)
  /\ Collects(w)
  /\ waybill' = [waybill EXCEPT ![w].status = IF job[w].real THEN "issued" ELSE "test"]
  /\ ticket' = LET t == waybill[w].ticket IN
               IF t = NoTicket THEN ticket ELSE [ticket EXCEPT ![t].status = "collecting"]
  /\ job' = [job EXCEPT ![w] = NoJob]
  /\ UNCHANGED <<undo, booked, watch, orderVars, assetVars, link, prebuild, tracking>>

\* CJ failed: the assets get their status back, the row goes if it is still 'pending'
RecallFail(w) ==
  /\ job[w].failed
  /\ Collects(w)
  /\ status' = Restored(w)
  /\ waybill' = Dropped(w)
  /\ job' = [job EXCEPT ![w] = NoJob]
  /\ UNCHANGED <<undo, booked, watch, orderVars, listed, provisional, received, before, link,
                 prebuild, tracking, ticket>>
-----------------------------------------------------------------------------
(***************************************************************************)
(* A collected machine arrives (recall_arrived)                            *)
(***************************************************************************)
Returnable == {"in_stock", "refurbishing", "repair", "as", "painting", "defective", "ready",
               "scrapped"}

ArriveUntold(w, back) ==                                              \* mutant
  /\ status' = Arrived(w, IF waybill[w].ticket # NoTicket THEN "as" ELSE back)
  /\ link' = IF waybill[w].order = NoOrder THEN link ELSE Unlink(waybill[w].order, RecallOf(w))
  /\ UNCHANGED ticket

\* row w as it now stands arrives: its assets are back, the order of the recall lets them go,
\* a ticket that waits for its machine has it
Arrive(w, back) ==
  LET o  == waybill[w].order
      t  == waybill[w].ticket
      to == IF t # NoTicket THEN "as" ELSE back IN
  /\ status' = Arrived(w, to)
  /\ link' = IF o = NoOrder THEN link ELSE Unlink(o, RecallOf(w))
  /\ ticket' = IF t # NoTicket /\ ticket[t].status \in {"received", "collecting"}
               THEN [ticket EXCEPT ![t].status = "arrived"] ELSE ticket

\* mark_recall_received: somebody takes the machine in, whatever CJ says
MarkReceived(w, back) ==
  /\ waybill[w].type = "recall"
  /\ waybill[w].status \notin {"none", "delivered", "canceled"}
  /\ waybill' = [waybill EXCEPT ![w].status = "delivered", ![w].stage = "91"]
  /\ Arrive(w, back)
  /\ UNCHANGED <<courierVars, orderVars, listed, provisional, received, before, prebuild,
                 tracking>>
-----------------------------------------------------------------------------
(***************************************************************************)
(* What CJ reports (_apply_stage)                                          *)
(***************************************************************************)

\* _auto_ship_confirm: a parcel that moves closes its order, without the guards of the screen
Departed(o, code) ==
  /\ o # NoOrder
  /\ code \in {"moving", "91"}
  /\ ~Cancelled(o) /\ ~Shipped(o)

\* _auto_delivered
Delivered(o, code) == o # NoOrder /\ code = "91" /\ ~Cancelled(o)

\* _auto_as_return_delivered
Closed(t, code) ==
  /\ t # NoTicket /\ code = "91"
  /\ ticket[t].status \notin {"returned", "cancelled"}

\* a parcel of ours has got to stage code
ApplyForward(w, code) ==
  LET o    == waybill[w].order
      t    == waybill[w].ticket
      gone == IF Departed(o, code) THEN AssetsOf(o) ELSE {}
      back == IF Closed(t, code) THEN {ticket[t].asset} ELSE {} IN
  /\ stages' = IF Departed(o, code) THEN [stages EXCEPT ![o] = @ \cup {"shipping"}] ELSE stages
  /\ by' = IF Departed(o, code) THEN [by EXCEPT ![o]["shipping"] = Tracker] ELSE by
  /\ marks' = IF Delivered(o, code)
              THEN [marks EXCEPT ![o] = @ \cup {"delivered", "archived"}] ELSE marks
  /\ ticket' = IF Closed(t, code) THEN [ticket EXCEPT ![t].status = "returned"] ELSE ticket
  /\ status' = [a \in Assets |->
       IF a \in gone THEN "shipped" ELSE HandedOver(back)[a]]
  /\ listed' = listed \ gone
  /\ UNCHANGED <<unpicked, provisional, received, before, link, prebuild, tracking>>

\* a pickup has got to stage code; was: the status of the row the caller holds
ApplyRecall(w, code, was) ==
  /\ IF code = "91" /\ was # "delivered" THEN Arrive(w, "refurbishing")
                                         ELSE UNCHANGED <<status, link, ticket>>
  /\ UNCHANGED <<orderVars, listed, provisional, received, before, prebuild, tracking>>

\* _apply_stage with a row whose status was read as was: that status is written back
Apply(w, code, was, invoiced) ==
  /\ waybill' = [waybill EXCEPT ![w].stage = code, ![w].invoiced = invoiced,
                                ![w].status = IF code = "91" THEN "delivered" ELSE was]
  /\ IF waybill[w].type = "recall" THEN ApplyRecall(w, code, was) ELSE ApplyForward(w, code)

CjOrder    == <<"", "early", "moving", "91">>
Rank(code) == CHOOSE i \in DOMAIN CjOrder : CjOrder[i] = code
\* CJ only reports on a booking it has, and no parcel travels back.  The stage of a pickup may
\* be the word of a person at the door (MarkReceived), whom CJ then contradicts
Reports(w, code) ==
  /\ w \in booked /\ code # ""
  /\ waybill[w].type = "recall" \/ Rank(waybill[w].stage) <= Rank(code)

\* _trackable: the list of one round of the tracker (or of the button [배송 조회])
Trackable == {w \in Wids : /\ waybill[w].status = "issued" /\ waybill[w].invoiced
                           /\ waybill[w].stage # "91"}

StartRound ==
  /\ \A w \in Wids : watch[w] = NotWatched
  /\ Trackable # {}
  /\ watch' = [w \in Wids |-> IF w \in Trackable THEN [NotWatched EXCEPT !.read = waybill[w].stage]
                                                 ELSE NotWatched]
  /\ UNCHANGED <<job, undo, booked, recordVars>>

\* cj2_track, outside the transaction, one row of the list at a time.  No answer, or the stage
\* that was read: the row is done with
TrackAsk(w) ==
  /\ watch[w] # NotWatched
  /\ \A v \in Wids : watch[v].told = ""
  /\ \/ watch' = [watch EXCEPT ![w] = NotWatched]
     \/ \E code \in CjStages : /\ Reports(w, code) /\ code # watch[w].read
                               /\ watch' = [watch EXCEPT ![w].told = code]
  /\ UNCHANGED <<job, undo, booked, recordVars>>

\* _sync_one, a transaction of its own: the row applied is the one read when the round began
TrackWrite(w) ==
  /\ watch[w].told # ""
  /\ Apply(w, watch[w].told, "issued", TRUE)
  /\ watch' = [watch EXCEPT ![w] = NotWatched]
  /\ UNCHANGED <<job, undo, booked>>

SweepableAny(w) == waybill[w].status # "none"                          \* mutant
Sweepable(w)    == waybill[w].status \notin {"none", "canceled"}

\* sweep_recall_invoices: CJ tells the invoice, or the stage, or both of a booking; the row is
\* read again before it is written, so a cancelled one stays cancelled
Sweep(w) ==
  /\ Sweepable(w)
  /\ w \in booked
  /\ \E invoiced \in {waybill[w].invoiced, TRUE} :
       \/ /\ waybill' = [waybill EXCEPT ![w].invoiced = invoiced]
          /\ UNCHANGED <<orderVars, assetVars, link, prebuild, tracking, ticket>>
       \/ \E code \in CjStages :
            /\ Reports(w, code) /\ code # waybill[w].stage
            /\ Apply(w, code, waybill[w].status, invoiced)
  /\ UNCHANGED courierVars
-----------------------------------------------------------------------------
RecallNext ==
  \/ \E real \in BOOLEAN : \/ \E o \in Orders : RecallOrder(o, real)
                           \/ \E t \in Tickets : RecallTicket(t, real)
  \/ \E w \in Wids : RecallCommit(w) \/ RecallFail(w)
  \/ \E w \in Wids, back \in Returnable : MarkReceived(w, back)

TrackNext == StartRound \/ \E w \in Wids : TrackAsk(w) \/ TrackWrite(w) \/ Sweep(w)
=============================================================================
