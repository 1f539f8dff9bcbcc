------------------------------ MODULE MCStart -------------------------------
(***************************************************************************)
(* Where the bounded runs begin: every order has passed the stages done,   *)
(* signed by u, and links every machine, which was in status prev before   *)
(* and is in status st now.                                                *)
(***************************************************************************)
EXTENDS OwsState

StartAt(done, u, prev, st) ==
  /\ stages = [o \in Orders |-> done]
  /\ marks = [o \in Orders |-> {}]
  /\ by = [o \in Orders |-> [s \in Stages |-> IF s \in done THEN u ELSE NoOne]]
  /\ unpicked = {}
  /\ link = [o \in Orders |-> [a \in Assets |-> prev]]
  /\ status = [a \in Assets |-> st]
  /\ listed = {}
  /\ provisional = {}
  /\ before = [a \in Assets |-> "in_stock"]
  /\ prebuild = [a \in Assets |-> NoPrebuild]
  /\ waybill = [w \in Wids |-> NoWaybill]
  /\ tracking = [o \in Orders |-> NoInvoice]

NoTickets == ticket = [t \in Tickets |-> NoTicketRow]

Inspected == {"production", "inspection"}
Gone      == Inspected \cup {"shipping"}
=============================================================================
