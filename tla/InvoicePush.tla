---------------------------- MODULE InvoicePush -----------------------------
(***************************************************************************)
(* app/malls/invoice_push.py: the invoice number of one order is told to   *)
(* its mall by the request that issued it, by the shipping check, by hand, *)
(* and by a sweeper every ten minutes.  The mall is called between two     *)
(* transactions.  Reasons and mall formats are left out.                   *)
(***************************************************************************)
EXTENDS Naturals, FiniteSets

CONSTANTS
  Pushers,      \* requests that push: issuing, shipping check, by hand
  Sweeper,      \* the daemon thread
  MaxInvoices,  \* bound: numbers issued for the order; 0 is no number
  TestInvoices, \* the numbers '999...' of test issues
  MaxTries,     \* tries of the sweeper for one number
  MaxStops      \* bound: stops of the process

ASSUME PushBounds ==
  /\ MaxInvoices \in Nat /\ MaxTries \in Nat /\ MaxStops \in Nat
  /\ TestInvoices \subseteq 1..MaxInvoices /\ Sweeper \notin Pushers

VARIABLES
  invoice,   \* orders.tracking_no
  voided,    \* orders.cancelled_at is set
  sentAt,    \* orders.mall_sent_at is set
  recent,    \* numbers issued less than 48 hours ago and not cancelled (waybills)
  tries,     \* _tries, in memory
  push,      \* what each thread is doing
  told,      \* history: the numbers the mall took in
  atOnce,    \* push_invoice and push_on_issue of the mall's settings
  stops,
  issued     \* numbers given to the order so far

pushVars == <<invoice, voided, sentAt, recent, tries, push, told, atOnce, stops, issued>>

Threads == Pushers \cup {Sweeper}
Invoices == 1..MaxInvoices
AtRest == [at |-> "idle", key |-> 0, n |-> 0, ok |-> FALSE]

PushesOK ==
  /\ invoice \in 0..MaxInvoices /\ recent \subseteq Invoices /\ told \subseteq Invoices
  /\ {voided, sentAt, atOnce} \subseteq BOOLEAN
  /\ tries \in [Invoices -> 0..MaxTries]
  /\ \A t \in Threads : /\ push[t].at \in {"idle", "issued", "chosen", "calling", "answered"}
                        /\ push[t].n \in 0..MaxInvoices
  /\ stops \in 0..MaxStops /\ issued \in 0..MaxInvoices

Genuine(n) == n # 0 /\ n \notin TestInvoices

\* _issue_target
Target == Genuine(invoice) /\ ~sentAt /\ ~voided /\ atOnce
-----------------------------------------------------------------------------
\* the waybill of the order is issued; the request goes on to push_after_issue
IssueInvoice(p) ==
  LET n == issued + 1 IN
  /\ push[p] = AtRest /\ invoice = 0 /\ issued < MaxInvoices
  /\ invoice' = n /\ issued' = n
  /\ recent' = IF Genuine(n) THEN recent \cup {n} ELSE recent
  /\ push' = [push EXCEPT ![p].at = "issued"]
  /\ UNCHANGED <<voided, sentAt, tries, told, atOnce, stops>>

\* push_after_issue
AfterIssue(p) ==
  /\ push[p].at = "issued"
  /\ push' = [push EXCEPT ![p].at = IF Target THEN "chosen" ELSE "idle"]
  /\ UNCHANGED <<invoice, voided, sentAt, recent, tries, told, atOnce, stops, issued>>

\* the shipping check, [send again]: whatever _issue_target says
ByHand(p) ==
  /\ push[p] = AtRest
  /\ push' = [push EXCEPT ![p].at = "chosen"]
  /\ UNCHANGED <<invoice, voided, sentAt, recent, tries, told, atOnce, stops, issued>>

SweepOnce ==                                                           \* mutant
  /\ push[Sweeper] = AtRest
  /\ invoice \in recent /\ Target /\ tries[invoice] = 0
  /\ push' = [push EXCEPT ![Sweeper].at = "chosen", ![Sweeper].key = invoice]
  /\ UNCHANGED <<invoice, voided, sentAt, recent, tries, told, atOnce, stops, issued>>
SweepForEver ==                                                        \* mutant
  /\ push[Sweeper] = AtRest
  /\ invoice \in recent /\ Target
  /\ push' = [push EXCEPT ![Sweeper].at = "chosen", ![Sweeper].key = invoice]
  /\ UNCHANGED <<invoice, voided, sentAt, recent, tries, told, atOnce, stops, issued>>
\* sweep_pending: a recent number the mall should have by now
Sweep ==
  /\ push[Sweeper] = AtRest
  /\ invoice \in recent /\ Target /\ tries[invoice] < MaxTries
  /\ push' = [push EXCEPT ![Sweeper].at = "chosen", ![Sweeper].key = invoice]
  /\ UNCHANGED <<invoice, voided, sentAt, recent, tries, told, atOnce, stops, issued>>

\* the sweeper counts its tries by the number it chose, not by the one it then read
Counted(t, ok) ==
  tries' = IF t # Sweeper THEN tries
           ELSE [tries EXCEPT ![push[t].key] = IF ok THEN 0 ELSE @ + 1]

\* push_for_order reads the order
ReadOrder(t) ==
  /\ push[t].at = "chosen"
  /\ IF sentAt THEN /\ push' = [push EXCEPT ![t] = AtRest] /\ Counted(t, TRUE)
     ELSE /\ push' = [push EXCEPT ![t].at = "calling", ![t].n = invoice] /\ UNCHANGED tries
  /\ UNCHANGED <<invoice, voided, sentAt, recent, told, atOnce, stops, issued>>

\* push_one: the mall takes the number in or not, and its answer may be lost
CallMall(t, taken, heard) ==
  /\ push[t].at = "calling"
  /\ taken => Genuine(push[t].n)
  /\ told' = IF taken THEN told \cup {push[t].n} ELSE told
  /\ push' = [push EXCEPT ![t].at = "answered", ![t].ok = taken /\ heard]
  /\ UNCHANGED <<invoice, voided, sentAt, recent, tries, atOnce, stops, issued>>

Recorded(t) == sentAt' = (sentAt \/ push[t].ok)

\* the result is written to the order, whatever number it has by now
Record(t) ==
  /\ push[t].at = "answered"
  /\ Recorded(t)
  /\ Counted(t, push[t].ok)
  /\ push' = [push EXCEPT ![t] = AtRest]
  /\ UNCHANGED <<invoice, voided, recent, told, atOnce, stops, issued>>
-----------------------------------------------------------------------------
\* cancel_waybill: the order loses this number; mall_sent_at stays
CancelInvoice ==
  /\ invoice # 0
  /\ invoice' = 0 /\ recent' = recent \ {invoice}
  /\ UNCHANGED <<voided, sentAt, tries, push, told, atOnce, stops, issued>>

CancelOrder ==
  /\ ~voided /\ voided' = TRUE
  /\ UNCHANGED <<invoice, sentAt, recent, tries, push, told, atOnce, stops, issued>>

\* two days have passed: the sweeper leaves the number to people
Expire(n) ==
  /\ n \in recent /\ recent' = recent \ {n}
  /\ UNCHANGED <<invoice, voided, sentAt, tries, push, told, atOnce, stops, issued>>

Stop ==
  /\ stops < MaxStops /\ stops' = stops + 1
  /\ push' = [t \in Threads |-> AtRest]
  /\ tries' = [n \in Invoices |-> 0]
  /\ UNCHANGED <<invoice, voided, sentAt, recent, told, atOnce, issued>>

Calls(t) == ReadOrder(t) \/ Record(t) \/ \E taken, heard \in BOOLEAN : CallMall(t, taken, heard)

PushNext ==
  \/ Sweep \/ Stop \/ CancelInvoice \/ CancelOrder
  \/ \E n \in Invoices : Expire(n)
  \/ \E t \in Threads : Calls(t)
  \/ \E p \in Pushers : IssueInvoice(p) \/ AfterIssue(p) \/ ByHand(p)

PushInit ==
  /\ invoice = 0 /\ issued = 0 /\ recent = {} /\ told = {} /\ stops = 0
  /\ voided = FALSE /\ sentAt = FALSE /\ atOnce \in BOOLEAN
  /\ tries = [n \in Invoices |-> 0]
  /\ push = [t \in Threads |-> AtRest]
-----------------------------------------------------------------------------
\* When a number was issued and the mall wants it at once, the mall hears of the order and the
\* order is noted as told, even when the issuing request died: unless the number is cancelled,
\* two days pass, or the sweeper tried MaxTries times (sweep_pending)
IssuedIsTold ==
  \A n \in Invoices :
    (Genuine(n) /\ invoice = n /\ n \in recent /\ Target)
      ~> ((sentAt /\ told # {}) \/ invoice # n \/ n \notin recent \/ voided \/ tries[n] >= MaxTries)
=============================================================================
