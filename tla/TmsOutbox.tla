----------------------------- MODULE TmsOutbox ------------------------------
(***************************************************************************)
(* app/purchase/tms_push.py and push_outbox of tms_link.py: what staff     *)
(* spend on a machine is queued and written back to the old system (TMS),  *)
(* whose changes in turn come in as the machine's 'TMS연동' cost           *)
(* (sync_tms_costs of migration.py).  One machine that TMS knows is looked *)
(* at; the gate to TMS answers when it likes, or its answer is lost.       *)
(***************************************************************************)
EXTENDS Naturals, SequencesExt

CONSTANTS
  Senders,      \* the link's tick and [send now]
  MaxAmount,    \* bound of what staff spend
  MaxQueued,    \* bound: rows of the outbox
  MaxAttempts   \* MAX_ATTEMPTS

VARIABLES
  spent,     \* the asset's repair costs that staff entered
  fromTms,   \* its repair cost row of TMS
  outbox,    \* tms_outbox, oldest first
  keyed,     \* tms_shadow names the machine's key in TMS
  locked,    \* assets.tms_lock
  inTms,     \* what TMS has as its repair cost
  sending    \* the rows each sender read and has still to send, the first one first

outboxVars == <<spent, fromTms, outbox, keyed, locked, inTms, sending>>

OpenStatuses == {"queued", "failed", "conflict"}
RowsOf(S) == {i \in DOMAIN outbox : outbox[i].status \in S}
Latest(S) == CHOOSE i \in S : \A j \in S : j <= i

OutboxOK ==
  /\ {spent, fromTms, inTms} \subseteq 0..(2 * MaxAmount)
  /\ \A i \in DOMAIN outbox : outbox[i].status \in OpenStatuses \cup {"applied", "cancelled"}
  /\ {keyed, locked} \subseteq BOOLEAN

\* pushed_amount: what OWS believes to have put into TMS
Pushed == LET done == RowsOf({"applied"}) IN IF done = {} THEN 0 ELSE outbox[Latest(done)].amount

\* queue_asset_cost: the open row takes the latest amount, or is withdrawn
Queued(amount) ==
  LET open == RowsOf(OpenStatuses)
      row  == [amount |-> amount, status |-> "queued", attempts |-> 0]
  IN IF ~keyed \/ locked \/ (amount = Pushed /\ open = {}) THEN outbox
     ELSE IF amount = Pushed THEN [outbox EXCEPT ![Latest(open)].status = "cancelled"]
     ELSE IF open # {} THEN [outbox EXCEPT ![Latest(open)] = row]
     ELSE Append(outbox, row)
-----------------------------------------------------------------------------
\* a repair is entered, changed or deleted, or a ticket is closed with its cost
Spend(amount) ==
  /\ amount # spent
  /\ spent' = amount
  /\ Len(Queued(amount)) <= MaxQueued /\ outbox' = Queued(amount)
  /\ UNCHANGED <<fromTms, keyed, locked, inTms, sending>>

\* _prepare, apply_rows: an import row rewrites the shadow with the columns it fills, and
\* sync_tms_costs takes over what TMS has beyond what was pushed
ImportRow ==
  /\ ~locked
  /\ keyed' = FALSE
  /\ fromTms' = IF inTms > Pushed THEN inTms - Pushed ELSE 0
  /\ UNCHANGED <<spent, outbox, locked, inTms, sending>>

\* push_outbox, push_once: the open rows are read at once
ReadOutbox(t) ==
  /\ sending[t] = <<>>
  /\ sending' = [sending EXCEPT ![t] =
       SelectSeq([i \in DOMAIN outbox |-> [row |-> i, amount |-> outbox[i].amount,
                   go |-> outbox[i].status \in OpenStatuses /\ outbox[i].attempts < MaxAttempts]],
                 LAMBDA s : s.go)]
  /\ sending'[t] # <<>>
  /\ UNCHANGED <<spent, fromTms, outbox, keyed, locked, inTms>>

\* mark: the row gets the result, whatever has become of it since it was read
Marked(i, status) ==
  outbox' = [outbox EXCEPT ![i].status = status, ![i].attempts = @ + 1]

\* the call to the gate and the transaction after it; "refused" tries again without counting
Send(t, answer) ==
  LET s == Head(sending[t]) IN
  /\ sending[t] # <<>>
  /\ sending' = [sending EXCEPT ![t] = Tail(@)]
  /\ \/ answer = "applied"  /\ inTms' = s.amount /\ Marked(s.row, "applied")
     \/ answer = "lost"     /\ inTms' = s.amount /\ Marked(s.row, "failed")
     \/ answer \in {"conflict", "failed"} /\ UNCHANGED inTms /\ Marked(s.row, answer)
     \/ answer = "refused"  /\ UNCHANGED <<inTms, outbox>>
  /\ UNCHANGED <<spent, fromTms, keyed, locked>>

\* tms_outbox_action: any row that is not applied is queued again or given up
RetryRow(i) ==
  /\ outbox[i].status # "applied"
  /\ outbox' = [outbox EXCEPT ![i].status = "queued", ![i].attempts = 0]
  /\ UNCHANGED <<spent, fromTms, keyed, locked, inTms, sending>>

GiveUpRow(i) ==
  /\ outbox[i].status # "applied"
  /\ outbox' = [outbox EXCEPT ![i].status = "cancelled"]
  /\ UNCHANGED <<spent, fromTms, keyed, locked, inTms, sending>>

\* somebody changes the cost in TMS; a number conflict locks the machine
ChangeInTms(amount) ==
  /\ inTms' = amount
  /\ UNCHANGED <<spent, fromTms, outbox, keyed, locked, sending>>

LockMachine ==
  /\ locked' = TRUE
  /\ UNCHANGED <<spent, fromTms, outbox, keyed, inTms, sending>>

OutboxNext ==
  \/ \E amount \in 0..MaxAmount : Spend(amount) \/ ChangeInTms(amount)
  \/ ImportRow \/ LockMachine
  \/ \E t \in Senders :
       \/ ReadOutbox(t)
       \/ \E answer \in {"applied", "lost", "conflict", "failed", "refused"} : Send(t, answer)
  \/ \E i \in DOMAIN outbox : RetryRow(i) \/ GiveUpRow(i)

\* the machine was brought in by an import
OutboxInit ==
  /\ spent = 0 /\ fromTms = 0 /\ outbox = <<>>
  /\ keyed = FALSE /\ locked = FALSE /\ inTms = 0
  /\ sending = [t \in Senders |-> <<>>]

OutboxSpec == OutboxInit /\ [][OutboxNext]_outboxVars
-----------------------------------------------------------------------------
\* What staff spent on a machine of TMS is in TMS already or waits in the queue until somebody
\* gives it up (the head of tms_push.py: a change does not get lost, whether the gate is open
\* or not)
ChangeIsQueued ==
  ~locked /\ spent # Pushed => RowsOf(OpenStatuses \cup {"cancelled"}) # {}
=============================================================================
