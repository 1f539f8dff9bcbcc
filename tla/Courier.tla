------------------------------ MODULE Courier -------------------------------
(***************************************************************************)
(* Requests that talk to the parcel company (CJ).  No request may hold the *)
(* write lock while it waits for CJ, so each is split: a transaction that  *)
(* checks and writes 'pending' rows, the calls to CJ, a transaction that   *)
(* writes the result.  Other requests run in between, and the process may  *)
(* stop between any two of the steps.                                      *)
(***************************************************************************)
EXTENDS OwsState, FiniteSetsExt

VARIABLES
  job,      \* issuing requests in flight, by the first row they reserved
  undo,     \* cancelling requests in flight, by row: the snapshot they read
  booked,   \* rows whose booking is alive at CJ (CJ's own record)
  watch     \* rows of the tracker's round: the stage it read, the stage CJ has told since

courierVars == <<job, undo, booked, watch>>

NoJob == [rows |-> {}, sent |-> {}, real |-> FALSE, failed |-> FALSE]
Jobs  == [rows : SUBSET Wids, sent : SUBSET Wids, real : BOOLEAN, failed : BOOLEAN]

\* the columns of its snapshot a cancelling request goes by; ask: CJ has still to be told
NoUndo == [active |-> FALSE, ask |-> FALSE, type |-> "forward", order |-> NoOrder,
           ticket |-> NoTicket, lead |-> 0, invoiced |-> FALSE]
Undos  == [active : BOOLEAN, ask : BOOLEAN, type : {"forward", "recall"},
           order : Orders \cup {NoOrder}, ticket : Tickets \cup {NoTicket}, lead : 0..MaxWid,
           invoiced : BOOLEAN]
Snapshot(w) ==
  LET row == waybill[w] IN
  [active |-> TRUE, ask |-> (row.status = "issued"), type |-> row.type, order |-> row.order,
   ticket |-> row.ticket, lead |-> row.lead, invoiced |-> row.invoiced]

Unwatched  == "unwatched"
\* told is "" until CJ has answered with news
NotWatched == [read |-> Unwatched, told |-> ""]
Watches    == [read : CjStages \cup {Unwatched}, told : CjStages]

CourierInit ==
  /\ job = [w \in Wids |-> NoJob]
  /\ undo = [w \in Wids |-> NoUndo]
  /\ booked = {}
  /\ watch = [w \in Wids |-> NotWatched]

\* the rows a running request may still write to
InFlight == UNION {job[w].rows : w \in Wids}

\* _next_wid counts on from the largest wid of the day, so the wid of a deleted row returns
LastWid == LET used == {w \in Wids : waybill[w].status # "none"}
           IN IF used = {} THEN 0 ELSE Max(used)
NextWids(n) == {w \in Wids : LastWid < w /\ w <= LastWid + n}

\* reserve n rows for a request: 'pending', without an invoice when it is a real booking
Reserve(n, real, row) ==
  LET rows == NextWids(n)
      lead == LastWid + 1 IN
  /\ LastWid + n <= MaxWid
  /\ waybill' = [w \in Wids |-> IF w \in rows
                                THEN [row EXCEPT !.status = "pending", !.lead = lead]
                                ELSE waybill[w]]
  /\ job' = [job EXCEPT ![lead] = [rows |-> rows, sent |-> {}, real |-> real, failed |-> FALSE]]

\* cj2_reg_book for the next row of the request: accepted, refused, or accepted and the
\* answer lost
Register(w) ==
  \E r \in job[w].rows \ job[w].sent :
    /\ job[w].real /\ ~job[w].failed
    /\ \A v \in job[w].rows \ job[w].sent : r <= v
    /\ \/ /\ booked' = booked \cup {r}
          /\ job' = [job EXCEPT ![w].sent = @ \cup {r}]
       \/ /\ booked' \in {booked, booked \cup {r}}
          /\ job' = [job EXCEPT ![w].failed = TRUE]
    /\ UNCHANGED <<undo, watch, recordVars>>

\* every row of the request is registered (or it is a test issue and CJ is not asked)
Ready(w) ==
  /\ job[w].rows # {} /\ ~job[w].failed
  /\ job[w].real => job[w].sent = job[w].rows

DroppedUnsent(w) ==                                                   \* mutant
  [v \in Wids |-> IF v \in job[w].rows \ job[w].sent /\ waybill[v].status = "pending"
                  THEN NoWaybill ELSE waybill[v]]
\* the rows of a failed request that are still 'pending' are deleted
Dropped(w) ==
  [v \in Wids |-> IF v \in job[w].rows /\ waybill[v].status = "pending"
                  THEN NoWaybill ELSE waybill[v]]

\* _restore_from_recall: the assets of w still 'returning' get the status they had, or to
RecallOf(w)    == {a \in Assets : waybill[w].prev[a] # Unlinked /\ status[a] = "returning"}
RestoredNot(w) == status                                              \* mutant
Restored(w)    == [a \in Assets |-> IF a \in RecallOf(w) THEN waybill[w].prev[a] ELSE status[a]]
Arrived(w, to) == [a \in Assets |-> IF a \in RecallOf(w) THEN to ELSE status[a]]

\* the process stops: requests and the tracker's list are lost, the rows stay
Crash ==
  /\ job' = [w \in Wids |-> NoJob]
  /\ undo' = [w \in Wids |-> NoUndo]
  /\ watch' = [w \in Wids |-> NotWatched]
  /\ UNCHANGED <<booked, recordVars>>
=============================================================================
