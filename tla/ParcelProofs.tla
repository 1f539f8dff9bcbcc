---------------------------- MODULE ParcelProofs ----------------------------
(***************************************************************************)
(* Theorems about the parcels: the order desk, the repair desk and the     *)
(* parcel company together, for any orders, machines, tickets and numbers  *)
(* of waybills.                                                            *)
(***************************************************************************)
EXTENDS Ows, DeskProofs, Induction

\* The last number of the day is one of a row that exists, or 0, and no row is beyond it
LEMMA LastIsLast ==
  ASSUME TypeOK
  PROVE  /\ LastWid \in 0..MaxWid
         /\ \A w \in Wids : waybill[w].status # "none" => w <= LastWid
<1> DEFINE used == {w \in Wids : waybill[w].status # "none"}
<1>1. used \in SUBSET (0..MaxWid) /\ used \subseteq Wids
  BY BoundsAreNumbers DEF Wids
<1>2. CASE used = {}
  BY <1>2, BoundsAreNumbers DEF LastWid
<1>3. CASE used # {}
  <2>1. Max(used) \in used /\ \A m \in used : m <= Max(used)
    BY <1>1, <1>3, BoundsAreNumbers, MaxIsLargest
  <2>2. LastWid = Max(used)
    BY <1>3 DEF LastWid
  <2> QED BY <2>1, <2>2, <1>1
<1> QED BY <1>2, <1>3

\* n rows that are not there yet become those of a request
Reserved(lead, rows, n, real, row) ==
  /\ lead \in rows
  /\ n = 1 => rows = {lead}
  /\ \A w \in rows : waybill[w].status = "none"
  /\ waybill' = [w \in Wids |-> IF w \in rows
                                THEN [row EXCEPT !.status = "pending", !.lead = lead]
                                ELSE waybill[w]]
  /\ job' = [job EXCEPT ![lead] = [rows |-> rows, sent |-> {}, real |-> real, failed |-> FALSE]]

\* A request reserves rows that are not there yet, the first of them its own
LEMMA ReserveRows ==
  ASSUME TypeOK, NEW n \in 1..2, NEW real \in BOOLEAN, NEW row \in WaybillRows,
         Reserve(n, real, row)
  PROVE  \E lead \in Wids, rows \in SUBSET Wids : Reserved(lead, rows, n, real, row)
<1> DEFINE lead == LastWid + 1
           rows == NextWids(n)
<1>1. LastWid \in 0..MaxWid /\ \A w \in Wids : waybill[w].status # "none" => w <= LastWid
  BY LastIsLast
<1>2. LastWid + n <= MaxWid
  BY DEF Reserve
<1>3. lead \in Wids /\ rows \in SUBSET Wids /\ lead \in rows
  BY <1>1, <1>2, BoundsAreNumbers DEF Wids, NextWids
<1>4. n = 1 => rows = {lead}
  BY <1>1, <1>2, BoundsAreNumbers DEF Wids, NextWids
<1>5. \A w \in rows : waybill[w].status = "none"
  BY <1>1, BoundsAreNumbers DEF Wids, NextWids
<1> HIDE DEF lead, rows
<1>6. /\ waybill' = [w \in Wids |-> IF w \in rows
                                    THEN [row EXCEPT !.status = "pending", !.lead = lead]
                                    ELSE waybill[w]]
      /\ job' = [job EXCEPT ![lead] = [rows |-> rows, sent |-> {}, real |-> real,
                                       failed |-> FALSE]]
  BY DEF Reserve, lead, rows
<1> QED BY <1>3, <1>4, <1>5, <1>6 DEF Reserved

\* The rows requests reserve are rows of the table
LEMMA RequestedRows ==
  /\ \A o \in Orders, b \in BOOLEAN : [ToOrder(o) EXCEPT !.invoiced = b] \in WaybillRows
  /\ \A t \in Tickets, b \in BOOLEAN : [ToTicket(t) EXCEPT !.invoiced = b] \in WaybillRows
  /\ \A type \in {"forward", "recall"}, b \in BOOLEAN :
       [NoWaybill EXCEPT !.type = type, !.invoiced = b] \in WaybillRows
<1> USE WaybillTyping DEF WaybillRows
<1>1. \A o \in Orders, b \in BOOLEAN : [ToOrder(o) EXCEPT !.invoiced = b] \in WaybillRows
  BY DEF ToOrder
<1>2. \A t \in Tickets, b \in BOOLEAN : [ToTicket(t) EXCEPT !.invoiced = b] \in WaybillRows
  BY DEF ToTicket
<1>3. \A type \in {"forward", "recall"}, b \in BOOLEAN :
        [NoWaybill EXCEPT !.type = type, !.invoiced = b] \in WaybillRows
  OBVIOUS
<1> QED BY <1>1, <1>2, <1>3

\* So are the rows of the pickups
LEMMA RecallRows ==
  ASSUME RecordsOK, NEW o \in Orders \cup {NoOrder}, NEW t \in Tickets \cup {NoTicket}, NEW S
  PROVE  RecallRow(o, t, S) \in WaybillRows
BY WaybillTyping DEF RecallRow, WaybillRows, RecordsOK, AssetsOK

\* A reservation leaves rows of the tables
LEMMA ReserveTyping ==
  ASSUME TypeOK, NEW n \in 1..2, NEW real \in BOOLEAN, NEW row \in WaybillRows,
         Reserve(n, real, row)
  PROVE  waybill' \in [Wids -> WaybillRows] /\ job' \in [Wids -> Jobs]
<1>1. PICK lead \in Wids, rows \in SUBSET Wids : Reserved(lead, rows, n, real, row)
  BY ReserveRows
<1>2. [row EXCEPT !.status = "pending", !.lead = lead] \in WaybillRows
  <2>1. lead \in 0..MaxWid
    BY BoundsAreNumbers DEF Wids
  <2> QED BY <2>1 DEF WaybillRows, WaybillStatuses
<1>3. [rows |-> rows, sent |-> {}, real |-> real, failed |-> FALSE] \in Jobs
  BY DEF Jobs
<1>4. waybill' \in [Wids -> WaybillRows]
  BY <1>1, <1>2, Zenon DEF Reserved, TypeOK, RecordsOK, ParcelsOK
<1>5. job' \in [Wids -> Jobs]
  BY <1>1, <1>3 DEF Reserved, TypeOK, CourierOK
<1> QED BY <1>4, <1>5

\* What a failed request, a cancelled pickup and one that has come leave are rows and statuses
LEMMA CourierTyping ==
  ASSUME TypeOK, NEW w \in Wids
  PROVE  /\ NoJob \in Jobs /\ NoUndo \in Undos
         /\ Dropped(w) \in [Wids -> WaybillRows]
         /\ \A S : HandedOver(S) \in [Assets -> AssetStatuses]
         /\ Restored(w) \in [Assets -> AssetStatuses]
         /\ \A s \in AssetStatuses : Arrived(w, s) \in [Assets -> AssetStatuses]
<1> USE DEF TypeOK, RecordsOK, AssetsOK, ParcelsOK, CourierOK
<1>1. NoJob \in Jobs /\ NoUndo \in Undos
  BY BoundsAreNumbers DEF NoJob, Jobs, NoUndo, Undos
<1>2. Dropped(w) \in [Wids -> WaybillRows]
  BY WaybillTyping DEF Dropped
<1>3. \A S : HandedOver(S) \in [Assets -> AssetStatuses]
  BY DEF HandedOver, AssetStatuses
<1>4. Restored(w) \in [Assets -> AssetStatuses]
  <2>1. \A a \in Assets : a \in RecallOf(w) => waybill[w].prev[a] \in AssetStatuses
    BY DEF RecallOf, WaybillRows
  <2> QED BY <2>1 DEF Restored
<1>5. \A s \in AssetStatuses : Arrived(w, s) \in [Assets -> AssetStatuses]
  <2> SUFFICES ASSUME NEW s \in AssetStatuses PROVE Arrived(w, s) \in [Assets -> AssetStatuses]
    OBVIOUS
  <2> QED BY Zenon DEF Arrived
<1> QED BY <1>1, <1>2, <1>3, <1>4, <1>5

\* A ticket that gets a status, and a waybill that gets a status, a stage or a number
LEMMA ChangeTyping ==
  ASSUME TypeOK
  PROVE  /\ \A t \in Tickets, s \in TicketStatuses :
              [ticket EXCEPT ![t].status = s] \in [Tickets -> TicketRows]
         /\ \A w \in Wids, s \in WaybillStatuses :
              [waybill EXCEPT ![w].status = s] \in [Wids -> WaybillRows]
         /\ \A w \in Wids, b \in BOOLEAN :
              [waybill EXCEPT ![w].invoiced = b] \in [Wids -> WaybillRows]
         /\ \A w \in Wids, s \in WaybillStatuses, c \in CjStages :
              [waybill EXCEPT ![w].status = s, ![w].stage = c] \in [Wids -> WaybillRows]
         /\ \A w \in Wids, s \in WaybillStatuses, c \in CjStages, b \in BOOLEAN :
              [waybill EXCEPT ![w].stage = c, ![w].invoiced = b, ![w].status = s]
                \in [Wids -> WaybillRows]
<1> USE DEF TypeOK, RecordsOK, ParcelsOK
<1>1. \A row \in TicketRows, s \in TicketStatuses : [row EXCEPT !.status = s] \in TicketRows
  BY DEF TicketRows
<1>2. ASSUME NEW row \in WaybillRows, NEW s \in WaybillStatuses, NEW c \in CjStages,
             NEW b \in BOOLEAN
      PROVE  /\ [row EXCEPT !.status = s] \in WaybillRows
             /\ [row EXCEPT !.invoiced = b] \in WaybillRows
             /\ [row EXCEPT !.status = s, !.stage = c] \in WaybillRows
             /\ [row EXCEPT !.stage = c, !.invoiced = b, !.status = s] \in WaybillRows
  BY DEF WaybillRows
<1>3. ASSUME NEW t \in Tickets, NEW s \in TicketStatuses
      PROVE  [ticket EXCEPT ![t].status = s] \in [Tickets -> TicketRows]
  <2>1. ticket \in [Tickets -> TicketRows]
    OBVIOUS
  <2>2. [ticket[t] EXCEPT !.status = s] \in TicketRows
    BY <1>1, <2>1
  <2> HIDE DEF TypeOK, RecordsOK, ParcelsOK
  <2> QED BY <2>1, <2>2
<1>4. ASSUME NEW w \in Wids, NEW s \in WaybillStatuses, NEW c \in CjStages, NEW b \in BOOLEAN
      PROVE  /\ [waybill EXCEPT ![w].status = s] \in [Wids -> WaybillRows]
             /\ [waybill EXCEPT ![w].invoiced = b] \in [Wids -> WaybillRows]
             /\ [waybill EXCEPT ![w].status = s, ![w].stage = c] \in [Wids -> WaybillRows]
             /\ [waybill EXCEPT ![w].stage = c, ![w].invoiced = b, ![w].status = s]
                  \in [Wids -> WaybillRows]
  BY <1>2
<1>5. WaybillStatuses # {} /\ CjStages # {}
  BY DEF WaybillStatuses, CjStages
<1> QED BY <1>3, <1>4, <1>5

\* Issuing leaves rows of the tables
LEMMA IssueTyping ==
  ASSUME TypeOK, IssueNext
  PROVE  TypeOK'
<1> USE DEF TypeOK, RecordsOK, OrdersOK, AssetsOK, ParcelsOK, CourierOK, orderVars, assetVars
<1>1. ASSUME NEW o \in Orders, NEW n \in 1..2, NEW real \in BOOLEAN, IssueReserve(o, n, real)
      PROVE  TypeOK'
  <2>1. [ToOrder(o) EXCEPT !.invoiced = ~real] \in WaybillRows
    BY RequestedRows
  <2>2. waybill' \in [Wids -> WaybillRows] /\ job' \in [Wids -> Jobs]
    BY <1>1, <2>1, ReserveTyping DEF IssueReserve
  <2> QED BY <1>1, <2>2 DEF IssueReserve
<1>2. ASSUME NEW t \in Tickets, NEW real \in BOOLEAN, ReturnReserve(t, real)
      PROVE  TypeOK'
  <2>1. [ToTicket(t) EXCEPT !.invoiced = ~real] \in WaybillRows
    BY RequestedRows
  <2>2. waybill' \in [Wids -> WaybillRows] /\ job' \in [Wids -> Jobs]
    BY <1>2, <2>1, ReserveTyping DEF ReturnReserve
  <2> QED BY <1>2, <2>2 DEF ReturnReserve
<1>3. ASSUME NEW type \in {"forward", "recall"}, NEW real \in BOOLEAN, ManualReserve(type, real)
      PROVE  TypeOK'
  <2>1. [NoWaybill EXCEPT !.type = type, !.invoiced = ~real] \in WaybillRows
    BY RequestedRows
  <2>2. waybill' \in [Wids -> WaybillRows] /\ job' \in [Wids -> Jobs]
    BY <1>3, <2>1, ReserveTyping DEF ManualReserve
  <2> QED BY <1>3, <2>2 DEF ManualReserve
<1>4. ASSUME NEW type \in {"forward", "recall"}, ManualNote(type)
      PROVE  TypeOK'
  <2>1. LastWid + 1 \in 0..MaxWid
    BY <1>4, LastIsLast, BoundsAreNumbers DEF ManualNote
  <2>2. [NoWaybill EXCEPT !.status = "reserved", !.type = type, !.lead = LastWid + 1] \in WaybillRows
    BY <2>1, WaybillTyping DEF WaybillRows, WaybillStatuses
  <2>3. waybill' \in [Wids -> WaybillRows]
    BY <1>4, <2>2, Zenon DEF ManualNote
  <2> QED BY <1>4, <2>3 DEF ManualNote, courierVars
<1>5. ASSUME NEW w \in Wids, Register(w)
      PROVE  TypeOK'
  <2>1. PICK r \in job[w].rows \ job[w].sent :
             \/ job' = [job EXCEPT ![w].sent = @ \cup {r}]
             \/ job' = [job EXCEPT ![w].failed = TRUE]
    BY <1>5 DEF Register
  <2>2. r \in Wids /\ job[w] \in Jobs
    BY DEF Jobs
  <2>3. [job[w] EXCEPT !.sent = @ \cup {r}] \in Jobs /\ [job[w] EXCEPT !.failed = TRUE] \in Jobs
    BY <2>2 DEF Jobs
  <2>4. job' \in [Wids -> Jobs]
    BY <2>1, <2>3
  <2>5. booked' \in SUBSET Wids
    BY <1>5 DEF Register, Jobs
  <2> QED BY <1>5, <2>4, <2>5 DEF Register, recordVars
<1>6. ASSUME NEW w \in Wids, IssueCommit(w)
      PROVE  TypeOK'
  <2>1. waybill' \in [Wids -> WaybillRows]
    <3>1. \A row \in WaybillRows, s \in {"issued", "test"}, b \in BOOLEAN :
            [row EXCEPT !.status = s, !.invoiced = b] \in WaybillRows
      BY DEF WaybillRows, WaybillStatuses
    <3> QED BY <1>6, <3>1 DEF IssueCommit
  <2>2. tracking' \in [Orders -> Wids \cup {NoInvoice}]
    BY <1>6 DEF IssueCommit
  <2>3. ticket' \in [Tickets -> TicketRows]
    <3>1. \A t \in Tickets, s \in TicketStatuses :
            [ticket EXCEPT ![t].status = s] \in [Tickets -> TicketRows]
      BY ChangeTyping
    <3> QED BY <1>6, <3>1 DEF IssueCommit, TicketStatuses
  <2>4. job' \in [Wids -> Jobs]
    BY <1>6, CourierTyping DEF IssueCommit
  <2> QED BY <1>6, <2>1, <2>2, <2>3, <2>4 DEF IssueCommit
<1>7. ASSUME NEW w \in Wids, IssueCleanUp(w)
      PROVE  TypeOK'
  <2>1. waybill' \in [Wids -> WaybillRows] /\ job' \in [Wids -> Jobs]
    BY <1>7, CourierTyping DEF IssueCleanUp
  <2>2. booked' \in SUBSET Wids
    BY <1>7 DEF IssueCleanUp
  <2> QED BY <1>7, <2>1, <2>2 DEF IssueCleanUp
<1> QED BY <1>1, <1>2, <1>3, <1>4, <1>5, <1>6, <1>7 DEF IssueNext

\* Cancelling leaves rows of the tables
LEMMA CancelTyping ==
  ASSUME TypeOK, CancelNext
  PROVE  TypeOK'
<1> USE DEF TypeOK, RecordsOK, OrdersOK, AssetsOK, ParcelsOK, CourierOK, orderVars, assetVars
<1>1. ASSUME NEW w \in Wids, CancelRead(w)
      PROVE  TypeOK'
  <2>1. Snapshot(w) \in Undos
    BY DEF Snapshot, Undos, WaybillRows
  <2> QED BY <1>1, <2>1 DEF CancelRead, recordVars
<1>2. ASSUME NEW w \in Wids, NEW force \in BOOLEAN, CancelAsk(w, force)
      PROVE  TypeOK'
  <2>1. undo' \in [Wids -> Undos]
    <3>1. undo[w] \in Undos /\ NoUndo \in Undos
      BY CourierTyping
    <3>2. [undo[w] EXCEPT !.ask = FALSE] \in Undos
      BY <3>1 DEF Undos
    <3>3. undo' = [undo EXCEPT ![w] = NoUndo]
          \/ undo' = [undo EXCEPT ![w] = [undo[w] EXCEPT !.ask = FALSE]]
      BY <1>2 DEF CancelAsk
    <3> QED BY <3>1, <3>2, <3>3
  <2> QED BY <1>2, <2>1 DEF CancelAsk, recordVars
<1>3. ASSUME NEW w \in Wids, CancelWrite(w)
      PROVE  TypeOK'
  <2>1. waybill' \in [Wids -> WaybillRows]
    <3>1. waybill[w].status \in WaybillStatuses
      BY DEF WaybillRows
    <3>2. waybill' = [waybill EXCEPT ![w].status = IF waybill[w].status = "none"
                                                   THEN waybill[w].status ELSE "canceled"]
      BY <1>3 DEF CancelWrite
    <3>3. (IF waybill[w].status = "none" THEN waybill[w].status ELSE "canceled") \in WaybillStatuses
      BY <3>1 DEF WaybillStatuses
    <3> QED BY <3>2, <3>3, ChangeTyping
  <2>2. status' \in [Assets -> AssetStatuses]
    BY <1>3, CourierTyping DEF CancelWrite
  <2>3. ticket' \in [Tickets -> TicketRows]
    <3>1. \A t \in Tickets, s \in TicketStatuses :
            [ticket EXCEPT ![t].status = s] \in [Tickets -> TicketRows]
      BY ChangeTyping
    <3> QED BY <1>3, <3>1 DEF CancelWrite, TicketStatuses
  <2>4. tracking' \in [Orders -> Wids \cup {NoInvoice}]
    BY <1>3 DEF CancelWrite, Renumbered
  <2>5. undo' \in [Wids -> Undos]
    BY <1>3, CourierTyping DEF CancelWrite
  <2> QED BY <1>3, <2>1, <2>2, <2>3, <2>4, <2>5 DEF CancelWrite
<1> QED BY <1>1, <1>2, <1>3 DEF CancelNext

\* A machine that comes in leaves rows of the tables
LEMMA ArriveTyping ==
  ASSUME TypeOK, NEW w \in Wids, NEW back \in AssetStatuses, Arrive(w, back)
  PROVE  /\ status' \in [Assets -> AssetStatuses]
         /\ link' \in [Orders -> [Assets -> AssetStatuses \cup {Unlinked}]]
         /\ ticket' \in [Tickets -> TicketRows]
<1> USE DEF TypeOK, RecordsOK, OrdersOK, AssetsOK, ParcelsOK
<1>1. (IF waybill[w].ticket # NoTicket THEN "as" ELSE back) \in AssetStatuses
  BY DEF AssetStatuses
<1>2. status' \in [Assets -> AssetStatuses]
  BY <1>1, CourierTyping DEF Arrive
<1>3. link' \in [Orders -> [Assets -> AssetStatuses \cup {Unlinked}]]
  <2>1. waybill[w].order \in Orders \cup {NoOrder}
    BY DEF WaybillRows
  <2> QED BY <2>1, UnlinkTyping DEF Arrive
<1>4. ticket' \in [Tickets -> TicketRows]
  <2>1. \A t \in Tickets, s \in TicketStatuses :
          [ticket EXCEPT ![t].status = s] \in [Tickets -> TicketRows]
    BY ChangeTyping
  <2>2. waybill[w].ticket \in Tickets \cup {NoTicket}
    BY DEF WaybillRows
  <2> QED BY <2>1, <2>2 DEF Arrive, TicketStatuses
<1> QED BY <1>2, <1>3, <1>4

\* What the tracker holds of a row: nothing, the stage it read, what CJ has told since
LEMMA WatchTyping ==
  /\ NotWatched \in Watches
  /\ \A code \in CjStages : [NotWatched EXCEPT !.read = code] \in Watches
  /\ \A held \in Watches, code \in CjStages : [held EXCEPT !.told = code] \in Watches
  /\ NotWatched.told = ""
<1> USE DEF NotWatched, Watches, CjStages
<1>1. NotWatched \in Watches /\ NotWatched.told = ""
  OBVIOUS
<1>2. \A code \in CjStages : [NotWatched EXCEPT !.read = code] \in Watches
  OBVIOUS
<1>3. \A held \in Watches, code \in CjStages : [held EXCEPT !.told = code] \in Watches
  OBVIOUS
<1> QED BY <1>1, <1>2, <1>3

\* What CJ reports leaves rows of the tables
LEMMA ApplyTyping ==
  ASSUME TypeOK, NEW w \in Wids, NEW code \in CjStages, NEW was \in WaybillStatuses,
         NEW invoiced \in BOOLEAN, Apply(w, code, was, invoiced)
  PROVE  RecordsOK'
<1> USE DEF TypeOK, RecordsOK, OrdersOK, AssetsOK, ParcelsOK, orderVars, assetVars
<1>1. waybill' \in [Wids -> WaybillRows]
  <2>1. (IF code = "91" THEN "delivered" ELSE was) \in WaybillStatuses
    BY DEF WaybillStatuses
  <2> QED BY <2>1, ChangeTyping DEF Apply
<1>2. CASE waybill[w].type = "recall"
  <2>1. ApplyRecall(w, code, was)
    BY <1>2 DEF Apply
  <2>2. /\ status' \in [Assets -> AssetStatuses]
        /\ link' \in [Orders -> [Assets -> AssetStatuses \cup {Unlinked}]]
        /\ ticket' \in [Tickets -> TicketRows]
    BY <2>1, ArriveTyping DEF ApplyRecall, AssetStatuses
  <2> QED BY <2>1, <2>2, <1>1 DEF ApplyRecall
<1>3. CASE waybill[w].type # "recall"
  <2>1. ApplyForward(w, code)
    BY <1>3 DEF Apply
  <2>2. status' \in [Assets -> AssetStatuses]
    <3>1. \A S : HandedOver(S) \in [Assets -> AssetStatuses]
      BY CourierTyping
    <3> QED BY <2>1, <3>1 DEF ApplyForward, AssetStatuses
  <2>3. ticket' \in [Tickets -> TicketRows]
    <3>1. \A t \in Tickets, s \in TicketStatuses :
            [ticket EXCEPT ![t].status = s] \in [Tickets -> TicketRows]
      BY ChangeTyping
    <3>2. waybill[w].ticket \in Tickets \cup {NoTicket}
      BY DEF WaybillRows
    <3> QED BY <2>1, <3>1, <3>2 DEF ApplyForward, Closed, TicketStatuses
  <2>4. stages' \in [Orders -> SUBSET Stages] /\ marks' \in [Orders -> SUBSET Marks]
    BY <2>1 DEF ApplyForward, Departed, Delivered, Stages, Marks
  <2>5. by' \in [Orders -> [Stages -> Signers]]
    BY <2>1 DEF ApplyForward, Departed, Stages, Signers
  <2>6. listed' \in SUBSET Assets
    BY <2>1 DEF ApplyForward
  <2> QED BY <2>1, <2>2, <2>3, <2>4, <2>5, <2>6, <1>1 DEF ApplyForward
<1> QED BY <1>2, <1>3

\* Collecting and tracking leave rows of the tables
LEMMA RecallTyping ==
  ASSUME TypeOK, RecallNext \/ TrackNext
  PROVE  TypeOK'
<1> USE DEF TypeOK, RecordsOK, OrdersOK, AssetsOK, ParcelsOK, CourierOK, orderVars, assetVars
<1>1. ASSUME NEW o \in Orders, NEW real \in BOOLEAN, RecallOrder(o, real)
      PROVE  TypeOK'
  <2>1. RecallRow(o, NoTicket, AssetsOf(o)) \in WaybillRows
    BY RecallRows
  <2>2. waybill' \in [Wids -> WaybillRows] /\ job' \in [Wids -> Jobs]
    BY <1>1, <2>1, ReserveTyping DEF RecallOrder
  <2>3. status' \in [Assets -> AssetStatuses]
    BY <1>1 DEF RecallOrder, MarkReturning, AssetStatuses
  <2> QED BY <1>1, <2>2, <2>3 DEF RecallOrder
<1>2. ASSUME NEW t \in Tickets, NEW real \in BOOLEAN, RecallTicket(t, real)
      PROVE  TypeOK'
  <2>1. RecallRow(NoOrder, t, {ticket[t].asset}) \in WaybillRows
    BY RecallRows
  <2>2. waybill' \in [Wids -> WaybillRows] /\ job' \in [Wids -> Jobs]
    BY <1>2, <2>1, ReserveTyping DEF RecallTicket
  <2>3. status' \in [Assets -> AssetStatuses]
    BY <1>2 DEF RecallTicket, MarkReturning, AssetStatuses
  <2> QED BY <1>2, <2>2, <2>3 DEF RecallTicket
<1>3. ASSUME NEW w \in Wids, RecallCommit(w)
      PROVE  TypeOK'
  <2>1. waybill' \in [Wids -> WaybillRows]
    <3>1. (IF job[w].real THEN "issued" ELSE "test") \in WaybillStatuses
      BY DEF WaybillStatuses
    <3> QED BY <1>3, <3>1, ChangeTyping DEF RecallCommit
  <2>2. ticket' \in [Tickets -> TicketRows]
    <3>1. waybill[w].ticket \in Tickets \cup {NoTicket}
      BY DEF WaybillRows
    <3>2. \A t \in Tickets, s \in TicketStatuses :
            [ticket EXCEPT ![t].status = s] \in [Tickets -> TicketRows]
      BY ChangeTyping
    <3> QED BY <1>3, <3>1, <3>2 DEF RecallCommit, TicketStatuses
  <2>3. job' \in [Wids -> Jobs]
    BY <1>3, CourierTyping DEF RecallCommit
  <2> QED BY <1>3, <2>1, <2>2, <2>3 DEF RecallCommit
<1>4. ASSUME NEW w \in Wids, RecallFail(w)
      PROVE  TypeOK'
  BY <1>4, CourierTyping DEF RecallFail
<1>5. ASSUME NEW w \in Wids, NEW back \in Returnable, MarkReceived(w, back)
      PROVE  TypeOK'
  <2>1. back \in AssetStatuses
    BY DEF Returnable, AssetStatuses
  <2>2. /\ status' \in [Assets -> AssetStatuses]
        /\ link' \in [Orders -> [Assets -> AssetStatuses \cup {Unlinked}]]
        /\ ticket' \in [Tickets -> TicketRows]
    BY <1>5, <2>1, ArriveTyping DEF MarkReceived
  <2>3. waybill' \in [Wids -> WaybillRows]
    <3>1. "delivered" \in WaybillStatuses /\ "91" \in CjStages
      BY DEF WaybillStatuses, CjStages
    <3> QED BY <1>5, <3>1, ChangeTyping DEF MarkReceived
  <2> QED BY <1>5, <2>2, <2>3 DEF MarkReceived, courierVars
<1>6. CASE StartRound
  BY <1>6, WatchTyping DEF StartRound, WaybillRows, recordVars
<1>7. ASSUME NEW w \in Wids, TrackWrite(w)
      PROVE  TypeOK'
  <2>1. "issued" \in WaybillStatuses /\ watch[w].told \in CjStages
    BY DEF WaybillStatuses, Watches
  <2>2. RecordsOK'
    BY <1>7, <2>1, ApplyTyping DEF TrackWrite
  <2>3. CourierOK'
    BY <1>7, WatchTyping DEF TrackWrite
  <2> QED BY <2>2, <2>3
<1>8. ASSUME NEW w \in Wids, Sweep(w)
      PROVE  TypeOK'
  <2>1. waybill[w].status \in WaybillStatuses /\ waybill[w].invoiced \in BOOLEAN
    BY DEF WaybillRows
  <2>2. RecordsOK'
    <3>1. ASSUME NEW invoiced \in BOOLEAN,
                 waybill' = [waybill EXCEPT ![w].invoiced = invoiced],
                 UNCHANGED <<orderVars, assetVars, link, prebuild, tracking, ticket>>
          PROVE  RecordsOK'
      BY <3>1 DEF WaybillRows
    <3>2. ASSUME NEW invoiced \in BOOLEAN, NEW code \in CjStages,
                 Apply(w, code, waybill[w].status, invoiced)
          PROVE  RecordsOK'
      BY <2>1, <3>2, ApplyTyping
    <3> QED BY <1>8, <2>1, <3>1, <3>2 DEF Sweep
  <2>3. CourierOK'
    BY <1>8 DEF Sweep, courierVars
  <2> QED BY <2>2, <2>3
<1>9. ASSUME NEW w \in Wids, TrackAsk(w)
      PROVE  TypeOK'
  <2>1. watch' \in [Wids -> Watches]
    <3>1. watch[w] \in Watches
      OBVIOUS
    <3>2. \/ watch' = [watch EXCEPT ![w] = NotWatched]
          \/ \E code \in CjStages : watch' = [watch EXCEPT ![w] = [watch[w] EXCEPT !.told = code]]
      BY <1>9 DEF TrackAsk
    <3>3. PICK held \in Watches : watch' = [watch EXCEPT ![w] = held]
      BY <3>1, <3>2, WatchTyping
    <3> QED BY <3>3
  <2> QED BY <1>9, <2>1 DEF TrackAsk, recordVars
<1> QED BY <1>1, <1>2, <1>3, <1>4, <1>5, <1>6, <1>7, <1>8, <1>9 DEF RecallNext, TrackNext

\* The repair desk leaves rows of the tables
LEMMA TicketTyping ==
  ASSUME RecordsOK, TicketNext
  PROVE  RecordsOK'
<1> USE DEF RecordsOK, OrdersOK, AssetsOK, ParcelsOK, orderVars, TicketOnly
<1>1. ASSUME NEW t \in Tickets, NEW a \in Assets \cup {NoAsset},
             NEW charge \in {"company", "customer"}, NEW intake \in {"parcel", "visit"},
             CreateTicket(t, a, intake, charge)
      PROVE  RecordsOK'
  BY <1>1 DEF CreateTicket, TicketRows, TicketStatuses
<1>2. ASSUME NEW t \in Tickets, NEW a \in Assets \cup {NoAsset},
             NEW charge \in {"company", "customer"}, NEW intake \in {"parcel", "visit"},
             NEW s \in (TicketStatuses \ {"none"}) \cup {Absent},
             PatchTicket(t, charge, intake, a, s)
      PROVE  RecordsOK'
  <2>1. (IF s = Absent THEN Followed(t, intake) ELSE s) \in TicketStatuses
    <3>1. Followed(t, intake) \in TicketStatuses
      BY DEF Followed, TicketRows, TicketStatuses
    <3> QED BY <3>1
  <2>2. ticket' \in [Tickets -> TicketRows]
    <3>1. ticket[t] \in TicketRows
      OBVIOUS
    <3>2. \A x \in TicketStatuses :
            [ticket[t] EXCEPT !.charge = charge, !.intake = intake, !.asset = a, !.status = x]
              \in TicketRows
      BY <3>1 DEF TicketRows
    <3>3. ticket' = [ticket EXCEPT ![t] =
            [ticket[t] EXCEPT !.charge = charge, !.intake = intake, !.asset = a,
                              !.status = IF s = Absent THEN Followed(t, intake) ELSE s]]
      BY <1>2 DEF PatchTicket
    <3> QED BY <2>1, <3>2, <3>3
  <2>3. status' \in [Assets -> AssetStatuses]
    BY <1>2 DEF PatchTicket, HandedOver, AssetStatuses
  <2> QED BY <1>2, <2>2, <2>3 DEF PatchTicket
<1>3. ASSUME NEW t \in Tickets, NEW paid \in BOOLEAN, SetPayment(t, paid)
      PROVE  RecordsOK'
  BY <1>3 DEF SetPayment, TicketRows
<1>4. ASSUME NEW t \in Tickets, DeleteTicket(t)
      PROVE  RecordsOK'
  <2>1. ticket[t] \in TicketRows
    OBVIOUS
  <2>2. [ticket[t] EXCEPT !.status = "cancelled"] \in TicketRows
    BY <2>1 DEF TicketRows, TicketStatuses
  <2>3. ticket' = [ticket EXCEPT ![t] = [ticket[t] EXCEPT !.status = "cancelled"]]
    BY <1>4 DEF DeleteTicket
  <2>4. ticket' \in [Tickets -> TicketRows]
    BY <2>2, <2>3
  <2> QED BY <1>4, <2>4 DEF DeleteTicket
<1> HIDE DEF RecordsOK
<1> QED BY <1>1, <1>2, <1>3, <1>4, Zenon DEF TicketNext

\* Every step of the desks and of the parcel company leaves rows of the tables
LEMMA OwsNextTyping == TypeOK /\ [OwsNext]_vars => TypeOK'
<1> SUFFICES ASSUME TypeOK, [OwsNext]_vars PROVE TypeOK'
  OBVIOUS
<1>1. CASE (Next \/ TicketNext) /\ UNCHANGED courierVars
  <2>1. RecordsOK'
    BY <1>1, NextTyping, TicketTyping DEF TypeOK
  <2> QED BY <1>1, <2>1 DEF TypeOK, CourierOK, courierVars
<1>2. CASE Crash
  <2>1. NoJob \in Jobs /\ NoUndo \in Undos
    BY BoundsAreNumbers DEF NoJob, Jobs, NoUndo, Undos
  <2>2. /\ job' \in [Wids -> Jobs] /\ undo' \in [Wids -> Undos]
        /\ watch' \in [Wids -> Watches]
        /\ booked' \in SUBSET Wids
    BY <1>2, <2>1, WatchTyping DEF Crash, TypeOK, CourierOK
  <2> QED BY <1>2, <2>2 DEF Crash, recordVars, orderVars, assetVars, TypeOK, RecordsOK, OrdersOK,
                            AssetsOK, ParcelsOK, CourierOK
<1>3. CASE UNCHANGED vars
  BY <1>3 DEF vars, recordVars, orderVars, assetVars, courierVars, TypeOK, RecordsOK, OrdersOK,
              AssetsOK, ParcelsOK, CourierOK
<1> QED BY <1>1, <1>2, <1>3, IssueTyping, CancelTyping, RecallTyping DEF OwsNext

\* The rows of the first state are rows
LEMMA OwsInitTyping == OwsInit => TypeOK
<1> SUFFICES ASSUME OwsInit PROVE TypeOK
  OBVIOUS
<1>1. RecordsOK
  BY InitTyping DEF OwsInit
<1>2. NoJob \in Jobs /\ NoUndo \in Undos
  BY BoundsAreNumbers DEF NoJob, Jobs, NoUndo, Undos
<1>3. CourierOK
  BY <1>2, WatchTyping DEF OwsInit, CourierInit, CourierOK
<1> QED BY <1>1, <1>3 DEF TypeOK

\* The rows of every table stay rows the schema allows, with the parcels and the repair tickets
\* (app/orders/waybill.py, app/orders/recall.py, app/asvc)
THEOREM OwsTyping == OwsSpec => []TypeOK
  BY OwsInitTyping, OwsNextTyping, PTL DEF OwsSpec

-----------------------------------------------------------------------------
(***************************************************************************)
(* A ticket that is closed                                                 *)
(***************************************************************************)

\* The screens of the desk touch no waybill and no ticket
LEMMA DeskLeavesParcels == Next => UNCHANGED <<waybill, tracking, ticket>>
<1> SUFFICES ASSUME Next PROVE UNCHANGED <<waybill, tracking, ticket>>
  OBVIOUS
<1>1. ASSUME NEW o \in Orders, NEW u \in Users, StageStep(o, u)
      PROVE  UNCHANGED <<waybill, tracking, ticket>>
  BY <1>1 DEF StageStep, PreparingOn, PreparingOff, ProductionOn, ProductionOff, InspectionOn,
              InspectionOff, ShippingOn, ShippingOff
<1>2. ASSUME NEW o \in Orders, MatchStep(o)
      PROVE  UNCHANGED <<waybill, tracking, ticket>>
  <2>1. ASSUME NEW wanted, NEW misfits, NEW force, NEW last, NEW gone,
               SetOrderAssets(o, wanted, force, misfits, last, gone)
        PROVE  UNCHANGED <<waybill, tracking, ticket>>
    BY <2>1 DEF SetOrderAssets
  <2>2. ASSUME NEW a \in Assets, PrebuildRework(o, a)
        PROVE  UNCHANGED <<waybill, tracking, ticket>>
    BY <2>2 DEF PrebuildRework
  <2> QED BY <1>2, <2>1, <2>2, Zenon DEF MatchStep
<1>3. ASSUME NEW o \in Orders, MarkStep(o)
      PROVE  UNCHANGED <<waybill, tracking, ticket>>
  BY <1>3 DEF MarkStep, Cancel, RestoreCancel, Archive, Unarchive, SetDelivered,
              PickOption
<1>4. ASSUME NEW S \in SUBSET Orders, NEW u \in Users, ShipToday(S, u)
      PROVE  UNCHANGED <<waybill, tracking, ticket>>
  BY <1>4 DEF ShipToday
<1>5. CASE BoardNext
  BY <1>1, <1>2, <1>3, <1>4, <1>5, Zenon DEF BoardNext
<1>6. CASE PrebuildNext
  BY <1>6 DEF PrebuildNext, PrebuildOnly, CreatePrebuild, DeletePrebuild, BuildReady,
              BuildProduction, BuildInspection
<1>7. CASE AssetNext
  BY <1>7 DEF AssetNext, AssetOnly, ChangeStatus, ChangeTier, ChangeListing, PurchaseCancel,
              PurchaseUncancel, Restock, Receive
<1> QED BY <1>5, <1>6, <1>7 DEF Next

\* The repair desk touches no waybill, no link and no machine it does not hand over
LEMMA TicketLeavesParcels ==
  TicketNext => /\ UNCHANGED <<waybill, tracking, before, link>>
                /\ \/ UNCHANGED status
                   \/ \E S : status' = HandedOver(S)
<1> DEFINE Left == /\ UNCHANGED <<waybill, tracking, before, link>>
                   /\ \/ UNCHANGED status
                      \/ \E S : status' = HandedOver(S)
<1> SUFFICES ASSUME TicketNext PROVE Left
  OBVIOUS
<1>1. ASSUME NEW t, NEW a, NEW charge, NEW intake, CreateTicket(t, a, intake, charge)
      PROVE  Left
  BY <1>1 DEF CreateTicket, TicketOnly
<1>2. ASSUME NEW t, NEW a, NEW charge, NEW intake, NEW s, PatchTicket(t, charge, intake, a, s)
      PROVE  Left
  <2>1. status' = HandedOver({a}) \/ UNCHANGED status
    BY <1>2 DEF PatchTicket
  <2> QED BY <1>2, <2>1 DEF PatchTicket, TicketOnly
<1>3. ASSUME NEW t, NEW paid, SetPayment(t, paid)
      PROVE  Left
  BY <1>3 DEF SetPayment, TicketOnly
<1>4. ASSUME NEW t, DeleteTicket(t)
      PROVE  Left
  BY <1>4 DEF DeleteTicket, TicketOnly
<1> HIDE DEF Left
<1> QED BY <1>1, <1>2, <1>3, <1>4, Zenon DEF TicketNext

\* A closed ticket's machine goes out in the step that closes it
\* What the tracker writes is a stage
LEMMA TrackersCode ==
  TypeOK => \A w \in Wids : watch[w].told \in CjStages
  BY DEF TypeOK, CourierOK, Watches

\* and it is written over the row as it was read
LEMMA TrackersWord ==
  ASSUME TypeOK, NEW w \in Wids, TrackWrite(w)
  PROVE  /\ watch[w] # NotWatched
         /\ \E code \in CjStages : Apply(w, code, "issued", TRUE) /\ code = watch[w].told
  BY TrackersCode, WatchTyping DEF TrackWrite

LEMMA NextReturns ==
  ASSUME TypeOK, [OwsNext]_vars, NEW t \in Tickets, NEW a \in Assets,
         ticket[t].status # "returned", ticket'[t].status = "returned", ticket'[t].asset = a
  PROVE  status'[a] \in {"shipped", "scrapped"}
<1> USE DEF TypeOK, RecordsOK, AssetsOK, ParcelsOK
<1>1. \A S : a \in S => HandedOver(S)[a] \in {"shipped", "scrapped"}
  BY DEF HandedOver
<1>2. ticket # ticket'
  OBVIOUS
<1>3. ticket \in [Tickets -> TicketRows] /\ \A u \in Tickets : ticket[u] \in TicketRows
  OBVIOUS
<1>4. ASSUME NEW w \in Wids, NEW code \in CjStages, NEW was, NEW invoiced,
             Apply(w, code, was, invoiced)
      PROVE  status'[a] \in {"shipped", "scrapped"}
  <2>1. waybill[w].ticket \in Tickets \cup {NoTicket}
    BY DEF WaybillRows
  <2>2. waybill[w].type # "recall"
    BY <1>2, <1>3, <1>4, <2>1 DEF Apply, ApplyRecall, Arrive, TicketRows
  <2>3. ApplyForward(w, code)
    BY <1>4, <2>2 DEF Apply
  <2>4. Closed(waybill[w].ticket, code) /\ waybill[w].ticket = t /\ ticket[t].asset = a
    BY <1>2, <1>3, <2>1, <2>3 DEF ApplyForward, Closed, TicketRows
  <2> QED BY <1>1, <2>3, <2>4 DEF ApplyForward
<1>5. CASE Next \/ Crash \/ UNCHANGED vars
  BY <1>2, <1>5, DeskLeavesParcels DEF Crash, vars, recordVars
<1>6. CASE TicketNext
  <2>1. PICK u \in Tickets, b \in Assets \cup {NoAsset}, charge \in {"company", "customer"},
             intake \in {"parcel", "visit"}, s \in (TicketStatuses \ {"none"}) \cup {Absent} :
             PatchTicket(u, charge, intake, b, s)
    <3>1. ASSUME NEW u \in Tickets, NEW b, NEW charge, NEW intake,
                 CreateTicket(u, b, intake, charge)
          PROVE  FALSE
      BY <1>3, <3>1 DEF CreateTicket, TicketRows
    <3>2. ASSUME NEW u \in Tickets, NEW paid, SetPayment(u, paid)
          PROVE  FALSE
      BY <1>3, <3>2 DEF SetPayment, TicketRows
    <3>3. ASSUME NEW u \in Tickets, DeleteTicket(u)
          PROVE  FALSE
      BY <1>3, <3>3 DEF DeleteTicket, TicketRows
    <3> QED BY <1>6, <3>1, <3>2, <3>3, Zenon DEF TicketNext
  <2>2. u = t /\ b = a
    BY <1>2, <1>3, <2>1 DEF PatchTicket, TicketRows
  <2>3. s = "returned"
    BY <1>3, <2>1, <2>2 DEF PatchTicket, Followed, TicketRows, Absent
  <2> QED BY <1>1, <2>1, <2>2, <2>3 DEF PatchTicket
<1>7. CASE IssueNext
  <2>1. ASSUME NEW w \in Wids, IssueCommit(w)
        PROVE  FALSE
    BY <1>3, <2>1 DEF IssueCommit, TicketRows
  <2> QED BY <1>2, <1>7, <2>1 DEF IssueNext, IssueReserve, ReturnReserve, ManualReserve,
             ManualNote, Register, IssueCleanUp, recordVars
<1>8. CASE CancelNext
  BY <1>2, <1>3, <1>8 DEF CancelNext, CancelRead, CancelAsk, CancelWrite, recordVars, TicketRows
<1>9. CASE RecallNext
  <2>1. ASSUME NEW w \in Wids, NEW back, MarkReceived(w, back)
        PROVE  FALSE
    <3>1. waybill[w].ticket \in Tickets \cup {NoTicket}
      BY DEF WaybillRows
    <3> QED BY <1>2, <1>3, <2>1, <3>1 DEF MarkReceived, Arrive, TicketRows
  <2>2. ASSUME NEW w \in Wids, RecallCommit(w)
        PROVE  FALSE
    BY <1>2, <1>3, <2>2 DEF RecallCommit, TicketRows
  <2> QED BY <1>2, <1>9, <2>1, <2>2 DEF RecallNext, RecallOrder, RecallTicket, RecallFail
<1>10. CASE TrackNext
  BY <1>2, <1>4, <1>10, TrackersCode DEF TrackNext, StartRound, TrackAsk, TrackWrite, Sweep,
                                         recordVars
<1> QED BY <1>5, <1>6, <1>7, <1>8, <1>9, <1>10 DEF OwsNext

\* Whenever a ticket is closed, by hand or by CJ's word, its machine is out of the house
\* (update_ticket, _auto_as_return_delivered)
THEOREM OwsReturnedGoesOut == OwsSpec => ReturnedGoesOut
<1>1. TypeOK /\ [OwsNext]_vars =>
        [\A t \in Tickets, a \in Assets :
           /\ ticket[t].status # "returned" /\ ticket'[t].status = "returned"
           /\ ticket'[t].asset = a
           => status'[a] \in {"shipped", "scrapped"}]_vars
  BY NextReturns
<1> QED BY <1>1, OwsTyping, PTL DEF OwsSpec, ReturnedGoesOut

-----------------------------------------------------------------------------
(***************************************************************************)
(* Requests in turn (PatientSpec): what a request, a cancel and a round of *)
(* the tracker still know of the rows they read                            *)
(***************************************************************************)

\* The rows of a running request are its own, wait for it, and nobody else holds them
InTurn(w) ==
  /\ w \in job[w].rows
  /\ waybill[w].type = "recall" => job[w].rows = {w}
  /\ \A v \in job[w].rows :
       /\ waybill[v].status = "pending" /\ waybill[v].stage = "" /\ waybill[v].lead = w
       /\ waybill[v].type = waybill[w].type /\ waybill[v].order = waybill[w].order
       /\ waybill[v].ticket = waybill[w].ticket
       /\ ~undo[v].active /\ watch[v] = NotWatched
RowsInTurn == \A w \in Wids : job[w].rows # {} => InTurn(w)

\* What a cancel has read of its row is still so; CJ has let go of a row it may write off
SeenAsIs ==
  \A w \in Wids : undo[w].active =>
    /\ waybill[w].status # "none"
    /\ undo[w].type = waybill[w].type /\ undo[w].order = waybill[w].order
    /\ undo[w].ticket = waybill[w].ticket /\ undo[w].lead = waybill[w].lead
    /\ \A o \in Orders : tracking[o] = w => undo[w].invoiced
    /\ ~undo[w].ask /\ waybill[w].status = "issued" => w \notin booked

\* The number an order shows is that of its own parcel, the first of its request
Tracked ==
  \A o \in Orders : tracking[o] # NoInvoice =>
    LET row == waybill[tracking[o]] IN
    /\ row.type = "forward" /\ row.order = o /\ row.invoiced /\ row.lead = tracking[o]
    /\ row.status \in {"issued", "test", "delivered"}

\* The tracker holds rows that were issued; one cancelled since is no longer CJ's
Watched ==
  \A w \in Wids :
    /\ watch[w] # NotWatched =>
         /\ waybill[w].status \in {"issued", "delivered", "canceled"}
         /\ waybill[w].status = "canceled" => w \notin booked
         /\ undo[w].active /\ ~undo[w].ask => w \notin booked
    /\ waybill[w].type = "forward" /\ waybill[w].status = "delivered" => waybill[w].stage = "91"

\* What CJ has told the tracker it would still tell
Answered == \A w \in Wids : watch[w].told # "" => Reports(w, watch[w].told)

TurnInv == RowsInTurn /\ SeenAsIs /\ Tracked /\ Watched

\* The steps that reserve rows, as one
ReserveStep ==
  \/ \E real \in BOOLEAN :
       \/ \E o \in Orders, n \in 1..2 : IssueReserve(o, n, real)
       \/ \E t \in Tickets : ReturnReserve(t, real)
       \/ \E type \in {"forward", "recall"} : ManualReserve(type, real)
       \/ \E o \in Orders : RecallOrder(o, real)
       \/ \E t \in Tickets : RecallTicket(t, real)

\* An outgoing row is only reserved while its order, or its ticket, has none open
Wanted(row) ==
  row.type = "forward" =>
    /\ row.order # NoOrder => ForwardOf(row.order, OpenStatus) = {}
    /\ row.ticket # NoTicket => OfTicket(row.ticket, "forward") = {}

\* A machine is 'returning' because it was, or because the row knows its status
Noted(row) ==
  \A a \in Assets : status'[a] = "returning" =>
    status[a] = "returning" \/ (row.type = "recall" /\ row.prev[a] = status[a])

\* Only a pickup for an order or a ticket notes statuses
Plain(row) ==
  row.order = NoOrder /\ row.ticket = NoTicket => \A a \in Assets : row.prev[a] = Unlinked

\* What a reservation does: row is written once for each of the rows, all of the request lead
Reservation(lead, rows, row) ==
  /\ lead \in rows
  /\ row.type = "recall" => rows = {lead}
  /\ row.stage = ""
  /\ \A w \in rows : waybill[w].status = "none"
  /\ waybill' = [w \in Wids |-> IF w \in rows
                                THEN [row EXCEPT !.status = "pending", !.lead = lead]
                                ELSE waybill[w]]
  /\ \E sent, real, failed :
       job' = [job EXCEPT ![lead] = [rows |-> rows, sent |-> sent, real |-> real,
                                     failed |-> failed]]
  /\ Wanted(row) /\ Noted(row) /\ Plain(row)
  /\ UNCHANGED <<undo, booked, watch, tracking, before, ticket>>

\* Every reservation is one of rows that are not there yet
LEMMA StepReserves ==
  ASSUME TypeOK, ReserveStep
  PROVE  \E lead \in Wids, rows \in SUBSET Wids, row \in WaybillRows :
           Reservation(lead, rows, row)
<1>0. 1 \in 1..2
  OBVIOUS
<1> USE DEF TypeOK, RecordsOK, AssetsOK, ParcelsOK, assetVars
<1>1. ASSUME NEW n \in 1..2, NEW real \in BOOLEAN, NEW row \in WaybillRows,
             Reserve(n, real, row), row.stage = "", row.type = "recall" => n = 1,
             Wanted(row), Noted(row), Plain(row),
             UNCHANGED <<undo, booked, watch, tracking, before, ticket>>
      PROVE  \E lead \in Wids, rows \in SUBSET Wids : Reservation(lead, rows, row)
  <2>1. PICK lead \in Wids, rows \in SUBSET Wids : Reserved(lead, rows, n, real, row)
    BY <1>1, ReserveRows
  <2>2. Reservation(lead, rows, row)
    BY <1>1, <2>1, Zenon DEF Reserved, Reservation
  <2> QED BY <2>2
<1>2. ASSUME NEW o \in Orders, NEW n \in 1..2, NEW real \in BOOLEAN, IssueReserve(o, n, real)
      PROVE  \E lead \in Wids, rows \in SUBSET Wids, row \in WaybillRows :
               Reservation(lead, rows, row)
  <2> DEFINE row == [ToOrder(o) EXCEPT !.invoiced = ~real]
  <2>1. row \in WaybillRows
    BY RequestedRows
  <2>2. row.stage = "" /\ row.type = "forward" /\ row.order = o /\ row.ticket = NoTicket
    BY DEF ToOrder, NoWaybill
  <2>3. Reserve(n, real, row) /\ UNCHANGED <<undo, booked, watch, tracking, before, ticket, status>>
    BY <1>2 DEF IssueReserve
  <2>4. Wanted(row) /\ Noted(row) /\ Plain(row)
    BY <1>2, <2>2, <2>3, NullsAreNotRows DEF IssueReserve, Wanted, Noted, Plain
  <2> HIDE DEF row
  <2> QED BY <1>1, <2>1, <2>2, <2>3, <2>4
<1>3. ASSUME NEW t \in Tickets, NEW real \in BOOLEAN, ReturnReserve(t, real)
      PROVE  \E lead \in Wids, rows \in SUBSET Wids, row \in WaybillRows :
               Reservation(lead, rows, row)
  <2> DEFINE row == [ToTicket(t) EXCEPT !.invoiced = ~real]
  <2>1. row \in WaybillRows
    BY RequestedRows
  <2>2. row.stage = "" /\ row.type = "forward" /\ row.order = NoOrder /\ row.ticket = t
    BY DEF ToTicket, NoWaybill
  <2>3. Reserve(1, real, row) /\ UNCHANGED <<undo, booked, watch, tracking, before, ticket, status>>
    BY <1>3 DEF ReturnReserve
  <2>4. Wanted(row) /\ Noted(row) /\ Plain(row)
    BY <1>3, <2>2, <2>3, NullsAreNotRows DEF ReturnReserve, Wanted, Noted, Plain
  <2> HIDE DEF row
  <2> QED BY <1>1, <2>1, <2>2, <2>3, <2>4, <1>0
<1>4. ASSUME NEW type \in {"forward", "recall"}, NEW real \in BOOLEAN, ManualReserve(type, real)
      PROVE  \E lead \in Wids, rows \in SUBSET Wids, row \in WaybillRows :
               Reservation(lead, rows, row)
  <2> DEFINE row == [NoWaybill EXCEPT !.type = type, !.invoiced = ~real]
  <2>1. row \in WaybillRows
    BY RequestedRows
  <2>2. /\ row.stage = "" /\ row.order = NoOrder /\ row.ticket = NoTicket
        /\ \A a \in Assets : row.prev[a] = Unlinked
    BY DEF NoWaybill
  <2>3. Reserve(1, real, row) /\ UNCHANGED <<undo, booked, watch, tracking, before, ticket, status>>
    BY <1>4 DEF ManualReserve
  <2>4. Wanted(row) /\ Noted(row) /\ Plain(row)
    BY <2>2, <2>3 DEF Wanted, Noted, Plain
  <2> HIDE DEF row
  <2> QED BY <1>1, <2>1, <2>2, <2>3, <2>4, <1>0
<1>5. ASSUME NEW o \in Orders \cup {NoOrder}, NEW t \in Tickets \cup {NoTicket}, NEW S,
             NEW real \in BOOLEAN, Reserve(1, real, RecallRow(o, t, S)), MarkReturning(S),
             o # NoOrder \/ t # NoTicket,
             UNCHANGED <<undo, booked, watch, tracking, before, ticket>>
      PROVE  \E lead \in Wids, rows \in SUBSET Wids, row \in WaybillRows :
               Reservation(lead, rows, row)
  <2> DEFINE row == RecallRow(o, t, S)
  <2>1. row \in WaybillRows
    BY RecallRows
  <2>2. /\ row.stage = "" /\ row.type = "recall" /\ row.order = o /\ row.ticket = t
        /\ \A a \in Assets : a \in S => row.prev[a] = status[a]
    BY DEF RecallRow, NoWaybill
  <2>3. Reserve(1, real, row) /\ UNCHANGED <<undo, booked, watch, tracking, before, ticket>>
    BY <1>5
  <2>4. Wanted(row) /\ Plain(row)
    BY <1>5, <2>2 DEF Wanted, Plain
  <2>5. Noted(row)
    BY <1>5, <2>2 DEF Noted, MarkReturning
  <2> HIDE DEF row
  <2> QED BY <1>1, <2>1, <2>2, <2>3, <2>4, <2>5, <1>0
<1>6. ASSUME NEW o \in Orders, NEW real \in BOOLEAN, RecallOrder(o, real)
      PROVE  \E lead \in Wids, rows \in SUBSET Wids, row \in WaybillRows :
               Reservation(lead, rows, row)
  BY <1>5, <1>6, NullsAreNotRows DEF RecallOrder
<1>7. ASSUME NEW t \in Tickets, NEW real \in BOOLEAN, RecallTicket(t, real)
      PROVE  \E lead \in Wids, rows \in SUBSET Wids, row \in WaybillRows :
               Reservation(lead, rows, row)
  BY <1>5, <1>7, NullsAreNotRows DEF RecallTicket
<1> HIDE DEF TypeOK
<1> QED BY <1>2, <1>3, <1>4, <1>6, <1>7, Zenon DEF ReserveStep

\* The steps of the desks and the parcel company, the reservations taken together
LEMMA OwsSteps ==
  ASSUME OwsNext
  PROVE  \/ (Next \/ TicketNext) /\ UNCHANGED courierVars
         \/ ReserveStep
         \/ \E type \in {"forward", "recall"} : ManualNote(type)
         \/ \E w \in Wids : Register(w) \/ IssueCommit(w) \/ IssueCleanUp(w) \/ RecallCommit(w)
                            \/ RecallFail(w)
         \/ CancelNext
         \/ \E w \in Wids, back \in Returnable : MarkReceived(w, back)
         \/ StartRound
         \/ \E w \in Wids : TrackAsk(w) \/ TrackWrite(w) \/ Sweep(w)
         \/ Crash
  BY Zenon DEF OwsNext, IssueNext, RecallNext, TrackNext, ReserveStep

\* A row somebody notes is one that is not there yet
LEMMA NotedRow ==
  ASSUME TypeOK, NEW type, ManualNote(type)
  PROVE  /\ LastWid + 1 \in Wids
         /\ waybill[LastWid + 1].status = "none"
  BY LastIsLast, BoundsAreNumbers DEF ManualNote, Wids

\* The stages are ranked as CJ passes them
LEMMA RankOfDelivered ==
  ASSUME NEW c \in CjStages, NEW d \in CjStages, Rank(c) <= Rank(d), c = "91"
  PROVE  d = "91"
<1>1. \A x \in CjStages : Rank(x) \in DOMAIN CjOrder /\ CjOrder[Rank(x)] = x
  <2> SUFFICES ASSUME NEW x \in CjStages PROVE Rank(x) \in DOMAIN CjOrder /\ CjOrder[Rank(x)] = x
    OBVIOUS
  <2>1. \E i \in DOMAIN CjOrder : CjOrder[i] = x
    <3>1. DOMAIN CjOrder = 1..4 /\ CjOrder[1] = "" /\ CjOrder[2] = "early"
          /\ CjOrder[3] = "moving" /\ CjOrder[4] = "91"
      BY DEF CjOrder
    <3>2. x = "" \/ x = "early" \/ x = "moving" \/ x = "91"
      BY DEF CjStages
    <3>3. {1, 2, 3, 4} \subseteq 1..4
      OBVIOUS
    <3> QED BY <3>1, <3>2, <3>3
  <2> QED BY <2>1, Zenon DEF Rank
<1>2. DOMAIN CjOrder = 1..4 /\ CjOrder[1] = "" /\ CjOrder[2] = "early"
      /\ CjOrder[3] = "moving" /\ CjOrder[4] = "91"
  BY DEF CjOrder
<1>3. Rank(c) \in 1..4 /\ Rank(d) \in 1..4 /\ CjOrder[Rank(c)] = "91" /\ CjOrder[Rank(d)] = d
  BY <1>1, <1>2
<1>4. Rank(c) = 4
  <2>1. Rank(c) = 1 \/ Rank(c) = 2 \/ Rank(c) = 3 \/ Rank(c) = 4
    BY <1>3
  <2> QED BY <2>1, <1>2, <1>3, Zenon
<1>5. Rank(d) = 4
  BY <1>3, <1>4
<1> QED BY <1>2, <1>3, <1>5

\* The rows of a request in turn are its own only
LEMMA RowsApart ==
  ASSUME TypeOK, RowsInTurn, NEW u \in Wids, NEW v \in job[u].rows
  PROVE  /\ v \in Wids /\ v \in InFlight /\ InTurn(u)
         /\ waybill[v].status = "pending" /\ ~undo[v].active /\ watch[v] = NotWatched
         /\ \A w \in Wids : v \in job[w].rows => w = u
<1>1. \A w \in Wids : job[w].rows \subseteq Wids
  BY DEF TypeOK, CourierOK, Jobs
<1>2. InTurn(u)
  BY DEF RowsInTurn
<1>3. v \in InFlight
  BY DEF InFlight
<1>4. waybill[v].lead = u
  BY <1>2 DEF InTurn
<1>5. \A w \in Wids : v \in job[w].rows => waybill[v].lead = w
  BY DEF RowsInTurn, InTurn
<1> QED BY <1>1, <1>2, <1>3, <1>4, <1>5 DEF InTurn

\* What a request takes back are its rows
LEMMA DroppedRows ==
  ASSUME TypeOK, RowsInTurn, NEW w \in Wids
  PROVE  Dropped(w) = [v \in Wids |-> IF v \in job[w].rows THEN NoWaybill ELSE waybill[v]]
  BY RowsApart DEF Dropped

\* A request stays in turn while nobody touches its rows but for their numbers
LEMMA TurnKept ==
  ASSUME NEW u \in Wids, InTurn(u), job'[u].rows = job[u].rows,
         \A v \in job[u].rows :
           /\ waybill'[v].status = waybill[v].status /\ waybill'[v].stage = waybill[v].stage
           /\ waybill'[v].lead = waybill[v].lead /\ waybill'[v].type = waybill[v].type
           /\ waybill'[v].order = waybill[v].order /\ waybill'[v].ticket = waybill[v].ticket
           /\ ~undo'[v].active /\ watch'[v] = NotWatched
  PROVE  InTurn(u)'
<1>1. u \in job[u].rows
  BY DEF InTurn
<1>2. \A v \in job[u].rows :
        /\ waybill'[v].status = "pending" /\ waybill'[v].stage = "" /\ waybill'[v].lead = u
        /\ waybill'[v].type = waybill'[u].type /\ waybill'[v].order = waybill'[u].order
        /\ waybill'[v].ticket = waybill'[u].ticket
        /\ ~undo'[v].active /\ watch'[v] = NotWatched
  BY <1>1, Zenon DEF InTurn
<1>3. waybill'[u].type = "recall" => job'[u].rows = {u}
  BY <1>1 DEF InTurn
<1> QED BY <1>1, <1>2, <1>3, Zenon DEF InTurn

\* Reserving new rows disturbs no request, cancel, round or number
LEMMA TurnReserve ==
  ASSUME TypeOK, TurnInv, ReserveStep
  PROVE  TurnInv'
<1>1. PICK lead \in Wids, rows \in SUBSET Wids, row \in WaybillRows : Reservation(lead, rows, row)
  BY StepReserves
<1>2. /\ waybill \in [Wids -> WaybillRows] /\ job \in [Wids -> Jobs]
      /\ tracking \in [Orders -> Wids \cup {NoInvoice}]
      /\ UNCHANGED <<undo, booked, watch, tracking>>
  BY <1>1 DEF TypeOK, RecordsOK, OrdersOK, ParcelsOK, CourierOK, Reservation
<1>3. \A v \in Wids :
        /\ v \notin rows => waybill'[v] = waybill[v]
        /\ v \in rows => /\ waybill[v].status = "none"
                         /\ waybill'[v].status = "pending" /\ waybill'[v].lead = lead
                         /\ waybill'[v].type = row.type /\ waybill'[v].order = row.order
                         /\ waybill'[v].ticket = row.ticket /\ waybill'[v].stage = ""
  BY <1>1, <1>2 DEF Reservation, WaybillRows
<1>4. \A v \in rows : ~undo[v].active /\ watch[v] = NotWatched
  BY <1>3 DEF TurnInv, SeenAsIs, Watched
<1>5. \A u \in Wids : \A v \in job[u].rows : v \notin rows
  BY <1>3, RowsApart DEF TurnInv
<1>6. /\ lead \in rows /\ job'[lead].rows = rows
      /\ row.type = "recall" => rows = {lead}
      /\ \A u \in Wids : u # lead => job'[u] = job[u]
  <2>1. PICK sent, real, failed :
          job' = [job EXCEPT ![lead] = [rows |-> rows, sent |-> sent, real |-> real,
                                        failed |-> failed]]
    BY <1>1, Zenon DEF Reservation
  <2>2. lead \in rows /\ (row.type = "recall" => rows = {lead})
    BY <1>1, Zenon DEF Reservation
  <2> QED BY <2>1, <2>2, <1>2
<1>7. RowsInTurn'
  <2> SUFFICES ASSUME NEW u \in Wids, job'[u].rows # {} PROVE InTurn(u)'
    BY DEF RowsInTurn
  <2>1. CASE u = lead
    <3>1. \A v \in rows :
            /\ waybill'[v].status = "pending" /\ waybill'[v].stage = "" /\ waybill'[v].lead = u
            /\ waybill'[v].type = waybill'[u].type /\ waybill'[v].order = waybill'[u].order
            /\ waybill'[v].ticket = waybill'[u].ticket
      BY <2>1, <1>3, <1>6
    <3>2. \A v \in rows : ~undo'[v].active /\ watch'[v] = NotWatched
      BY <1>2, <1>4, Zenon
    <3>3. waybill'[u].type = "recall" => job'[u].rows = {u}
      BY <2>1, <1>3, <1>6
    <3> QED BY <2>1, <3>1, <3>2, <3>3, <1>6, Zenon DEF InTurn
  <2>2. CASE u # lead
    <3>1. InTurn(u) /\ job[u].rows \subseteq Wids
      BY <2>2, <1>2, <1>6 DEF TurnInv, RowsInTurn, Jobs
    <3>2. \A v \in job[u].rows : waybill'[v] = waybill[v] /\ ~undo[v].active /\ watch[v] = NotWatched
      BY <3>1, <1>3, <1>5 DEF InTurn
    <3> QED BY <2>2, <3>1, <3>2, <1>2, <1>6, TurnKept
  <2> QED BY <2>1, <2>2
<1>8. SeenAsIs'
  BY <1>2, <1>3, <1>4 DEF TurnInv, SeenAsIs
<1>9. Tracked'
  <2> SUFFICES ASSUME NEW o \in Orders, tracking[o] # NoInvoice
               PROVE  waybill'[tracking[o]] = waybill[tracking[o]]
    BY <1>2 DEF TurnInv, Tracked
  <2>1. tracking[o] \in Wids /\ waybill[tracking[o]].status # "none"
    BY <1>2 DEF TurnInv, Tracked
  <2> QED BY <2>1, <1>3
<1>10. Watched'
  BY <1>2, <1>3, <1>4 DEF TurnInv, Watched
<1> QED BY <1>7, <1>8, <1>9, <1>10 DEF TurnInv

\* Noting one does not either
LEMMA TurnNote ==
  ASSUME TypeOK, TurnInv, NEW type \in {"forward", "recall"}, ManualNote(type)
  PROVE  TurnInv'
<1> DEFINE n == LastWid + 1
<1>1. n \in Wids /\ waybill[n].status = "none"
  BY NotedRow
<1> HIDE DEF n
<1>2. /\ waybill \in [Wids -> WaybillRows] /\ job \in [Wids -> Jobs]
      /\ tracking \in [Orders -> Wids \cup {NoInvoice}]
      /\ UNCHANGED <<job, undo, booked, watch, tracking>>
  BY DEF TypeOK, RecordsOK, OrdersOK, ParcelsOK, CourierOK, ManualNote, courierVars
<1>3. waybill'[n].status = "reserved" /\ \A v \in Wids : v # n => waybill'[v] = waybill[v]
  BY <1>1, <1>2 DEF ManualNote, NoWaybill, n
<1>4. ~undo[n].active /\ watch[n] = NotWatched
  BY <1>1 DEF TurnInv, SeenAsIs, Watched
<1>5. \A u \in Wids : \A v \in job[u].rows : v \in Wids /\ v # n
  BY <1>1, RowsApart DEF TurnInv
<1>6. RowsInTurn'
  <2> SUFFICES ASSUME NEW u \in Wids, job[u].rows # {} PROVE InTurn(u)'
    BY <1>2 DEF RowsInTurn
  <2>1. InTurn(u)
    BY DEF TurnInv, RowsInTurn
  <2>2. \A v \in job[u].rows : waybill'[v] = waybill[v] /\ ~undo[v].active /\ watch[v] = NotWatched
    BY <2>1, <1>3, <1>5 DEF InTurn
  <2> QED BY <2>1, <2>2, <1>2, TurnKept
<1>7. SeenAsIs'
  BY <1>2, <1>3, <1>4 DEF TurnInv, SeenAsIs
<1>8. Tracked'
  <2> SUFFICES ASSUME NEW o \in Orders, tracking[o] # NoInvoice
               PROVE  waybill'[tracking[o]] = waybill[tracking[o]]
    BY <1>2 DEF TurnInv, Tracked
  <2>1. tracking[o] \in Wids /\ waybill[tracking[o]].status # "none"
    BY <1>2 DEF TurnInv, Tracked
  <2> QED BY <2>1, <1>1, <1>3
<1>9. Watched'
  BY <1>2, <1>3, <1>4 DEF TurnInv, Watched
<1> QED BY <1>6, <1>7, <1>8, <1>9 DEF TurnInv

\* Registering a row: it is one nobody cancels and no round holds
LEMMA TurnRegister ==
  ASSUME TypeOK, TurnInv, NEW w \in Wids, Register(w)
  PROVE  TurnInv'
<1>1. /\ job \in [Wids -> Jobs] /\ UNCHANGED <<waybill, undo, watch, tracking>>
  BY DEF TypeOK, CourierOK, Register, recordVars
<1>2. PICK r \in job[w].rows : booked' \subseteq booked \cup {r}
  BY DEF Register
<1>3. r \in Wids /\ ~undo[r].active /\ watch[r] = NotWatched
  BY RowsApart DEF TurnInv
<1>4. \A u \in Wids : job'[u].rows = job[u].rows
  BY <1>1 DEF Register, Jobs
<1>5. RowsInTurn'
  <2> SUFFICES ASSUME NEW u \in Wids, job[u].rows # {} PROVE InTurn(u)'
    BY <1>4 DEF RowsInTurn
  <2>1. InTurn(u)
    BY DEF TurnInv, RowsInTurn
  <2>2. \A v \in job[u].rows : ~undo[v].active /\ watch[v] = NotWatched
    BY <2>1 DEF InTurn
  <2> QED BY <2>1, <2>2, <1>1, <1>4, TurnKept
<1>6. SeenAsIs' /\ Watched' /\ Tracked'
  BY <1>1, <1>2, <1>3 DEF TurnInv, SeenAsIs, Watched, Tracked
<1> QED BY <1>5, <1>6 DEF TurnInv

\* A request that ends leaves the other requests alone
LEMMA OthersInTurn ==
  ASSUME TypeOK, RowsInTurn, NEW w \in Wids, job' = [job EXCEPT ![w] = NoJob],
         UNCHANGED <<undo, watch>>,
         \A v \in Wids : v \notin job[w].rows => waybill'[v] = waybill[v]
  PROVE  RowsInTurn'
<1>1. job \in [Wids -> Jobs]
  BY DEF TypeOK, CourierOK
<1>2. job'[w].rows = {}
  BY <1>1 DEF NoJob
<1>3. SUFFICES ASSUME NEW u \in Wids, u # w, job[u].rows # {} PROVE InTurn(u)'
  BY <1>1, <1>2 DEF RowsInTurn
<1>4. InTurn(u)
  BY <1>3 DEF RowsInTurn
<1>5. \A v \in job[u].rows : waybill'[v] = waybill[v] /\ ~undo[v].active /\ watch[v] = NotWatched
  <2> SUFFICES ASSUME NEW v \in job[u].rows
               PROVE  waybill'[v] = waybill[v] /\ ~undo[v].active /\ watch[v] = NotWatched
    OBVIOUS
  <2> QED BY <1>3, RowsApart
<1> QED BY <1>1, <1>3, <1>4, <1>5, TurnKept

\* A request that commits: its rows are its own, and its first row is the order's number
LEMMA TurnIssue ==
  ASSUME TypeOK, TurnInv, NEW w \in Wids, IssueCommit(w)
  PROVE  TurnInv'
<1>1. /\ waybill \in [Wids -> WaybillRows] /\ job \in [Wids -> Jobs]
      /\ tracking \in [Orders -> Wids \cup {NoInvoice}]
      /\ UNCHANGED <<undo, booked, watch>>
  BY DEF TypeOK, RecordsOK, OrdersOK, ParcelsOK, CourierOK, IssueCommit
<1>2. InTurn(w)
  BY DEF IssueCommit, Ready, TurnInv, RowsInTurn
<1>3. \A v \in job[w].rows : v \in Wids /\ waybill[v].status = "pending" /\ ~undo[v].active
                             /\ watch[v] = NotWatched
  <2> SUFFICES ASSUME NEW v \in job[w].rows
               PROVE  v \in Wids /\ waybill[v].status = "pending" /\ ~undo[v].active
                      /\ watch[v] = NotWatched
    OBVIOUS
  <2> QED BY RowsApart DEF TurnInv
<1>4. \A v \in Wids :
        /\ v \notin job[w].rows => waybill'[v] = waybill[v]
        /\ v \in job[w].rows =>
             /\ waybill'[v].status \in {"issued", "test"}
             /\ waybill'[v].type = waybill[v].type /\ waybill'[v].order = waybill[v].order
             /\ waybill'[v].lead = waybill[v].lead
             /\ waybill[v].type = "forward" => waybill'[v].invoiced
  BY <1>1 DEF IssueCommit, WaybillRows
<1>5. RowsInTurn'
  BY <1>1, <1>4, OthersInTurn DEF TurnInv, IssueCommit
<1>6. \A o \in Orders :
        \/ tracking'[o] = tracking[o]
        \/ tracking'[o] = w /\ o = waybill[w].order /\ waybill[w].type = "forward"
  <2>1. waybill[w].order \in Orders \cup {NoOrder} /\ waybill[w].type \in {"forward", "recall"}
    BY <1>1 DEF WaybillRows
  <2>2. \/ tracking' = tracking
        \/ /\ waybill[w].order # NoOrder
           /\ tracking' = [tracking EXCEPT ![waybill[w].order] = w]
    BY DEF IssueCommit
  <2>3. waybill[w].order # NoOrder => waybill[w].type = "forward"
    BY DEF IssueCommit, Outgoing, Manually
  <2>4. CASE waybill[w].order # NoOrder /\ tracking' = [tracking EXCEPT ![waybill[w].order] = w]
    <3>1. \A o \in Orders : tracking'[o] = IF o = waybill[w].order THEN w ELSE tracking[o]
      BY <1>1, <2>4
    <3> QED BY <2>3, <2>4, <3>1
  <2> QED BY <2>2, <2>4
<1>7. w \in job[w].rows /\ waybill[w].lead = w
  BY <1>2 DEF InTurn
<1>8. SeenAsIs'
  BY <1>1, <1>3, <1>4, <1>6, <1>7 DEF TurnInv, SeenAsIs
<1>9. Tracked'
  <2> SUFFICES ASSUME NEW o \in Orders, tracking'[o] # NoInvoice
               PROVE  /\ waybill'[tracking'[o]].type = "forward"
                      /\ waybill'[tracking'[o]].order = o
                      /\ waybill'[tracking'[o]].invoiced
                      /\ waybill'[tracking'[o]].lead = tracking'[o]
                      /\ waybill'[tracking'[o]].status \in {"issued", "test", "delivered"}
    BY DEF Tracked
  <2>1. CASE tracking'[o] = tracking[o]
    <3>1. /\ tracking[o] \in Wids /\ waybill[tracking[o]].type = "forward"
          /\ waybill[tracking[o]].order = o /\ waybill[tracking[o]].invoiced
          /\ waybill[tracking[o]].lead = tracking[o]
          /\ waybill[tracking[o]].status \in {"issued", "test", "delivered"}
      BY <1>1, <2>1 DEF TurnInv, Tracked
    <3>2. waybill'[tracking[o]] = waybill[tracking[o]]
      BY <1>3, <1>4, <3>1
    <3> QED BY <2>1, <3>1, <3>2
  <2>2. CASE tracking'[o] # tracking[o]
    BY <1>4, <1>6, <1>7, <2>2
  <2> QED BY <2>1, <2>2
<1>10. Watched'
  BY <1>1, <1>3, <1>4 DEF TurnInv, Watched
<1> QED BY <1>5, <1>8, <1>9, <1>10 DEF TurnInv

\* A request that fails takes its rows back and nothing else
LEMMA TurnFail ==
  ASSUME TypeOK, TurnInv, NEW w \in Wids, IssueCleanUp(w) \/ RecallFail(w)
  PROVE  TurnInv'
<1>1. /\ waybill \in [Wids -> WaybillRows]
      /\ tracking \in [Orders -> Wids \cup {NoInvoice}]
      /\ UNCHANGED <<undo, watch, tracking>> /\ booked' \subseteq booked
      /\ job' = [job EXCEPT ![w] = NoJob] /\ waybill' = Dropped(w)
  BY DEF TypeOK, RecordsOK, OrdersOK, ParcelsOK, IssueCleanUp, RecallFail
<1>2. \A v \in job[w].rows : v \in Wids /\ waybill[v].status = "pending" /\ ~undo[v].active
                             /\ watch[v] = NotWatched
  <2> SUFFICES ASSUME NEW v \in job[w].rows
               PROVE  v \in Wids /\ waybill[v].status = "pending" /\ ~undo[v].active
                      /\ watch[v] = NotWatched
    OBVIOUS
  <2> QED BY RowsApart DEF TurnInv
<1>3. \A v \in Wids : /\ v \notin job[w].rows => waybill'[v] = waybill[v]
                      /\ v \in job[w].rows => waybill'[v].status = "none"
  <2>1. waybill' = [v \in Wids |-> IF v \in job[w].rows THEN NoWaybill ELSE waybill[v]]
    BY <1>1, DroppedRows DEF TurnInv
  <2>2. NoWaybill.status = "none"
    BY DEF NoWaybill
  <2> QED BY <2>1, <2>2
<1>4. RowsInTurn'
  BY <1>1, <1>3, OthersInTurn DEF TurnInv
<1>5. SeenAsIs'
  BY <1>1, <1>2, <1>3 DEF TurnInv, SeenAsIs
<1>6. Tracked'
  <2> SUFFICES ASSUME NEW o \in Orders, tracking[o] # NoInvoice
               PROVE  waybill'[tracking[o]] = waybill[tracking[o]]
    BY <1>1 DEF TurnInv, Tracked
  <2>1. tracking[o] \in Wids /\ waybill[tracking[o]].status # "pending"
    BY <1>1 DEF TurnInv, Tracked
  <2> QED BY <2>1, <1>2, <1>3
<1>7. Watched'
  BY <1>1, <1>2, <1>3 DEF TurnInv, Watched
<1> QED BY <1>4, <1>5, <1>6, <1>7 DEF TurnInv

\* A pickup that is booked
LEMMA TurnRecall ==
  ASSUME TypeOK, TurnInv, NEW w \in Wids, RecallCommit(w)
  PROVE  TurnInv'
<1>1. /\ waybill \in [Wids -> WaybillRows]
      /\ tracking \in [Orders -> Wids \cup {NoInvoice}]
      /\ UNCHANGED <<undo, booked, watch, tracking>>
      /\ job' = [job EXCEPT ![w] = NoJob]
  BY DEF TypeOK, RecordsOK, OrdersOK, ParcelsOK, RecallCommit
<1>2. InTurn(w)
  BY DEF RecallCommit, Ready, TurnInv, RowsInTurn
<1>3. w \in job[w].rows /\ waybill[w].status = "pending" /\ ~undo[w].active /\ watch[w] = NotWatched
  BY <1>2 DEF InTurn
<1>4. /\ \A v \in Wids : v # w => waybill'[v] = waybill[v]
      /\ waybill'[w].status \in {"issued", "test"}
  BY <1>1 DEF RecallCommit, WaybillRows
<1>5. RowsInTurn'
  BY <1>1, <1>3, <1>4, OthersInTurn DEF TurnInv
<1>6. SeenAsIs'
  BY <1>1, <1>3, <1>4 DEF TurnInv, SeenAsIs
<1>7. Tracked'
  <2> SUFFICES ASSUME NEW o \in Orders, tracking[o] # NoInvoice
               PROVE  waybill'[tracking[o]] = waybill[tracking[o]]
    BY <1>1 DEF TurnInv, Tracked
  <2>1. tracking[o] \in Wids /\ waybill[tracking[o]].status # "pending"
    BY <1>1 DEF TurnInv, Tracked
  <2> QED BY <2>1, <1>3, <1>4
<1>8. Watched'
  BY <1>1, <1>3, <1>4 DEF TurnInv, Watched
<1> QED BY <1>5, <1>6, <1>7, <1>8 DEF TurnInv

\* Cancelling: read, ask and write, one after the other
LEMMA TurnCancel ==
  ASSUME TypeOK, TurnInv, CancelNext, Patient
  PROVE  TurnInv'
<1>1. /\ waybill \in [Wids -> WaybillRows] /\ undo \in [Wids -> Undos]
      /\ tracking \in [Orders -> Wids \cup {NoInvoice}]
  BY DEF TypeOK, RecordsOK, OrdersOK, ParcelsOK, CourierOK
<1>2. ASSUME NEW w \in Wids, w \notin InFlight, UNCHANGED <<job, watch>>,
             \A v \in Wids : v # w => waybill'[v] = waybill[v] /\ undo'[v] = undo[v]
      PROVE  RowsInTurn'
  <2> SUFFICES ASSUME NEW u \in Wids, job[u].rows # {} PROVE InTurn(u)'
    BY <1>2 DEF RowsInTurn
  <2>1. InTurn(u)
    BY DEF TurnInv, RowsInTurn
  <2>2. \A v \in job[u].rows : waybill'[v] = waybill[v] /\ ~undo'[v].active /\ watch[v] = NotWatched
    <3> SUFFICES ASSUME NEW v \in job[u].rows
                 PROVE  waybill'[v] = waybill[v] /\ ~undo'[v].active /\ watch[v] = NotWatched
      OBVIOUS
    <3>1. v \in Wids /\ v \in InFlight /\ ~undo[v].active /\ watch[v] = NotWatched
      BY RowsApart DEF TurnInv
    <3> QED BY <3>1, <1>2
  <2> QED BY <2>1, <2>2, <1>2, TurnKept
<1>3. ASSUME NEW w \in Wids, undo[w].active
      PROVE  w \notin InFlight
  <2>1. \A u \in Wids : w \notin job[u].rows
    BY <1>3, RowsApart DEF TurnInv
  <2> QED BY <2>1 DEF InFlight
<1>4. ASSUME NEW w \in Wids, CancelRead(w)
      PROVE  TurnInv'
  <2>1. /\ undo' = [undo EXCEPT ![w] = Snapshot(w)]
        /\ UNCHANGED <<job, booked, watch, waybill, tracking>>
        /\ waybill[w].status \notin {"none", "canceled", "delivered"}
    BY <1>4 DEF CancelRead, recordVars
  <2>2. /\ undo'[w].active /\ undo'[w].type = waybill[w].type
        /\ undo'[w].order = waybill[w].order /\ undo'[w].ticket = waybill[w].ticket
        /\ undo'[w].lead = waybill[w].lead /\ undo'[w].invoiced = waybill[w].invoiced
        /\ undo'[w].ask = (waybill[w].status = "issued")
        /\ \A v \in Wids : v # w => undo'[v] = undo[v]
    BY <2>1, <1>1 DEF Snapshot
  <2>3. w \notin InFlight
    BY <2>2 DEF Patient
  <2>4. RowsInTurn'
    BY <1>2, <2>1, <2>2, <2>3
  <2>5. SeenAsIs'
    <3>1. \A o \in Orders : tracking[o] = w => undo'[w].invoiced
      <4>1. w # NoInvoice
        BY BoundsAreNumbers DEF Wids, NoInvoice
      <4> QED BY <2>2, <4>1 DEF TurnInv, Tracked
    <3>2. waybill[w].status = "issued" => undo'[w].ask
      BY <2>2
    <3> QED BY <2>1, <2>2, <3>1, <3>2 DEF TurnInv, SeenAsIs
  <2>6. Tracked'
    BY <2>1 DEF TurnInv, Tracked
  <2>7. Watched'
    BY <2>1, <2>2 DEF TurnInv, Watched
  <2> QED BY <2>4, <2>5, <2>6, <2>7 DEF TurnInv
<1>5. ASSUME NEW w \in Wids, NEW force \in BOOLEAN, CancelAsk(w, force)
      PROVE  TurnInv'
  <2>1. /\ UNCHANGED <<job, watch, waybill, tracking>> /\ booked' \subseteq booked /\ undo[w].ask
        /\ \/ undo' = [undo EXCEPT ![w] = NoUndo]
           \/ undo' = [undo EXCEPT ![w].ask = FALSE]
    BY <1>5 DEF CancelAsk, recordVars
  <2>2. /\ \A v \in Wids : v # w => undo'[v] = undo[v]
        /\ undo'[w].active => /\ undo[w].active /\ ~undo'[w].ask /\ w \notin booked'
                              /\ undo'[w].type = undo[w].type /\ undo'[w].order = undo[w].order
                              /\ undo'[w].ticket = undo[w].ticket
                              /\ undo'[w].lead = undo[w].lead
                              /\ undo'[w].invoiced = undo[w].invoiced
    <3>1. CASE undo' = [undo EXCEPT ![w] = NoUndo]
      BY <1>1, <3>1 DEF NoUndo
    <3>2. CASE undo' = [undo EXCEPT ![w].ask = FALSE]
      <4>1. /\ \A v \in Wids : v # w => undo'[v] = undo[v]
            /\ ~undo'[w].ask /\ undo'[w].active = undo[w].active
            /\ undo'[w].type = undo[w].type /\ undo'[w].order = undo[w].order
            /\ undo'[w].ticket = undo[w].ticket
            /\ undo'[w].lead = undo[w].lead
            /\ undo'[w].invoiced = undo[w].invoiced
        BY <1>1, <3>2 DEF Undos
      <4> QED BY <2>1, <4>1 DEF Patient
    <3> QED BY <2>1, <3>1, <3>2
  <2>3. RowsInTurn'
    <3> SUFFICES ASSUME NEW u \in Wids, job[u].rows # {} PROVE InTurn(u)'
      BY <2>1 DEF RowsInTurn
    <3>1. InTurn(u)
      BY DEF TurnInv, RowsInTurn
    <3>2. \A v \in job[u].rows : ~undo'[v].active /\ watch[v] = NotWatched
      <4> SUFFICES ASSUME NEW v \in job[u].rows PROVE ~undo'[v].active /\ watch[v] = NotWatched
        OBVIOUS
      <4>1. v \in Wids /\ ~undo[v].active /\ watch[v] = NotWatched
        BY RowsApart DEF TurnInv
      <4> QED BY <2>2, <4>1
    <3> QED BY <3>1, <3>2, <2>1, TurnKept
  <2>4. SeenAsIs'
    BY <2>1, <2>2 DEF TurnInv, SeenAsIs
  <2>5. Tracked'
    BY <2>1 DEF TurnInv, Tracked
  <2>6. Watched'
    BY <2>1, <2>2 DEF TurnInv, Watched
  <2> QED BY <2>3, <2>4, <2>5, <2>6 DEF TurnInv
<1>6. ASSUME NEW w \in Wids, CancelWrite(w)
      PROVE  TurnInv'
  <2>1. /\ UNCHANGED <<job, booked, watch>> /\ undo[w].active /\ ~undo[w].ask
        /\ undo' = [undo EXCEPT ![w] = NoUndo]
        /\ tracking' = Renumbered(w)
        /\ waybill' = [waybill EXCEPT ![w].status = IF @ = "none" THEN @ ELSE "canceled"]
    BY <1>6 DEF CancelWrite
  <2>2. /\ ~undo'[w].active /\ waybill'[w].status = "canceled"
        /\ \A v \in Wids : v # w => undo'[v] = undo[v] /\ waybill'[v] = waybill[v]
    <3>1. waybill[w].status # "none"
      BY <2>1 DEF TurnInv, SeenAsIs
    <3> QED BY <1>1, <2>1, <3>1 DEF NoUndo, WaybillRows
  <2>3. \A o \in Orders : /\ tracking'[o] = tracking[o] \/ tracking'[o] = NoInvoice
                          /\ tracking[o] = w => tracking'[o] = NoInvoice
    <3> SUFFICES ASSUME NEW o \in Orders
                 PROVE  /\ tracking'[o] = tracking[o] \/ tracking'[o] = NoInvoice
                        /\ tracking[o] = w => tracking'[o] = NoInvoice
      OBVIOUS
    <3>1. w # NoInvoice
      BY BoundsAreNumbers DEF Wids, NoInvoice
    <3>2. tracking[o] = w =>
            /\ undo[w].type = "forward" /\ undo[w].order = o
            /\ undo[w].invoiced /\ undo[w].lead = w
      BY <2>1, <3>1 DEF TurnInv, SeenAsIs, Tracked
    <3>3. o # NoOrder
      BY NullsAreNotRows
    <3> QED BY <1>1, <2>1, <3>2, <3>3 DEF Renumbered
  <2>4. RowsInTurn'
    BY <1>2, <1>3, <2>1, <2>2
  <2>5. SeenAsIs'
    <3> SUFFICES ASSUME NEW v \in Wids, undo'[v].active
                 PROVE  /\ v # w
                        /\ \A o \in Orders : tracking'[o] = v => tracking[o] = v
      BY <2>1, <2>2 DEF TurnInv, SeenAsIs
    <3>1. v # w /\ v # NoInvoice
      BY <2>2, BoundsAreNumbers DEF Wids, NoInvoice
    <3> QED BY <3>1, <2>3
  <2>6. Tracked'
    <3> SUFFICES ASSUME NEW o \in Orders, tracking'[o] # NoInvoice
                 PROVE  tracking[o] = tracking'[o] /\ waybill'[tracking[o]] = waybill[tracking[o]]
      BY DEF TurnInv, Tracked
    <3>1. tracking[o] = tracking'[o] /\ tracking[o] # w /\ tracking[o] \in Wids
      BY <2>3, <1>1
    <3> QED BY <3>1, <2>2
  <2>7. Watched'
    BY <2>1, <2>2 DEF TurnInv, Watched
  <2> QED BY <2>4, <2>5, <2>6, <2>7 DEF TurnInv
<1> QED BY <1>4, <1>5, <1>6 DEF CancelNext

\* A step that only writes on, or only follows, a row no request waits for
LEMMA TurnFollow ==
  ASSUME TypeOK, TurnInv, NEW w \in Wids, w \notin InFlight,
         \A v \in Wids : v # w => waybill'[v] = waybill[v],
         waybill'[w].type = waybill[w].type, waybill'[w].order = waybill[w].order,
         waybill'[w].ticket = waybill[w].ticket, waybill'[w].lead = waybill[w].lead,
         waybill[w].invoiced => waybill'[w].invoiced,
         waybill[w].status # "none",
         \/ waybill'[w].status = waybill[w].status
         \/ waybill'[w].status = "delivered"
         \/ waybill'[w].status = "issued" /\ watch[w] # NotWatched /\ w \in booked,
         waybill'[w].type = "forward" /\ waybill'[w].status = "delivered"
           => waybill'[w].stage = "91",
         UNCHANGED <<job, undo, booked, tracking>>,
         \A v \in Wids : watch'[v] \in {watch[v], NotWatched}
  PROVE  TurnInv'
<1>1. /\ tracking \in [Orders -> Wids \cup {NoInvoice}]
      /\ waybill \in [Wids -> WaybillRows]
  BY DEF TypeOK, RecordsOK, OrdersOK, ParcelsOK
<1>2. RowsInTurn'
  <2> SUFFICES ASSUME NEW u \in Wids, job[u].rows # {} PROVE InTurn(u)'
    BY DEF RowsInTurn
  <2>1. InTurn(u)
    BY DEF TurnInv, RowsInTurn
  <2>2. \A v \in job[u].rows : waybill'[v] = waybill[v] /\ ~undo[v].active /\ watch'[v] = NotWatched
    <3> SUFFICES ASSUME NEW v \in job[u].rows
                 PROVE  waybill'[v] = waybill[v] /\ ~undo[v].active /\ watch'[v] = NotWatched
      OBVIOUS
    <3>1. v \in Wids /\ v \in InFlight /\ ~undo[v].active /\ watch[v] = NotWatched
      BY RowsApart DEF TurnInv
    <3> QED BY <3>1
  <2> QED BY <2>1, <2>2, TurnKept
<1>3. SeenAsIs'
  <2> SUFFICES ASSUME NEW v \in Wids, undo[v].active
               PROVE  /\ waybill'[v].status # "none"
                      /\ undo[v].type = waybill'[v].type /\ undo[v].order = waybill'[v].order
                      /\ undo[v].ticket = waybill'[v].ticket /\ undo[v].lead = waybill'[v].lead
                      /\ \A o \in Orders : tracking[o] = v => undo[v].invoiced
                      /\ ~undo[v].ask /\ waybill'[v].status = "issued" => v \notin booked
    BY DEF SeenAsIs
  <2>1. CASE v # w
    BY <2>1 DEF TurnInv, SeenAsIs
  <2>2. CASE v = w
    <3>1. ~undo[w].ask /\ waybill'[w].status = "issued" => w \notin booked
      BY <2>2 DEF TurnInv, SeenAsIs, Watched
    <3> QED BY <2>2, <3>1 DEF TurnInv, SeenAsIs
  <2> QED BY <2>1, <2>2
<1>4. Tracked'
  <2> SUFFICES ASSUME NEW o \in Orders, tracking[o] # NoInvoice
               PROVE  /\ waybill'[tracking[o]].type = "forward"
                      /\ waybill'[tracking[o]].order = o
                      /\ waybill'[tracking[o]].invoiced
                      /\ waybill'[tracking[o]].lead = tracking[o]
                      /\ waybill'[tracking[o]].status \in {"issued", "test", "delivered"}
    BY DEF Tracked
  <2>1. /\ tracking[o] \in Wids /\ waybill[tracking[o]].type = "forward"
        /\ waybill[tracking[o]].order = o /\ waybill[tracking[o]].invoiced
        /\ waybill[tracking[o]].lead = tracking[o]
        /\ waybill[tracking[o]].status \in {"issued", "test", "delivered"}
    BY <1>1 DEF TurnInv, Tracked
  <2>2. CASE tracking[o] # w
    BY <2>1, <2>2
  <2>3. CASE tracking[o] = w
    BY <2>1, <2>3
  <2> QED BY <2>2, <2>3
<1>5. Watched'
  <2> SUFFICES ASSUME NEW v \in Wids
               PROVE  /\ watch'[v] # NotWatched =>
                           /\ waybill'[v].status \in {"issued", "delivered", "canceled"}
                           /\ waybill'[v].status = "canceled" => v \notin booked
                           /\ undo[v].active /\ ~undo[v].ask => v \notin booked
                      /\ waybill'[v].type = "forward" /\ waybill'[v].status = "delivered"
                           => waybill'[v].stage = "91"
    BY DEF Watched
  <2>1. CASE v # w
    BY <2>1 DEF TurnInv, Watched
  <2>2. CASE v = w
    BY <2>2 DEF TurnInv, Watched
  <2> QED BY <2>1, <2>2
<1> QED BY <1>2, <1>3, <1>4, <1>5 DEF TurnInv

\* What CJ reports of a row, and what it leaves of the others
LEMMA AppliedRow ==
  ASSUME TypeOK, NEW w \in Wids, NEW code \in CjStages, NEW was \in WaybillStatuses,
         NEW invoiced \in BOOLEAN, Apply(w, code, was, invoiced)
  PROVE  /\ \A v \in Wids : v # w => waybill'[v] = waybill[v]
         /\ waybill'[w].type = waybill[w].type /\ waybill'[w].order = waybill[w].order
         /\ waybill'[w].ticket = waybill[w].ticket /\ waybill'[w].lead = waybill[w].lead
         /\ waybill'[w].prev = waybill[w].prev
         /\ waybill'[w].stage = code /\ waybill'[w].invoiced = invoiced
         /\ waybill'[w].status = IF code = "91" THEN "delivered" ELSE was
         /\ UNCHANGED <<tracking, before>>
<1>1. /\ waybill \in [Wids -> WaybillRows]
      /\ waybill' = [waybill EXCEPT ![w].stage = code, ![w].invoiced = invoiced,
                                    ![w].status = IF code = "91" THEN "delivered" ELSE was]
  BY DEF TypeOK, RecordsOK, ParcelsOK, Apply
<1>2. UNCHANGED <<tracking, before>>
  BY DEF Apply, ApplyRecall, ApplyForward
<1> QED BY <1>1, <1>2 DEF WaybillRows

\* Taking a machine in leaves a row that has come
LEMMA ReceivedRow ==
  ASSUME TypeOK, NEW w \in Wids, NEW back, MarkReceived(w, back)
  PROVE  /\ \A v \in Wids : v # w => waybill'[v] = waybill[v]
         /\ waybill'[w].type = waybill[w].type /\ waybill'[w].order = waybill[w].order
         /\ waybill'[w].ticket = waybill[w].ticket /\ waybill'[w].lead = waybill[w].lead
         /\ waybill'[w].prev = waybill[w].prev /\ waybill'[w].invoiced = waybill[w].invoiced
         /\ waybill'[w].status = "delivered" /\ waybill'[w].stage = "91"
         /\ UNCHANGED <<tracking, before, courierVars>>
<1>1. waybill \in [Wids -> WaybillRows]
  BY DEF TypeOK, RecordsOK, ParcelsOK
<1> QED BY <1>1 DEF MarkReceived, WaybillRows

\* What CJ has told stays so until it is written
LEMMA NextAnswered == TypeOK /\ Answered /\ [OwsNext /\ Patient]_vars => Answered'
<1> SUFFICES ASSUME TypeOK, Answered, [OwsNext /\ Patient]_vars,
                    NEW w \in Wids, watch'[w].told # ""
             PROVE  Reports(w, watch[w].told)'
  BY DEF Answered
<1>1. watch \in [Wids -> Watches]
  BY DEF TypeOK, CourierOK
<1>2. CASE UNCHANGED vars
  BY <1>2 DEF vars, recordVars, courierVars, Answered, Reports
<1>3. CASE OwsNext /\ Patient
  <2>1. waybill'[w] = waybill[w] /\ w \in booked'
    BY <1>3 DEF Patient, Undisturbed
  <2>2. ASSUME Reports(w, watch'[w].told)
        PROVE  Reports(w, watch[w].told)'
    BY <2>1, <2>2 DEF Reports
  <2>3. CASE UNCHANGED watch
    BY <2>2, <2>3 DEF Answered
  <2>4. CASE Crash \/ StartRound
    <3>1. watch'[w].told = ""
      BY <2>4, WatchTyping DEF Crash, StartRound, NotWatched
    <3> QED BY <3>1
  <2>5. ASSUME NEW u \in Wids, TrackAsk(u) \/ TrackWrite(u)
        PROVE  Reports(w, watch'[w].told)
    <3>1. CASE u # w
      BY <1>1, <2>5, <3>1 DEF TrackAsk, TrackWrite, Answered
    <3>2. CASE u = w
      <4>1. watch' # [watch EXCEPT ![w] = NotWatched]
        BY <1>1, WatchTyping
      <4>2. PICK code \in CjStages : /\ Reports(w, code)
                                     /\ watch' = [watch EXCEPT ![w].told = code]
        BY <2>5, <3>2, <4>1 DEF TrackAsk, TrackWrite
      <4>3. watch'[w].told = code
        BY <1>1, <4>2 DEF Watches
      <4> QED BY <4>2, <4>3
    <3> QED BY <3>1, <3>2
  <2> QED BY <1>3, <2>2, <2>3, <2>4, <2>5 DEF OwsNext, courierVars, IssueNext, IssueReserve,
             ReturnReserve, ManualReserve, ManualNote, Register, IssueCommit, IssueCleanUp,
             CancelNext, CancelRead, CancelAsk, CancelWrite, RecallNext, RecallOrder,
             RecallTicket, RecallCommit, RecallFail, MarkReceived, TrackNext, Sweep
<1> QED BY <1>2, <1>3

\* A row the tracker is done with, or has an answer for, is as it was
LEMMA TurnAsk ==
  ASSUME TypeOK, TurnInv, NEW w \in Wids, TrackAsk(w)
  PROVE  TurnInv'
<1>1. /\ UNCHANGED <<waybill, tracking, job, undo, booked>>
      /\ watch[w] # NotWatched /\ watch \in [Wids -> Watches]
      /\ \A v \in Wids : v # w => watch'[v] = watch[v]
  BY DEF TrackAsk, recordVars, TypeOK, CourierOK
<1>2. RowsInTurn'
  <2> SUFFICES ASSUME NEW u \in Wids, job[u].rows # {} PROVE InTurn(u)'
    BY <1>1 DEF RowsInTurn
  <2>1. InTurn(u)
    BY DEF TurnInv, RowsInTurn
  <2>2. \A v \in job[u].rows : ~undo[v].active /\ watch'[v] = NotWatched
    <3> SUFFICES ASSUME NEW v \in job[u].rows PROVE ~undo[v].active /\ watch'[v] = NotWatched
      OBVIOUS
    <3>1. v \in Wids /\ ~undo[v].active /\ watch[v] = NotWatched
      BY RowsApart DEF TurnInv
    <3> QED BY <3>1, <1>1
  <2> QED BY <2>1, <2>2, <1>1, TurnKept
<1>3. Watched'
  BY <1>1 DEF TurnInv, Watched
<1> QED BY <1>1, <1>2, <1>3 DEF TurnInv, SeenAsIs, Tracked

\* An answer to the tracker finds a row nobody cancelled and no request waits for
LEMMA TurnWrite ==
  ASSUME TypeOK, TurnInv, Answered, NEW w \in Wids, TrackWrite(w)
  PROVE  TurnInv'
<1>1. /\ watch \in [Wids -> Watches]
      /\ waybill \in [Wids -> WaybillRows]
      /\ watch[w] # NotWatched /\ watch' = [watch EXCEPT ![w] = NotWatched]
      /\ UNCHANGED <<job, undo, booked>>
  BY TrackersWord DEF TypeOK, RecordsOK, ParcelsOK, CourierOK, TrackWrite
<1>2. waybill[w].status \in {"issued", "delivered", "canceled"}
  BY <1>1 DEF TurnInv, Watched
<1>3. w \notin InFlight
  <2>1. \A u \in Wids : w \notin job[u].rows
    BY <1>1, RowsApart DEF TurnInv
  <2> QED BY <2>1 DEF InFlight
<1>4. \A v \in Wids : watch'[v] \in {watch[v], NotWatched}
  BY <1>1
<1>5. PICK code \in CjStages : Reports(w, code) /\ Apply(w, code, "issued", TRUE)
  BY TrackersCode DEF TrackWrite, Answered
<1>6. TurnInv'
  <2>1. /\ \A v \in Wids : v # w => waybill'[v] = waybill[v]
        /\ waybill'[w].type = waybill[w].type /\ waybill'[w].order = waybill[w].order
        /\ waybill'[w].ticket = waybill[w].ticket /\ waybill'[w].lead = waybill[w].lead
        /\ waybill'[w].stage = code /\ waybill'[w].invoiced = TRUE
        /\ waybill'[w].status = IF code = "91" THEN "delivered" ELSE "issued"
        /\ UNCHANGED tracking
    BY <1>5, AppliedRow DEF WaybillStatuses
  <2>2. w \in booked
    BY <1>5 DEF Reports
  <2> QED BY <1>1, <1>2, <1>3, <1>4, <2>1, <2>2, TurnFollow
<1> QED BY <1>6

\* A collection of invoices finds rows as they are
LEMMA TurnSweep ==
  ASSUME TypeOK, TurnInv, NEW w \in Wids, Sweep(w), Patient
  PROVE  TurnInv'
<1>1. /\ waybill \in [Wids -> WaybillRows]
      /\ waybill[w].status \notin {"none", "canceled"}
      /\ UNCHANGED <<job, undo, booked, watch>>
  BY DEF TypeOK, RecordsOK, ParcelsOK, Sweep, Sweepable, courierVars
<1>2. \A v \in Wids : watch'[v] \in {watch[v], NotWatched}
  BY <1>1
<1>3. ASSUME NEW invoiced \in {waybill[w].invoiced, TRUE},
             waybill' = [waybill EXCEPT ![w].invoiced = invoiced],
             UNCHANGED tracking
      PROVE  TurnInv'
  <2>1. /\ \A v \in Wids : /\ waybill'[v].status = waybill[v].status
                           /\ waybill'[v].stage = waybill[v].stage
                           /\ waybill'[v].type = waybill[v].type
                           /\ waybill'[v].order = waybill[v].order
                           /\ waybill'[v].ticket = waybill[v].ticket
                           /\ waybill'[v].lead = waybill[v].lead
        /\ \A v \in Wids : waybill[v].invoiced => waybill'[v].invoiced
    BY <1>1, <1>3 DEF WaybillRows
  <2>2. RowsInTurn'
    <3> SUFFICES ASSUME NEW u \in Wids, job[u].rows # {} PROVE InTurn(u)'
      BY <1>1 DEF RowsInTurn
    <3>1. InTurn(u)
      BY DEF TurnInv, RowsInTurn
    <3>2. \A v \in job[u].rows : v \in Wids /\ ~undo[v].active /\ watch[v] = NotWatched
      <4> SUFFICES ASSUME NEW v \in job[u].rows
                   PROVE  v \in Wids /\ ~undo[v].active /\ watch[v] = NotWatched
        OBVIOUS
      <4> QED BY RowsApart DEF TurnInv
    <3> QED BY <3>1, <3>2, <2>1, <1>1, TurnKept
  <2>3. SeenAsIs'
    BY <2>1, <1>1, <1>3 DEF TurnInv, SeenAsIs
  <2>4. Tracked'
    <3>1. tracking \in [Orders -> Wids \cup {NoInvoice}]
      BY DEF TypeOK, RecordsOK, OrdersOK
    <3> QED BY <3>1, <2>1, <1>3 DEF TurnInv, Tracked
  <2>5. Watched'
    BY <2>1, <1>1 DEF TurnInv, Watched
  <2> QED BY <2>2, <2>3, <2>4, <2>5 DEF TurnInv
<1>4. ASSUME NEW invoiced \in {waybill[w].invoiced, TRUE}, NEW code \in CjStages,
             Reports(w, code), code # waybill[w].stage,
             Apply(w, code, waybill[w].status, invoiced)
      PROVE  TurnInv'
  <2>1. waybill[w].status \in WaybillStatuses /\ waybill[w].invoiced \in BOOLEAN
        /\ waybill[w].stage \in CjStages
    BY <1>1 DEF WaybillRows
  <2>2. invoiced \in BOOLEAN
    BY <2>1
  <2>3. /\ \A v \in Wids : v # w => waybill'[v] = waybill[v]
        /\ waybill'[w].type = waybill[w].type /\ waybill'[w].order = waybill[w].order
        /\ waybill'[w].ticket = waybill[w].ticket /\ waybill'[w].lead = waybill[w].lead
        /\ waybill'[w].stage = code /\ waybill'[w].invoiced = invoiced
        /\ waybill'[w].status = IF code = "91" THEN "delivered" ELSE waybill[w].status
        /\ UNCHANGED tracking
    BY <1>4, <2>1, <2>2, AppliedRow
  <2>4. w \notin InFlight
    BY <1>4, <2>3 DEF Patient, Reports
  <2>5. waybill[w].invoiced => waybill'[w].invoiced
    BY <2>3
  <2>6. waybill'[w].type = "forward" /\ waybill'[w].status = "delivered"
          => waybill'[w].stage = "91"
    <3> SUFFICES ASSUME waybill[w].type = "forward", waybill'[w].status = "delivered"
                 PROVE  code = "91"
      BY <2>3
    <3>1. CASE waybill[w].status = "delivered"
      <4>1. waybill[w].stage = "91"
        BY <3>1 DEF TurnInv, Watched
      <4>2. Rank(waybill[w].stage) <= Rank(code)
        BY <1>4 DEF Reports
      <4> QED BY <4>1, <4>2, <2>1, RankOfDelivered
    <3> QED BY <3>1, <2>3
  <2> QED BY <1>1, <1>2, <2>3, <2>4, <2>5, <2>6, TurnFollow
<1> QED BY <1>3, <1>4 DEF Sweep

\* Requests in turn stay in turn, whatever the desks and the parcel company do
LEMMA NextInTurn == TypeOK /\ Answered /\ TurnInv /\ [OwsNext /\ Patient]_vars => TurnInv'
<1> SUFFICES ASSUME TypeOK, Answered, TurnInv, [OwsNext /\ Patient]_vars PROVE TurnInv'
  OBVIOUS
<1>1. ASSUME UNCHANGED <<waybill, tracking, job, undo, booked, watch>>
      PROVE  TurnInv'
  <2>1. ASSUME NEW u \in Wids, InTurn(u)
        PROVE  InTurn(u)'
    BY <1>1, <2>1, Zenon DEF InTurn
  <2>2. RowsInTurn'
    BY <1>1, <2>1 DEF TurnInv, RowsInTurn
  <2> QED BY <1>1, <2>2 DEF TurnInv, SeenAsIs, Tracked, Watched
<1>2. CASE (Next \/ TicketNext) /\ UNCHANGED courierVars
  BY <1>1, <1>2, DeskLeavesParcels, TicketLeavesParcels DEF courierVars
<1>3. CASE UNCHANGED vars
  BY <1>1, <1>3 DEF vars, recordVars, courierVars
<1>4. CASE Crash
  <2>1. /\ UNCHANGED <<waybill, tracking, booked>>
        /\ \A w \in Wids : job'[w].rows = {} /\ ~undo'[w].active /\ watch'[w] = NotWatched
    BY <1>4 DEF Crash, recordVars, NoJob, NoUndo
  <2> QED BY <2>1 DEF TurnInv, RowsInTurn, SeenAsIs, Tracked, Watched
<1>5. CASE StartRound
  <2>1. /\ UNCHANGED <<job, undo, booked, waybill, tracking>>
        /\ \A w \in Wids : watch'[w] # NotWatched => waybill[w].status = "issued"
    BY <1>5 DEF StartRound, Trackable, recordVars
  <2>2. RowsInTurn'
    <3> SUFFICES ASSUME NEW u \in Wids, job[u].rows # {} PROVE InTurn(u)'
      BY <2>1 DEF RowsInTurn
    <3>1. InTurn(u)
      BY DEF TurnInv, RowsInTurn
    <3>2. \A v \in job[u].rows : ~undo[v].active /\ watch'[v] = NotWatched
      <4> SUFFICES ASSUME NEW v \in job[u].rows PROVE ~undo[v].active /\ watch'[v] = NotWatched
        OBVIOUS
      <4>1. v \in Wids /\ ~undo[v].active /\ waybill[v].status = "pending"
        BY RowsApart DEF TurnInv
      <4> QED BY <4>1, <2>1
    <3> QED BY <3>1, <3>2, <2>1, TurnKept
  <2> QED BY <2>1, <2>2 DEF TurnInv, SeenAsIs, Tracked, Watched
<1>6. ASSUME NEW w \in Wids, NEW back \in Returnable, MarkReceived(w, back), Patient
      PROVE  TurnInv'
  <2>1. /\ \A v \in Wids : v # w => waybill'[v] = waybill[v]
        /\ waybill'[w].type = waybill[w].type /\ waybill'[w].order = waybill[w].order
        /\ waybill'[w].ticket = waybill[w].ticket /\ waybill'[w].lead = waybill[w].lead
        /\ waybill'[w].invoiced = waybill[w].invoiced
        /\ waybill'[w].status = "delivered" /\ waybill'[w].stage = "91"
        /\ UNCHANGED <<tracking, job, undo, booked, watch>>
    BY <1>6, ReceivedRow DEF courierVars
  <2>2. w \notin InFlight
    BY <1>6, <2>1 DEF Patient
  <2>3. waybill[w].status # "none"
    BY <1>6 DEF MarkReceived
  <2> QED BY <2>1, <2>2, <2>3, TurnFollow
<1>7. CASE OwsNext /\ Patient
  BY <1>2, <1>4, <1>5, <1>6, <1>7, OwsSteps, TurnReserve, TurnNote, TurnRegister, TurnIssue,
     TurnFail, TurnRecall, TurnCancel, TurnAsk, TurnWrite, TurnSweep
<1> QED BY <1>3, <1>7

\* At the start no request runs
LEMMA InitInTurn == OwsInit => TurnInv
<1> SUFFICES ASSUME OwsInit PROVE TurnInv
  OBVIOUS
<1>1. \A w \in Wids : job[w].rows = {} /\ ~undo[w].active /\ watch[w] = NotWatched
  BY DEF OwsInit, CourierInit, NoJob, NoUndo
<1>2. \A w \in Wids : waybill[w].status = "none"
  BY DEF OwsInit, Init, NoWaybill
<1>3. \A o \in Orders : tracking[o] = NoInvoice
  BY DEF OwsInit, Init
<1> QED BY <1>1, <1>2, <1>3 DEF TurnInv, RowsInTurn, SeenAsIs, Tracked, Watched

\* Where requests come in turn the rows are those of the tables too
LEMMA PatientTyping == PatientSpec => []TypeOK
<1>1. TypeOK /\ [OwsNext /\ Patient]_vars => TypeOK'
  BY OwsNextTyping
<1> QED BY <1>1, OwsInitTyping, PTL DEF PatientSpec

\* the tracker's answers hold
LEMMA StaysAnswered == PatientSpec => []Answered
<1>1. OwsInit => Answered
  BY WatchTyping DEF OwsInit, CourierInit, Answered
<1> QED BY <1>1, PatientTyping, NextAnswered, PTL DEF PatientSpec

\* and so does the invariant
LEMMA StaysInTurn == PatientSpec => []TurnInv
  BY PatientTyping, StaysAnswered, InitInTurn, NextInTurn, PTL DEF PatientSpec

\* While requests come in turn, the number an order shows is that of its own parcel, and nobody
\* has cancelled that parcel (issue_waybill, cancel_waybill, _apply_stage)
THEOREM PatientTrackingIsAlive == PatientSpec => []TrackingIsAlive
<1>1. TurnInv => TrackingIsAlive
  BY DEF TurnInv, Tracked, TrackingIsAlive
<1> QED BY <1>1, StaysInTurn, PTL

-----------------------------------------------------------------------------
(***************************************************************************)
(* One shipment per order                                                  *)
(***************************************************************************)

\* An outgoing row on its way
Out(row) == row.type = "forward" /\ row.status \in OpenStatus

\* Every outgoing row on its way was on its way before
KeepsOut ==
  \A v \in Wids : Out(waybill'[v]) =>
    /\ Out(waybill[v])
    /\ waybill'[v].order = waybill[v].order /\ waybill'[v].ticket = waybill[v].ticket
    /\ waybill'[v].lead = waybill[v].lead

\* The property in terms of the rows on their way
ShipsOnce ==
  \A v, w \in Wids :
    /\ Out(waybill[v]) /\ Out(waybill[w])
    /\ \/ waybill[v].order = waybill[w].order /\ waybill[v].order # NoOrder
       \/ waybill[v].ticket = waybill[w].ticket /\ waybill[v].ticket # NoTicket
    => waybill[v].lead = waybill[w].lead

\* says the same, before a step and after it
LEMMA ShipsOnceSays == (OneShipment <=> ShipsOnce) /\ (OneShipment <=> ShipsOnce)'
<1>1. \A r, s : /\ {r.type, s.type} = {"forward"}
                /\ {r.status, s.status} \subseteq OpenStatus
                <=> Out(r) /\ Out(s)
  BY DEF Out
<1>2. OneShipment <=> ShipsOnce
  <2>1. \A v, w \in Wids : /\ {waybill[v].type, waybill[w].type} = {"forward"}
                           /\ {waybill[v].status, waybill[w].status} \subseteq OpenStatus
                           <=> Out(waybill[v]) /\ Out(waybill[w])
    BY <1>1
  <2> QED BY <2>1, Zenon DEF OneShipment, ShipsOnce
<1>3. OneShipment' <=> ShipsOnce'
  <2>1. \A v, w \in Wids : /\ {waybill'[v].type, waybill'[w].type} = {"forward"}
                           /\ {waybill'[v].status, waybill'[w].status} \subseteq OpenStatus
                           <=> Out(waybill'[v]) /\ Out(waybill'[w])
    BY <1>1
  <2> QED BY <2>1, Zenon DEF OneShipment, ShipsOnce
<1> QED BY <1>2, <1>3

\* A row that is followed was on its way before
LEMMA KeptOut ==
  ASSUME TypeOK, NEW w \in Wids, \A v \in Wids : v # w => waybill'[v] = waybill[v],
         waybill'[w].type = waybill[w].type, waybill'[w].order = waybill[w].order,
         waybill'[w].ticket = waybill[w].ticket, waybill'[w].lead = waybill[w].lead,
         waybill'[w].type = "forward" /\ waybill'[w].status \in OpenStatus
           => waybill[w].status \in OpenStatus
  PROVE  KeepsOut
  BY DEF KeepsOut, Out

\* Only a reservation sets an outgoing row on its way
LEMMA OthersKeepOut ==
  ASSUME TypeOK, Answered, TurnInv, OwsNext /\ Patient, ~ReserveStep
  PROVE  KeepsOut
<1>1. waybill \in [Wids -> WaybillRows]
  BY DEF TypeOK, RecordsOK, ParcelsOK
<1>2. ASSUME UNCHANGED waybill
      PROVE  KeepsOut
  BY <1>2 DEF KeepsOut
<1>3. ASSUME NEW type \in {"forward", "recall"}, ManualNote(type)
      PROVE  KeepsOut
  <2> DEFINE n == LastWid + 1
  <2>1. n \in Wids
    BY <1>3, NotedRow
  <2>2. waybill'[n].status = "reserved" /\ \A v \in Wids : v # n => waybill'[v] = waybill[v]
    BY <1>1, <1>3, <2>1 DEF ManualNote, NoWaybill
  <2> HIDE DEF n
  <2> QED BY <2>1, <2>2 DEF KeepsOut, Out, OpenStatus
<1>4. ASSUME NEW w \in Wids, IssueCommit(w)
      PROVE  KeepsOut
  <2>1. \A v \in job[w].rows : v \in Wids /\ waybill[v].status = "pending"
    <3> SUFFICES ASSUME NEW v \in job[w].rows PROVE v \in Wids /\ waybill[v].status = "pending"
      OBVIOUS
    <3> QED BY RowsApart DEF TurnInv
  <2>2. \A v \in Wids :
          /\ v \notin job[w].rows => waybill'[v] = waybill[v]
          /\ waybill'[v].type = waybill[v].type /\ waybill'[v].order = waybill[v].order
          /\ waybill'[v].ticket = waybill[v].ticket /\ waybill'[v].lead = waybill[v].lead
    BY <1>1, <1>4 DEF IssueCommit, WaybillRows
  <2> QED BY <2>1, <2>2 DEF KeepsOut, Out, OpenStatus
<1>5. ASSUME NEW w \in Wids, IssueCleanUp(w) \/ RecallFail(w)
      PROVE  KeepsOut
  <2>1. waybill' = [v \in Wids |-> IF v \in job[w].rows THEN NoWaybill ELSE waybill[v]]
    BY <1>5, DroppedRows DEF IssueCleanUp, RecallFail, TurnInv
  <2>2. NoWaybill.status = "none"
    BY DEF NoWaybill
  <2> QED BY <2>1, <2>2 DEF KeepsOut, Out, OpenStatus
<1>6. ASSUME NEW w \in Wids, RecallCommit(w)
      PROVE  KeepsOut
  <2>1. waybill[w].type = "recall"
    BY <1>6 DEF RecallCommit, Collects
  <2>2. waybill'[w].type = "recall" /\ \A v \in Wids : v # w => waybill'[v] = waybill[v]
    BY <1>1, <1>6, <2>1 DEF RecallCommit, WaybillRows
  <2> QED BY <2>2 DEF KeepsOut, Out
<1>7. CASE CancelNext
  <2>1. ASSUME NEW w \in Wids, CancelWrite(w)
        PROVE  KeepsOut
    <3>1. /\ waybill'[w].status \in {"none", "canceled"}
          /\ \A v \in Wids : v # w => waybill'[v] = waybill[v]
      BY <1>1, <2>1 DEF CancelWrite, WaybillRows
    <3> QED BY <3>1 DEF KeepsOut, Out, OpenStatus
  <2> QED BY <1>2, <1>7, <2>1 DEF CancelNext, CancelRead, CancelAsk, recordVars
<1>8. ASSUME NEW w \in Wids, NEW back \in Returnable, MarkReceived(w, back)
      PROVE  KeepsOut
  BY <1>8, ReceivedRow DEF KeepsOut, Out, OpenStatus
<1>9. ASSUME NEW w \in Wids, TrackWrite(w)
      PROVE  KeepsOut
  <2>1. PICK code \in CjStages : Reports(w, code) /\ Apply(w, code, "issued", TRUE)
    BY <1>9, TrackersWord DEF TrackWrite, Answered
  <2>2. KeepsOut
    <3>1. /\ \A v \in Wids : v # w => waybill'[v] = waybill[v]
          /\ waybill'[w].type = waybill[w].type /\ waybill'[w].order = waybill[w].order
          /\ waybill'[w].ticket = waybill[w].ticket /\ waybill'[w].lead = waybill[w].lead
          /\ waybill'[w].status = IF code = "91" THEN "delivered" ELSE "issued"
      BY <2>1, AppliedRow DEF WaybillStatuses
    <3>2. waybill[w].status \in {"issued", "delivered", "canceled"}
      BY <1>9, TrackersWord DEF TurnInv, Watched
    <3>3. waybill[w].status # "canceled"
      BY <1>9, <2>1, TrackersWord DEF TurnInv, Watched, Reports
    <3>4. waybill[w].type = "forward" /\ waybill[w].status = "delivered" => code = "91"
      <4> SUFFICES ASSUME waybill[w].type = "forward", waybill[w].status = "delivered"
                   PROVE  code = "91"
        OBVIOUS
      <4>1. waybill[w].stage = "91" /\ waybill[w].stage \in CjStages
        BY <1>1 DEF TurnInv, Watched, WaybillRows
      <4>2. Rank(waybill[w].stage) <= Rank(code)
        BY <2>1 DEF Reports
      <4> QED BY <4>1, <4>2, RankOfDelivered
    <3> QED BY <3>1, <3>2, <3>3, <3>4, KeptOut DEF OpenStatus
  <2> QED BY <2>2
<1>10. ASSUME NEW w \in Wids, Sweep(w)
       PROVE  KeepsOut
  <2>1. waybill[w].status \in WaybillStatuses /\ waybill[w].invoiced \in BOOLEAN
    BY <1>1 DEF WaybillRows
  <2>2. ASSUME NEW invoiced, waybill' = [waybill EXCEPT ![w].invoiced = invoiced]
        PROVE  KeepsOut
    BY <1>1, <2>2 DEF KeepsOut, Out, WaybillRows
  <2>3. ASSUME NEW invoiced \in BOOLEAN, NEW code \in CjStages,
               Apply(w, code, waybill[w].status, invoiced)
        PROVE  KeepsOut
    <3>1. /\ \A v \in Wids : v # w => waybill'[v] = waybill[v]
          /\ waybill'[w].type = waybill[w].type /\ waybill'[w].order = waybill[w].order
          /\ waybill'[w].ticket = waybill[w].ticket /\ waybill'[w].lead = waybill[w].lead
          /\ waybill'[w].status = IF code = "91" THEN "delivered" ELSE waybill[w].status
      BY <2>1, <2>3, AppliedRow
    <3> QED BY <3>1, KeptOut DEF OpenStatus
  <2> QED BY <1>10, <2>1, <2>2, <2>3 DEF Sweep
<1>11. CASE (Next \/ TicketNext) /\ UNCHANGED courierVars
  BY <1>2, <1>11, DeskLeavesParcels, TicketLeavesParcels
<1>12. ASSUME StartRound \/ Crash \/ \E w \in Wids : Register(w) \/ TrackAsk(w)
       PROVE  KeepsOut
  BY <1>2, <1>12 DEF StartRound, Crash, Register, TrackAsk, recordVars
<1> QED BY <1>3, <1>4, <1>5, <1>6, <1>7, <1>8, <1>9, <1>10, <1>11, <1>12, OwsSteps

\* A step leaves one shipment per order and per ticket
LEMMA NextShipsOnce ==
  TypeOK /\ Answered /\ TurnInv /\ OneShipment /\ [OwsNext /\ Patient]_vars => OneShipment'
<1> SUFFICES ASSUME TypeOK, Answered, TurnInv, OneShipment, [OwsNext /\ Patient]_vars
             PROVE  OneShipment'
  OBVIOUS
<1>1. CASE UNCHANGED vars
  BY <1>1 DEF vars, recordVars, OneShipment
<1>2. CASE OwsNext /\ Patient /\ ~ReserveStep
  <2>1. KeepsOut
    BY <1>2, OthersKeepOut
  <2> QED BY <2>1, ShipsOnceSays DEF KeepsOut, ShipsOnce
<1>3. CASE ReserveStep
  <2>1. PICK lead \in Wids, rows \in SUBSET Wids, row \in WaybillRows :
          Reservation(lead, rows, row)
    BY <1>3, StepReserves
  <2>2. waybill \in [Wids -> WaybillRows]
    BY DEF TypeOK, RecordsOK, ParcelsOK
  <2>3. \A v \in Wids :
          /\ v \notin rows => waybill'[v] = waybill[v]
          /\ v \in rows => /\ waybill'[v].lead = lead /\ waybill'[v].type = row.type
                           /\ waybill'[v].order = row.order /\ waybill'[v].ticket = row.ticket
    BY <2>1, <2>2 DEF Reservation, WaybillRows
  <2>4. ASSUME NEW v \in Wids, row.type = "forward", Out(waybill[v])
        PROVE  /\ row.order # NoOrder => waybill[v].order # row.order
               /\ row.ticket # NoTicket => waybill[v].ticket # row.ticket
    BY <2>1, <2>4 DEF Reservation, Wanted, ForwardOf, OfTicket, Out
  <2> SUFFICES ASSUME NEW v \in Wids, NEW w \in Wids, Out(waybill'[v]), Out(waybill'[w]),
                      \/ waybill'[v].order = waybill'[w].order /\ waybill'[v].order # NoOrder
                      \/ waybill'[v].ticket = waybill'[w].ticket /\ waybill'[v].ticket # NoTicket
               PROVE  waybill'[v].lead = waybill'[w].lead
    BY ShipsOnceSays DEF ShipsOnce
  <2>5. CASE v \in rows /\ w \in rows
    BY <2>3, <2>5
  <2>6. CASE v \notin rows /\ w \notin rows
    BY <2>3, <2>6, ShipsOnceSays DEF ShipsOnce
  <2>7. CASE v \in rows /\ w \notin rows
    <3>1. row.type = "forward" /\ Out(waybill[w])
      BY <2>3, <2>7 DEF Out
    <3> QED BY <3>1, <2>3, <2>4, <2>7
  <2>8. CASE v \notin rows /\ w \in rows
    <3>1. row.type = "forward" /\ Out(waybill[v])
      BY <2>3, <2>8 DEF Out
    <3> QED BY <3>1, <2>3, <2>4, <2>8
  <2> QED BY <2>5, <2>6, <2>7, <2>8
<1> QED BY <1>1, <1>2, <1>3

\* While requests come in turn, an order, or a ticket, never has parcels of two requests on their
\* way (issue_waybill, issue_as_return_waybill, cancel_waybill, the tracker)
THEOREM PatientOneShipment == PatientSpec => []OneShipment
<1>1. OwsInit => OneShipment
  <2> SUFFICES ASSUME OwsInit PROVE OneShipment
    OBVIOUS
  <2>1. \A w \in Wids : ~Out(waybill[w])
    BY DEF OwsInit, Init, NoWaybill, Out, OpenStatus
  <2> QED BY <2>1, ShipsOnceSays DEF ShipsOnce
<1> QED BY <1>1, PatientTyping, StaysAnswered, StaysInTurn, NextShipsOnce, PTL DEF PatientSpec

-----------------------------------------------------------------------------
(***************************************************************************)
(* A machine on its way back is waited for                                 *)
(***************************************************************************)

\* The pickup of row is open and knows the status machine a gets back
Waits(row, a) ==
  row.type = "recall" /\ row.status \in OpenStatus /\ row.prev[a] \notin {Unlinked, "returning"}

\* The property, with the two facts it rests on: no status to fall back to is 'returning', and
\* a waybill nobody asked for notes no statuses
Awaited ==
  /\ \A a \in Assets : before[a] # "returning"
  /\ \A a \in Assets : status[a] = "returning" => \E w \in Wids : Waits(waybill[w], a)
  /\ \A w \in Wids : Plain(waybill[w])

\* It says what the property says
LEMMA AwaitedSays == Awaited => ReturningIsAwaited
  BY DEF Awaited, Waits, ReturningIsAwaited

\* A step that sends no machine back, and keeps what the machines on their way wait for
LEMMA AwaitedKept ==
  ASSUME Awaited, UNCHANGED before, \A w \in Wids : Plain(waybill'[w]),
         \A a \in Assets : status'[a] = "returning" =>
           /\ status[a] = "returning"
           /\ \A w \in Wids : Waits(waybill[w], a) => Waits(waybill'[w], a)
  PROVE  Awaited'
<1>1. \A w \in Wids : Plain(waybill[w])'
  BY Zenon DEF Plain
<1>2. ASSUME NEW a \in Assets, status'[a] = "returning"
      PROVE  \E w \in Wids : Waits(waybill[w], a)'
  <2>1. PICK w \in Wids : Waits(waybill[w], a)
    BY <1>2 DEF Awaited
  <2>2. Waits(waybill'[w], a)
    BY <1>2, <2>1
  <2> QED BY <2>2 DEF Waits
<1>3. \A a \in Assets : before'[a] # "returning"
  BY DEF Awaited
<1> QED BY <1>1, <1>2, <1>3 DEF Awaited

\* The desks send no machine back, and give none that status by a detour
LEMMA DeskReturnsNothing ==
  ASSUME RecordsOK, Awaited, Next
  PROVE  /\ \A a \in Assets : status'[a] = "returning" => status[a] = "returning"
         /\ \A a \in Assets : before'[a] # "returning"
<1> USE DEF RecordsOK, AssetsOK
<1> DEFINE Kept == /\ \A a \in Assets : status'[a] = "returning" => status[a] = "returning"
                   /\ \A a \in Assets : before'[a] # "returning"
<1> SUFFICES Kept
  OBVIOUS
<1>0. \A a \in Assets : before[a] # "returning"
  BY DEF Awaited
<1>a. \A o \in Orders, S \in SUBSET Assets, a \in Assets :
        Released(o, S)[a] = "returning" => status[a] = "returning"
  BY DEF Released, Back, Available
<1>1. ASSUME NEW o \in Orders, NEW u \in Users, StageStep(o, u)
      PROVE  Kept
  <2>1. ASSUME UNCHANGED before,
               UNCHANGED status \/ status' = Unshipped(o) \/ ShipAssets({o})
        PROVE  Kept
    BY <2>1, <1>0 DEF Unshipped, ShipAssets
  <2> HIDE DEF Kept
  <2>2. UNCHANGED before /\ (UNCHANGED status \/ status' = Unshipped(o) \/ ShipAssets({o}))
    BY <1>1 DEF StageStep, PreparingOn, PreparingOff, ProductionOn, ProductionOff, InspectionOn,
           InspectionOff, ShippingOn, ShippingOff, assetVars
  <2> QED BY <2>1, <2>2
<1>2. ASSUME NEW o \in Orders, MatchStep(o)
      PROVE  Kept
  <2>1. ASSUME NEW wanted \in SUBSET Assets, NEW misfits, NEW force, NEW last, NEW gone,
               SetOrderAssets(o, wanted, force, misfits, last, gone)
        PROVE  Kept
    <3> DEFINE add  == wanted \ AssetsOf(o)
               drop == AssetsOf(o) \ wanted
    <3>1. /\ UNCHANGED before
          /\ status' = [a \in Assets |-> IF a \in add THEN "reserved" ELSE Released(o, drop)[a]]
      BY <2>1 DEF SetOrderAssets
    <3>2. drop \in SUBSET Assets
      BY DEF AssetsOf
    <3> HIDE DEF add, drop
    <3> QED BY <3>1, <3>2, <1>0, <1>a
  <2>2. ASSUME NEW a \in Assets, PrebuildRework(o, a)
        PROVE  Kept
    BY <2>2, <1>0 DEF PrebuildRework, assetVars
  <2> HIDE DEF Kept
  <2> QED BY <1>2, <2>1, <2>2 DEF MatchStep
<1>3. ASSUME NEW o \in Orders, MarkStep(o)
      PROVE  Kept
  <2>1. ASSUME NEW force \in BOOLEAN, Cancel(o, force)
        PROVE  Kept
    <3>1. status' = Released(o, AssetsOf(o)) /\ UNCHANGED before
      BY <2>1 DEF Cancel
    <3>2. AssetsOf(o) \in SUBSET Assets
      BY DEF AssetsOf
    <3> QED BY <3>1, <3>2, <1>0, <1>a
  <2>2. CASE \A force \in BOOLEAN : ~Cancel(o, force)
    BY <1>3, <2>2, <1>0, MarkFrame
  <2> QED BY <2>1, <2>2
<1>4. ASSUME NEW S \in SUBSET Orders, NEW u \in Users, ShipToday(S, u)
      PROVE  Kept
  BY <1>4, <1>0 DEF ShipToday, ShipAssets
<1>5. CASE PrebuildNext
  BY <1>5, <1>0, PrebuildFrame
<1>6. CASE AssetNext
  BY <1>6, <1>0, HandStatusesAreManual DEF AssetNext, ChangeStatus, ChangeTier, ChangeListing,
     PurchaseCancel, PurchaseUncancel, Restock, Receive, Manual, Cancelable
<1> HIDE DEF Kept
<1>7. CASE BoardNext
  <2>1. \A S \in SUBSET Orders \ {{}} : S \in SUBSET Orders
    OBVIOUS
  <2> QED BY <1>1, <1>2, <1>3, <1>4, <1>7, <2>1, Zenon DEF BoardNext
<1> QED BY <1>5, <1>6, <1>7 DEF Next

\* A reservation sends back the machines whose status its row notes
LEMMA ReservationAwaits ==
  ASSUME TypeOK, Awaited, ReserveStep
  PROVE  Awaited'
<1>1. PICK lead \in Wids, rows \in SUBSET Wids, row \in WaybillRows :
        Reservation(lead, rows, row)
  BY StepReserves
<1>2. /\ status \in [Assets -> AssetStatuses] /\ waybill \in [Wids -> WaybillRows]
      /\ UNCHANGED before
  BY <1>1 DEF TypeOK, RecordsOK, AssetsOK, ParcelsOK, Reservation
<1>3. \A w \in Wids :
        /\ w \notin rows => waybill'[w] = waybill[w]
        /\ w \in rows => /\ waybill[w].status = "none" /\ waybill'[w].status = "pending"
                         /\ waybill'[w].type = row.type /\ waybill'[w].order = row.order
                         /\ waybill'[w].ticket = row.ticket /\ waybill'[w].prev = row.prev
  BY <1>1, <1>2 DEF Reservation, WaybillRows
<1>4. \A w \in Wids : Plain(waybill[w])'
  <2>1. Plain(row)
    BY <1>1 DEF Reservation
  <2> QED BY <1>3, <2>1 DEF Awaited, Plain
<1>5. ASSUME NEW a \in Assets, status'[a] = "returning"
      PROVE  \E w \in Wids : Waits(waybill[w], a)'
  <2>1. CASE status[a] = "returning"
    <3>1. PICK w \in Wids : Waits(waybill[w], a)
      BY <2>1 DEF Awaited
    <3>2. waybill'[w] = waybill[w]
      BY <1>3, <3>1 DEF Waits, OpenStatus
    <3> QED BY <3>1, <3>2 DEF Waits
  <2>2. CASE status[a] # "returning"
    <3>1. row.type = "recall" /\ row.prev[a] = status[a]
      BY <1>1, <1>5, <2>2 DEF Reservation, Noted
    <3>2. lead \in rows
      BY <1>1 DEF Reservation
    <3>3. status[a] \notin {Unlinked, "returning"}
      BY <1>2, <2>2 DEF AssetStatuses, Unlinked
    <3> QED BY <1>3, <3>1, <3>2, <3>3 DEF Waits, OpenStatus
  <2> QED BY <2>1, <2>2
<1>6. \A a \in Assets : before'[a] # "returning"
  BY <1>2 DEF Awaited
<1> QED BY <1>4, <1>5, <1>6 DEF Awaited

\* A machine that arrives waits no longer, and no other waited for its pickup
LEMMA ArriveAwaits ==
  ASSUME TypeOK, Awaited, NEW w \in Wids, NEW back, Arrive(w, back), back # "returning",
         UNCHANGED before, \A v \in Wids : v # w => waybill'[v] = waybill[v],
         waybill'[w].order = waybill[w].order, waybill'[w].ticket = waybill[w].ticket,
         waybill'[w].prev = waybill[w].prev
  PROVE  Awaited'
<1>1. \A v \in Wids : Plain(waybill'[v])
  BY DEF Awaited, Plain
<1>2. ASSUME NEW a \in Assets, status'[a] = "returning"
      PROVE  status[a] = "returning" /\ waybill[w].prev[a] = Unlinked
  BY <1>2 DEF Arrive, Arrived, RecallOf
<1>3. \A a \in Assets : status'[a] = "returning" =>
        \A v \in Wids : Waits(waybill[v], a) => Waits(waybill'[v], a)
  BY <1>2 DEF Waits
<1> QED BY <1>1, <1>2, <1>3, AwaitedKept

\* A row that is followed, and stays open if it was, is waited for as before
LEMMA FollowAwaits ==
  ASSUME TypeOK, Awaited, NEW w \in Wids, UNCHANGED before,
         \A a \in Assets : status'[a] = "returning" => status[a] = "returning",
         \A v \in Wids : v # w => waybill'[v] = waybill[v],
         waybill'[w].type = waybill[w].type, waybill'[w].order = waybill[w].order,
         waybill'[w].ticket = waybill[w].ticket, waybill'[w].prev = waybill[w].prev,
         waybill[w].type = "recall" /\ waybill[w].status \in OpenStatus
           => waybill'[w].status \in OpenStatus
  PROVE  Awaited'
<1>1. \A v \in Wids : Plain(waybill'[v])
  BY DEF Awaited, Plain
<1>2. \A a \in Assets, v \in Wids : Waits(waybill[v], a) => Waits(waybill'[v], a)
  BY DEF Waits
<1> QED BY <1>1, <1>2, AwaitedKept

\* CJ's word on a row keeps what is waited for: a pickup it brings home is no longer waited for
LEMMA ApplyAwaits ==
  ASSUME TypeOK, Awaited, NEW w \in Wids, NEW code \in CjStages, NEW was \in WaybillStatuses,
         NEW invoiced \in BOOLEAN, Apply(w, code, was, invoiced),
         waybill[w].status \in OpenStatus => was \in OpenStatus
  PROVE  Awaited'
<1>1. /\ \A v \in Wids : v # w => waybill'[v] = waybill[v]
      /\ waybill'[w].type = waybill[w].type /\ waybill'[w].order = waybill[w].order
      /\ waybill'[w].ticket = waybill[w].ticket /\ waybill'[w].prev = waybill[w].prev
      /\ waybill'[w].status = IF code = "91" THEN "delivered" ELSE was
      /\ UNCHANGED before
  BY AppliedRow
<1>2. CASE waybill[w].type = "recall" /\ code = "91" /\ was # "delivered"
  <2>1. Arrive(w, "refurbishing")
    BY <1>2 DEF Apply, ApplyRecall
  <2> QED BY <1>1, <2>1, ArriveAwaits
<1>3. CASE waybill[w].type = "recall" /\ ~(code = "91" /\ was # "delivered")
  <2>1. UNCHANGED status
    BY <1>3 DEF Apply, ApplyRecall
  <2> QED BY <1>1, <1>3, <2>1, FollowAwaits DEF OpenStatus
<1>4. CASE waybill[w].type # "recall"
  <2>1. \A a \in Assets : status'[a] = "returning" => status[a] = "returning"
    BY <1>4 DEF Apply, ApplyForward, HandedOver
  <2> QED BY <1>1, <1>4, <2>1, FollowAwaits
<1> QED BY <1>2, <1>3, <1>4

\* A failed request drops rows no machine waits for, or gives the machines their status back
LEMMA FailAwaits ==
  ASSUME TypeOK, TurnInv, Awaited, NEW w \in Wids, IssueCleanUp(w) \/ RecallFail(w)
  PROVE  Awaited'
<1>1. waybill' = [v \in Wids |-> IF v \in job[w].rows THEN NoWaybill ELSE waybill[v]]
  BY DroppedRows DEF IssueCleanUp, RecallFail, TurnInv
<1>2. \A v \in Wids : Plain(waybill'[v])
  <2>1. Plain(NoWaybill)
    BY DEF Plain, NoWaybill
  <2> QED BY <1>1, <2>1 DEF Awaited
<1>3. UNCHANGED before
  BY DEF IssueCleanUp, RecallFail, assetVars
<1>4. CASE job[w].rows = {}
  <2>1. \A v \in Wids : waybill'[v] = waybill[v]
    BY <1>1, <1>4
  <2>2. \A a \in Assets : status'[a] = "returning" => status[a] = "returning"
    BY DEF IssueCleanUp, RecallFail, assetVars, Restored, RecallOf
  <2> QED BY <1>2, <1>3, <2>1, <2>2, AwaitedKept
<1>5. CASE InTurn(w) /\ IssueCleanUp(w)
  <2>1. \A v \in job[w].rows, a \in Assets : ~Waits(waybill[v], a)
    <3> SUFFICES ASSUME NEW v \in job[w].rows, NEW a \in Assets PROVE ~Waits(waybill[v], a)
      OBVIOUS
    <3>1. /\ waybill[v].type = waybill[w].type /\ waybill[v].order = waybill[w].order
          /\ waybill[v].ticket = waybill[w].ticket
      BY <1>5 DEF InTurn
    <3>2. v \in Wids
      BY RowsApart DEF TurnInv
    <3>3. CASE waybill[w].type = "forward"
      BY <3>1, <3>3 DEF Waits
    <3>4. CASE Manually(w)
      <4>1. waybill[v].prev[a] = Unlinked
        BY <3>1, <3>2, <3>4 DEF Manually, Awaited, Plain
      <4> QED BY <4>1 DEF Waits
    <3> QED BY <1>5, <3>3, <3>4 DEF IssueCleanUp, Outgoing
  <2>2. \A v \in Wids, a \in Assets : Waits(waybill[v], a) => Waits(waybill'[v], a)
    BY <1>1, <2>1
  <2>3. UNCHANGED status
    BY <1>5 DEF IssueCleanUp, assetVars
  <2> QED BY <1>2, <1>3, <2>2, <2>3, AwaitedKept
<1>6. CASE InTurn(w) /\ RecallFail(w)
  <2>1. job[w].rows = {w}
    BY <1>6 DEF InTurn, RecallFail, Collects
  <2>2. ASSUME NEW a \in Assets, status'[a] = "returning"
        PROVE  status[a] = "returning" /\ ~Waits(waybill[w], a)
    BY <1>6, <2>2 DEF RecallFail, Restored, RecallOf, Waits
  <2>3. \A a \in Assets : status'[a] = "returning" =>
          \A v \in Wids : Waits(waybill[v], a) => Waits(waybill'[v], a)
    BY <1>1, <2>1, <2>2
  <2> QED BY <1>2, <1>3, <2>2, <2>3, AwaitedKept
<1> QED BY <1>4, <1>5, <1>6 DEF TurnInv, RowsInTurn

\* A cancelled pickup gives the machines that waited for it their status back
LEMMA CancelAwaits ==
  ASSUME TypeOK, TurnInv, Awaited, NEW w \in Wids, CancelWrite(w)
  PROVE  Awaited'
<1>1. waybill[w].status # "none" /\ undo[w].type = waybill[w].type
  BY DEF CancelWrite, TurnInv, SeenAsIs
<1>2. waybill \in [Wids -> WaybillRows] /\ UNCHANGED before
  BY DEF TypeOK, RecordsOK, ParcelsOK, CancelWrite
<1>3. /\ \A v \in Wids : v # w => waybill'[v] = waybill[v]
      /\ waybill'[w].order = waybill[w].order /\ waybill'[w].ticket = waybill[w].ticket
      /\ waybill'[w].prev = waybill[w].prev
  BY <1>2 DEF CancelWrite, WaybillRows
<1>4. \A v \in Wids : Plain(waybill'[v])
  BY <1>3 DEF Awaited, Plain
<1>5. ASSUME NEW a \in Assets, status'[a] = "returning"
      PROVE  status[a] = "returning" /\ ~Waits(waybill[w], a)
  BY <1>1, <1>5 DEF CancelWrite, Restored, RecallOf, Waits
<1>6. \A a \in Assets : status'[a] = "returning" =>
        \A v \in Wids : Waits(waybill[v], a) => Waits(waybill'[v], a)
  BY <1>3, <1>5
<1> QED BY <1>2, <1>4, <1>5, <1>6, AwaitedKept

\* Every step keeps a machine on its way back waited for
LEMMA NextAwaits ==
  TypeOK /\ TurnInv /\ Awaited /\ [OwsNext /\ Patient]_vars => Awaited'
<1> SUFFICES ASSUME TypeOK, TurnInv, Awaited, [OwsNext /\ Patient]_vars PROVE Awaited'
  OBVIOUS
<1>1. /\ waybill \in [Wids -> WaybillRows] /\ RecordsOK
      /\ \A w \in Wids : waybill[w].status \in WaybillStatuses /\ waybill[w].invoiced \in BOOLEAN
  BY DEF TypeOK, RecordsOK, ParcelsOK, WaybillRows
<1>2. ASSUME UNCHANGED <<waybill, status, before>>
      PROVE  Awaited'
  BY <1>2 DEF Awaited
<1>3. CASE Next
  <2>1. UNCHANGED waybill
    BY <1>3, DeskLeavesParcels
  <2>2. /\ \A a \in Assets : status'[a] = "returning" => status[a] = "returning"
        /\ \A a \in Assets : before'[a] # "returning"
    BY <1>1, <1>3, DeskReturnsNothing
  <2> QED BY <2>1, <2>2 DEF Awaited
<1>4. CASE TicketNext
  <2>1. /\ UNCHANGED <<waybill, before>>
        /\ UNCHANGED status \/ \E S : status' = HandedOver(S)
    BY <1>4, TicketLeavesParcels
  <2>2. \A a \in Assets : status'[a] = "returning" => status[a] = "returning"
    BY <2>1 DEF HandedOver
  <2> QED BY <2>1, <2>2 DEF Awaited
<1>5. ASSUME NEW type \in {"forward", "recall"}, ManualNote(type)
      PROVE  Awaited'
  <2> DEFINE n == LastWid + 1
  <2>1. n \in Wids /\ waybill[n].status = "none"
    BY <1>5, NotedRow DEF TypeOK
  <2>2. /\ \A v \in Wids : v # n => waybill'[v] = waybill[v]
        /\ \A a \in Assets : waybill'[n].prev[a] = Unlinked
        /\ UNCHANGED <<status, before>>
    BY <1>1, <1>5, <2>1 DEF ManualNote, NoWaybill, assetVars
  <2> HIDE DEF n
  <2>3. \A v \in Wids : Plain(waybill'[v])
    BY <2>2 DEF Awaited, Plain
  <2>4. \A v \in Wids, a \in Assets : Waits(waybill[v], a) => Waits(waybill'[v], a)
    BY <2>1, <2>2 DEF Waits, OpenStatus
  <2> QED BY <2>2, <2>3, <2>4, AwaitedKept
<1>6. ASSUME NEW w \in Wids, IssueCommit(w) \/ RecallCommit(w)
      PROVE  Awaited'
  <2>1. /\ UNCHANGED <<status, before>>
        /\ \A v \in Wids :
             /\ waybill'[v].type = waybill[v].type /\ waybill'[v].order = waybill[v].order
             /\ waybill'[v].ticket = waybill[v].ticket /\ waybill'[v].prev = waybill[v].prev
             /\ waybill[v].status \in OpenStatus => waybill'[v].status \in OpenStatus
    <3>1. CASE IssueCommit(w)
      BY <1>1, <3>1 DEF IssueCommit, WaybillRows, OpenStatus, assetVars
    <3>2. CASE RecallCommit(w)
      <4>1. PICK result \in {"issued", "test"} : waybill' = [waybill EXCEPT ![w].status = result]
        BY <3>2 DEF RecallCommit
      <4>2. UNCHANGED <<status, before>>
        BY <3>2 DEF RecallCommit, assetVars
      <4> QED BY <1>1, <4>1, <4>2 DEF WaybillRows, OpenStatus
    <3> QED BY <1>6, <3>1, <3>2
  <2>2. \A v \in Wids : Plain(waybill'[v])
    BY <2>1 DEF Awaited, Plain
  <2>3. \A v \in Wids, a \in Assets : Waits(waybill[v], a) => Waits(waybill'[v], a)
    BY <2>1 DEF Waits
  <2> QED BY <2>1, <2>2, <2>3, AwaitedKept
<1>7. CASE CancelNext
  BY <1>2, <1>7, CancelAwaits DEF CancelNext, CancelRead, CancelAsk, recordVars, assetVars
<1>8. ASSUME NEW w \in Wids, NEW back \in Returnable, MarkReceived(w, back)
      PROVE  Awaited'
  <2>1. Arrive(w, back) /\ back # "returning"
    BY <1>8 DEF MarkReceived, Returnable
  <2> QED BY <1>8, <2>1, ReceivedRow, ArriveAwaits
<1>9. ASSUME NEW w \in Wids, TrackWrite(w)
      PROVE  Awaited'
  <2>1. PICK code \in CjStages : Apply(w, code, "issued", TRUE)
    BY <1>9, TrackersWord
  <2> QED BY <2>1, ApplyAwaits DEF WaybillStatuses, OpenStatus
<1>10. ASSUME NEW w \in Wids, Sweep(w)
       PROVE  Awaited'
  <2>1. ASSUME NEW invoiced, waybill' = [waybill EXCEPT ![w].invoiced = invoiced],
               UNCHANGED <<status, before>>
        PROVE  Awaited'
    <3>1. \A v \in Wids :
            /\ waybill'[v].type = waybill[v].type /\ waybill'[v].order = waybill[v].order
            /\ waybill'[v].ticket = waybill[v].ticket /\ waybill'[v].prev = waybill[v].prev
            /\ waybill'[v].status = waybill[v].status
      BY <1>1, <2>1 DEF WaybillRows
    <3>2. \A v \in Wids : v # w => waybill'[v] = waybill[v]
      BY <1>1, <2>1
    <3> QED BY <2>1, <3>1, <3>2, FollowAwaits
  <2>2. ASSUME NEW invoiced \in BOOLEAN, NEW code \in CjStages,
               Apply(w, code, waybill[w].status, invoiced)
        PROVE  Awaited'
    BY <1>1, <2>2, ApplyAwaits
  <2> QED BY <1>1, <1>10, <2>1, <2>2 DEF Sweep, assetVars
<1>11. ASSUME StartRound \/ Crash \/ UNCHANGED vars \/ \E w \in Wids : Register(w) \/ TrackAsk(w)
       PROVE  Awaited'
  BY <1>2, <1>11 DEF StartRound, Crash, Register, TrackAsk, vars, recordVars, assetVars
<1> QED BY <1>3, <1>4, <1>5, <1>6, <1>7, <1>8, <1>9, <1>10, <1>11, OwsSteps, ReservationAwaits,
           FailAwaits

\* While requests come in turn, a machine on its way back has an open pickup that knows which
\* status to give it if the pickup is cancelled (recall_order, recall_as, cancel_waybill,
\* mark_recall_received, _apply_stage)
THEOREM PatientReturningIsAwaited == PatientSpec => []ReturningIsAwaited
<1>1. OwsInit => Awaited
  <2> SUFFICES ASSUME OwsInit PROVE Awaited
    OBVIOUS
  <2>1. \A w \in Wids, a \in Assets : waybill[w].prev[a] = Unlinked
    BY DEF OwsInit, Init, NoWaybill
  <2>2. \A a \in Assets : status[a] = "in_stock" /\ before[a] = "in_stock"
    BY DEF OwsInit, Init
  <2> QED BY <2>1, <2>2 DEF Awaited, Plain
<1> QED BY <1>1, PatientTyping, StaysInTurn, NextAwaits, AwaitedSays, PTL DEF PatientSpec

-----------------------------------------------------------------------------
(***************************************************************************)
(* A ticket that collects has a pickup that reports                        *)
(***************************************************************************)

\* The pickup of row will report on ticket t
Fetches(row, t) == row.type = "recall" /\ row.ticket = t /\ row.status \in {"issued", "test"}

\* The property says that a ticket 'collecting' is fetched, before a step and after it
LEMMA FetchesSays ==
  /\ CollectingIsAwaited <=>
       \A t \in Tickets : ticket[t].status = "collecting" =>
         \E w \in Wids : Fetches(waybill[w], t)
  /\ CollectingIsAwaited' <=>
       \A t \in Tickets : ticket'[t].status = "collecting" =>
         \E w \in Wids : Fetches(waybill'[w], t)
  BY DEF CollectingIsAwaited, Fetches

\* A step that sends nobody, and keeps the pickups of the tickets that still collect
LEMMA CollectKept ==
  ASSUME CollectingIsAwaited,
         \A t \in Tickets : ticket'[t].status = "collecting" =>
           /\ ticket[t].status = "collecting"
           /\ \A w \in Wids : Fetches(waybill[w], t) => Fetches(waybill'[w], t)
  PROVE  CollectingIsAwaited'
  BY FetchesSays

\* A row is followed: the ticket it fetches for collects no longer, or the row still reports
LEMMA FollowCollects ==
  ASSUME TypeOK, CollectingIsAwaited, NEW w \in Wids,
         \A v \in Wids : v # w => waybill'[v] = waybill[v],
         waybill'[w].type = waybill[w].type, waybill'[w].ticket = waybill[w].ticket,
         \A t \in Tickets : ticket'[t].status = "collecting" =>
           /\ ticket[t].status = "collecting"
           /\ Fetches(waybill[w], t) => waybill'[w].status \in {"issued", "test"}
  PROVE  CollectingIsAwaited'
<1>1. \A t \in Tickets : ticket'[t].status = "collecting" =>
        \A v \in Wids : Fetches(waybill[v], t) => Fetches(waybill'[v], t)
  BY DEF Fetches
<1> QED BY <1>1, CollectKept

\* Where a pickup arrives its ticket collects no longer, and no other begins to
LEMMA ArriveCollects ==
  ASSUME TypeOK, NEW w \in Wids, NEW back, Arrive(w, back), NEW t \in Tickets,
         ticket'[t].status = "collecting"
  PROVE  ticket[t].status = "collecting" /\ waybill[w].ticket # t
<1>1. ticket \in [Tickets -> TicketRows]
  BY DEF TypeOK, RecordsOK, ParcelsOK
<1>2. waybill[w].ticket \in Tickets \cup {NoTicket}
  BY DEF TypeOK, RecordsOK, ParcelsOK, WaybillRows
<1> QED BY <1>1, <1>2, NullsAreNotRows DEF Arrive, TicketRows

\* CJ's word on a row: a pickup it brings home has its ticket move on
LEMMA ApplyCollects ==
  ASSUME TypeOK, CollectingIsAwaited, NEW w \in Wids, NEW code \in CjStages,
         NEW was \in WaybillStatuses, NEW invoiced \in BOOLEAN, Apply(w, code, was, invoiced),
         waybill[w].status \in {"issued", "test"} => was \in {"issued", "test"}
  PROVE  CollectingIsAwaited'
<1>1. /\ \A v \in Wids : v # w => waybill'[v] = waybill[v]
      /\ waybill'[w].type = waybill[w].type /\ waybill'[w].ticket = waybill[w].ticket
      /\ waybill'[w].status = IF code = "91" THEN "delivered" ELSE was
  BY AppliedRow
<1>2. ticket \in [Tickets -> TicketRows]
  BY DEF TypeOK, RecordsOK, ParcelsOK
<1>3. ASSUME NEW t \in Tickets, ticket'[t].status = "collecting"
      PROVE  /\ ticket[t].status = "collecting"
             /\ Fetches(waybill[w], t) => waybill'[w].status \in {"issued", "test"}
  <2>1. CASE waybill[w].type = "recall" /\ code = "91" /\ was # "delivered"
    <3>1. Arrive(w, "refurbishing")
      BY <2>1 DEF Apply, ApplyRecall
    <3> QED BY <1>3, <3>1, ArriveCollects DEF Fetches
  <2>2. CASE waybill[w].type = "recall" /\ ~(code = "91" /\ was # "delivered")
    <3>1. UNCHANGED ticket
      BY <2>2 DEF Apply, ApplyRecall
    <3> QED BY <1>1, <1>3, <2>2, <3>1 DEF Fetches
  <2>3. CASE waybill[w].type # "recall"
    <3>1. ~Fetches(waybill[w], t)
      BY <2>3 DEF Fetches
    <3>2. ticket[t].status = "collecting"
      BY <1>2, <1>3, <2>3 DEF Apply, ApplyForward, TicketRows
    <3> QED BY <3>1, <3>2
  <2> QED BY <2>1, <2>2, <2>3
<1> QED BY <1>1, <1>3, FollowCollects

\* Every step leaves the tickets that collect with a pickup
LEMMA NextCollects ==
  TypeOK /\ TurnInv /\ CollectingIsAwaited /\ [OwsNext /\ Patient /\ ByPickup]_vars
    => CollectingIsAwaited'
<1> SUFFICES ASSUME TypeOK, TurnInv, CollectingIsAwaited, [OwsNext /\ Patient /\ ByPickup]_vars
             PROVE  CollectingIsAwaited'
  OBVIOUS
<1>1. /\ waybill \in [Wids -> WaybillRows] /\ ticket \in [Tickets -> TicketRows]
      /\ \A w \in Wids : waybill[w].status \in WaybillStatuses /\ waybill[w].invoiced \in BOOLEAN
  BY DEF TypeOK, RecordsOK, ParcelsOK, WaybillRows
<1>2. ASSUME UNCHANGED <<waybill, ticket>>
      PROVE  CollectingIsAwaited'
  BY <1>2 DEF CollectingIsAwaited
<1>3. CASE TicketNext /\ ByPickup
  <2>1. UNCHANGED waybill
    BY <1>3, TicketLeavesParcels
  <2> QED BY <1>3, <2>1, CollectKept DEF ByPickup
<1>4. CASE ReserveStep
  <2>1. PICK lead \in Wids, rows \in SUBSET Wids, row \in WaybillRows :
          Reservation(lead, rows, row)
    BY <1>4, StepReserves
  <2>2. /\ UNCHANGED ticket
        /\ \A w \in Wids : waybill[w].status # "none" => waybill'[w] = waybill[w]
    BY <1>1, <2>1 DEF Reservation
  <2> QED BY <2>2, CollectKept DEF Fetches
<1>5. ASSUME NEW type \in {"forward", "recall"}, ManualNote(type)
      PROVE  CollectingIsAwaited'
  <2>1. /\ UNCHANGED ticket
        /\ \A w \in Wids : waybill[w].status # "none" => waybill'[w] = waybill[w]
    BY <1>1, <1>5, NotedRow DEF ManualNote
  <2> QED BY <2>1, CollectKept DEF Fetches
<1>6. ASSUME NEW w \in Wids, IssueCommit(w)
      PROVE  CollectingIsAwaited'
  <2>1. \A t \in Tickets : ticket'[t].status = "collecting" => ticket[t].status = "collecting"
    BY <1>1, <1>6 DEF IssueCommit, TicketRows
  <2>2. \A v \in job[w].rows : v \in Wids /\ waybill[v].status = "pending"
    <3> SUFFICES ASSUME NEW v \in job[w].rows PROVE v \in Wids /\ waybill[v].status = "pending"
      OBVIOUS
    <3> QED BY RowsApart DEF TurnInv
  <2>3. \A v \in Wids : v \notin job[w].rows => waybill'[v] = waybill[v]
    BY <1>6 DEF IssueCommit
  <2>4. \A t \in Tickets, v \in Wids : Fetches(waybill[v], t) => Fetches(waybill'[v], t)
    BY <2>2, <2>3 DEF Fetches
  <2> QED BY <2>1, <2>4, CollectKept
<1>7. ASSUME NEW w \in Wids, RecallCommit(w)
      PROVE  CollectingIsAwaited'
  <2>1. PICK result \in {"issued", "test"} : waybill' = [waybill EXCEPT ![w].status = result]
    BY <1>7 DEF RecallCommit
  <2>2. \A t \in Tickets, v \in Wids : Fetches(waybill[v], t) => Fetches(waybill'[v], t)
    BY <1>1, <2>1 DEF Fetches, WaybillRows
  <2>3. /\ waybill'[w].type = "recall" /\ waybill'[w].status \in {"issued", "test"}
        /\ waybill'[w].ticket = waybill[w].ticket
    BY <1>1, <1>7, <2>1 DEF WaybillRows, RecallCommit, Collects
  <2>4. ASSUME NEW t \in Tickets, ticket'[t].status = "collecting",
               ticket[t].status # "collecting"
        PROVE  Fetches(waybill'[w], t)
    <3>1. waybill[w].ticket = t
      BY <1>1, <1>7, <2>4 DEF RecallCommit, TicketRows
    <3> QED BY <2>3, <3>1 DEF Fetches
  <2> QED BY <2>2, <2>4, FetchesSays
<1>8. ASSUME NEW w \in Wids, IssueCleanUp(w) \/ RecallFail(w)
      PROVE  CollectingIsAwaited'
  <2>1. /\ UNCHANGED ticket
        /\ \A v \in Wids : waybill[v].status # "pending" => waybill'[v] = waybill[v]
    BY <1>1, <1>8 DEF IssueCleanUp, RecallFail, Dropped
  <2> QED BY <2>1, CollectKept DEF Fetches
<1>9. ASSUME NEW w \in Wids, CancelWrite(w)
      PROVE  CollectingIsAwaited'
  <2>1. /\ waybill[w].status # "none" /\ undo[w].type = waybill[w].type
        /\ undo[w].ticket = waybill[w].ticket
    BY <1>9 DEF CancelWrite, TurnInv, SeenAsIs
  <2>2. /\ \A v \in Wids : v # w => waybill'[v] = waybill[v]
        /\ waybill'[w].type = waybill[w].type /\ waybill'[w].ticket = waybill[w].ticket
    BY <1>1, <1>9 DEF CancelWrite, WaybillRows
  <2>3. ASSUME NEW t \in Tickets, ticket'[t].status = "collecting"
        PROVE  ticket[t].status = "collecting" /\ ~Fetches(waybill[w], t)
    BY <1>1, <1>9, <2>1, <2>3, NullsAreNotRows DEF CancelWrite, Fetches, TicketRows
  <2> QED BY <2>2, <2>3, FollowCollects
<1>10. CASE CancelNext
  BY <1>2, <1>9, <1>10 DEF CancelNext, CancelRead, CancelAsk, recordVars
<1>11. ASSUME NEW w \in Wids, NEW back \in Returnable, MarkReceived(w, back)
       PROVE  CollectingIsAwaited'
  <2>1. Arrive(w, back)
    BY <1>11 DEF MarkReceived
  <2>2. /\ \A v \in Wids : v # w => waybill'[v] = waybill[v]
        /\ waybill'[w].type = waybill[w].type /\ waybill'[w].ticket = waybill[w].ticket
    BY <1>11, ReceivedRow
  <2>3. \A t \in Tickets : ticket'[t].status = "collecting" =>
          ticket[t].status = "collecting" /\ ~Fetches(waybill[w], t)
    BY <2>1, ArriveCollects DEF Fetches
  <2> QED BY <2>2, <2>3, FollowCollects
<1>12. ASSUME NEW w \in Wids, TrackWrite(w)
       PROVE  CollectingIsAwaited'
  <2>1. PICK code \in CjStages : Apply(w, code, "issued", TRUE)
    BY <1>12, TrackersWord
  <2> QED BY <2>1, ApplyCollects DEF WaybillStatuses
<1>13. ASSUME NEW w \in Wids, Sweep(w)
       PROVE  CollectingIsAwaited'
  <2>1. ASSUME NEW invoiced, waybill' = [waybill EXCEPT ![w].invoiced = invoiced],
               UNCHANGED ticket
        PROVE  CollectingIsAwaited'
    <3>1. /\ \A v \in Wids : v # w => waybill'[v] = waybill[v]
          /\ waybill'[w].type = waybill[w].type /\ waybill'[w].ticket = waybill[w].ticket
          /\ waybill'[w].status = waybill[w].status
      BY <1>1, <2>1 DEF WaybillRows
    <3> QED BY <2>1, <3>1, FollowCollects DEF Fetches
  <2>2. ASSUME NEW invoiced \in BOOLEAN, NEW code \in CjStages,
               Apply(w, code, waybill[w].status, invoiced)
        PROVE  CollectingIsAwaited'
    BY <1>1, <2>2, ApplyCollects
  <2> QED BY <1>1, <1>13, <2>1, <2>2 DEF Sweep
<1>14. CASE Next
  BY <1>2, <1>14, DeskLeavesParcels
<1>15. ASSUME StartRound \/ Crash \/ UNCHANGED vars \/ \E w \in Wids : Register(w) \/ TrackAsk(w)
       PROVE  CollectingIsAwaited'
  BY <1>2, <1>15 DEF StartRound, Crash, Register, TrackAsk, vars, recordVars
<1> QED BY <1>3, <1>4, <1>5, <1>6, <1>7, <1>8, <1>10, <1>11, <1>12, <1>13, <1>14, <1>15, OwsSteps

\* While requests come in turn and 'collecting' is a pickup's word, a ticket that collects has a
\* pickup that will still report: cancelled or home, it takes the ticket along
\* (recall_as, cancel_waybill, recall_arrived, _auto_recall_arrived)
THEOREM PickupCollectingIsAwaited == PickupSpec => []CollectingIsAwaited
<1>1. PickupSpec => PatientSpec
  <2>1. [OwsNext /\ Patient /\ ByPickup]_vars => [OwsNext /\ Patient]_vars
    OBVIOUS
  <2> QED BY <2>1, PTL DEF PickupSpec, PatientSpec
<1>2. OwsInit => CollectingIsAwaited
  BY DEF OwsInit, Init, NoTicketRow, CollectingIsAwaited
<1> QED BY <1>1, <1>2, PatientTyping, StaysInTurn, NextCollects, PTL DEF PickupSpec

-----------------------------------------------------------------------------
(***************************************************************************)
(* A cancelled waybill                                                     *)
(***************************************************************************)

\* A request goes by the first of its own rows
OwnRows == \A w \in Wids : job[w].rows # {} => w \in job[w].rows

\* Every step leaves it so
LEMMA NextOwnRows == TypeOK /\ OwnRows /\ [OwsNext]_vars => OwnRows'
<1> SUFFICES ASSUME TypeOK, OwnRows, [OwsNext]_vars PROVE OwnRows'
  OBVIOUS
<1>1. job \in [Wids -> Jobs] /\ NoJob.rows = {}
  BY DEF TypeOK, CourierOK, NoJob
<1>2. ASSUME UNCHANGED job
      PROVE  OwnRows'
  BY <1>2 DEF OwnRows
<1>3. CASE ReserveStep
  <2>1. PICK lead \in Wids, rows \in SUBSET Wids, row \in WaybillRows :
          Reservation(lead, rows, row)
    BY <1>3, StepReserves
  <2>2. \A w \in Wids : job'[w].rows = IF w = lead THEN rows ELSE job[w].rows
    <3>1. PICK sent, real, failed :
            job' = [job EXCEPT ![lead] = [rows |-> rows, sent |-> sent, real |-> real,
                                          failed |-> failed]]
      BY <2>1 DEF Reservation
    <3>2. job'[lead].rows = rows /\ \A w \in Wids : w # lead => job'[w] = job[w]
      BY <1>1, <3>1
    <3> QED BY <3>2
  <2>3. lead \in rows
    BY <2>1 DEF Reservation
  <2> QED BY <2>2, <2>3 DEF OwnRows
<1>4. ASSUME NEW u \in Wids, Register(u)
      PROVE  OwnRows'
  <2>1. \/ \E r : job' = [job EXCEPT ![u].sent = @ \cup {r}]
        \/ job' = [job EXCEPT ![u].failed = TRUE]
    BY <1>4 DEF Register
  <2>2. \A w \in Wids : job'[w].rows = job[w].rows
    BY <1>1, <2>1 DEF Jobs
  <2> QED BY <2>2 DEF OwnRows
<1>5. ASSUME NEW u \in Wids, job' = [job EXCEPT ![u] = NoJob]
      PROVE  OwnRows'
  BY <1>1, <1>5 DEF OwnRows
<1>6. ASSUME NEW u \in Wids, IssueCommit(u) \/ IssueCleanUp(u) \/ RecallCommit(u) \/ RecallFail(u)
      PROVE  OwnRows'
  BY <1>5, <1>6 DEF IssueCommit, IssueCleanUp, RecallCommit, RecallFail
<1>7. CASE Crash
  BY <1>1, <1>7 DEF Crash, OwnRows
<1>8. CASE UNCHANGED vars \/ UNCHANGED courierVars
  BY <1>2, <1>8 DEF vars, courierVars
<1>9. CASE CancelNext \/ \E type \in {"forward", "recall"} : ManualNote(type)
  BY <1>2, <1>9 DEF CancelNext, CancelRead, CancelAsk, CancelWrite, ManualNote, courierVars
<1>10. ASSUME StartRound \/ \E w \in Wids : \/ TrackAsk(w) \/ TrackWrite(w) \/ Sweep(w)
                                            \/ \E back \in Returnable : MarkReceived(w, back)
       PROVE  OwnRows'
  BY <1>2, <1>10 DEF StartRound, TrackAsk, TrackWrite, Sweep, MarkReceived, courierVars
<1> QED BY <1>3, <1>4, <1>6, <1>7, <1>8, <1>9, <1>10, OwsSteps

\* A request always goes by its own row
LEMMA RequestsOwnRows == OwsSpec => []OwnRows
<1>1. OwsInit => OwnRows
  BY DEF OwsInit, CourierInit, NoJob, OwnRows
<1> QED BY <1>1, OwsTyping, NextOwnRows, PTL DEF OwsSpec

\* Only the requests under way, and the tracker with what CJ has told, bring back what is cancelled
LEMMA NextRevivesNothing ==
  ASSUME TypeOK, OwnRows, [OwsNext]_vars, NEW w \in Wids,
         waybill[w].status = "canceled", w \notin InFlight, watch[w].told = ""
  PROVE  waybill'[w].status = "canceled"
<1>1. waybill \in [Wids -> WaybillRows]
  BY DEF TypeOK, RecordsOK, ParcelsOK
<1>2. CASE ReserveStep
  <2>1. PICK lead \in Wids, rows \in SUBSET Wids, row \in WaybillRows :
          Reservation(lead, rows, row)
    BY <1>2, StepReserves
  <2> QED BY <1>1, <2>1 DEF Reservation
<1>3. ASSUME NEW type \in {"forward", "recall"}, ManualNote(type)
      PROVE  waybill'[w].status = "canceled"
  BY <1>1, <1>3, NotedRow DEF ManualNote
<1>4. ASSUME NEW u \in Wids, IssueCommit(u) \/ RecallCommit(u)
      PROVE  waybill'[w].status = "canceled"
  <2>1. w \notin job[u].rows /\ job[u].rows # {}
    <3>1. w \notin job[u].rows
      BY DEF InFlight
    <3> QED BY <1>4, <3>1 DEF IssueCommit, RecallCommit, Ready
  <2>2. CASE IssueCommit(u)
    BY <1>1, <2>1, <2>2 DEF IssueCommit
  <2>3. CASE RecallCommit(u)
    BY <1>1, <2>1, <2>3 DEF RecallCommit, OwnRows
  <2> QED BY <1>4, <2>2, <2>3
<1>5. ASSUME NEW u \in Wids, IssueCleanUp(u) \/ RecallFail(u)
      PROVE  waybill'[w].status = "canceled"
  BY <1>1, <1>5 DEF IssueCleanUp, RecallFail, Dropped
<1>6. CASE CancelNext
  <2>1. ASSUME NEW u \in Wids, CancelWrite(u)
        PROVE  waybill'[w].status = "canceled"
    BY <1>1, <2>1 DEF CancelWrite, WaybillRows
  <2> QED BY <1>6, <2>1 DEF CancelNext, CancelRead, CancelAsk, recordVars
<1>7. ASSUME NEW u \in Wids, NEW back \in Returnable, MarkReceived(u, back)
      PROVE  waybill'[w].status = "canceled"
  BY <1>7, ReceivedRow DEF MarkReceived
<1>8. ASSUME NEW u \in Wids, TrackWrite(u)
      PROVE  waybill'[w].status = "canceled"
  BY <1>1, <1>8 DEF TrackWrite, Apply
<1>9. ASSUME NEW u \in Wids, Sweep(u)
      PROVE  waybill'[w].status = "canceled"
  <2>1. u # w
    BY <1>9 DEF Sweep, Sweepable
  <2> QED BY <1>1, <1>9, <2>1 DEF Sweep, Apply
<1>10. CASE (Next \/ TicketNext) /\ UNCHANGED courierVars
  BY <1>10, DeskLeavesParcels, TicketLeavesParcels
<1>11. ASSUME StartRound \/ Crash \/ UNCHANGED vars \/ \E u \in Wids : Register(u) \/ TrackAsk(u)
       PROVE  waybill'[w].status = "canceled"
  BY <1>11 DEF StartRound, Crash, Register, TrackAsk, vars, recordVars
<1> QED BY <1>2, <1>3, <1>4, <1>5, <1>6, <1>7, <1>8, <1>9, <1>10, <1>11, OwsSteps

\* Whatever people, requests and CJ do, and in whatever order: only the request that reserved it,
\* or what CJ has told the tracker of it before, brings a cancelled waybill back
\* (sweep_recall_invoices, mark_recall_received, _next_wid, _run_tracking)
THEOREM OwsOnlyOldNewsRevives == OwsSpec => OnlyOldNewsRevives
<1>1. TypeOK /\ OwnRows /\ [OwsNext]_vars
        => [\A w \in Wids :
              /\ waybill[w].status = "canceled" /\ waybill'[w].status # "canceled"
              => w \in InFlight \/ watch[w].told # ""]_vars
  BY NextRevivesNothing
<1> QED BY <1>1, OwsTyping, RequestsOwnRows, PTL DEF OwsSpec, OnlyOldNewsRevives
=============================================================================
