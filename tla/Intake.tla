------------------------------- MODULE Intake -------------------------------
(***************************************************************************)
(* How orders come in: app/malls/collect.py, scheduler.py and base.py      *)
(* fetch them from one mall outside any transaction, app/orders/           *)
(* importing.py reads them from files, and app/importers/dedupe.py decides *)
(* in the storing transaction which are new.  An order is known again by   *)
(* its number, or by keys made of its contents: a file may give it a       *)
(* number made up from them ('수집-...') or none.  The contents are texts  *)
(* that are the same or not; address, telephone and message are one text,  *)
(* and so are product and option.                                          *)
(***************************************************************************)
EXTENDS Naturals, FiniteSets, SequencesExt

CONSTANTS
  MallOrders,   \* the orders placed at the mall; each is named by its number
  MadeUp,       \* a number made up by a file
  NoNumber,     \* no number
  Values,       \* the texts an order is made of
  Blank,        \* the empty text
  Coupang,      \* the channel that has a key of its own over both kinds of number
  Coarse,       \* of a time the minute, of a product the name without the option
  Plain,        \* products without an option
  Digits,       \* product codes of the malls: digits only
  Shaped,       \* product codes of the house: model, CPU and graphics
  NoKey,        \* import key of a row that no import made
  Told,         \* what the mall says of each order, but for the address
  Lines,        \* what files say of orders, and what staff type
  Addresses,    \* where customers have the orders sent
  Tick,         \* the scheduler's thread
  People,       \* requests: [collect], [refresh], an upload
  MaxLines,     \* bound: orders in one file
  MaxRows       \* bound: rows of the table orders

Numbers == MallOrders \cup {MadeUp, NoNumber}
Items == [no : Numbers, key : Values, channel : Values, who : Values, what : Values,
          at : Values, qty : Nat, code : Values, addr : Values, paid : Nat]
NoChange == [who |-> Blank, addr |-> Blank]   \* no change of the contact waits

ASSUME IntakeIsSane ==
  /\ IsFiniteSet(MallOrders) /\ {MadeUp, NoNumber} \cap MallOrders = {}
  /\ {Blank, NoKey} \cup Addresses \subseteq Values /\ Blank \notin Addresses
  /\ Coarse \in [Values -> Values] /\ Blank \notin Shaped
  /\ Lines \subseteq Items
  /\ Told \in [MallOrders -> Items] /\ \A k \in MallOrders : Told[k].no = k
  /\ Tick \notin People /\ MaxLines \in Nat /\ MaxRows \in Nat

VARIABLES
  rows,      \* orders, by id: what the program believes of each
  placed,    \* at the mall: the address of each order, Blank before it is placed
  carried,   \* the items each importer holds between its call and its transaction
  fetching,  \* holder of the mall's lock (collect_guard)
  cool,      \* the mall answered 429 (_COOLDOWN)
  due        \* the scheduler's interval, or its back-off, has passed

intakeVars == <<rows, placed, carried, fetching, cool, due>>

Importers == People \cup {Tick}
NoImporter == "nobody"
OrderRow == [no : Numbers, key : Values, channel : Values, who : Values, what : Values,
             at : Values, qty : Nat, code : Values, addr : Values, paid : Nat,
             pending : [who : Values, addr : Values], closed : BOOLEAN]

IntakeOK ==
  /\ rows \in Seq(OrderRow) /\ placed \in [MallOrders -> Addresses \cup {Blank}]
  /\ carried \in [Importers -> Seq(Items)]
  /\ fetching \in Importers \cup {NoImporter}
  /\ {cool, due} \subseteq BOOLEAN

\* order_dedupe_key: the number, else the contents; a number made up changes from file to file
FirstKey(o) ==
  IF o.no \in MallOrders THEN <<"number", o.no>>
  ELSE IF Blank \notin {o.who, o.what, o.addr} /\ o.what \notin Plain
       THEN <<"fingerprint", o.who, o.what, o.addr>>
  ELSE IF o.no = MadeUp /\ Blank \notin {o.channel, o.at, o.who, o.what} /\ o.what \notin Plain
       THEN <<"synthetic", o.channel, o.at, o.who, o.what, o.qty>>
  ELSE <<"import", o.key>>

\* exact_order_content_key
ExactKey(o) ==
  IF Blank \in {o.channel, o.at, o.who, o.what} THEN {}
  ELSE {<<"exact", o.channel, o.at, o.who, o.addr, o.what, o.qty, o.paid>>}

\* normalized_coupang_product_identity, coupang_cross_import_key
Product(o) == IF o.code \notin Digits \cup {Blank} THEN o.code ELSE Coarse[o.what]
CoupangKey(o) ==
  IF o.channel # Coupang \/ Blank \in {o.at, o.who, Product(o)} THEN {}
  ELSE {<<"coupang", Coarse[o.at], o.who, Product(o), o.qty>>}

\* order_duplicate_keys
KeysOf(o) == {FirstKey(o)} \cup ExactKey(o) \cup CoupangKey(o)

\* shipping_update_candidate: an open order of that number waits for staff to look at the change
Pending(row, i) ==
  LET changed(old, new) == IF new = old THEN Blank ELSE new
      change == [who |-> changed(row.who, i.who), addr |-> changed(row.addr, i.addr)]
  IN IF row.closed \/ change = NoChange THEN row ELSE [row EXCEPT !.pending = change]

Fill(old, new) == IF old = Blank THEN new ELSE old
MergedOver(row, i) == [row EXCEPT !.addr = Fill(i.addr, @), !.code = Fill(i.code, @)]   \* mutant
\* merge_duplicate_order_details: fills what is blank, and a code of the house replaces a mall's
Merged(row, i) ==
  [row EXCEPT !.addr = Fill(@, i.addr), !.what = Fill(@, i.what), !.at = Fill(@, i.at),
              !.code = IF @ \notin Shaped /\ i.code \in Shaped THEN i.code ELSE Fill(@, i.code),
              !.paid = IF @ = 0 THEN i.paid ELSE @]

NewRow(i) ==
  [no |-> i.no, key |-> i.key, channel |-> i.channel, who |-> i.who, what |-> i.what,
   at |-> i.at, qty |-> i.qty, code |-> i.code, addr |-> i.addr, paid |-> i.paid,
   pending |-> NoChange, closed |-> FALSE]

\* the rows of an order's number; the rows that were indexed under one of some keys
ByNumber(table, i) == {r \in DOMAIN table : i.no \in MallOrders /\ table[r].no = i.no}
UnderOpen(indexed, keys) ==                                            \* mutant
  {r \in DOMAIN indexed : ~indexed[r].closed /\ KeysOf(indexed[r]) \cap keys # {}}
Under(indexed, keys) == {r \in DOMAIN indexed : KeysOf(indexed[r]) \cap keys # {}}

\* the first of an order's keys that finds something
Duplicates(indexed, i) ==
  LET first == Under(indexed, {FirstKey(i)})
      exact == Under(indexed, ExactKey(i))
  IN IF first # {} THEN first ELSE IF exact # {} THEN exact ELSE Under(indexed, CoupangKey(i))

\* new_unique_orders, one item: v.table are the rows so far, v.indexed the same rows as they
\* were when their keys were taken, which no merge renews; a later row hides an earlier one
Taken(v, i) ==
  LET num == ByNumber(v.table, i)
      dup == Duplicates(v.indexed, i)
      one(S) == CHOOSE r \in S : \A s \in S : s <= r
  IN IF num # {} THEN [v EXCEPT !.table[one(num)] = Merged(Pending(@, i), i)]
     ELSE IF dup # {} THEN [v EXCEPT !.table[one(dup)] = Merged(@, i)]
     ELSE IF \E r \in DOMAIN v.table : v.table[r].key = i.key THEN v
     ELSE [table |-> Append(v.table, NewRow(i)), indexed |-> Append(v.indexed, NewRow(i))]
-----------------------------------------------------------------------------
\* collect, collect_all, _collect_one: the mall's lock, not waited for
Begin(p) ==
  /\ fetching = NoImporter /\ carried[p] = <<>> /\ ~cool
  /\ p = Tick => due
  /\ fetching' = p
  /\ UNCHANGED <<rows, placed, carried, cool, due>>

\* the lock is taken or the mall cools down: the scheduler notes a failure and backs off
Busy ==
  /\ due /\ fetching \notin {NoImporter, Tick}
  /\ due' = FALSE
  /\ UNCHANGED <<rows, placed, carried, fetching, cool>>

\* collect_orders: the orders as they are now
Fetch(p) ==
  LET S == {k \in MallOrders : placed[k] # Blank} IN
  /\ fetching = p
  /\ fetching' = NoImporter
  /\ carried' = [carried EXCEPT ![p] = SetToSeq({[Told[k] EXCEPT !.addr = placed[k]] : k \in S})]
  /\ UNCHANGED <<rows, placed, cool, due>>

FetchFails(p, limit) ==
  /\ fetching = p
  /\ fetching' = NoImporter /\ cool' = (cool \/ limit)
  /\ due' = IF p = Tick THEN FALSE ELSE due
  /\ UNCHANGED <<rows, placed, carried>>

\* import_orders: files written by other programs name orders by either number or none
Upload(p, file) ==
  /\ carried[p] = <<>> /\ fetching # p
  /\ carried' = [carried EXCEPT ![p] = file]
  /\ UNCHANGED <<rows, placed, fetching, cool, due>>

\* the storing transaction: the index is made of all rows, closed ones too
Store(p) ==
  LET v == FoldLeft(Taken, [table |-> rows, indexed |-> rows], carried[p]) IN
  /\ carried[p] # <<>> /\ Len(v.table) <= MaxRows
  /\ rows' = v.table
  /\ carried' = [carried EXCEPT ![p] = <<>>]
  /\ due' = IF p = Tick THEN FALSE ELSE due
  /\ UNCHANGED <<placed, fetching, cool>>
-----------------------------------------------------------------------------
\* create_order, the import of QC: rows with import keys of their own, not compared with others
CreateElsewhere(l) ==
  /\ Len(rows) < MaxRows
  /\ rows' = Append(rows, [NewRow(l) EXCEPT !.key = NoKey])
  /\ UNCHANGED <<placed, carried, fetching, cool, due>>

\* details: all that identifies an order can be retyped, its number too, closed or not
EditDetails(r, l) ==
  /\ rows' = [rows EXCEPT ![r] = [NewRow(l) EXCEPT !.key = rows[r].key, !.pending = rows[r].pending,
                                                   !.closed = rows[r].closed]]
  /\ UNCHANGED <<placed, carried, fetching, cool, due>>

\* update_contact, rollback_contact
EditContact(r, who, addr) ==
  /\ rows' = [rows EXCEPT ![r].who = who, ![r].addr = addr]
  /\ UNCHANGED <<placed, carried, fetching, cool, due>>

\* applyShippingUpdate, dismissShippingUpdate
ApplyUpdate(r) ==
  /\ rows[r].pending # NoChange
  /\ rows' = [rows EXCEPT ![r].who = Fill(rows[r].pending.who, @),
                          ![r].addr = Fill(rows[r].pending.addr, @), ![r].pending = NoChange]
  /\ UNCHANGED <<placed, carried, fetching, cool, due>>

DismissUpdate(r) ==
  /\ rows' = [rows EXCEPT ![r].pending = NoChange]
  /\ UNCHANGED <<placed, carried, fetching, cool, due>>

\* shipped, cancelled, archived or sent to rental, and back
SetClosed(r, closed) ==
  /\ rows' = [rows EXCEPT ![r].closed = closed]
  /\ UNCHANGED <<placed, carried, fetching, cool, due>>

\* a customer orders, or changes the address
Place(k, a) ==
  /\ a # placed[k]
  /\ placed' = [placed EXCEPT ![k] = a]
  /\ UNCHANGED <<rows, carried, fetching, cool, due>>

\* minutes pass
Wait ==
  /\ cool' = FALSE /\ due' = TRUE
  /\ UNCHANGED <<rows, placed, carried, fetching>>

IntakeNext ==
  \/ \E p \in Importers : \/ Begin(p) \/ Fetch(p) \/ Store(p)
                          \/ \E limit \in BOOLEAN : FetchFails(p, limit)
  \/ \E p \in People, n \in 1..MaxLines : \E file \in [1..n -> Lines] : Upload(p, file)
  \/ \E l \in Lines : CreateElsewhere(l)
  \/ \E r \in DOMAIN rows : \/ ApplyUpdate(r) \/ DismissUpdate(r)
                            \/ \E l \in Lines : EditDetails(r, l)
                            \/ \E l \in Lines, a \in Addresses : EditContact(r, l.who, a)
                            \/ \E closed \in BOOLEAN : SetClosed(r, closed)
  \/ \E k \in MallOrders, a \in Addresses : Place(k, a)
  \/ Busy \/ Wait

IntakeInit ==
  /\ rows = <<>>
  /\ placed = [k \in MallOrders |-> Blank]
  /\ carried = [p \in Importers |-> <<>>]
  /\ fetching = NoImporter /\ cool = FALSE /\ due = TRUE

IntakeSpec == IntakeInit /\ [][IntakeNext]_intakeVars
-----------------------------------------------------------------------------
\* Whatever scheduler, staff and files bring in what order, an import makes a row only of an
\* order that is not there: no other row has its real number or its import key, and none that
\* was there, open, closed or retyped, had any of its keys (new_unique_orders)
ImportsAddOnce ==
  [][\A p \in Importers : Store(p) =>
       \A n \in DOMAIN rows' \ DOMAIN rows :
         /\ \A m \in DOMAIN rows' \ {n} :
              /\ rows'[m].key # rows'[n].key
              /\ rows'[n].no \in MallOrders => rows'[m].no # rows'[n].no
         /\ \E c \in DOMAIN carried[p] :
              /\ carried[p][c].key = rows'[n].key
              /\ \A r \in DOMAIN rows : KeysOf(rows[r]) \cap KeysOf(carried[p][c]) = {}]_intakeVars

\* The order has a row: of its number, of its import key, or of the same customer for the same
\* thing, which at Coupang may be named otherwise
HasRow(table, i) ==
  \E r \in DOMAIN table :
    \/ i.no \in MallOrders /\ table[r].no = i.no
    \/ table[r].key = i.key
    \/ /\ table[r].who = i.who
       /\ \/ table[r].what = i.what /\ i.what # Blank
          \/ table[r].channel = Coupang /\ i.channel = Coupang

\* What an import leaves of a row: all that is there, but that a code of the house replaces a
\* mall's; a closed order waits for nothing new
RowKept(row, new) ==
  /\ \A f \in {"no", "key", "channel", "who", "qty", "closed"} : new[f] = row[f]
  /\ \A f \in {"what", "at", "addr"} : row[f] # Blank => new[f] = row[f]
  /\ row.code # Blank => \/ new.code = row.code
                         \/ row.code \notin Shaped /\ new.code \in Shaped
  /\ row.paid # 0 => new.paid = row.paid
  /\ row.closed => new.pending = row.pending

\* An import keeps what the rows hold, and drops no order that has no row
ImportsKeepWork ==
  [][\A p \in Importers : Store(p) =>
       /\ \A r \in DOMAIN rows : RowKept(rows[r], rows'[r])
       /\ \A n \in DOMAIN carried[p] : HasRow(rows', carried[p][n])]_intakeVars
=============================================================================
