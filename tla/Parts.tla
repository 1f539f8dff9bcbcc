------------------------------- MODULE Parts --------------------------------
(***************************************************************************)
(* The ledger of RAM and storage parts: app/purchase/__init__.py           *)
(* _apply_part_to_asset, revert_option_parts, apply_checked_option_parts,  *)
(* apply_pending_part_uses, base_spec_apply, add_repair, bulk_repairs,     *)
(* delete_repair, order_part_use, part_stock_adjust and part_purchase;     *)
(* toggle_check of app/prep; the parts of an A/S ticket.  A part is named  *)
(* by its size; an option is linked to one part, and the option Sold (the  *)
(* 'config' chips) brings the machine to the size the order's title says.  *)
(* One axis, RAM or storage, is looked at; prices are all different from 0.*)
(***************************************************************************)
EXTENDS OwsState, Integers, SequencesExt

CONSTANTS
  PartSizes,    \* parts.name, as the size it has
  Storage,      \* TRUE: the storage axis, FALSE: the RAM axis
  Sold,         \* the 'config' option
  SoldSize,     \* the size in the order's title (parse_code_caps)
  BaseSize,     \* the size of code_specs, 0 when the product code is unknown
  NoOption,     \* a NULL prep_option_id
  MaxRows       \* bound: rows of asset_repairs, pieces of a machine

ASSUME PartsAreSizes == PartSizes \subseteq Nat \ {0} /\ Storage \in BOOLEAN /\ MaxRows \in Nat
ASSUME RowsAreFinite == IsFiniteSet(PartSizes) /\ IsFiniteSet(Assets) /\ IsFiniteSet(Tickets)
ASSUME OptionsAreApart == {Sold, NoOption} \cap PartSizes = {} /\ Sold # NoOption

VARIABLES
  repairs,   \* asset_repairs of parts, by id
  spec,      \* assets.ram or assets.ssd: the pieces joined by ' + '
  onhand,    \* SUM(part_stock_moves.qty)
  supplied,  \* history: bought, and found or missed when counting
  waiting,   \* moves of an order that has no machine yet
  ticked,    \* order_option_checks
  priced,    \* parts in use and with a price
  atRepair   \* part_stock_moves of A/S tickets

partVars == <<repairs, spec, onhand, supplied, waiting, ticked, priced, atRepair>>

Options == PartSizes \cup {Sold}
\* a piece written by this ledger, or by the supplier in his own words
Pieces == [size : PartSizes, ours : BOOLEAN]
Piece(p) == [size |-> p, ours |-> TRUE]

PartsLedgerOK ==
  /\ spec \in [Assets -> Seq(Pieces)]
  /\ onhand \in [PartSizes -> Int] /\ supplied \in [PartSizes -> Int]
  /\ ticked \subseteq Orders \X Options
  /\ priced \subseteq PartSizes
  /\ Len(repairs) <= MaxRows
-----------------------------------------------------------------------------
\* _ram_total_gb adds the sizes up, _storage_cap_of takes the first one it reads
SizeOf(pieces) ==
  IF pieces = <<>> THEN 0
  ELSE IF Storage THEN Head(pieces).size
  ELSE FoldLeft(LAMBDA n, x : n + x.size, 0, pieces)

\* the pieces after one is put in or taken out: its first mention goes, and a part taken out that
\* the text does not name changes no text
Pieced(was, p, back) ==
  IF ~back THEN Append(was, Piece(p))
  ELSE IF \E i \in DOMAIN was : was[i] = Piece(p)
       THEN RemoveAt(was, CHOOSE i \in DOMAIN was : /\ was[i] = Piece(p)
                                                   /\ \A j \in 1..(i - 1) : was[j] # Piece(p))
       ELSE was

\* _apply_part_to_asset: a repair row, the move of the part, and the machine's specification.
\* led is [rows, spec, onhand]
Apply(led, a, p, back, o, x) ==
  LET now == Pieced(led.spec[a], p, back)
  IN [rows   |-> Append(led.rows, [asset |-> a, part |-> p, back |-> back, order |-> o,
                                   option |-> x, from |-> led.spec[a], to |-> now]),
      spec   |-> [led.spec EXCEPT ![a] = now],
      onhand |-> [led.onhand EXCEPT ![p] = @ + (IF back THEN 1 ELSE -1)]]

Booked(led, a, o, x) ==
  \E i \in DOMAIN led.rows :
    led.rows[i].asset = a /\ led.rows[i].order = o /\ led.rows[i].option = x

\* row i is taken out of the ledger, and its move goes with it
StruckFromRows(led, i) == [led EXCEPT !.rows = RemoveAt(@, i)]        \* mutant
Struck(led, i) ==
  LET row == led.rows[i] IN
  [led EXCEPT !.rows = RemoveAt(@, i), !.onhand[row.part] = @ + (IF row.back THEN -1 ELSE 1)]

\* a specification nobody touched since is put back
TakenBack(led, i) ==
  LET row == led.rows[i] IN
  IF row.from # row.to /\ led.spec[row.asset] = row.to
  THEN [Struck(led, i) EXCEPT !.spec[row.asset] = row.from]
  ELSE Struck(led, i)

\* revert_option_parts: what options xs of order o put into the machines of S, newest first
RowsFor(rows, o, S, xs) ==
  {i \in DOMAIN rows : rows[i].order = o /\ rows[i].asset \in S /\ rows[i].option \in xs}
TakenBackOf(led, i, o, S, xs) ==
  IF i \in RowsFor(led.rows, o, S, xs) THEN TakenBack(led, i) ELSE led
Reverted(led, o, S, xs) ==
  FoldLeft(LAMBDA l, i : TakenBackOf(l, i, o, S, xs), led,
           [n \in DOMAIN led.rows |-> Len(led.rows) + 1 - n])

\* _ram_axis, _storage_axis: take out what the machine has, put in what it should have; nothing
\* when a part for it has no price
Brought(led, a, size, o, x) ==
  LET has  == SizeOf(led.spec[a])
      bare == IF has = 0 THEN led ELSE Apply(led, a, has, TRUE, o, x)
  IN IF size \in priced /\ has # size /\ has \in priced \cup {0}
     THEN Apply(bare, a, size, FALSE, o, x) ELSE led

\* an option ticked on a machine: once per machine, order and option
WithOption(led, a, o, x) ==
  IF Booked(led, a, o, x) THEN led
  ELSE IF x = Sold THEN Brought(led, a, SoldSize, o, x)
  ELSE IF x \in priced THEN Apply(led, a, x, FALSE, o, x) ELSE led

Ledger == [rows |-> repairs, spec |-> spec, onhand |-> onhand]
Write(led) == /\ Len(led.rows) <= MaxRows /\ \A a \in Assets : Len(led.spec[a]) <= MaxRows
              /\ repairs' = led.rows /\ spec' = led.spec /\ onhand' = led.onhand

\* apply_checked_option_parts: options xs of order o on the machines of S
WithOptions(led, a, o, xs) ==
  FoldLeft(LAMBDA l, x : WithOption(l, a, o, x), led, SetToSeq(xs))
AllWithOptions(led, S, o, xs) ==
  FoldLeft(LAMBDA l, a : WithOptions(l, a, o, xs), led, SetToSeq(S))

\* apply_pending_part_uses: what waited for a machine of o goes to machine a
Given(led, a, o, w) ==
  IF w.order # o THEN led
  ELSE Apply([led EXCEPT !.onhand[w.part] = @ + (IF w.back THEN -1 ELSE 1)],
             a, w.part, w.back, o, NoOption)
AllGiven(led, a, o) == FoldLeft(LAMBDA l, w : Given(l, a, o, w), led, waiting)
Spared(ws, w, o)  == IF w.order = o THEN ws ELSE Append(ws, w)
StillWaiting(o)   == FoldLeft(LAMBDA ws, w : Spared(ws, w, o), <<>>, waiting)
-----------------------------------------------------------------------------
(***************************************************************************)
(* Orders                                                                  *)
(***************************************************************************)
\* toggle_check
TickOption(o, x) ==
  /\ Live(o)
  /\ ticked' = ticked \cup {<<o, x>>}
  /\ Write(AllWithOptions(Ledger, AssetsOf(o), o, {x}))
  /\ UNCHANGED <<supplied, waiting, priced, atRepair>>

UntickOption(o, x) ==
  /\ Live(o) /\ ~Shipped(o)
  /\ ticked' = ticked \ {<<o, x>>}
  /\ Write(Reverted(Ledger, o, Assets, {x}))
  /\ UNCHANGED <<supplied, waiting, priced, atRepair>>

\* beside _set_order_assets: ticked options are booked on the machines added, what waited for
\* a machine goes to the first of them, and what a dropped machine had is taken back
PartsOnMatch(o, add, drop) ==
  LET ticks  == {x \in Options : <<o, x>> \in ticked}
      booked == AllWithOptions(Ledger, add, o, ticks)
      given  == IF add = {} THEN booked ELSE AllGiven(booked, CHOOSE a \in add : TRUE, o)
  IN /\ Write(Reverted(given, o, drop, Options))
     /\ waiting' = IF add = {} THEN waiting ELSE StillWaiting(o)
     /\ UNCHANGED <<ticked, supplied, priced, atRepair>>

PartsOnCancelNot(o) == UNCHANGED partVars                             \* mutant
\* beside the cancel of an order: ticks and what waits for a machine stay
PartsOnCancel(o) ==
  /\ Write(Reverted(Ledger, o, Assets, Options))
  /\ UNCHANGED <<waiting, ticked, supplied, priced, atRepair>>

\* order_part_use on a machine of the order; before there is one, only the store moves
PartUse(o, a, p, back) ==
  /\ Live(o) /\ p \in priced
  /\ a \in AssetsOf(o)
  /\ Write(Apply(Ledger, a, p, back, o, NoOption))
  /\ UNCHANGED <<supplied, waiting, ticked, priced, atRepair>>

PartUseAhead(o, p, back) ==
  /\ Live(o) /\ p \in priced
  /\ AssetsOf(o) = {}
  /\ Len(waiting) < MaxRows
  /\ waiting' = Append(waiting, [order |-> o, part |-> p, back |-> back])
  /\ onhand' = [onhand EXCEPT ![p] = @ + (IF back THEN 1 ELSE -1)]
  /\ UNCHANGED <<repairs, spec, supplied, ticked, priced, atRepair>>
-----------------------------------------------------------------------------
(***************************************************************************)
(* Machines, the store and the repair desk                                 *)
(***************************************************************************)
\* add_repair, bulk_repairs from the price list
AddRepair(a, p, back) ==
  /\ p \in priced
  /\ Write(Apply(Ledger, a, p, back, NoOrder, NoOption))
  /\ UNCHANGED <<supplied, waiting, ticked, priced, atRepair>>

\* delete_repair leaves the specification as it is
DeleteRepair(i) ==
  /\ i \in DOMAIN repairs
  /\ Write(Struck(Ledger, i))
  /\ UNCHANGED <<supplied, waiting, ticked, priced, atRepair>>

BaseSpecApply(a) ==
  /\ status[a] \notin {"reserved", "shipped", "returning", "as", "scrapped", "cancelled",
                       "returned"}
  /\ Write(Brought(Ledger, a, BaseSize, NoOrder, NoOption))
  /\ UNCHANGED <<supplied, waiting, ticked, priced, atRepair>>

\* the spec text is corrected by hand (update_asset)
WriteSpec(a, pieces) ==
  /\ spec' = [spec EXCEPT ![a] = pieces]
  /\ UNCHANGED <<repairs, onhand, supplied, waiting, ticked, priced, atRepair>>

\* part_purchase, part_stock_adjust: n pieces more or fewer, none below zero by counting
StockParts(p, n) ==
  /\ n < 0 => onhand[p] + n >= 0
  /\ onhand' = [onhand EXCEPT ![p] = @ + n]
  /\ supplied' = [supplied EXCEPT ![p] = @ + n]
  /\ UNCHANGED <<repairs, spec, waiting, ticked, priced, atRepair>>

\* update_part: a part is switched off, or on with a price
PricePart(p) ==
  /\ priced' = IF p \in priced THEN priced \ {p} ELSE priced \cup {p}
  /\ UNCHANGED <<repairs, spec, onhand, supplied, waiting, ticked, atRepair>>

\* save_ticket_items replaces the parts of a ticket as a whole; the machine's cost is not touched
SaveTicketItems(t, used) ==
  /\ onhand' = [p \in PartSizes |-> onhand[p] + (IF p \in atRepair[t] THEN 1 ELSE 0)
                                              - (IF p \in used THEN 1 ELSE 0)]
  /\ atRepair' = [atRepair EXCEPT ![t] = used]
  /\ UNCHANGED <<repairs, spec, supplied, waiting, ticked, priced>>

PartsInit ==
  /\ repairs = <<>> /\ waiting = <<>>
  /\ spec \in [Assets -> {<<>>} \cup {<<piece>> : piece \in Pieces}]
  /\ onhand = [p \in PartSizes |-> 1] /\ supplied = onhand
  /\ ticked = {} /\ priced = PartSizes
  /\ atRepair = [t \in Tickets |-> {}]

\* order o has the machines of S after the step, and every other order those it had
NowHas(o, S) ==
  /\ \A a \in Assets : link'[o][a] # Unlinked <=> a \in S
  /\ \A p \in Orders \ {o}, a \in Assets : link'[p][a] # Unlinked <=> link[p][a] # Unlinked

\* the desk's matching and cancelling with their halves here
DeskParts(o) ==
  \/ \E S \in SUBSET Assets : /\ NowHas(o, S)
                             /\ PartsOnMatch(o, S \ AssetsOf(o), AssetsOf(o) \ S)
  \/ NowHas(o, {}) /\ PartsOnCancel(o)

OrderParts(o) ==
  \/ \E x \in Options : TickOption(o, x) \/ UntickOption(o, x)
  \/ \E p \in PartSizes, back \in BOOLEAN :
       PartUseAhead(o, p, back) \/ \E a \in Assets : PartUse(o, a, p, back)

MachineParts(a) ==
  \/ \E p \in PartSizes, back \in BOOLEAN : AddRepair(a, p, back)
  \/ BaseSpecApply(a)
  \/ \E pieces \in Seq(Pieces) : WriteSpec(a, pieces)

PartsNext ==
  \/ \E o \in Orders : DeskParts(o)
  \/ /\ UNCHANGED recordVars
     /\ \/ \E o \in Orders : OrderParts(o)
        \/ \E a \in Assets : MachineParts(a)
        \/ \E i \in DOMAIN repairs : DeleteRepair(i)
        \/ \E p \in PartSizes : PricePart(p) \/ \E n \in Int : StockParts(p, n)
        \/ \E t \in Tickets, used \in SUBSET PartSizes : SaveTicketItems(t, used)

\* whatever the desk does beside: no order loses a machine but by matching and cancelling
PartsRest == UNCHANGED partVars /\ \A o \in Orders : AssetsOf(o) \subseteq AssetsOf(o)'

PartsSpec == PartsInit /\ [][PartsNext \/ PartsRest]_<<recordVars, partVars>>
-----------------------------------------------------------------------------
\* what the moves of some rows took of part p out of the store
Moved(row, p)  == IF row.part # p THEN 0 ELSE IF row.back THEN -1 ELSE 1
Net(rows, p) == FoldLeft(LAMBDA n, row : n + Moved(row, p), 0, rows)

\* Every part that was bought is in the store, in a machine that was charged for it, with an
\* order that waits for its machine, or in a repair: no order of ticking, matching, dropping,
\* cancelling, deleting and repairing loses one or counts one twice (part_stock_moves)
PartsAreConserved ==
  \A p \in PartSizes :
    onhand[p] + Net(repairs, p) + Net(waiting, p)
      + Cardinality({t \in Tickets : p \in atRepair[t]}) = supplied[p]

\* A machine bears the cost of an option only while its order has the machine and the option is
\* ticked, and once only, whichever came first, the tick or the machine (apply_checked_option_parts)
OptionCostIsCurrent ==
  \A i \in DOMAIN repairs :
    LET r == repairs[i] IN
    r.option # NoOption =>
      /\ link[r.order][r.asset] # Unlinked
      /\ <<r.order, r.option>> \in ticked
      /\ r.option # Sold =>
           \A j \in DOMAIN repairs \ {i} : \/ repairs[j].option # r.option
                                           \/ repairs[j].asset # r.asset
                                           \/ repairs[j].order # r.order
=============================================================================
