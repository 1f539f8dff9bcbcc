----------------------------- MODULE IntakeProofs ----------------------------
(***************************************************************************)
(* Orders coming in, and what an order earns: whatever the malls, the      *)
(* files and the staff send, an import adds no order that is there, keeps  *)
(* the work on its row and drops none; and a settled fee is the rate's of  *)
(* the sale plus what the extras brought.  The first is a fold over the    *)
(* items that were fetched, the second a sum over the extras: Induction    *)
(* says what is needed of both.                                            *)
(***************************************************************************)
EXTENDS Intake, Takings, Induction

(***************************************************************************)
(* Orders coming in                                                        *)
(***************************************************************************)
\* v is the fold of the items it, one after the other
TakenFold(it, v, items) ==
  it = [s \in SUBSET (DOMAIN items) |->
          IF s = {} THEN v ELSE Taken(it[s \ {Max(s)}], items[Max(s)])]

TakenWithin(V, items) == \A v \in V, n \in DOMAIN items : Taken(v, items[n]) \in V
\* what there is after each of the items
TakenRun(g, v, items) ==
  /\ g[0] = v /\ g[Len(items)] = FoldLeft(Taken, v, items)
  /\ \A n \in 1..Len(items) : g[n] = Taken(g[n-1], items[n])

\* The storing transaction takes its items in one by one, and what each of them keeps holds of
\* every table on the way
LEMMA TakenInTurn ==
  ASSUME NEW V, NEW rs \in V, NEW items \in Seq(Items), TakenWithin(V, items)
  PROVE  \E g \in [0..Len(items) -> V] : TakenRun(g, rs, items)
<1> USE DEF TakenWithin
<1> DEFINE N == Len(items)
           step == [p \in (1..N) \X V |-> Taken(p[2], items[p[1]])]
<1>1. N \in Nat /\ DOMAIN items = 1..N /\ \A n \in 1..N : items[n] \in Items
  OBVIOUS
<1>2. \A n \in 1..N, v \in V : step[<<n, v>>] = Taken(v, items[n]) /\ step[<<n, v>>] \in V
  BY <1>1
<1> HIDE DEF step, N
<1>3. Within(step, 1..N, V)
  BY <1>2 DEF Within
<1>4. PICK it \in [SUBSET (1..N) -> V] : IsRun(it, N, rs, step)
  BY <1>1, <1>3, RunExists
<1>5. TakenFold(it, rs, items)
  <2>1. ASSUME NEW s \in SUBSET (1..N)
        PROVE  it[s] = IF s = {} THEN rs ELSE Taken(it[s \ {Max(s)}], items[Max(s)])
    <3>1. CASE s = {}
      BY <1>4, <3>1 DEF IsRun
    <3>2. CASE s # {}
      <4>1. Max(s) \in 1..N
        <5>1. s \in SUBSET (0..N)
          BY <1>1
        <5> QED BY <1>1, <3>2, <5>1, MaxIsLargest
      <4>2. it[s \ {Max(s)}] \in V
        BY <1>4
      <4>3. it[s] = step[<<Max(s), it[s \ {Max(s)}]>>]
        BY <1>4, <3>2 DEF IsRun
      <4> QED BY <1>2, <3>2, <4>1, <4>2, <4>3
    <3> QED BY <3>1, <3>2
  <2>2. it = [s \in SUBSET (1..N) |-> it[s]]
    BY <1>4
  <2>3. it = [s \in SUBSET (1..N) |-> IF s = {} THEN rs ELSE Taken(it[s \ {Max(s)}], items[Max(s)])]
    BY <2>1, <2>2
  <2> QED BY <1>1, <2>3, Zenon DEF TakenFold
<1> DEFINE jt == CHOOSE kt : TakenFold(kt, rs, items)
           g  == [n \in 0..N |-> jt[1..n]]
<1>6. TakenFold(jt, rs, items)
  BY <1>5, Zenon
<1>7. FoldLeft(Taken, rs, items) = jt[1..N]
  BY <1>1, Zenon DEF FoldLeft, MapThenFoldSet, TakenFold
<1> HIDE DEF jt
<1>8. \A s \in SUBSET (1..N) :
        jt[s] = IF s = {} THEN rs ELSE Taken(jt[s \ {Max(s)}], items[Max(s)])
  BY <1>1, <1>6, Zenon DEF TakenFold
<1>9. g[0] = rs
  <2>1. 1..0 = {} /\ 0 \in 0..N
    BY <1>1
  <2>2. jt[{}] = rs
    BY <1>8, Zenon
  <2>3. g[0] = jt[1..0]
    BY <2>1
  <2> HIDE DEF g
  <2> QED BY <2>1, <2>2, <2>3
<1>10. ASSUME NEW n \in 1..N PROVE g[n] = Taken(g[n-1], items[n])
  <2>1. n \in Nat /\ n # 0 /\ n \in 0..N /\ n - 1 \in 0..N /\ 1..n \in SUBSET (1..N)
    BY <1>1
  <2>2. Max(1..n) = n /\ (1..n) \ {n} = 1..(n - 1) /\ 1..n # {}
    BY <2>1, LastOfInterval
  <2>3. jt[1..n] = Taken(jt[1..(n - 1)], items[n])
    BY <1>8, <2>1, <2>2
  <2>4. g[n] = jt[1..n] /\ g[n-1] = jt[1..(n - 1)]
    BY <2>1
  <2> HIDE DEF g
  <2> QED BY <2>3, <2>4
<1>11. 0..N \subseteq {n \in 0..N : g[n] \in V}
  <2> DEFINE T == {n \in 0..N : g[n] \in V}
  <2>1. 0 \in T
    BY <1>1, <1>9
  <2>2. ASSUME NEW n \in 1..N, n - 1 \in T PROVE n \in T
    <3>1. g[n-1] \in V /\ n \in 0..N /\ n \in DOMAIN items
      BY <1>1, <2>2
    <3>2. g[n] = Taken(g[n-1], items[n])
      BY <1>10
    <3> HIDE DEF g
    <3>3. g[n] \in V
      BY <3>1, <3>2
    <3> QED BY <3>1, <3>3
  <2> HIDE DEF T, g
  <2>3. 0..N \subseteq T
    BY <1>1, <2>1, <2>2, StepByStep
  <2> QED BY <2>3 DEF T
<1>12. g \in [0..N -> V]
  BY <1>11
<1>13. g[N] = FoldLeft(Taken, rs, items)
  <2>1. N \in 0..N
    BY <1>1
  <2>2. g[N] = jt[1..N]
    BY <2>1
  <2> QED BY <1>7, <2>2
<1> HIDE DEF g
<1>14. \A n \in 1..N : g[n] = Taken(g[n-1], items[n])
  BY <1>10
<1> QED BY <1>9, <1>12, <1>13, <1>14 DEF N, TakenRun

\* the rows of a table are still there, as an import leaves them
Kept(old, new) ==
  /\ Len(old) <= Len(new)
  /\ \A r \in 1..Len(old) : RowKept(old[r], new[r])

\* What is said of a row that an order is found by
Theirs(row, i) ==
  \/ i.no \in MallOrders /\ row.no = i.no
  \/ row.key = i.key
  \/ /\ row.who = i.who
     /\ \/ row.what = i.what /\ i.what # Blank
        \/ row.channel = Coupang /\ i.channel = Coupang

\* A row that is kept twice is kept
LEMMA RowKeptTwice ==
  ASSUME NEW a, NEW b, NEW c, RowKept(a, b), RowKept(b, c)
  PROVE  RowKept(a, c)
<1>1. /\ b.no = a.no /\ b.key = a.key /\ b.channel = a.channel /\ b.who = a.who
      /\ b.qty = a.qty /\ b.closed = a.closed
      /\ c.no = b.no /\ c.key = b.key /\ c.channel = b.channel /\ c.who = b.who
      /\ c.qty = b.qty /\ c.closed = b.closed
  BY DEF RowKept
<1>2. \A f \in {"what", "at", "addr"} : a[f] # Blank => c[f] = a[f]
  BY Zenon DEF RowKept
<1>3. a.code # Blank => \/ c.code = a.code
                        \/ a.code \notin Shaped /\ c.code \in Shaped
  <2> SUFFICES ASSUME a.code # Blank PROVE \/ c.code = a.code
                                           \/ a.code \notin Shaped /\ c.code \in Shaped
    OBVIOUS
  <2>1. \/ b.code = a.code
        \/ a.code \notin Shaped /\ b.code \in Shaped
    BY Zenon DEF RowKept
  <2>2. CASE b.code = a.code
    BY <2>2, Zenon DEF RowKept
  <2>3. CASE b.code # a.code /\ b.code # Blank
    BY <2>1, <2>3, Zenon DEF RowKept
  <2>4. CASE b.code # a.code /\ b.code = Blank
    <3>1. Blank \in Shaped /\ a.code \notin Shaped
      BY <2>1, <2>4
    <3> QED BY <3>1, IntakeIsSane
  <2> QED BY <2>2, <2>3, <2>4
<1>4. a.paid # 0 => c.paid = a.paid
  BY Zenon DEF RowKept
<1>5. a.closed => c.pending = a.pending
  BY <1>1, Zenon DEF RowKept
<1>6. \A f \in {"no", "key", "channel", "who", "qty", "closed"} : c[f] = a[f]
  BY <1>1
<1> QED BY <1>2, <1>3, <1>4, <1>5, <1>6, Zenon DEF RowKept

\* What two imports keep one after the other, both together keep
LEMMA KeptIsTransitive ==
  ASSUME NEW a \in Seq(OrderRow), NEW b \in Seq(OrderRow), NEW c \in Seq(OrderRow), Kept(a, b), Kept(b, c)
  PROVE  Kept(a, c)
<1>1. Len(a) \in Nat /\ Len(b) \in Nat /\ Len(c) \in Nat /\ Len(a) <= Len(b) /\ Len(b) <= Len(c)
  BY DEF Kept
<1>2. ASSUME NEW r \in 1..Len(a) PROVE RowKept(a[r], c[r])
  <2>1. r \in 1..Len(b)
    BY <1>1
  <2>2. RowKept(a[r], b[r]) /\ RowKept(b[r], c[r])
    BY <2>1 DEF Kept
  <2> QED BY <2>2, RowKeptTwice, Zenon
<1> QED BY <1>1, <1>2 DEF Kept

\* An order that has a row has it after another import too
LEMMA RowStays ==
  ASSUME NEW a \in Seq(OrderRow), NEW b \in Seq(OrderRow), Kept(a, b), NEW i \in Items, HasRow(a, i)
  PROVE  HasRow(b, i)
<1>1. PICK r \in DOMAIN a : Theirs(a[r], i)
  BY Zenon DEF HasRow, Theirs
<1>2. r \in DOMAIN b /\ RowKept(a[r], b[r])
  <2>1. Len(a) \in Nat /\ Len(b) \in Nat /\ DOMAIN a = 1..Len(a) /\ DOMAIN b = 1..Len(b)
    OBVIOUS
  <2> QED BY <2>1 DEF Kept
<1>3. /\ b[r].no = a[r].no /\ b[r].key = a[r].key /\ b[r].channel = a[r].channel /\ b[r].who = a[r].who
      /\ a[r].what # Blank => b[r].what = a[r].what
  BY <1>2 DEF RowKept
<1>4. Theirs(b[r], i)
  BY <1>1, <1>3, Zenon DEF Theirs
<1> QED BY <1>2, <1>4, Zenon DEF HasRow, Theirs

\* A change of one row that keeps it keeps the table
LEMMA OneRowChanged ==
  ASSUME NEW rs \in Seq(OrderRow), NEW r \in 1..Len(rs), NEW new \in OrderRow, RowKept(rs[r], new)
  PROVE  /\ [rs EXCEPT ![r] = new] \in Seq(OrderRow) /\ Len([rs EXCEPT ![r] = new]) = Len(rs)
         /\ Kept(rs, [rs EXCEPT ![r] = new])
<1> DEFINE c == [rs EXCEPT ![r] = new]
<1>1. c \in Seq(OrderRow) /\ Len(c) = Len(rs) /\ Len(rs) \in Nat
  OBVIOUS
<1>2. ASSUME NEW s \in 1..Len(rs) PROVE RowKept(rs[s], c[s])
  <2>1. CASE s = r
    <3>1. c[s] = new
      BY <2>1
    <3> QED BY <2>1, <3>1
  <2>2. CASE s # r
    <3>1. c[s] = rs[s]
      BY <2>2
    <3> QED BY <3>1 DEF RowKept
  <2> QED BY <2>1, <2>2
<1> HIDE DEF c
<1>3. Kept(rs, c)
  BY <1>1, <1>2 DEF Kept
<1> QED BY <1>1, <1>3 DEF c

\* What a merge leaves of its row
LEMMA MergeKeeps ==
  ASSUME NEW row \in OrderRow, NEW i \in Items
  PROVE  /\ Merged(row, i) \in OrderRow /\ RowKept(row, Merged(row, i))
         /\ Pending(row, i) \in OrderRow /\ RowKept(row, Pending(row, i))
<1>1. /\ i.addr \in Values /\ i.what \in Values /\ i.at \in Values /\ i.code \in Values
      /\ i.paid \in Nat /\ i.who \in Values /\ Blank \in Values
  BY IntakeIsSane DEF Items
<1>2. Merged(row, i) \in OrderRow /\ RowKept(row, Merged(row, i))
  <2> DEFINE new == Merged(row, i)
  <2>1. new \in OrderRow
    BY <1>1 DEF Merged, Fill, OrderRow
  <2>2. /\ new.no = row.no /\ new.key = row.key /\ new.channel = row.channel /\ new.who = row.who
        /\ new.qty = row.qty /\ new.closed = row.closed /\ new.pending = row.pending
        /\ new.what = Fill(row.what, i.what) /\ new.at = Fill(row.at, i.at) /\ new.addr = Fill(row.addr, i.addr)
        /\ new.code = IF row.code \notin Shaped /\ i.code \in Shaped THEN i.code ELSE Fill(row.code, i.code)
        /\ new.paid = IF row.paid = 0 THEN i.paid ELSE row.paid
    BY DEF Merged, OrderRow
  <2> HIDE DEF new
  <2>3. \A f \in {"no", "key", "channel", "who", "qty", "closed"} : new[f] = row[f]
    BY <2>2
  <2>4. \A f \in {"what", "at", "addr"} : row[f] # Blank => new[f] = row[f]
    BY <2>2 DEF Fill
  <2>5. row.code # Blank => \/ new.code = row.code
                            \/ row.code \notin Shaped /\ new.code \in Shaped
    BY <2>2 DEF Fill
  <2> QED BY <2>1, <2>2, <2>3, <2>4, <2>5 DEF RowKept, new
<1>3. Pending(row, i) \in OrderRow /\ RowKept(row, Pending(row, i))
  <2>1. CASE Pending(row, i) = row
    BY <2>1 DEF RowKept
  <2>2. CASE Pending(row, i) # row
    <3> DEFINE new == Pending(row, i)
               changed(old, n) == IF n = old THEN Blank ELSE n
               change == [who |-> changed(row.who, i.who), addr |-> changed(row.addr, i.addr)]
    <3>1. ~row.closed /\ new = [row EXCEPT !.pending = change]
      BY <2>2 DEF Pending
    <3>2. change \in [who : Values, addr : Values]
      BY <1>1
    <3> HIDE DEF new, change
    <3>3. new \in OrderRow
      BY <3>1, <3>2 DEF OrderRow
    <3>4. /\ new.no = row.no /\ new.key = row.key /\ new.channel = row.channel /\ new.who = row.who
          /\ new.qty = row.qty /\ new.closed = row.closed /\ new.what = row.what /\ new.at = row.at
          /\ new.addr = row.addr /\ new.code = row.code /\ new.paid = row.paid
      BY <3>1 DEF OrderRow
    <3>5. RowKept(row, new)
      BY <3>1, <3>4 DEF RowKept
    <3> QED BY <3>3, <3>5 DEF new
  <2> QED BY <2>1, <2>2
<1> QED BY <1>2, <1>3

\* The one of some rows that an item is merged into is one of them
LEMMA LastOfRows ==
  ASSUME NEW n \in Nat, NEW S \in SUBSET (1..n), S # {}
  PROVE  (CHOOSE r \in S : \A s \in S : s <= r) \in S
<1>1. S \in SUBSET (0..n)
  OBVIOUS
<1>2. \E l \in S : \A m \in S : m <= l
  BY <1>1, LargestOfSome
<1> QED BY <1>2

\* What a key says of its order
KeySays(k, o) ==
  \/ k = <<"number", o.no>> /\ o.no \in MallOrders
  \/ k = <<"fingerprint", o.who, o.what, o.addr>> /\ o.what # Blank
  \/ k = <<"synthetic", o.channel, o.at, o.who, o.what, o.qty>> /\ o.what # Blank
  \/ k = <<"import", o.key>>
  \/ k = <<"exact", o.channel, o.at, o.who, o.addr, o.what, o.qty, o.paid>> /\ o.what # Blank
  \/ k = <<"coupang", Coarse[o.at], o.who, Product(o), o.qty>> /\ o.channel = Coupang

\* The keys of an order are of these six kinds (order_duplicate_keys)
LEMMA KeysSay ==
  ASSUME NEW o, NEW k \in KeysOf(o)
  PROVE  KeySays(k, o)
<1>1. CASE k = FirstKey(o)
  <2>1. CASE o.no \in MallOrders
    <3>1. k = <<"number", o.no>>
      BY <1>1, <2>1, Zenon DEF FirstKey
    <3> QED BY <2>1, <3>1, Zenon DEF KeySays
  <2>2. CASE o.no \notin MallOrders /\ Blank \notin {o.who, o.what, o.addr} /\ o.what \notin Plain
    <3>1. k = <<"fingerprint", o.who, o.what, o.addr>>
      BY <1>1, <2>2, Zenon DEF FirstKey
    <3>2. o.what # Blank
      BY <2>2
    <3> QED BY <3>1, <3>2, Zenon DEF KeySays
  <2>3. CASE /\ o.no \notin MallOrders /\ ~(Blank \notin {o.who, o.what, o.addr} /\ o.what \notin Plain)
             /\ o.no = MadeUp /\ Blank \notin {o.channel, o.at, o.who, o.what} /\ o.what \notin Plain
    <3>1. k = <<"synthetic", o.channel, o.at, o.who, o.what, o.qty>>
      BY <1>1, <2>3, Zenon DEF FirstKey
    <3>2. o.what # Blank
      BY <2>3
    <3> QED BY <3>1, <3>2, Zenon DEF KeySays
  <2>4. CASE /\ o.no \notin MallOrders /\ ~(Blank \notin {o.who, o.what, o.addr} /\ o.what \notin Plain)
             /\ ~(o.no = MadeUp /\ Blank \notin {o.channel, o.at, o.who, o.what} /\ o.what \notin Plain)
    <3>1. k = <<"import", o.key>>
      BY <1>1, <2>4, Zenon DEF FirstKey
    <3> QED BY <3>1, Zenon DEF KeySays
  <2> QED BY <2>1, <2>2, <2>3, <2>4, Zenon
<1>2. CASE k \in ExactKey(o)
  <2>1. Blank \notin {o.channel, o.at, o.who, o.what}
    BY <1>2, Zenon DEF ExactKey
  <2>2. k \in {<<"exact", o.channel, o.at, o.who, o.addr, o.what, o.qty, o.paid>>}
    BY <1>2, <2>1, Zenon DEF ExactKey
  <2>3. k = <<"exact", o.channel, o.at, o.who, o.addr, o.what, o.qty, o.paid>> /\ o.what # Blank
    BY <2>1, <2>2
  <2> QED BY <2>3, Zenon DEF KeySays
<1>3. CASE k \in CoupangKey(o)
  <2>1. ~(o.channel # Coupang \/ Blank \in {o.at, o.who, Product(o)})
    BY <1>3, Zenon DEF CoupangKey
  <2>2. k \in {<<"coupang", Coarse[o.at], o.who, Product(o), o.qty>>}
    BY <1>3, <2>1, Zenon DEF CoupangKey
  <2>3. k = <<"coupang", Coarse[o.at], o.who, Product(o), o.qty>> /\ o.channel = Coupang
    BY <2>1, <2>2
  <2> QED BY <2>3, Zenon DEF KeySays
<1> QED BY <1>1, <1>2, <1>3 DEF KeysOf

\* Two orders that share a key are one order's, or one customer's for one thing
LEMMA SharedKey ==
  ASSUME NEW row, NEW i, NEW k, k \in KeysOf(row), k \in KeysOf(i)
  PROVE  Theirs(row, i)
<1>1. KeySays(k, row) /\ KeySays(k, i)
  BY KeysSay
<1>2. CASE k = <<"number", row.no>> /\ row.no \in MallOrders
  <2>1. k[1] = "number" /\ k[2] = row.no
    BY <1>2
  <2>2. k = <<"number", i.no>>
    BY <1>1, <2>1 DEF KeySays
  <2>3. k[2] = i.no
    BY <2>2
  <2> QED BY <1>2, <2>1, <2>3 DEF Theirs
<1>3. CASE k = <<"fingerprint", row.who, row.what, row.addr>> /\ row.what # Blank
  <2>1. k[1] = "fingerprint" /\ k[2] = row.who /\ k[3] = row.what
    BY <1>3
  <2>2. k = <<"fingerprint", i.who, i.what, i.addr>>
    BY <1>1, <2>1 DEF KeySays
  <2>3. k[2] = i.who /\ k[3] = i.what
    BY <2>2
  <2> QED BY <1>3, <2>1, <2>3 DEF Theirs
<1>4. CASE k = <<"synthetic", row.channel, row.at, row.who, row.what, row.qty>> /\ row.what # Blank
  <2>1. k[1] = "synthetic" /\ k[4] = row.who /\ k[5] = row.what
    BY <1>4
  <2>2. k = <<"synthetic", i.channel, i.at, i.who, i.what, i.qty>>
    BY <1>1, <2>1 DEF KeySays
  <2>3. k[4] = i.who /\ k[5] = i.what
    BY <2>2
  <2> QED BY <1>4, <2>1, <2>3 DEF Theirs
<1>5. CASE k = <<"import", row.key>>
  <2>1. k[1] = "import" /\ k[2] = row.key
    BY <1>5
  <2>2. k = <<"import", i.key>>
    BY <1>1, <2>1 DEF KeySays
  <2>3. k[2] = i.key
    BY <2>2
  <2> QED BY <2>1, <2>3 DEF Theirs
<1>6. CASE k = <<"exact", row.channel, row.at, row.who, row.addr, row.what, row.qty, row.paid>> /\ row.what # Blank
  <2>1. k[1] = "exact" /\ k[4] = row.who /\ k[6] = row.what
    BY <1>6
  <2>2. k = <<"exact", i.channel, i.at, i.who, i.addr, i.what, i.qty, i.paid>>
    BY <1>1, <2>1 DEF KeySays
  <2>3. k[4] = i.who /\ k[6] = i.what
    BY <2>2
  <2> QED BY <1>6, <2>1, <2>3 DEF Theirs
<1>7. CASE k = <<"coupang", Coarse[row.at], row.who, Product(row), row.qty>> /\ row.channel = Coupang
  <2>1. k[1] = "coupang" /\ k[3] = row.who
    BY <1>7
  <2>2. k = <<"coupang", Coarse[i.at], i.who, Product(i), i.qty>> /\ i.channel = Coupang
    BY <1>1, <2>1 DEF KeySays
  <2>3. k[3] = i.who
    BY <2>2
  <2> QED BY <1>7, <2>1, <2>2, <2>3 DEF Theirs
<1> QED BY <1>1, <1>2, <1>3, <1>4, <1>5, <1>6, <1>7, Zenon DEF KeySays

\* Rows and the same rows as they were when they were indexed
Index(v) ==
  /\ v \in [table : Seq(OrderRow), indexed : Seq(OrderRow)]
  /\ Len(v.table) = Len(v.indexed)
  /\ \A r \in 1..Len(v.table) : RowKept(v.indexed[r], v.table[r])

\* what an item with a row leaves: the rows, each kept
IsMerged(v, i, w) ==
  /\ w \in [table : Seq(OrderRow), indexed : Seq(OrderRow)] /\ w.indexed = v.indexed
  /\ Len(w.table) = Len(v.table) /\ Kept(v.table, w.table)
  /\ HasRow(v.table, i)

\* what an item without one leaves: a row that no number, import key or other key had
IsAdded(v, i, w) ==
  /\ w = [table |-> Append(v.table, NewRow(i)), indexed |-> Append(v.indexed, NewRow(i))]
  /\ \A r \in 1..Len(v.table) :
       /\ v.table[r].key # i.key
       /\ i.no \in MallOrders => v.table[r].no # i.no
       /\ KeysOf(v.indexed[r]) \cap KeysOf(i) = {}

\* An item that is merged into one row keeps all
LEMMA MergedIsKept ==
  ASSUME NEW v, Index(v), NEW i \in Items, NEW k \in 1..Len(v.table), NEW new \in OrderRow,
         RowKept(v.table[k], new), HasRow(v.table, i)
  PROVE  IsMerged(v, i, [v EXCEPT !.table[k] = new])
<1> DEFINE t == [v.table EXCEPT ![k] = new]
           w == [v EXCEPT !.table[k] = new]
<1>1. v.table \in Seq(OrderRow) /\ v.indexed \in Seq(OrderRow) /\ v \in [table : Seq(OrderRow), indexed : Seq(OrderRow)]
  BY DEF Index
<1>2. w = [v EXCEPT !.table = t]
  BY <1>1
<1>3. t \in Seq(OrderRow) /\ Len(t) = Len(v.table) /\ Kept(v.table, t)
  BY <1>1, OneRowChanged
<1> HIDE DEF t, w
<1>4. w \in [table : Seq(OrderRow), indexed : Seq(OrderRow)] /\ w.indexed = v.indexed /\ w.table = t
  BY <1>1, <1>2, <1>3
<1> QED BY <1>3, <1>4 DEF IsMerged, w

\* An item is merged into a row of its order, or is a new row because no row is its order's
LEMMA TakenSays ==
  ASSUME NEW v, Index(v), NEW i \in Items
  PROVE  IsMerged(v, i, Taken(v, i)) \/ IsAdded(v, i, Taken(v, i))
<1> DEFINE num == ByNumber(v.table, i)
           dup == Duplicates(v.indexed, i)
           one(S) == CHOOSE r \in S : \A s \in S : s <= r
           N == Len(v.table)
<1>1. /\ v.table \in Seq(OrderRow) /\ v.indexed \in Seq(OrderRow) /\ N \in Nat
      /\ DOMAIN v.table = 1..N /\ DOMAIN v.indexed = 1..N
      /\ \A r \in 1..N : v.table[r] \in OrderRow /\ RowKept(v.indexed[r], v.table[r])
  BY DEF Index
<1>2. num \in SUBSET (1..N) /\ dup \in SUBSET (1..N)
  BY <1>1 DEF ByNumber, Duplicates, Under
<1>3. \A S \in SUBSET (1..N) : S # {} => one(S) \in S
  BY <1>1, LastOfRows
<1>4. Taken(v, i) =
        IF num # {} THEN [v EXCEPT !.table[one(num)] = Merged(Pending(@, i), i)]
        ELSE IF dup # {} THEN [v EXCEPT !.table[one(dup)] = Merged(@, i)]
        ELSE IF \E r \in DOMAIN v.table : v.table[r].key = i.key THEN v
        ELSE [table |-> Append(v.table, NewRow(i)), indexed |-> Append(v.indexed, NewRow(i))]
  BY Zenon DEF Taken
<1> HIDE DEF one, N
<1>5. CASE num # {}
  <2> DEFINE k == one(num)
             new == Merged(Pending(v.table[k], i), i)
  <2>1. k \in 1..N /\ v.table[k].no = i.no /\ i.no \in MallOrders
    <3>1. k \in num
      BY <1>2, <1>3, <1>5
    <3> QED BY <1>2, <3>1 DEF ByNumber
  <2>2. new \in OrderRow /\ RowKept(v.table[k], new)
    <3>1. v.table[k] \in OrderRow
      BY <1>1, <2>1
    <3>2. Pending(v.table[k], i) \in OrderRow /\ RowKept(v.table[k], Pending(v.table[k], i))
      BY <3>1, MergeKeeps
    <3>3. new \in OrderRow /\ RowKept(Pending(v.table[k], i), new)
      BY <3>2, MergeKeeps
    <3> HIDE DEF new, k
    <3> QED BY <3>2, <3>3, RowKeptTwice, Zenon
  <2>3. HasRow(v.table, i)
    BY <1>1, <2>1 DEF HasRow
  <2>4. Taken(v, i) = [v EXCEPT !.table[k] = new]
    BY <1>4, <1>5
  <2> HIDE DEF new, k
  <2> QED BY <2>1, <2>2, <2>3, <2>4, MergedIsKept DEF N
<1>6. CASE num = {} /\ dup # {}
  <2> DEFINE k == one(dup)
             new == Merged(v.table[k], i)
  <2>1. k \in dup /\ k \in 1..N
    BY <1>2, <1>3, <1>6
  <2>2. new \in OrderRow /\ RowKept(v.table[k], new)
    BY <1>1, <2>1, MergeKeeps
  <2>3. HasRow(v.table, i)
    <3>1. PICK key : key \in KeysOf(v.indexed[k]) /\ key \in KeysOf(i)
      <4> HIDE DEF k
      <4> QED BY <2>1 DEF Duplicates, Under, KeysOf
    <3>2. Theirs(v.indexed[k], i)
      BY <3>1, SharedKey
    <3>3. RowKept(v.indexed[k], v.table[k])
      BY <1>1, <2>1
    <3> HIDE DEF k
    <3>4. /\ v.table[k].no = v.indexed[k].no /\ v.table[k].key = v.indexed[k].key
          /\ v.table[k].channel = v.indexed[k].channel /\ v.table[k].who = v.indexed[k].who
          /\ v.indexed[k].what # Blank => v.table[k].what = v.indexed[k].what
      BY <3>3 DEF RowKept
    <3>5. Theirs(v.table[k], i)
      BY <3>2, <3>4, Zenon DEF Theirs
    <3> QED BY <1>1, <2>1, <3>5, Zenon DEF HasRow, Theirs
  <2>4. Taken(v, i) = [v EXCEPT !.table[k] = new]
    BY <1>4, <1>6
  <2> HIDE DEF new, k
  <2> QED BY <2>1, <2>2, <2>3, <2>4, MergedIsKept DEF N
<1>7. CASE num = {} /\ dup = {} /\ \E r \in DOMAIN v.table : v.table[r].key = i.key
  <2>1. Taken(v, i) = v
    BY <1>4, <1>7, Zenon
  <2>2. Kept(v.table, v.table)
    BY <1>1 DEF Kept, RowKept
  <2>3. HasRow(v.table, i)
    BY <1>7, Zenon DEF HasRow
  <2> QED BY <2>1, <2>2, <2>3 DEF IsMerged, Index
<1>8. CASE num = {} /\ dup = {} /\ ~ \E r \in DOMAIN v.table : v.table[r].key = i.key
  <2>1. Taken(v, i) = [table |-> Append(v.table, NewRow(i)), indexed |-> Append(v.indexed, NewRow(i))]
    BY <1>4, <1>8, Zenon
  <2>2. ASSUME NEW r \in 1..N
        PROVE  /\ v.table[r].key # i.key
               /\ i.no \in MallOrders => v.table[r].no # i.no
               /\ KeysOf(v.indexed[r]) \cap KeysOf(i) = {}
    <3>1. v.table[r].key # i.key
      BY <1>1, <1>8
    <3>2. i.no \in MallOrders => v.table[r].no # i.no
      BY <1>1, <1>8 DEF ByNumber
    <3>3. /\ Under(v.indexed, {FirstKey(i)}) = {} /\ Under(v.indexed, ExactKey(i)) = {}
          /\ Under(v.indexed, CoupangKey(i)) = {}
      BY <1>8, Zenon DEF Duplicates
    <3>4. \A S : Under(v.indexed, S) = {} => KeysOf(v.indexed[r]) \cap S = {}
      BY <1>1 DEF Under
    <3>5. /\ KeysOf(v.indexed[r]) \cap {FirstKey(i)} = {} /\ KeysOf(v.indexed[r]) \cap ExactKey(i) = {}
          /\ KeysOf(v.indexed[r]) \cap CoupangKey(i) = {}
      BY <3>3, <3>4, Zenon
    <3>6. \A A, B, C, D : A \cap B = {} /\ A \cap C = {} /\ A \cap D = {} => A \cap (B \cup C \cup D) = {}
      OBVIOUS
    <3>7. KeysOf(i) = {FirstKey(i)} \cup ExactKey(i) \cup CoupangKey(i)
      BY Zenon DEF KeysOf
    <3> QED BY <3>1, <3>2, <3>5, <3>6, <3>7, Zenon
  <2> QED BY <2>1, <2>2, Zenon DEF IsAdded, N
<1> QED BY <1>5, <1>6, <1>7, <1>8

\* A new row is one of an item of the batch, and no other row is its
AddedOnce(rs, items, table, n) ==
  /\ \A m \in (1..Len(table)) \ {n} :
       /\ table[m].key # table[n].key
       /\ table[n].no \in MallOrders => table[m].no # table[n].no
  /\ \E c \in DOMAIN items :
       /\ items[c].key = table[n].key
       /\ \A r \in 1..Len(rs) : KeysOf(rs[r]) \cap KeysOf(items[c]) = {}

\* What holds after each of the items
StoredSoFar(rs, items, v) ==
  /\ Index(v) /\ Kept(rs, v.table)
  /\ \A r \in 1..Len(rs) : v.indexed[r] = rs[r]
  /\ \A n \in (Len(rs) + 1)..Len(v.table) : AddedOnce(rs, items, v.table, n)

\* An item that is merged leaves it so
LEMMA MergedSoFar ==
  ASSUME NEW rs \in Seq(OrderRow), NEW items \in Seq(Items), NEW v, StoredSoFar(rs, items, v),
         NEW i \in Items, NEW w, IsMerged(v, i, w)
  PROVE  StoredSoFar(rs, items, w)
<1>1. /\ v.table \in Seq(OrderRow) /\ w.table \in Seq(OrderRow) /\ Len(w.table) = Len(v.table) /\ Len(v.table) \in Nat
      /\ w.indexed = v.indexed /\ w.indexed \in Seq(OrderRow) /\ Len(v.table) = Len(v.indexed)
      /\ w \in [table : Seq(OrderRow), indexed : Seq(OrderRow)]
  BY DEF StoredSoFar, Index, IsMerged
<1>2. \A r \in 1..Len(v.table) : RowKept(v.table[r], w.table[r])
  BY Zenon DEF IsMerged, Kept
<1>3. Index(w)
  <2>1. ASSUME NEW r \in 1..Len(v.table) PROVE RowKept(v.indexed[r], w.table[r])
    <3>1. RowKept(v.indexed[r], v.table[r])
      BY Zenon DEF StoredSoFar, Index
    <3> QED BY <1>2, <3>1, RowKeptTwice, Zenon
  <2> QED BY <1>1, <2>1 DEF Index
<1>4. Kept(rs, w.table)
  <2>1. Kept(rs, v.table) /\ Kept(v.table, w.table)
    BY DEF StoredSoFar, IsMerged
  <2> QED BY <1>1, <2>1, KeptIsTransitive
<1>5. \A r \in 1..Len(v.table) : w.table[r].key = v.table[r].key /\ w.table[r].no = v.table[r].no
  BY <1>2 DEF RowKept
<1>6. Len(rs) \in Nat
  OBVIOUS
<1>7. ASSUME NEW n \in (Len(rs) + 1)..Len(w.table) PROVE AddedOnce(rs, items, w.table, n)
  <2>1. n \in 1..Len(v.table) /\ AddedOnce(rs, items, v.table, n)
    BY <1>1, <1>6 DEF StoredSoFar
  <2> QED BY <1>1, <1>5, <2>1, Zenon DEF AddedOnce
<1>8. \A r \in 1..Len(rs) : w.indexed[r] = rs[r]
  BY <1>1 DEF StoredSoFar
<1> QED BY <1>3, <1>4, <1>7, <1>8 DEF StoredSoFar

\* An item that is added does too
LEMMA AddedSoFar ==
  ASSUME NEW rs \in Seq(OrderRow), NEW items \in Seq(Items), NEW v, StoredSoFar(rs, items, v),
         NEW c \in DOMAIN items, NEW w, IsAdded(v, items[c], w)
  PROVE  StoredSoFar(rs, items, w) /\ HasRow(w.table, items[c])
<1> DEFINE i == items[c]
           N == Len(v.table)
           row == NewRow(i)
<1>1. /\ v.table \in Seq(OrderRow) /\ v.indexed \in Seq(OrderRow) /\ Len(v.indexed) = N /\ N \in Nat
      /\ Len(rs) \in Nat /\ Len(rs) <= N
  BY DEF StoredSoFar, Index, Kept
<1>2. i \in Items
  OBVIOUS
<1>3. row \in OrderRow /\ row.key = i.key /\ row.no = i.no /\ RowKept(row, row)
  <2>1. NoChange \in [who : Values, addr : Values]
    BY IntakeIsSane DEF NoChange
  <2>2. row \in OrderRow
    BY <1>2, <2>1 DEF NewRow, OrderRow, Items
  <2> QED BY <2>2 DEF NewRow, RowKept
<1>4. w = [table |-> Append(v.table, row), indexed |-> Append(v.indexed, row)]
  BY Zenon DEF IsAdded
<1> HIDE DEF row, i
<1>5. /\ w.table \in Seq(OrderRow) /\ Len(w.table) = N + 1 /\ w.table[N + 1] = row
      /\ w.indexed \in Seq(OrderRow) /\ Len(w.indexed) = N + 1 /\ w.indexed[N + 1] = row
      /\ w \in [table : Seq(OrderRow), indexed : Seq(OrderRow)]
      /\ \A r \in 1..N : w.table[r] = v.table[r] /\ w.indexed[r] = v.indexed[r]
  BY <1>1, <1>3, <1>4
<1> HIDE DEF N
<1>6. \A r \in 1..(N + 1) : r # N + 1 => r \in 1..N
  BY <1>1
<1>7. Index(w)
  <2>1. ASSUME NEW r \in 1..(N + 1) PROVE RowKept(w.indexed[r], w.table[r])
    <3>1. CASE r = N + 1
      BY <1>3, <1>5, <3>1
    <3>2. CASE r # N + 1
      <4>1. RowKept(v.indexed[r], v.table[r])
        BY <1>6, <3>2, Zenon DEF StoredSoFar, Index, N
      <4> QED BY <1>5, <1>6, <3>2, <4>1
    <3> QED BY <3>1, <3>2
  <2> QED BY <1>5, <2>1 DEF Index
<1>8. Kept(rs, w.table)
  <2>1. ASSUME NEW r \in 1..Len(rs) PROVE RowKept(rs[r], w.table[r])
    <3>1. RowKept(rs[r], v.table[r])
      BY Zenon DEF StoredSoFar, Kept
    <3> QED BY <1>1, <1>5, <3>1
  <2> QED BY <1>1, <1>5, <2>1 DEF Kept
<1>9. \A r \in 1..Len(rs) : w.indexed[r] = rs[r]
  <2>1. ASSUME NEW r \in 1..Len(rs) PROVE w.indexed[r] = rs[r]
    <3>1. r \in 1..N /\ v.indexed[r] = rs[r]
      BY <1>1 DEF StoredSoFar
    <3> QED BY <1>5, <3>1
  <2> QED BY <2>1
<1>10. \A r \in 1..N : /\ v.table[r].key # i.key
                       /\ i.no \in MallOrders => v.table[r].no # i.no
                       /\ KeysOf(v.indexed[r]) \cap KeysOf(i) = {}
  BY Zenon DEF IsAdded, N, i
<1>11. ASSUME NEW n \in (Len(rs) + 1)..Len(w.table) PROVE AddedOnce(rs, items, w.table, n)
  <2>1. n \in 1..(N + 1)
    BY <1>1, <1>5
  <2>2. CASE n = N + 1
    <3>1. ASSUME NEW m \in (1..Len(w.table)) \ {n}
          PROVE  /\ w.table[m].key # w.table[n].key
                 /\ w.table[n].no \in MallOrders => w.table[m].no # w.table[n].no
      <4>1. m \in 1..N /\ w.table[m] = v.table[m]
        BY <1>5, <1>6, <2>2
      <4> QED BY <1>3, <1>5, <1>10, <2>2, <4>1
    <3>2. \A r \in 1..Len(rs) : KeysOf(rs[r]) \cap KeysOf(i) = {}
      <4>1. ASSUME NEW r \in 1..Len(rs) PROVE KeysOf(rs[r]) \cap KeysOf(i) = {}
        <5>1. r \in 1..N /\ v.indexed[r] = rs[r]
          BY <1>1 DEF StoredSoFar
        <5>2. KeysOf(v.indexed[r]) \cap KeysOf(i) = {}
          BY <1>10, <5>1, Zenon
        <5> QED BY <5>1, <5>2
      <4> QED BY <4>1
    <3>3. items[c].key = w.table[n].key
      BY <1>3, <1>5, <2>2 DEF i
    <3> QED BY <3>1, <3>2, <3>3, Zenon DEF AddedOnce, i
  <2>3. CASE n # N + 1
    <3>1. n \in 1..N /\ w.table[n] = v.table[n] /\ AddedOnce(rs, items, v.table, n)
      <4>1. n \in 1..N
        BY <1>6, <2>1, <2>3
      <4>2. n \in (Len(rs) + 1)..Len(v.table)
        BY <1>1, <4>1 DEF N
      <4>3. AddedOnce(rs, items, v.table, n)
        BY <4>2, Zenon DEF StoredSoFar
      <4> QED BY <1>5, <4>1, <4>3
    <3>2. ASSUME NEW m \in (1..Len(w.table)) \ {n}
          PROVE  /\ w.table[m].key # w.table[n].key
                 /\ w.table[n].no \in MallOrders => w.table[m].no # w.table[n].no
      <4>1. CASE m = N + 1
        BY <1>3, <1>5, <1>10, <3>1, <4>1
      <4>2. CASE m # N + 1
        <5>1. m \in (1..Len(v.table)) \ {n} /\ w.table[m] = v.table[m]
          BY <1>5, <1>6, <4>2 DEF N
        <5> QED BY <3>1, <5>1, Zenon DEF AddedOnce
      <4> QED BY <4>1, <4>2
    <3> QED BY <3>1, <3>2, Zenon DEF AddedOnce
  <2> QED BY <2>2, <2>3
<1>12. HasRow(w.table, i)
  <2>1. N + 1 \in DOMAIN w.table /\ w.table[N + 1].key = i.key
    BY <1>1, <1>3, <1>5
  <2> QED BY <2>1, Zenon DEF HasRow
<1> QED BY <1>7, <1>8, <1>9, <1>11, <1>12 DEF StoredSoFar, i

\* The whole transaction adds once and keeps, and each of its items has a row
LEMMA StoreKeeps ==
  ASSUME NEW rs \in Seq(OrderRow), NEW items \in Seq(Items)
  PROVE  LET v == FoldLeft(Taken, [table |-> rs, indexed |-> rs], items) IN
         /\ StoredSoFar(rs, items, v)
         /\ \A n \in DOMAIN items : HasRow(v.table, items[n])
<1> DEFINE V == {v \in [table : Seq(OrderRow), indexed : Seq(OrderRow)] : StoredSoFar(rs, items, v)}
           v0 == [table |-> rs, indexed |-> rs]
           N == Len(items)
<1>1. N \in Nat /\ DOMAIN items = 1..N /\ \A n \in 1..N : items[n] \in Items
  OBVIOUS
<1>2. v0 \in V
  <2>1. v0 \in [table : Seq(OrderRow), indexed : Seq(OrderRow)] /\ v0.table = rs /\ v0.indexed = rs
    OBVIOUS
  <2>2. \A r \in 1..Len(rs) : RowKept(rs[r], rs[r])
    BY DEF RowKept
  <2>3. Len(rs) \in Nat /\ Kept(rs, rs) /\ (Len(rs) + 1)..Len(rs) = {}
    BY <2>2 DEF Kept
  <2> HIDE DEF v0
  <2> QED BY <2>1, <2>2, <2>3 DEF StoredSoFar, Index
<1>3. ASSUME NEW v \in V, NEW n \in 1..N
      PROVE  /\ Taken(v, items[n]) \in V /\ HasRow(Taken(v, items[n]).table, items[n])
             /\ Kept(v.table, Taken(v, items[n]).table)
  <2> DEFINE w == Taken(v, items[n])
  <2>1. StoredSoFar(rs, items, v) /\ Index(v) /\ items[n] \in Items /\ n \in DOMAIN items
        /\ v.table \in Seq(OrderRow) /\ v.indexed \in Seq(OrderRow)
    BY <1>1 DEF StoredSoFar
  <2>2. IsMerged(v, items[n], w) \/ IsAdded(v, items[n], w)
    BY <2>1, TakenSays
  <2> HIDE DEF w
  <2>3. CASE IsMerged(v, items[n], w)
    <3>1. StoredSoFar(rs, items, w)
      BY <2>1, <2>3, MergedSoFar
    <3>2. w \in [table : Seq(OrderRow), indexed : Seq(OrderRow)] /\ Kept(v.table, w.table) /\ HasRow(v.table, items[n])
      BY <2>3 DEF IsMerged
    <3>3. w.table \in Seq(OrderRow)
      BY <3>2
    <3>4. HasRow(w.table, items[n])
      BY <2>1, <3>2, <3>3, RowStays
    <3> QED BY <3>1, <3>2, <3>4 DEF w
  <2>4. CASE IsAdded(v, items[n], w)
    <3>1. StoredSoFar(rs, items, w) /\ HasRow(w.table, items[n])
      BY <2>1, <2>4, AddedSoFar
    <3>2. w \in [table : Seq(OrderRow), indexed : Seq(OrderRow)]
      BY <3>1 DEF StoredSoFar, Index
    <3>3. Kept(v.table, w.table)
      <4>1. w.table = Append(v.table, NewRow(items[n]))
        BY <2>4 DEF IsAdded
      <4>2. Len(w.table) = Len(v.table) + 1 /\ Len(v.table) \in Nat
            /\ \A r \in 1..Len(v.table) : w.table[r] = v.table[r]
        BY <2>1, <4>1
      <4> QED BY <4>2 DEF Kept, RowKept
    <3> QED BY <3>1, <3>2, <3>3 DEF w
  <2> QED BY <2>2, <2>3, <2>4
<1>4. PICK g \in [0..N -> V] : TakenRun(g, v0, items)
  <2>1. TakenWithin(V, items)
    BY <1>1, <1>3 DEF TakenWithin
  <2> HIDE DEF V, v0
  <2> QED BY <1>2, <2>1, TakenInTurn
<1>5. g[N] = FoldLeft(Taken, v0, items) /\ \A n \in 1..N : g[n] = Taken(g[n-1], items[n])
  BY <1>4, Zenon DEF TakenRun
<1> HIDE DEF v0
<1> DEFINE T == {n \in 0..N : \A m \in 1..n : HasRow(g[n].table, items[m])}
<1>6. 0 \in T
  <2>1. 0 \in 0..N /\ 1..0 = {}
    BY <1>1
  <2> QED BY <2>1
<1>7. ASSUME NEW n \in 1..N, n - 1 \in T PROVE n \in T
  <2> DEFINE old == g[n-1]
             new == g[n]
  <2>1. n - 1 \in 0..N /\ n \in 0..N /\ n \in Nat
    BY <1>1
  <2>2. old \in V /\ new \in V /\ new = Taken(old, items[n])
    <3> HIDE DEF V
    <3> QED BY <1>4, <1>5, <2>1
  <2>3. \A m \in 1..(n-1) : HasRow(old.table, items[m])
    BY <1>7
  <2> HIDE DEF old, new
  <2>4. Kept(old.table, new.table) /\ HasRow(new.table, items[n])
    <3> HIDE DEF V
    <3> QED BY <1>3, <2>2
  <2>5. old.table \in Seq(OrderRow) /\ new.table \in Seq(OrderRow)
    BY <2>2
  <2>6. ASSUME NEW m \in 1..n PROVE HasRow(new.table, items[m])
    <3>1. CASE m = n
      BY <2>4, <3>1
    <3>2. CASE m # n
      <4>1. m \in 1..(n-1) /\ m \in 1..N
        BY <1>1, <2>1, <3>2
      <4>2. HasRow(old.table, items[m]) /\ items[m] \in Items
        BY <1>1, <2>3, <4>1
      <4> QED BY <2>4, <2>5, <4>2, RowStays
    <3> QED BY <3>1, <3>2
  <2>7. \A m \in 1..n : HasRow(g[n].table, items[m])
    BY <2>6 DEF new
  <2> QED BY <2>1, <2>7
<1>8. N \in T
  <2>1. 0..N \subseteq T
    <3> HIDE DEF T, N
    <3> QED BY <1>1, <1>6, <1>7, StepByStep
  <2>2. N \in 0..N
    BY <1>1
  <2> HIDE DEF T
  <2> QED BY <2>1, <2>2
<1>9. g[N] \in V
  <2>1. N \in 0..N
    BY <1>1
  <2> HIDE DEF N, V
  <2> QED BY <1>4, <2>1
<1>10. StoredSoFar(rs, items, g[N])
  BY <1>9
<1>11. \A n \in 1..N : HasRow(g[N].table, items[n])
  BY <1>8
<1> HIDE DEF V, T, N
<1> QED BY <1>1, <1>5, <1>10, <1>11 DEF v0

-----------------------------------------------------------------------------
\* What a fetch carries away is a sequence of items
LEMMA FetchedAreItems ==
  ASSUME IntakeOK, NEW S \in SUBSET MallOrders
  PROVE  SetToSeq({[Told[k] EXCEPT !.addr = placed[k]] : k \in S}) \in Seq(Items)
<1> DEFINE it == [k \in S |-> [Told[k] EXCEPT !.addr = placed[k]]]
           F  == {[Told[k] EXCEPT !.addr = placed[k]] : k \in S}
<1>1. IsFiniteSet(S)
  BY IntakeIsSane, FS_Subset
<1>2. IsFiniteSet(F)
  <2>1. it \in Surjection(S, F)
    <3>1. it \in [S -> F]
      OBVIOUS
    <3>2. \A f \in F : \E k \in S : it[k] = f
      OBVIOUS
    <3> HIDE DEF it, F
    <3> QED BY <3>1, <3>2 DEF Surjection
  <2> HIDE DEF it, F
  <2> QED BY <1>1, <2>1, FS_Surjection
<1>3. F \subseteq Items
  <2>1. ASSUME NEW k \in S PROVE [Told[k] EXCEPT !.addr = placed[k]] \in Items
    <3>1. Told[k] \in Items /\ placed[k] \in Values
      BY IntakeIsSane DEF IntakeOK
    <3> QED BY <3>1 DEF Items
  <2> QED BY <2>1
<1> HIDE DEF F
<1>4. SetToSeq(F) \in Seq(F)
  BY <1>2, SetToSeqIsOf
<1>5. SetToSeq(F) \in Seq(Items)
  BY <1>3, <1>4
<1> QED BY <1>5 DEF F

\* The rows, whatever staff do with one
LEMMA StaffKeepRows ==
  ASSUME IntakeOK, NEW r \in DOMAIN rows,
         \/ ApplyUpdate(r) \/ DismissUpdate(r)
         \/ \E l \in Lines : EditDetails(r, l)
         \/ \E l \in Lines, a \in Addresses : EditContact(r, l.who, a)
         \/ \E closed \in BOOLEAN : SetClosed(r, closed)
  PROVE  IntakeOK'
<1> DEFINE row == rows[r]
<1>1. rows \in Seq(OrderRow) /\ row \in OrderRow /\ NoChange \in [who : Values, addr : Values]
  BY IntakeIsSane DEF IntakeOK, NoChange
<1>2. \A l \in Lines : l \in Items
  BY IntakeIsSane
<1>3. UNCHANGED <<placed, carried, fetching, cool, due>>
  BY DEF EditDetails, ApplyUpdate, DismissUpdate, SetClosed, EditContact
<1>4. ASSUME NEW new \in OrderRow, rows' = [rows EXCEPT ![r] = new]
      PROVE  IntakeOK'
  <2>1. rows' \in Seq(OrderRow)
    BY <1>1, <1>4
  <2> QED BY <1>3, <2>1 DEF IntakeOK
<1>5. CASE ApplyUpdate(r)
  <2> DEFINE new == [row EXCEPT !.who = Fill(row.pending.who, @), !.addr = Fill(row.pending.addr, @),
                                !.pending = NoChange]
  <2>1. new \in OrderRow
    BY <1>1 DEF OrderRow, Fill
  <2>2. rows' = [rows EXCEPT ![r] = new]
    <3>1. rows' = [rows EXCEPT ![r].who = Fill(rows[r].pending.who, @),
                               ![r].addr = Fill(rows[r].pending.addr, @), ![r].pending = NoChange]
      BY <1>5, Zenon DEF ApplyUpdate
    <3> QED BY <1>1, <3>1
  <2> HIDE DEF new
  <2> QED BY <1>4, <2>1, <2>2
<1>6. CASE DismissUpdate(r)
  <2> DEFINE new == [row EXCEPT !.pending = NoChange]
  <2>1. new \in OrderRow
    BY <1>1 DEF OrderRow
  <2>2. rows' = [rows EXCEPT ![r] = new]
    BY <1>6, Zenon DEF DismissUpdate
  <2> HIDE DEF new
  <2> QED BY <1>4, <2>1, <2>2
<1>7. CASE \E closed \in BOOLEAN : SetClosed(r, closed)
  <2>1. PICK closed \in BOOLEAN : SetClosed(r, closed)
    BY <1>7
  <2> DEFINE new == [row EXCEPT !.closed = closed]
  <2>2. new \in OrderRow
    BY <1>1 DEF OrderRow
  <2>3. rows' = [rows EXCEPT ![r] = new]
    BY <2>1, Zenon DEF SetClosed
  <2> HIDE DEF new
  <2> QED BY <1>4, <2>2, <2>3
<1>8. CASE \E l \in Lines, a \in Addresses : EditContact(r, l.who, a)
  <2>1. PICK l \in Lines, a \in Addresses : EditContact(r, l.who, a)
    BY <1>8
  <2> DEFINE new == [row EXCEPT !.who = l.who, !.addr = a]
  <2>2. new \in OrderRow
    <3>1. l.who \in Values /\ a \in Values
      BY <1>2, IntakeIsSane DEF Items
    <3> QED BY <1>1, <3>1 DEF OrderRow
  <2>3. rows' = [rows EXCEPT ![r] = new]
    <3>1. rows' = [rows EXCEPT ![r].who = l.who, ![r].addr = a]
      BY <2>1, Zenon DEF EditContact
    <3> QED BY <1>1, <3>1
  <2> HIDE DEF new
  <2> QED BY <1>4, <2>2, <2>3
<1>9. CASE \E l \in Lines : EditDetails(r, l)
  <2>1. PICK l \in Lines : EditDetails(r, l)
    BY <1>9
  <2> DEFINE new == [NewRow(l) EXCEPT !.key = rows[r].key, !.pending = rows[r].pending,
                                      !.closed = rows[r].closed]
  <2>2. new \in OrderRow
    <3>1. NewRow(l) \in OrderRow
      BY <1>1, <1>2 DEF NewRow, OrderRow, Items
    <3> QED BY <1>1, <3>1 DEF OrderRow
  <2>3. rows' = [rows EXCEPT ![r] = new]
    BY <2>1, Zenon DEF EditDetails
  <2> HIDE DEF new
  <2> QED BY <1>4, <2>2, <2>3
<1> QED BY <1>5, <1>6, <1>7, <1>8, <1>9

\* What an import's transaction keeps
LEMMA StoreStep ==
  ASSUME IntakeOK, NEW p \in Importers, Store(p)
  PROVE  /\ IntakeOK' /\ Kept(rows, rows')
         /\ \A n \in (Len(rows) + 1)..Len(rows') : AddedOnce(rows, carried[p], rows', n)
         /\ \A n \in DOMAIN carried[p] : HasRow(rows', carried[p][n])
<1> DEFINE v == FoldLeft(Taken, [table |-> rows, indexed |-> rows], carried[p])
<1>1. rows \in Seq(OrderRow) /\ carried[p] \in Seq(Items)
  BY DEF IntakeOK
<1>2. rows' = v.table
  BY Zenon DEF Store
<1>3. StoredSoFar(rows, carried[p], v) /\ \A n \in DOMAIN carried[p] : HasRow(v.table, carried[p][n])
  BY <1>1, StoreKeeps, Zenon
<1> HIDE DEF v
<1>4. /\ rows' \in Seq(OrderRow) /\ Kept(rows, rows')
      /\ \A n \in (Len(rows) + 1)..Len(rows') : AddedOnce(rows, carried[p], rows', n)
      /\ \A n \in DOMAIN carried[p] : HasRow(rows', carried[p][n])
  <2>1. v.table \in Seq(OrderRow)
    BY <1>3 DEF StoredSoFar, Index
  <2> QED BY <1>2, <1>3, <2>1 DEF StoredSoFar
<1>5. carried' \in [Importers -> Seq(Items)] /\ due' \in BOOLEAN
  <2>1. carried' = [carried EXCEPT ![p] = <<>>] /\ due' = IF p = Tick THEN FALSE ELSE due
    BY Zenon DEF Store
  <2>2. <<>> \in Seq(Items)
    OBVIOUS
  <2> QED BY <2>1, <2>2 DEF IntakeOK
<1>6. UNCHANGED <<placed, fetching, cool>>
  BY DEF Store
<1> QED BY <1>4, <1>5, <1>6 DEF IntakeOK

\* The tables stay what they are
LEMMA IntakeStepKeeps ==
  ASSUME IntakeOK, [IntakeNext]_intakeVars
  PROVE  IntakeOK'
<1>1. CASE UNCHANGED intakeVars
  BY <1>1 DEF intakeVars, IntakeOK
<1>2. ASSUME NEW p \in Importers, Begin(p) PROVE IntakeOK'
  BY <1>2 DEF Begin, IntakeOK
<1>3. ASSUME NEW p \in Importers, Fetch(p) PROVE IntakeOK'
  <2> DEFINE S == {k \in MallOrders : placed[k] # Blank}
             items == SetToSeq({[Told[k] EXCEPT !.addr = placed[k]] : k \in S})
  <2>1. items \in Seq(Items)
    <3>1. S \in SUBSET MallOrders
      OBVIOUS
    <3> HIDE DEF S
    <3> QED BY <3>1, FetchedAreItems
  <2>2. carried' = [carried EXCEPT ![p] = items] /\ fetching' = NoImporter /\ UNCHANGED <<rows, placed, cool, due>>
    BY <1>3, Zenon DEF Fetch
  <2> HIDE DEF items
  <2> QED BY <2>1, <2>2 DEF IntakeOK
<1>4. ASSUME NEW p \in Importers, NEW limit \in BOOLEAN, FetchFails(p, limit) PROVE IntakeOK'
  BY <1>4 DEF FetchFails, IntakeOK
<1>5. ASSUME NEW p \in People, NEW n \in 1..MaxLines, NEW file \in [1..n -> Lines], Upload(p, file)
      PROVE  IntakeOK'
  <2>1. file \in Seq(Items) /\ p \in Importers
    <3>1. n \in Nat /\ Lines \subseteq Items
      BY IntakeIsSane
    <3> QED BY <3>1 DEF Importers
  <2> QED BY <1>5, <2>1 DEF Upload, IntakeOK
<1>6. ASSUME NEW k \in MallOrders, NEW a \in Addresses, Place(k, a) PROVE IntakeOK'
  BY <1>6 DEF Place, IntakeOK
<1>7. CASE Busy
  BY <1>7 DEF Busy, IntakeOK
<1>8. CASE Wait
  BY <1>8 DEF Wait, IntakeOK
<1>9. ASSUME NEW l \in Lines, CreateElsewhere(l) PROVE IntakeOK'
  <2> DEFINE new == [NewRow(l) EXCEPT !.key = NoKey]
  <2>1. new \in OrderRow
    <3>1. l \in Items /\ NoKey \in Values /\ NoChange \in [who : Values, addr : Values]
      BY IntakeIsSane DEF NoChange
    <3>2. NewRow(l) \in OrderRow
      BY <3>1 DEF NewRow, OrderRow, Items
    <3> QED BY <3>1, <3>2 DEF OrderRow
  <2>2. rows' = Append(rows, new) /\ UNCHANGED <<placed, carried, fetching, cool, due>>
    BY <1>9 DEF CreateElsewhere
  <2> HIDE DEF new
  <2>3. rows' \in Seq(OrderRow)
    BY <2>1, <2>2 DEF IntakeOK
  <2> QED BY <2>2, <2>3 DEF IntakeOK
<1>10. \/ UNCHANGED intakeVars
       \/ \E p \in Importers : \/ Begin(p) \/ Fetch(p) \/ Store(p)
                               \/ \E limit \in BOOLEAN : FetchFails(p, limit)
       \/ \E p \in People, n \in 1..MaxLines : \E file \in [1..n -> Lines] : Upload(p, file)
       \/ \E l \in Lines : CreateElsewhere(l)
       \/ \E r \in DOMAIN rows : \/ ApplyUpdate(r) \/ DismissUpdate(r)
                                 \/ \E l \in Lines : EditDetails(r, l)
                                 \/ \E l \in Lines, a \in Addresses : EditContact(r, l.who, a)
                                 \/ \E closed \in BOOLEAN : SetClosed(r, closed)
       \/ \E k \in MallOrders, a \in Addresses : Place(k, a)
       \/ Busy \/ Wait
  BY Zenon DEF IntakeNext
<1> QED BY <1>1, <1>2, <1>3, <1>4, <1>5, <1>6, <1>7, <1>8, <1>9, <1>10, StoreStep, StaffKeepRows, Zenon

\* No row at first
LEMMA IntakeInitHolds ==
  ASSUME IntakeInit
  PROVE  IntakeOK
<1>1. rows \in Seq(OrderRow)
  BY DEF IntakeInit
<1>2. carried \in [Importers -> Seq(Items)]
  BY DEF IntakeInit
<1> QED BY <1>1, <1>2 DEF IntakeInit, IntakeOK

\* What the tables of the intake hold, for any number of orders and any files
THEOREM IntakeRowsAreSane == IntakeSpec => []IntakeOK
<1>1. IntakeInit => IntakeOK
  BY IntakeInitHolds
<1>2. IntakeOK /\ [IntakeNext]_intakeVars => IntakeOK'
  BY IntakeStepKeeps
<1> QED BY <1>1, <1>2, PTL DEF IntakeSpec

\* However many orders come in, under whatever numbers and keys, and whatever staff retyped
\* between: an import makes a row only of an order that is not there (new_unique_orders)
THEOREM ImportsAddNothingTwice == IntakeSpec => ImportsAddOnce
<1> DEFINE Once(p) ==
      \A n \in DOMAIN rows' \ DOMAIN rows :
        /\ \A m \in DOMAIN rows' \ {n} :
             /\ rows'[m].key # rows'[n].key
             /\ rows'[n].no \in MallOrders => rows'[m].no # rows'[n].no
        /\ \E c \in DOMAIN carried[p] :
             /\ carried[p][c].key = rows'[n].key
             /\ \A r \in DOMAIN rows : KeysOf(rows[r]) \cap KeysOf(carried[p][c]) = {}
<1>1. IntakeOK => \A p \in Importers : Store(p) => Once(p)
  <2> SUFFICES ASSUME IntakeOK, NEW p \in Importers, Store(p) PROVE Once(p)
    OBVIOUS
  <2>1. /\ Len(rows) \in Nat /\ Len(rows') \in Nat
        /\ DOMAIN rows = 1..Len(rows) /\ DOMAIN rows' = 1..Len(rows')
    BY StoreStep DEF IntakeOK
  <2>2. ASSUME NEW n \in DOMAIN rows' \ DOMAIN rows PROVE AddedOnce(rows, carried[p], rows', n)
    <3>1. n \in (Len(rows) + 1)..Len(rows')
      BY <2>1
    <3> QED BY <3>1, StoreStep
  <2> QED BY <2>1, <2>2, Zenon DEF AddedOnce
<1>2. IntakeInit => IntakeOK
  BY IntakeInitHolds
<1>3. IntakeOK /\ [IntakeNext]_intakeVars => IntakeOK'
  BY IntakeStepKeeps
<1> QED BY <1>1, <1>2, <1>3, PTL DEF IntakeSpec, ImportsAddOnce

\* No import overwrites what a row holds, asks anything of a closed order or drops an order that
\* has no row, however many orders it brings
THEOREM ImportsKeepTheWork == IntakeSpec => ImportsKeepWork
<1>1. IntakeOK => \A p \in Importers : Store(p) =>
        /\ \A r \in DOMAIN rows : RowKept(rows[r], rows'[r])
        /\ \A n \in DOMAIN carried[p] : HasRow(rows', carried[p][n])
  <2> SUFFICES ASSUME IntakeOK, NEW p \in Importers, Store(p)
               PROVE  /\ \A r \in DOMAIN rows : RowKept(rows[r], rows'[r])
                      /\ \A n \in DOMAIN carried[p] : HasRow(rows', carried[p][n])
    OBVIOUS
  <2>1. DOMAIN rows = 1..Len(rows)
    BY DEF IntakeOK
  <2>2. \A r \in 1..Len(rows) : RowKept(rows[r], rows'[r])
    BY StoreStep DEF Kept
  <2> QED BY <2>1, <2>2, StoreStep
<1>2. IntakeInit => IntakeOK
  BY IntakeInitHolds
<1>3. IntakeOK /\ [IntakeNext]_intakeVars => IntakeOK'
  BY IntakeStepKeeps
<1> QED BY <1>1, <1>2, <1>3, PTL DEF IntakeSpec, ImportsKeepWork

-----------------------------------------------------------------------------
(***************************************************************************)
(* What an order earns                                                     *)
(***************************************************************************)
ExtraRow == [of : Buys \cup {0}, amount : Nat, fee : Nat]
ExtraTable ==
  {ex \in [Extras -> ExtraRow] :
     \A x \in Extras : ex[x] = NoExtra \/ (ex[x].of \in Buys /\ ex[x].amount > 0)}

HeldBy(ex, o)    == {x \in Extras : ex[x].amount > 0 /\ ex[x].of = o}
AmountSum(ex, o) == Total([x \in Extras |-> ex[x].amount], HeldBy(ex, o))
FeeSum(ex, o)    == Total([x \in Extras |-> ex[x].fee], HeldBy(ex, o))

\* The sums of the model are those the lemmas speak of
LEMMA SumsOfTable ==
  ASSUME NEW ex \in ExtraTable, NEW o
  PROVE  /\ MapThenSumSet(LAMBDA x : ex[x].amount, HeldBy(ex, o)) = AmountSum(ex, o)
         /\ MapThenSumSet(LAMBDA x : ex[x].fee, HeldBy(ex, o)) = FeeSum(ex, o)
         /\ AmountSum(ex, o) \in Nat /\ FeeSum(ex, o) \in Nat
<1> DEFINE S == HeldBy(ex, o)
           a == [x \in Extras |-> ex[x].amount]
           b == [x \in Extras |-> ex[x].fee]
<1>1. S \subseteq Extras /\ IsFiniteSet(S)
  <2>1. S \subseteq Extras
    BY DEF HeldBy
  <2> QED BY <2>1, TakingsBounds, FS_Subset
<1>2. \A x \in Extras : /\ a[x] = ex[x].amount /\ a[x] \in Nat
                        /\ b[x] = ex[x].fee /\ b[x] \in Nat
  BY DEF ExtraTable, ExtraRow
<1> HIDE DEF S, a, b
<1>3. \A s \in SUBSET S : s # {} => Pick(s) \in Extras
  BY <1>1, PickIsOne
<1> DEFINE P(it) == it = [s \in SUBSET S |->
                       IF s = {} THEN 0 ELSE ex[Pick(s)].amount + it[s \ {Pick(s)}]]
           Q(it) == it = [s \in SUBSET S |->
                       IF s = {} THEN 0 ELSE ex[Pick(s)].fee + it[s \ {Pick(s)}]]
<1>4. ASSUME NEW it PROVE P(it) <=> IsSum(it, a, S)
  <2>1. [s \in SUBSET S |-> IF s = {} THEN 0 ELSE ex[Pick(s)].amount + it[s \ {Pick(s)}]]
          = [s \in SUBSET S |-> IF s = {} THEN 0 ELSE a[Pick(s)] + it[s \ {Pick(s)}]]
    <3>1. \A s \in SUBSET S : (IF s = {} THEN 0 ELSE ex[Pick(s)].amount + it[s \ {Pick(s)}])
                             = (IF s = {} THEN 0 ELSE a[Pick(s)] + it[s \ {Pick(s)}])
      BY <1>2, <1>3
    <3> QED BY <3>1
  <2> QED BY <2>1, Zenon DEF IsSum
<1>5. ASSUME NEW it PROVE Q(it) <=> IsSum(it, b, S)
  <2>1. [s \in SUBSET S |-> IF s = {} THEN 0 ELSE ex[Pick(s)].fee + it[s \ {Pick(s)}]]
          = [s \in SUBSET S |-> IF s = {} THEN 0 ELSE b[Pick(s)] + it[s \ {Pick(s)}]]
    <3>1. \A s \in SUBSET S : (IF s = {} THEN 0 ELSE ex[Pick(s)].fee + it[s \ {Pick(s)}])
                             = (IF s = {} THEN 0 ELSE b[Pick(s)] + it[s \ {Pick(s)}])
      BY <1>2, <1>3
    <3> QED BY <3>1
  <2> QED BY <2>1, Zenon DEF IsSum
<1>6. (\E it : IsSum(it, a, S)) /\ \E it : IsSum(it, b, S)
  <2>1. \A x \in S : a[x] \in Int /\ b[x] \in Int
    BY <1>1, <1>2
  <2> QED BY <1>1, <2>1, SumExists
<1>7. MapThenSumSet(LAMBDA x : ex[x].amount, S) = (CHOOSE it : P(it))[S]
  BY Zenon DEF MapThenSumSet, MapThenFoldSet, Pick
<1>8. MapThenSumSet(LAMBDA x : ex[x].fee, S) = (CHOOSE it : Q(it))[S]
  BY Zenon DEF MapThenSumSet, MapThenFoldSet, Pick
<1> DEFINE pt == CHOOSE it : P(it)
           qt == CHOOSE it : Q(it)
<1>9. P(pt) /\ Q(qt)
  <2>1. (\E it : P(it)) /\ \E it : Q(it)
    <3> HIDE DEF P, Q
    <3> QED BY <1>4, <1>5, <1>6, Zenon
  <2> HIDE DEF P, Q
  <2> QED BY <2>1, Zenon
<1> HIDE DEF P, Q
<1>10. IsSum(pt, a, S) /\ IsSum(qt, b, S)
  <2> HIDE DEF pt, qt
  <2> QED BY <1>4, <1>5, <1>9, Zenon
<1>11. Total(a, S) = pt[S] /\ Total(b, S) = qt[S]
  <2> DEFINE at == CHOOSE it : IsSum(it, a, S)
             bt == CHOOSE it : IsSum(it, b, S)
  <2>1. IsSum(at, a, S) /\ IsSum(bt, b, S)
    BY <1>6, Zenon
  <2> HIDE DEF at, bt, pt, qt
  <2>2. at[S] = pt[S] /\ bt[S] = qt[S]
    BY <1>1, <1>10, <2>1, SumsAgree
  <2> QED BY <2>2 DEF Total, at, bt
<1>12. Total(a, S) \in Nat /\ Total(b, S) \in Nat
  <2>1. \A x \in S : a[x] \in Nat /\ b[x] \in Nat
    BY <1>1, <1>2
  <2> QED BY <1>1, <2>1, TotalIsTyped
<1>13. AmountSum(ex, o) = Total(a, S) /\ FeeSum(ex, o) = Total(b, S)
  BY DEF AmountSum, FeeSum, a, b, S
<1>14. MapThenSumSet(LAMBDA x : ex[x].amount, S) = pt[S]
  BY <1>7 DEF pt
<1>15. MapThenSumSet(LAMBDA x : ex[x].fee, S) = qt[S]
  BY <1>8 DEF qt
<1> QED BY <1>11, <1>12, <1>13, <1>14, <1>15, Zenon DEF S

\* A payment noted raises the sums of its order by what it brings, and no other's
LEMMA ExtraNoted ==
  ASSUME NEW ex \in ExtraTable, NEW x \in Extras, ex[x] = NoExtra,
         NEW row \in ExtraRow, row.of \in Buys, row.amount > 0
  PROVE  LET new == [ex EXCEPT ![x] = row] IN
         /\ new \in ExtraTable
         /\ AmountSum(new, row.of) = row.amount + AmountSum(ex, row.of)
         /\ FeeSum(new, row.of) = row.fee + FeeSum(ex, row.of)
         /\ \A o \in Buys : o # row.of => AmountSum(new, o) = AmountSum(ex, o)
                                          /\ FeeSum(new, o) = FeeSum(ex, o)
<1> DEFINE new == [ex EXCEPT ![x] = row]
<1>1. new \in [Extras -> ExtraRow] /\ new[x] = row /\ \A y \in Extras : y # x => new[y] = ex[y]
  BY DEF ExtraTable
<1>2. ex \in [Extras -> ExtraRow] /\ ex[x].amount = 0
  BY DEF ExtraTable, NoExtra
<1> HIDE DEF new
<1>3. new \in ExtraTable
  BY <1>1, <1>2 DEF ExtraTable
<1>4. \A y \in Extras : /\ ex[y].amount \in Nat /\ ex[y].fee \in Nat
                        /\ new[y].amount \in Nat /\ new[y].fee \in Nat
  BY <1>1, <1>2 DEF ExtraRow
<1>5. HeldBy(new, row.of) = HeldBy(ex, row.of) \cup {x} /\ x \notin HeldBy(ex, row.of)
  BY <1>1, <1>2 DEF HeldBy
<1>6. \A o \in Buys : o # row.of => HeldBy(new, o) = HeldBy(ex, o) /\ x \notin HeldBy(ex, o)
  BY <1>1, <1>2 DEF HeldBy
<1>7. \A o : IsFiniteSet(HeldBy(ex, o)) /\ HeldBy(ex, o) \subseteq Extras
  <2>1. \A o : HeldBy(ex, o) \subseteq Extras
    BY DEF HeldBy
  <2> QED BY <2>1, TakingsBounds, FS_Subset
<1> DEFINE a == [y \in Extras |-> ex[y].amount]
           b == [y \in Extras |-> new[y].amount]
           c == [y \in Extras |-> ex[y].fee]
           d == [y \in Extras |-> new[y].fee]
<1>8. /\ \A y \in Extras : a[y] \in Int /\ b[y] \in Int /\ c[y] \in Int /\ d[y] \in Int
      /\ \A y \in Extras : y # x => b[y] = a[y] /\ d[y] = c[y]
      /\ b[x] = row.amount /\ d[x] = row.fee
  BY <1>1, <1>4
<1>9. \A o : /\ AmountSum(ex, o) = Total(a, HeldBy(ex, o)) /\ AmountSum(new, o) = Total(b, HeldBy(new, o))
             /\ FeeSum(ex, o) = Total(c, HeldBy(ex, o)) /\ FeeSum(new, o) = Total(d, HeldBy(new, o))
  BY DEF AmountSum, FeeSum
<1> HIDE DEF a, b, c, d
<1>10. /\ AmountSum(new, row.of) = row.amount + AmountSum(ex, row.of)
       /\ FeeSum(new, row.of) = row.fee + FeeSum(ex, row.of)
  <2> DEFINE S == HeldBy(ex, row.of)
  <2>1. /\ IsFiniteSet(S) /\ x \notin S /\ b[x] \in Int /\ d[x] \in Int
        /\ \A y \in S : a[y] \in Int /\ b[y] = a[y]
        /\ \A y \in S : c[y] \in Int /\ d[y] = c[y]
    <3>1. S \subseteq Extras /\ x \notin S /\ IsFiniteSet(S)
      BY <1>5, <1>7
    <3> HIDE DEF S
    <3>2. \A y \in S : y \in Extras /\ y # x
      BY <3>1
    <3> QED BY <1>8, <3>1, <3>2
  <2>2. HeldBy(new, row.of) = S \cup {x}
    BY <1>5
  <2>3. AmountSum(new, row.of) = Total(b, S \cup {x}) /\ AmountSum(ex, row.of) = Total(a, S)
    BY <1>9, <2>2
  <2>4. FeeSum(new, row.of) = Total(d, S \cup {x}) /\ FeeSum(ex, row.of) = Total(c, S)
    BY <1>9, <2>2
  <2> HIDE DEF S
  <2>5. Total(b, S \cup {x}) = b[x] + Total(a, S)
    BY <2>1, TotalOfOneMore
  <2>6. Total(d, S \cup {x}) = d[x] + Total(c, S)
    BY <2>1, TotalOfOneMore
  <2> QED BY <1>8, <2>3, <2>4, <2>5, <2>6
<1>11. ASSUME NEW o \in Buys, o # row.of
       PROVE  AmountSum(new, o) = AmountSum(ex, o) /\ FeeSum(new, o) = FeeSum(ex, o)
  <2> DEFINE S == HeldBy(ex, o)
  <2>1. HeldBy(new, o) = S /\ x \notin S /\ S \subseteq Extras /\ IsFiniteSet(S)
    BY <1>6, <1>7, <1>11
  <2>2. AmountSum(new, o) = Total(b, S) /\ AmountSum(ex, o) = Total(a, S)
    BY <1>9, <2>1
  <2>3. FeeSum(new, o) = Total(d, S) /\ FeeSum(ex, o) = Total(c, S)
    BY <1>9, <2>1
  <2> HIDE DEF S
  <2>4. \A y \in S : y \in Extras /\ y # x
    BY <2>1
  <2>5. \A y \in S : b[y] \in Int /\ b[y] = a[y]
    BY <1>8, <2>4
  <2>6. \A y \in S : d[y] \in Int /\ d[y] = c[y]
    BY <1>8, <2>4
  <2>7. Total(b, S) = Total(a, S)
    BY <2>1, <2>5, TotalOfSame
  <2>8. Total(d, S) = Total(c, S)
    BY <2>1, <2>6, TotalOfSame
  <2> QED BY <2>2, <2>3, <2>7, <2>8
<1>12. \A o \in Buys : o # row.of => AmountSum(new, o) = AmountSum(ex, o) /\ FeeSum(new, o) = FeeSum(ex, o)
  BY <1>11
<1> QED BY <1>3, <1>10, <1>12 DEF new

\* One taken back lowers them again
LEMMA ExtraTakenBack ==
  ASSUME NEW ex \in ExtraTable, NEW x \in Extras, ex[x] # NoExtra
  PROVE  LET new == [ex EXCEPT ![x] = NoExtra]
             o == ex[x].of IN
         /\ new \in ExtraTable /\ o \in Buys
         /\ AmountSum(ex, o) = ex[x].amount + AmountSum(new, o)
         /\ FeeSum(ex, o) = ex[x].fee + FeeSum(new, o)
         /\ \A p \in Buys : p # o => AmountSum(new, p) = AmountSum(ex, p)
                                     /\ FeeSum(new, p) = FeeSum(ex, p)
<1> DEFINE new == [ex EXCEPT ![x] = NoExtra]
           row == ex[x]
<1>1. row \in ExtraRow /\ row.of \in Buys /\ row.amount > 0
  BY DEF ExtraTable
<1>2. NoExtra \in ExtraRow
  BY DEF NoExtra, ExtraRow
<1>3. new \in ExtraTable /\ new[x] = NoExtra
  BY <1>2 DEF ExtraTable
<1>4. ex = [new EXCEPT ![x] = row]
  BY DEF ExtraTable
<1> HIDE DEF new, row
<1> DEFINE back == [new EXCEPT ![x] = row]
<1>5. /\ AmountSum(back, row.of) = row.amount + AmountSum(new, row.of)
      /\ FeeSum(back, row.of) = row.fee + FeeSum(new, row.of)
      /\ \A o \in Buys : o # row.of => AmountSum(back, o) = AmountSum(new, o)
                                       /\ FeeSum(back, o) = FeeSum(new, o)
  BY <1>1, <1>3, ExtraNoted
<1>6. back = ex
  BY <1>4
<1> HIDE DEF back
<1> QED BY <1>1, <1>3, <1>5, <1>6 DEF new, row

\* What is left of a sum from which no more is taken than is there
LEMMA NotBelowZero ==
  ASSUME NEW v \in Int
  PROVE  Max({0, v}) \in Nat /\ (v \in Nat => Max({0, v}) = v)
<1>1. CASE v \in Nat
  <2>1. {0, v} \in SUBSET (0..v)
    BY <1>1
  <2>2. Max({0, v}) \in {0, v} /\ \A m \in {0, v} : m <= Max({0, v})
    BY <1>1, <2>1, MaxIsLargest
  <2>3. v <= Max({0, v}) /\ (Max({0, v}) = 0 \/ Max({0, v}) = v)
    BY <2>2
  <2> QED BY <1>1, <2>3
<1>2. CASE v \notin Nat
  <2>1. 0 \in {0, v} /\ \A y \in {0, v} : 0 >= y
    BY <1>2
  <2>2. Max({0, v}) \in {0, v} /\ \A y \in {0, v} : Max({0, v}) >= y
    BY <2>1 DEF Max
  <2>3. Max({0, v}) = 0
    <3>1. Max({0, v}) >= 0
      BY <2>2
    <3> QED BY <1>2, <2>2, <3>1
  <2> QED BY <1>2, <2>3
<1> QED BY <1>1, <1>2

EarnedRow == [amount : Nat, fee : Int, rate : Rates, refund : Nat, manual : BOOLEAN,
              shipped : BOOLEAN, dated : BOOLEAN, cancelled : BOOLEAN]

\* An order whose extra payments come to am and their fees to fs: the amount holds the payments,
\* and a fee that nobody put in by hand is explained
Settled(e, am, fs) ==
  /\ e \in EarnedRow /\ am <= e.amount
  /\ ~e.manual => e.fee = (e.amount - am) * e.rate + fs

MoneyInv ==
  /\ earned \in [Buys -> EarnedRow] /\ extra \in ExtraTable /\ rateOf \in [Shops -> Rates]
  /\ \A o \in Buys : Settled(earned[o], AmountSum(extra, o), FeeSum(extra, o))

Repriced(e, m, f) == [e EXCEPT !.amount = m, !.fee = f]

\* A row with another amount and fee
LEMMA RowRepriced ==
  ASSUME NEW e \in EarnedRow, NEW m \in Nat, NEW f \in Int
  PROVE  LET new == Repriced(e, m, f) IN
         /\ new \in EarnedRow /\ new.amount = m /\ new.fee = f
         /\ new.rate = e.rate /\ new.manual = e.manual
<1> DEFINE mid == [e EXCEPT !.amount = m]
           new == [mid EXCEPT !.fee = f]
<1>1. mid \in EarnedRow
  BY DEF EarnedRow
<1>2. mid.amount = m /\ mid.rate = e.rate /\ mid.manual = e.manual
  BY Zenon DEF EarnedRow
<1> HIDE DEF mid
<1>3. new \in EarnedRow
  BY <1>1 DEF EarnedRow
<1>4. new.amount = mid.amount /\ new.fee = f /\ new.rate = mid.rate /\ new.manual = mid.manual
  BY <1>1, Zenon DEF EarnedRow
<1>5. Repriced(e, m, f) = new
  BY DEF mid, Repriced
<1> QED BY <1>2, <1>3, <1>4, <1>5, Zenon

\* A product of naturals is one
LEMMA ProductIsNat == \A m, n \in Nat : m * n \in Nat
<1> SUFFICES ASSUME NEW m \in Nat, NEW n \in Nat PROVE m * n \in Nat
  OBVIOUS
<1>1. m * n \in Int /\ m >= 0 /\ n >= 0
  OBVIOUS
<1>2. m * n >= 0
  OBVIOUS
<1> QED BY <1>1, <1>2

\* The sums of the model, under the invariant
LEMMA SumsHere ==
  ASSUME MoneyInv
  PROVE  \A o : /\ ExtraAmount(o) = AmountSum(extra, o) /\ ExtraFee(o) = FeeSum(extra, o)
                /\ AmountSum(extra, o) \in Nat /\ FeeSum(extra, o) \in Nat
<1> SUFFICES ASSUME NEW o
             PROVE  /\ ExtraAmount(o) = AmountSum(extra, o) /\ ExtraFee(o) = FeeSum(extra, o)
                    /\ AmountSum(extra, o) \in Nat /\ FeeSum(extra, o) \in Nat
  OBVIOUS
<1>1. extra \in ExtraTable
  BY DEF MoneyInv
<1>2. ExtrasOf(o) = HeldBy(extra, o)
  BY DEF ExtrasOf, HeldBy
<1>3. /\ MapThenSumSet(LAMBDA x : extra[x].amount, HeldBy(extra, o)) = AmountSum(extra, o)
      /\ MapThenSumSet(LAMBDA x : extra[x].fee, HeldBy(extra, o)) = FeeSum(extra, o)
      /\ AmountSum(extra, o) \in Nat /\ FeeSum(extra, o) \in Nat
  BY <1>1, SumsOfTable
<1>4. ExtraAmount(o) = MapThenSumSet(LAMBDA x : extra[x].amount, HeldBy(extra, o))
  BY <1>2, Zenon DEF ExtraAmount
<1>5. ExtraFee(o) = MapThenSumSet(LAMBDA x : extra[x].fee, HeldBy(extra, o))
  BY <1>2, Zenon DEF ExtraFee
<1> QED BY <1>3, <1>4, <1>5

\* A payment that comes in brings its amount and its fee
LEMMA PaymentSettles ==
  ASSUME NEW e \in EarnedRow, NEW am \in Nat, NEW fs \in Nat, Settled(e, am, fs),
         NEW k \in Nat, NEW f \in Nat
  PROVE  Settled([e EXCEPT !.amount = @ + k, !.fee = @ + f], k + am, f + fs)
<1> DEFINE new == [e EXCEPT !.amount = @ + k, !.fee = @ + f]
<1>1. e.amount \in Nat /\ e.fee \in Int /\ e.rate \in Nat
  BY TakingsBounds DEF EarnedRow
<1>2. /\ new \in EarnedRow /\ new.amount = e.amount + k /\ new.fee = e.fee + f
      /\ new.rate = e.rate /\ new.manual = e.manual
  <2> DEFINE m == e.amount + k
             g == e.fee + f
             alt == Repriced(e, m, g)
  <2>1. m \in Nat /\ g \in Int
    BY <1>1
  <2> HIDE DEF m, g
  <2>2. alt \in EarnedRow /\ alt.amount = m /\ alt.fee = g /\ alt.rate = e.rate /\ alt.manual = e.manual
    BY <2>1, RowRepriced
  <2>3. new = alt
    BY DEF m, g, Repriced
  <2> HIDE DEF alt, new
  <2> QED BY <2>2, <2>3 DEF m, g
<1> HIDE DEF new
<1>3. k + am <= new.amount
  BY <1>1, <1>2 DEF Settled
<1>4. new.amount - (k + am) = e.amount - am
  BY <1>1, <1>2
<1>5. (e.amount - am) * e.rate \in Int
  BY <1>1
<1>6. ~new.manual => new.fee = (new.amount - (k + am)) * new.rate + (f + fs)
  <2> SUFFICES ASSUME ~new.manual PROVE new.fee = (new.amount - (k + am)) * new.rate + (f + fs)
    OBVIOUS
  <2>1. e.fee = (e.amount - am) * e.rate + fs
    BY <1>2 DEF Settled
  <2>2. (new.amount - (k + am)) * new.rate = (e.amount - am) * e.rate
    BY <1>2, <1>4
  <2> DEFINE p == (e.amount - am) * e.rate
  <2>3. p \in Int /\ e.fee = p + fs /\ new.fee = e.fee + f
    BY <1>2, <1>5, <2>1
  <2> HIDE DEF p
  <2>4. new.fee = p + (f + fs)
    BY <2>3
  <2> QED BY <2>2, <2>4 DEF p
<1> QED BY <1>2, <1>3, <1>6 DEF Settled, new

\* One that is taken back takes them away: its amount is in the amount, its fee in the fee
LEMMA RefundSettles ==
  ASSUME NEW e \in EarnedRow, NEW am \in Nat, NEW fs \in Nat, NEW k \in Nat, NEW f \in Nat,
         Settled(e, k + am, f + fs)
  PROVE  Settled([e EXCEPT !.amount = Max({0, @ - k}), !.fee = Max({0, @ - f})], am, fs)
<1> DEFINE new == [e EXCEPT !.amount = Max({0, @ - k}), !.fee = Max({0, @ - f})]
<1>1. e.amount \in Nat /\ e.fee \in Int /\ e.rate \in Nat
  BY TakingsBounds DEF EarnedRow
<1>2. e.amount - k \in Nat /\ e.amount - (k + am) \in Nat
  BY <1>1 DEF Settled
<1>3. Max({0, e.amount - k}) = e.amount - k
  BY <1>2, NotBelowZero
<1>4. Max({0, e.fee - f}) \in Nat
  BY <1>1, NotBelowZero
<1>5. /\ new \in EarnedRow /\ new.amount = e.amount - k /\ new.fee = Max({0, e.fee - f})
      /\ new.rate = e.rate /\ new.manual = e.manual
  <2> DEFINE m == Max({0, e.amount - k})
             g == Max({0, e.fee - f})
             alt == Repriced(e, m, g)
  <2>1. m \in Nat /\ g \in Int
    BY <1>2, <1>3, <1>4
  <2> HIDE DEF m, g
  <2>2. alt \in EarnedRow /\ alt.amount = m /\ alt.fee = g /\ alt.rate = e.rate /\ alt.manual = e.manual
    BY <2>1, RowRepriced
  <2>3. new = alt
    BY DEF m, g, Repriced
  <2> HIDE DEF alt, new
  <2> QED BY <1>3, <2>2, <2>3 DEF m, g
<1> HIDE DEF new
<1>6. am <= new.amount
  BY <1>1, <1>2, <1>5
<1>7. ~new.manual => new.fee = (new.amount - am) * new.rate + fs
  <2> SUFFICES ASSUME ~new.manual PROVE new.fee = (new.amount - am) * new.rate + fs
    OBVIOUS
  <2> DEFINE p == (e.amount - (k + am)) * e.rate
  <2>1. p \in Nat
    BY <1>1, <1>2, ProductIsNat
  <2>2. e.fee = p + (f + fs)
    BY <1>5 DEF Settled
  <2>3. new.amount - am = e.amount - (k + am)
    BY <1>1, <1>5
  <2>4. (new.amount - am) * new.rate = p
    BY <1>5, <2>3
  <2> HIDE DEF p
  <2>5. e.fee - f = p + fs /\ e.fee - f \in Nat
    BY <2>1, <2>2
  <2>6. Max({0, e.fee - f}) = e.fee - f
    BY <2>5, NotBelowZero
  <2> QED BY <1>5, <2>4, <2>5, <2>6
<1> QED BY <1>5, <1>6, <1>7 DEF Settled, new

\* One order changes, no payment does
LEMMA OneOrderSettles ==
  ASSUME MoneyInv, NEW o \in Buys, NEW new, Settled(new, AmountSum(extra, o), FeeSum(extra, o)),
         earned' = [earned EXCEPT ![o] = new], extra' = extra, rateOf' = rateOf
  PROVE  MoneyInv'
<1>1. new \in EarnedRow
  BY DEF Settled
<1>2. earned' \in [Buys -> EarnedRow] /\ earned'[o] = new
  BY <1>1 DEF MoneyInv
<1>3. \A p \in Buys : p # o => earned'[p] = earned[p]
  BY DEF MoneyInv
<1>4. \A p \in Buys : Settled(earned'[p], AmountSum(extra, p), FeeSum(extra, p))
  BY <1>2, <1>3, Zenon DEF MoneyInv
<1> QED BY <1>2, <1>4 DEF MoneyInv

\* A row whose amount, fee, rate and hand mark stay
LEMMA SameMoneySettles ==
  ASSUME NEW e, NEW am, NEW fs, Settled(e, am, fs), NEW new \in EarnedRow,
         new.amount = e.amount, new.fee = e.fee, new.rate = e.rate, new.manual = e.manual
  PROVE  Settled(new, am, fs)
BY Zenon DEF Settled

\* The fee the mall keeps of what was paid there explains itself
LEMMA SettledFeeSettles ==
  ASSUME MoneyInv, NEW o \in Buys
  PROVE  Settled(SettledFee(o), AmountSum(extra, o), FeeSum(extra, o))
<1> DEFINE e == earned[o]
           am == AmountSum(extra, o)
           fs == FeeSum(extra, o)
           r == rateOf[ShopOf[o]]
           f == (e.amount - am) * r + fs
           mid == [e EXCEPT !.fee = f]
           new == [mid EXCEPT !.rate = r]
<1>1. e \in EarnedRow /\ am \in Nat /\ fs \in Nat /\ am <= e.amount
  BY SumsHere DEF MoneyInv, Settled
<1>2. r \in Rates
  BY DEF MoneyInv, Shops
<1>3. SettledFee(o) = new
  BY SumsHere DEF SettledFee, FeeFor
<1>4. f \in Int
  <2>1. e.amount \in Nat /\ r \in Nat
    BY <1>1, <1>2, TakingsBounds DEF EarnedRow
  <2> HIDE DEF e, r, am, fs
  <2> QED BY <1>1, <2>1
<1> HIDE DEF e, r, f, am, fs
<1>5. mid \in EarnedRow /\ mid.amount = e.amount /\ mid.fee = f
  <2>1. mid \in EarnedRow
    BY <1>1, <1>4 DEF EarnedRow
  <2>2. mid.amount = e.amount /\ mid.fee = f
    BY <1>1, Zenon DEF EarnedRow
  <2> QED BY <2>1, <2>2
<1> HIDE DEF mid
<1>6. new \in EarnedRow /\ new.amount = mid.amount /\ new.fee = mid.fee /\ new.rate = r
  <2>1. new \in EarnedRow
    BY <1>2, <1>5 DEF EarnedRow
  <2>2. new.amount = mid.amount /\ new.fee = mid.fee /\ new.rate = r
    BY <1>5, Zenon DEF EarnedRow
  <2> QED BY <2>1, <2>2
<1> HIDE DEF new
<1>7. new.fee = (new.amount - am) * new.rate + fs
  BY <1>5, <1>6 DEF f
<1>8. Settled(new, am, fs)
  BY <1>1, <1>5, <1>6, <1>7 DEF Settled
<1> QED BY <1>3, <1>8 DEF am, fs

\* A payment comes in
LEMMA PaymentKeeps ==
  ASSUME MoneyInv, NEW x \in Extras, NEW o \in Buys, NEW amount \in Nat \ {0}, NEW fee \in Nat,
         NoteExtra(x, o, amount, fee)
  PROVE  /\ extra' \in ExtraTable
         /\ Paid(o, amount, fee) \in [Buys -> EarnedRow]
         /\ \A p \in Buys : Settled(Paid(o, amount, fee)[p], AmountSum(extra', p), FeeSum(extra', p))
<1> DEFINE row == [of |-> o, amount |-> amount, fee |-> fee]
           new == [extra EXCEPT ![x] = row]
           e == [earned[o] EXCEPT !.amount = @ + amount, !.fee = @ + fee]
<1>1. extra \in ExtraTable /\ extra[x] = NoExtra /\ extra' = new /\ earned \in [Buys -> EarnedRow]
  BY DEF NoteExtra, MoneyInv
<1>2. row \in ExtraRow /\ row.of = o /\ row.amount = amount /\ row.fee = fee /\ row.of \in Buys /\ row.amount > 0
  BY DEF ExtraRow
<1> HIDE DEF row
<1>3. /\ new \in ExtraTable
      /\ AmountSum(new, o) = amount + AmountSum(extra, o)
      /\ FeeSum(new, o) = fee + FeeSum(extra, o)
      /\ \A p \in Buys : p # o => AmountSum(new, p) = AmountSum(extra, p)
                                  /\ FeeSum(new, p) = FeeSum(extra, p)
  BY <1>1, <1>2, ExtraNoted
<1> HIDE DEF new
<1>4. Settled(e, amount + AmountSum(extra, o), fee + FeeSum(extra, o))
  <2>1. /\ earned[o] \in EarnedRow /\ AmountSum(extra, o) \in Nat /\ FeeSum(extra, o) \in Nat
        /\ Settled(earned[o], AmountSum(extra, o), FeeSum(extra, o)) /\ amount \in Nat
    BY <1>1, SumsHere DEF MoneyInv
  <2> QED BY <2>1, PaymentSettles
<1>5. Paid(o, amount, fee) = [earned EXCEPT ![o] = e]
  BY <1>1 DEF Paid
<1> HIDE DEF e
<1>6. e \in EarnedRow
  BY <1>4 DEF Settled
<1>7. Paid(o, amount, fee) \in [Buys -> EarnedRow]
  BY <1>1, <1>5, <1>6
<1>8. ASSUME NEW p \in Buys
      PROVE  Settled(Paid(o, amount, fee)[p], AmountSum(new, p), FeeSum(new, p))
  <2>1. CASE p = o
    <3>1. Paid(o, amount, fee)[p] = e
      BY <1>1, <1>5, <2>1
    <3> QED BY <1>3, <1>4, <2>1, <3>1
  <2>2. CASE p # o
    <3>1. Paid(o, amount, fee)[p] = earned[p]
      BY <1>1, <1>5, <2>2
    <3>2. Settled(earned[p], AmountSum(extra, p), FeeSum(extra, p))
      BY DEF MoneyInv
    <3> QED BY <1>3, <2>2, <3>1, <3>2
  <2> QED BY <2>1, <2>2
<1> QED BY <1>1, <1>3, <1>7, <1>8

\* The fee a mall takes is a number
LEMMA FeeIsNat ==
  ASSUME MoneyInv, NEW o \in Buys, NEW amount \in Nat
  PROVE  FeeFor(o, amount) \in Nat
<1>1. rateOf[ShopOf[o]] \in Nat
  <2>1. rateOf[ShopOf[o]] \in Rates
    BY DEF MoneyInv, Shops
  <2> QED BY <2>1, TakingsBounds
<1> QED BY <1>1, ProductIsNat DEF FeeFor

\* add_extra
LEMMA AddExtraSettles ==
  ASSUME MoneyInv, NEW x \in Extras, NEW o \in Buys, NEW amount \in Won, NEW method \in Methods,
         NEW rate \in Rates, AddExtra(x, o, amount, method, rate)
  PROVE  MoneyInv'
<1> DEFINE fee == CASE method = "bank" -> 0 [] method = "mall" -> FeeFor(o, amount)
                    [] OTHER -> amount * rate
<1>1. amount \in Nat \ {0}
  BY TakingsBounds DEF Won
<1>2. fee \in Nat
  <2>1. FeeFor(o, amount) \in Nat /\ amount * rate \in Nat /\ 0 \in Nat
    BY <1>1, FeeIsNat, ProductIsNat, TakingsBounds
  <2>2. fee = 0 \/ fee = FeeFor(o, amount) \/ fee = amount * rate
    BY DEF Methods
  <2> HIDE DEF fee
  <2> QED BY <2>1, <2>2
<1>3. NoteExtra(x, o, amount, fee) /\ OnEarned(Paid(o, amount, fee))
  BY Zenon DEF AddExtra
<1> HIDE DEF fee
<1>4. earned' = Paid(o, amount, fee) /\ rateOf' = rateOf
  BY <1>3 DEF OnEarned
<1>5. /\ extra' \in ExtraTable /\ Paid(o, amount, fee) \in [Buys -> EarnedRow]
      /\ \A p \in Buys : Settled(Paid(o, amount, fee)[p], AmountSum(extra', p), FeeSum(extra', p))
  BY <1>1, <1>2, <1>3, PaymentKeeps
<1> QED BY <1>4, <1>5 DEF MoneyInv

\* merge_as_extra: the order that goes into the other keeps what it earned
LEMMA MergeAsExtraSettles ==
  ASSUME MoneyInv, NEW x \in Extras, NEW o \in Buys, NEW to \in Buys, MergeAsExtra(x, o, to)
  PROVE  MoneyInv'
<1> DEFINE amount == earned[o].amount
           fee == FeeFor(o, amount)
           paid == Paid(to, amount, fee)
           e == [paid[o] EXCEPT !.cancelled = TRUE]
<1>1. /\ NoteExtra(x, to, amount, fee) /\ amount > 0
      /\ earned' = [paid EXCEPT ![o].cancelled = TRUE] /\ rateOf' = rateOf
  BY Zenon DEF MergeAsExtra, OnEarned
<1>2. amount \in Nat \ {0}
  <2>1. earned[o] \in EarnedRow
    BY DEF MoneyInv
  <2>2. amount \in Nat
    BY <2>1 DEF EarnedRow
  <2> HIDE DEF amount
  <2> QED BY <1>1, <2>2
<1> HIDE DEF amount
<1>3. fee \in Nat
  BY <1>2, FeeIsNat
<1> HIDE DEF fee
<1>4. /\ extra' \in ExtraTable /\ paid \in [Buys -> EarnedRow]
      /\ \A p \in Buys : Settled(paid[p], AmountSum(extra', p), FeeSum(extra', p))
  BY <1>1, <1>2, <1>3, PaymentKeeps
<1> HIDE DEF paid
<1>5. /\ e \in EarnedRow /\ e.amount = paid[o].amount /\ e.fee = paid[o].fee /\ e.rate = paid[o].rate
      /\ e.manual = paid[o].manual
  <2>1. paid[o] \in EarnedRow
    BY <1>4
  <2>2. e \in EarnedRow
    BY <2>1 DEF EarnedRow
  <2>3. /\ e.amount = paid[o].amount /\ e.fee = paid[o].fee /\ e.rate = paid[o].rate
        /\ e.manual = paid[o].manual
    BY <2>1, Zenon DEF EarnedRow
  <2> QED BY <2>2, <2>3
<1>6. earned' = [paid EXCEPT ![o] = e]
  BY <1>1
<1> HIDE DEF e
<1>7. earned' \in [Buys -> EarnedRow] /\ earned'[o] = e /\ \A p \in Buys : p # o => earned'[p] = paid[p]
  BY <1>4, <1>5, <1>6
<1>8. Settled(e, AmountSum(extra', o), FeeSum(extra', o))
  BY <1>4, <1>5, SameMoneySettles
<1>9. \A p \in Buys : Settled(earned'[p], AmountSum(extra', p), FeeSum(extra', p))
  BY <1>4, <1>7, <1>8
<1>10. rateOf' \in [Shops -> Rates]
  BY <1>1 DEF MoneyInv
<1> QED BY <1>4, <1>7, <1>9, <1>10 DEF MoneyInv

\* delete_extra
LEMMA DeleteExtraSettles ==
  ASSUME MoneyInv, NEW x \in Extras, DeleteExtra(x)
  PROVE  MoneyInv'
<1> DEFINE row == extra[x]
           o == row.of
           new == [extra EXCEPT ![x] = NoExtra]
           e == [earned[o] EXCEPT !.amount = Max({0, @ - row.amount}), !.fee = Max({0, @ - row.fee})]
<1>1. /\ row # NoExtra /\ extra' = new /\ rateOf' = rateOf
      /\ earned' = [earned EXCEPT ![o].amount = Max({0, @ - row.amount}),
                                  ![o].fee = Max({0, @ - row.fee})]
  BY Zenon DEF DeleteExtra, OnEarned
<1>2. extra \in ExtraTable /\ earned \in [Buys -> EarnedRow] /\ rateOf \in [Shops -> Rates]
  BY DEF MoneyInv
<1>3. /\ new \in ExtraTable /\ o \in Buys
      /\ AmountSum(extra, o) = row.amount + AmountSum(new, o)
      /\ FeeSum(extra, o) = row.fee + FeeSum(new, o)
      /\ \A p \in Buys : p # o => AmountSum(new, p) = AmountSum(extra, p)
                                  /\ FeeSum(new, p) = FeeSum(extra, p)
  BY <1>1, <1>2, ExtraTakenBack
<1>4. row.amount \in Nat /\ row.fee \in Nat
  BY <1>2 DEF ExtraTable, ExtraRow
<1>5. AmountSum(new, o) \in Nat /\ FeeSum(new, o) \in Nat
  BY <1>3, SumsOfTable
<1>6. earned' = [earned EXCEPT ![o] = e]
  BY <1>1, <1>2
<1> HIDE DEF new, row, o
<1>7. Settled(e, AmountSum(new, o), FeeSum(new, o))
  <2>1. earned[o] \in EarnedRow /\ Settled(earned[o], row.amount + AmountSum(new, o), row.fee + FeeSum(new, o))
    BY <1>2, <1>3 DEF MoneyInv
  <2> QED BY <1>4, <1>5, <2>1, RefundSettles
<1> HIDE DEF e
<1>8. e \in EarnedRow
  BY <1>7 DEF Settled
<1>9. earned' \in [Buys -> EarnedRow] /\ earned'[o] = e /\ \A p \in Buys : p # o => earned'[p] = earned[p]
  BY <1>2, <1>3, <1>6, <1>8
<1>10. \A p \in Buys : Settled(earned[p], AmountSum(extra, p), FeeSum(extra, p))
  BY DEF MoneyInv
<1>11. \A p \in Buys : Settled(earned'[p], AmountSum(new, p), FeeSum(new, p))
  BY <1>3, <1>7, <1>9, <1>10
<1> QED BY <1>1, <1>2, <1>3, <1>9, <1>11 DEF MoneyInv

\* the shipping of an order, with and without the fee
LEMMA ShippingSettles ==
  ASSUME MoneyInv, NEW o \in Buys,
         \/ ShipBuy(o) \/ ShipBuyToday(o)
         \/ \E shipped, cancelled \in BOOLEAN : SetBuy(o, shipped, cancelled)
  PROVE  MoneyInv'
<1> DEFINE am == AmountSum(extra, o)
           fs == FeeSum(extra, o)
<1>1. earned \in [Buys -> EarnedRow] /\ Settled(earned[o], am, fs) /\ Settled(SettledFee(o), am, fs)
  BY SettledFeeSettles DEF MoneyInv
<1> HIDE DEF am, fs
<1>2. ASSUME NEW e, Settled(e, am, fs), NEW s \in BOOLEAN, NEW d \in BOOLEAN
      PROVE  Settled([e EXCEPT !.shipped = s, !.dated = d], am, fs)
             /\ Settled([e EXCEPT !.shipped = s, !.cancelled = d], am, fs)
  <2> DEFINE mid == [e EXCEPT !.shipped = s]
  <2>1. e \in EarnedRow
    BY <1>2 DEF Settled
  <2>2. mid \in EarnedRow
    BY <2>1 DEF EarnedRow
  <2>3. mid.amount = e.amount /\ mid.fee = e.fee /\ mid.rate = e.rate /\ mid.manual = e.manual
    BY <2>1, Zenon DEF EarnedRow
  <2> HIDE DEF mid
  <2>4. Settled(mid, am, fs)
    BY <1>2, <2>1, <2>2, <2>3, SameMoneySettles
  <2>5. Settled([mid EXCEPT !.dated = d], am, fs)
    <3> DEFINE new == [mid EXCEPT !.dated = d]
    <3>1. new \in EarnedRow
      BY <2>2 DEF EarnedRow
    <3>2. new.amount = mid.amount /\ new.fee = mid.fee /\ new.rate = mid.rate /\ new.manual = mid.manual
      BY <2>2, Zenon DEF EarnedRow
    <3> HIDE DEF new
    <3>3. Settled(new, am, fs)
      BY <2>4, <3>1, <3>2, SameMoneySettles
    <3> QED BY <3>3 DEF new
  <2>6. Settled([mid EXCEPT !.cancelled = d], am, fs)
    <3> DEFINE new == [mid EXCEPT !.cancelled = d]
    <3>1. new \in EarnedRow
      BY <2>2 DEF EarnedRow
    <3>2. new.amount = mid.amount /\ new.fee = mid.fee /\ new.rate = mid.rate /\ new.manual = mid.manual
      BY <2>2, Zenon DEF EarnedRow
    <3> HIDE DEF new
    <3>3. Settled(new, am, fs)
      BY <2>4, <3>1, <3>2, SameMoneySettles
    <3> QED BY <3>3 DEF new
  <2>7. [e EXCEPT !.shipped = s, !.dated = d] = [mid EXCEPT !.dated = d]
        /\ [e EXCEPT !.shipped = s, !.cancelled = d] = [mid EXCEPT !.cancelled = d]
    BY DEF mid
  <2> QED BY <2>5, <2>6, <2>7
<1>3. CASE ShipBuy(o)
  <2>1. PICK e : /\ e = earned[o] \/ e = SettledFee(o)
                 /\ OnEarned([earned EXCEPT ![o] = [e EXCEPT !.shipped = TRUE, !.dated = TRUE]])
                 /\ extra' = extra
    BY <1>3, Zenon DEF ShipBuy
  <2> DEFINE new == [e EXCEPT !.shipped = TRUE, !.dated = TRUE]
  <2>2. Settled(e, am, fs)
    BY <1>1, <2>1, Zenon
  <2>3. Settled(new, am, fs)
    BY <1>2, <2>2
  <2> HIDE DEF new
  <2>4. earned' = [earned EXCEPT ![o] = new] /\ rateOf' = rateOf
    BY <2>1 DEF OnEarned, new
  <2> QED BY <2>1, <2>3, <2>4, OneOrderSettles DEF am, fs
<1>4. CASE ShipBuyToday(o)
  <2> DEFINE new == [earned[o] EXCEPT !.shipped = TRUE, !.dated = TRUE]
  <2>1. Settled(new, am, fs)
    BY <1>1, <1>2
  <2>2. extra' = extra /\ rateOf' = rateOf
        /\ earned' = [earned EXCEPT ![o].shipped = TRUE, ![o].dated = TRUE]
    BY <1>4 DEF ShipBuyToday, OnEarned
  <2>3. earned' = [earned EXCEPT ![o] = new]
    BY <1>1, <2>2
  <2> HIDE DEF new
  <2> QED BY <2>1, <2>2, <2>3, OneOrderSettles DEF am, fs
<1>5. CASE \E shipped, cancelled \in BOOLEAN : SetBuy(o, shipped, cancelled)
  <2>1. PICK s \in BOOLEAN, d \in BOOLEAN : SetBuy(o, s, d)
    BY <1>5
  <2> DEFINE new == [earned[o] EXCEPT !.shipped = s, !.cancelled = d]
  <2>2. Settled(new, am, fs)
    BY <1>1, <1>2
  <2>3. extra' = extra /\ rateOf' = rateOf
        /\ earned' = [earned EXCEPT ![o].shipped = s, ![o].cancelled = d]
    BY <2>1 DEF SetBuy, OnEarned
  <2>4. earned' = [earned EXCEPT ![o] = new]
    BY <1>1, <2>3
  <2> HIDE DEF new
  <2> QED BY <2>2, <2>3, <2>4, OneOrderSettles DEF am, fs
<1> QED BY <1>3, <1>4, <1>5

\* the details form
LEMMA EditAmountSettles ==
  ASSUME MoneyInv, NEW o \in Buys, NEW amount \in Nat, ExtraAmount(o) <= amount, EditAmount(o, amount)
  PROVE  MoneyInv'
<1> DEFINE am == AmountSum(extra, o)
           fs == FeeSum(extra, o)
           e == [earned[o] EXCEPT !.amount = amount]
           f == Recalculated(e, o)
           new == [e EXCEPT !.fee = f]
<1>1. /\ am \in Nat /\ fs \in Nat /\ ExtraAmount(o) = am /\ ExtraFee(o) = fs
      /\ earned[o] \in EarnedRow /\ Settled(earned[o], am, fs)
  BY SumsHere DEF MoneyInv
<1>2. /\ extra' = extra /\ rateOf' = rateOf
      /\ earned' = [earned EXCEPT ![o] = IF e.manual \/ e.rate = 0 THEN e ELSE new]
  BY Zenon DEF EditAmount, OnEarned
<1>3. e \in EarnedRow
  BY <1>1 DEF EarnedRow
<1>4. e.amount = amount /\ e.fee = earned[o].fee /\ e.rate = earned[o].rate /\ e.manual = earned[o].manual
  BY <1>1, Zenon DEF EarnedRow
<1>5. f = (e.amount - am) * e.rate + fs
  BY <1>1, Zenon DEF Recalculated
<1> HIDE DEF e, f, am, fs
<1>6. e.rate \in Nat /\ e.amount \in Nat /\ earned[o].amount \in Nat
  BY <1>1, <1>3, TakingsBounds DEF EarnedRow
<1>7. f \in Int
  BY <1>1, <1>5, <1>6
<1>8. CASE e.manual
  <2>1. Settled(e, am, fs)
    BY <1>1, <1>3, <1>4, <1>8 DEF Settled
  <2>2. earned' = [earned EXCEPT ![o] = e]
    BY <1>2, <1>8
  <2> QED BY <1>2, <2>1, <2>2, OneOrderSettles DEF am, fs
<1>9. CASE ~e.manual /\ e.rate = 0
  <2>1. earned[o].fee = (earned[o].amount - am) * 0 + fs
    BY <1>1, <1>4, <1>9 DEF Settled
  <2>2. e.fee = (e.amount - am) * e.rate + fs
    <3>1. (earned[o].amount - am) * 0 = 0 /\ (e.amount - am) * 0 = 0
      BY <1>1, <1>6
    <3>2. e.fee = 0 + fs
      BY <1>4, <2>1, <3>1
    <3>3. (e.amount - am) * e.rate = 0
      BY <1>9, <3>1
    <3> QED BY <3>2, <3>3
  <2>3. Settled(e, am, fs)
    BY <1>1, <1>3, <1>4, <2>2 DEF Settled
  <2>4. earned' = [earned EXCEPT ![o] = e]
    BY <1>2, <1>9
  <2> QED BY <1>2, <2>3, <2>4, OneOrderSettles DEF am, fs
<1>10. CASE ~e.manual /\ e.rate # 0
  <2>1. new \in EarnedRow
    BY <1>3, <1>7 DEF EarnedRow
  <2>2. new.amount = e.amount /\ new.fee = f /\ new.rate = e.rate /\ new.manual = e.manual
    BY <1>3, Zenon DEF EarnedRow
  <2>3. earned' = [earned EXCEPT ![o] = new]
    BY <1>2, <1>10
  <2> HIDE DEF new
  <2>4. new.fee = (new.amount - am) * new.rate + fs
    BY <1>5, <2>2
  <2>5. am <= new.amount
    BY <1>1, <1>4, <2>2
  <2>6. Settled(new, am, fs)
    BY <2>1, <2>4, <2>5 DEF Settled
  <2> QED BY <1>2, <2>3, <2>6, OneOrderSettles DEF am, fs
<1> QED BY <1>8, <1>9, <1>10

\* _apply_settlement: a fee by hand explains nothing any more, a refund changes no fee
LEMMA SettlementSettles ==
  ASSUME MoneyInv, NEW o \in Buys, SettleByHand(o, 1) \/ Refund(o, 1)
  PROVE  MoneyInv'
<1> DEFINE am == AmountSum(extra, o)
           fs == FeeSum(extra, o)
<1>1. earned \in [Buys -> EarnedRow] /\ Settled(earned[o], am, fs) /\ earned[o] \in EarnedRow
  BY DEF MoneyInv
<1> HIDE DEF am, fs
<1>2. CASE SettleByHand(o, 1)
  <2> DEFINE one == [earned[o] EXCEPT !.fee = 1]
             mid == [one EXCEPT !.rate = 0]
             new == [mid EXCEPT !.manual = TRUE]
  <2>1. mid \in EarnedRow
    <3>1. 0 \in Rates
      BY TakingsBounds
    <3>2. one \in EarnedRow
      BY <1>1 DEF EarnedRow
    <3> HIDE DEF one
    <3> QED BY <3>1, <3>2 DEF EarnedRow
  <2>2. mid.amount = earned[o].amount
    BY <1>1, Zenon DEF EarnedRow
  <2>3. extra' = extra /\ rateOf' = rateOf /\ earned' = [earned EXCEPT ![o] = new]
    <3>1. earned' = [earned EXCEPT ![o].fee = 1, ![o].rate = 0, ![o].manual = TRUE]
      BY <1>2, Zenon DEF SettleByHand, OnEarned
    <3>2. extra' = extra /\ rateOf' = rateOf
      BY <1>2 DEF SettleByHand, OnEarned
    <3> QED BY <1>1, <3>1, <3>2
  <2> HIDE DEF mid
  <2>4. new \in EarnedRow
    BY <2>1 DEF EarnedRow
  <2>5. new.amount = mid.amount /\ new.manual = TRUE
    BY <2>1, Zenon DEF EarnedRow
  <2> HIDE DEF new
  <2>6. Settled(new, am, fs)
    BY <1>1, <2>2, <2>4, <2>5 DEF Settled
  <2> QED BY <2>3, <2>6, OneOrderSettles DEF am, fs
<1>3. CASE Refund(o, 1)
  <2> DEFINE new == [earned[o] EXCEPT !.refund = 1]
  <2>1. new \in EarnedRow
    BY <1>1 DEF EarnedRow
  <2>2. /\ new.amount = earned[o].amount /\ new.fee = earned[o].fee /\ new.rate = earned[o].rate
        /\ new.manual = earned[o].manual
    BY <1>1, Zenon DEF EarnedRow
  <2>3. extra' = extra /\ rateOf' = rateOf /\ earned' = [earned EXCEPT ![o] = new]
    BY <1>3, Zenon DEF Refund, OnEarned
  <2> HIDE DEF new
  <2>4. Settled(new, am, fs)
    BY <1>1, <2>1, <2>2, SameMoneySettles
  <2> QED BY <2>3, <2>4, OneOrderSettles DEF am, fs
<1> QED BY <1>2, <1>3

\* settlement_backfill: each order is as it was, or at the rates of today
LEMMA BackfillSettles ==
  ASSUME MoneyInv, NEW uncosted, SettlementBackfill(uncosted)
  PROVE  MoneyInv'
<1>1. extra' = extra /\ rateOf' = rateOf /\ DOMAIN earned' = Buys
  BY DEF SettlementBackfill, OnEarned
<1>2. \A o \in Buys : earned'[o] = earned[o] \/ earned'[o] = SettledFee(o)
  BY DEF SettlementBackfill, OnEarned
<1>3. \A o \in Buys : Settled(earned'[o], AmountSum(extra, o), FeeSum(extra, o))
  <2> SUFFICES ASSUME NEW o \in Buys PROVE Settled(earned'[o], AmountSum(extra, o), FeeSum(extra, o))
    OBVIOUS
  <2>1. Settled(earned[o], AmountSum(extra, o), FeeSum(extra, o))
    BY DEF MoneyInv
  <2>2. Settled(SettledFee(o), AmountSum(extra, o), FeeSum(extra, o))
    BY SettledFeeSettles
  <2> QED BY <1>2, <2>1, <2>2, Zenon
<1>4. earned' = [o \in Buys |-> earned'[o]]
  BY DEF SettlementBackfill, OnEarned
<1>5. earned' \in [Buys -> EarnedRow]
  BY <1>3, <1>4 DEF Settled
<1> QED BY <1>1, <1>3, <1>5 DEF MoneyInv

\* No step leaves a fee that nothing explains
LEMMA MoneyStepSettles ==
  ASSUME MoneyInv, [MoneyStep]_takingVars
  PROVE  MoneyInv'
<1>1. CASE UNCHANGED takingVars
  BY <1>1 DEF takingVars, MoneyInv
<1>2. ASSUME NEW s \in Shops, NEW rate \in Rates, SetRate(s, rate) PROVE MoneyInv'
  BY <1>2 DEF SetRate, MoneyInv
<1>3. ASSUME NEW o \in Buys, NEW amount \in 0..MaxWon, ExtraAmount(o) <= amount, EditAmount(o, amount)
      PROVE  MoneyInv'
  <2>1. amount \in Nat
    BY TakingsBounds
  <2> QED BY <1>3, <2>1, EditAmountSettles
<1>4. \/ UNCHANGED takingVars
      \/ \E x \in Extras, o \in Buys :
           \/ \E amount \in Won, method \in Methods, rate \in Rates : AddExtra(x, o, amount, method, rate)
           \/ \E to \in Buys : MergeAsExtra(x, o, to)
           \/ DeleteExtra(x)
      \/ \E o \in Buys :
           \/ ShipBuy(o) \/ ShipBuyToday(o)
           \/ \E shipped, cancelled \in BOOLEAN : SetBuy(o, shipped, cancelled)
           \/ \E amount \in 0..MaxWon : ExtraAmount(o) <= amount /\ EditAmount(o, amount)
           \/ SettleByHand(o, 1) \/ Refund(o, 1)
      \/ \E uncosted \in SUBSET Buys : SettlementBackfill(uncosted)
      \/ \E s \in Shops, rate \in Rates : SetRate(s, rate)
  BY Zenon DEF MoneyStep
<1> QED BY <1>1, <1>2, <1>3, <1>4, AddExtraSettles, MergeAsExtraSettles, DeleteExtraSettles,
           ShippingSettles, SettlementSettles, BackfillSettles, Zenon

\* No payment and no fee at first
LEMMA TakingsInitSettles ==
  ASSUME TakingsInit
  PROVE  MoneyInv
<1>1. extra \in ExtraTable
  <2>1. NoExtra \in ExtraRow
    BY DEF NoExtra, ExtraRow
  <2> QED BY <2>1 DEF TakingsInit, ExtraTable
<1>2. \A o \in Buys : AmountSum(extra, o) = 0 /\ FeeSum(extra, o) = 0
  <2> SUFFICES ASSUME NEW o \in Buys PROVE AmountSum(extra, o) = 0 /\ FeeSum(extra, o) = 0
    OBVIOUS
  <2>1. HeldBy(extra, o) = {}
    BY DEF TakingsInit, HeldBy, NoExtra
  <2> QED BY <2>1, TotalOfNothing DEF AmountSum, FeeSum
<1>3. ASSUME NEW o \in Buys PROVE Settled(earned[o], 0, 0)
  <2>1. earned[o] \in [amount : {0, 1}, fee : {0}, rate : {0}, refund : {0}, manual : {FALSE},
                       shipped : {FALSE}, dated : {FALSE}, cancelled : {FALSE}]
    BY DEF TakingsInit
  <2>2. earned[o] \in EarnedRow
    <3>1. 0 \in Rates /\ 0 \in Nat /\ 1 \in Nat /\ 0 \in Int
      BY TakingsBounds
    <3> QED BY <2>1, <3>1 DEF EarnedRow
  <2>3. earned[o].amount \in {0, 1} /\ earned[o].fee = 0 /\ earned[o].rate = 0
    BY <2>1
  <2>4. 0 <= earned[o].amount /\ earned[o].fee = (earned[o].amount - 0) * earned[o].rate + 0
    BY <2>3
  <2> QED BY <2>2, <2>4 DEF Settled
<1>4. earned \in [Buys -> EarnedRow]
  <2>1. earned = [o \in Buys |-> earned[o]]
    BY DEF TakingsInit
  <2> QED BY <1>3, <2>1 DEF Settled
<1>5. rateOf \in [Shops -> Rates]
  BY DEF TakingsInit
<1>6. \A o \in Buys : Settled(earned[o], AmountSum(extra, o), FeeSum(extra, o))
  BY <1>2, <1>3
<1> QED BY <1>1, <1>4, <1>5, <1>6 DEF MoneyInv

\* A fee that nobody put in by hand is explained by the amount, the rate and the extra payments,
\* for any number of orders and payments, any amounts and rates
THEOREM FeesAreExplained == MoneySpec => []FeeIsExplained
<1>1. MoneyInv => FeeIsExplained
  BY SumsHere DEF MoneyInv, Settled, FeeIsExplained
<1>2. TakingsInit => MoneyInv
  BY TakingsInitSettles
<1>3. MoneyInv /\ [MoneyStep]_takingVars => MoneyInv'
  BY MoneyStepSettles
<1> QED BY <1>1, <1>2, <1>3, PTL DEF MoneySpec

\* What the tables of the takings hold
THEOREM TakingsAreSane == MoneySpec => []TakingsOK
<1>1. MoneyInv => TakingsOK
  <2> SUFFICES ASSUME MoneyInv PROVE TakingsOK
    OBVIOUS
  <2>1. \A o \in Buys : earned[o] \in EarnedRow
    BY DEF MoneyInv
  <2>2. \A x \in Extras : extra[x] = NoExtra \/ extra[x].of \in Buys
    BY DEF MoneyInv, ExtraTable
  <2>3. ASSUME NEW o \in Buys
        PROVE  /\ {earned[o].amount, earned[o].refund} \subseteq Nat
               /\ earned[o].fee \in Int /\ earned[o].rate \in Rates
               /\ {earned[o].manual, earned[o].shipped} \subseteq BOOLEAN
               /\ {earned[o].dated, earned[o].cancelled} \subseteq BOOLEAN
    BY <2>1 DEF EarnedRow
  <2> QED BY <2>2, <2>3 DEF MoneyInv, TakingsOK
<1>2. TakingsInit => MoneyInv
  BY TakingsInitSettles
<1>3. MoneyInv /\ [MoneyStep]_takingVars => MoneyInv'
  BY MoneyStepSettles
<1> QED BY <1>1, <1>2, <1>3, PTL DEF MoneySpec
=============================================================================
