---------------------------- MODULE MastersProofs ----------------------------
(***************************************************************************)
(* The masters: suppliers, their identities in TMS, and models.  Whatever  *)
(* staff enter and whatever lists TMS sends, in whatever order the two     *)
(* come, an identity belongs to one supplier that is there, aliases are    *)
(* flat, and a key of TMS is held where its primary identity says.  A      *)
(* synchronisation is a fold over TMS's list in one transaction: the       *)
(* argument follows it row by row (Induction), and must see that the       *)
(* table has a row left for every partner that is still to come.           *)
(***************************************************************************)
EXTENDS Masters, Induction

(***************************************************************************)
(* The rows of the masters                                                 *)
(***************************************************************************)
PartnerRow  == [name : Names, kind : Kinds, value : 0..MaxColumn]
SupplierRow ==
  [there : {TRUE}, name : Names, kind : Kinds, value : 0..MaxColumn, own : BOOLEAN,
   key : 0..MaxPartners, gone : BOOLEAN, alias : 0..MaxSuppliers]
LinkRow     ==
  [there : {TRUE}, supplier : Suppliers, primary : BOOLEAN, gone : BOOLEAN, row : PartnerRow]
SupplierTable == [Suppliers -> {NotThere} \cup SupplierRow]
LinkTable     == [Partners -> {NotThere} \cup LinkRow]

\* A row that is there is a row, and only those are there
LEMMA SuppliersHere ==
  ASSUME NEW sups \in SupplierTable
  PROVE  /\ Here(sups) \subseteq Suppliers
         /\ \A i \in Here(sups) : sups[i] \in SupplierRow
         /\ \A i \in Suppliers : i \notin Here(sups) => sups[i] = NotThere
         /\ Here(sups) = {i \in Suppliers : sups[i].there}
<1>1. DOMAIN sups = Suppliers /\ \A i \in Suppliers : sups[i] \in {NotThere} \cup SupplierRow
  BY DEF SupplierTable
<1>2. NotThere.there = FALSE /\ \A r \in SupplierRow : r.there = TRUE
  BY DEF NotThere, SupplierRow
<1>3. Here(sups) = {i \in Suppliers : sups[i].there}
  BY <1>1 DEF Here
<1> QED BY <1>1, <1>2, <1>3

\* What an identity that is there holds, and one that is not
LEMMA LinksHere ==
  ASSUME NEW lk \in LinkTable
  PROVE  /\ Here(lk) \subseteq Partners
         /\ \A k \in Here(lk) : lk[k] \in LinkRow
         /\ \A k \in Partners : k \notin Here(lk) => lk[k] = NotThere
         /\ Here(lk) = {k \in Partners : lk[k].there}
<1>1. DOMAIN lk = Partners /\ \A i \in Partners : lk[i] \in {NotThere} \cup LinkRow
  BY DEF LinkTable
<1>2. NotThere.there = FALSE /\ \A r \in LinkRow : r.there = TRUE
  BY DEF NotThere, LinkRow
<1>3. Here(lk) = {i \in Partners : lk[i].there}
  BY <1>1 DEF Here
<1> QED BY <1>1, <1>2, <1>3

\* rows are numbered from 1 without a gap
NoGap(t, max) == \E n \in 0..max : Here(t) = 1..n

\* The next number is that of the first row that is free
LEMMA NextIsFree ==
  ASSUME NEW max \in Nat, NEW t, DOMAIN t = 1..max, NoGap(t, max)
  PROVE  /\ NextId(t) \in Nat \ {0} /\ NextId(t) = Cardinality(Here(t)) + 1
         /\ NextId(t) \notin Here(t) /\ Cardinality(Here(t)) \in Nat
         /\ Here(t) = 1..(NextId(t) - 1) /\ IsFiniteSet(Here(t))
<1>1. PICK n \in 0..max : Here(t) = 1..n
  BY DEF NoGap
<1>2. IsFiniteSet(1..n) /\ Cardinality(1..n) = n
  BY FS_Interval
<1>3. NextId(t) = n + 1
  BY <1>1, <1>2 DEF NextId
<1> QED BY <1>1, <1>2, <1>3 DEF NextId

NamesOnce(sups) ==
  \A i, j \in Here(sups) : sups[i].name = sups[j].name => i = j
\* no alias of an alias
Flat(sups) ==
  \A i \in Here(sups) : sups[i].alias # 0 =>
    sups[i].alias \in Here(sups) /\ sups[sups[i].alias].alias = 0
\* the key of a supplier is that of its one primary identity
Owned(sups, lk) ==
  /\ \A i \in Here(sups) : sups[i].key # 0 =>
       /\ sups[i].key \in Here(lk) /\ lk[sups[i].key].supplier = i
       /\ lk[sups[i].key].primary
  /\ \A k \in Here(lk) : /\ lk[k].supplier \in Here(sups)
                         /\ lk[k].primary => sups[lk[k].supplier].key = k

\* what every step keeps of suppliers and identities
Good(sups, lk) ==
  /\ sups \in SupplierTable /\ lk \in LinkTable /\ NoGap(sups, MaxSuppliers)
  /\ NamesOnce(sups) /\ Flat(sups) /\ Owned(sups, lk)

\* the same rows, and each with its key
SameKeys(sups, new) == Here(new) = Here(sups) /\ \A i \in Here(sups) : new[i].key = sups[i].key

\* Suppliers that stay whose they are keep in agreement with the identities
LEMMA RowsRewritten ==
  ASSUME NEW sups, NEW lk, NEW new, Good(sups, lk), new \in SupplierTable,
         SameKeys(sups, new), NamesOnce(new), Flat(new)
  PROVE  Good(new, lk)
<1>1. Owned(new, lk)
  BY DEF Good, SameKeys, Owned
<1>2. NoGap(new, MaxSuppliers)
  BY DEF Good, SameKeys, NoGap
<1> QED BY <1>1, <1>2 DEF Good

\* a row is new or other than it was
Written(sups, i, row, new) ==
  /\ new \in SupplierTable /\ Here(new) = Here(sups) \cup {i} /\ new[i] = row
  /\ \A j \in Here(sups) \ {i} : new[j] = sups[j]

\* A row that is there or the next one is written
LEMMA RowWritten ==
  ASSUME NEW sups \in SupplierTable, NEW i \in Suppliers, NEW row \in SupplierRow
  PROVE  Written(sups, i, row, [sups EXCEPT ![i] = row])
<1> DEFINE new == [sups EXCEPT ![i] = row]
<1>1. new \in SupplierTable /\ new[i] = row /\ \A j \in Suppliers \ {i} : new[j] = sups[j]
  BY DEF SupplierTable
<1>2. row.there
  BY DEF SupplierRow
<1> HIDE DEF new
<1>3. Here(new) = Here(sups) \cup {i}
  BY <1>1, <1>2, SuppliersHere
<1>4. \A j \in Here(sups) \ {i} : new[j] = sups[j]
  BY <1>1, SuppliersHere
<1> QED BY <1>1, <1>3, <1>4 DEF new, Written

\* a name no other row has
FreeFor(sups, i, n) == Named(sups, n) \subseteq {i}

\* A row under a name that is free leaves every name once
LEMMA NameStaysOnce ==
  ASSUME NEW sups \in SupplierTable, NEW i \in Suppliers, NEW row \in SupplierRow,
         NamesOnce(sups), FreeFor(sups, i, row.name)
  PROVE  NamesOnce([sups EXCEPT ![i] = row])
<1> DEFINE new == [sups EXCEPT ![i] = row]
<1>1. Written(sups, i, row, new)
  BY RowWritten
<1> HIDE DEF new
<1>2. \A j \in Here(sups) \ {i} : sups[j].name # row.name
  BY DEF FreeFor, Named
<1>3. NamesOnce(new)
  BY <1>1, <1>2 DEF NamesOnce, Written
<1> QED BY <1>3 DEF new

\* A row that keeps its name keeps it to itself
LEMMA OwnNameIsFree ==
  ASSUME NEW sups \in SupplierTable, NamesOnce(sups), NEW i \in Here(sups)
  PROVE  FreeFor(sups, i, sups[i].name)
BY DEF NamesOnce, FreeFor, Named

\* One supplier is rewritten, under its own name or a free one
LEMMA OneRewritten ==
  ASSUME NEW sups, NEW lk, Good(sups, lk), NEW i \in Here(sups), NEW row \in SupplierRow,
         row.key = sups[i].key, row.alias = sups[i].alias, FreeFor(sups, i, row.name)
  PROVE  /\ Good([sups EXCEPT ![i] = row], lk)
         /\ Here([sups EXCEPT ![i] = row]) = Here(sups)
<1> DEFINE new == [sups EXCEPT ![i] = row]
<1>1. sups \in SupplierTable /\ i \in Suppliers
  BY SuppliersHere DEF Good
<1>2. Written(sups, i, row, new)
  BY <1>1, RowWritten
<1>3. NamesOnce(new)
  BY <1>1, NameStaysOnce DEF Good
<1> HIDE DEF new
<1>4. \A j \in Here(sups) : new[j].key = sups[j].key /\ new[j].alias = sups[j].alias
  BY <1>2 DEF Written
<1>5. Here(new) = Here(sups)
  BY <1>2 DEF Written
<1>6. Flat(new)
  BY <1>4, <1>5 DEF Good, Flat
<1>7. SameKeys(sups, new)
  BY <1>4, <1>5 DEF SameKeys
<1>8. Good(new, lk)
  BY <1>2, <1>3, <1>6, <1>7, RowsRewritten DEF Written
<1> QED BY <1>5, <1>8 DEF new

\* what holds of the tables once the next row is there
NextWritten(sups, row, new) ==
  Written(sups, NextId(sups), row, new) /\ NextId(sups) \notin Here(sups)

\* A row that is no alias leaves the aliases of the others as they are
LEMMA FlatGrows ==
  ASSUME NEW sups, NEW i, i \notin Here(sups), NEW row, row.alias = 0, NEW new,
         Written(sups, i, row, new), Flat(sups)
  PROVE  Flat(new)
<1>1. new[i].alias = 0 /\ Here(new) = Here(sups) \cup {i} /\ \A j \in Here(sups) : new[j] = sups[j]
  BY DEF Written
<1>2. ASSUME NEW j \in Here(new), new[j].alias # 0
      PROVE  new[j].alias \in Here(new) /\ new[new[j].alias].alias = 0
  <2>1. j \in Here(sups) /\ new[j] = sups[j]
    BY <1>1, <1>2
  <2>2. sups[j].alias \in Here(sups) /\ sups[sups[j].alias].alias = 0
    BY <1>2, <2>1 DEF Flat
  <2> QED BY <1>1, <2>1, <2>2
<1> QED BY <1>2 DEF Flat

\* The numbers up to i are those before it and i
LEMMA OneMoreNumber == \A i \in Nat \ {0} : 1..(i - 1) \cup {i} = 1..i
OBVIOUS

\* The next row leaves no gap and, under a new name and no alias, is sane
LEMMA NextRow ==
  ASSUME NEW sups, NEW lk, Good(sups, lk), NextId(sups) <= MaxSuppliers, NEW row \in SupplierRow,
         row.alias = 0, Named(sups, row.name) = {}, NEW new,
         new = [sups EXCEPT ![NextId(sups)] = row]
  PROVE  /\ NextWritten(sups, row, new) /\ NoGap(new, MaxSuppliers)
         /\ NamesOnce(new) /\ Flat(new)
         /\ Cardinality(Here(new)) = Cardinality(Here(sups)) + 1
<1> DEFINE i == NextId(sups)
<1>1. sups \in SupplierTable /\ DOMAIN sups = 1..MaxSuppliers /\ MaxSuppliers \in Nat
  BY MastersBounds DEF Good, SupplierTable, Suppliers
<1>2. /\ i \in Nat \ {0} /\ i = Cardinality(Here(sups)) + 1 /\ i \notin Here(sups)
      /\ Here(sups) = 1..(i - 1)
  BY <1>1, NextIsFree DEF Good
<1>3. i \in Suppliers
  BY <1>1, <1>2 DEF Suppliers
<1>4. Written(sups, i, row, new)
  BY <1>1, <1>3, RowWritten
<1>5. FreeFor(sups, i, row.name)
  BY DEF FreeFor
<1>6. NamesOnce(new)
  BY <1>1, <1>3, <1>5, NameStaysOnce DEF Good
<1>7. Flat(new)
  <2>1. Flat(sups) /\ i \notin Here(sups)
    BY <1>2 DEF Good
  <2> HIDE DEF i
  <2> QED BY <1>4, <2>1, FlatGrows
<1>8. Here(new) = 1..i /\ i \in 0..MaxSuppliers
  <2>1. Here(new) = Here(sups) \cup {i}
    BY <1>4, Zenon DEF Written
  <2>2. i <= MaxSuppliers
    OBVIOUS
  <2> HIDE DEF i
  <2>3. 1..(i - 1) \cup {i} = 1..i
    BY <1>2, OneMoreNumber
  <2>4. Here(new) = 1..i
    BY <1>2, <2>1, <2>3, Zenon
  <2>5. i \in 0..MaxSuppliers
    BY <1>1, <1>2, <2>2
  <2> QED BY <2>4, <2>5
<1>9. NoGap(new, MaxSuppliers)
  BY <1>8 DEF NoGap
<1>10. Cardinality(Here(new)) = i
  <2> HIDE DEF i
  <2>1. Cardinality(1..i) = i
    BY <1>2, FS_Interval
  <2> QED BY <1>8, <2>1
<1>11. NextWritten(sups, row, new)
  BY <1>2, <1>4 DEF NextWritten
<1>12. Cardinality(Here(new)) = Cardinality(Here(sups)) + 1
  BY <1>2, <1>10
<1> QED BY <1>6, <1>7, <1>9, <1>11, <1>12

\* A row TMS does not know comes
LEMMA RowAdded ==
  ASSUME NEW sups, NEW lk, Good(sups, lk), NextId(sups) <= MaxSuppliers, NEW row \in SupplierRow,
         row.alias = 0, Named(sups, row.name) = {}, row.key = 0
  PROVE  Good([sups EXCEPT ![NextId(sups)] = row], lk)
<1> DEFINE new == [sups EXCEPT ![NextId(sups)] = row]
<1>1. NextWritten(sups, row, new) /\ NoGap(new, MaxSuppliers) /\ NamesOnce(new) /\ Flat(new)
  BY NextRow
<1> HIDE DEF new
<1>2. Owned(new, lk)
  BY <1>1 DEF NextWritten, Written, Owned, Good
<1>3. Good(new, lk)
  BY <1>1, <1>2 DEF Good, NextWritten, Written
<1> QED BY <1>3 DEF new

\* identity k is l
Linked(lk, k, l, new) ==
  /\ new \in LinkTable /\ Here(new) = Here(lk) \cup {k} /\ new[k] = l
  /\ \A j \in Here(lk) \ {k} : new[j] = lk[j]

\* One identity is written, the others stay
LEMMA LinkWritten ==
  ASSUME NEW lk \in LinkTable, NEW k \in Partners, NEW l \in LinkRow
  PROVE  Linked(lk, k, l, [lk EXCEPT ![k] = l])
<1> DEFINE new == [lk EXCEPT ![k] = l]
<1>1. new \in LinkTable /\ new[k] = l /\ \A j \in Partners \ {k} : new[j] = lk[j]
  BY DEF LinkTable
<1>2. l.there
  BY DEF LinkRow
<1> HIDE DEF new
<1>3. Here(new) = Here(lk) \cup {k}
  BY <1>1, <1>2, LinksHere
<1>4. \A j \in Here(lk) \ {k} : new[j] = lk[j]
  BY <1>1, LinksHere
<1> QED BY <1>1, <1>3, <1>4 DEF new, Linked

\* A row comes with an identity of its own, one that was not anybody's primary one
LEMMA RowAddedWithKey ==
  ASSUME NEW sups, NEW lk, Good(sups, lk), NextId(sups) <= MaxSuppliers, NEW row \in SupplierRow,
         row.alias = 0, Named(sups, row.name) = {}, NEW k \in Partners, row.key = k,
         NEW l \in LinkRow, l.supplier = NextId(sups), l.primary,
         k \in Here(lk) => ~lk[k].primary
  PROVE  Good([sups EXCEPT ![NextId(sups)] = row], [lk EXCEPT ![k] = l])
<1> DEFINE new == [sups EXCEPT ![NextId(sups)] = row]
           now == [lk EXCEPT ![k] = l]
<1>1. NextWritten(sups, row, new) /\ NoGap(new, MaxSuppliers) /\ NamesOnce(new) /\ Flat(new)
  BY NextRow
<1>2. Linked(lk, k, l, now)
  BY LinkWritten DEF Good
<1> HIDE DEF new, now
<1>3. \A i \in Here(sups) : sups[i].key # k
  <2>1. k # 0
    BY DEF Partners
  <2> QED BY <2>1 DEF Good, Owned
<1>4. Owned(new, now)
  <2>1. ASSUME NEW i \in Here(new), new[i].key # 0
        PROVE  /\ new[i].key \in Here(now) /\ now[new[i].key].supplier = i
               /\ now[new[i].key].primary
    <3>1. CASE i = NextId(sups)
      BY <1>1, <1>2, <3>1 DEF NextWritten, Written, Linked
    <3>2. CASE i # NextId(sups)
      <4>1. i \in Here(sups) /\ new[i] = sups[i]
        BY <1>1, <3>2 DEF NextWritten, Written
      <4>2. /\ sups[i].key \in Here(lk) /\ lk[sups[i].key].supplier = i
            /\ lk[sups[i].key].primary /\ sups[i].key # k
        BY <1>3, <2>1, <4>1 DEF Good, Owned
      <4> QED BY <1>2, <4>1, <4>2 DEF Linked
    <3> QED BY <3>1, <3>2
  <2>2. ASSUME NEW j \in Here(now)
        PROVE  now[j].supplier \in Here(new) /\ (now[j].primary => new[now[j].supplier].key = j)
    <3>1. CASE j = k
      BY <1>1, <1>2, <3>1 DEF NextWritten, Written, Linked
    <3>2. CASE j # k
      <4>1. j \in Here(lk) /\ now[j] = lk[j]
        BY <1>2, <3>2 DEF Linked
      <4>2. lk[j].supplier \in Here(sups) /\ (lk[j].primary => sups[lk[j].supplier].key = j)
        BY <4>1 DEF Good, Owned
      <4>3. new[lk[j].supplier] = sups[lk[j].supplier] /\ lk[j].supplier \in Here(new)
        BY <1>1, <4>2 DEF NextWritten, Written
      <4> QED BY <4>1, <4>2, <4>3
    <3> QED BY <3>1, <3>2
  <2> QED BY <2>1, <2>2 DEF Owned
<1>5. Good(new, now)
  BY <1>1, <1>2, <1>4 DEF Good, NextWritten, Written, Linked
<1> QED BY <1>5 DEF new, now

\* Identities that are not the primary one may come, and any may be seen again
LEMMA LinksChanged ==
  ASSUME NEW sups, NEW lk, Good(sups, lk), NEW new, new \in LinkTable,
         Here(lk) \subseteq Here(new),
         \A k \in Here(lk) : new[k].supplier = lk[k].supplier /\ new[k].primary = lk[k].primary,
         \A k \in Here(new) \ Here(lk) : new[k].supplier \in Here(sups) /\ ~new[k].primary
  PROVE  Good(sups, new)
<1>1. \A i \in Here(sups) : sups[i].key # 0 =>
        /\ sups[i].key \in Here(new) /\ new[sups[i].key].supplier = i
        /\ new[sups[i].key].primary
  BY DEF Good, Owned
<1>2. \A k \in Here(new) : /\ new[k].supplier \in Here(sups)
                           /\ new[k].primary => sups[new[k].supplier].key = k
  BY DEF Good, Owned
<1> QED BY <1>1, <1>2 DEF Good, Owned

\* An identity is seen again: whose it is, and whether it is the primary one, stays
LEMMA LinkSeenAgain ==
  ASSUME NEW sups, NEW lk, Good(sups, lk), NEW k \in Here(lk), NEW l \in LinkRow,
         l.supplier = lk[k].supplier, l.primary = lk[k].primary
  PROVE  Good(sups, [lk EXCEPT ![k] = l])
<1> DEFINE new == [lk EXCEPT ![k] = l]
<1>1. Linked(lk, k, l, new)
  BY LinkWritten, LinksHere DEF Good
<1> HIDE DEF new
<1>2. \A j \in Here(lk) : new[j].supplier = lk[j].supplier /\ new[j].primary = lk[j].primary
  BY <1>1 DEF Linked
<1>3. Here(new) = Here(lk) /\ new \in LinkTable
  BY <1>1 DEF Linked
<1>4. Good(sups, new)
  BY <1>2, <1>3, LinksChanged
<1> QED BY <1>4 DEF new

\* A further identity of a supplier that is there comes beside the primary one
LEMMA LinkBeside ==
  ASSUME NEW sups, NEW lk, Good(sups, lk), NEW k \in Partners \ Here(lk), NEW l \in LinkRow,
         l.supplier \in Here(sups), ~l.primary
  PROVE  Good(sups, [lk EXCEPT ![k] = l])
<1> DEFINE new == [lk EXCEPT ![k] = l]
<1>1. Linked(lk, k, l, new)
  BY LinkWritten DEF Good
<1> HIDE DEF new
<1>2. \A j \in Here(lk) : new[j].supplier = lk[j].supplier /\ new[j].primary = lk[j].primary
  BY <1>1 DEF Linked
<1>3. Here(lk) \subseteq Here(new) /\ new \in LinkTable
  BY <1>1 DEF Linked
<1>4. \A j \in Here(new) \ Here(lk) : new[j].supplier \in Here(sups) /\ ~new[j].primary
  BY <1>1 DEF Linked
<1>5. Good(sups, new)
  BY <1>2, <1>3, <1>4, LinksChanged
<1> QED BY <1>5 DEF new

\* The primary identity of a supplier is k, whatever it was before: all its other ones are not
LEMMA PrimaryChosen ==
  ASSUME NEW sups, NEW lk, Good(sups, lk), NEW i \in Here(sups), NEW k \in Partners,
         NEW row \in SupplierRow, row.alias = sups[i].alias, row.name = sups[i].name, row.key = k,
         NEW now, now \in LinkTable, Here(now) = Here(lk) \cup {k},
         now[k].supplier = i, now[k].primary, k \in Here(lk) => lk[k].supplier = i,
         \A j \in Here(lk) \ {k} : /\ now[j].supplier = lk[j].supplier
                                   /\ now[j].primary = (lk[j].primary /\ lk[j].supplier # i)
  PROVE  Good([sups EXCEPT ![i] = row], now)
<1> DEFINE new == [sups EXCEPT ![i] = row]
<1>1. sups \in SupplierTable /\ i \in Suppliers
  BY SuppliersHere DEF Good
<1>2. Written(sups, i, row, new)
  BY <1>1, RowWritten
<1>3. NamesOnce(new)
  <2>1. FreeFor(sups, i, row.name)
    BY <1>1, OwnNameIsFree DEF Good
  <2> QED BY <1>1, <2>1, NameStaysOnce DEF Good
<1> HIDE DEF new
<1>4. Here(new) = Here(sups) /\ \A j \in Here(sups) : new[j].alias = sups[j].alias
  BY <1>2 DEF Written
<1>5. Flat(new)
  BY <1>4 DEF Good, Flat
<1>6. NoGap(new, MaxSuppliers)
  BY <1>4 DEF Good, NoGap
<1>7. Owned(new, now)
  <2>1. ASSUME NEW j \in Here(new), new[j].key # 0
        PROVE  /\ new[j].key \in Here(now) /\ now[new[j].key].supplier = j
               /\ now[new[j].key].primary
    <3>1. CASE j = i
      BY <1>2, <3>1 DEF Written
    <3>2. CASE j # i
      <4>1. j \in Here(sups) /\ new[j] = sups[j]
        BY <1>2, <3>2 DEF Written
      <4>2. /\ sups[j].key \in Here(lk) /\ lk[sups[j].key].supplier = j
            /\ lk[sups[j].key].primary
        BY <2>1, <4>1 DEF Good, Owned
      <4>3. sups[j].key # k
        BY <3>2, <4>2
      <4> QED BY <3>2, <4>1, <4>2, <4>3
    <3> QED BY <3>1, <3>2
  <2>2. ASSUME NEW j \in Here(now)
        PROVE  now[j].supplier \in Here(new) /\ (now[j].primary => new[now[j].supplier].key = j)
    <3>1. CASE j = k
      BY <1>2, <3>1 DEF Written
    <3>2. CASE j # k
      <4>1. j \in Here(lk)
        BY <3>2
      <4>2. lk[j].supplier \in Here(sups) /\ (lk[j].primary => sups[lk[j].supplier].key = j)
        BY <4>1 DEF Good, Owned
      <4>3. lk[j].supplier # i => new[lk[j].supplier] = sups[lk[j].supplier]
        BY <1>2, <4>2 DEF Written
      <4> QED BY <1>4, <3>2, <4>1, <4>2, <4>3
    <3> QED BY <3>1, <3>2
  <2> QED BY <2>1, <2>2 DEF Owned
<1>8. Good(new, now)
  BY <1>2, <1>3, <1>5, <1>6, <1>7 DEF Good, Written
<1> QED BY <1>8 DEF new

\* One column of a supplier is changed
LEMMA SupplierColumns ==
  ASSUME NEW e \in SupplierRow
  PROVE  /\ \A v \in 0..MaxColumn : [e EXCEPT !.value = v] \in SupplierRow
         /\ \A b \in BOOLEAN : [e EXCEPT !.gone = b] \in SupplierRow
         /\ \A b \in BOOLEAN : [e EXCEPT !.own = b] \in SupplierRow
         /\ \A n \in Names : [e EXCEPT !.name = n] \in SupplierRow
         /\ \A n \in Kinds : [e EXCEPT !.kind = n] \in SupplierRow
         /\ \A k \in 0..MaxPartners : [e EXCEPT !.key = k] \in SupplierRow
         /\ \A a \in 0..MaxSuppliers : [e EXCEPT !.alias = a] \in SupplierRow
BY DEF SupplierRow

\* what following TMS leaves of a supplier
KeepsPlace(e, r) == r \in SupplierRow /\ r.key = e.key /\ r.alias = e.alias

\* a supplier of TMS whose value is filled, and one that follows TMS
Refilled(e, v) == [e EXCEPT !.value = v, !.gone = FALSE]
Recast(e, v, c, n) == [e EXCEPT !.value = v, !.kind = c, !.gone = FALSE, !.name = n]

\* A column is refilled and the mark of a partner TMS lost goes
LEMMA ValueAndMark ==
  ASSUME NEW e \in SupplierRow, NEW v \in 0..MaxColumn
  PROVE  KeepsPlace(e, Refilled(e, v)) /\ Refilled(e, v).name = e.name
<1> DEFINE a == [e EXCEPT !.value = v]
           r == [a EXCEPT !.gone = FALSE]
<1>1. a \in SupplierRow
  BY SupplierColumns
<1>2. a.key = e.key /\ a.alias = e.alias /\ a.name = e.name
  BY DEF SupplierRow
<1>3. Refilled(e, v) = r
  BY DEF Refilled
<1> HIDE DEF a
<1>4. r \in SupplierRow
  BY <1>1, SupplierColumns
<1>5. r.key = a.key /\ r.alias = a.alias /\ r.name = a.name
  BY <1>1 DEF SupplierRow
<1> HIDE DEF r
<1>6. KeepsPlace(e, r) /\ r.name = e.name
  BY <1>2, <1>4, <1>5 DEF KeepsPlace
<1> QED BY <1>3, <1>6

\* All that TMS says of a partner is taken
LEMMA AllColumns ==
  ASSUME NEW e \in SupplierRow, NEW v \in 0..MaxColumn, NEW c \in Kinds, NEW n \in Names
  PROVE  KeepsPlace(e, Recast(e, v, c, n)) /\ Recast(e, v, c, n).name = n
<1> DEFINE a == Refilled(e, v)
           b == [a EXCEPT !.kind = c]
           r == [b EXCEPT !.name = n]
<1>1. KeepsPlace(e, a)
  BY ValueAndMark
<1>2. Recast(e, v, c, n) = r
  BY DEF SupplierRow, Recast, Refilled
<1> HIDE DEF a
<1>3. a \in SupplierRow /\ a.key = e.key /\ a.alias = e.alias
  BY <1>1 DEF KeepsPlace
<1>4. b \in SupplierRow /\ b.key = a.key /\ b.alias = a.alias
  <2>1. b \in SupplierRow
    BY <1>3, SupplierColumns
  <2> QED BY <1>3, <2>1 DEF SupplierRow
<1> HIDE DEF b
<1>5. r \in SupplierRow /\ r.key = b.key /\ r.alias = b.alias /\ r.name = n
  <2>1. r \in SupplierRow
    BY <1>4, SupplierColumns
  <2> QED BY <1>4, <2>1 DEF SupplierRow
<1> HIDE DEF r
<1>6. KeepsPlace(e, r) /\ r.name = n
  BY <1>3, <1>4, <1>5 DEF KeepsPlace
<1> QED BY <1>2, <1>6

\* What TMS says of a supplier changes neither its key nor its representative, and takes a name
\* over only if no other supplier has it
LEMMA FollowedRow ==
  ASSUME NEW sups \in SupplierTable, NEW i \in Here(sups), NEW row \in PartnerRow,
         NEW renames \in BOOLEAN
  PROVE  /\ KeepsPlace(sups[i], PartnerFollowed(sups, i, row, renames))
         /\ \/ PartnerFollowed(sups, i, row, renames).name = sups[i].name
            \/ /\ renames /\ FreeFor(sups, i, row.name)
               /\ PartnerFollowed(sups, i, row, renames).name = row.name
<1> DEFINE e == sups[i]
           w == IF e.value = 0 THEN row.value ELSE e.value
           n == IF renames /\ FreeFor(sups, i, row.name) THEN row.name ELSE e.name
<1>1. e \in SupplierRow
  BY SuppliersHere
<1>2. row.value \in 0..MaxColumn /\ row.kind \in Kinds /\ row.name \in Names
  BY DEF PartnerRow
<1>3. w \in 0..MaxColumn /\ n \in Names
  BY <1>1, <1>2 DEF SupplierRow
<1>4. PartnerFollowed(sups, i, row, renames) =
        IF e.own THEN Refilled(e, w) ELSE Recast(e, row.value, row.kind, n)
  BY Zenon DEF PartnerFollowed, FreeFor, Refilled, Recast
<1>5. n = e.name \/ (renames /\ FreeFor(sups, i, row.name) /\ n = row.name)
  OBVIOUS
<1> HIDE DEF e, w, n
<1>6. CASE e.own
  BY <1>1, <1>3, <1>4, <1>6, ValueAndMark DEF e
<1>7. CASE ~e.own
  <2>1. KeepsPlace(e, Recast(e, row.value, row.kind, n)) /\ Recast(e, row.value, row.kind, n).name = n
    BY <1>1, <1>2, <1>3, AllColumns
  <2> QED BY <1>4, <1>5, <1>7, <2>1 DEF e
<1> QED BY <1>6, <1>7

(***************************************************************************)
(* The list of partners, row by row                                        *)
(***************************************************************************)
PartnersTyped == partners \in [Partners -> {NotThere} \cup [there : {TRUE}, row : PartnerRow]]
Listed == {k \in Partners : partners[k].there}

\* there is a row left for every partner that is not known yet
Room(sups, lk) == Cardinality(Here(sups)) + Cardinality(Listed \ Here(lk)) <= MaxSuppliers

\* The sizes of the tables are numbers
LEMMA BoundsAreNat ==
  /\ MaxSuppliers \in Nat /\ MaxPartners \in Nat
  /\ MaxModels \in Nat /\ MaxModelKeys \in Nat
BY MastersBounds

\* What a listed partner is in TMS
LEMMA ListedRows ==
  ASSUME PartnersTyped, NEW k \in Partners, partners[k].there
  PROVE  partners[k].row \in PartnerRow
<1>1. NotThere.there = FALSE
  BY DEF NotThere
<1>2. partners[k] \in {NotThere} \cup [there : {TRUE}, row : PartnerRow]
  BY DEF PartnersTyped
<1> QED BY <1>1, <1>2

\* The partners still to come are finitely many
LEMMA UnknownIsFinite == \A lk : IsFiniteSet(Listed \ Here(lk))
<1>1. IsFiniteSet(Partners)
  BY BoundsAreNat, FS_Interval DEF Partners
<1>2. \A lk : Listed \ Here(lk) \subseteq Partners
  BY DEF Listed
<1> QED BY <1>1, <1>2, FS_Subset

\* Where no supplier is added and no identity lost the room stays
LEMMA RoomStays ==
  ASSUME NEW sups, NEW lk, NEW new, NEW now, Cardinality(Here(sups)) \in Nat,
         Room(sups, lk), Here(new) = Here(sups), Here(lk) \subseteq Here(now)
  PROVE  Room(new, now)
<1>1. IsFiniteSet(Listed \ Here(lk)) /\ IsFiniteSet(Listed \ Here(now))
  BY UnknownIsFinite
<1>2. Listed \ Here(now) \subseteq Listed \ Here(lk)
  OBVIOUS
<1>3. /\ Cardinality(Listed \ Here(now)) \in Nat /\ Cardinality(Listed \ Here(lk)) \in Nat
      /\ Cardinality(Listed \ Here(now)) <= Cardinality(Listed \ Here(lk))
  BY <1>1, <1>2, FS_Subset, FS_CardinalityType
<1> QED BY <1>3, BoundsAreNat DEF Room

\* A partner that is not known has a place kept for it
LEMMA RoomIsKept ==
  ASSUME NEW sups, NEW lk, NEW k \in Listed \ Here(lk), Cardinality(Here(sups)) \in Nat,
         Room(sups, lk)
  PROVE  Cardinality(Here(sups)) + 1 <= MaxSuppliers
<1> DEFINE U == Listed \ Here(lk)
           c == Cardinality(Here(sups))
           u == Cardinality(U)
<1>1. u \in Nat /\ u # 0
  BY UnknownIsFinite, FS_EmptySet, FS_CardinalityType
<1>2. c + u <= MaxSuppliers /\ c \in Nat
  BY DEF Room
<1> HIDE DEF U, c, u
<1>3. c + 1 <= MaxSuppliers
  BY <1>1, <1>2, BoundsAreNat
<1> QED BY <1>3 DEF c

\* and takes it
LEMMA RoomUsed ==
  ASSUME NEW sups, NEW lk, NEW k \in Listed \ Here(lk), Cardinality(Here(sups)) \in Nat,
         Room(sups, lk), NEW new, NEW now,
         Cardinality(Here(new)) = Cardinality(Here(sups)) + 1, Here(now) = Here(lk) \cup {k}
  PROVE  Room(new, now)
<1> DEFINE U == Listed \ Here(lk)
           c == Cardinality(Here(sups))
           u == Cardinality(U)
<1>1. IsFiniteSet(U)
  BY UnknownIsFinite
<1>2. u \in Nat /\ Cardinality(U \ {k}) = u - 1
  BY <1>1, FS_RemoveElement, FS_CardinalityType
<1>3. Listed \ Here(now) = U \ {k}
  OBVIOUS
<1>4. c + u <= MaxSuppliers /\ c \in Nat /\ Cardinality(Here(new)) = c + 1
  BY DEF Room
<1> HIDE DEF U, c, u
<1>5. (c + 1) + (u - 1) <= MaxSuppliers
  BY <1>2, <1>4, BoundsAreNat
<1> QED BY <1>2, <1>3, <1>4, <1>5 DEF Room

\* What an unknown partner is attached to is there, and nobody has its name if it is to nothing
LEMMA HomeIsHere ==
  ASSUME NEW sups \in SupplierTable, NEW row
  PROVE  Home(sups, row) \in Here(sups) \/ (Home(sups, row) = 0 /\ Named(sups, row.name) = {})
<1> DEFINE like == {i \in Here(sups) : /\ Norm(sups[i].name) = Norm(row.name)
                                       /\ sups[i].kind = row.kind /\ sups[i].key = 0}
           hits == IF Named(sups, row.name) # {} THEN Named(sups, row.name) ELSE like
<1>1. Home(sups, row) = IF hits = {} THEN 0 ELSE CHOOSE i \in hits : \A j \in hits : i <= j
  BY DEF Home
<1>2. hits \in SUBSET Here(sups) /\ hits \in SUBSET Nat
  <2>1. Here(sups) \subseteq Nat
    BY SuppliersHere DEF Suppliers
  <2> QED BY <2>1 DEF Named
<1>3. hits = {} => Named(sups, row.name) = {}
  OBVIOUS
<1> HIDE DEF hits
<1>4. CASE hits # {}
  <2>1. \E i \in hits : \A j \in hits : i <= j
    BY <1>2, <1>4, SmallestOfSome
  <2> QED BY <1>1, <1>2, <1>4, <2>1
<1> QED BY <1>1, <1>3, <1>4

\* the tables a synchronisation may go through: nothing that was there is lost
Books(sups, lk) ==
  {db \in [sups : SupplierTable, link : LinkTable] :
     /\ Good(db.sups, db.link) /\ Room(db.sups, db.link)
     /\ Here(sups) \subseteq Here(db.sups) /\ Here(lk) \subseteq Here(db.link)}
\* and what one row of the list does to them
Grows(sups, lk, new, now) ==
  /\ Good(new, now) /\ Room(new, now)
  /\ Here(sups) \subseteq Here(new) /\ Here(lk) \subseteq Here(now)

\* The next row of suppliers is the first free one
LEMMA PartnersCounted ==
  ASSUME NEW sups, NEW lk, Good(sups, lk)
  PROVE  /\ Cardinality(Here(sups)) \in Nat /\ NextId(sups) = Cardinality(Here(sups)) + 1
         /\ NextId(sups) \notin Here(sups)
<1>1. DOMAIN sups = 1..MaxSuppliers
  BY DEF Good, SupplierTable, Suppliers
<1> QED BY <1>1, BoundsAreNat, NextIsFree DEF Good

\* What an identity written for a supplier holds
LEMMA IdentityIsRow ==
  ASSUME NEW i \in Suppliers, NEW p \in BOOLEAN, NEW row \in PartnerRow
  PROVE  /\ Identity(i, p, row) \in LinkRow
         /\ Identity(i, p, row).supplier = i /\ Identity(i, p, row).primary = p
BY DEF Identity, LinkRow

\* A partner that is known: its primary identity is followed, any identity is seen again
LEMMA KnownIsFollowed ==
  ASSUME NEW sups, NEW lk, Good(sups, lk), Room(sups, lk), NEW k \in Here(lk), NEW row \in PartnerRow
  PROVE  Grows(sups, lk,
               IF lk[k].primary
               THEN [sups EXCEPT ![lk[k].supplier] = PartnerFollowed(sups, lk[k].supplier, row, TRUE)]
               ELSE sups,
               [lk EXCEPT ![k] = Identity(lk[k].supplier, lk[k].primary, row)])
<1> DEFINE i == lk[k].supplier
           l == Identity(i, lk[k].primary, row)
           r == PartnerFollowed(sups, i, row, TRUE)
           new == IF lk[k].primary THEN [sups EXCEPT ![i] = r] ELSE sups
           now == [lk EXCEPT ![k] = l]
<1>1. i \in Here(sups) /\ lk[k] \in LinkRow /\ sups \in SupplierTable /\ k \in Partners
  BY LinksHere DEF Good, Owned
<1>2. i \in Suppliers /\ lk[k].primary \in BOOLEAN
  BY <1>1, SuppliersHere DEF LinkRow
<1>3. l \in LinkRow /\ l.supplier = lk[k].supplier /\ l.primary = lk[k].primary
  BY <1>2, IdentityIsRow
<1>4. Good(new, lk) /\ Here(new) = Here(sups)
  <2>1. CASE lk[k].primary
    <3>1. /\ KeepsPlace(sups[i], r)
          /\ r.name = sups[i].name \/ (FreeFor(sups, i, row.name) /\ r.name = row.name)
      BY <1>1, FollowedRow
    <3>2. FreeFor(sups, i, r.name)
      BY <1>1, <3>1, OwnNameIsFree DEF Good
    <3>3. new = [sups EXCEPT ![i] = r]
      BY <2>1
    <3>4. r \in SupplierRow /\ r.key = sups[i].key /\ r.alias = sups[i].alias
      BY <3>1 DEF KeepsPlace
    <3> HIDE DEF r, i, new
    <3>5. Good([sups EXCEPT ![i] = r], lk) /\ Here([sups EXCEPT ![i] = r]) = Here(sups)
      BY <1>1, <3>2, <3>4, OneRewritten
    <3> QED BY <3>3, <3>5
  <2>2. CASE ~lk[k].primary
    BY <2>2
  <2> QED BY <2>1, <2>2
<1>6. lk \in LinkTable
  BY DEF Good
<1> HIDE DEF l, new, i
<1>7. Good(new, now)
  BY <1>3, <1>4, LinkSeenAgain
<1>8. Linked(lk, k, l, now)
  BY <1>1, <1>3, <1>6, LinkWritten
<1> HIDE DEF now
<1>9. Here(lk) \subseteq Here(now)
  BY <1>8 DEF Linked
<1>10. Room(new, now)
  BY <1>4, <1>9, RoomStays, PartnersCounted
<1>11. Grows(sups, lk, new, now)
  BY <1>4, <1>7, <1>9, <1>10 DEF Grows
<1> QED BY <1>11, Zenon DEF new, now, i, l

\* An unknown partner without a home becomes a supplier
LEMMA UnknownBecomesNew ==
  ASSUME NEW sups, NEW lk, Good(sups, lk), Room(sups, lk), NEW k \in Listed \ Here(lk),
         NEW row \in PartnerRow, Named(sups, row.name) = {}
  PROVE  Grows(sups, lk,
           [sups EXCEPT ![NextId(sups)] = Row(row.name, row.kind, row.value, FALSE, k, FALSE)],
           [lk EXCEPT ![k] = Identity(NextId(sups), TRUE, row)])
<1> DEFINE r == Row(row.name, row.kind, row.value, FALSE, k, FALSE)
           l == Identity(NextId(sups), TRUE, row)
           new == [sups EXCEPT ![NextId(sups)] = r]
           now == [lk EXCEPT ![k] = l]
<1>1. /\ Cardinality(Here(sups)) \in Nat /\ NextId(sups) = Cardinality(Here(sups)) + 1
      /\ NextId(sups) \notin Here(sups)
  BY PartnersCounted
<1>2. NextId(sups) <= MaxSuppliers
  BY <1>1, RoomIsKept
<1>3. NextId(sups) \in Suppliers /\ k \in Partners
  BY <1>1, <1>2, BoundsAreNat DEF Suppliers, Listed
<1>4. /\ r \in SupplierRow /\ r.alias = 0 /\ r.key = k /\ Named(sups, r.name) = {}
  BY <1>3, BoundsAreNat DEF Row, SupplierRow, PartnerRow, Partners
<1>5. l \in LinkRow /\ l.supplier = NextId(sups) /\ l.primary
  BY <1>3, IdentityIsRow
<1> HIDE DEF r, l
<1>7. Good(new, now)
  BY <1>2, <1>3, <1>4, <1>5, RowAddedWithKey
<1>8. NextWritten(sups, r, new) /\ Cardinality(Here(new)) = Cardinality(Here(sups)) + 1
  BY <1>2, <1>4, NextRow
<1>9. Linked(lk, k, l, now)
  BY <1>3, <1>5, LinkWritten DEF Good
<1> HIDE DEF new, now
<1>10. Here(now) = Here(lk) \cup {k} /\ Here(sups) \subseteq Here(new)
  BY <1>8, <1>9 DEF Linked, NextWritten, Written
<1>11. Room(new, now)
  BY <1>1, <1>8, <1>10, RoomUsed
<1>12. Grows(sups, lk, new, now)
  BY <1>7, <1>10, <1>11 DEF Grows
<1> QED BY <1>12, Zenon DEF new, now, r, l

\* An unknown partner of a supplier that TMS did not know yet
LEMMA UnknownComesHome ==
  ASSUME NEW sups, NEW lk, Good(sups, lk), Room(sups, lk), NEW k \in Partners \ Here(lk),
         NEW row \in PartnerRow, NEW i \in Here(sups), sups[i].key = 0
  PROVE  Grows(sups, lk,
           [sups EXCEPT ![i] = [PartnerFollowed(sups, i, row, FALSE) EXCEPT !.key = k]],
           [lk EXCEPT ![k] = Identity(i, TRUE, row)])
<1> DEFINE f == PartnerFollowed(sups, i, row, FALSE)
           r == [f EXCEPT !.key = k]
           l == Identity(i, TRUE, row)
           new == [sups EXCEPT ![i] = r]
           now == [lk EXCEPT ![k] = l]
<1>1. sups \in SupplierTable /\ lk \in LinkTable /\ i \in Suppliers /\ k \in Partners
  BY SuppliersHere DEF Good
<1>2. KeepsPlace(sups[i], f) /\ f.name = sups[i].name
  BY <1>1, FollowedRow
<1>3. l \in LinkRow /\ l.supplier = i /\ l.primary
  BY <1>1, IdentityIsRow
<1> HIDE DEF f
<1>4. r \in SupplierRow /\ r.key = k /\ r.alias = sups[i].alias /\ r.name = sups[i].name
  <2>1. f \in SupplierRow /\ f.alias = sups[i].alias /\ k \in 0..MaxPartners
    BY <1>1, <1>2, BoundsAreNat DEF KeepsPlace, Partners
  <2>2. r \in SupplierRow
    BY <2>1, SupplierColumns
  <2>3. r.key = k /\ r.alias = f.alias /\ r.name = f.name
    BY <2>1 DEF SupplierRow
  <2> QED BY <1>2, <2>1, <2>2, <2>3
<1> HIDE DEF r, l
<1>5. Linked(lk, k, l, now) /\ Written(sups, i, r, new)
  BY <1>1, <1>3, <1>4, LinkWritten, RowWritten
<1> HIDE DEF now
<1>6. now \in LinkTable /\ Here(now) = Here(lk) \cup {k} /\ now[k] = l
  BY <1>5 DEF Linked
<1>7. ASSUME NEW j \in Here(lk) \ {k}
      PROVE  /\ now[j].supplier = lk[j].supplier
             /\ now[j].primary = (lk[j].primary /\ lk[j].supplier # i)
  <2>1. now[j] = lk[j] /\ lk[j].primary \in BOOLEAN
    BY <1>1, <1>5, <1>7, LinksHere DEF Linked, LinkRow
  <2>2. lk[j].supplier = i => ~lk[j].primary
    <3>1. j # 0
      BY <1>1, LinksHere DEF Partners
    <3> QED BY <3>1 DEF Good, Owned
  <2> QED BY <2>1, <2>2
<1>8. Good(new, now)
  <2>1. \A j \in Here(lk) \ {k} : /\ now[j].supplier = lk[j].supplier
                                  /\ now[j].primary = (lk[j].primary /\ lk[j].supplier # i)
    BY <1>7
  <2> QED BY <1>1, <1>3, <1>4, <1>6, <2>1, PrimaryChosen
<1> HIDE DEF new
<1>9. Here(new) = Here(sups) /\ Here(lk) \subseteq Here(now)
  BY <1>5, <1>6 DEF Written
<1>10. Room(new, now)
  BY <1>9, RoomStays, PartnersCounted
<1>11. Grows(sups, lk, new, now)
  BY <1>8, <1>9, <1>10 DEF Grows
<1> QED BY <1>11, Zenon DEF new, now, r, l, f

\* An unknown partner of a supplier that has another identity
LEMMA UnknownStandsBeside ==
  ASSUME NEW sups, NEW lk, Good(sups, lk), Room(sups, lk), NEW k \in Partners \ Here(lk),
         NEW row \in PartnerRow, NEW i \in Here(sups)
  PROVE  Grows(sups, lk, sups, [lk EXCEPT ![k] = Identity(i, FALSE, row)])
<1> DEFINE l == Identity(i, FALSE, row)
           now == [lk EXCEPT ![k] = l]
<1>1. lk \in LinkTable /\ i \in Suppliers
  BY SuppliersHere DEF Good
<1>2. l \in LinkRow /\ l.supplier = i /\ ~l.primary
  BY <1>1, IdentityIsRow
<1> HIDE DEF l
<1>3. Good(sups, now)
  BY <1>2, LinkBeside
<1>4. Linked(lk, k, l, now)
  BY <1>1, <1>2, LinkWritten
<1> HIDE DEF now
<1>5. Here(lk) \subseteq Here(now)
  BY <1>4 DEF Linked
<1>6. Room(sups, now)
  BY <1>5, RoomStays, PartnersCounted
<1>7. Grows(sups, lk, sups, now)
  BY <1>3, <1>5, <1>6 DEF Grows
<1> QED BY <1>7, Zenon DEF now, l

\* Tables that grew out of those of a synchronisation are some of its own
LEMMA GrownBooks ==
  ASSUME NEW sups, NEW lk, NEW db \in Books(sups, lk), NEW new, NEW now,
         Grows(db.sups, db.link, new, now)
  PROVE  [sups |-> new, link |-> now] \in Books(sups, lk)
<1> DEFINE r == [sups |-> new, link |-> now]
<1>1. r.sups = new /\ r.link = now
  OBVIOUS
<1>2. new \in SupplierTable /\ now \in LinkTable
  BY DEF Grows, Good
<1>3. r \in [sups : SupplierTable, link : LinkTable]
  BY <1>2
<1>4. Here(sups) \subseteq Here(new) /\ Here(lk) \subseteq Here(now) /\ Good(new, now) /\ Room(new, now)
  BY DEF Grows, Books
<1> HIDE DEF r
<1>5. r \in Books(sups, lk)
  BY <1>1, <1>3, <1>4 DEF Books
<1> QED BY <1>5 DEF r

\* One row of TMS's list leaves suppliers and identities in agreement and loses none of them
LEMMA TakenInKeeps ==
  ASSUME PartnersTyped, NEW sups, NEW lk, NEW db \in Books(sups, lk), NEW k \in Partners
  PROVE  TakenIn(db, k) \in Books(sups, lk)
<1> DEFINE S == db.sups
           L == db.link
           row == partners[k].row
           home == Home(S, row)
           i == L[k].supplier
           s1 == IF L[k].primary THEN [S EXCEPT ![i] = PartnerFollowed(S, i, row, TRUE)] ELSE S
           l1 == [L EXCEPT ![k] = Identity(i, L[k].primary, row)]
           s2 == [S EXCEPT ![NextId(S)] = Row(row.name, row.kind, row.value, FALSE, k, FALSE)]
           l2 == [L EXCEPT ![k] = Identity(NextId(S), TRUE, row)]
           s3 == [S EXCEPT ![home] = [PartnerFollowed(S, home, row, FALSE) EXCEPT !.key = k]]
           l3 == [L EXCEPT ![k] = Identity(home, TRUE, row)]
           l4 == [L EXCEPT ![k] = Identity(home, FALSE, row)]
<1>1. Good(S, L) /\ Room(S, L) /\ S \in SupplierTable /\ L \in LinkTable
  BY DEF Books
<1>2. TakenIn(db, k) =
        IF ~partners[k].there THEN db
        ELSE IF L[k].there THEN [sups |-> s1, link |-> l1]
        ELSE IF home = 0 THEN [sups |-> s2, link |-> l2]
        ELSE IF S[home].key = 0 THEN [sups |-> s3, link |-> l3]
        ELSE [sups |-> S, link |-> l4]
  BY Zenon DEF TakenIn
<1>3. L[k].there <=> k \in Here(L)
  BY <1>1, LinksHere
<1>4. home \in Here(S) \/ (home = 0 /\ Named(S, row.name) = {})
  BY <1>1, HomeIsHere
<1>5. home \in Here(S) => home # 0
  BY <1>1, SuppliersHere DEF Suppliers
<1>6. CASE ~partners[k].there
  BY <1>2, <1>6
<1>7. CASE partners[k].there
  <2>1. row \in PartnerRow /\ k \in Listed
    BY <1>7, ListedRows DEF Listed
  <2>2. CASE k \in Here(L)
    <3>1. Grows(S, L, s1, l1)
      BY <1>1, <2>1, <2>2, KnownIsFollowed
    <3>2. TakenIn(db, k) = [sups |-> s1, link |-> l1]
      BY <1>2, <1>3, <1>7, <2>2, Zenon
    <3> HIDE DEF s1, l1
    <3> QED BY <3>1, <3>2, GrownBooks
  <2>3. CASE k \notin Here(L) /\ home = 0
    <3>1. Grows(S, L, s2, l2)
      BY <1>1, <1>4, <1>5, <2>1, <2>3, UnknownBecomesNew
    <3>2. TakenIn(db, k) = [sups |-> s2, link |-> l2]
      BY <1>2, <1>3, <1>7, <2>3, Zenon
    <3> HIDE DEF s2, l2
    <3> QED BY <3>1, <3>2, GrownBooks
  <2>4. CASE k \notin Here(L) /\ home # 0 /\ S[home].key = 0
    <3>1. Grows(S, L, s3, l3)
      BY <1>1, <1>4, <2>1, <2>4, UnknownComesHome
    <3>2. TakenIn(db, k) = [sups |-> s3, link |-> l3]
      BY <1>2, <1>3, <1>7, <2>4, Zenon
    <3> HIDE DEF s3, l3
    <3> QED BY <3>1, <3>2, GrownBooks
  <2>5. CASE k \notin Here(L) /\ home # 0 /\ S[home].key # 0
    <3>1. Grows(S, L, S, l4)
      BY <1>1, <1>4, <2>1, <2>5, UnknownStandsBeside
    <3>2. TakenIn(db, k) = [sups |-> S, link |-> l4]
      BY <1>2, <1>3, <1>7, <2>5, Zenon
    <3> HIDE DEF S, l4
    <3>3. Grows(db.sups, db.link, S, l4)
      BY <3>1 DEF S
    <3> QED BY <3>2, <3>3, GrownBooks
  <2> QED BY <2>2, <2>3, <2>4, <2>5
<1> QED BY <1>6, <1>7

\* it is the fold of TMS's list over the tables db
ListFold(it, db, N) ==
  it = [s \in SUBSET (1..N) |-> IF s = {} THEN db ELSE TakenIn(it[s \ {Max(s)}], Max(s))]
TakenInWithin(V) == \A v \in V, k \in Partners : TakenIn(v, k) \in V

\* The list is taken in row by row, and what each row keeps the whole list keeps
LEMMA ListKeeps ==
  ASSUME NEW V, NEW db \in V, TakenInWithin(V)
  PROVE  FoldLeft(TakenIn, db, [k \in 1..MaxPartners |-> k]) \in V
<1> DEFINE N == MaxPartners
           step == [p \in (1..N) \X V |-> TakenIn(p[2], p[1])]
<1>1. N \in Nat /\ IsFiniteSet(1..N) /\ Partners = 1..N
  BY BoundsAreNat, FS_Interval DEF Partners
<1>2. \A n \in 1..N, v \in V : step[<<n, v>>] = TakenIn(v, n) /\ step[<<n, v>>] \in V
  BY <1>1 DEF TakenInWithin
<1> HIDE DEF step, N
<1>3. Within(step, 1..N, V)
  BY <1>2 DEF Within
<1>4. PICK it \in [SUBSET (1..N) -> V] : IsRun(it, N, db, step)
  BY <1>1, <1>3, RunExists
<1>5. \A s \in SUBSET (1..N) : s # {} => Max(s) \in s /\ Max(s) \in 1..N
  <2>1. ASSUME NEW s \in SUBSET (1..N), s # {} PROVE Max(s) \in s
    <3>1. s \in SUBSET (0..N)
      BY <1>1
    <3> QED BY <1>1, <2>1, <3>1, MaxIsLargest
  <2> QED BY <2>1
<1>6. ListFold(it, db, N)
  <2>1. ASSUME NEW s \in SUBSET (1..N)
        PROVE  it[s] = IF s = {} THEN db ELSE TakenIn(it[s \ {Max(s)}], Max(s))
    <3>1. CASE s = {}
      BY <1>4, <3>1 DEF IsRun
    <3>2. CASE s # {}
      <4>1. it[s \ {Max(s)}] \in V
        BY <1>4
      <4>2. it[s] = step[<<Max(s), it[s \ {Max(s)}]>>]
        BY <1>4, <3>2 DEF IsRun
      <4> QED BY <1>2, <1>5, <3>2, <4>1, <4>2
    <3> QED BY <3>1, <3>2
  <2>2. it = [s \in SUBSET (1..N) |-> it[s]]
    BY <1>4
  <2>3. it = [s \in SUBSET (1..N) |-> IF s = {} THEN db ELSE TakenIn(it[s \ {Max(s)}], Max(s))]
    BY <2>1, <2>2
  <2> QED BY <2>3, Zenon DEF ListFold
<1> DEFINE jt == CHOOSE kt : ListFold(kt, db, N)
<1>7. ListFold(jt, db, N)
  BY <1>6, Zenon
<1>8. FoldLeft(TakenIn, db, [k \in 1..MaxPartners |-> k]) = jt[1..N]
  <2> DEFINE list == [k \in 1..MaxPartners |-> k]
  <2>1. DOMAIN list = 1..N
    BY DEF N
  <2>2. FoldLeft(TakenIn, db, list) =
          (CHOOSE kt : kt = [s \in SUBSET (DOMAIN list) |->
             IF s = {} THEN db ELSE TakenIn(kt[s \ {Max(s)}], list[Max(s)])])[DOMAIN list]
    BY Zenon DEF FoldLeft, MapThenFoldSet
  <2>3. \A kt : [s \in SUBSET (DOMAIN list) |->
                   IF s = {} THEN db ELSE TakenIn(kt[s \ {Max(s)}], list[Max(s)])]
              = [s \in SUBSET (1..N) |-> IF s = {} THEN db ELSE TakenIn(kt[s \ {Max(s)}], Max(s))]
    <3>1. \A s \in SUBSET (1..N) : s # {} => list[Max(s)] = Max(s)
      BY <1>5 DEF N
    <3> HIDE DEF list
    <3> QED BY <2>1, <3>1
  <2> HIDE DEF list
  <2>4. jt = CHOOSE kt : kt = [s \in SUBSET (DOMAIN list) |->
               IF s = {} THEN db ELSE TakenIn(kt[s \ {Max(s)}], list[Max(s)])]
    BY <2>3, Zenon DEF ListFold
  <2> HIDE DEF jt
  <2>5. FoldLeft(TakenIn, db, list) = jt[1..N]
    BY <2>1, <2>2, <2>4, Zenon
  <2> QED BY <2>5 DEF list
<1> HIDE DEF jt
<1>9. \A s \in SUBSET (1..N) : jt[s] = IF s = {} THEN db ELSE TakenIn(jt[s \ {Max(s)}], Max(s))
  BY <1>7, Zenon DEF ListFold
<1> DEFINE G == {s \in SUBSET (1..N) : jt[s] \in V}
<1>10. {} \in G
  BY <1>9
<1>11. ASSUME NEW s \in SUBSET (1..N), s # {}, \A x \in s : s \ {x} \in G
       PROVE  s \in G
  <2>1. Max(s) \in s /\ Max(s) \in Partners
    BY <1>1, <1>5, <1>11
  <2>2. jt[s \ {Max(s)}] \in V
    BY <1>11, <2>1
  <2>3. TakenIn(jt[s \ {Max(s)}], Max(s)) \in V
    BY <2>1, <2>2, Zenon DEF TakenInWithin
  <2>4. jt[s] = TakenIn(jt[s \ {Max(s)}], Max(s))
    BY <1>9, <1>11, Zenon
  <2> QED BY <2>3, <2>4
<1> HIDE DEF G
<1>12. SUBSET (1..N) \subseteq G
  BY <1>1, <1>10, <1>11, SetBySet
<1> QED BY <1>8, <1>12 DEF G

(***************************************************************************)
(* Suppliers, by staff                                                     *)
(***************************************************************************)
\* a row that stays whose it is
SameRow(e, r) == r \in SupplierRow /\ r.name = e.name /\ r.key = e.key
\* an alias that follows its representative, one that staff decided, one TMS has lost
Led(e, a)  == [e EXCEPT !.alias = a]
Put(e, a)  == [e EXCEPT !.alias = a, !.own = TRUE]
Lost(e)    == [e EXCEPT !.gone = TRUE]

\* A supplier is put under another, or on its own
LEMMA LedRow ==
  ASSUME NEW e \in SupplierRow, NEW a \in 0..MaxSuppliers
  PROVE  SameRow(e, Led(e, a)) /\ Led(e, a).alias = a
<1>1. Led(e, a) \in SupplierRow
  BY SupplierColumns DEF Led
<1>2. Led(e, a).name = e.name /\ Led(e, a).key = e.key /\ Led(e, a).alias = a
  BY DEF Led, SupplierRow
<1> QED BY <1>1, <1>2 DEF SameRow

\* Staff put a supplier under another: the choice is theirs from then on
LEMMA PutRow ==
  ASSUME NEW e \in SupplierRow, NEW a \in 0..MaxSuppliers
  PROVE  SameRow(e, Put(e, a)) /\ Put(e, a).alias = a
<1> DEFINE r == [Led(e, a) EXCEPT !.own = TRUE]
<1>1. Put(e, a) = r
  BY DEF Put, Led, SupplierRow
<1>2. Led(e, a) \in SupplierRow /\ Led(e, a).name = e.name /\ Led(e, a).key = e.key /\ Led(e, a).alias = a
  BY LedRow DEF SameRow
<1>3. r \in SupplierRow
  BY <1>2, SupplierColumns
<1>4. r.name = Led(e, a).name /\ r.key = Led(e, a).key /\ r.alias = Led(e, a).alias
  BY <1>2 DEF SupplierRow
<1> HIDE DEF r
<1> QED BY <1>1, <1>2, <1>3, <1>4 DEF SameRow

\* A supplier is marked as lost in TMS
LEMMA LostRow ==
  ASSUME NEW e \in SupplierRow
  PROVE  SameRow(e, Lost(e)) /\ Lost(e).alias = e.alias
<1>1. Lost(e) \in SupplierRow
  BY SupplierColumns DEF Lost
<1>2. Lost(e).name = e.name /\ Lost(e).key = e.key /\ Lost(e).alias = e.alias
  BY DEF Lost, SupplierRow
<1> QED BY <1>1, <1>2 DEF SameRow

\* every row stays whose it is
SameRows(sups, new) ==
  /\ DOMAIN new = Suppliers
  /\ \A i \in Here(sups) : SameRow(sups[i], new[i])
  /\ \A i \in Suppliers \ Here(sups) : new[i] = NotThere

\* Rows that stay whose they are may be led to other representatives
LEMMA RowsLed ==
  ASSUME NEW sups, NEW lk, Good(sups, lk), NEW new, new = [i \in Suppliers |-> new[i]],
         SameRows(sups, new)
  PROVE  /\ Here(new) = Here(sups) /\ new \in SupplierTable
         /\ Flat(new) => Good(new, lk)
<1>1. sups \in SupplierTable /\ Here(sups) \subseteq Suppliers
  BY SuppliersHere DEF Good
<1>2. \A i \in Suppliers : new[i] \in {NotThere} \cup SupplierRow
  BY DEF SameRows, SameRow
<1>3. new \in SupplierTable
  BY <1>2 DEF SupplierTable
<1>4. NotThere.there = FALSE /\ \A r \in SupplierRow : r.there = TRUE
  BY DEF NotThere, SupplierRow
<1>5. Here(new) = Here(sups)
  <2>1. Here(new) = {i \in Suppliers : new[i].there}
    BY <1>3, SuppliersHere
  <2>2. \A i \in Here(sups) : new[i].there
    BY <1>4 DEF SameRows, SameRow
  <2>3. \A i \in Suppliers \ Here(sups) : ~new[i].there
    BY <1>4 DEF SameRows
  <2> QED BY <1>1, <2>1, <2>2, <2>3
<1>6. \A i \in Here(sups) : new[i].name = sups[i].name /\ new[i].key = sups[i].key
  BY DEF SameRows, SameRow
<1>7. NamesOnce(new)
  BY <1>5, <1>6 DEF Good, NamesOnce
<1>8. SameKeys(sups, new)
  BY <1>5, <1>6 DEF SameKeys
<1>9. Flat(new) => Good(new, lk)
  BY <1>3, <1>7, <1>8, RowsRewritten
<1> QED BY <1>3, <1>5, <1>9

\* Every identity that TMS has lost is marked, and so is its supplier if it was the primary one
LEMMA LostAreMarked ==
  ASSUME NEW sups, NEW lk, Good(sups, lk), NEW out, NEW left, NEW new, NEW now,
         out \subseteq Here(sups), left \subseteq Here(lk),
         new = [i \in Suppliers |-> IF i \in out THEN Lost(sups[i]) ELSE sups[i]],
         now = [k \in Partners |-> IF k \in left THEN [lk[k] EXCEPT !.gone = TRUE] ELSE lk[k]]
  PROVE  Good(new, now)
<1>1. sups \in SupplierTable /\ lk \in LinkTable
  BY DEF Good
<1>2. SameRows(sups, new) /\ \A i \in Here(sups) : new[i].alias = sups[i].alias
  <2>1. ASSUME NEW i \in Here(sups)
        PROVE  SameRow(sups[i], new[i]) /\ new[i].alias = sups[i].alias
    <3>1. sups[i] \in SupplierRow /\ i \in Suppliers
      BY <1>1, SuppliersHere
    <3>2. SameRow(sups[i], sups[i])
      BY <3>1 DEF SameRow
    <3>3. new[i] = IF i \in out THEN Lost(sups[i]) ELSE sups[i]
      BY <3>1
    <3> QED BY <3>1, <3>2, <3>3, LostRow
  <2>2. \A i \in Suppliers \ Here(sups) : new[i] = NotThere
    BY <1>1, SuppliersHere
  <2> QED BY <2>1, <2>2 DEF SameRows
<1>3. new = [i \in Suppliers |-> new[i]]
  OBVIOUS
<1>4. Good(new, lk)
  <2>1. Here(new) = Here(sups) /\ (Flat(new) => Good(new, lk))
    BY <1>2, <1>3, RowsLed
  <2>2. Flat(new)
    BY <1>2, <2>1 DEF Good, Flat
  <2> QED BY <2>1, <2>2
<1>5. ASSUME NEW k \in Here(lk)
      PROVE  /\ now[k] \in LinkRow /\ now[k].supplier = lk[k].supplier
             /\ now[k].primary = lk[k].primary
  <2>1. lk[k] \in LinkRow /\ k \in Partners
    BY <1>1, LinksHere
  <2> DEFINE l == lk[k]
             r == [l EXCEPT !.gone = TRUE]
  <2>2. now[k] = IF k \in left THEN r ELSE l
    BY <2>1
  <2> HIDE DEF l
  <2>3. l \in LinkRow
    BY <2>1 DEF l
  <2>4. r \in LinkRow /\ r.supplier = l.supplier /\ r.primary = l.primary
    BY <2>3 DEF LinkRow
  <2> HIDE DEF r
  <2> QED BY <2>2, <2>3, <2>4 DEF l
<1>6. \A k \in Partners \ Here(lk) : now[k] = NotThere
  BY <1>1, LinksHere
<1>7. now \in LinkTable
  BY <1>1, <1>5, <1>6, LinksHere DEF LinkTable
<1>8. Here(now) = Here(lk)
  <2>1. NotThere.there = FALSE /\ \A r \in LinkRow : r.there = TRUE
    BY DEF NotThere, LinkRow
  <2>2. Here(now) = {k \in Partners : now[k].there} /\ Here(lk) \subseteq Partners
    BY <1>1, <1>7, LinksHere
  <2> QED BY <1>5, <1>6, <2>1, <2>2
<1>9. \A k \in Here(lk) : now[k].supplier = lk[k].supplier /\ now[k].primary = lk[k].primary
  BY <1>5
<1> QED BY <1>4, <1>7, <1>8, <1>9, LinksChanged

\* A synchronisation of partners keeps suppliers and identities in agreement
LEMMA SyncKeeps ==
  ASSUME PartnersTyped, Good(suppliers, link), SyncPartners
  PROVE  Good(suppliers', link')
<1> DEFINE left == {k \in Here(link) \ Listed : ~link[k].gone}
           db0 == [sups |-> suppliers, link |-> link]
           db == FoldLeft(TakenIn, db0, [k \in 1..MaxPartners |-> k])
           out == {i \in Suppliers : \E k \in left : link[k].primary /\ link[k].supplier = i}
<1>1. /\ Room(suppliers, link)
      /\ link' = [k \in Partners |-> IF k \in left THEN [db.link[k] EXCEPT !.gone = TRUE]
                                                   ELSE db.link[k]]
      /\ suppliers' = [i \in Suppliers |->
           IF \E k \in left : link[k].primary /\ link[k].supplier = i
           THEN [db.sups[i] EXCEPT !.gone = TRUE] ELSE db.sups[i]]
  BY Zenon DEF SyncPartners, Listed, Room
<1>2. db0 \in Books(suppliers, link)
  <2>1. suppliers \in SupplierTable /\ link \in LinkTable
    BY DEF Good
  <2>2. db0 \in [sups : SupplierTable, link : LinkTable]
    BY <2>1
  <2> QED BY <1>1, <2>2 DEF Books
<1> HIDE DEF db0
<1>3. db \in Books(suppliers, link)
  <2>1. TakenInWithin(Books(suppliers, link))
    BY TakenInKeeps DEF TakenInWithin
  <2> QED BY <1>2, <2>1, ListKeeps
<1> HIDE DEF db
<1>4. /\ Good(db.sups, db.link) /\ Here(suppliers) \subseteq Here(db.sups)
      /\ Here(link) \subseteq Here(db.link)
  BY <1>3 DEF Books
<1>5. left \subseteq Here(db.link) /\ out \subseteq Here(db.sups)
  <2>1. \A k \in left : link[k].supplier \in Here(suppliers)
    BY DEF Good, Owned
  <2> QED BY <1>4, <2>1
<1>6. suppliers' = [i \in Suppliers |-> IF i \in out THEN Lost(db.sups[i]) ELSE db.sups[i]]
  <2>1. \A i \in Suppliers : (\E k \in left : link[k].primary /\ link[k].supplier = i) <=> i \in out
    OBVIOUS
  <2> HIDE DEF out, left
  <2> QED BY <1>1, <2>1 DEF Lost
<1>7. link' = [k \in Partners |-> IF k \in left THEN [db.link[k] EXCEPT !.gone = TRUE]
                                                ELSE db.link[k]]
  BY <1>1, Zenon
<1> DEFINE S == db.sups
           L == db.link
<1> HIDE DEF out, left
<1>8. Good(S, L) /\ out \subseteq Here(S) /\ left \subseteq Here(L)
  BY <1>4, <1>5
<1>9. /\ suppliers' = [i \in Suppliers |-> IF i \in out THEN Lost(S[i]) ELSE S[i]]
      /\ link' = [k \in Partners |-> IF k \in left THEN [L[k] EXCEPT !.gone = TRUE] ELSE L[k]]
  BY <1>6, <1>7
<1> HIDE DEF S, L
<1> QED BY <1>8, <1>9, LostAreMarked

\* An alias and everything that was an alias of it are led to a representative
LEMMA SetAliasKeeps ==
  ASSUME Good(suppliers, link), NEW i \in Here(suppliers), NEW rep \in Suppliers, SetAlias(i, rep)
  PROVE  Good(suppliers', link')
<1> DEFINE sups == suppliers
           mid == [sups EXCEPT ![i] = Put(sups[i], rep)]
<1>0. [sups EXCEPT ![i].alias = rep, ![i].own = TRUE] = mid
  BY SuppliersHere DEF Good, Put, SupplierTable
<1>1. /\ rep # i /\ sups[rep].there /\ sups[rep].alias = 0
      /\ suppliers' = [j \in Suppliers |->
           IF mid[j].there /\ mid[j].alias = i THEN Led(mid[j], rep) ELSE mid[j]]
      /\ link' = link
  <2>1. rep # i /\ sups[rep].there /\ sups[rep].alias = 0 /\ link' = link
    BY DEF SetAlias, OnSuppliers
  <2>2. suppliers' = FollowersOf([sups EXCEPT ![i].alias = rep, ![i].own = TRUE], i, rep)
    BY Zenon DEF SetAlias, OnSuppliers, Aliased
  <2> HIDE DEF mid
  <2>3. suppliers' = FollowersOf(mid, i, rep)
    BY <1>0, <2>2
  <2> QED BY <2>1, <2>3 DEF FollowersOf, Led
<1>2. sups \in SupplierTable /\ i \in Suppliers /\ rep \in Here(sups)
  BY <1>1, SuppliersHere DEF Good
<1>3. Here(sups) \subseteq Suppliers /\ \A j \in Here(sups) : sups[j] \in SupplierRow /\ sups[j].there
  BY <1>2, SuppliersHere
<1>4. rep \in 0..MaxSuppliers /\ i # 0
  BY <1>2, BoundsAreNat DEF Suppliers
<1>5. SameRow(sups[i], Put(sups[i], rep)) /\ Put(sups[i], rep).alias = rep
  BY <1>3, <1>4, PutRow
<1>6. mid[i] = Put(sups[i], rep) /\ \A j \in Suppliers \ {i} : mid[j] = sups[j]
  BY <1>2 DEF SupplierTable
<1> HIDE DEF mid
<1>7. ASSUME NEW j \in Here(sups)
      PROVE  /\ SameRow(sups[j], suppliers'[j])
             /\ suppliers'[j].alias = IF j = i \/ sups[j].alias = i THEN rep ELSE sups[j].alias
  <2>1. CASE j = i
    <3>1. mid[j].alias # i
      BY <1>1, <1>5, <1>6, <2>1
    <3>2. suppliers'[j] = mid[j]
      BY <1>1, <1>2, <2>1, <3>1
    <3> QED BY <1>5, <1>6, <2>1, <3>2
  <2>2. CASE j # i
    <3>1. mid[j] = sups[j] /\ sups[j].there /\ sups[j] \in SupplierRow
      BY <1>3, <1>6, <2>2
    <3>2. suppliers'[j] = IF sups[j].alias = i THEN Led(sups[j], rep) ELSE sups[j]
      BY <1>1, <1>3, <3>1
    <3>3. SameRow(sups[j], Led(sups[j], rep)) /\ Led(sups[j], rep).alias = rep
      BY <1>4, <3>1, LedRow
    <3>4. SameRow(sups[j], sups[j])
      BY <3>1 DEF SameRow
    <3> QED BY <2>2, <3>2, <3>3, <3>4
  <2> QED BY <2>1, <2>2
<1>8. SameRows(sups, suppliers')
  <2>1. DOMAIN suppliers' = Suppliers
    BY <1>1
  <2>2. ASSUME NEW j \in Suppliers \ Here(sups) PROVE suppliers'[j] = NotThere
    <3>1. sups[j] = NotThere /\ j # i
      BY <1>2, <2>2, SuppliersHere
    <3>2. mid[j] = NotThere /\ ~mid[j].there
      BY <1>6, <3>1 DEF NotThere
    <3> QED BY <1>1, <3>2
  <2> QED BY <1>7, <2>1, <2>2 DEF SameRows
<1>9. suppliers' = [j \in Suppliers |-> suppliers'[j]]
  BY <1>1
<1>10. Here(suppliers') = Here(sups) /\ (Flat(suppliers') => Good(suppliers', link))
  BY <1>8, <1>9, RowsLed
<1>11. Flat(suppliers')
  <2>1. ASSUME NEW j \in Here(sups), suppliers'[j].alias # 0
        PROVE  /\ suppliers'[j].alias \in Here(sups)
               /\ suppliers'[suppliers'[j].alias].alias = 0
    <3>1. CASE j = i \/ sups[j].alias = i
      <4>1. suppliers'[j].alias = rep
        BY <1>7, <3>1
      <4>2. suppliers'[rep].alias = 0
        BY <1>1, <1>2, <1>4, <1>7
      <4> QED BY <1>2, <4>1, <4>2
    <3>2. CASE j # i /\ sups[j].alias # i
      <4> DEFINE a == sups[j].alias
      <4>1. suppliers'[j].alias = a
        BY <1>7, <3>2
      <4>2. a \in Here(sups) /\ sups[a].alias = 0 /\ a # i
        BY <2>1, <3>2, <4>1 DEF Good, Flat
      <4> HIDE DEF a
      <4>3. suppliers'[a].alias = 0
        BY <1>4, <1>7, <4>2
      <4> QED BY <4>1, <4>2, <4>3
    <3> QED BY <3>1, <3>2
  <2> QED BY <1>10, <2>1 DEF Flat
<1> QED BY <1>1, <1>10, <1>11

\* An alias becomes a supplier of its own
LEMMA ClearAliasKeeps ==
  ASSUME Good(suppliers, link), NEW i \in Here(suppliers), ClearAlias(i)
  PROVE  Good(suppliers', link')
<1> DEFINE new == [suppliers EXCEPT ![i] = Put(suppliers[i], 0)]
<1>1. suppliers \in SupplierTable /\ i \in Suppliers /\ suppliers[i] \in SupplierRow
  BY SuppliersHere DEF Good
<1>2. suppliers' = new /\ link' = link
  <2>1. [suppliers EXCEPT ![i].alias = 0, ![i].own = TRUE] = new
    BY <1>1 DEF Put, SupplierTable
  <2>2. suppliers' = [suppliers EXCEPT ![i].alias = 0, ![i].own = TRUE] /\ link' = link
    BY Zenon DEF ClearAlias, OnSuppliers
  <2> QED BY <2>1, <2>2
<1>3. SameRow(suppliers[i], Put(suppliers[i], 0)) /\ Put(suppliers[i], 0).alias = 0
  BY <1>1, PutRow, BoundsAreNat
<1>4. Written(suppliers, i, Put(suppliers[i], 0), new)
  BY <1>1, <1>3, RowWritten DEF SameRow
<1> HIDE DEF new
<1>5. /\ Here(new) = Here(suppliers) /\ new[i] = Put(suppliers[i], 0) /\ new \in SupplierTable
      /\ \A j \in Here(suppliers) \ {i} : new[j] = suppliers[j]
  BY <1>4 DEF Written
<1>6. \A j \in Here(suppliers) : /\ new[j].name = suppliers[j].name /\ new[j].key = suppliers[j].key
                                 /\ new[j].alias = suppliers[j].alias \/ new[j].alias = 0
  BY <1>3, <1>5 DEF SameRow
<1>7. Flat(new)
  BY <1>5, <1>6 DEF Good, Flat
<1>8. NamesOnce(new) /\ SameKeys(suppliers, new)
  BY <1>5, <1>6 DEF Good, NamesOnce, SameKeys
<1>9. Good(new, link)
  BY <1>5, <1>7, <1>8, RowsRewritten
<1> QED BY <1>2, <1>9

\* Whatever rows are put under a representative at once and whatever is let go
LEMMA CanonicalKeeps ==
  ASSUME Good(suppliers, link), NEW rep \in Here(suppliers),
         NEW aliases \in SUBSET Here(suppliers), NEW detached \in SUBSET Here(suppliers),
         Canonical(rep, aliases, detached)
  PROVE  Good(suppliers', link')
<1> DEFINE sups == suppliers
           taken == aliases \ {rep}
           joined == [i \in Suppliers |->
                        IF ~sups[i].there THEN sups[i]
                        ELSE IF i \in taken THEN Put(sups[i], rep)
                        ELSE IF sups[i].alias \in taken THEN Led(sups[i], rep) ELSE sups[i]]
           freed == {i \in detached \cap Here(sups) : joined[i].alias = rep}
<1>1. sups[rep].alias = 0 /\ link' = link
  BY DEF Canonical, OnSuppliers
<1>2. suppliers' = [i \in Suppliers |-> IF i \in freed THEN Put(joined[i], 0) ELSE joined[i]]
  BY Zenon DEF Canonical, OnSuppliers, Put, Led
<1>3. sups \in SupplierTable
  BY DEF Good
<1>4. /\ Here(sups) \subseteq Suppliers
      /\ \A i \in Here(sups) : sups[i] \in SupplierRow /\ sups[i].there
      /\ \A i \in Suppliers \ Here(sups) : sups[i] = NotThere /\ ~sups[i].there
  BY <1>3, SuppliersHere DEF NotThere
<1>5. rep \in 0..MaxSuppliers /\ 0 \in 0..MaxSuppliers /\ rep # 0 /\ 0 \notin taken
  BY <1>4, BoundsAreNat DEF Suppliers
<1>6. ASSUME NEW i \in Here(sups)
      PROVE  /\ SameRow(sups[i], joined[i])
             /\ joined[i].alias = IF i \in taken \/ sups[i].alias \in taken THEN rep ELSE sups[i].alias
  <2>1. sups[i] \in SupplierRow /\ sups[i].there /\ i \in Suppliers
    BY <1>4
  <2>2. joined[i] = IF i \in taken THEN Put(sups[i], rep)
                    ELSE IF sups[i].alias \in taken THEN Led(sups[i], rep) ELSE sups[i]
    BY <2>1
  <2>3. SameRow(sups[i], sups[i])
    BY <2>1 DEF SameRow
  <2> HIDE DEF joined, taken
  <2>4. SameRow(sups[i], Put(sups[i], rep)) /\ Put(sups[i], rep).alias = rep
    BY <1>5, <2>1, PutRow
  <2>5. SameRow(sups[i], Led(sups[i], rep)) /\ Led(sups[i], rep).alias = rep
    BY <1>5, <2>1, LedRow
  <2> QED BY <2>2, <2>3, <2>4, <2>5
<1>7. \A i \in Suppliers \ Here(sups) : joined[i] = NotThere
  BY <1>4
<1>8. freed \subseteq Here(sups) /\ \A i \in freed : joined[i].alias = rep
  OBVIOUS
<1> HIDE DEF joined, freed
<1>9. ASSUME NEW i \in Here(sups)
      PROVE  /\ SameRow(sups[i], suppliers'[i])
             /\ suppliers'[i].alias = IF i \in freed THEN 0 ELSE joined[i].alias
  <2>1. suppliers'[i] = IF i \in freed THEN Put(joined[i], 0) ELSE joined[i]
    BY <1>2, <1>4
  <2>2. SameRow(sups[i], joined[i])
    BY <1>6
  <2>3. SameRow(joined[i], Put(joined[i], 0)) /\ Put(joined[i], 0).alias = 0
    BY <1>5, <2>2, PutRow DEF SameRow
  <2> QED BY <2>1, <2>2, <2>3 DEF SameRow
<1>10. \A i \in Suppliers \ Here(sups) : suppliers'[i] = NotThere
  BY <1>2, <1>7, <1>8
<1>11. SameRows(sups, suppliers')
  <2>1. DOMAIN suppliers' = Suppliers
    BY <1>2
  <2> QED BY <1>9, <1>10, <2>1 DEF SameRows
<1>12. suppliers' = [i \in Suppliers |-> suppliers'[i]]
  BY <1>2
<1>13. Here(suppliers') = Here(sups) /\ (Flat(suppliers') => Good(suppliers', link))
  BY <1>11, <1>12, RowsLed
<1>14. joined[rep].alias = 0 /\ rep \notin freed
  BY <1>1, <1>5, <1>6, <1>8
<1>15. ASSUME NEW i \in Here(sups), suppliers'[i].alias # 0
       PROVE  suppliers'[i].alias \in Here(sups) /\ suppliers'[suppliers'[i].alias].alias = 0
  <2>1. i \notin freed /\ suppliers'[i].alias = joined[i].alias
    BY <1>9, <1>15
  <2>2. CASE i \in taken \/ sups[i].alias \in taken
    BY <1>6, <1>9, <1>14, <2>1, <2>2
  <2>3. CASE ~(i \in taken \/ sups[i].alias \in taken)
    <3> DEFINE a == sups[i].alias
    <3>1. joined[i].alias = a /\ a # 0
      BY <1>6, <1>15, <2>1, <2>3
    <3>2. a \in Here(sups) /\ sups[a].alias = 0 /\ a \notin taken
      BY <2>3, <3>1 DEF Good, Flat
    <3> HIDE DEF a, taken
    <3>3. joined[a].alias = 0
      BY <1>5, <1>6, <3>2
    <3>4. suppliers'[a].alias = 0
      BY <1>9, <3>2, <3>3
    <3> QED BY <2>1, <3>1, <3>2, <3>4
  <2> QED BY <2>2, <2>3
<1>16. Flat(suppliers')
  BY <1>13, <1>15 DEF Flat
<1> QED BY <1>1, <1>13, <1>16

\* A supplier staff enter
LEMMA CreateKeeps ==
  ASSUME Good(suppliers, link), NEW n \in Names, NEW kind \in Kinds, NEW v \in 0..MaxColumn,
         CreateSupplier(n, kind, v)
  PROVE  Good(suppliers', link')
<1> DEFINE r == Row(n, kind, v, TRUE, 0, FALSE)
<1>1. /\ NextId(suppliers) <= MaxSuppliers /\ Named(suppliers, n) = {} /\ link' = link
      /\ suppliers' = [suppliers EXCEPT ![NextId(suppliers)] = r]
  BY Zenon DEF CreateSupplier, OnSuppliers
<1>2. r \in SupplierRow /\ r.alias = 0 /\ r.key = 0 /\ r.name = n
  BY BoundsAreNat DEF Row, SupplierRow
<1> HIDE DEF r
<1>3. Good([suppliers EXCEPT ![NextId(suppliers)] = r], link)
  BY <1>1, <1>2, RowAdded
<1> QED BY <1>1, <1>3

\* a row staff typed
Typed(e, n, kind, v) == [e EXCEPT !.name = n, !.kind = kind, !.value = v, !.own = TRUE]

\* Staff type all columns of a supplier
LEMMA TypedRow ==
  ASSUME NEW e \in SupplierRow, NEW n \in Names, NEW kind \in Kinds, NEW v \in 0..MaxColumn
  PROVE  KeepsPlace(e, Typed(e, n, kind, v)) /\ Typed(e, n, kind, v).name = n
<1> DEFINE a == [e EXCEPT !.name = n]
           b == [a EXCEPT !.kind = kind]
           c == [b EXCEPT !.value = v]
           d == [c EXCEPT !.own = TRUE]
<1>1. Typed(e, n, kind, v) = d
  BY DEF Typed, SupplierRow
<1>2. a \in SupplierRow /\ a.name = n /\ a.key = e.key /\ a.alias = e.alias
  BY SupplierColumns DEF SupplierRow
<1> HIDE DEF a
<1>3. b \in SupplierRow /\ b.name = a.name /\ b.key = a.key /\ b.alias = a.alias
  <2>1. b \in SupplierRow
    BY <1>2, SupplierColumns
  <2> QED BY <1>2, <2>1 DEF SupplierRow
<1> HIDE DEF b
<1>4. c \in SupplierRow /\ c.name = b.name /\ c.key = b.key /\ c.alias = b.alias
  <2>1. c \in SupplierRow
    BY <1>3, SupplierColumns
  <2> QED BY <1>3, <2>1 DEF SupplierRow
<1> HIDE DEF c
<1>5. d \in SupplierRow /\ d.name = c.name /\ d.key = c.key /\ d.alias = c.alias
  <2>1. d \in SupplierRow
    BY <1>4, SupplierColumns
  <2> QED BY <1>4, <2>1 DEF SupplierRow
<1> HIDE DEF d
<1> QED BY <1>1, <1>2, <1>3, <1>4, <1>5 DEF KeepsPlace

\* A supplier staff change
LEMMA EditKeeps ==
  ASSUME Good(suppliers, link), NEW i \in Here(suppliers), NEW n \in Names, NEW kind \in Kinds,
         NEW v \in 0..MaxColumn, EditSupplier(i, n, kind, v)
  PROVE  Good(suppliers', link')
<1> DEFINE r == Typed(suppliers[i], n, kind, v)
<1>1. suppliers \in SupplierTable /\ i \in Suppliers /\ suppliers[i] \in SupplierRow
  BY SuppliersHere DEF Good
<1>2. suppliers' = [suppliers EXCEPT ![i] = r] /\ link' = link /\ FreeFor(suppliers, i, n)
  <2>1. [suppliers EXCEPT ![i].name = n, ![i].kind = kind, ![i].value = v, ![i].own = TRUE]
          = [suppliers EXCEPT ![i] = r]
    BY <1>1 DEF Typed, SupplierTable
  <2>2. /\ link' = link /\ FreeFor(suppliers, i, n)
        /\ suppliers' =
             [suppliers EXCEPT ![i].name = n, ![i].kind = kind, ![i].value = v, ![i].own = TRUE]
    BY Zenon DEF EditSupplier, OnSuppliers, FreeFor
  <2> QED BY <2>1, <2>2, Zenon
<1>3. KeepsPlace(suppliers[i], r) /\ r.name = n
  BY <1>1, TypedRow
<1> HIDE DEF r
<1>4. Good([suppliers EXCEPT ![i] = r], link)
  BY <1>2, <1>3, OneRewritten DEF KeepsPlace
<1> QED BY <1>2, <1>4

\* Another identity becomes the primary one
LEMMA ChoosePrimaryKeeps ==
  ASSUME Good(suppliers, link), NEW i \in Here(suppliers), NEW k \in Partners, ChoosePrimary(i, k)
  PROVE  Good(suppliers', link')
<1> DEFINE row == link[k].row
           f == PartnerFollowed(suppliers, i, row, FALSE)
           r == [f EXCEPT !.key = k]
           now == [j \in Partners |-> IF link[j].there /\ link[j].supplier = i
                                      THEN [link[j] EXCEPT !.primary = j = k] ELSE link[j]]
<1>1. /\ link[k].there /\ link[k].supplier = i /\ link' = now
      /\ suppliers' = [suppliers EXCEPT ![i] = r]
  BY Zenon DEF ChoosePrimary, Switched
<1>2. suppliers \in SupplierTable /\ link \in LinkTable /\ i \in Suppliers
  BY SuppliersHere DEF Good
<1>3. /\ k \in Here(link) /\ Here(link) \subseteq Partners
      /\ \A j \in Here(link) : link[j] \in LinkRow /\ link[j].there
      /\ \A j \in Partners \ Here(link) : link[j] = NotThere /\ ~link[j].there
  BY <1>1, <1>2, LinksHere DEF NotThere
<1>4. row \in PartnerRow
  BY <1>3 DEF LinkRow
<1>5. KeepsPlace(suppliers[i], f) /\ f.name = suppliers[i].name
  BY <1>2, <1>4, FollowedRow
<1> HIDE DEF f, row
<1>6. r \in SupplierRow /\ r.key = k /\ r.alias = suppliers[i].alias /\ r.name = suppliers[i].name
  <2>1. f \in SupplierRow /\ f.alias = suppliers[i].alias /\ k \in 0..MaxPartners
    BY <1>5, BoundsAreNat DEF KeepsPlace, Partners
  <2>2. r \in SupplierRow
    BY <2>1, SupplierColumns
  <2>3. r.key = k /\ r.alias = f.alias /\ r.name = f.name
    BY <2>1 DEF SupplierRow
  <2> QED BY <1>5, <2>1, <2>2, <2>3
<1>7. ASSUME NEW j \in Here(link)
      PROVE  /\ now[j] \in LinkRow /\ now[j].supplier = link[j].supplier
             /\ now[j].primary = IF link[j].supplier = i THEN j = k ELSE link[j].primary
  <2> DEFINE l == link[j]
             m == [l EXCEPT !.primary = j = k]
  <2>1. l \in LinkRow /\ now[j] = IF l.supplier = i THEN m ELSE l
    BY <1>3
  <2> HIDE DEF l, now
  <2>2. m \in LinkRow /\ m.supplier = l.supplier /\ m.primary = (j = k)
    BY <2>1 DEF LinkRow
  <2> HIDE DEF m
  <2> QED BY <2>1, <2>2 DEF l
<1>8. \A j \in Partners \ Here(link) : now[j] = NotThere
  BY <1>3
<1>9. DOMAIN now = Partners /\ now = [j \in Partners |-> now[j]]
  OBVIOUS
<1> HIDE DEF now, r
<1>10. now \in LinkTable
  BY <1>3, <1>7, <1>8, <1>9 DEF LinkTable
<1>11. Here(now) = Here(link)
  <2>1. NotThere.there = FALSE /\ \A x \in LinkRow : x.there = TRUE
    BY DEF NotThere, LinkRow
  <2>2. Here(now) = {j \in Partners : now[j].there}
    BY <1>10, LinksHere
  <2> QED BY <1>3, <1>7, <1>8, <2>1, <2>2
<1>12. now[k].supplier = i /\ now[k].primary /\ Here(now) = Here(link) \cup {k}
  BY <1>1, <1>3, <1>7, <1>11
<1>13. \A j \in Here(link) \ {k} : /\ now[j].supplier = link[j].supplier
                                   /\ now[j].primary = (link[j].primary /\ link[j].supplier # i)
  <2>1. \A j \in Here(link) : link[j].primary \in BOOLEAN
    BY <1>3 DEF LinkRow
  <2> QED BY <1>7, <2>1
<1>14. Good([suppliers EXCEPT ![i] = r], now)
  <2>1. link[k].supplier = i
    BY <1>1
  <2> QED BY <1>6, <1>10, <1>12, <1>13, <2>1, PrimaryChosen
<1> QED BY <1>1, <1>14

\* An identity becomes a supplier of its own
LEMMA SplitKeeps ==
  ASSUME Good(suppliers, link), NEW i \in Here(suppliers), NEW k \in Partners, NEW n \in Names,
         Split(i, k, n)
  PROVE  Good(suppliers', link')
<1> DEFINE l == link[k]
           id == NextId(suppliers)
           r == Row(n, l.row.kind, l.row.value, FALSE, k, l.gone)
           a == [l EXCEPT !.supplier = id]
           m == [a EXCEPT !.primary = TRUE]
<1>1. /\ id <= MaxSuppliers /\ Named(suppliers, n) = {} /\ l.there /\ ~l.primary
      /\ suppliers' = [suppliers EXCEPT ![id] = r]
      /\ link' = [link EXCEPT ![k].supplier = id, ![k].primary = TRUE]
  BY Zenon DEF Split
<1>2. link \in LinkTable /\ k \in Here(link) /\ l \in LinkRow
  BY <1>1, LinksHere DEF Good
<1>3. id \in Suppliers
  BY <1>1, PartnersCounted, BoundsAreNat DEF Suppliers
<1>4. link' = [link EXCEPT ![k] = m]
  <2>1. [link EXCEPT ![k].supplier = id, ![k].primary = TRUE] = [link EXCEPT ![k] = m]
    BY <1>2 DEF LinkTable
  <2> QED BY <1>1, <2>1, Zenon
<1>5. r \in SupplierRow /\ r.alias = 0 /\ r.key = k /\ r.name = n
  <2>1. l.row \in PartnerRow /\ l.gone \in BOOLEAN /\ k \in Partners
    BY <1>2, LinksHere DEF LinkRow
  <2>2. l.row.kind \in Kinds /\ l.row.value \in 0..MaxColumn
    BY <2>1 DEF PartnerRow
  <2>3. k \in 0..MaxPartners /\ 0 \in 0..MaxSuppliers
    BY <2>1, BoundsAreNat DEF Partners
  <2> HIDE DEF l
  <2> QED BY <2>1, <2>2, <2>3 DEF Row, SupplierRow
<1> HIDE DEF l, id
<1>6. a \in LinkRow /\ a.supplier = id
  BY <1>2, <1>3 DEF LinkRow
<1> HIDE DEF a
<1>7. m \in LinkRow /\ m.supplier = id /\ m.primary
  BY <1>6 DEF LinkRow
<1> HIDE DEF r, m
<1>8. Good([suppliers EXCEPT ![id] = r], [link EXCEPT ![k] = m])
  BY <1>1, <1>2, <1>5, <1>7, RowAddedWithKey DEF id, l
<1> QED BY <1>1, <1>4, <1>8

(***************************************************************************)
(* Models                                                                  *)
(***************************************************************************)
TmsRow   == [word : ModelNames, value : 0..MaxModelColumn, gone : BOOLEAN]
ModelRow ==
  [there : {TRUE}, word : ModelNames, value : 0..MaxModelColumn, own : BOOLEAN,
   key : 0..MaxModelKeys, gone : BOOLEAN]
ModelTable == [1..MaxModels -> {NotThere} \cup ModelRow]
TmsTyped   == tmsModels \in [ModelKeys -> {NotThere} \cup [there : {TRUE}, row : TmsRow]]

\* a model of TMS is one that TMS knows, and any other one is staff's own; a key is of one model
ModelsGood(ms) ==
  /\ ms \in ModelTable /\ NoGap(ms, MaxModels)
  /\ \A i \in Here(ms) : IF ms[i].key = 0 THEN ms[i].own ELSE tmsModels[ms[i].key].there
  /\ \A i, j \in Here(ms) : ms[i].key # 0 /\ ms[i].key = ms[j].key => i = j

\* the model is as TMS has it
Follows(r, row) == r.gone = row.gone /\ (r.own \/ r.value = row.value)
\* every model follows TMS but those of the keys R
Behind(ms, R) ==
  \A i \in Here(ms) : ms[i].key # 0 /\ ms[i].key \notin R => Follows(ms[i], tmsModels[ms[i].key].row)

\* What a model that is there holds, and one that is not
LEMMA ModelsHere ==
  ASSUME NEW ms \in ModelTable
  PROVE  /\ Here(ms) \subseteq 1..MaxModels
         /\ \A i \in Here(ms) : ms[i] \in ModelRow
         /\ \A i \in 1..MaxModels : i \notin Here(ms) => ms[i] = NotThere
         /\ Here(ms) = {i \in 1..MaxModels : ms[i].there}
<1>1. DOMAIN ms = 1..MaxModels /\ \A i \in 1..MaxModels : ms[i] \in {NotThere} \cup ModelRow
  BY DEF ModelTable
<1>2. NotThere.there = FALSE /\ \A r \in ModelRow : r.there = TRUE
  BY DEF NotThere, ModelRow
<1>3. Here(ms) = {i \in 1..MaxModels : ms[i].there}
  BY <1>1 DEF Here
<1> QED BY <1>1, <1>2, <1>3

\* What a model is in TMS
LEMMA TmsRows ==
  ASSUME TmsTyped, NEW k \in ModelKeys, tmsModels[k].there
  PROVE  tmsModels[k].row \in TmsRow
<1>1. NotThere.there = FALSE
  BY DEF NotThere
<1>2. tmsModels[k] \in {NotThere} \cup [there : {TRUE}, row : TmsRow]
  BY DEF TmsTyped
<1> QED BY <1>1, <1>2

\* model j is r
ModelIs(ms, j, r, new) ==
  /\ new \in ModelTable /\ Here(new) = Here(ms) \cup {j} /\ new[j] = r
  /\ \A i \in Here(ms) \ {j} : new[i] = ms[i]

\* One model is written, the others stay
LEMMA ModelWritten ==
  ASSUME NEW ms \in ModelTable, NEW j \in 1..MaxModels, NEW r \in ModelRow
  PROVE  ModelIs(ms, j, r, [ms EXCEPT ![j] = r])
<1> DEFINE new == [ms EXCEPT ![j] = r]
<1>1. new \in ModelTable /\ new[j] = r /\ \A i \in 1..MaxModels \ {j} : new[i] = ms[i]
  BY DEF ModelTable
<1>2. r.there
  BY DEF ModelRow
<1> HIDE DEF new
<1>3. Here(new) = Here(ms) \cup {j}
  BY <1>1, <1>2, ModelsHere
<1>4. \A i \in Here(ms) \ {j} : new[i] = ms[i]
  BY <1>1, ModelsHere
<1> QED BY <1>1, <1>3, <1>4 DEF new, ModelIs

\* nobody else has the key of r, and r is staff's own or one that TMS knows
FitsAt(ms, j, r) ==
  /\ IF r.key = 0 THEN r.own ELSE tmsModels[r.key].there
  /\ \A i \in Here(ms) \ {j} : r.key # 0 => ms[i].key # r.key

\* A model is changed
LEMMA ModelChanged ==
  ASSUME NEW ms, ModelsGood(ms), NEW j \in Here(ms), NEW r \in ModelRow, FitsAt(ms, j, r)
  PROVE  /\ ModelsGood([ms EXCEPT ![j] = r])
         /\ ModelIs(ms, j, r, [ms EXCEPT ![j] = r])
         /\ Here([ms EXCEPT ![j] = r]) = Here(ms)
<1> DEFINE new == [ms EXCEPT ![j] = r]
<1>1. ms \in ModelTable /\ j \in 1..MaxModels
  BY ModelsHere DEF ModelsGood
<1>2. ModelIs(ms, j, r, new)
  BY <1>1, ModelWritten
<1> HIDE DEF new
<1>3. /\ Here(new) = Here(ms) /\ new \in ModelTable /\ new[j] = r
      /\ \A i \in Here(ms) \ {j} : new[i] = ms[i]
  BY <1>2 DEF ModelIs
<1>4. NoGap(new, MaxModels)
  BY <1>3 DEF ModelsGood, NoGap
<1>5. \A i \in Here(new) : IF new[i].key = 0 THEN new[i].own ELSE tmsModels[new[i].key].there
  BY <1>3 DEF ModelsGood, FitsAt
<1>6. \A i, h \in Here(new) : new[i].key # 0 /\ new[i].key = new[h].key => i = h
  BY <1>3 DEF ModelsGood, FitsAt
<1>7. ModelsGood(new)
  BY <1>3, <1>4, <1>5, <1>6 DEF ModelsGood
<1> QED BY <1>2, <1>3, <1>7 DEF new

\* A model comes
LEMMA ModelAdded ==
  ASSUME NEW ms, ModelsGood(ms), NextId(ms) <= MaxModels, NEW r \in ModelRow,
         FitsAt(ms, NextId(ms), r)
  PROVE  /\ ModelsGood([ms EXCEPT ![NextId(ms)] = r])
         /\ ModelIs(ms, NextId(ms), r, [ms EXCEPT ![NextId(ms)] = r])
         /\ Cardinality(Here([ms EXCEPT ![NextId(ms)] = r])) = Cardinality(Here(ms)) + 1
<1> DEFINE j == NextId(ms)
           new == [ms EXCEPT ![j] = r]
<1>1. ms \in ModelTable /\ DOMAIN ms = 1..MaxModels /\ MaxModels \in Nat
  BY BoundsAreNat DEF ModelsGood, ModelTable
<1>2. /\ j \in Nat \ {0} /\ j = Cardinality(Here(ms)) + 1 /\ j \notin Here(ms)
      /\ Here(ms) = 1..(j - 1)
  BY <1>1, NextIsFree DEF ModelsGood
<1>3. j \in 1..MaxModels /\ j \in 0..MaxModels
  BY <1>1, <1>2
<1>4. ModelIs(ms, j, r, new)
  BY <1>1, <1>3, ModelWritten
<1> HIDE DEF new
<1>5. /\ Here(new) = Here(ms) \cup {j} /\ new \in ModelTable /\ new[j] = r
      /\ \A i \in Here(ms) : new[i] = ms[i]
  BY <1>2, <1>4 DEF ModelIs
<1>6. FitsAt(ms, j, r)
  OBVIOUS
<1>7. /\ \A i \in Here(ms) : IF ms[i].key = 0 THEN ms[i].own ELSE tmsModels[ms[i].key].there
      /\ \A i, h \in Here(ms) : ms[i].key # 0 /\ ms[i].key = ms[h].key => i = h
  BY DEF ModelsGood
<1> HIDE DEF j
<1>8. Here(new) = 1..j /\ Cardinality(1..j) = j
  <2>1. 1..(j - 1) \cup {j} = 1..j
    BY <1>2, OneMoreNumber
  <2>2. Here(new) = 1..j
    BY <1>2, <1>5, <2>1, Zenon
  <2>3. Cardinality(1..j) = j
    BY <1>2, FS_Interval
  <2> QED BY <2>2, <2>3
<1>9. NoGap(new, MaxModels)
  BY <1>3, <1>8 DEF NoGap
<1>10. \A i \in Here(new) : IF new[i].key = 0 THEN new[i].own ELSE tmsModels[new[i].key].there
  BY <1>5, <1>6, <1>7 DEF FitsAt
<1>11. \A i, h \in Here(new) : new[i].key # 0 /\ new[i].key = new[h].key => i = h
  BY <1>2, <1>5, <1>6, <1>7 DEF FitsAt
<1>12. ModelsGood(new) /\ Cardinality(Here(new)) = Cardinality(Here(ms)) + 1
  BY <1>2, <1>5, <1>8, <1>9, <1>10, <1>11 DEF ModelsGood
<1> QED BY <1>4, <1>12 DEF new, j

\* the keys models have here
KeysOf(ms) == {ms[i].key : i \in Here(ms)}
\* there is a row left for every model that comes
ModelRoom(ms, due) == Cardinality(Here(ms)) + Cardinality(due \ KeysOf(ms)) <= MaxModels
\* the tables of models a synchronisation may go through
ModelBooks(due) == {ms \in ModelTable : ModelsGood(ms) /\ ModelRoom(ms, due)}

\* The next row of models is the first free one
LEMMA ModelsCounted ==
  ASSUME NEW ms, ModelsGood(ms)
  PROVE  /\ Cardinality(Here(ms)) \in Nat /\ NextId(ms) = Cardinality(Here(ms)) + 1
         /\ NextId(ms) \notin Here(ms) /\ NextId(ms) # 0
<1>1. DOMAIN ms = 1..MaxModels
  BY DEF ModelsGood, ModelTable
<1> QED BY <1>1, BoundsAreNat, NextIsFree DEF ModelsGood

\* The models due are finitely many
LEMMA DueIsFinite ==
  ASSUME NEW due \in SUBSET ModelKeys, NEW T
  PROVE  IsFiniteSet(due \ T) /\ Cardinality(due \ T) \in Nat
<1>1. IsFiniteSet(ModelKeys)
  BY BoundsAreNat, FS_Interval DEF ModelKeys
<1>2. due \ T \subseteq ModelKeys
  OBVIOUS
<1> QED BY <1>1, <1>2, FS_Subset, FS_CardinalityType

\* As long as no key is lost the room stays
LEMMA ModelRoomStays ==
  ASSUME NEW due \in SUBSET ModelKeys, NEW ms, ModelsGood(ms), ModelRoom(ms, due), NEW new,
         Here(new) = Here(ms), KeysOf(ms) \ {0} \subseteq KeysOf(new)
  PROVE  ModelRoom(new, due)
<1> DEFINE u == due \ KeysOf(ms)
           w == due \ KeysOf(new)
           c == Cardinality(Here(ms))
<1>1. IsFiniteSet(u) /\ Cardinality(u) \in Nat /\ Cardinality(w) \in Nat
  BY DueIsFinite
<1>2. 0 \notin ModelKeys
  BY DEF ModelKeys
<1>3. w \subseteq u
  BY <1>2
<1>4. c + Cardinality(u) <= MaxModels /\ c \in Nat
  BY ModelsCounted DEF ModelRoom
<1>5. ModelRoom(new, due) <=> c + Cardinality(w) <= MaxModels
  BY DEF ModelRoom
<1> HIDE DEF u, w, c
<1>6. Cardinality(w) <= Cardinality(u)
  BY <1>1, <1>3, FS_Subset
<1> QED BY <1>1, <1>4, <1>5, <1>6, BoundsAreNat

\* There is a row for a model that is due and not held yet
LEMMA ModelRoomIsKept ==
  ASSUME NEW due \in SUBSET ModelKeys, NEW ms, ModelsGood(ms), ModelRoom(ms, due),
         NEW k \in due \ KeysOf(ms)
  PROVE  NextId(ms) <= MaxModels
<1> DEFINE u == due \ KeysOf(ms)
           c == Cardinality(Here(ms))
<1>1. IsFiniteSet(u) /\ Cardinality(u) \in Nat /\ Cardinality(u) # 0
  BY DueIsFinite, FS_EmptySet
<1>2. c + Cardinality(u) <= MaxModels /\ c \in Nat /\ NextId(ms) = c + 1
  BY ModelsCounted DEF ModelRoom
<1> HIDE DEF u, c
<1> QED BY <1>1, <1>2, BoundsAreNat

\* A model that is added uses up the room that was kept for its key
LEMMA ModelRoomUsed ==
  ASSUME NEW due \in SUBSET ModelKeys, NEW ms, ModelsGood(ms), ModelRoom(ms, due),
         NEW k \in due \ KeysOf(ms), NEW new,
         Cardinality(Here(new)) = Cardinality(Here(ms)) + 1,
         KeysOf(new) = KeysOf(ms) \cup {k}
  PROVE  ModelRoom(new, due)
<1> DEFINE u == due \ KeysOf(ms)
           c == Cardinality(Here(ms))
<1>1. IsFiniteSet(u) /\ Cardinality(u) \in Nat /\ Cardinality(u \ {k}) = Cardinality(u) - 1
  BY DueIsFinite, FS_RemoveElement
<1>2. c + Cardinality(u) <= MaxModels /\ c \in Nat /\ Cardinality(Here(new)) = c + 1
  BY ModelsCounted DEF ModelRoom
<1>3. due \ KeysOf(new) = u \ {k}
  OBVIOUS
<1> HIDE DEF u, c
<1>4. (c + 1) + (Cardinality(u) - 1) <= MaxModels
  BY <1>1, <1>2, BoundsAreNat
<1> QED BY <1>1, <1>2, <1>3, <1>4 DEF ModelRoom

\* One column of a model is changed
LEMMA ModelColumns ==
  ASSUME NEW e \in ModelRow
  PROVE  /\ \A b \in BOOLEAN : [e EXCEPT !.gone = b] \in ModelRow
         /\ \A b \in BOOLEAN : [e EXCEPT !.own = b] \in ModelRow
         /\ \A v \in 0..MaxModelColumn : [e EXCEPT !.value = v] \in ModelRow
         /\ \A w \in ModelNames : [e EXCEPT !.word = w] \in ModelRow
         /\ \A k \in 0..MaxModelKeys : [e EXCEPT !.key = k] \in ModelRow
BY DEF ModelRow

\* a model of which TMS has its say
SaysGone(e, g)       == [e EXCEPT !.gone = g]
SaysAll(e, g, v, w)  == [e EXCEPT !.gone = g, !.value = v, !.word = w]
Attached(e, k, g, v) == [e EXCEPT !.key = k, !.gone = g, !.value = v]

\* TMS says whether a model is gone
LEMMA SaysGoneRow ==
  ASSUME NEW e \in ModelRow, NEW g \in BOOLEAN
  PROVE  /\ SaysGone(e, g) \in ModelRow /\ SaysGone(e, g).gone = g
         /\ SaysGone(e, g).key = e.key /\ SaysGone(e, g).own = e.own
         /\ SaysGone(e, g).value = e.value
<1>1. SaysGone(e, g) \in ModelRow
  BY ModelColumns DEF SaysGone
<1> QED BY <1>1 DEF SaysGone, ModelRow

\* TMS says all it knows of a model
LEMMA SaysAllRow ==
  ASSUME NEW e \in ModelRow, NEW g \in BOOLEAN, NEW v \in 0..MaxModelColumn, NEW w \in ModelNames
  PROVE  /\ SaysAll(e, g, v, w) \in ModelRow /\ SaysAll(e, g, v, w).gone = g
         /\ SaysAll(e, g, v, w).key = e.key /\ SaysAll(e, g, v, w).own = e.own
         /\ SaysAll(e, g, v, w).value = v
<1> DEFINE a == SaysGone(e, g)
           b == [a EXCEPT !.value = v]
           c == [b EXCEPT !.word = w]
<1>1. SaysAll(e, g, v, w) = c
  BY DEF SaysAll, SaysGone, ModelRow
<1>2. a \in ModelRow /\ a.gone = g /\ a.key = e.key /\ a.own = e.own
  BY SaysGoneRow
<1> HIDE DEF a
<1>3. b \in ModelRow /\ b.gone = a.gone /\ b.key = a.key /\ b.own = a.own /\ b.value = v
  <2>1. b \in ModelRow
    BY <1>2, ModelColumns
  <2> QED BY <1>2, <2>1 DEF ModelRow
<1> HIDE DEF b
<1>4. c \in ModelRow /\ c.gone = b.gone /\ c.key = b.key /\ c.own = b.own /\ c.value = b.value
  <2>1. c \in ModelRow
    BY <1>3, ModelColumns
  <2> QED BY <1>3, <2>1 DEF ModelRow
<1> HIDE DEF c
<1> QED BY <1>1, <1>2, <1>3, <1>4

\* A model gets a key of TMS
LEMMA AttachedRow ==
  ASSUME NEW e \in ModelRow, NEW k \in 0..MaxModelKeys, NEW g \in BOOLEAN, NEW v \in 0..MaxModelColumn
  PROVE  /\ Attached(e, k, g, v) \in ModelRow /\ Attached(e, k, g, v).gone = g
         /\ Attached(e, k, g, v).key = k /\ Attached(e, k, g, v).own = e.own
<1> DEFINE a == [e EXCEPT !.key = k]
           b == [a EXCEPT !.gone = g]
           c == [b EXCEPT !.value = v]
<1>1. Attached(e, k, g, v) = c
  BY DEF Attached, ModelRow
<1>2. a \in ModelRow /\ a.key = k /\ a.own = e.own
  BY ModelColumns DEF ModelRow
<1> HIDE DEF a
<1>3. b \in ModelRow /\ b.gone = g /\ b.key = a.key /\ b.own = a.own
  <2>1. b \in ModelRow
    BY <1>2, ModelColumns
  <2> QED BY <1>2, <2>1 DEF ModelRow
<1> HIDE DEF b
<1>4. c \in ModelRow /\ c.gone = b.gone /\ c.key = b.key /\ c.own = b.own
  <2>1. c \in ModelRow
    BY <1>3, ModelColumns
  <2> QED BY <1>3, <2>1 DEF ModelRow
<1> HIDE DEF c
<1> QED BY <1>1, <1>2, <1>3, <1>4

\* What TMS says of a model it knows
LEMMA FollowedModel ==
  ASSUME NEW ms \in ModelTable, NEW i \in Here(ms), NEW row \in TmsRow
  PROVE  /\ ModelFollowed(ms, i, row) \in ModelRow /\ ModelFollowed(ms, i, row).key = ms[i].key
         /\ ModelFollowed(ms, i, row).own = ms[i].own /\ Follows(ModelFollowed(ms, i, row), row)
<1> DEFINE e == ms[i]
           w == IF Holder(ms, row.word) \subseteq {i} THEN row.word ELSE e.word
<1>1. e \in ModelRow
  BY ModelsHere
<1>2. row.gone \in BOOLEAN /\ row.value \in 0..MaxModelColumn /\ row.word \in ModelNames
  BY DEF TmsRow
<1>3. w \in ModelNames
  BY <1>1, <1>2 DEF ModelRow
<1>4. ModelFollowed(ms, i, row) =
        IF e.own THEN SaysGone(e, row.gone) ELSE SaysAll(e, row.gone, row.value, w)
  BY Zenon DEF ModelFollowed, SaysGone, SaysAll
<1> HIDE DEF e, w
<1>5. CASE e.own
  <2>1. /\ SaysGone(e, row.gone) \in ModelRow /\ SaysGone(e, row.gone).gone = row.gone
        /\ SaysGone(e, row.gone).key = e.key /\ SaysGone(e, row.gone).own = e.own
    BY <1>1, <1>2, SaysGoneRow
  <2> QED BY <1>4, <1>5, <2>1 DEF e, Follows
<1>6. CASE ~e.own
  <2> DEFINE r == SaysAll(e, row.gone, row.value, w)
  <2>1. /\ r \in ModelRow /\ r.gone = row.gone /\ r.key = e.key /\ r.own = e.own
        /\ r.value = row.value
    BY <1>1, <1>2, <1>3, SaysAllRow
  <2>2. ModelFollowed(ms, i, row) = r
    BY <1>4, <1>6
  <2> HIDE DEF r
  <2> QED BY <2>1, <2>2 DEF e, Follows
<1> QED BY <1>5, <1>6

\* No model is behind for a key that none holds
LEMMA NotHeldIsNotBehind ==
  ASSUME NEW ms, NEW k, k \notin KeysOf(ms), NEW R, Behind(ms, R)
  PROVE  Behind(ms, R \ {k})
BY DEF Behind, KeysOf

\* A model that follows its row of TMS is not behind any more
LEMMA TakenIsNotBehind ==
  ASSUME NEW ms, NEW k, NEW j, NEW r, NEW new, ModelIs(ms, j, r, new), r.key = k,
         Follows(r, tmsModels[k].row), \A i \in Here(ms) \ {j} : ms[i].key # k,
         NEW R, Behind(ms, R)
  PROVE  Behind(new, R \ {k})
<1>1. ASSUME NEW i \in Here(new), new[i].key # 0, new[i].key \notin R \ {k}
      PROVE  Follows(new[i], tmsModels[new[i].key].row)
  <2>1. CASE i = j
    BY <2>1 DEF ModelIs
  <2>2. CASE i # j
    <3>1. i \in Here(ms) /\ new[i] = ms[i] /\ ms[i].key # k
      BY <2>2 DEF ModelIs
    <3> QED BY <1>1, <3>1 DEF Behind
  <2> QED BY <2>1, <2>2
<1> QED BY <1>1 DEF Behind

\* what one row of TMS does to the table of models
Catches(ms, due, k, new) ==
  new \in ModelBooks(due) /\ \A R : Behind(ms, R) => Behind(new, R \ {k})

\* A row of TMS that nothing is made of leaves no model behind
LEMMA SkippedCatches ==
  ASSUME NEW due, NEW ms \in ModelBooks(due), NEW k, k \notin KeysOf(ms)
  PROVE  Catches(ms, due, k, ms)
<1>1. \A R : Behind(ms, R) => Behind(ms, R \ {k})
  BY NotHeldIsNotBehind
<1> QED BY <1>1 DEF Catches

\* A model that is there follows its row of TMS, with the key it had or none before
LEMMA ChangedCatches ==
  ASSUME NEW due \in SUBSET ModelKeys, NEW ms \in ModelBooks(due), NEW k \in due,
         NEW j \in Here(ms), NEW r \in ModelRow, r.key = k, ms[j].key \in {0, k},
         tmsModels[k].there, Follows(r, tmsModels[k].row), \A i \in Here(ms) \ {j} : ms[i].key # k
  PROVE  Catches(ms, due, k, [ms EXCEPT ![j] = r])
<1> DEFINE new == [ms EXCEPT ![j] = r]
<1>1. ModelsGood(ms) /\ ModelRoom(ms, due) /\ k # 0
  BY DEF ModelBooks, ModelKeys
<1>2. FitsAt(ms, j, r)
  BY <1>1 DEF FitsAt
<1>3. ModelsGood(new) /\ ModelIs(ms, j, r, new) /\ Here(new) = Here(ms)
  BY <1>1, <1>2, ModelChanged
<1> HIDE DEF new
<1>4. KeysOf(ms) \ {0} \subseteq KeysOf(new)
  <2>1. ASSUME NEW i \in Here(ms), ms[i].key # 0 PROVE ms[i].key = new[i].key
    BY <1>3, <2>1 DEF ModelIs
  <2> QED BY <1>3, <2>1 DEF KeysOf
<1>5. ModelRoom(new, due)
  BY <1>1, <1>3, <1>4, ModelRoomStays
<1>6. \A R : Behind(ms, R) => Behind(new, R \ {k})
  <2>1. ASSUME NEW R, Behind(ms, R) PROVE Behind(new, R \ {k})
    BY <1>3, <2>1, TakenIsNotBehind
  <2> QED BY <2>1
<1>7. Catches(ms, due, k, new)
  BY <1>3, <1>5, <1>6 DEF Catches, ModelBooks, ModelsGood
<1> QED BY <1>7 DEF new

\* A model that TMS has and nobody here
LEMMA NewCatches ==
  ASSUME NEW due \in SUBSET ModelKeys, NEW ms \in ModelBooks(due), NEW k \in due,
         k \notin KeysOf(ms), NEW r \in ModelRow, r.key = k,
         tmsModels[k].there, Follows(r, tmsModels[k].row)
  PROVE  Catches(ms, due, k, [ms EXCEPT ![NextId(ms)] = r])
<1> DEFINE j == NextId(ms)
           new == [ms EXCEPT ![j] = r]
<1>1. ModelsGood(ms) /\ ModelRoom(ms, due) /\ k # 0
  BY DEF ModelBooks, ModelKeys
<1>2. j <= MaxModels /\ j \notin Here(ms)
  BY <1>1, ModelRoomIsKept, ModelsCounted
<1>3. FitsAt(ms, j, r) /\ \A i \in Here(ms) \ {j} : ms[i].key # k
  BY <1>1 DEF FitsAt, KeysOf
<1>4. /\ ModelsGood(new) /\ ModelIs(ms, j, r, new)
      /\ Cardinality(Here(new)) = Cardinality(Here(ms)) + 1
  BY <1>1, <1>2, <1>3, ModelAdded
<1> HIDE DEF new, j
<1>5. KeysOf(new) = KeysOf(ms) \cup {k}
  <2>1. /\ Here(new) = Here(ms) \cup {j} /\ new[j].key = k
        /\ \A i \in Here(ms) : new[i] = ms[i]
    BY <1>2, <1>4 DEF ModelIs
  <2> QED BY <2>1 DEF KeysOf
<1>6. ModelRoom(new, due)
  BY <1>1, <1>4, <1>5, ModelRoomUsed
<1>7. \A R : Behind(ms, R) => Behind(new, R \ {k})
  <2>1. ASSUME NEW R, Behind(ms, R) PROVE Behind(new, R \ {k})
    BY <1>3, <1>4, <2>1, TakenIsNotBehind
  <2> QED BY <2>1
<1>8. Catches(ms, due, k, new)
  BY <1>4, <1>6, <1>7 DEF Catches, ModelBooks, ModelsGood
<1> QED BY <1>8 DEF new, j

\* Every row of TMS is followed by the model of its key, whichever way it is found
LEMMA ModelTakenKeeps ==
  ASSUME TmsTyped, NEW due \in SUBSET ModelKeys, NEW ms \in ModelBooks(due), NEW k \in due
  PROVE  Catches(ms, due, k, ModelTaken(ms, k))
<1> DEFINE row == tmsModels[k].row
           mine == {i \in Here(ms) : ms[i].key = k}
           like == Holder(ms, row.word)
           j == CHOOSE i \in mine \cup like : mine = {} \/ i \in mine
           f == ModelFollowed(ms, j, row)
           n == [there |-> TRUE, word |-> row.word, value |-> row.value, own |-> FALSE, key |-> k,
                 gone |-> row.gone]
           v == IF ms[j].value = 0 THEN row.value ELSE ms[j].value
           a == Attached(ms[j], k, row.gone, v)
<1>1. ModelsGood(ms) /\ ms \in ModelTable /\ k \in ModelKeys
  BY DEF ModelBooks
<1>2. mine = {} => k \notin KeysOf(ms)
  BY DEF KeysOf
<1>3. like \subseteq Here(ms)
  BY DEF Holder
<1>4. mine # {} => j \in mine
  BY Zenon
<1>5. mine = {} /\ like # {} => j \in like
  BY Zenon
<1> HIDE DEF j
<1>6. ms \in ModelTable => \A i \in Here(ms) :
        [ms EXCEPT ![i].key = k, ![i].gone = row.gone,
                   ![i].value = IF @ = 0 THEN row.value ELSE @]
          = [ms EXCEPT ![i] = Attached(ms[i], k, row.gone,
                                       IF ms[i].value = 0 THEN row.value ELSE ms[i].value)]
  <2>1. ASSUME NEW i \in Here(ms)
        PROVE  [ms EXCEPT ![i].key = k, ![i].gone = row.gone,
                          ![i].value = IF @ = 0 THEN row.value ELSE @]
                 = [ms EXCEPT ![i] = Attached(ms[i], k, row.gone,
                                              IF ms[i].value = 0 THEN row.value ELSE ms[i].value)]
    <3>1. i \in DOMAIN ms /\ ms[i] \in ModelRow
      BY <1>1, ModelsHere DEF ModelTable
    <3> QED BY <1>1, <3>1 DEF Attached, ModelTable, ModelRow
  <2> QED BY <2>1
<1>7. CASE ~tmsModels[k].there
  <2>1. k \notin KeysOf(ms)
    <3>1. k # 0
      BY DEF ModelKeys
    <3> QED BY <1>1, <1>7, <3>1 DEF KeysOf, ModelsGood
  <2>2. ModelTaken(ms, k) = ms
    BY <1>7, Zenon DEF ModelTaken
  <2> QED BY <2>1, <2>2, SkippedCatches
<1>8. CASE tmsModels[k].there
  <2>1. row \in TmsRow
    BY <1>1, <1>8, TmsRows
  <2>2. CASE mine # {}
    <3>1. j \in Here(ms) /\ ms[j].key = k
      BY <1>4, <2>2
    <3>2. \A i \in Here(ms) \ {j} : ms[i].key # k
      <4>1. k # 0
        BY DEF ModelKeys
      <4> QED BY <1>1, <3>1, <4>1 DEF ModelsGood
    <3>3. f \in ModelRow /\ f.key = k /\ Follows(f, row)
      BY <1>1, <2>1, <3>1, FollowedModel
    <3>4. ModelTaken(ms, k) = [ms EXCEPT ![j] = f]
      BY <1>8, <2>2, Zenon DEF ModelTaken, j
    <3> HIDE DEF f, mine, like
    <3>5. Catches(ms, due, k, [ms EXCEPT ![j] = f])
      BY <1>8, <3>1, <3>2, <3>3, ChangedCatches
    <3> QED BY <3>4, <3>5, Zenon
  <2>3. CASE mine = {} /\ like = {}
    <3>1. n \in ModelRow /\ n.key = k /\ Follows(n, row)
      <4>1. k \in 0..MaxModelKeys
        BY <1>1, BoundsAreNat DEF ModelKeys
      <4> QED BY <2>1, <4>1 DEF ModelRow, TmsRow, Follows
    <3>2. ModelTaken(ms, k) = [ms EXCEPT ![NextId(ms)] = n]
      BY <1>8, <2>3, Zenon DEF ModelTaken
    <3> HIDE DEF n, mine, like
    <3>3. Catches(ms, due, k, [ms EXCEPT ![NextId(ms)] = n])
      BY <1>2, <1>8, <2>3, <3>1, NewCatches
    <3> QED BY <3>2, <3>3, Zenon
  <2>4. CASE mine = {} /\ like # {} /\ ms[j].key # 0
    <3>1. ModelTaken(ms, k) = ms
      BY <1>8, <2>4, Zenon DEF ModelTaken, j
    <3> QED BY <1>2, <2>4, <3>1, SkippedCatches
  <2>5. CASE mine = {} /\ like # {} /\ ms[j].key = 0
    <3>1. j \in Here(ms) /\ ms[j].own /\ ms[j] \in ModelRow
      BY <1>1, <1>3, <1>5, <2>5, ModelsHere DEF ModelsGood
    <3>2. \A i \in Here(ms) \ {j} : ms[i].key # k
      BY <2>5
    <3>3. v \in 0..MaxModelColumn /\ row.gone \in BOOLEAN /\ k \in 0..MaxModelKeys
      <4>1. ms[j].value \in 0..MaxModelColumn
        BY <3>1 DEF ModelRow
      <4>2. row.value \in 0..MaxModelColumn /\ row.gone \in BOOLEAN
        BY <2>1 DEF TmsRow
      <4>3. k \in 0..MaxModelKeys
        BY <1>1, BoundsAreNat DEF ModelKeys
      <4> QED BY <4>1, <4>2, <4>3
    <3>4. ModelTaken(ms, k) = [ms EXCEPT ![j] = a]
      <4>1. ModelTaken(ms, k) =
              [ms EXCEPT ![j].key = k, ![j].gone = row.gone,
                         ![j].value = IF @ = 0 THEN row.value ELSE @]
        BY <1>8, <2>5, Zenon DEF ModelTaken, j
      <4> QED BY <1>1, <1>6, <3>1, <4>1, Zenon
    <3> HIDE DEF v, mine, like
    <3>5. a \in ModelRow /\ a.key = k /\ a.gone = row.gone /\ a.own
      BY <3>1, <3>3, AttachedRow
    <3>6. Follows(a, row)
      BY <3>5 DEF Follows
    <3> HIDE DEF a
    <3>7. Catches(ms, due, k, [ms EXCEPT ![j] = a])
      BY <1>8, <2>5, <3>1, <3>2, <3>5, <3>6, ChangedCatches
    <3> QED BY <3>4, <3>7, Zenon
  <2> QED BY <2>2, <2>3, <2>4, <2>5
<1> QED BY <1>7, <1>8

\* it is the fold of the rows that are due over the models ms
DueFold(it, due, ms, N) ==
  it = [s \in SUBSET (1..N) |->
          IF s = {} THEN ms
          ELSE IF Max(s) \in due THEN ModelTaken(it[s \ {Max(s)}], Max(s)) ELSE it[s \ {Max(s)}]]

AllTaken(ms, due) ==
  FoldLeft(LAMBDA b, k : IF k \in due THEN ModelTaken(b, k) ELSE b,
           ms, [k \in 1..MaxModelKeys |-> k])

\* The rows that are due are taken in one by one, and when the last is in no model is behind
LEMMA DueAreTaken ==
  ASSUME TmsTyped, NEW due \in SUBSET ModelKeys, NEW ms \in ModelBooks(due), Behind(ms, due)
  PROVE  AllTaken(ms, due) \in ModelBooks(due) /\ Behind(AllTaken(ms, due), {})
<1> DEFINE N == MaxModelKeys
           V == ModelBooks(due)
           step == [p \in (1..N) \X V |-> IF p[1] \in due THEN ModelTaken(p[2], p[1]) ELSE p[2]]
<1>1. N \in Nat /\ IsFiniteSet(1..N) /\ due \subseteq 1..N
  BY BoundsAreNat, FS_Interval DEF ModelKeys
<1>2. \A n \in due, v \in V : Catches(v, due, n, ModelTaken(v, n)) /\ ModelTaken(v, n) \in V
  <2>1. ASSUME NEW n \in due, NEW v \in V PROVE Catches(v, due, n, ModelTaken(v, n))
    BY ModelTakenKeeps
  <2> QED BY <2>1 DEF Catches
<1> HIDE DEF N, V
<1>3. \A n \in 1..N, v \in V : /\ step[<<n, v>>] = IF n \in due THEN ModelTaken(v, n) ELSE v
                               /\ step[<<n, v>>] \in V
  BY <1>2
<1> HIDE DEF step
<1>4. PICK it \in [SUBSET (1..N) -> V] : IsRun(it, N, ms, step)
  <2>1. Within(step, 1..N, V)
    BY <1>3 DEF Within
  <2>2. ms \in V
    BY DEF V
  <2> QED BY <1>1, <2>1, <2>2, RunExists
<1>5. \A s \in SUBSET (1..N) : s # {} => Max(s) \in s /\ Max(s) \in 1..N
  <2>1. ASSUME NEW s \in SUBSET (1..N), s # {} PROVE Max(s) \in s
    <3>1. s \in SUBSET (0..N)
      BY <1>1
    <3> QED BY <1>1, <2>1, <3>1, MaxIsLargest
  <2> QED BY <2>1
<1>6. DueFold(it, due, ms, N)
  <2>1. ASSUME NEW s \in SUBSET (1..N)
        PROVE  it[s] = IF s = {} THEN ms
                       ELSE IF Max(s) \in due THEN ModelTaken(it[s \ {Max(s)}], Max(s))
                       ELSE it[s \ {Max(s)}]
    <3>1. CASE s = {}
      BY <1>4, <3>1 DEF IsRun
    <3>2. CASE s # {}
      <4>1. it[s \ {Max(s)}] \in V
        BY <1>4
      <4>2. it[s] = step[<<Max(s), it[s \ {Max(s)}]>>]
        BY <1>4, <3>2 DEF IsRun
      <4> QED BY <1>3, <1>5, <3>2, <4>1, <4>2
    <3> QED BY <3>1, <3>2
  <2>2. it = [s \in SUBSET (1..N) |-> it[s]]
    BY <1>4
  <2>3. it = [s \in SUBSET (1..N) |->
                IF s = {} THEN ms
                ELSE IF Max(s) \in due THEN ModelTaken(it[s \ {Max(s)}], Max(s))
                ELSE it[s \ {Max(s)}]]
    BY <2>1, <2>2
  <2> QED BY <2>3, Zenon DEF DueFold
<1> DEFINE jt == CHOOSE kt : DueFold(kt, due, ms, N)
<1>7. DueFold(jt, due, ms, N)
  BY <1>6, Zenon
<1>8. AllTaken(ms, due) = jt[1..N]
  <2> DEFINE list == [k \in 1..MaxModelKeys |-> k]
  <2>1. DOMAIN list = 1..N
    BY DEF N
  <2>2. AllTaken(ms, due) =
          (CHOOSE kt : kt = [s \in SUBSET (DOMAIN list) |->
             IF s = {} THEN ms
             ELSE IF list[Max(s)] \in due THEN ModelTaken(kt[s \ {Max(s)}], list[Max(s)])
             ELSE kt[s \ {Max(s)}]])[DOMAIN list]
    BY Zenon DEF AllTaken, FoldLeft, MapThenFoldSet
  <2>3. \A kt : [s \in SUBSET (DOMAIN list) |->
                   IF s = {} THEN ms
                   ELSE IF list[Max(s)] \in due THEN ModelTaken(kt[s \ {Max(s)}], list[Max(s)])
                   ELSE kt[s \ {Max(s)}]]
              = [s \in SUBSET (1..N) |->
                   IF s = {} THEN ms
                   ELSE IF Max(s) \in due THEN ModelTaken(kt[s \ {Max(s)}], Max(s))
                   ELSE kt[s \ {Max(s)}]]
    <3>1. \A s \in SUBSET (1..N) : s # {} => list[Max(s)] = Max(s)
      BY <1>5 DEF N
    <3> HIDE DEF list
    <3> QED BY <2>1, <3>1
  <2> HIDE DEF list
  <2>4. jt = CHOOSE kt : kt = [s \in SUBSET (DOMAIN list) |->
               IF s = {} THEN ms
               ELSE IF list[Max(s)] \in due THEN ModelTaken(kt[s \ {Max(s)}], list[Max(s)])
               ELSE kt[s \ {Max(s)}]]
    BY <2>3, Zenon DEF DueFold
  <2> HIDE DEF jt
  <2> QED BY <2>1, <2>2, <2>4, Zenon
<1> HIDE DEF jt
<1>9. \A s \in SUBSET (1..N) :
        jt[s] = IF s = {} THEN ms
                ELSE IF Max(s) \in due THEN ModelTaken(jt[s \ {Max(s)}], Max(s))
                ELSE jt[s \ {Max(s)}]
  BY <1>7, Zenon DEF DueFold
\* whatever was taken in, only the others are behind
<1> DEFINE G == {s \in SUBSET (1..N) : jt[s] \in V /\ Behind(jt[s], due \ s)}
<1>10. {} \in G
  <2>1. jt[{}] = ms /\ due \ {} = due
    BY <1>9
  <2> QED BY <2>1 DEF V
<1>11. ASSUME NEW s \in SUBSET (1..N), s # {}, \A x \in s : s \ {x} \in G
       PROVE  s \in G
  <2> DEFINE m == Max(s)
             b == jt[s \ {m}]
  <2>1. m \in s
    BY <1>5, <1>11
  <2>2. b \in V /\ Behind(b, due \ (s \ {m}))
    BY <1>11, <2>1
  <2>3. jt[s] = IF m \in due THEN ModelTaken(b, m) ELSE b
    BY <1>9, <1>11, Zenon
  <2> HIDE DEF m, b
  <2>4. (due \ (s \ {m})) \ {m} = due \ s /\ (m \notin due => due \ (s \ {m}) = due \ s)
    BY <2>1
  <2>5. CASE m \in due
    <3>1. Catches(b, due, m, ModelTaken(b, m)) /\ ModelTaken(b, m) \in V
      BY <1>2, <2>2, <2>5
    <3>2. Behind(ModelTaken(b, m), (due \ (s \ {m})) \ {m})
      BY <2>2, <3>1, Zenon DEF Catches
    <3>3. jt[s] \in V /\ Behind(jt[s], due \ s)
      BY <2>3, <2>4, <2>5, <3>1, <3>2
    <3> QED BY <3>3
  <2>6. CASE m \notin due
    <3>1. jt[s] \in V /\ Behind(jt[s], due \ s)
      BY <2>2, <2>3, <2>4, <2>6
    <3> QED BY <3>1
  <2> QED BY <2>5, <2>6
<1> HIDE DEF G
<1>12. SUBSET (1..N) \subseteq G
  BY <1>1, <1>10, <1>11, SetBySet
<1>13. jt[1..N] \in V /\ Behind(jt[1..N], due \ (1..N))
  BY <1>12 DEF G
<1>14. due \ (1..N) = {}
  BY <1>1
<1> QED BY <1>8, <1>13, <1>14 DEF V

\* what every step keeps of the models
ModelInv ==
  /\ TmsTyped /\ fresh \subseteq ModelKeys
  /\ ModelsGood(models) /\ Behind(models, fresh)

\* A model staff enter
LEMMA CreateModelKeeps ==
  ASSUME ModelInv, NEW w \in ModelNames, NEW v \in 0..MaxModelColumn, CreateModel(w, v)
  PROVE  ModelsGood(models') /\ Behind(models', fresh)
<1> DEFINE r == [there |-> TRUE, word |-> w, value |-> v, own |-> TRUE, key |-> 0, gone |-> FALSE]
           new == [models EXCEPT ![NextId(models)] = r]
<1>1. NextId(models) <= MaxModels /\ models' = new
  BY Zenon DEF CreateModel, OnModels
<1>2. r \in ModelRow /\ r.key = 0 /\ r.own
  BY BoundsAreNat DEF ModelRow
<1>3. ModelsGood(models)
  BY DEF ModelInv
<1> HIDE DEF r
<1>4. FitsAt(models, NextId(models), r)
  BY <1>2 DEF FitsAt
<1>5. ModelsGood(new) /\ ModelIs(models, NextId(models), r, new)
  BY <1>1, <1>2, <1>3, <1>4, ModelAdded
<1> HIDE DEF new
<1>6. Behind(new, fresh)
  BY <1>2, <1>5 DEF ModelIs, ModelInv, Behind
<1> QED BY <1>1, <1>5, <1>6

\* what staff typed of a model
TypedModel(e, w, v) == [e EXCEPT !.word = w, !.value = v, !.own = TRUE]

\* Staff type the columns of a model
LEMMA TypedModelRow ==
  ASSUME NEW e \in ModelRow, NEW w \in ModelNames, NEW v \in 0..MaxModelColumn
  PROVE  /\ TypedModel(e, w, v) \in ModelRow /\ TypedModel(e, w, v).key = e.key
         /\ TypedModel(e, w, v).gone = e.gone /\ TypedModel(e, w, v).own
<1> DEFINE a == [e EXCEPT !.word = w]
           b == [a EXCEPT !.value = v]
           c == [b EXCEPT !.own = TRUE]
<1>1. TypedModel(e, w, v) = c
  BY DEF TypedModel, ModelRow
<1>2. a \in ModelRow /\ a.key = e.key /\ a.gone = e.gone
  BY ModelColumns DEF ModelRow
<1> HIDE DEF a
<1>3. b \in ModelRow /\ b.key = a.key /\ b.gone = a.gone
  <2>1. b \in ModelRow
    BY <1>2, ModelColumns
  <2> QED BY <1>2, <2>1 DEF ModelRow
<1> HIDE DEF b
<1>4. c \in ModelRow /\ c.key = b.key /\ c.gone = b.gone /\ c.own
  <2>1. c \in ModelRow
    BY <1>3, ModelColumns
  <2> QED BY <1>3, <2>1 DEF ModelRow
<1> HIDE DEF c
<1> QED BY <1>1, <1>2, <1>3, <1>4

\* A model staff change is theirs from then on
LEMMA UpdateModelKeeps ==
  ASSUME ModelInv, NEW i \in 1..MaxModels, NEW w \in ModelNames, NEW v \in 0..MaxModelColumn,
         UpdateModel(i, w, v)
  PROVE  ModelsGood(models') /\ Behind(models', fresh)
<1> DEFINE r == TypedModel(models[i], w, v)
           new == [models EXCEPT ![i] = r]
<1>1. ModelsGood(models) /\ models \in ModelTable
  BY DEF ModelInv, ModelsGood
<1>2. i \in Here(models) /\ models[i] \in ModelRow
  BY <1>1, ModelsHere DEF UpdateModel
<1>3. models' = new
  <2>1. [models EXCEPT ![i].word = w, ![i].value = v, ![i].own = TRUE] = new
    BY <1>1 DEF ModelTable, TypedModel
  <2>2. models' = [models EXCEPT ![i].word = w, ![i].value = v, ![i].own = TRUE]
    BY Zenon DEF UpdateModel, OnModels
  <2> QED BY <2>1, <2>2, Zenon
<1>4. r \in ModelRow /\ r.key = models[i].key /\ r.gone = models[i].gone /\ r.own
  BY <1>2, TypedModelRow
<1> HIDE DEF r
<1>5. FitsAt(models, i, r)
  BY <1>1, <1>2, <1>4 DEF FitsAt, ModelsGood
<1>6. ModelsGood(new) /\ ModelIs(models, i, r, new)
  BY <1>1, <1>2, <1>4, <1>5, ModelChanged
<1> HIDE DEF new
<1>7. ASSUME NEW j \in Here(new), new[j].key # 0, new[j].key \notin fresh
      PROVE  Follows(new[j], tmsModels[new[j].key].row)
  <2>1. CASE j = i
    <3>1. new[j] = r
      BY <1>6, <2>1 DEF ModelIs
    <3>2. Follows(models[i], tmsModels[models[i].key].row)
      BY <1>2, <1>4, <1>7, <3>1 DEF ModelInv, Behind
    <3> QED BY <1>4, <3>1, <3>2 DEF Follows
  <2>2. CASE j # i
    <3>1. j \in Here(models) /\ new[j] = models[j]
      BY <1>6, <2>2 DEF ModelIs
    <3> QED BY <1>7, <3>1 DEF ModelInv, Behind
  <2> QED BY <2>1, <2>2
<1>8. Behind(new, fresh)
  BY <1>7 DEF Behind
<1> QED BY <1>3, <1>6, <1>8

\* After a synchronisation no model is behind TMS
LEMMA SyncModelsKeeps ==
  ASSUME ModelInv, NEW full \in BOOLEAN, SyncModels(full)
  PROVE  ModelsGood(models') /\ Behind(models', {}) /\ fresh' = {}
<1> DEFINE due == {k \in ModelKeys : full \/ k \in fresh}
<1>1. /\ Cardinality(Here(models)) + Cardinality(due) <= MaxModels /\ fresh' = {}
      /\ models' = AllTaken(models, due)
  BY Zenon DEF SyncModels, AllTaken
<1>2. ModelsGood(models) /\ TmsTyped /\ fresh \subseteq due /\ Behind(models, fresh)
  BY DEF ModelInv
<1>3. due \in SUBSET ModelKeys
  OBVIOUS
<1> HIDE DEF due
<1>4. Behind(models, due)
  BY <1>2 DEF Behind
<1>5. ModelRoom(models, due)
  <2> DEFINE u == due \ KeysOf(models)
  <2>1. IsFiniteSet(due) /\ Cardinality(due) \in Nat
    <3>1. due \ {} = due
      OBVIOUS
    <3> QED BY <1>3, <3>1, DueIsFinite
  <2>2. Cardinality(u) \in Nat /\ u \subseteq due
    BY <1>3, DueIsFinite
  <2>3. ModelRoom(models, due) <=> Cardinality(Here(models)) + Cardinality(u) <= MaxModels
    BY DEF ModelRoom
  <2> HIDE DEF u
  <2>4. Cardinality(u) <= Cardinality(due)
    BY <2>1, <2>2, FS_Subset
  <2>5. Cardinality(Here(models)) \in Nat
    BY <1>2, ModelsCounted
  <2> QED BY <1>1, <2>1, <2>2, <2>3, <2>4, <2>5, BoundsAreNat
<1>6. models \in ModelBooks(due)
  BY <1>2, <1>5 DEF ModelBooks, ModelsGood
<1>7. AllTaken(models, due) \in ModelBooks(due) /\ Behind(AllTaken(models, due), {})
  BY <1>2, <1>3, <1>4, <1>6, DueAreTaken
<1> QED BY <1>1, <1>7 DEF ModelBooks

\* A change in TMS leaves its model behind
LEMMA ModelChangesKeeps ==
  ASSUME ModelInv, NEW k \in ModelKeys, NEW row \in TmsRow, ModelChanges(k, row)
  PROVE  ModelInv'
<1>1. /\ tmsModels' = [tmsModels EXCEPT ![k] = [there |-> TRUE, row |-> row]]
      /\ fresh' = fresh \cup {k} /\ models' = models
  BY Zenon DEF ModelChanges
<1>2. TmsTyped'
  <2>1. [there |-> TRUE, row |-> row] \in [there : {TRUE}, row : TmsRow]
    OBVIOUS
  <2> DEFINE r == [there |-> TRUE, row |-> row]
             T == [there : {TRUE}, row : TmsRow]
  <2>2. tmsModels' = [tmsModels EXCEPT ![k] = r] /\ r \in T
    BY <1>1
  <2>3. tmsModels \in [ModelKeys -> {NotThere} \cup T] /\ (TmsTyped' <=> tmsModels' \in [ModelKeys -> {NotThere} \cup T])
    BY DEF ModelInv, TmsTyped
  <2> HIDE DEF r, T
  <2> QED BY <2>2, <2>3
<1>3. models \in ModelTable
  BY DEF ModelInv, ModelsGood
<1>4. DOMAIN tmsModels = ModelKeys
  BY DEF ModelInv, TmsTyped
<1>5. \A h \in ModelKeys : /\ h # k => tmsModels'[h] = tmsModels[h]
                           /\ tmsModels[h].there => tmsModels'[h].there
  BY <1>1, <1>4
<1>6. \A i \in Here(models) : models[i].key # 0 => models[i].key \in ModelKeys
  <2>1. \A i \in Here(models) : models[i].key \in 0..MaxModelKeys
    BY <1>3, ModelsHere DEF ModelRow
  <2> QED BY <2>1, BoundsAreNat DEF ModelKeys
<1>7. ModelsGood(models)'
  <2>1. \A i \in Here(models) :
          IF models[i].key = 0 THEN models[i].own ELSE tmsModels'[models[i].key].there
    BY <1>5, <1>6 DEF ModelInv, ModelsGood
  <2> QED BY <1>1, <2>1 DEF ModelInv, ModelsGood
<1>8. Behind(models, fresh)'
  <2>1. ASSUME NEW i \in Here(models), models[i].key # 0, models[i].key \notin fresh \cup {k}
        PROVE  Follows(models[i], tmsModels'[models[i].key].row)
    BY <1>5, <1>6, <2>1 DEF ModelInv, Behind
  <2> QED BY <1>1, <2>1 DEF Behind
<1>9. (fresh \subseteq ModelKeys)'
  BY <1>1 DEF ModelInv
<1> QED BY <1>2, <1>7, <1>8, <1>9 DEF ModelInv

(***************************************************************************)
(* The masters as a whole                                                  *)
(***************************************************************************)
MastersInv == PartnersTyped /\ Good(suppliers, link) /\ ModelInv

\* Nobody is in the masters at first
LEMMA MastersInitially == MastersInit => MastersInv
<1> SUFFICES ASSUME MastersInit PROVE MastersInv
  OBVIOUS
<1>1. NotThere.there = FALSE
  BY DEF NotThere
<1>2. /\ suppliers = [i \in Suppliers |-> NotThere] /\ link = [k \in Partners |-> NotThere]
      /\ models = [i \in 1..MaxModels |-> NotThere] /\ fresh = {}
      /\ partners = [k \in Partners |-> NotThere] /\ tmsModels = [k \in ModelKeys |-> NotThere]
  BY DEF MastersInit
<1>3. suppliers \in SupplierTable /\ link \in LinkTable /\ models \in ModelTable
  BY <1>2 DEF SupplierTable, LinkTable, ModelTable
<1>4. PartnersTyped /\ TmsTyped
  BY <1>2 DEF PartnersTyped, TmsTyped
<1>5. Here(suppliers) = {} /\ Here(link) = {} /\ Here(models) = {}
  BY <1>1, <1>2 DEF Here
<1>6. NoGap(suppliers, MaxSuppliers) /\ NoGap(models, MaxModels)
  <2>1. 1..0 = {}
    OBVIOUS
  <2> QED BY <1>5, <2>1, BoundsAreNat DEF NoGap
<1>7. Good(suppliers, link)
  BY <1>3, <1>5, <1>6 DEF Good, NamesOnce, Flat, Owned
<1>8. ModelInv
  BY <1>2, <1>3, <1>4, <1>5, <1>6 DEF ModelInv, ModelsGood, Behind
<1> QED BY <1>4, <1>7, <1>8 DEF MastersInv

\* What happens to suppliers leaves the models alone
LEMMA ModelsAside ==
  ASSUME ModelInv, UNCHANGED <<tmsModels, fresh, models>>
  PROVE  ModelInv'
BY DEF ModelInv, TmsTyped, ModelsGood, Behind

\* and the other way round
LEMMA PartnersAside ==
  ASSUME PartnersTyped, UNCHANGED partners
  PROVE  PartnersTyped'
BY DEF PartnersTyped

\* No step disturbs the agreement of the masters
LEMMA MastersStep == MastersInv /\ [MastersNext]_mastersVars => MastersInv'
<1> SUFFICES ASSUME MastersInv, [MastersNext]_mastersVars PROVE MastersInv'
  OBVIOUS
<1>1. PartnersTyped /\ Good(suppliers, link) /\ ModelInv
  BY DEF MastersInv
<1>2. Good(suppliers, link)' <=> Good(suppliers', link')
  BY DEF Good, Owned, NamesOnce, Flat
<1>3. ASSUME Good(suppliers', link'), UNCHANGED <<partners, tmsModels, fresh, models>>
      PROVE  MastersInv'
  BY <1>1, <1>2, <1>3, ModelsAside, PartnersAside DEF MastersInv
<1>4. ASSUME ModelInv', UNCHANGED <<partners, suppliers, link>>
      PROVE  MastersInv'
  BY <1>1, <1>2, <1>4, PartnersAside DEF MastersInv
<1>5. CASE RowStep
  <2>1. ASSUME NEW n \in Names, NEW kind \in Kinds, NEW v \in 0..MaxColumn, CreateSupplier(n, kind, v)
        PROVE  MastersInv'
    <3>1. UNCHANGED <<partners, tmsModels, fresh, models>>
      BY <2>1 DEF CreateSupplier, OnSuppliers
    <3> QED BY <1>1, <1>3, <2>1, <3>1, CreateKeeps
  <2>2. ASSUME NEW i \in Here(suppliers), NEW n \in Names, NEW kind \in Kinds, NEW v \in 0..MaxColumn,
               EditSupplier(i, n, kind, v)
        PROVE  MastersInv'
    <3>1. UNCHANGED <<partners, tmsModels, fresh, models>>
      BY <2>2 DEF EditSupplier, OnSuppliers
    <3> QED BY <1>1, <1>3, <2>2, <3>1, EditKeeps
  <2>3. CASE SyncPartners
    <3>1. UNCHANGED <<partners, tmsModels, fresh, models>>
      BY <2>3, Zenon DEF SyncPartners
    <3> QED BY <1>1, <1>3, <2>3, <3>1, SyncKeeps
  <2> QED BY <1>5, <2>1, <2>2, <2>3 DEF RowStep
<1>6. CASE AliasStep
  <2>1. ASSUME NEW i \in Here(suppliers), NEW rep \in Suppliers, SetAlias(i, rep)
        PROVE  MastersInv'
    <3>1. UNCHANGED <<partners, tmsModels, fresh, models>>
      BY <2>1 DEF SetAlias, OnSuppliers
    <3> QED BY <1>1, <1>3, <2>1, <3>1, SetAliasKeeps
  <2>2. ASSUME NEW i \in Here(suppliers), ClearAlias(i)
        PROVE  MastersInv'
    <3>1. UNCHANGED <<partners, tmsModels, fresh, models>>
      BY <2>2 DEF ClearAlias, OnSuppliers
    <3> QED BY <1>1, <1>3, <2>2, <3>1, ClearAliasKeeps
  <2>3. ASSUME NEW i \in Here(suppliers), NEW aliases \in SUBSET Here(suppliers),
               NEW detached \in SUBSET Here(suppliers), Canonical(i, aliases, detached)
        PROVE  MastersInv'
    <3>1. UNCHANGED <<partners, tmsModels, fresh, models>>
      BY <2>3, Zenon DEF Canonical, OnSuppliers
    <3> QED BY <1>1, <1>3, <2>3, <3>1, CanonicalKeeps
  <2> QED BY <1>6, <2>1, <2>2, <2>3 DEF AliasStep
<1>7. CASE IdentityStep
  <2>1. ASSUME NEW i \in Here(suppliers), NEW k \in Partners, ChoosePrimary(i, k)
        PROVE  MastersInv'
    <3>1. UNCHANGED <<partners, tmsModels, fresh, models>>
      BY <2>1 DEF ChoosePrimary
    <3> QED BY <1>1, <1>3, <2>1, <3>1, ChoosePrimaryKeeps
  <2>2. ASSUME NEW i \in Here(suppliers), NEW k \in Partners, NEW n \in Names, Split(i, k, n)
        PROVE  MastersInv'
    <3>1. UNCHANGED <<partners, tmsModels, fresh, models>>
      BY <2>2 DEF Split
    <3> QED BY <1>1, <1>3, <2>2, <3>1, SplitKeeps
  <2> QED BY <1>7, <2>1, <2>2 DEF IdentityStep
<1>8. CASE ModelStep
  <2>1. ASSUME ModelsGood(models'), Behind(models', fresh), UNCHANGED <<tmsModels, fresh>>
        PROVE  ModelInv'
    BY <1>1, <2>1 DEF ModelInv, TmsTyped, ModelsGood, Behind
  <2>2. ASSUME NEW w \in ModelNames, NEW v \in 0..MaxModelColumn, CreateModel(w, v)
        PROVE  MastersInv'
    <3>1. UNCHANGED <<partners, suppliers, link, tmsModels, fresh>>
      BY <2>2 DEF CreateModel, OnModels
    <3> QED BY <1>1, <1>4, <2>1, <2>2, <3>1, CreateModelKeeps
  <2>3. ASSUME NEW i \in 1..MaxModels, NEW w \in ModelNames, NEW v \in 0..MaxModelColumn,
               UpdateModel(i, w, v)
        PROVE  MastersInv'
    <3>1. UNCHANGED <<partners, suppliers, link, tmsModels, fresh>>
      BY <2>3 DEF UpdateModel, OnModels
    <3> QED BY <1>1, <1>4, <2>1, <2>3, <3>1, UpdateModelKeeps
  <2>4. ASSUME NEW full \in BOOLEAN, SyncModels(full)
        PROVE  MastersInv'
    <3>1. UNCHANGED <<partners, suppliers, link, tmsModels>>
      BY <2>4, Zenon DEF SyncModels
    <3>2. ModelsGood(models') /\ Behind(models', {}) /\ fresh' = {}
      BY <1>1, <2>4, SyncModelsKeeps
    <3>3. ModelInv'
      BY <1>1, <3>1, <3>2 DEF ModelInv, TmsTyped, ModelsGood, Behind
    <3> QED BY <1>4, <3>1, <3>3
  <2>5. ASSUME NEW k \in ModelKeys,
               NEW row \in [word : ModelNames, value : 0..MaxModelColumn, gone : BOOLEAN],
               ModelChanges(k, row)
        PROVE  MastersInv'
    <3>1. UNCHANGED <<partners, suppliers, link>>
      BY <2>5 DEF ModelChanges
    <3>2. row \in TmsRow
      BY DEF TmsRow
    <3> QED BY <1>1, <1>4, <2>5, <3>1, <3>2, ModelChangesKeeps
  <2> QED BY <1>8, <2>2, <2>3, <2>4, <2>5 DEF ModelStep
<1>9. CASE \E k \in Partners : PartnerStep(k)
  <2>1. PICK k \in Partners, there \in BOOLEAN, row \in PartnerRow : PartnerChanges(k, there, row)
    BY <1>9 DEF PartnerStep, PartnerRow
  <2> DEFINE p == IF there THEN [there |-> TRUE, row |-> row] ELSE NotThere
             T == [there : {TRUE}, row : PartnerRow]
  <2>2. partners' = [partners EXCEPT ![k] = p] /\ UNCHANGED <<suppliers, link, tmsModels, fresh, models>>
    BY <2>1, Zenon DEF PartnerChanges
  <2>3. p \in {NotThere} \cup T
    OBVIOUS
  <2>4. partners \in [Partners -> {NotThere} \cup T]
    BY <1>1 DEF PartnersTyped
  <2>5. PartnersTyped' <=> partners' \in [Partners -> {NotThere} \cup T]
    BY DEF PartnersTyped
  <2> HIDE DEF p, T
  <2>6. PartnersTyped'
    BY <2>2, <2>3, <2>4, <2>5
  <2>7. Good(suppliers', link')
    BY <1>1, <2>2
  <2> QED BY <1>1, <1>2, <2>2, <2>6, <2>7, ModelsAside DEF MastersInv
<1>10. CASE UNCHANGED mastersVars
  <2>1. UNCHANGED <<partners, suppliers, link, tmsModels, fresh, models>>
    BY <1>10 DEF mastersVars
  <2>2. Good(suppliers', link')
    BY <1>1, <2>1
  <2> QED BY <1>3, <2>1, <2>2
<1> QED BY <1>5, <1>6, <1>7, <1>8, <1>9, <1>10 DEF MastersNext

\* Whatever name is looked up, the supplier it leads to is no alias
LEMMA ResolvedIsHead ==
  ASSUME Good(suppliers, link), NEW n, Resolved(n) # 0
  PROVE  suppliers[Resolved(n)].alias = 0
<1> DEFINE hits  == {i \in Here(suppliers) : Norm(suppliers[i].name) = Norm(n)}
           heads == {i \in hits : suppliers[i].alias = 0}
           best  == IF heads # {} THEN heads ELSE hits
           known == {k \in Here(link) : ~link[k].gone /\ Norm(link[k].row.name) = Norm(n)}
           chief == {k \in known : link[k].primary}
           ks    == IF chief # {} THEN chief ELSE known
           rep(i) == IF suppliers[i].alias # 0 THEN suppliers[i].alias ELSE i
           b == CHOOSE i \in best : \A j \in best : i <= j
           c == CHOOSE k \in ks : \A j \in ks : k <= j
<1>1. /\ best # {} => Resolved(n) = rep(b)
      /\ best = {} /\ known # {} => Resolved(n) = rep(link[c].supplier)
      /\ best = {} /\ known = {} => Resolved(n) = 0
  BY DEF Resolved
<1>2. \A i \in Here(suppliers) : suppliers[rep(i)].alias = 0
  BY DEF Good, Flat
<1>3. best \subseteq Here(suppliers) /\ ks \subseteq Here(link)
  OBVIOUS
<1>4. Here(suppliers) \subseteq Nat /\ Here(link) \subseteq Nat
  BY SuppliersHere, LinksHere DEF Good, Suppliers, Partners
<1>5. known # {} => ks # {}
  OBVIOUS
<1> HIDE DEF best, ks, known
<1>6. best # {} => b \in best
  <2>1. best # {} => \E i \in best : \A j \in best : i <= j
    BY <1>3, <1>4, SmallestOfSome
  <2> QED BY <2>1
<1>7. ks # {} => c \in ks
  <2>1. ks # {} => \E k \in ks : \A j \in ks : k <= j
    BY <1>3, <1>4, SmallestOfSome
  <2> QED BY <2>1
<1>8. ks # {} => link[c].supplier \in Here(suppliers)
  BY <1>3, <1>7 DEF Good, Owned
<1> HIDE DEF b, c, rep
<1> QED BY <1>1, <1>2, <1>3, <1>5, <1>6, <1>8

\* What every step keeps is what the masters promise
LEMMA MastersPromise == MastersInv => MastersAgree /\ MastersOK
<1> SUFFICES ASSUME MastersInv PROVE MastersAgree /\ MastersOK
  OBVIOUS
<1>1. Good(suppliers, link) /\ ModelInv
  BY DEF MastersInv
<1>2. suppliers \in SupplierTable /\ link \in LinkTable /\ models \in ModelTable
  BY <1>1 DEF Good, ModelInv, ModelsGood
<1>3. /\ Here(suppliers) = {i \in Suppliers : suppliers[i].there}
      /\ \A i \in Here(suppliers) : suppliers[i] \in SupplierRow
  BY <1>2, SuppliersHere
<1>4. /\ Here(link) = {k \in Partners : link[k].there}
      /\ \A k \in Here(link) : link[k] \in LinkRow
  BY <1>2, LinksHere
<1>5. /\ Here(models) = {i \in 1..MaxModels : models[i].there}
      /\ \A i \in Here(models) : models[i] \in ModelRow
  BY <1>2, ModelsHere
<1>6. IdentitiesAgree
  BY <1>1, <1>4 DEF Good, Owned, IdentitiesAgree
<1>7. AliasesAreFlat
  <2>1. \A i \in Here(suppliers) :
          LET rep == suppliers[i].alias IN rep # 0 => suppliers[rep].there /\ suppliers[rep].alias = 0
    BY <1>1, <1>3 DEF Good, Flat
  <2>2. \A n \in Names : Resolved(n) # 0 => suppliers[Resolved(n)].alias = 0
    BY <1>1, ResolvedIsHead
  <2> QED BY <2>1, <2>2 DEF AliasesAreFlat
<1>8. ModelsAreCurrent
  BY <1>1 DEF ModelInv, Behind, Follows, ModelsAreCurrent
<1>9. MastersOK
  <2>1. \A i \in Suppliers : suppliers[i].there =>
          /\ suppliers[i].name \in Names /\ suppliers[i].kind \in Kinds
          /\ suppliers[i].key \in 0..MaxPartners /\ suppliers[i].alias \in 0..MaxSuppliers
          /\ suppliers[i].value \in 0..MaxColumn
    BY <1>3 DEF SupplierRow
  <2>2. \A k \in Partners : link[k].there => link[k].supplier \in Suppliers
    BY <1>4 DEF LinkRow
  <2>3. \A i, j \in Suppliers :
          suppliers[i].there /\ suppliers[j].there /\ suppliers[i].name = suppliers[j].name => i = j
    BY <1>1, <1>3 DEF Good, NamesOnce
  <2>4. \A i \in 1..MaxModels : models[i].there =>
          models[i].word \in ModelNames /\ models[i].key \in 0..MaxModelKeys
    BY <1>5 DEF ModelRow
  <2> QED BY <1>1, <2>1, <2>2, <2>3, <2>4 DEF MastersOK, ModelInv
<1> QED BY <1>6, <1>7, <1>8, <1>9 DEF MastersAgree

\* The masters here and in TMS never fall apart, for any number of suppliers, identities and
\* models, whatever staff choose, split and merge and TMS adds, renames and drops in between
THEOREM MastersAlwaysAgree == MastersSpec => []MastersAgree
<1>1. MastersInit => MastersInv
  BY MastersInitially
<1>2. MastersInv /\ [MastersNext]_mastersVars => MastersInv'
  BY MastersStep
<1>3. MastersInv => MastersAgree
  BY MastersPromise
<1> QED BY <1>1, <1>2, <1>3, PTL DEF MastersSpec

\* What the tables of the masters hold: no name is there twice
THEOREM MastersRowsAreSane == MastersSpec => []MastersOK
<1>1. MastersInit => MastersInv
  BY MastersInitially
<1>2. MastersInv /\ [MastersNext]_mastersVars => MastersInv'
  BY MastersStep
<1>3. MastersInv => MastersOK
  BY MastersPromise
<1> QED BY <1>1, <1>2, <1>3, PTL DEF MastersSpec

=============================================================================
