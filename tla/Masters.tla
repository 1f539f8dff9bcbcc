------------------------------ MODULE Masters -------------------------------
(***************************************************************************)
(* The masters of suppliers and models, app/purchase/masters.py: rows that *)
(* staff keep and rows that follow the old system (TMS).  TMS may know     *)
(* several partners of one name: a supplier then has several identities    *)
(* (supplier_tms_links), one of them the primary one.  Spellings of one    *)
(* supplier are aliases of a representative.  One value stands for the     *)
(* columns that are filled or followed.                                    *)
(***************************************************************************)
EXTENDS Naturals, FiniteSets, SequencesExt

CONSTANTS
  Words, Spellings,   \* a name is a word in a spelling: norm_key tells words apart only
  Kinds,              \* KINDS
  ModelNames,         \* names of models, as norm_key sees them
  MaxColumn,          \* values of a supplier's columns; 0 stands for blank ones
  MaxModelColumn,     \* values of a model's columns
  MaxSuppliers,       \* bound: rows of suppliers
  MaxModels,          \* bound: rows of models
  MaxPartners,        \* bound: partners TMS knows, their key IDs
  MaxModelKeys        \* bound: models TMS knows, their key IDs

ASSUME MastersBounds ==
  {MaxColumn, MaxModelColumn, MaxSuppliers, MaxModels, MaxPartners, MaxModelKeys} \subseteq Nat

VARIABLES
  partners,   \* TMS's partners by key ID
  suppliers,  \* suppliers
  link,       \* supplier_tms_links by key ID
  tmsModels,  \* HB_MST모델 by key ID
  fresh,      \* the models that changed behind masters_cursor
  models      \* models

mastersVars == <<partners, suppliers, link, tmsModels, fresh, models>>

Names     == Words \X Spellings
Norm(n)   == n[1]
NotThere  == [there |-> FALSE]
Suppliers == 1..MaxSuppliers
Partners  == 1..MaxPartners
ModelKeys == 1..MaxModelKeys

MastersOK ==
  /\ \A i \in Suppliers : suppliers[i].there =>
       /\ suppliers[i].name \in Names /\ suppliers[i].kind \in Kinds
       /\ suppliers[i].key \in 0..MaxPartners /\ suppliers[i].alias \in 0..MaxSuppliers
       /\ suppliers[i].value \in 0..MaxColumn
  /\ \A k \in Partners : link[k].there => link[k].supplier \in Suppliers
  /\ \A i, j \in Suppliers :
       suppliers[i].there /\ suppliers[j].there /\ suppliers[i].name = suppliers[j].name => i = j
  /\ fresh \subseteq ModelKeys
  /\ \A i \in 1..MaxModels : models[i].there =>
       models[i].word \in ModelNames /\ models[i].key \in 0..MaxModelKeys

Here(t)   == {i \in DOMAIN t : t[i].there}
NextId(t) == Cardinality(Here(t)) + 1
NamedUnaliased(sups, n) ==                                             \* mutant
  {i \in Here(sups) : sups[i].name = n /\ sups[i].alias = 0}
Named(sups, n) == {i \in Here(sups) : sups[i].name = n}
-----------------------------------------------------------------------------
(***************************************************************************)
(* Suppliers, by staff                                                     *)
(***************************************************************************)
\* another supplier of this kind whose name differs in its spelling only
Twin(i, n, kind) ==
  \E j \in Here(suppliers) \ {i} :
    Norm(suppliers[j].name) = Norm(n) /\ suppliers[j].kind = kind /\ suppliers[j].alias = 0

Row(n, kind, value, own, key, gone) ==
  [there |-> TRUE, name |-> n, kind |-> kind, value |-> value, own |-> own, key |-> key,
   gone |-> gone, alias |-> 0]

OnSuppliers(sups) ==
  /\ suppliers' = sups
  /\ UNCHANGED <<partners, link, tmsModels, fresh, models>>

CreateSupplier(n, kind, v) ==
  /\ NextId(suppliers) <= MaxSuppliers
  /\ Named(suppliers, n) = {} /\ ~Twin(0, n, kind)
  /\ OnSuppliers([suppliers EXCEPT ![NextId(suppliers)] = Row(n, kind, v, TRUE, 0, FALSE)])

\* the aliases of a follow it to b
FollowersOf(sups, a, b) ==
  [i \in Suppliers |-> IF sups[i].there /\ sups[i].alias = a THEN [sups[i] EXCEPT !.alias = b]
                                                             ELSE sups[i]]

EditSupplier(i, n, kind, v) ==
  /\ Named(suppliers, n) \subseteq {i}
  /\ n # suppliers[i].name \/ kind # suppliers[i].kind => ~Twin(i, n, kind)
  /\ <<n, kind, v>> # <<suppliers[i].name, suppliers[i].kind, suppliers[i].value>>
  /\ OnSuppliers([suppliers EXCEPT ![i].name = n, ![i].kind = kind, ![i].value = v, ![i].own = TRUE])

\* update_supplier: the aliases of the row go with it
Aliased(i, rep) ==
  FollowersOf([suppliers EXCEPT ![i].alias = rep, ![i].own = TRUE], i, rep)

SetAlias(i, rep) ==
  /\ rep # i /\ suppliers[rep].there /\ suppliers[rep].alias = 0 /\ suppliers[i].alias # rep
  /\ OnSuppliers(Aliased(i, rep))
ClearAlias(i) ==
  /\ suppliers[i].alias # 0
  /\ OnSuppliers([suppliers EXCEPT ![i].alias = 0, ![i].own = TRUE])

\* supplier_canonical: every row named becomes an alias, then others are detached
Canonical(rep, aliases, detached) ==
  /\ suppliers[rep].alias = 0
  /\ LET taken == aliases \ {rep}
         joined == [i \in Suppliers |->
                      IF ~suppliers[i].there THEN suppliers[i]
                      ELSE IF i \in taken THEN [suppliers[i] EXCEPT !.alias = rep, !.own = TRUE]
                      ELSE IF suppliers[i].alias \in taken THEN [suppliers[i] EXCEPT !.alias = rep]
                      ELSE suppliers[i]]
         freed  == {i \in detached \cap Here(suppliers) : joined[i].alias = rep}
     IN /\ taken \subseteq Here(suppliers) /\ taken \cup freed # {}
        /\ OnSuppliers([i \in Suppliers |->
             IF i \in freed THEN [joined[i] EXCEPT !.alias = 0, !.own = TRUE] ELSE joined[i]])

\* resolve_supplier_name: the row of that word, a representative before an alias, the older one
\* first; else the supplier one of whose identities has it; of an alias, its representative
Resolved(n) ==
  LET hits  == {i \in Here(suppliers) : Norm(suppliers[i].name) = Norm(n)}
      heads == {i \in hits : suppliers[i].alias = 0}
      best  == IF heads # {} THEN heads ELSE hits
      known == {k \in Here(link) : ~link[k].gone /\ Norm(link[k].row.name) = Norm(n)}
      chief == {k \in known : link[k].primary}
      rep(i) == IF suppliers[i].alias # 0 THEN suppliers[i].alias ELSE i
  IN CASE best # {}  -> rep(CHOOSE i \in best : \A j \in best : i <= j)
       [] best = {} /\ known # {} ->
            LET ks == IF chief # {} THEN chief ELSE known
            IN rep(link[CHOOSE k \in ks : \A j \in ks : k <= j].supplier)
       [] OTHER -> 0
-----------------------------------------------------------------------------
(***************************************************************************)
(* Identities in TMS                                                       *)
(***************************************************************************)
\* _apply_partner_to_supplier: what staff keep is only filled, the rest follows; a name is taken
\* over unless another supplier has it
PartnerFollowed(sups, i, row, renames) ==
  IF sups[i].own
  THEN [sups[i] EXCEPT !.value = IF @ = 0 THEN row.value ELSE @, !.gone = FALSE]
  ELSE [sups[i] EXCEPT !.value = row.value, !.kind = row.kind, !.gone = FALSE,
          !.name = IF renames /\ Named(sups, row.name) \subseteq {i} THEN row.name ELSE @]

Identity(i, primary, row) ==
  [there |-> TRUE, supplier |-> i, primary |-> primary, gone |-> FALSE, row |-> row]

\* what an unknown key is attached to: the row of that name, else one of that word and kind
\* that TMS does not know yet
Home(sups, row) ==
  LET like == {i \in Here(sups) : /\ Norm(sups[i].name) = Norm(row.name)
                                  /\ sups[i].kind = row.kind /\ sups[i].key = 0}
      hits == IF Named(sups, row.name) # {} THEN Named(sups, row.name) ELSE like
  IN IF hits = {} THEN 0 ELSE CHOOSE i \in hits : \A j \in hits : i <= j

\* one row of the list
TakenIn(db, k) ==
  LET row  == partners[k].row
      home == Home(db.sups, row)
      new  == NextId(db.sups)
      i    == db.link[k].supplier
  IN IF ~partners[k].there THEN db
     ELSE IF db.link[k].there
     THEN [sups |-> IF db.link[k].primary
                    THEN [db.sups EXCEPT ![i] = PartnerFollowed(db.sups, i, row, TRUE)] ELSE db.sups,
           link |-> [db.link EXCEPT ![k] = Identity(i, @.primary, row)]]
     ELSE IF home = 0
     THEN [sups |-> [db.sups EXCEPT ![new] = Row(row.name, row.kind, row.value, FALSE, k, FALSE)],
           link |-> [db.link EXCEPT ![k] = Identity(new, TRUE, row)]]
     ELSE IF db.sups[home].key = 0
     THEN [sups |-> [db.sups EXCEPT ![home] = [PartnerFollowed(db.sups, home, row, FALSE) EXCEPT !.key = k]],
           link |-> [db.link EXCEPT ![k] = Identity(home, TRUE, row)]]
     ELSE [sups |-> db.sups, link |-> [db.link EXCEPT ![k] = Identity(home, FALSE, row)]]

\* sync_partners, in one transaction: the list, then those that are missing from it; an empty
\* list says nothing
SyncPartners ==
  LET listed == {k \in Partners : partners[k].there}
      left   == {k \in Here(link) \ listed : ~link[k].gone}
      db     == FoldLeft(TakenIn, [sups |-> suppliers, link |-> link],
                         [k \in 1..MaxPartners |-> k])
  IN /\ listed # {}
     /\ Cardinality(Here(suppliers)) + Cardinality(listed \ Here(link)) <= MaxSuppliers
     /\ link' = [k \in Partners |-> IF k \in left THEN [db.link[k] EXCEPT !.gone = TRUE]
                                                  ELSE db.link[k]]
     /\ suppliers' = [i \in Suppliers |->
          IF \E k \in left : link[k].primary /\ link[k].supplier = i
          THEN [db.sups[i] EXCEPT !.gone = TRUE] ELSE db.sups[i]]
     /\ UNCHANGED <<partners, tmsModels, fresh, models>>

SwitchedBeside(i, k) == [link EXCEPT ![k].primary = TRUE]             \* mutant
\* is_primary moves to k
Switched(i, k) ==
  [j \in Partners |-> IF link[j].there /\ link[j].supplier = i
                      THEN [link[j] EXCEPT !.primary = j = k] ELSE link[j]]

\* supplier_tms_primary: the identity's values are applied at once, and with them the mark that
\* TMS no longer lists it goes
ChoosePrimary(i, k) ==
  /\ link[k].there /\ link[k].supplier = i
  /\ link' = Switched(i, k)
  /\ suppliers' = [suppliers EXCEPT ![i] = [PartnerFollowed(suppliers, i, link[k].row, FALSE)
                                              EXCEPT !.key = k]]
  /\ UNCHANGED <<partners, tmsModels, fresh, models>>

\* supplier_tms_split: an identity becomes a supplier of its own, under a name staff give
Split(i, k, n) ==
  /\ NextId(suppliers) <= MaxSuppliers /\ Named(suppliers, n) = {}
  /\ link[k].there /\ link[k].supplier = i /\ ~link[k].primary
  /\ suppliers' = [suppliers EXCEPT ![NextId(suppliers)] =
                     Row(n, link[k].row.kind, link[k].row.value, FALSE, k, link[k].gone)]
  /\ link' = [link EXCEPT ![k].supplier = NextId(suppliers), ![k].primary = TRUE]
  /\ UNCHANGED <<partners, tmsModels, fresh, models>>

\* TMS: a partner comes, changes or goes
PartnerChanges(k, there, row) ==
  /\ partners' = [partners EXCEPT ![k] = IF there THEN [there |-> TRUE, row |-> row] ELSE NotThere]
  /\ UNCHANGED <<suppliers, link, tmsModels, fresh, models>>
-----------------------------------------------------------------------------
(***************************************************************************)
(* Models                                                                  *)
(***************************************************************************)
Holder(ms, w) == {i \in Here(ms) : ms[i].word = w}

OnModels(ms) ==
  /\ models' = ms
  /\ UNCHANGED <<partners, suppliers, link, tmsModels, fresh>>

CreateModel(w, v) ==
  /\ NextId(models) <= MaxModels /\ Holder(models, w) = {}
  /\ OnModels([models EXCEPT ![NextId(models)] =
       [there |-> TRUE, word |-> w, value |-> v, own |-> TRUE, key |-> 0, gone |-> FALSE]])

UpdateModel(i, w, v) ==
  /\ models[i].there /\ Holder(models, w) \subseteq {i}
  /\ <<w, v>> # <<models[i].word, models[i].value>>
  /\ OnModels([models EXCEPT ![i].word = w, ![i].value = v, ![i].own = TRUE])

\* what TMS says of a row it knows: staff's own only takes the mark of deletion
ModelFollowed(ms, i, row) ==
  IF ms[i].own THEN [ms[i] EXCEPT !.gone = row.gone]
  ELSE [ms[i] EXCEPT !.gone = row.gone, !.value = row.value,
          !.word = IF Holder(ms, row.word) \subseteq {i} THEN row.word ELSE @]

\* _apply_model: by key, else by name; a name that another key holds is skipped
ModelTaken(ms, k) ==
  LET row  == tmsModels[k].row
      mine == {i \in Here(ms) : ms[i].key = k}
      like == Holder(ms, row.word)
      j    == CHOOSE i \in mine \cup like : mine = {} \/ i \in mine
  IN IF ~tmsModels[k].there THEN ms
     ELSE IF mine # {} THEN [ms EXCEPT ![j] = ModelFollowed(ms, j, row)]
     ELSE IF like = {}
     THEN [ms EXCEPT ![NextId(ms)] =
             [there |-> TRUE, word |-> row.word, value |-> row.value, own |-> FALSE, key |-> k,
              gone |-> row.gone]]
     ELSE IF ms[j].key # 0 THEN ms
     ELSE [ms EXCEPT ![j].key = k, ![j].gone = row.gone,
                     ![j].value = IF @ = 0 THEN row.value ELSE @]

\* sync_models: what changed behind the cursor, or everything; an exception keeps the cursor
SyncModels(full) ==
  LET due == {k \in ModelKeys : full \/ k \in fresh}
  IN /\ Cardinality(Here(models)) + Cardinality(due) <= MaxModels
     /\ models' = FoldLeft(LAMBDA ms, k : IF k \in due THEN ModelTaken(ms, k) ELSE ms,
                           models, [k \in 1..MaxModelKeys |-> k])
     /\ fresh' = {}
     /\ UNCHANGED <<partners, suppliers, link, tmsModels>>

\* TMS: a model comes, changes, is deleted or restored
ModelChanges(k, row) ==
  /\ tmsModels[k] # [there |-> TRUE, row |-> row]
  /\ tmsModels' = [tmsModels EXCEPT ![k] = [there |-> TRUE, row |-> row]]
  /\ fresh' = fresh \cup {k}
  /\ UNCHANGED <<partners, suppliers, link, models>>
-----------------------------------------------------------------------------
MastersInit ==
  /\ partners  = [k \in Partners |-> NotThere]
  /\ suppliers = [i \in Suppliers |-> NotThere]
  /\ link      = [k \in Partners |-> NotThere]
  /\ tmsModels = [k \in ModelKeys |-> NotThere]
  /\ fresh = {}
  /\ models = [i \in 1..MaxModels |-> NotThere]

RowStep ==
  \/ \E n \in Names, kind \in Kinds, v \in 0..MaxColumn : CreateSupplier(n, kind, v)
  \/ \E i \in Here(suppliers), n \in Names, kind \in Kinds, v \in 0..MaxColumn :
       EditSupplier(i, n, kind, v)
  \/ SyncPartners

AliasStep ==
  \E i \in Here(suppliers) :
    \/ \E rep \in Suppliers : SetAlias(i, rep)
    \/ ClearAlias(i)
    \/ \E aliases, detached \in SUBSET Here(suppliers) : Canonical(i, aliases, detached)

IdentityStep ==
  \E i \in Here(suppliers), k \in Partners : ChoosePrimary(i, k) \/ \E n \in Names : Split(i, k, n)

PartnerStep(k) ==
  \E there \in BOOLEAN, row \in [name : Names, kind : Kinds, value : 0..MaxColumn] :
    PartnerChanges(k, there, row)

ModelStep ==
  \/ \E w \in ModelNames, v \in 0..MaxModelColumn : CreateModel(w, v)
  \/ \E i \in 1..MaxModels, w \in ModelNames, v \in 0..MaxModelColumn : UpdateModel(i, w, v)
  \/ \E full \in BOOLEAN : SyncModels(full)
  \/ \E k \in ModelKeys, row \in [word : ModelNames, value : 0..MaxModelColumn, gone : BOOLEAN] :
       ModelChanges(k, row)

MastersNext ==
  \/ RowStep \/ AliasStep \/ IdentityStep \/ ModelStep
  \/ \E k \in Partners : PartnerStep(k)

MastersSpec == MastersInit /\ [][MastersNext]_mastersVars
-----------------------------------------------------------------------------
\* A supplier that TMS knows has one primary identity, and it is the one whose key the supplier
\* carries, whatever was attached, chosen, split off and taken from the list in between
\* (supplier_tms_links: the other identities of a name stay beside it)
IdentitiesAgree ==
  /\ \A i \in Here(suppliers) : suppliers[i].key # 0 =>
       LET k == suppliers[i].key IN link[k].there /\ link[k].supplier = i /\ link[k].primary
  /\ \A k \in Here(link) : link[k].primary => suppliers[link[k].supplier].key = k

\* An alias has a representative that is not an alias itself, and a name always leads to a
\* representative (masters.py: no alias of an alias)
AliasesAreFlat ==
  /\ \A i \in Here(suppliers) :
       LET rep == suppliers[i].alias IN rep # 0 => suppliers[rep].there /\ suppliers[rep].alias = 0
  /\ \A n \in Names : Resolved(n) # 0 => suppliers[Resolved(n)].alias = 0

\* A model that no change behind the cursor is waiting for is as TMS has it: its deletion, and
\* its columns unless staff keep them (masters.py: TMS's marks of deletion always follow)
ModelsAreCurrent ==
  \A i \in Here(models) :
    LET k == models[i].key
    IN k # 0 /\ k \notin fresh => /\ models[i].gone = tmsModels[k].row.gone
                                  /\ models[i].own \/ models[i].value = tmsModels[k].row.value

\* The three together: the masters here and in TMS never fall apart, whoever changed what
MastersAgree == IdentitiesAgree /\ AliasesAreFlat /\ ModelsAreCurrent
=============================================================================
