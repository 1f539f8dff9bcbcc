------------------------------ MODULE Reclass -------------------------------
(***************************************************************************)
(* Putting the machines' categories right in bulk, app/purchase/reclass.py *)
(* (what TMS says, applied at once, undone as a whole), beside the imports *)
(* of migration.py that follow TMS one by one and staff who choose.  The   *)
(* shadow keeps what automation chose last.                                *)
(***************************************************************************)
EXTENDS Naturals, FiniteSets

CONSTANTS
  Machines, Categories,
  Owned,      \* machines registered by hand, or with a number of OWS's own band
  NoCat,      \* no category decided
  Runs,       \* applications, in their order
  MaxChoices, \* bound: choices by staff
  MaxTurns    \* bound: changes in TMS

ASSUME ReclassBounds == NoCat \notin Categories /\ {MaxChoices, MaxTurns} \subseteq Nat /\ Owned \subseteq Machines

VARIABLES
  target,  \* category_decision: what TMS, or the model's master, says of a machine
  kept,    \* assets: category, shadow, whether staff ever edited it, tms_lock, gone
  asked,   \* [apply] that has read TMS: its rows and what was ticked
  ran,     \* audit_log: what each application moved, from where and to where
  choice,  \* the category staff chose last against automation
  hands, turns

reclassVars == <<target, kept, asked, ran, choice, hands, turns>>

Nothing == [busy |-> FALSE]
Unrun   == [at |-> "none"]

ReclassOK ==
  /\ target \in [Machines -> Categories \cup {NoCat}]
  /\ kept \in [Machines -> [cat : Categories, shadow : Categories \cup {NoCat}, edited : BOOLEAN,
                            locked : BOOLEAN, gone : BOOLEAN]]
  /\ choice \in [Machines -> Categories \cup {NoCat}]
  /\ \A r \in Runs : ran[r].at \in {"none", "applied", "undone"}
-----------------------------------------------------------------------------
\* edited, manual, band, shadow
Protected(n) ==
  kept[n].edited \/ n \in Owned \/ kept[n].shadow \notin {NoCat, kept[n].cat}

Changes(n, to) == to[n] # NoCat /\ to[n] # kept[n].cat

\* _selected: a protected machine only when it is picked by itself
Selected(to, withGone, withLocked, picked) ==
  {n \in Machines : /\ Changes(n, to)
                    /\ Protected(n) => n \in picked
                    /\ kept[n].locked => withLocked
                    /\ kept[n].gone => withGone}

OnKept(k) ==
  /\ kept' = k
  /\ UNCHANGED <<target, hands, turns>>

\* TMS is read before the transaction
AskApply(withGone, withLocked, picked) ==
  /\ ~asked.busy
  /\ asked' = [busy |-> TRUE, to |-> target, gone |-> withGone, locked |-> withLocked,
               picked |-> picked]
  /\ UNCHANGED <<target, kept, ran, choice, hands, turns>>

\* reclass_apply: decided again on the machines as they are now
Apply(r) ==
  /\ asked.busy /\ ran[r].at = "none" /\ \A s \in Runs : s < r => ran[s].at # "none"
  /\ LET moved == Selected(asked.to, asked.gone, asked.locked, asked.picked)
     IN /\ moved # {}
        /\ OnKept([n \in Machines |-> IF n \in moved
                     THEN [kept[n] EXCEPT !.cat = asked.to[n], !.shadow = asked.to[n]] ELSE kept[n]])
        /\ ran' = [ran EXCEPT ![r] = [at |-> "applied", from |-> [n \in moved |-> kept[n].cat],
                                      to |-> [n \in moved |-> asked.to[n]]]]
        /\ choice' = [n \in Machines |-> IF n \in moved \cap asked.picked THEN NoCat ELSE choice[n]]
  /\ asked' = Nothing

\* the gate fails, or nothing is left to move
DropApply ==
  /\ asked.busy
  /\ asked' = Nothing
  /\ UNCHANGED <<target, kept, ran, choice, hands, turns>>

UndoableAll(r) == DOMAIN ran[r].from                                  \* mutant
\* what still has the category that the application gave it
Undoable(r) == {n \in DOMAIN ran[r].from : kept[n].cat = ran[r].to[n]}

\* reclass_undo
UndoApply(r) ==
  /\ ran[r].at = "applied"
  /\ OnKept([n \in Machines |-> IF n \in Undoable(r)
               THEN [kept[n] EXCEPT !.cat = ran[r].from[n], !.shadow = ran[r].from[n]] ELSE kept[n]])
  /\ ran' = [ran EXCEPT ![r].at = "undone"]
  /\ choice' = [n \in Machines |->
       IF n \in DOMAIN ran[r].to /\ ran[r].to[n] = choice[n] THEN NoCat ELSE choice[n]]
  /\ UNCHANGED asked

\* _prepare and apply_rows: the category follows while it is the one that automation chose last
FollowTms(n) ==
  /\ kept[n].shadow = kept[n].cat /\ Changes(n, target) /\ ~kept[n].locked
  /\ OnKept([kept EXCEPT ![n].cat = target[n], ![n].shadow = target[n]])
  /\ UNCHANGED <<asked, ran, choice>>

\* update_asset; who chooses what automation chose leaves the machine to it
ChooseCategory(n, c) ==
  /\ hands < MaxChoices /\ c # kept[n].cat
  /\ hands' = hands + 1
  /\ kept' = [kept EXCEPT ![n].cat = c, ![n].edited = TRUE]
  /\ choice' = [choice EXCEPT ![n] = IF c = kept[n].shadow THEN NoCat ELSE c]
  /\ UNCHANGED <<target, asked, ran, turns>>

\* sold, or its number put right
Alters(n, gone, locked) ==
  /\ hands < MaxChoices
  /\ hands' = hands + 1
  /\ kept' = [kept EXCEPT ![n].gone = gone, ![n].locked = @ \/ locked]
  /\ UNCHANGED <<target, asked, ran, choice, turns>>

\* TMS, or the model's master, says something else
Turns(n, c) ==
  /\ turns < MaxTurns /\ c # target[n]
  /\ turns' = turns + 1
  /\ target' = [target EXCEPT ![n] = c]
  /\ UNCHANGED <<kept, asked, ran, choice, hands>>

ReclassInit ==
  /\ target \in [Machines -> Categories]
  /\ kept \in [Machines -> [cat : Categories, shadow : Categories \cup {NoCat}, edited : {FALSE},
                            locked : {FALSE}, gone : {FALSE}]]
  /\ \A n \in Machines : kept[n].shadow \in {NoCat, kept[n].cat}
  /\ choice = [n \in Machines |-> NoCat]
  /\ asked = Nothing /\ ran = [r \in Runs |-> Unrun] /\ hands = 0 /\ turns = 0

ReclassNext ==
  \/ \E withGone, withLocked \in BOOLEAN, picked \in SUBSET Machines :
       AskApply(withGone, withLocked, picked)
  \/ \E r \in Runs : Apply(r) \/ UndoApply(r)
  \/ DropApply
  \/ \E n \in Machines :
       \/ FollowTms(n)
       \/ \E c \in Categories : ChooseCategory(n, c)
       \/ \E gone, locked \in BOOLEAN : Alters(n, gone, locked)
       \/ \E c \in Categories \cup {NoCat} : Turns(n, c)

ReclassSpec == ReclassInit /\ [][ReclassNext]_reclassVars
-----------------------------------------------------------------------------
\* A category that staff chose against automation goes only by another choice, by an application
\* they picked the machine for, or back to where it was before the application that had brought
\* the machine to that very category (reclass_undo: what staff changed afterwards is left out)
HandCategoryStays ==
  [][\A n \in Machines :
       choice[n] # NoCat /\ kept'[n].cat # choice[n] => choice'[n] # choice[n]]_reclassVars
=============================================================================
