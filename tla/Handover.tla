------------------------------ MODULE Handover ------------------------------
(***************************************************************************)
(* What the transfer of machines between the sale and the rental division  *)
(* promises: a machine has one owner, the machines of a hand-over change   *)
(* owner together, a machine is in at most one open hand-over, only an     *)
(* open one can be undone, and undoing it gives every machine back to the  *)
(* owner the hand-over took it from.  Staff may also assign an owner.      *)
(***************************************************************************)
CONSTANTS Machines, Divisions, Closed

VARIABLES
  owner,   \* the division that owns each machine
  open     \* the division the machine's open hand-over took it from, or Closed

vars == <<owner, open>>

Init == owner \in [Machines -> Divisions] /\ open = [m \in Machines |-> Closed]

Give(S, from, to) ==
  /\ from # to
  /\ \A m \in S : owner[m] = from /\ open[m] = Closed
  /\ owner' = [m \in Machines |-> IF m \in S THEN to ELSE owner[m]]
  /\ open' = [m \in Machines |-> IF m \in S THEN from ELSE open[m]]

Settle(S) ==
  /\ \A m \in S : open[m] # Closed
  /\ open' = [m \in Machines |-> IF m \in S THEN Closed ELSE open[m]]
  /\ UNCHANGED owner

Undo(S) ==
  /\ \A m \in S : open[m] # Closed
  /\ owner' = [m \in Machines |-> IF m \in S THEN open[m] ELSE owner[m]]
  /\ open' = [m \in Machines |-> IF m \in S THEN Closed ELSE open[m]]

Assign(S, d) ==
  /\ owner' = [m \in Machines |-> IF m \in S THEN d ELSE owner[m]]
  /\ UNCHANGED open

Next ==
  \E S \in SUBSET Machines :
    \/ \E from, to \in Divisions : Give(S, from, to)
    \/ Settle(S) \/ Undo(S)
    \/ \E d \in Divisions : Assign(S, d)

Spec == Init /\ [][Next]_vars
=============================================================================
