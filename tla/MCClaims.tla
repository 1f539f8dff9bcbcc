------------------------------- MODULE MCClaims -------------------------------
(***************************************************************************)
(* Three scenes in which the code does otherwise than a sentence in it     *)
(* says: two requests that text one event of one ticket; an amount that    *)
(* comes in empty and is filled in from the mall later; two orders of one  *)
(* customer in the QC program, of which one came from a mall too.          *)
(***************************************************************************)
EXTENDS Texts, Takings, QcFollow

claimsVars == <<textVars, takingVars, qcVars>>

\* one mall
MCShopOf == [o \in Buys |-> 1]

\* the orders of QC look alike; only the mall knows what was paid, and the row it has resembles
\* the first of them most
MCScore  == [r \in QcRows |-> [q \in Qcs |-> MinScore + (IF r \in Malls /\ q = FirstQc THEN 1 ELSE 0)]]
MCAmount == [r \in QcRows |-> IF r \in Malls THEN 1 ELSE 0]
MCGearOf == CHOOSE f \in [Qcs -> Gear] : \A p, q \in Qcs : p # q => f[p] # f[q]

ClaimsInit == TextInit /\ TakingsInit /\ QcStart

\* the provider's answer that a text went out is not lost
Heard ==
  \A p \in Texters : texting'[p].at = "answered" /\ texting[p].at = "sending"
                       => texting'[p].ok \/ got' = got

TextSpec  == ClaimsInit /\ [][TextNext /\ Heard /\ UNCHANGED <<takingVars, qcVars>>]_claimsVars
FeeSpec   == ClaimsInit /\ [][(MoneyStep \/ FillStep) /\ UNCHANGED <<textVars, qcVars>>]_claimsVars
ChainSpec == ClaimsInit /\ [][QcNext /\ UNCHANGED <<textVars, takingVars>>]_claimsVars
=============================================================================
