---------------------------- MODULE HouseProofs ----------------------------
(***************************************************************************)
(* The purchase house: asset numbers, purchase slips, sale slips and the   *)
(* ledger of parts, for any number of machines, of requests, of slips, of  *)
(* numbers in a day and of parts.                                          *)
(***************************************************************************)
EXTENDS Numbering, Slips, SaleLedger, Parts, Desk, Induction, SequenceTheorems

-----------------------------------------------------------------------------
(***************************************************************************)
(* A number of this program comes into use once                            *)
(***************************************************************************)

\* Top of some numbers up to n is the largest of them
LEMMA TopIsLast ==
  ASSUME NEW n \in Nat, NEW S \in SUBSET (0..n), S # {}
  PROVE  Top(S) \in S /\ \A m \in S : m <= Top(S)
BY LargestOfSome DEF Top
-----------------------------------------------------------------------------
\* what every step keeps: the day's counter is not behind any number that came into use
NumberInv ==
  /\ NumbersOK
  /\ \A n \in OwsBand : times[n] <= 1 /\ (times[n] > 0 => n <= counter)

\* The next number lies above every one that was used
LEMMA NextIsNew ==
  ASSUME NumberInv
  PROVE  NextNo \in Nat /\ counter < NextNo /\ FirstNo <= NextNo
<1> DEFINE S == (Worn \cap OwsBand) \cup {counter, FirstNo - 1}
<1>1. S \in SUBSET (0..LastNo) /\ S # {}
  BY NumberBands DEF NumberInv, NumbersOK, OwsBand
<1>2. Top(S) \in S /\ \A m \in S : m <= Top(S)
  BY <1>1, TopIsLast, NumberBands
<1>3. counter \in S /\ FirstNo - 1 \in S /\ counter \in Nat
  BY DEF NumberInv, NumbersOK
<1>4. NextNo = Top(S) + 1
  BY DEF NextNo
<1>5. Top(S) \in Nat /\ counter <= Top(S) /\ FirstNo - 1 <= Top(S)
  <2> DEFINE top == Top(S)
  <2>1. top \in S /\ \A m \in S : m <= top
    BY <1>2
  <2> HIDE DEF S, top
  <2>2. top \in 0..LastNo
    BY <1>1, <2>1
  <2>3. top \in Nat /\ counter <= top /\ FirstNo - 1 <= top
    BY <1>3, <2>1, <2>2, NumberBands
  <2> QED BY <2>3 DEF top
<1> HIDE DEF S
<1> QED BY <1>3, <1>4, <1>5, NumberBands

\* a number given out automatically is new
LEMMA GivenOut ==
  ASSUME NumberInv, NextNo <= LastNo, counter' = NextNo, Used(NextNo)
  PROVE  /\ counter' \in 0..LastNo /\ times' \in [OwsBand -> Nat]
         /\ \A n \in OwsBand : times'[n] <= 1 /\ (times'[n] > 0 => n <= counter')
<1>1. NextNo \in OwsBand /\ times[NextNo] = 0
  BY NextIsNew, NumberBands DEF NumberInv, NumbersOK, OwsBand
<1> QED BY <1>1, NextIsNew, NumberBands DEF NumberInv, NumbersOK, Used, OwsBand

\* a number typed by hand moves the counter, and counts the first time
LEMMA TypedIn ==
  ASSUME NumberInv, NEW n \in 0..LastNo, Reserved(n)
  PROVE  /\ counter' \in 0..LastNo /\ times' \in [OwsBand -> Nat]
         /\ \A m \in OwsBand : times'[m] <= 1 /\ (times'[m] > 0 => m <= counter')
<1>1. CASE n \in OwsBand
  BY <1>1, NumberBands DEF NumberInv, NumbersOK, Reserved, OwsBand
<1>2. CASE n \notin OwsBand
  BY <1>2 DEF NumberInv, NumbersOK, Reserved
<1> QED BY <1>1, <1>2

\* No step of the numbering disturbs what it keeps
LEMMA NumberStepKeeps == NumberInv /\ [NumberNext]_numberVars => NumberInv'
<1> SUFFICES ASSUME NumberInv, [NumberNext]_numberVars PROVE NumberInv'
  OBVIOUS
<1> USE NumberBands
<1> DEFINE Counted == /\ counter' \in 0..LastNo /\ times' \in [OwsBand -> Nat]
                      /\ \A n \in OwsBand : times'[n] <= 1 /\ (times'[n] > 0 => n <= counter')
           Typing == /\ no' \in [Units -> Numbers \cup {Odd, Unregistered}]
                     /\ copy' \in [Numbers -> {"none", "ok", "gone"}]
                     /\ asked' \in [Requests -> [open : BOOLEAN, want : 0..LastNo,
                                                 verdict : Verdicts, hold : BOOLEAN]]
                     /\ tmsLocked' \subseteq Units
<1>0. ASSUME Counted, Typing PROVE NumberInv'
  BY <1>0 DEF NumberInv, NumbersOK, OwsBand, Numbers, Verdicts
<1>1. ASSUME UNCHANGED <<counter, times>> PROVE Counted
  BY <1>1 DEF NumberInv, NumbersOK
<1>2. CASE UNCHANGED numberVars
  BY <1>0, <1>1, <1>2 DEF numberVars, NumberInv, NumbersOK
<1>3. ASSUME NEW r \in Requests, NEW n \in 0..LastNo, NEW reached \in BOOLEAN, Ask(r, n, reached)
      PROVE  NumberInv'
  <2>1. Typing
    BY <1>3 DEF Ask, NumberInv, NumbersOK, Verdicts, Numbers
  <2> QED BY <1>0, <1>1, <1>3, <2>1 DEF Ask
<1>4. ASSUME NEW r \in Requests, Answered(r)
      PROVE  asked' \in [Requests -> [open : BOOLEAN, want : 0..LastNo,
                                      verdict : Verdicts, hold : BOOLEAN]]
  BY <1>4 DEF Answered, NotAsked, NumberInv, NumbersOK, Verdicts
<1>5. ASSUME NEW r \in Requests, Refuse(r) \/ IssueNo(r) PROVE NumberInv'
  <2>1. Typing
    BY <1>4, <1>5 DEF Refuse, IssueNo, NumberInv, NumbersOK
  <2>2. Counted
    BY <1>1, <1>5, GivenOut DEF Refuse, IssueNo
  <2> QED BY <1>0, <2>1, <2>2
<1>6. ASSUME NEW r \in Requests, NEW u \in Units, RegisterNext(r, u) PROVE NumberInv'
  <2>1. NextNo \in Numbers
    BY <1>6, NextIsNew DEF RegisterNext, Numbers
  <2>2. Typing
    BY <1>4, <1>6, <2>1 DEF RegisterNext, NumberInv, NumbersOK
  <2>3. Counted
    BY <1>6, GivenOut DEF RegisterNext
  <2> QED BY <1>0, <2>2, <2>3
<1>7. ASSUME NEW r \in Requests, NEW u \in Units, NEW n \in Numbers,
             RegisterTyped(r, u, n) \/ FixTakeFree(r, u, n)
      PROVE  NumberInv'
  <2>1. Typing
    BY <1>4, <1>7 DEF RegisterTyped, FixTakeFree, NumberInv, NumbersOK
  <2>2. n \in 0..LastNo /\ Reserved(n)
    BY <1>7 DEF RegisterTyped, FixTakeFree, Numbers
  <2> QED BY <1>0, <2>1, <2>2, TypedIn
<1>8. ASSUME NEW r \in Requests, NEW u \in Units, NEW v \in Units, FixTake(r, u, v)
      PROVE  NumberInv'
  <2>1. asked[r].want \in 0..LastNo /\ Reserved(asked[r].want)
    BY <1>8 DEF FixTake, NumberInv, NumbersOK
  <2>2. Typing
    <3>1. no[v] \in Numbers /\ asked[r].want \in 0..LastNo
      BY <1>8, <2>1 DEF FixTake
    <3>2. (IF asked[r].want = 0 THEN Odd ELSE asked[r].want) \in Numbers \cup {Odd, Unregistered}
      BY <3>1 DEF Numbers
    <3>3. no' \in [Units -> Numbers \cup {Odd, Unregistered}]
      BY <1>8, <3>1, <3>2 DEF FixTake, NumberInv, NumbersOK
    <3> QED BY <1>4, <1>8, <3>3 DEF FixTake, NumberInv, NumbersOK
  <2> QED BY <1>0, <2>1, <2>2, TypedIn
<1>9. ASSUME NEW u \in Units, NEW v \in Units, FixSwap(u, v) PROVE NumberInv'
  <2>1. Typing
    BY <1>9 DEF FixSwap, NumberInv, NumbersOK
  <2> QED BY <1>0, <1>1, <1>9, <2>1 DEF FixSwap
<1>10. ASSUME NEW n \in Numbers, NEW says \in {"none", "ok", "gone"}, TmsTypes(n, says)
       PROVE  NumberInv'
  <2>1. Typing
    BY <1>10 DEF TmsTypes, NumberInv, NumbersOK
  <2> QED BY <1>0, <1>1, <1>10, <2>1 DEF TmsTypes
<1> QED BY <1>2, <1>3, <1>5, <1>6, <1>7, <1>8, <1>9, <1>10 DEF NumberNext

\* The numbering starts in order
LEMMA NumberInitially == NumberInit => NumberInv
BY NumberBands DEF NumberInit, NumberInv, NumbersOK, NotAsked, Verdicts, OwsBand

\* A number of this program comes into use once, whoever types, swaps or takes numbers over and
\* whatever TMS does meanwhile (asset_no_counters is behind no number that was used)
THEOREM NumbersNeverComeTwice == NumberSpec => []NumbersComeOnce
<1>1. NumberInv => NumbersComeOnce
  BY DEF NumberInv, NumbersComeOnce
<1> QED BY NumberInitially, NumberStepKeeps, <1>1, PTL DEF NumberSpec

-----------------------------------------------------------------------------
(***************************************************************************)
(* Purchase slips                                                          *)
(***************************************************************************)
SlipRows ==
  [stage : SlipStages, no : 0..MaxSlipNo, cancelled : BOOLEAN, returned : BOOLEAN,
   supplier : BOOLEAN, total : 0..MaxAmount, paid : 0..MaxAmount, settled : BOOLEAN,
   bought : Nat, moves : Int]

\* The numbers in use of one kind of slip
NumbersOf(stage) == {slip[c].no : c \in {d \in Slips : slip[d].stage = stage}}

\* A slip as the properties want it
SlipRowOK(row) == row.moves = IF row.cancelled THEN 0 ELSE row.bought
Apart(b, c) == slip[b].stage # "none" /\ slip[b].stage = slip[c].stage => slip[b].no # slip[c].no

\* what every step keeps: beside the properties, a machine is only on a slip there is, so a new
\* slip has no machine that came before it
SlipInv ==
  /\ slip \in [Slips -> SlipRows] /\ slipOf \in [Assets -> Slips \cup {NoSlip, Unbought}]
  /\ moved \subseteq Assets
  /\ \A a \in Assets : slipOf[a] \in Slips => Exists(slipOf[a])
  /\ \A b \in Slips : SlipRowOK(slip[b])
  /\ \A b \in Slips : \A c \in Slips \ {b} : Apart(b, c)
  /\ \A a \in Assets \ moved : slipOf[a] \in Slips /\ slip[slipOf[a]].stage = "purchased"
                                 => a \in received

\* It says what the properties say
LEMMA SlipInvSays == SlipInv => SlipsOK /\ ArrivedWithItsSlip /\ SlipsKeepTheirParts
<1> SUFFICES ASSUME SlipInv PROVE SlipsOK /\ ArrivedWithItsSlip /\ SlipsKeepTheirParts
  OBVIOUS
<1>1. SlipsOK
  BY DEF SlipInv, SlipRows, SlipsOK
<1>2. ArrivedWithItsSlip
  BY DEF SlipInv, ArrivedWithItsSlip, Of
<1>3. SlipsKeepTheirParts
  BY DEF SlipInv, SlipsKeepTheirParts, SlipRowOK, Apart, Exists
<1> QED BY <1>1, <1>2, <1>3

\* The next number is nobody's
LEMMA NextSlipNoIsNew ==
  ASSUME SlipInv, NEW stage
  PROVE  /\ NextSlipNo(stage) \in Nat
         /\ \A c \in Slips : slip[c].stage = stage => slip[c].no # NextSlipNo(stage)
<1> DEFINE S == NumbersOf(stage) \cup {0}
           top == Max(S)
<1>1. S \in SUBSET (0..MaxSlipNo) /\ S # {}
  BY SlipBounds DEF SlipInv, SlipRows, NumbersOf
<1>2. top \in S /\ \A m \in S : m <= top
  BY <1>1, MaxIsLargest, SlipBounds
<1>3. NextSlipNo(stage) = top + 1
  BY DEF NextSlipNo, NumbersOf
<1>4. \A c \in Slips : slip[c].stage = stage => slip[c].no \in S
  BY DEF NumbersOf
<1> HIDE DEF S, top
<1>5. top \in Nat /\ \A m \in S : m \in Nat
  BY <1>1, <1>2, SlipBounds
<1>6. \A m \in S : m # top + 1
  BY <1>2, <1>5
<1> QED BY <1>3, <1>4, <1>5, <1>6

\* A slip made or given a purchase number keeps the others' numbers apart from its own
LEMMA NumberedSlip ==
  ASSUME SlipInv, NEW b \in Slips, NEW row \in SlipRows, slip' = [slip EXCEPT ![b] = row],
         SlipRowOK(row),
         \/ row.stage = slip[b].stage /\ row.no = slip[b].no
         \/ row.stage # "none" /\ row.no = NextSlipNo(row.stage)
  PROVE  /\ slip' \in [Slips -> SlipRows]
         /\ \A c \in Slips : SlipRowOK(slip'[c]) /\ (Exists(c) => slip'[c].stage # "none")
         /\ \A c \in Slips : \A d \in Slips \ {c} : Apart(c, d)'
<1>1. \A c \in Slips : slip'[c] = IF c = b THEN row ELSE slip[c]
  BY DEF SlipInv
<1>2. slip' \in [Slips -> SlipRows]
  BY DEF SlipInv
<1>3. \A c \in Slips \ {b} :
        row.stage # "none" /\ row.stage = slip[c].stage => row.no # slip[c].no
  BY NextSlipNoIsNew DEF SlipInv, Apart
<1>4. \A c \in Slips : \A d \in Slips \ {c} : Apart(c, d)'
  <2> SUFFICES ASSUME NEW c \in Slips, NEW d \in Slips \ {c} PROVE Apart(c, d)'
    OBVIOUS
  <2> QED BY <1>1, <1>3 DEF SlipInv, Apart
<1> QED BY <1>1, <1>2, <1>4 DEF SlipInv, Exists

\* A slip that keeps its kind, and machines that were on it or arrived with it
LEMMA SlipStays ==
  ASSUME SlipInv, NEW b \in Slips, NEW row \in SlipRows, slip' = [slip EXCEPT ![b] = row],
         SlipRowOK(row), row.stage = slip[b].stage, row.no = slip[b].no,
         UNCHANGED <<slipOf, moved>>, received \subseteq received'
  PROVE  SlipInv'
<1>1. \A c \in Slips : slip'[c] = IF c = b THEN row ELSE slip[c]
  BY DEF SlipInv
<1>2. /\ slip' \in [Slips -> SlipRows]
      /\ \A c \in Slips : SlipRowOK(slip'[c]) /\ (Exists(c) => slip'[c].stage # "none")
      /\ \A c \in Slips : \A d \in Slips \ {c} : Apart(c, d)'
  BY NumberedSlip
<1> QED BY <1>1, <1>2 DEF SlipInv, Exists

\* A slip is cancelled, or taken up again
LEMMA CancelledSlipTyping ==
  ASSUME NEW row \in SlipRows, NEW c \in BOOLEAN, NEW x \in Int,
         x = IF c THEN 0 ELSE row.bought
  PROVE  /\ [row EXCEPT !.cancelled = c, !.moves = x] \in SlipRows
         /\ SlipRowOK([row EXCEPT !.cancelled = c, !.moves = x])
         /\ [row EXCEPT !.cancelled = c, !.moves = x].stage = row.stage
         /\ [row EXCEPT !.cancelled = c, !.moves = x].no = row.no
<1> DEFINE new == [row EXCEPT !.cancelled = c, !.moves = x]
<1>1. new \in SlipRows
  BY Zenon DEF SlipRows
<1>2. new.cancelled = c /\ new.moves = x /\ new.bought = row.bought
  BY Zenon DEF SlipRows
<1>3. new.stage = row.stage /\ new.no = row.no
  BY DEF SlipRows
<1> HIDE DEF new
<1>4. SlipRowOK(new)
  BY <1>2 DEF SlipRowOK
<1> QED BY <1>1, <1>3, <1>4 DEF new

\* What the screen sends goes into a row that stays one, of its kind and number
LEMMA WrittenTyping ==
  ASSUME NEW row \in SlipRows, NEW f \in SlipFields
  PROVE  /\ Written(row, f) \in SlipRows
         /\ Written(row, f).stage = row.stage /\ Written(row, f).no = row.no
         /\ Written(row, f).cancelled = row.cancelled /\ Written(row, f).moves = row.moves
         /\ Written(row, f).bought = row.bought
<1>1. /\ f.supplier \in BOOLEAN /\ f.total \in 0..MaxAmount /\ f.paid \in 0..MaxAmount
      /\ f.settled \in BOOLEAN
  BY DEF SlipFields
<1>2. Written(row, f) \in SlipRows
  BY <1>1, Zenon DEF SlipRows, Written
<1>3. /\ Written(row, f).stage = row.stage /\ Written(row, f).no = row.no
      /\ Written(row, f).cancelled = row.cancelled /\ Written(row, f).moves = row.moves
      /\ Written(row, f).bought = row.bought
  BY DEF SlipRows, Written
<1> QED BY <1>2, <1>3

\* A new slip: its number is nobody's, and its machines are on no other
LEMMA CreateSlipKeeps ==
  ASSUME SlipInv, NEW b \in Slips, NEW stage \in SlipStages \ {"none"}, NEW f \in SlipFields,
         NEW S \in SUBSET Assets, CreateSlip(b, stage, f, S)
  PROVE  SlipInv'
<1> DEFINE blank == NewSlip(stage, NextSlipNo(stage), FALSE, 0, FALSE, 0)
           row   == Written(blank, f)
<1>1. /\ ~Exists(b) /\ NextSlipNo(stage) <= MaxSlipNo /\ S \subseteq Of(Unbought)
      /\ slip' = [slip EXCEPT ![b] = row] /\ UNCHANGED moved
      /\ slipOf' = [a \in Assets |-> IF a \in S THEN b ELSE slipOf[a]]
      /\ received' = IF stage = "purchased" THEN received \cup S ELSE received \ S
  BY DEF CreateSlip
<1>2. NextSlipNo(stage) \in 0..MaxSlipNo
  BY <1>1, NextSlipNoIsNew, SlipBounds
<1>3. /\ row \in SlipRows /\ SlipRowOK(row) /\ row.stage = stage
      /\ row.no = NextSlipNo(row.stage)
  <2>1. 0 \in Nat /\ stage \in SlipStages /\ FALSE \in BOOLEAN
    OBVIOUS
  <2>2. 0 \in 0..MaxAmount /\ 0 \in Int
    BY SlipBounds
  <2>3. blank \in SlipRows
    BY <1>2, <2>1, <2>2, Zenon DEF SlipRows, NewSlip
  <2>4. blank.cancelled = FALSE /\ blank.moves = 0 /\ blank.bought = 0 /\ blank.stage = stage
        /\ blank.no = NextSlipNo(stage)
    BY Zenon DEF NewSlip
  <2> HIDE DEF blank
  <2>6. row \in SlipRows /\ row.cancelled = FALSE /\ row.moves = 0 /\ row.bought = 0
        /\ row.stage = stage /\ row.no = NextSlipNo(stage)
    BY <2>3, <2>4, WrittenTyping
  <2> HIDE DEF row
  <2>5. SlipRowOK(row)
    BY <2>6, Zenon DEF SlipRowOK
  <2> QED BY <2>6, <2>5, Zenon
<1> HIDE DEF row
<1>4. stage # "none"
  OBVIOUS
<1>5. /\ slip' \in [Slips -> SlipRows]
      /\ \A c \in Slips : SlipRowOK(slip'[c]) /\ (Exists(c) => slip'[c].stage # "none")
      /\ \A c \in Slips : \A d \in Slips \ {c} : Apart(c, d)'
  BY <1>1, <1>3, <1>4, NumberedSlip
<1>6. \A c \in Slips : slip'[c] = IF c = b THEN row ELSE slip[c]
  BY <1>1 DEF SlipInv
<1>7. slipOf' \in [Assets -> Slips \cup {NoSlip, Unbought}]
  BY <1>1 DEF SlipInv
<1>9. \A a \in Assets : slipOf'[a] \in Slips => slip'[slipOf'[a]].stage # "none"
  BY <1>1, <1>3, <1>4, <1>5, <1>6 DEF SlipInv, Exists
<1>10. ASSUME NEW a \in Assets \ moved, slipOf'[a] \in Slips, slip'[slipOf'[a]].stage = "purchased"
       PROVE  a \in received'
  <2>1. CASE a \in S
    BY <1>1, <1>3, <1>6, <1>10, <2>1
  <2>2. CASE a \notin S
    <3>1. slipOf[a] # b
      BY <1>1 DEF SlipInv
    <3> QED BY <1>1, <1>6, <1>10, <2>2, <3>1 DEF SlipInv
  <2> QED BY <2>1, <2>2
<1> QED BY <1>1, <1>5, <1>7, <1>9, <1>10 DEF SlipInv, Exists

\* One more machine: it is on no slip before
LEMMA AddToSlipKeeps ==
  ASSUME SlipInv, NEW b \in Slips \cup {NoSlip}, NEW a \in Assets, AddToSlip(b, a)
  PROVE  SlipInv'
<1>1. /\ slipOf[a] = Unbought /\ (b # NoSlip => Exists(b)) /\ UNCHANGED <<slip, moved>>
      /\ slipOf' = [slipOf EXCEPT ![a] = b]
      /\ received' = IF b # NoSlip /\ slip[b].stage = "provisional" THEN received \ {a}
                     ELSE received \cup {a}
  BY DEF AddToSlip
<1>2. /\ slipOf' \in [Assets -> Slips \cup {NoSlip, Unbought}]
      /\ \A c \in Assets : slipOf'[c] = IF c = a THEN b ELSE slipOf[c]
  BY <1>1 DEF SlipInv
<1>3. \A c \in Assets : slipOf'[c] \in Slips => Exists(slipOf'[c])
  BY <1>1, <1>2, NoSlipIsNone DEF SlipInv
<1>4. \A c \in Assets \ moved :
        slipOf'[c] \in Slips /\ slip[slipOf'[c]].stage = "purchased" => c \in received'
  BY <1>1, <1>2, NoSlipIsNone DEF SlipInv
<1> QED BY <1>1, <1>2, <1>3, <1>4 DEF SlipInv, Exists, Apart

\* A machine that is moved by hand is left out of the promise
LEMMA MoveToSlipKeeps ==
  ASSUME SlipInv, NEW b \in Slips \cup {NoSlip}, NEW a \in Assets, MoveToSlip(a, b)
  PROVE  SlipInv'
<1>1. /\ b # NoSlip => Exists(b)
      /\ slipOf' = [slipOf EXCEPT ![a] = b] /\ moved' = moved \cup {a}
      /\ UNCHANGED <<slip, received>>
  BY DEF MoveToSlip, recordVars, assetVars
<1>2. /\ slipOf' \in [Assets -> Slips \cup {NoSlip, Unbought}]
      /\ \A c \in Assets : slipOf'[c] = IF c = a THEN b ELSE slipOf[c]
  BY <1>1 DEF SlipInv
<1>3. \A c \in Assets : slipOf'[c] \in Slips => Exists(slipOf'[c])
  BY <1>1, <1>2, NoSlipIsNone DEF SlipInv
<1>4. \A c \in Assets \ moved' : slipOf'[c] = slipOf[c] /\ c \in Assets \ moved
  BY <1>1, <1>2
<1>5. moved' \subseteq Assets
  BY <1>1 DEF SlipInv
<1> QED BY <1>1, <1>2, <1>3, <1>4, <1>5 DEF SlipInv, Exists, Apart

\* What changes a slip and not its kind or number
LEMMA SlipChangeKeeps ==
  ASSUME SlipInv, NEW b \in Slips,
         \/ \E f \in SlipFields : UpdateSlip(b, f)
         \/ CancelSlip(b) \/ UncancelSlip(b)
         \/ \E only \in SUBSET Assets : ReturnSlip(b, only)
         \/ \E amount \in {-1, 1} : PaySlip(b, amount)
  PROVE  SlipInv'
<1>0. slip[b] \in SlipRows /\ SlipRowOK(slip[b])
  BY DEF SlipInv
<1>1. ASSUME NEW f \in SlipFields, UpdateSlip(b, f)
      PROVE  SlipInv'
  <2> DEFINE row == Written(slip[b], f)
  <2>1. /\ slip' = [slip EXCEPT ![b] = row] /\ Exists(b)
        /\ UNCHANGED <<slipOf, moved, received>>
    BY <1>1 DEF UpdateSlip, BooksOnly, recordVars, assetVars
  <2>2. row \in SlipRows /\ SlipRowOK(row) /\ row.stage = slip[b].stage /\ row.no = slip[b].no
    BY <1>0, WrittenTyping DEF SlipRowOK
  <2> HIDE DEF row
  <2> QED BY <2>1, <2>2, SlipStays
<1>2. CASE CancelSlip(b)
  <2> DEFINE row == [slip[b] EXCEPT !.cancelled = TRUE, !.moves = 0]
  <2>1. /\ slip' = [slip EXCEPT ![b] = row] /\ Exists(b)
        /\ UNCHANGED <<slipOf, moved, received>>
    BY <1>2 DEF CancelSlip
  <2>2. row \in SlipRows /\ SlipRowOK(row) /\ row.stage = slip[b].stage /\ row.no = slip[b].no
    <3>1. TRUE \in BOOLEAN /\ 0 \in Int /\ 0 = IF TRUE THEN 0 ELSE slip[b].bought
      OBVIOUS
    <3> QED BY <1>0, <3>1, CancelledSlipTyping, Zenon
  <2> HIDE DEF row
  <2> QED BY <2>1, <2>2, SlipStays
<1>3. CASE UncancelSlip(b)
  <2> DEFINE row == [slip[b] EXCEPT !.cancelled = FALSE, !.moves = Uncancelled(b)]
  <2>1. /\ slip' = [slip EXCEPT ![b] = row]
        /\ UNCHANGED <<slipOf, moved, received>>
    BY <1>3 DEF UncancelSlip
  <2>2. row \in SlipRows /\ SlipRowOK(row) /\ row.stage = slip[b].stage /\ row.no = slip[b].no
    <3>0. Uncancelled(b) = slip[b].bought /\ slip[b].bought \in Nat
      BY <1>0 DEF SlipRows, Uncancelled
    <3>1. /\ FALSE \in BOOLEAN /\ Uncancelled(b) \in Int
          /\ Uncancelled(b) = IF FALSE THEN 0 ELSE slip[b].bought
      BY <3>0
    <3> QED BY <1>0, <3>1, CancelledSlipTyping, Zenon
  <2> HIDE DEF row
  <2> QED BY <2>1, <2>2, SlipStays
<1>4. ASSUME NEW only \in SUBSET Assets, ReturnSlip(b, only)
      PROVE  SlipInv'
  <2> DEFINE row == [slip[b] EXCEPT !.returned = @ \/ only = {}]
  <2>1. /\ slip' = [slip EXCEPT ![b] = row] /\ Exists(b)
        /\ UNCHANGED <<slipOf, moved, received>>
    BY <1>4 DEF ReturnSlip
  <2>2. row \in SlipRows /\ SlipRowOK(row) /\ row.stage = slip[b].stage /\ row.no = slip[b].no
    BY <1>0 DEF SlipRows, SlipRowOK
  <2> HIDE DEF row
  <2> QED BY <2>1, <2>2, SlipStays
<1>5. ASSUME NEW amount \in {-1, 1}, PaySlip(b, amount)
      PROVE  SlipInv'
  <2> DEFINE paid == slip[b].paid + amount
             row  == [slip[b] EXCEPT !.paid = paid,
                                     !.settled = paid >= slip[b].total /\ slip[b].total > 0]
  <2>1. /\ slip' = [slip EXCEPT ![b] = row] /\ slip[b].stage = "purchased"
        /\ paid >= 0 /\ (amount > 0 => paid <= slip[b].total)
        /\ UNCHANGED <<slipOf, moved, received>>
    BY <1>5 DEF PaySlip, BooksOnly, recordVars, assetVars
  <2>2. paid \in 0..MaxAmount
    <3>1. slip[b].paid \in 0..MaxAmount /\ slip[b].total \in 0..MaxAmount
      BY <1>0 DEF SlipRows
    <3>2. amount = -1 \/ amount = 1
      OBVIOUS
    <3> QED BY <2>1, <3>1, <3>2, SlipBounds
  <2> HIDE DEF paid
  <2>3. row \in SlipRows /\ SlipRowOK(row) /\ row.stage = slip[b].stage /\ row.no = slip[b].no
    BY <1>0, <2>2 DEF SlipRows, SlipRowOK
  <2> HIDE DEF row
  <2> QED BY <2>1, <2>3, SlipStays DEF Exists
<1> QED BY <1>1, <1>2, <1>3, <1>4, <1>5

\* A purchase of parts: no machine comes with it
LEMMA BuyPartsKeeps ==
  ASSUME SlipInv, NEW b \in Slips, NEW unpaid \in BOOLEAN, BuyParts(b, 1, MaxAmount, unpaid)
  PROVE  SlipInv'
<1> DEFINE row == NewSlip("purchased", NextSlipNo("purchased"), TRUE, MaxAmount, ~unpaid, 1)
<1>1. /\ ~Exists(b) /\ NextSlipNo("purchased") <= MaxSlipNo
      /\ slip' = [slip EXCEPT ![b] = row] /\ UNCHANGED <<slipOf, moved, received>>
  BY DEF BuyParts, BooksOnly, recordVars, assetVars
<1>2. NextSlipNo("purchased") \in 0..MaxSlipNo
  BY <1>1, NextSlipNoIsNew, SlipBounds
<1>3. /\ row \in SlipRows /\ SlipRowOK(row) /\ row.stage = "purchased"
      /\ row.no = NextSlipNo(row.stage)
  <2>1. MaxAmount \in 0..MaxAmount /\ 0 \in 0..MaxAmount /\ 1 \in Nat /\ 1 \in Int
        /\ "purchased" \in SlipStages
    BY SlipBounds DEF SlipStages
  <2>2. FALSE \in BOOLEAN /\ TRUE \in BOOLEAN /\ (~unpaid) \in BOOLEAN
    OBVIOUS
  <2>3. row \in SlipRows
    BY <1>2, <2>1, <2>2, Zenon DEF SlipRows, NewSlip
  <2>4. row.cancelled = FALSE /\ row.moves = 1 /\ row.bought = 1 /\ row.stage = "purchased"
        /\ row.no = NextSlipNo("purchased")
    BY Zenon DEF NewSlip
  <2> HIDE DEF row
  <2>5. SlipRowOK(row)
    BY <2>4, Zenon DEF SlipRowOK
  <2> QED BY <2>3, <2>4, <2>5, Zenon
<1> HIDE DEF row
<1>4. /\ slip' \in [Slips -> SlipRows]
      /\ \A c \in Slips : SlipRowOK(slip'[c]) /\ (Exists(c) => slip'[c].stage # "none")
      /\ \A c \in Slips : \A d \in Slips \ {c} : Apart(c, d)'
  BY <1>1, <1>3, NumberedSlip
<1>5. \A c \in Slips : slip'[c] = IF c = b THEN row ELSE slip[c]
  BY <1>1 DEF SlipInv
<1>6. \A a \in Assets : slipOf[a] # b
  BY <1>1 DEF SlipInv
<1> QED BY <1>1, <1>4, <1>5, <1>6 DEF SlipInv, Exists

\* A provisional slip becomes a purchase: everything on it has arrived
LEMMA ConfirmSlipKeeps ==
  ASSUME SlipInv, NEW b \in Slips, NEW f \in SlipFields, ConfirmSlip(b, f)
  PROVE  SlipInv'
<1> DEFINE kept == Written(slip[b], f)
           row  == [kept EXCEPT !.stage = "purchased", !.no = NextSlipNo("purchased")]
<1>1. /\ NextSlipNo("purchased") <= MaxSlipNo /\ slip[b].stage = "provisional"
      /\ slip' = [slip EXCEPT ![b] = row] /\ UNCHANGED <<slipOf, moved>>
      /\ received' = received \cup Of(b)
  BY DEF ConfirmSlip
<1>2. NextSlipNo("purchased") \in 0..MaxSlipNo
  BY <1>1, NextSlipNoIsNew, SlipBounds
<1>3. /\ row \in SlipRows /\ SlipRowOK(row) /\ row.stage = "purchased"
      /\ row.no = NextSlipNo(row.stage)
  <2>1. /\ slip[b] \in SlipRows /\ SlipRowOK(slip[b]) /\ "purchased" \in SlipStages
        /\ kept \in SlipRows /\ kept.cancelled = slip[b].cancelled
        /\ kept.moves = slip[b].moves /\ kept.bought = slip[b].bought
    BY WrittenTyping DEF SlipInv, SlipStages
  <2> HIDE DEF kept
  <2>2. row \in SlipRows
    BY <1>2, <2>1, Zenon DEF SlipRows
  <2>3. row.cancelled = slip[b].cancelled /\ row.moves = slip[b].moves
        /\ row.bought = slip[b].bought /\ row.stage = "purchased"
        /\ row.no = NextSlipNo("purchased")
    BY <2>1, Zenon DEF SlipRows
  <2> HIDE DEF row
  <2>4. SlipRowOK(row)
    BY <2>1, <2>3, Zenon DEF SlipRowOK
  <2> QED BY <2>2, <2>3, <2>4, Zenon
<1> HIDE DEF row
<1>4. /\ slip' \in [Slips -> SlipRows]
      /\ \A c \in Slips : SlipRowOK(slip'[c]) /\ (Exists(c) => slip'[c].stage # "none")
      /\ \A c \in Slips : \A d \in Slips \ {c} : Apart(c, d)'
  BY <1>1, <1>3, NumberedSlip
<1>5. \A c \in Slips : slip'[c] = IF c = b THEN row ELSE slip[c]
  BY <1>1 DEF SlipInv
<1> QED BY <1>1, <1>4, <1>5 DEF SlipInv, Exists, Of

\* Every step of the slips, and of the desks beside them
LEMMA SlipStepKeeps ==
  ASSUME SlipInv, [SlipNext \/ SlipRest]_<<recordVars, slipVars>>
  PROVE  SlipInv'
<1>1. CASE SlipNext
  <2> PICK b \in Slips :
        \/ \E stage \in SlipStages \ {"none"}, f \in SlipFields, S \in SUBSET Assets :
             CreateSlip(b, stage, f, S)
        \/ \E a \in Assets : MoveToSlip(a, b) \/ MoveToSlip(a, NoSlip)
        \/ \E a \in Assets, c \in {b, NoSlip} : AddToSlip(c, a)
        \/ \E f \in SlipFields : UpdateSlip(b, f) \/ ConfirmSlip(b, f)
        \/ CancelSlip(b) \/ UncancelSlip(b)
        \/ \E only \in SUBSET Assets : ReturnSlip(b, only)
        \/ \E amount \in {-1, 1} : PaySlip(b, amount)
        \/ \E unpaid \in BOOLEAN : BuyParts(b, 1, MaxAmount, unpaid)
    BY <1>1 DEF SlipNext
  <2> QED BY CreateSlipKeeps, MoveToSlipKeeps, AddToSlipKeeps, SlipChangeKeeps, ConfirmSlipKeeps,
             BuyPartsKeeps
<1>2. CASE SlipRest
  BY <1>2 DEF SlipRest, slipVars, SlipInv, Exists, Apart, SlipRowOK
<1>3. CASE UNCHANGED <<recordVars, slipVars>>
  BY <1>3 DEF recordVars, assetVars, slipVars, SlipInv, Exists, Apart, SlipRowOK
<1> QED BY <1>1, <1>2, <1>3

\* There is no slip at first
LEMMA SlipInitKeeps == SlipInit => SlipInv
<1> SUFFICES ASSUME SlipInit PROVE SlipInv
  OBVIOUS
<1>1. NoSlipRow \in SlipRows
  <2>1. "none" \in SlipStages /\ 0 \in 0..MaxSlipNo /\ 0 \in 0..MaxAmount /\ 0 \in Nat
        /\ 0 \in Int /\ FALSE \in BOOLEAN
    BY SlipBounds DEF SlipStages
  <2> QED BY <2>1, Zenon DEF NoSlipRow, NewSlip, SlipRows
<1>2. NoSlipRow.stage = "none" /\ NoSlipRow.cancelled = FALSE /\ NoSlipRow.moves = 0
      /\ NoSlipRow.bought = 0
  BY Zenon DEF NoSlipRow, NewSlip
<1>3. \A b \in Slips : slip[b] = NoSlipRow
  BY DEF SlipInit
<1>4. slip \in [Slips -> SlipRows]
  BY <1>1 DEF SlipInit
<1>5. slipOf \in [Assets -> Slips \cup {NoSlip, Unbought}]
      /\ \A a \in Assets : slipOf[a] \notin Slips
  BY NoSlipIsNone DEF SlipInit
<1>6. moved \subseteq Assets
  BY DEF SlipInit
<1>7. \A b \in Slips : SlipRowOK(slip[b])
  BY <1>2, <1>3 DEF SlipRowOK
<1>8. \A b \in Slips : \A c \in Slips \ {b} : Apart(b, c)
  BY <1>2, <1>3 DEF Apart
<1> QED BY <1>4, <1>5, <1>6, <1>7, <1>8 DEF SlipInv

\* The invariant holds throughout
LEMMA SlipsHold == SlipSpec => []SlipInv
<1>1. Init /\ SlipInit => SlipInv
  BY SlipInitKeeps
<1>2. SlipInv /\ [SlipNext \/ SlipRest]_<<recordVars, slipVars>> => SlipInv'
  BY SlipStepKeeps
<1> QED BY <1>1, <1>2, PTL DEF SlipSpec

\* A machine that stays on its slip counts as arrived once the slip is a purchase, whatever is
\* added, cancelled, returned and confirmed in between (create_batch, create_assets,
\* confirm_batch)
THEOREM SlipsArrive == SlipSpec => []ArrivedWithItsSlip
<1>1. SlipInv => ArrivedWithItsSlip
  BY SlipInvSays
<1> QED BY <1>1, SlipsHold, PTL

\* A slip has the parts it bought unless it is cancelled, however often it is cancelled and taken
\* up again, and a number of its own (cancel_batch, uncancel_batch, next_slip_no)
THEOREM SlipsKeep == SlipSpec => []SlipsKeepTheirParts
<1>1. SlipInv => SlipsKeepTheirParts
  BY SlipInvSays
<1> QED BY <1>1, SlipsHold, PTL

\* What the desk and the purchase screens do beside is a rest of the slips: none of their steps
\* takes back that a machine has arrived
LEMMA DeskIsRest == Next /\ UNCHANGED slipVars => SlipRest
<1> SUFFICES ASSUME Next PROVE received \subseteq received'
  BY DEF SlipRest
<1>1. ASSUME NEW o \in Orders, NEW u \in Users, StageStep(o, u)
      PROVE  UNCHANGED received
  BY <1>1 DEF StageStep, PreparingOn, PreparingOff, ProductionOn, ProductionOff, InspectionOn,
     InspectionOff, ShippingOn, ShippingOff, Unshipped, ShipAssets, assetVars
<1>2. ASSUME NEW o \in Orders, MatchStep(o)
      PROVE  UNCHANGED received
  <2>1. ASSUME NEW wanted, NEW misfits, NEW force, NEW last, NEW gone,
               SetOrderAssets(o, wanted, force, misfits, last, gone)
        PROVE  UNCHANGED received
    BY <2>1 DEF SetOrderAssets
  <2>2. ASSUME NEW a, PrebuildRework(o, a)
        PROVE  UNCHANGED received
    BY <2>2 DEF PrebuildRework, assetVars
  <2> QED BY <1>2, <2>1, <2>2 DEF MatchStep
<1>3. ASSUME NEW o \in Orders, MarkStep(o)
      PROVE  UNCHANGED received
  BY <1>3 DEF MarkStep, Cancel, RestoreCancel, Archive, Unarchive, SetDelivered, PickOption,
     assetVars
<1>4. ASSUME NEW S \in SUBSET Orders, NEW u \in Users, ShipToday(S, u)
      PROVE  UNCHANGED received
  BY <1>4 DEF ShipToday, ShipAssets, assetVars
<1>5. CASE PrebuildNext
  BY <1>5 DEF PrebuildNext, CreatePrebuild, DeletePrebuild, BuildReady, BuildProduction,
     BuildInspection, PrebuildOnly, assetVars
<1>6. CASE AssetNext
  BY <1>6 DEF AssetNext, ChangeStatus, ChangeTier, ChangeListing, PurchaseCancel,
     PurchaseUncancel, Restock, Receive
<1> QED BY <1>1, <1>2, <1>3, <1>4, <1>5, <1>6 DEF Next, BoardNext

-----------------------------------------------------------------------------
(***************************************************************************)
(* Sale slips: a machine sold on a slip of ours is sold once               *)
(***************************************************************************)
SaleRows == [stage : SaleStages, prev : SaleStages, edited : BOOLEAN, dated : BOOLEAN,
             paid : BOOLEAN]
LineRows == [stage : SaleStages, kind : {"", "line", "slip"}, own : BOOLEAN, edited : BOOLEAN]

\* A slip that was cancelled here is protected from TMS and sells nothing, so taking it up again
\* revives what it checks and no more
HeadOK(row, lines) ==
  row.dated => row.stage = "cancelled" /\ row.edited /\ \A a \in Assets : lines[a].stage # "live"

\* A line of ours is protected from TMS
LinesOK(lines) ==
  \A a \in Assets : lines[a].own => lines[a].edited /\ lines[a].stage # "none"

SaleInv ==
  /\ sale \in [Sales -> SaleRows] /\ line \in [Sales -> [Assets -> LineRows]]
  /\ \A s \in Sales : HeadOK(sale[s], line[s]) /\ LinesOK(line[s])
  /\ SoldOnOneSlip

\* A line that counts after the step counted before as it is, or nobody else has the machine, or
\* neither it nor another that counts is ours
Counts(s, row, lines, a) ==
  lines[a].stage = "live" /\ row.stage # "cancelled" =>
    \/ line[s][a].stage = "live" /\ sale[s].stage # "cancelled" /\ lines[a].own = line[s][a].own
    \/ Selling(a) \ {s} = {}
    \/ ~lines[a].own /\ \A t \in Selling(a) : ~line[t][a].own

\* A step of one slip and its lines keeps the invariant when it keeps its parts
LEMMA OneSaleKeeps ==
  ASSUME SaleInv, NEW s \in Sales, NEW row \in SaleRows, NEW lines \in [Assets -> LineRows],
         sale' = [sale EXCEPT ![s] = row], line' = [line EXCEPT ![s] = lines],
         HeadOK(row, lines), LinesOK(lines), \A a \in Assets : Counts(s, row, lines, a)
  PROVE  SaleInv'
<1>1. /\ sale' \in [Sales -> SaleRows] /\ line' \in [Sales -> [Assets -> LineRows]]
      /\ \A t \in Sales : /\ sale'[t] = IF t = s THEN row ELSE sale[t]
                          /\ line'[t] = IF t = s THEN lines ELSE line[t]
  BY DEF SaleInv
<1>2. \A t \in Sales : HeadOK(sale'[t], line'[t]) /\ LinesOK(line'[t])
  BY <1>1 DEF SaleInv
<1>3. ASSUME NEW a \in Assets, NEW t \in Selling(a)', line'[t][a].own
      PROVE  Selling(a)' = {t}
  <2>1. t \in Sales /\ line'[t][a].stage = "live" /\ sale'[t].stage # "cancelled"
    BY <1>3 DEF Selling, LinesOf
  <2>2. ASSUME NEW u \in Sales \ {s}
        PROVE  u \in Selling(a)' <=> u \in Selling(a)
    BY <1>1, <2>2 DEF Selling, LinesOf
  <2>3. s \in Selling(a)' => lines[a].stage = "live" /\ row.stage # "cancelled"
    BY <1>1 DEF Selling, LinesOf
  <2>4. s \in Selling(a) <=> line[s][a].stage = "live" /\ sale[s].stage # "cancelled"
    BY DEF Selling, LinesOf
  <2>5. \A u \in Selling(a) : line[u][a].own => Selling(a) = {u}
    BY DEF SaleInv, SoldOnOneSlip
  <2>6. Counts(s, row, lines, a)
    OBVIOUS
  <2>7. Selling(a)' \subseteq Sales /\ Selling(a) \subseteq Sales
    BY DEF Selling
  <2> SUFFICES ASSUME NEW u \in Selling(a)' PROVE u = t
    BY <1>3
  <2>8. line'[t][a] = IF t = s THEN lines[a] ELSE line[t][a]
    BY <1>1, <2>1
  <2>9. CASE s \in Selling(a)'
    <3>1. CASE s \in Selling(a) /\ lines[a].own = line[s][a].own
      BY <1>3, <2>1, <2>2, <2>5, <2>7, <2>8, <3>1
    <3>2. CASE Selling(a) \ {s} = {}
      BY <2>1, <2>2, <2>7, <3>2
    <3>3. CASE ~lines[a].own /\ \A v \in Selling(a) : ~line[v][a].own
      BY <1>3, <2>1, <2>2, <2>7, <2>8, <3>3
    <3> QED BY <2>3, <2>4, <2>6, <2>9, <3>1, <3>2, <3>3 DEF Counts
  <2>10. CASE s \notin Selling(a)'
    BY <1>3, <2>1, <2>2, <2>5, <2>7, <2>8, <2>10
  <2> QED BY <2>9, <2>10
<1> QED BY <1>1, <1>2, <1>3 DEF SaleInv, SoldOnOneSlip

\* A slip whose head changes
LEMMA HeadTyping ==
  ASSUME NEW r \in SaleRows, NEW e \in BOOLEAN, NEW x \in SaleStages
  PROVE  /\ [r EXCEPT !.edited = e, !.stage = x] \in SaleRows
         /\ [r EXCEPT !.edited = e, !.stage = x].stage = x
         /\ [r EXCEPT !.edited = e, !.stage = x].dated = r.dated
  BY Zenon DEF SaleRows

\* What staff do to the lines of a slip that is not cancelled: a line counts that did, or nobody
\* else has the machine
LEMMA TouchedKeeps ==
  ASSUME SaleInv, NEW s \in Sales, OpenSale(s), NEW lines \in [Assets -> LineRows],
         Touched(s, lines), LinesOK(lines),
         \A a \in Assets : lines[a].stage = "live" =>
           \/ line[s][a].stage = "live" /\ lines[a].own = line[s][a].own
           \/ Selling(a) \ {s} = {}
  PROVE  SaleInv'
<1> DEFINE x == IF s \in OwsSales THEN Stage(lines) ELSE sale[s].stage
           row == [sale[s] EXCEPT !.edited = TRUE, !.stage = x]
<1>1. sale' = [sale EXCEPT ![s] = row] /\ line' = [line EXCEPT ![s] = lines]
  BY DEF Touched, SaleInv
<1>2. sale[s] \in SaleRows /\ HeadOK(sale[s], line[s]) /\ sale[s].stage # "cancelled"
  BY DEF SaleInv, OpenSale
<1>3. x \in SaleStages /\ TRUE \in BOOLEAN
  BY <1>2 DEF Stage, SaleStages, SaleRows
<1> HIDE DEF x
<1>4. row \in SaleRows /\ row.dated = sale[s].dated
  BY <1>2, <1>3, HeadTyping, Zenon
<1> HIDE DEF row
<1>5. HeadOK(row, lines)
  BY <1>2, <1>4 DEF HeadOK
<1>6. \A a \in Assets : Counts(s, row, lines, a)
  BY <1>2 DEF Counts
<1> QED BY <1>1, <1>4, <1>5, <1>6, OneSaleKeeps

\* The lines of a slip with one machine's line changed, or some machines' replaced
NewLine == [NoLine EXCEPT !.stage = "live", !.own = TRUE, !.edited = TRUE]

\* A line made here
LEMMA NewLineTyping ==
  NewLine \in LineRows /\ NewLine.stage = "live" /\ NewLine.own = TRUE /\ NewLine.edited = TRUE
<1>1. NoLine \in LineRows
  <2>1. "none" \in SaleStages /\ FALSE \in BOOLEAN /\ "" \in {"", "line", "slip"}
    BY DEF SaleStages
  <2> QED BY <2>1, Zenon DEF NoLine, LineRows
<1>2. "live" \in SaleStages /\ TRUE \in BOOLEAN
  BY DEF SaleStages
<1>3. NewLine \in LineRows
  BY <1>1, <1>2, Zenon DEF NewLine, LineRows
<1> QED BY <1>1, <1>3, Zenon DEF NewLine, LineRows

\* Machines that nobody has are added
LEMMA WithLinesOK ==
  ASSUME SaleInv, NEW s \in Sales, NEW S \in SUBSET Assets
  PROVE  /\ WithLines(s, S) \in [Assets -> LineRows] /\ LinesOK(WithLines(s, S))
         /\ \A a \in Assets \ S : WithLines(s, S)[a] = line[s][a]
<1>1. WithLines(s, S) = [a \in Assets |-> IF a \in S THEN NewLine ELSE line[s][a]]
  BY DEF WithLines, NewLine
<1>2. line[s] \in [Assets -> LineRows] /\ LinesOK(line[s])
  BY DEF SaleInv
<1>3. WithLines(s, S) \in [Assets -> LineRows]
      /\ \A a \in Assets : WithLines(s, S)[a] = IF a \in S THEN NewLine ELSE line[s][a]
  BY <1>1, <1>2, NewLineTyping
<1>4. LinesOK(WithLines(s, S))
  BY <1>2, <1>3, NewLineTyping DEF LinesOK
<1> QED BY <1>3, <1>4

\* Lines taken up again are ours if they were
LEMMA RevivedOK ==
  ASSUME SaleInv, NEW s \in Sales, NEW S \in SUBSET Assets
  PROVE  /\ Revived(s, S) \in [Assets -> LineRows] /\ LinesOK(Revived(s, S))
         /\ \A a \in Assets : Revived(s, S)[a].own = line[s][a].own
         /\ \A a \in Assets \ S : Revived(s, S)[a] = line[s][a]
<1> DEFINE new(a) == [line[s][a] EXCEPT !.stage = "live", !.kind = "", !.edited = TRUE]
<1>1. line[s] \in [Assets -> LineRows] /\ LinesOK(line[s])
  BY DEF SaleInv
<1>2. ASSUME NEW a \in Assets
      PROVE  new(a) \in LineRows /\ new(a).stage = "live" /\ new(a).own = line[s][a].own
             /\ new(a).edited = TRUE
  <2>1. line[s][a] \in LineRows /\ "live" \in SaleStages /\ "" \in {"", "line", "slip"}
        /\ TRUE \in BOOLEAN
    BY <1>1 DEF SaleStages
  <2> QED BY <2>1, Zenon DEF LineRows
<1>3. Revived(s, S) = [a \in Assets |-> IF a \in S THEN new(a) ELSE line[s][a]]
  BY DEF Revived
<1> HIDE DEF new
<1>4. Revived(s, S) \in [Assets -> LineRows]
      /\ \A a \in Assets : Revived(s, S)[a] = IF a \in S THEN new(a) ELSE line[s][a]
  BY <1>1, <1>2, <1>3
<1>5. LinesOK(Revived(s, S))
  BY <1>1, <1>2, <1>4 DEF LinesOK
<1> QED BY <1>2, <1>4, <1>5

\* A new slip, and machines for one there is
LEMMA AddedLinesKeep ==
  ASSUME SaleInv, NEW s \in Sales, NEW S \in SUBSET Assets, CreateSale(s, S) \/ AddLines(s, S)
  PROVE  SaleInv'
<1> DEFINE lines == WithLines(s, S)
<1>1. /\ lines \in [Assets -> LineRows] /\ LinesOK(lines)
      /\ \A a \in Assets \ S : lines[a] = line[s][a]
  BY WithLinesOK
<1>2. \A a \in S : CanSell(a)
  BY DEF CreateSale, AddLines
<1>3. \A a \in S : Selling(a) = {}
  BY <1>2 DEF CanSell
<1>4. CASE CreateSale(s, S)
  <2> DEFINE row == [NoSale EXCEPT !.stage = "live", !.edited = TRUE]
  <2>1. /\ sale' = [sale EXCEPT ![s] = row] /\ line' = [line EXCEPT ![s] = lines]
        /\ sale[s].stage = "none"
    BY <1>4 DEF CreateSale
  <2>2. NoSale \in SaleRows
    <3>1. "none" \in SaleStages /\ "live" \in SaleStages /\ FALSE \in BOOLEAN
      BY DEF SaleStages
    <3> QED BY <3>1, Zenon DEF NoSale, SaleRows
  <2>3. "live" \in SaleStages /\ TRUE \in BOOLEAN
    BY DEF SaleStages
  <2>4. row \in SaleRows
    BY <2>2, <2>3, Zenon DEF SaleRows
  <2>5. row.dated = FALSE
    BY Zenon DEF NoSale
  <2> HIDE DEF row
  <2>6. HeadOK(row, lines)
    BY <2>5 DEF HeadOK
  <2> HIDE DEF lines
  <2>7. \A a \in Assets : Counts(s, row, lines, a)
    BY <1>1, <1>3, <2>1 DEF Counts
  <2> QED BY <1>1, <2>1, <2>4, <2>6, <2>7, OneSaleKeeps
<1>5. CASE AddLines(s, S)
  <2>1. OpenSale(s) /\ Touched(s, lines)
    BY <1>5 DEF AddLines
  <2> HIDE DEF lines
  <2>2. \A a \in Assets : lines[a].stage = "live" =>
          \/ line[s][a].stage = "live" /\ lines[a].own = line[s][a].own
          \/ Selling(a) \ {s} = {}
    BY <1>1, <1>3
  <2> QED BY <1>1, <2>1, <2>2, TouchedKeeps
<1> QED BY <1>4, <1>5

\* A line is edited, dropped or taken up again
LEMMA ChangedLineKeeps ==
  ASSUME SaleInv, NEW s \in Sales, NEW a \in Assets,
         \/ EditLine(s, a) \/ UndoLine(s, a)
         \/ \E stage \in Dead, restock \in BOOLEAN : DropLine(s, a, stage, restock)
  PROVE  SaleInv'
<1>0. /\ line[s] \in [Assets -> LineRows] /\ LinesOK(line[s]) /\ line[s][a] \in LineRows
      /\ TRUE \in BOOLEAN
  BY DEF SaleInv
<1>1. CASE EditLine(s, a)
  <2> DEFINE new   == [line[s][a] EXCEPT !.edited = TRUE]
             lines == [line[s] EXCEPT ![a] = new]
  <2>1. OpenSale(s) /\ Touched(s, lines)
    BY <1>1 DEF EditLine
  <2>2. new \in LineRows
    BY <1>0, Zenon DEF LineRows
  <2>3. new.stage = line[s][a].stage /\ new.own = line[s][a].own /\ new.edited = TRUE
    BY <1>0, Zenon DEF LineRows
  <2> HIDE DEF new
  <2>4. /\ lines \in [Assets -> LineRows]
        /\ \A c \in Assets : lines[c] = IF c = a THEN new ELSE line[s][c]
    BY <1>0, <2>2
  <2> HIDE DEF lines
  <2>5. LinesOK(lines)
    BY <1>0, <2>3, <2>4 DEF LinesOK
  <2>6. \A c \in Assets : lines[c].stage = line[s][c].stage /\ lines[c].own = line[s][c].own
    BY <2>3, <2>4
  <2> QED BY <2>1, <2>4, <2>5, <2>6, TouchedKeeps
<1>2. CASE UndoLine(s, a)
  <2> DEFINE lines == Revived(s, {a})
  <2>1. OpenSale(s) /\ Touched(s, lines) /\ Selling(a) \ {s} = {}
    BY <1>2 DEF UndoLine, Restorable
  <2>2. /\ lines \in [Assets -> LineRows] /\ LinesOK(lines)
        /\ \A c \in Assets \ {a} : lines[c] = line[s][c]
    BY RevivedOK
  <2> HIDE DEF lines
  <2>3. \A c \in Assets : lines[c].stage = "live" =>
          \/ line[s][c].stage = "live" /\ lines[c].own = line[s][c].own
          \/ Selling(c) \ {s} = {}
    BY <2>1, <2>2
  <2> QED BY <2>1, <2>2, <2>3, TouchedKeeps
<1>3. ASSUME NEW stage \in Dead, NEW restock \in BOOLEAN, DropLine(s, a, stage, restock)
      PROVE  SaleInv'
  <2> DEFINE k     == IF stage = "cancelled" THEN "line" ELSE line[s][a].kind
             new   == [line[s][a] EXCEPT !.stage = stage, !.edited = TRUE, !.kind = k]
             lines == [line[s] EXCEPT ![a] = new]
  <2>1. OpenSale(s) /\ Touched(s, lines) /\ a \in LinesOf(s)
    BY <1>3 DEF DropLine
  <2>2. k \in {"", "line", "slip"} /\ stage \in SaleStages /\ stage # "live" /\ stage # "none"
    BY <1>0 DEF LineRows, Dead, SaleStages
  <2> HIDE DEF k
  <2>3. new \in LineRows
    BY <1>0, <2>2, Zenon DEF LineRows
  <2>4. new.stage = stage /\ new.own = line[s][a].own /\ new.edited = TRUE
    BY <1>0, Zenon DEF LineRows
  <2> HIDE DEF new
  <2>5. /\ lines \in [Assets -> LineRows]
        /\ \A c \in Assets : lines[c] = IF c = a THEN new ELSE line[s][c]
    BY <1>0, <2>3
  <2> HIDE DEF lines
  <2>6. LinesOK(lines)
    BY <1>0, <2>2, <2>4, <2>5 DEF LinesOK
  <2>7. \A c \in Assets : lines[c].stage = "live" =>
          line[s][c].stage = "live" /\ lines[c].own = line[s][c].own
    BY <2>2, <2>4, <2>5
  <2> QED BY <2>1, <2>5, <2>6, <2>7, TouchedKeeps
<1> QED BY <1>1, <1>2, <1>3

\* The head of a slip is edited
LEMMA EditHeadKeeps ==
  ASSUME SaleInv, NEW s \in Sales, NEW stage \in {"live", "returned"}, NEW paid \in BOOLEAN,
         EditHead(s, stage, paid)
  PROVE  SaleInv'
<1> DEFINE x == IF s \in OwsSales THEN Stage(line[s]) ELSE stage
           row == [sale[s] EXCEPT !.edited = TRUE, !.paid = paid, !.stage = x]
<1>1. sale' = [sale EXCEPT ![s] = row] /\ line' = [line EXCEPT ![s] = line[s]]
  BY DEF EditHead, SaleInv
<1>2. /\ sale[s] \in SaleRows /\ HeadOK(sale[s], line[s]) /\ sale[s].stage # "cancelled"
      /\ line[s] \in [Assets -> LineRows] /\ LinesOK(line[s])
  BY DEF SaleInv, OpenSale, EditHead
<1>3. x \in SaleStages /\ TRUE \in BOOLEAN
  BY DEF Stage, SaleStages
<1> HIDE DEF x
<1>4. row \in SaleRows
  BY <1>2, <1>3, Zenon DEF SaleRows
<1>5. row.dated = sale[s].dated
  BY <1>2, Zenon DEF SaleRows
<1> HIDE DEF row
<1>6. HeadOK(row, line[s]) /\ \A a \in Assets : Counts(s, row, line[s], a)
  BY <1>2, <1>5 DEF HeadOK, Counts
<1> QED BY <1>1, <1>2, <1>4, <1>6, OneSaleKeeps

\* A slip is cancelled with its living lines
LEMMA CancelSaleKeeps ==
  ASSUME SaleInv, NEW s \in Sales, NEW restock \in BOOLEAN, CancelSale(s, restock)
  PROVE  SaleInv'
<1> DEFINE new(a) == [line[s][a] EXCEPT !.stage = "cancelled", !.kind = "slip", !.edited = TRUE]
           lines  == [a \in Assets |-> IF a \in LinesOf(s) THEN new(a) ELSE line[s][a]]
           row    == [sale[s] EXCEPT !.stage = "cancelled", !.prev = sale[s].stage,
                                     !.edited = TRUE, !.dated = TRUE]
<1>1. sale' = [sale EXCEPT ![s] = row] /\ line' = [line EXCEPT ![s] = lines]
  BY DEF CancelSale, SaleInv
<1>2. /\ sale[s] \in SaleRows /\ line[s] \in [Assets -> LineRows] /\ LinesOK(line[s])
      /\ sale[s].stage \in SaleStages /\ "cancelled" \in SaleStages /\ TRUE \in BOOLEAN
  BY DEF SaleInv, SaleStages, SaleRows
<1>3. row \in SaleRows
  BY <1>2, Zenon DEF SaleRows
<1>4. row.stage = "cancelled" /\ row.edited = TRUE
  BY <1>2, Zenon DEF SaleRows
<1>5. ASSUME NEW a \in Assets
      PROVE  new(a) \in LineRows /\ new(a).stage = "cancelled" /\ new(a).edited = TRUE
  <2>1. line[s][a] \in LineRows /\ "slip" \in {"", "line", "slip"}
    BY <1>2
  <2> QED BY <1>2, <2>1, Zenon DEF LineRows
<1> HIDE DEF row, new
<1>6. /\ lines \in [Assets -> LineRows]
      /\ \A a \in Assets : lines[a] = IF a \in LinesOf(s) THEN new(a) ELSE line[s][a]
  BY <1>2, <1>5
<1> HIDE DEF lines
<1>7. LinesOK(lines)
  BY <1>2, <1>5, <1>6 DEF LinesOK
<1>8. HeadOK(row, lines)
  BY <1>4, <1>5, <1>6 DEF HeadOK, LinesOf
<1>9. \A a \in Assets : Counts(s, row, lines, a)
  BY <1>4 DEF Counts
<1> QED BY <1>1, <1>3, <1>6, <1>7, <1>8, <1>9, OneSaleKeeps

\* A cancelled slip is taken up again, with the lines that went with it
LEMMA UncancelSaleKeeps ==
  ASSUME SaleInv, NEW s \in Sales, UncancelSale(s)
  PROVE  SaleInv'
<1> DEFINE S     == {a \in Assets : line[s][a].stage = "cancelled" /\ line[s][a].kind = "slip"}
           lines == Revived(s, S)
           x     == IF s \in OwsSales THEN Stage(lines) ELSE sale[s].prev
           row   == [sale[s] EXCEPT !.edited = TRUE, !.dated = FALSE, !.prev = "live", !.stage = x]
<1>1. /\ sale' = [sale EXCEPT ![s] = row] /\ line' = [line EXCEPT ![s] = lines]
      /\ sale[s].dated /\ \A a \in S : Restorable(s, a)
  BY DEF UncancelSale, SaleInv
<1>2. /\ sale[s] \in SaleRows /\ HeadOK(sale[s], line[s]) /\ sale[s].prev \in SaleStages
      /\ "live" \in SaleStages /\ TRUE \in BOOLEAN /\ FALSE \in BOOLEAN
  BY DEF SaleInv, SaleRows, SaleStages
<1>3. x \in SaleStages
  BY <1>2 DEF Stage, SaleStages
<1>4. S \in SUBSET Assets
  OBVIOUS
<1> HIDE DEF x, S
<1>5. row \in SaleRows
  BY <1>2, <1>3, Zenon DEF SaleRows
<1>6. row.dated = FALSE
  BY <1>2, Zenon DEF SaleRows
<1>7. /\ lines \in [Assets -> LineRows] /\ LinesOK(lines)
      /\ \A a \in Assets \ S : lines[a] = line[s][a]
  BY <1>4, RevivedOK
<1> HIDE DEF row, lines
<1>8. HeadOK(row, lines)
  BY <1>6 DEF HeadOK
<1>9. \A a \in Assets : Counts(s, row, lines, a)
  BY <1>1, <1>2, <1>7 DEF Counts, HeadOK, Restorable
<1> QED BY <1>1, <1>5, <1>7, <1>8, <1>9, OneSaleKeeps

\* TMS sends a line: never a second one for a machine of ours, nor a dead one alive again
LEMMA TmsLineKeeps ==
  ASSUME SaleInv, ~TmsRevives, NEW s \in TmsSales, NEW a \in Assets,
         NEW stage \in SaleStages \ {"none"}, TmsLine(s, a, stage)
  PROVE  SaleInv'
<1> DEFINE new   == [line[s][a] EXCEPT !.stage = stage]
           lines == [line[s] EXCEPT ![a] = new]
<1>0. s \in Sales
  BY DEF Sales
<1>1. /\ sale' = [sale EXCEPT ![s] = sale[s]] /\ line' = [line EXCEPT ![s] = lines]
      /\ ~Revives(Dead, line[s][a].stage, stage) /\ ~line[s][a].edited
      /\ line[s][a].stage = "none" => sale[s].stage # "cancelled"
      /\ line[s][a].stage = "none" => \A t \in Sales : ~(line[t][a].own /\ a \in LinesOf(t))
  BY <1>0 DEF TmsLine, MayFollow, SaleInv
<1>2. /\ sale[s] \in SaleRows /\ HeadOK(sale[s], line[s])
      /\ line[s] \in [Assets -> LineRows] /\ LinesOK(line[s]) /\ line[s][a] \in LineRows
  BY <1>0 DEF SaleInv
<1>3. new \in LineRows
  BY <1>2, Zenon DEF LineRows
<1>4. new.stage = stage /\ new.own = line[s][a].own /\ line[s][a].stage \in SaleStages
  BY <1>2, Zenon DEF LineRows
<1> HIDE DEF new
<1>5. /\ lines \in [Assets -> LineRows]
      /\ \A c \in Assets : lines[c] = IF c = a THEN new ELSE line[s][c]
  BY <1>2, <1>3
<1> HIDE DEF lines
<1>6. ~line[s][a].own
  BY <1>1, <1>2 DEF LinesOK
<1>7. LinesOK(lines)
  BY <1>2, <1>4, <1>5, <1>6 DEF LinesOK
<1>8. stage = "live" => line[s][a].stage = "live" \/ line[s][a].stage = "none"
  BY <1>1, <1>4 DEF Revives, Dead, SaleStages
<1>9. HeadOK(sale[s], lines)
  BY <1>1, <1>2, <1>4, <1>5, <1>8 DEF HeadOK
<1>10. ASSUME NEW c \in Assets
       PROVE  Counts(s, sale[s], lines, c)
  <2>1. CASE c # a
    BY <1>5, <2>1 DEF Counts
  <2>2. CASE c = a
    <3>1. lines[a].stage = stage /\ lines[a].own = line[s][a].own
      BY <1>4, <1>5
    <3>2. line[s][a].stage = "none" => \A t \in Selling(a) : ~line[t][a].own
      BY <1>1 DEF Selling
    <3> QED BY <1>6, <1>8, <2>2, <3>1, <3>2 DEF Counts
  <2> QED BY <2>1, <2>2
<1> QED BY <1>0, <1>1, <1>2, <1>5, <1>7, <1>9, <1>10, OneSaleKeeps

\* TMS sends the head of a slip
LEMMA TmsHeadKeeps ==
  ASSUME SaleInv, ~TmsRevives, NEW s \in TmsSales, NEW stage \in SaleStages \ {"none"},
         NEW paid \in BOOLEAN, TmsHead(s, stage, paid)
  PROVE  SaleInv'
<1>0. s \in Sales
  BY DEF Sales
<1> DEFINE x   == IF sale[s].edited THEN sale[s].stage ELSE stage
           row == [sale[s] EXCEPT !.stage = x, !.paid = paid]
<1>1. /\ sale[s] \in SaleRows /\ HeadOK(sale[s], line[s]) /\ sale[s].stage \in SaleStages
      /\ line[s] \in [Assets -> LineRows] /\ LinesOK(line[s])
  BY <1>0 DEF SaleInv, SaleRows
<1>2. sale' = [sale EXCEPT ![s] = row] /\ line' = [line EXCEPT ![s] = line[s]]
      /\ ~Revives({"cancelled"}, sale[s].stage, stage)
  <2>1. sale[s].edited => [sale[s] EXCEPT !.paid = paid] = row
    BY <1>1 DEF SaleRows
  <2> QED BY <1>0, <2>1 DEF TmsHead, MayFollow, SaleInv
<1>3. x \in SaleStages
  BY <1>1
<1>4. /\ sale[s].edited => x = sale[s].stage
      /\ sale[s].stage = "cancelled" => x = "cancelled"
  BY <1>2 DEF Revives
<1> HIDE DEF x
<1>5. row \in SaleRows
  BY <1>1, <1>3, Zenon DEF SaleRows
<1>6. row.dated = sale[s].dated /\ row.stage = x /\ row.edited = sale[s].edited
  BY <1>1, Zenon DEF SaleRows
<1> HIDE DEF row
<1>7. HeadOK(row, line[s])
  BY <1>1, <1>4, <1>6 DEF HeadOK
<1>8. \A a \in Assets : Counts(s, row, line[s], a)
  BY <1>4, <1>6 DEF Counts
<1> QED BY <1>0, <1>1, <1>2, <1>5, <1>7, <1>8, OneSaleKeeps

\* Every step of the sale screens, of TMS and of the desks beside
LEMMA SaleStepKeeps == SaleInv /\ ~TmsRevives /\ [SaleNext]_saleVars => SaleInv'
<1> SUFFICES ASSUME SaleInv, ~TmsRevives, [SaleNext]_saleVars PROVE SaleInv'
  OBVIOUS
<1>1. ASSUME UNCHANGED <<sale, line>>
      PROVE  SaleInv'
  BY <1>1 DEF SaleInv, SoldOnOneSlip, Selling, LinesOf
<1>2. ASSUME NEW s \in Sales, NEW restock \in BOOLEAN,
             \/ \E S \in SUBSET Assets : CreateSale(s, S) \/ (S # {} /\ AddLines(s, S))
             \/ \E stage \in {"live", "returned"}, paid \in BOOLEAN : EditHead(s, stage, paid)
             \/ \E a \in Assets : \/ EditLine(s, a) \/ UndoLine(s, a)
                                  \/ \E stage \in Dead : DropLine(s, a, stage, restock)
             \/ CancelSale(s, restock) \/ UncancelSale(s)
      PROVE  SaleInv'
  BY <1>2, AddedLinesKeep, EditHeadKeeps, ChangedLineKeeps, CancelSaleKeeps, UncancelSaleKeeps
<1>3. ASSUME NEW s \in TmsSales, NEW stage \in SaleStages \ {"none"},
             \/ \E a \in Assets : TmsLine(s, a, stage)
             \/ \E paid \in BOOLEAN : TmsHead(s, stage, paid)
      PROVE  SaleInv'
  BY <1>3, TmsLineKeeps, TmsHeadKeeps
<1>4. ASSUME NEW a \in Assets, PutBack(a) \/ Dismiss(a)
      PROVE  SaleInv'
  BY <1>1, <1>4 DEF PutBack, Dismiss
<1>5. CASE UNCHANGED saleVars
  BY <1>1, <1>5 DEF saleVars
<1> QED BY <1>2, <1>3, <1>4, <1>5 DEF SaleNext

\* Nothing is sold at first
LEMMA SaleInitKeeps == SaleInit => SaleInv
<1> SUFFICES ASSUME SaleInit PROVE SaleInv
  OBVIOUS
<1>1. NoSale \in SaleRows /\ NoLine \in LineRows
  <2>1. "none" \in SaleStages /\ "live" \in SaleStages /\ FALSE \in BOOLEAN
        /\ "" \in {"", "line", "slip"}
    BY DEF SaleStages
  <2> QED BY <2>1, Zenon DEF NoSale, NoLine, SaleRows, LineRows
<1>2. NoSale.dated = FALSE /\ NoLine.own = FALSE /\ NoLine.stage = "none"
  BY Zenon DEF NoSale, NoLine
<1>3. \A s \in Sales : sale[s] = NoSale /\ \A a \in Assets : line[s][a] = NoLine
  BY DEF SaleInit
<1>4. sale \in [Sales -> SaleRows] /\ line \in [Sales -> [Assets -> LineRows]]
  BY <1>1 DEF SaleInit
<1>5. \A s \in Sales : HeadOK(sale[s], line[s]) /\ LinesOK(line[s])
  BY <1>2, <1>3 DEF HeadOK, LinesOK
<1>6. SoldOnOneSlip
  BY <1>2, <1>3 DEF SoldOnOneSlip, Selling, LinesOf
<1> QED BY <1>4, <1>5, <1>6 DEF SaleInv

\* A machine sold on a slip of this program is on no other living line, whatever is cancelled,
\* returned and taken up again here and whatever TMS sends, as long as TMS revives no dead sale
\* (_check_asset, _restore_guard, upsert_asset_sales)
THEOREM SalesAreSingle == SaleSpec /\ ~TmsRevives => []SoldOnOneSlip
<1> SUFFICES ASSUME ~TmsRevives PROVE SaleSpec => []SoldOnOneSlip
  OBVIOUS
<1>1. SaleInv => SoldOnOneSlip
  BY DEF SaleInv
<1>2. SaleInv /\ [SaleNext]_saleVars => SaleInv'
  BY SaleStepKeeps
<1> QED BY <1>1, <1>2, SaleInitKeeps, PTL DEF SaleSpec
-----------------------------------------------------------------------------
(***************************************************************************)
(* The ledger of parts                                                     *)
(***************************************************************************)
NetFold(it, rows, p) ==
  it = [s \in SUBSET (DOMAIN rows) |->
          IF s = {} THEN 0 ELSE it[s \ {Max(s)}] + Moved(rows[Max(s)], p)]
\* what was taken out by the first n rows, for each n
NetRun(g, rows, p) ==
  /\ g[0] = 0 /\ g[Len(rows)] = Net(rows, p)
  /\ \A n \in 1..Len(rows) : g[n] = g[n-1] + Moved(rows[n], p)

\* The moves of some rows, summed up row by row
LEMMA NetInTurn ==
  ASSUME NEW R, NEW rows \in Seq(R), NEW p
  PROVE  \E g \in [0..Len(rows) -> Int] : NetRun(g, rows, p)
<1> DEFINE N == Len(rows)
           V == Int
           z == 0
           step == [q \in (1..N) \X V |-> q[2] + Moved(rows[q[1]], p)]
<1>1. N \in Nat /\ DOMAIN rows = 1..N
  OBVIOUS
<1>2. \A n \in 1..N : Moved(rows[n], p) \in Int
  BY DEF Moved
<1>0. V = Int /\ z = 0
  OBVIOUS
<1>3. \A n \in 1..N, v \in Int :
        step[<<n, v>>] = v + Moved(rows[n], p) /\ step[<<n, v>>] \in Int
  BY <1>2
<1> HIDE DEF step, N, V, z
<1>4. Within(step, 1..N, V)
  BY <1>0, <1>3 DEF Within
<1>5. PICK it \in [SUBSET (1..N) -> V] : IsRun(it, N, z, step)
  <2>1. z \in V
    BY <1>0
  <2> QED BY <1>1, <1>4, <2>1, RunExists, Zenon
<1>6. NetFold(it, rows, p)
  <2>1. ASSUME NEW s \in SUBSET (1..N)
        PROVE  it[s] = IF s = {} THEN 0 ELSE it[s \ {Max(s)}] + Moved(rows[Max(s)], p)
    <3>1. CASE s = {}
      BY <1>0, <1>5, <3>1 DEF IsRun
    <3>2. CASE s # {}
      <4>1. Max(s) \in 1..N
        <5>1. s \in SUBSET (0..N)
          BY <1>1
        <5> QED BY <1>1, <3>2, <5>1, MaxIsLargest
      <4>2. it[s \ {Max(s)}] \in V
        BY <1>5
      <4>3. it[s] = step[<<Max(s), it[s \ {Max(s)}]>>]
        BY <1>5, <3>2 DEF IsRun
      <4> QED BY <1>0, <1>3, <3>2, <4>1, <4>2, <4>3
    <3> QED BY <3>1, <3>2
  <2>2. it = [s \in SUBSET (1..N) |-> it[s]]
    BY <1>5
  <2>3. it = [s \in SUBSET (1..N) |->
                IF s = {} THEN 0 ELSE it[s \ {Max(s)}] + Moved(rows[Max(s)], p)]
    BY <2>1, <2>2
  <2> QED BY <1>1, <2>3, Zenon DEF NetFold
<1>7. \E kt : NetFold(kt, rows, p) /\ Net(rows, p) = kt[1..N]
  <2> DEFINE jt == CHOOSE kt : NetFold(kt, rows, p)
  <2>1. NetFold(jt, rows, p)
    BY <1>6, Zenon
  <2>2. Net(rows, p) = jt[1..N]
    BY <1>1, Zenon DEF Net, FoldLeft, MapThenFoldSet, NetFold
  <2> QED BY <2>1, <2>2
<1>8. PICK jt : NetFold(jt, rows, p) /\ Net(rows, p) = jt[1..N]
  BY <1>7
<1>9. \A s \in SUBSET (1..N) :
        jt[s] = IF s = {} THEN 0 ELSE jt[s \ {Max(s)}] + Moved(rows[Max(s)], p)
  BY <1>1, <1>8, Zenon DEF NetFold
<1>10. jt[{}] = 0
  BY <1>9, Zenon
<1>11. FoldsIn(jt, N, V, z, step)
  <2>1. ASSUME NEW s \in SUBSET (1..N), s # {}, jt[s \ {Max(s)}] \in V
        PROVE  jt[s] = step[<<Max(s), jt[s \ {Max(s)}]>>]
    <3>1. s \in SUBSET (0..N)
      BY <1>1
    <3>2. Max(s) \in 1..N
      BY <1>1, <2>1, <3>1, MaxIsLargest
    <3>3. jt[s] = jt[s \ {Max(s)}] + Moved(rows[Max(s)], p)
      BY <1>9, <2>1, Zenon
    <3> QED BY <1>0, <1>3, <2>1, <3>2, <3>3
  <2> QED BY <1>0, <1>10, <2>1 DEF FoldsIn
<1>12. PICK g \in [0..N -> V] : Chain(g, N, z, step) /\ g[N] = jt[1..N]
  <2>1. z \in V /\ N \in Nat
    BY <1>0, <1>1
  <2> QED BY <1>4, <1>11, <2>1, RunOfFold
<1>13. \A n \in 1..N : g[n] = g[n-1] + Moved(rows[n], p)
  <2> SUFFICES ASSUME NEW n \in 1..N PROVE g[n] = g[n-1] + Moved(rows[n], p)
    OBVIOUS
  <2>1. g[n-1] \in V
    BY <1>1
  <2>2. g[n] = step[<<n, g[n-1]>>]
    BY <1>12 DEF Chain
  <2> QED BY <1>0, <1>3, <2>1, <2>2
<1>14. g[0] = 0
  BY <1>0, <1>12 DEF Chain
<1> QED BY <1>0, <1>8, <1>12, <1>13, <1>14 DEF N, NetRun
\* what the first n of some rows have moved, for each n up to k
MovesUp(g, k, rows, p) == g[0] = 0 /\ \A n \in 1..k : g[n] = g[n-1] + Moved(rows[n], p)

\* Rows that begin alike have moved alike
LEMMA RunsAgree ==
  ASSUME NEW k \in Nat, NEW p, NEW r, NEW s, NEW g, NEW h, MovesUp(g, k, r, p), MovesUp(h, k, s, p),
         \A n \in 1..k : r[n] = s[n]
  PROVE  \A n \in 0..k : g[n] = h[n]
<1> DEFINE T == {n \in 0..k : g[n] = h[n]}
<1>1. 0 \in T
  BY DEF MovesUp
<1>2. ASSUME NEW n \in 1..k, n - 1 \in T PROVE n \in T
  <2>1. n \in 0..k /\ g[n-1] = h[n-1] /\ g[n] = g[n-1] + Moved(r[n], p)
    BY <1>2 DEF MovesUp
  <2>2. h[n] = h[n-1] + Moved(s[n], p) /\ Moved(r[n], p) = Moved(s[n], p)
    BY DEF MovesUp
  <2>3. g[n] = h[n]
    BY <2>1, <2>2
  <2> QED BY <2>1, <2>3
<1> HIDE DEF T
<1>3. 0..k \subseteq T
  BY <1>1, <1>2, StepByStep
<1> QED BY <1>3 DEF T

\* What no rows, and one more row, have moved
LEMMA NetOfNothing == \A p : Net(<<>>, p) = 0
<1> SUFFICES ASSUME NEW p PROVE Net(<<>>, p) = 0
  OBVIOUS
<1>1. <<>> \in Seq({}) /\ Len(<<>>) = 0
  OBVIOUS
<1>2. PICK g \in [0..Len(<<>>) -> Int] : NetRun(g, <<>>, p)
  BY <1>1, NetInTurn
<1> QED BY <1>1, <1>2 DEF NetRun

\* One more row, and the sum is a number
LEMMA NetOfOneMore ==
  ASSUME NEW R, NEW rows \in Seq(R), NEW row \in R, NEW p
  PROVE  /\ Net(rows, p) \in Int /\ Moved(row, p) \in Int
         /\ Net(Append(rows, row), p) = Net(rows, p) + Moved(row, p)
<1> DEFINE more == Append(rows, row)
           N == Len(rows)
<1>1. /\ N \in Nat /\ more \in Seq(R) /\ Len(more) = N + 1 /\ more[N+1] = row
      /\ \A n \in 1..N : more[n] = rows[n]
  OBVIOUS
<1> HIDE DEF more
<1>2. PICK g \in [0..Len(rows) -> Int] : NetRun(g, rows, p)
  BY NetInTurn
<1>3. PICK h \in [0..Len(more) -> Int] : NetRun(h, more, p)
  BY <1>1, NetInTurn
<1> HIDE DEF N
<1>4. /\ g[0] = 0 /\ g[N] = Net(rows, p) /\ g[N] \in Int
      /\ \A n \in 1..N : g[n] = g[n-1] + Moved(rows[n], p)
  <2>1. N \in 0..N /\ N = Len(rows)
    BY <1>1 DEF N
  <2>2. g[N] \in Int
    BY <2>1
  <2> QED BY <1>2, <2>1, <2>2, Zenon DEF NetRun
<1>5. /\ h[0] = 0 /\ h[N+1] = Net(more, p)
      /\ \A n \in 1..(N+1) : h[n] = h[n-1] + Moved(more[n], p)
  BY <1>1, <1>3 DEF NetRun
<1>6. g[N] = h[N]
  <2>1. MovesUp(g, N, rows, p)
    BY <1>4 DEF MovesUp
  <2>2. MovesUp(h, N, more, p)
    BY <1>1, <1>5 DEF MovesUp
  <2>3. N \in Nat /\ \A n \in 1..N : rows[n] = more[n]
    BY <1>1
  <2>4. \A n \in 0..N : g[n] = h[n]
    BY <2>1, <2>2, <2>3, RunsAgree
  <2> QED BY <2>3, <2>4
<1>7. h[N+1] = h[N] + Moved(row, p)
  <2>1. N + 1 \in 1..(N+1) /\ (N + 1) - 1 = N
    BY <1>1
  <2> QED BY <1>1, <1>5, <2>1
<1>8. Moved(row, p) \in Int
  BY DEF Moved
<1> QED BY <1>4, <1>5, <1>6, <1>7, <1>8 DEF more

\* A row taken out: the rows before it stay in their places, those behind it move up
LEMMA RemovedAt ==
  ASSUME NEW R, NEW rows \in Seq(R), NEW i \in DOMAIN rows
  PROVE  /\ RemoveAt(rows, i) \in Seq(R) /\ Len(RemoveAt(rows, i)) = Len(rows) - 1
         /\ \A n \in 1..(i-1) : RemoveAt(rows, i)[n] = rows[n]
         /\ \A n \in i..(Len(rows)-1) : RemoveAt(rows, i)[n] = rows[n+1]
<1> DEFINE A == SubSeq(rows, 1, i - 1)
           B == SubSeq(rows, i + 1, Len(rows))
           N == Len(rows)
<1>1. N \in Nat /\ i \in 1..N /\ DOMAIN rows = 1..N
  OBVIOUS
<1>2. \A n \in 1..N : rows[n] \in R
  OBVIOUS
<1> HIDE DEF N
<1>3. A \in Seq(R) /\ Len(A) = i - 1 /\ \A n \in 1..(i-1) : A[n] = rows[n]
  <2>1. 1 \in Int /\ i - 1 \in Int /\ \A n \in 1..(i-1) : rows[n] \in R /\ n \in 1..N
    BY <1>1, <1>2
  <2> QED BY <2>1, <1>1, SubSeqProperties
<1>4. B \in Seq(R) /\ Len(B) = N - i /\ \A n \in 1..(N-i) : B[n] = rows[n+i]
  <2>1. i + 1 \in 1..(N+1) /\ N \in i..N
    BY <1>1
  <2> QED BY <2>1, <1>1, SubSeqProperties DEF N
<1> HIDE DEF A, B
<1>5. /\ A \o B \in Seq(R) /\ Len(A \o B) = N - 1
      /\ \A n \in 1..(N-1) : (A \o B)[n] = IF n <= i - 1 THEN A[n] ELSE B[n - (i - 1)]
  <2>1. /\ A \o B \in Seq(R) /\ Len(A \o B) = Len(A) + Len(B)
        /\ \A n \in 1..(Len(A) + Len(B)) : (A \o B)[n] = IF n <= Len(A) THEN A[n] ELSE B[n - Len(A)]
    BY <1>3, <1>4, ConcatProperties, Zenon
  <2>2. Len(A) + Len(B) = N - 1
    BY <1>1, <1>3, <1>4
  <2> QED BY <1>3, <2>1, <2>2, Zenon
<1>6. RemoveAt(rows, i) = A \o B
  BY Zenon DEF RemoveAt, A, B
<1>7. \A n \in 1..(i-1) : (A \o B)[n] = rows[n]
  BY <1>1, <1>3, <1>5
<1>8. ASSUME NEW n \in i..(N-1) PROVE (A \o B)[n] = rows[n+1]
  <2>1. n \in 1..(N-1) /\ ~(n <= i - 1) /\ n - (i - 1) \in 1..(N-i)
    BY <1>1
  <2>2. (A \o B)[n] = B[n - (i - 1)]
    BY <1>5, <2>1
  <2>3. B[n - (i - 1)] = rows[(n - (i - 1)) + i] /\ (n - (i - 1)) + i = n + 1
    BY <1>1, <1>4, <2>1
  <2> QED BY <2>2, <2>3
<1> QED BY <1>5, <1>6, <1>7, <1>8 DEF N

\* One row less
LEMMA NetOfOneLess ==
  ASSUME NEW R, NEW rows \in Seq(R), NEW i \in DOMAIN rows, NEW p
  PROVE  Net(RemoveAt(rows, i), p) = Net(rows, p) - Moved(rows[i], p)
<1> DEFINE less == RemoveAt(rows, i)
           N == Len(rows)
           w == Moved(rows[i], p)
<1>1. N \in Nat /\ i \in 1..N
  OBVIOUS
<1>2. /\ less \in Seq(R) /\ Len(less) = N - 1
      /\ \A n \in 1..(i-1) : less[n] = rows[n]
      /\ \A n \in i..(N-1) : less[n] = rows[n+1]
  BY RemovedAt
<1> HIDE DEF less
<1>3. PICK g \in [0..Len(rows) -> Int] : NetRun(g, rows, p)
  BY NetInTurn
<1>4. PICK h \in [0..Len(less) -> Int] : NetRun(h, less, p)
  BY <1>2, NetInTurn
<1>5. /\ g[0] = 0 /\ g[N] = Net(rows, p)
      /\ \A n \in 1..N : g[n] = g[n-1] + Moved(rows[n], p)
  BY <1>3, Zenon DEF NetRun
<1>6. \A n \in 0..N : g[n] \in Int
  BY <1>3
<1>7. /\ h[0] = 0 /\ h[N-1] = Net(less, p)
      /\ \A n \in 1..(N-1) : h[n] = h[n-1] + Moved(less[n], p)
  BY <1>2, <1>4, Zenon DEF NetRun
<1>8. \A n \in 0..(N-1) : h[n] \in Int
  BY <1>2, <1>4
<1>9. w \in Int /\ \A n \in 1..N : Moved(rows[n], p) \in Int
  BY DEF Moved
<1>10. g[i] = g[i-1] + w
  BY <1>1, <1>5
<1> HIDE DEF N, w
\* before the row nothing is different
<1>11. \A n \in 0..(i-1) : g[n] = h[n]
  <2>1. \A n \in 1..(i-1) : n \in 1..N /\ n \in 1..(N-1)
    BY <1>1
  <2>2. MovesUp(g, i - 1, rows, p)
    BY <1>5, <2>1 DEF MovesUp
  <2>3. MovesUp(h, i - 1, less, p)
    BY <1>7, <2>1 DEF MovesUp
  <2>4. i - 1 \in Nat /\ \A n \in 1..(i-1) : rows[n] = less[n]
    BY <1>1, <1>2
  <2> QED BY <2>2, <2>3, <2>4, RunsAgree
\* behind it, it is missing
<1> DEFINE T == {k \in 0..(N-i) : h[k+(i-1)] = g[k+i] - w}
<1>12. 0 \in T
  <2>1. 0 \in 0..(N-i) /\ 0 + (i - 1) = i - 1 /\ 0 + i = i /\ i - 1 \in 0..(i-1) /\ i - 1 \in 0..N
    BY <1>1
  <2>2. h[i-1] = g[i-1] /\ g[i-1] \in Int
    BY <1>6, <1>11, <2>1
  <2>3. h[i-1] = g[i] - w
    BY <1>9, <1>10, <2>2
  <2> QED BY <2>1, <2>3
<1>13. ASSUME NEW k \in 1..(N-i), k - 1 \in T PROVE k \in T
  <2> DEFINE n == k + (i - 1)
  <2>1. /\ n \in 1..(N-1) /\ n \in i..(N-1) /\ n + 1 \in 1..N /\ n + 1 = k + i /\ k \in 0..(N-i)
        /\ (k - 1) + (i - 1) = n - 1 /\ (k - 1) + i = n /\ n \in 0..N /\ n + 1 \in 0..N
        /\ n - 1 \in 0..(N-1) /\ (n + 1) - 1 = n
    BY <1>1
  <2> HIDE DEF n
  <2>2. h[n-1] = g[n] - w
    BY <1>13, <2>1
  <2>3. less[n] = rows[n+1]
    BY <1>2, <2>1
  <2>4. h[n] = h[n-1] + Moved(rows[n+1], p)
    BY <1>7, <2>1, <2>3
  <2>5. g[n+1] = g[n] + Moved(rows[n+1], p)
    BY <1>5, <2>1
  <2>6. g[n] \in Int /\ Moved(rows[n+1], p) \in Int
    BY <1>6, <1>9, <2>1
  <2>7. h[n] = g[n+1] - w
    BY <1>9, <2>2, <2>4, <2>5, <2>6
  <2> QED BY <2>1, <2>7 DEF n
<1> HIDE DEF T
<1>14. N - i \in T
  <2>1. N - i \in Nat
    BY <1>1
  <2>2. 0..(N-i) \subseteq T
    BY <1>12, <1>13, <2>1, StepByStep
  <2> QED BY <2>1, <2>2
<1>15. h[N-1] = g[N] - w
  <2>1. (N - i) + (i - 1) = N - 1 /\ (N - i) + i = N
    BY <1>1
  <2> QED BY <1>14, <2>1 DEF T
<1> QED BY <1>5, <1>7, <1>15 DEF less, w
OptionsOver(led, seq, a, o) == FoldLeft(LAMBDA l, x : WithOption(l, a, o, x), led, seq)
OptionFold(it, led, seq, a, o) ==
  it = [s \in SUBSET (DOMAIN seq) |->
          IF s = {} THEN led ELSE WithOption(it[s \ {Max(s)}], a, o, seq[Max(s)])]

OptionsStay(V, E, a, o) == \A v \in V, e \in E : WithOption(v, a, o, e) \in V
OptionsRun(g, led, seq, a, o) ==
  /\ g[0] = led /\ g[Len(seq)] = OptionsOver(led, seq, a, o)
  /\ \A n \in 1..Len(seq) : g[n] = WithOption(g[n-1], a, o, seq[n])

\* The options of one machine are booked one after the other
LEMMA OptionsInTurn ==
  ASSUME NEW V, NEW led \in V, NEW E, NEW seq \in Seq(E), NEW a, NEW o,
         OptionsStay(V, E, a, o)
  PROVE  \E g \in [0..Len(seq) -> V] : OptionsRun(g, led, seq, a, o)
<1> DEFINE N == Len(seq)
           step == [q \in (1..N) \X V |-> WithOption(q[2], a, o, seq[q[1]])]
<1>1. N \in Nat /\ DOMAIN seq = 1..N /\ \A n \in 1..N : seq[n] \in E
  OBVIOUS
<1>2. \A n \in 1..N, v \in V : step[<<n, v>>] = WithOption(v, a, o, seq[n]) /\ step[<<n, v>>] \in V
  BY <1>1 DEF OptionsStay
<1> HIDE DEF step, N
<1>3. Within(step, 1..N, V)
  BY <1>2 DEF Within
<1>4. PICK it \in [SUBSET (1..N) -> V] : IsRun(it, N, led, step)
  BY <1>1, <1>3, RunExists, Zenon
<1>5. \A s \in SUBSET (1..N) : s # {} => Max(s) \in 1..N
  <2>1. ASSUME NEW s \in SUBSET (1..N), s # {} PROVE Max(s) \in 1..N
    <3>1. s \in SUBSET (0..N)
      BY <1>1
    <3> QED BY <1>1, <2>1, <3>1, MaxIsLargest
  <2> QED BY <2>1, Zenon
<1>6. OptionFold(it, led, seq, a, o)
  <2>1. ASSUME NEW s \in SUBSET (1..N)
        PROVE  it[s] = IF s = {} THEN led ELSE WithOption(it[s \ {Max(s)}], a, o, seq[Max(s)])
    <3>1. CASE s = {}
      BY <1>4, <3>1, Zenon DEF IsRun
    <3>2. CASE s # {}
      <4>1. Max(s) \in 1..N
        BY <1>5, <3>2, Zenon
      <4>2. it[s \ {Max(s)}] \in V
        BY <1>4
      <4>3. it[s] = step[<<Max(s), it[s \ {Max(s)}]>>]
        BY <1>4, <3>2, Zenon DEF IsRun
      <4>4. step[<<Max(s), it[s \ {Max(s)}]>>] = WithOption(it[s \ {Max(s)}], a, o, seq[Max(s)])
        BY <1>2, <4>1, <4>2, Zenon
      <4> QED BY <3>2, <4>3, <4>4, Zenon
    <3> QED BY <3>1, <3>2, Zenon
  <2>2. it = [s \in SUBSET (1..N) |-> it[s]]
    BY <1>4
  <2>3. it = [s \in SUBSET (1..N) |->
                IF s = {} THEN led ELSE WithOption(it[s \ {Max(s)}], a, o, seq[Max(s)])]
    BY <2>1, <2>2, Zenon
  <2> QED BY <1>1, <2>3, Zenon DEF OptionFold
<1>7. PICK jt : /\ OptionFold(jt, led, seq, a, o)
                /\ OptionsOver(led, seq, a, o) = jt[1..N]
  <2> DEFINE jt == CHOOSE kt : OptionFold(kt, led, seq, a, o)
  <2>1. OptionFold(jt, led, seq, a, o)
    BY <1>6, Zenon
  <2>2. OptionsOver(led, seq, a, o) = jt[1..N]
    BY <1>1, Zenon DEF OptionsOver, FoldLeft, MapThenFoldSet, OptionFold
  <2> QED BY <2>1, <2>2, Zenon
<1>8. \A s \in SUBSET (1..N) :
        jt[s] = IF s = {} THEN led ELSE WithOption(jt[s \ {Max(s)}], a, o, seq[Max(s)])
  BY <1>1, <1>7, Zenon DEF OptionFold
<1>9. FoldsIn(jt, N, V, led, step)
  <2>1. jt[{}] = led
    BY <1>8, Zenon
  <2>2. ASSUME NEW s \in SUBSET (1..N), s # {}, jt[s \ {Max(s)}] \in V
        PROVE  jt[s] = step[<<Max(s), jt[s \ {Max(s)}]>>]
    <3>1. jt[s] = WithOption(jt[s \ {Max(s)}], a, o, seq[Max(s)])
      BY <1>8, <2>2, Zenon
    <3>2. Max(s) \in 1..N
      BY <1>5, <2>2, Zenon
    <3> QED BY <1>2, <2>2, <3>1, <3>2, Zenon
  <2> QED BY <2>1, <2>2, Zenon DEF FoldsIn
<1>10. PICK g \in [0..N -> V] : Chain(g, N, led, step) /\ g[N] = jt[1..N]
  <2>1. N \in Nat
    BY <1>1
  <2> QED BY <1>3, <1>9, <2>1, RunOfFold
<1>11. \A n \in 1..N : g[n] = WithOption(g[n-1], a, o, seq[n])
  <2> SUFFICES ASSUME NEW n \in 1..N PROVE g[n] = WithOption(g[n-1], a, o, seq[n])
    OBVIOUS
  <2>1. g[n-1] \in V
    <3>1. n - 1 \in 0..N
      BY <1>1
    <3> QED BY <3>1
  <2>2. g[n] = step[<<n, g[n-1]>>]
    BY <1>10, Zenon DEF Chain
  <2> QED BY <1>2, <2>1, <2>2, Zenon
<1> QED BY <1>7, <1>10, <1>11, Zenon DEF Chain, N, OptionsRun

MachinesOver(led, seq, o, xs) == FoldLeft(LAMBDA l, x : WithOptions(l, x, o, xs), led, seq)
MachineFold(it, led, seq, o, xs) ==
  it = [s \in SUBSET (DOMAIN seq) |->
          IF s = {} THEN led ELSE WithOptions(it[s \ {Max(s)}], seq[Max(s)], o, xs)]

MachinesStay(V, E, o, xs) == \A v \in V, e \in E : WithOptions(v, e, o, xs) \in V
MachinesRun(g, led, seq, o, xs) ==
  /\ g[0] = led /\ g[Len(seq)] = MachinesOver(led, seq, o, xs)
  /\ \A n \in 1..Len(seq) : g[n] = WithOptions(g[n-1], seq[n], o, xs)

\* The options are booked on one machine after the other
LEMMA MachinesInTurn ==
  ASSUME NEW V, NEW led \in V, NEW E, NEW seq \in Seq(E), NEW o, NEW xs,
         MachinesStay(V, E, o, xs)
  PROVE  \E g \in [0..Len(seq) -> V] : MachinesRun(g, led, seq, o, xs)
<1> DEFINE N == Len(seq)
           step == [q \in (1..N) \X V |-> WithOptions(q[2], seq[q[1]], o, xs)]
<1>1. N \in Nat /\ DOMAIN seq = 1..N /\ \A n \in 1..N : seq[n] \in E
  OBVIOUS
<1>2. \A n \in 1..N, v \in V : step[<<n, v>>] = WithOptions(v, seq[n], o, xs) /\ step[<<n, v>>] \in V
  BY <1>1 DEF MachinesStay
<1> HIDE DEF step, N
<1>3. Within(step, 1..N, V)
  BY <1>2 DEF Within
<1>4. PICK it \in [SUBSET (1..N) -> V] : IsRun(it, N, led, step)
  BY <1>1, <1>3, RunExists, Zenon
<1>5. \A s \in SUBSET (1..N) : s # {} => Max(s) \in 1..N
  <2>1. ASSUME NEW s \in SUBSET (1..N), s # {} PROVE Max(s) \in 1..N
    <3>1. s \in SUBSET (0..N)
      BY <1>1
    <3> QED BY <1>1, <2>1, <3>1, MaxIsLargest
  <2> QED BY <2>1, Zenon
<1>6. MachineFold(it, led, seq, o, xs)
  <2>1. ASSUME NEW s \in SUBSET (1..N)
        PROVE  it[s] = IF s = {} THEN led ELSE WithOptions(it[s \ {Max(s)}], seq[Max(s)], o, xs)
    <3>1. CASE s = {}
      BY <1>4, <3>1, Zenon DEF IsRun
    <3>2. CASE s # {}
      <4>1. Max(s) \in 1..N
        BY <1>5, <3>2, Zenon
      <4>2. it[s \ {Max(s)}] \in V
        BY <1>4
      <4>3. it[s] = step[<<Max(s), it[s \ {Max(s)}]>>]
        BY <1>4, <3>2, Zenon DEF IsRun
      <4>4. step[<<Max(s), it[s \ {Max(s)}]>>] = WithOptions(it[s \ {Max(s)}], seq[Max(s)], o, xs)
        BY <1>2, <4>1, <4>2, Zenon
      <4> QED BY <3>2, <4>3, <4>4, Zenon
    <3> QED BY <3>1, <3>2, Zenon
  <2>2. it = [s \in SUBSET (1..N) |-> it[s]]
    BY <1>4
  <2>3. it = [s \in SUBSET (1..N) |->
                IF s = {} THEN led ELSE WithOptions(it[s \ {Max(s)}], seq[Max(s)], o, xs)]
    BY <2>1, <2>2, Zenon
  <2> QED BY <1>1, <2>3, Zenon DEF MachineFold
<1>7. PICK jt : /\ MachineFold(jt, led, seq, o, xs)
                /\ MachinesOver(led, seq, o, xs) = jt[1..N]
  <2> DEFINE jt == CHOOSE kt : MachineFold(kt, led, seq, o, xs)
  <2>1. MachineFold(jt, led, seq, o, xs)
    BY <1>6, Zenon
  <2>2. MachinesOver(led, seq, o, xs) = jt[1..N]
    BY <1>1, Zenon DEF MachinesOver, FoldLeft, MapThenFoldSet, MachineFold
  <2> QED BY <2>1, <2>2, Zenon
<1>8. \A s \in SUBSET (1..N) :
        jt[s] = IF s = {} THEN led ELSE WithOptions(jt[s \ {Max(s)}], seq[Max(s)], o, xs)
  BY <1>1, <1>7, Zenon DEF MachineFold
<1>9. FoldsIn(jt, N, V, led, step)
  <2>1. jt[{}] = led
    BY <1>8, Zenon
  <2>2. ASSUME NEW s \in SUBSET (1..N), s # {}, jt[s \ {Max(s)}] \in V
        PROVE  jt[s] = step[<<Max(s), jt[s \ {Max(s)}]>>]
    <3>1. jt[s] = WithOptions(jt[s \ {Max(s)}], seq[Max(s)], o, xs)
      BY <1>8, <2>2, Zenon
    <3>2. Max(s) \in 1..N
      BY <1>5, <2>2, Zenon
    <3> QED BY <1>2, <2>2, <3>1, <3>2, Zenon
  <2> QED BY <2>1, <2>2, Zenon DEF FoldsIn
<1>10. PICK g \in [0..N -> V] : Chain(g, N, led, step) /\ g[N] = jt[1..N]
  <2>1. N \in Nat
    BY <1>1
  <2> QED BY <1>3, <1>9, <2>1, RunOfFold
<1>11. \A n \in 1..N : g[n] = WithOptions(g[n-1], seq[n], o, xs)
  <2> SUFFICES ASSUME NEW n \in 1..N PROVE g[n] = WithOptions(g[n-1], seq[n], o, xs)
    OBVIOUS
  <2>1. g[n-1] \in V
    <3>1. n - 1 \in 0..N
      BY <1>1
    <3> QED BY <3>1
  <2>2. g[n] = step[<<n, g[n-1]>>]
    BY <1>10, Zenon DEF Chain
  <2> QED BY <1>2, <2>1, <2>2, Zenon
<1> QED BY <1>7, <1>10, <1>11, Zenon DEF Chain, N, MachinesRun

GivenOver(led, seq, a, o) == FoldLeft(LAMBDA l, x : Given(l, a, o, x), led, seq)
GivenFold(it, led, seq, a, o) ==
  it = [s \in SUBSET (DOMAIN seq) |->
          IF s = {} THEN led ELSE Given(it[s \ {Max(s)}], a, o, seq[Max(s)])]

GivenStay(V, E, a, o) == \A v \in V, e \in E : Given(v, a, o, e) \in V
GivenRun(g, led, seq, a, o) ==
  /\ g[0] = led /\ g[Len(seq)] = GivenOver(led, seq, a, o)
  /\ \A n \in 1..Len(seq) : g[n] = Given(g[n-1], a, o, seq[n])

\* What waited is given to the machine row by row
LEMMA GivenInTurn ==
  ASSUME NEW V, NEW led \in V, NEW E, NEW seq \in Seq(E), NEW a, NEW o,
         GivenStay(V, E, a, o)
  PROVE  \E g \in [0..Len(seq) -> V] : GivenRun(g, led, seq, a, o)
<1> DEFINE N == Len(seq)
           step == [q \in (1..N) \X V |-> Given(q[2], a, o, seq[q[1]])]
<1>1. N \in Nat /\ DOMAIN seq = 1..N /\ \A n \in 1..N : seq[n] \in E
  OBVIOUS
<1>2. \A n \in 1..N, v \in V : step[<<n, v>>] = Given(v, a, o, seq[n]) /\ step[<<n, v>>] \in V
  BY <1>1 DEF GivenStay
<1> HIDE DEF step, N
<1>3. Within(step, 1..N, V)
  BY <1>2 DEF Within
<1>4. PICK it \in [SUBSET (1..N) -> V] : IsRun(it, N, led, step)
  BY <1>1, <1>3, RunExists, Zenon
<1>5. \A s \in SUBSET (1..N) : s # {} => Max(s) \in 1..N
  <2>1. ASSUME NEW s \in SUBSET (1..N), s # {} PROVE Max(s) \in 1..N
    <3>1. s \in SUBSET (0..N)
      BY <1>1
    <3> QED BY <1>1, <2>1, <3>1, MaxIsLargest
  <2> QED BY <2>1, Zenon
<1>6. GivenFold(it, led, seq, a, o)
  <2>1. ASSUME NEW s \in SUBSET (1..N)
        PROVE  it[s] = IF s = {} THEN led ELSE Given(it[s \ {Max(s)}], a, o, seq[Max(s)])
    <3>1. CASE s = {}
      BY <1>4, <3>1, Zenon DEF IsRun
    <3>2. CASE s # {}
      <4>1. Max(s) \in 1..N
        BY <1>5, <3>2, Zenon
      <4>2. it[s \ {Max(s)}] \in V
        BY <1>4
      <4>3. it[s] = step[<<Max(s), it[s \ {Max(s)}]>>]
        BY <1>4, <3>2, Zenon DEF IsRun
      <4>4. step[<<Max(s), it[s \ {Max(s)}]>>] = Given(it[s \ {Max(s)}], a, o, seq[Max(s)])
        BY <1>2, <4>1, <4>2, Zenon
      <4> QED BY <3>2, <4>3, <4>4, Zenon
    <3> QED BY <3>1, <3>2, Zenon
  <2>2. it = [s \in SUBSET (1..N) |-> it[s]]
    BY <1>4
  <2>3. it = [s \in SUBSET (1..N) |->
                IF s = {} THEN led ELSE Given(it[s \ {Max(s)}], a, o, seq[Max(s)])]
    BY <2>1, <2>2, Zenon
  <2> QED BY <1>1, <2>3, Zenon DEF GivenFold
<1>7. PICK jt : /\ GivenFold(jt, led, seq, a, o)
                /\ GivenOver(led, seq, a, o) = jt[1..N]
  <2> DEFINE jt == CHOOSE kt : GivenFold(kt, led, seq, a, o)
  <2>1. GivenFold(jt, led, seq, a, o)
    BY <1>6, Zenon
  <2>2. GivenOver(led, seq, a, o) = jt[1..N]
    BY <1>1, Zenon DEF GivenOver, FoldLeft, MapThenFoldSet, GivenFold
  <2> QED BY <2>1, <2>2, Zenon
<1>8. \A s \in SUBSET (1..N) :
        jt[s] = IF s = {} THEN led ELSE Given(jt[s \ {Max(s)}], a, o, seq[Max(s)])
  BY <1>1, <1>7, Zenon DEF GivenFold
<1>9. FoldsIn(jt, N, V, led, step)
  <2>1. jt[{}] = led
    BY <1>8, Zenon
  <2>2. ASSUME NEW s \in SUBSET (1..N), s # {}, jt[s \ {Max(s)}] \in V
        PROVE  jt[s] = step[<<Max(s), jt[s \ {Max(s)}]>>]
    <3>1. jt[s] = Given(jt[s \ {Max(s)}], a, o, seq[Max(s)])
      BY <1>8, <2>2, Zenon
    <3>2. Max(s) \in 1..N
      BY <1>5, <2>2, Zenon
    <3> QED BY <1>2, <2>2, <3>1, <3>2, Zenon
  <2> QED BY <2>1, <2>2, Zenon DEF FoldsIn
<1>10. PICK g \in [0..N -> V] : Chain(g, N, led, step) /\ g[N] = jt[1..N]
  <2>1. N \in Nat
    BY <1>1
  <2> QED BY <1>3, <1>9, <2>1, RunOfFold
<1>11. \A n \in 1..N : g[n] = Given(g[n-1], a, o, seq[n])
  <2> SUFFICES ASSUME NEW n \in 1..N PROVE g[n] = Given(g[n-1], a, o, seq[n])
    OBVIOUS
  <2>1. g[n-1] \in V
    <3>1. n - 1 \in 0..N
      BY <1>1
    <3> QED BY <3>1
  <2>2. g[n] = step[<<n, g[n-1]>>]
    BY <1>10, Zenon DEF Chain
  <2> QED BY <1>2, <2>1, <2>2, Zenon
<1> QED BY <1>7, <1>10, <1>11, Zenon DEF Chain, N, GivenRun

SparedOver(led, seq, o) == FoldLeft(LAMBDA l, x : Spared(l, x, o), led, seq)
SparedFold(it, led, seq, o) ==
  it = [s \in SUBSET (DOMAIN seq) |->
          IF s = {} THEN led ELSE Spared(it[s \ {Max(s)}], seq[Max(s)], o)]

SparedStay(V, E, o) == \A v \in V, e \in E : Spared(v, e, o) \in V
SparedRun(g, led, seq, o) ==
  /\ g[0] = led /\ g[Len(seq)] = SparedOver(led, seq, o)
  /\ \A n \in 1..Len(seq) : g[n] = Spared(g[n-1], seq[n], o)

\* What waits for other orders is kept row by row
LEMMA SparedInTurn ==
  ASSUME NEW V, NEW led \in V, NEW E, NEW seq \in Seq(E), NEW o,
         SparedStay(V, E, o)
  PROVE  \E g \in [0..Len(seq) -> V] : SparedRun(g, led, seq, o)
<1> DEFINE N == Len(seq)
           step == [q \in (1..N) \X V |-> Spared(q[2], seq[q[1]], o)]
<1>1. N \in Nat /\ DOMAIN seq = 1..N /\ \A n \in 1..N : seq[n] \in E
  OBVIOUS
<1>2. \A n \in 1..N, v \in V : step[<<n, v>>] = Spared(v, seq[n], o) /\ step[<<n, v>>] \in V
  BY <1>1 DEF SparedStay
<1> HIDE DEF step, N
<1>3. Within(step, 1..N, V)
  BY <1>2 DEF Within
<1>4. PICK it \in [SUBSET (1..N) -> V] : IsRun(it, N, led, step)
  BY <1>1, <1>3, RunExists, Zenon
<1>5. \A s \in SUBSET (1..N) : s # {} => Max(s) \in 1..N
  <2>1. ASSUME NEW s \in SUBSET (1..N), s # {} PROVE Max(s) \in 1..N
    <3>1. s \in SUBSET (0..N)
      BY <1>1
    <3> QED BY <1>1, <2>1, <3>1, MaxIsLargest
  <2> QED BY <2>1, Zenon
<1>6. SparedFold(it, led, seq, o)
  <2>1. ASSUME NEW s \in SUBSET (1..N)
        PROVE  it[s] = IF s = {} THEN led ELSE Spared(it[s \ {Max(s)}], seq[Max(s)], o)
    <3>1. CASE s = {}
      BY <1>4, <3>1, Zenon DEF IsRun
    <3>2. CASE s # {}
      <4>1. Max(s) \in 1..N
        BY <1>5, <3>2, Zenon
      <4>2. it[s \ {Max(s)}] \in V
        BY <1>4
      <4>3. it[s] = step[<<Max(s), it[s \ {Max(s)}]>>]
        BY <1>4, <3>2, Zenon DEF IsRun
      <4>4. step[<<Max(s), it[s \ {Max(s)}]>>] = Spared(it[s \ {Max(s)}], seq[Max(s)], o)
        BY <1>2, <4>1, <4>2, Zenon
      <4> QED BY <3>2, <4>3, <4>4, Zenon
    <3> QED BY <3>1, <3>2, Zenon
  <2>2. it = [s \in SUBSET (1..N) |-> it[s]]
    BY <1>4
  <2>3. it = [s \in SUBSET (1..N) |->
                IF s = {} THEN led ELSE Spared(it[s \ {Max(s)}], seq[Max(s)], o)]
    BY <2>1, <2>2, Zenon
  <2> QED BY <1>1, <2>3, Zenon DEF SparedFold
<1>7. PICK jt : /\ SparedFold(jt, led, seq, o)
                /\ SparedOver(led, seq, o) = jt[1..N]
  <2> DEFINE jt == CHOOSE kt : SparedFold(kt, led, seq, o)
  <2>1. SparedFold(jt, led, seq, o)
    BY <1>6, Zenon
  <2>2. SparedOver(led, seq, o) = jt[1..N]
    BY <1>1, Zenon DEF SparedOver, FoldLeft, MapThenFoldSet, SparedFold
  <2> QED BY <2>1, <2>2, Zenon
<1>8. \A s \in SUBSET (1..N) :
        jt[s] = IF s = {} THEN led ELSE Spared(jt[s \ {Max(s)}], seq[Max(s)], o)
  BY <1>1, <1>7, Zenon DEF SparedFold
<1>9. FoldsIn(jt, N, V, led, step)
  <2>1. jt[{}] = led
    BY <1>8, Zenon
  <2>2. ASSUME NEW s \in SUBSET (1..N), s # {}, jt[s \ {Max(s)}] \in V
        PROVE  jt[s] = step[<<Max(s), jt[s \ {Max(s)}]>>]
    <3>1. jt[s] = Spared(jt[s \ {Max(s)}], seq[Max(s)], o)
      BY <1>8, <2>2, Zenon
    <3>2. Max(s) \in 1..N
      BY <1>5, <2>2, Zenon
    <3> QED BY <1>2, <2>2, <3>1, <3>2, Zenon
  <2> QED BY <2>1, <2>2, Zenon DEF FoldsIn
<1>10. PICK g \in [0..N -> V] : Chain(g, N, led, step) /\ g[N] = jt[1..N]
  <2>1. N \in Nat
    BY <1>1
  <2> QED BY <1>3, <1>9, <2>1, RunOfFold
<1>11. \A n \in 1..N : g[n] = Spared(g[n-1], seq[n], o)
  <2> SUFFICES ASSUME NEW n \in 1..N PROVE g[n] = Spared(g[n-1], seq[n], o)
    OBVIOUS
  <2>1. g[n-1] \in V
    <3>1. n - 1 \in 0..N
      BY <1>1
    <3> QED BY <3>1
  <2>2. g[n] = step[<<n, g[n-1]>>]
    BY <1>10, Zenon DEF Chain
  <2> QED BY <1>2, <2>1, <2>2, Zenon
<1> QED BY <1>7, <1>10, <1>11, Zenon DEF Chain, N, SparedRun

BackOver(led, seq, o, S, xs) == FoldLeft(LAMBDA l, x : TakenBackOf(l, x, o, S, xs), led, seq)
BackFold(it, led, seq, o, S, xs) ==
  it = [s \in SUBSET (DOMAIN seq) |->
          IF s = {} THEN led ELSE TakenBackOf(it[s \ {Max(s)}], seq[Max(s)], o, S, xs)]

BackStay(V, E, o, S, xs) == \A v \in V, e \in E : TakenBackOf(v, e, o, S, xs) \in V
BackRun(g, led, seq, o, S, xs) ==
  /\ g[0] = led /\ g[Len(seq)] = BackOver(led, seq, o, S, xs)
  /\ \A n \in 1..Len(seq) : g[n] = TakenBackOf(g[n-1], seq[n], o, S, xs)

\* Rows are taken back one after the other
LEMMA BackInTurn ==
  ASSUME NEW V, NEW led \in V, NEW E, NEW seq \in Seq(E), NEW o, NEW S, NEW xs,
         BackStay(V, E, o, S, xs)
  PROVE  \E g \in [0..Len(seq) -> V] : BackRun(g, led, seq, o, S, xs)
<1> DEFINE N == Len(seq)
           step == [q \in (1..N) \X V |-> TakenBackOf(q[2], seq[q[1]], o, S, xs)]
<1>1. N \in Nat /\ DOMAIN seq = 1..N /\ \A n \in 1..N : seq[n] \in E
  OBVIOUS
<1>2. \A n \in 1..N, v \in V : step[<<n, v>>] = TakenBackOf(v, seq[n], o, S, xs) /\ step[<<n, v>>] \in V
  BY <1>1 DEF BackStay
<1> HIDE DEF step, N
<1>3. Within(step, 1..N, V)
  BY <1>2 DEF Within
<1>4. PICK it \in [SUBSET (1..N) -> V] : IsRun(it, N, led, step)
  BY <1>1, <1>3, RunExists, Zenon
<1>5. \A s \in SUBSET (1..N) : s # {} => Max(s) \in 1..N
  <2>1. ASSUME NEW s \in SUBSET (1..N), s # {} PROVE Max(s) \in 1..N
    <3>1. s \in SUBSET (0..N)
      BY <1>1
    <3> QED BY <1>1, <2>1, <3>1, MaxIsLargest
  <2> QED BY <2>1, Zenon
<1>6. BackFold(it, led, seq, o, S, xs)
  <2>1. ASSUME NEW s \in SUBSET (1..N)
        PROVE  it[s] = IF s = {} THEN led ELSE TakenBackOf(it[s \ {Max(s)}], seq[Max(s)], o, S, xs)
    <3>1. CASE s = {}
      BY <1>4, <3>1, Zenon DEF IsRun
    <3>2. CASE s # {}
      <4>1. Max(s) \in 1..N
        BY <1>5, <3>2, Zenon
      <4>2. it[s \ {Max(s)}] \in V
        BY <1>4
      <4>3. it[s] = step[<<Max(s), it[s \ {Max(s)}]>>]
        BY <1>4, <3>2, Zenon DEF IsRun
      <4>4. step[<<Max(s), it[s \ {Max(s)}]>>] = TakenBackOf(it[s \ {Max(s)}], seq[Max(s)], o, S, xs)
        BY <1>2, <4>1, <4>2, Zenon
      <4> QED BY <3>2, <4>3, <4>4, Zenon
    <3> QED BY <3>1, <3>2, Zenon
  <2>2. it = [s \in SUBSET (1..N) |-> it[s]]
    BY <1>4
  <2>3. it = [s \in SUBSET (1..N) |->
                IF s = {} THEN led ELSE TakenBackOf(it[s \ {Max(s)}], seq[Max(s)], o, S, xs)]
    BY <2>1, <2>2, Zenon
  <2> QED BY <1>1, <2>3, Zenon DEF BackFold
<1>7. PICK jt : /\ BackFold(jt, led, seq, o, S, xs)
                /\ BackOver(led, seq, o, S, xs) = jt[1..N]
  <2> DEFINE jt == CHOOSE kt : BackFold(kt, led, seq, o, S, xs)
  <2>1. BackFold(jt, led, seq, o, S, xs)
    BY <1>6, Zenon
  <2>2. BackOver(led, seq, o, S, xs) = jt[1..N]
    BY <1>1, Zenon DEF BackOver, FoldLeft, MapThenFoldSet, BackFold
  <2> QED BY <2>1, <2>2, Zenon
<1>8. \A s \in SUBSET (1..N) :
        jt[s] = IF s = {} THEN led ELSE TakenBackOf(jt[s \ {Max(s)}], seq[Max(s)], o, S, xs)
  BY <1>1, <1>7, Zenon DEF BackFold
<1>9. FoldsIn(jt, N, V, led, step)
  <2>1. jt[{}] = led
    BY <1>8, Zenon
  <2>2. ASSUME NEW s \in SUBSET (1..N), s # {}, jt[s \ {Max(s)}] \in V
        PROVE  jt[s] = step[<<Max(s), jt[s \ {Max(s)}]>>]
    <3>1. jt[s] = TakenBackOf(jt[s \ {Max(s)}], seq[Max(s)], o, S, xs)
      BY <1>8, <2>2, Zenon
    <3>2. Max(s) \in 1..N
      BY <1>5, <2>2, Zenon
    <3> QED BY <1>2, <2>2, <3>1, <3>2, Zenon
  <2> QED BY <2>1, <2>2, Zenon DEF FoldsIn
<1>10. PICK g \in [0..N -> V] : Chain(g, N, led, step) /\ g[N] = jt[1..N]
  <2>1. N \in Nat
    BY <1>1
  <2> QED BY <1>3, <1>9, <2>1, RunOfFold
<1>11. \A n \in 1..N : g[n] = TakenBackOf(g[n-1], seq[n], o, S, xs)
  <2> SUFFICES ASSUME NEW n \in 1..N PROVE g[n] = TakenBackOf(g[n-1], seq[n], o, S, xs)
    OBVIOUS
  <2>1. g[n-1] \in V
    <3>1. n - 1 \in 0..N
      BY <1>1
    <3> QED BY <3>1
  <2>2. g[n] = step[<<n, g[n-1]>>]
    BY <1>10, Zenon DEF Chain
  <2> QED BY <1>2, <2>1, <2>2, Zenon
<1> QED BY <1>7, <1>10, <1>11, Zenon DEF Chain, N, BackRun
-----------------------------------------------------------------------------
RepairRow ==
  [asset : Assets, part : PartSizes, back : BOOLEAN, order : Orders \cup {NoOrder},
   option : Options \cup {NoOption}, from : Seq(Pieces), to : Seq(Pieces)]
WaitRow == [order : Orders, part : PartSizes, back : BOOLEAN]
Ledgers == [rows : Seq(RepairRow), spec : [Assets -> Seq(Pieces)], onhand : [PartSizes -> Int]]

\* what the store and the machines have together of a part
Bal(led, q) == led.onhand[q] + Net(led.rows, q)

SameOption(r, s) == r.option = s.option /\ r.asset = s.asset /\ r.order = s.order
\* options are booked only where one of L is, and once
CostIn(rows, L) ==
  \A i \in DOMAIN rows : rows[i].option # NoOption =>
    /\ <<rows[i].order, rows[i].asset, rows[i].option>> \in L
    /\ rows[i].option # Sold => \A j \in DOMAIN rows \ {i} : ~SameOption(rows[j], rows[i])
\* the ledgers of that kind that have the same of each part
Books(L, b) == {led \in Ledgers : CostIn(led.rows, L) /\ \A q \in PartSizes : Bal(led, q) = b[q]}

\* What moves is one piece in one direction
LEMMA MovedIsInt == \A row, q : Moved(row, q) \in Int
BY DEF Moved

\* The sum of a ledger's rows is a number, so is its balance
LEMMA BalIsInt ==
  ASSUME NEW led \in Ledgers, NEW q \in PartSizes
  PROVE  Net(led.rows, q) \in Int /\ led.onhand[q] \in Int /\ Bal(led, q) \in Int
<1>1. led.rows \in Seq(RepairRow) /\ led.onhand[q] \in Int
  BY DEF Ledgers
<1>2. PICK g \in [0..Len(led.rows) -> Int] : NetRun(g, led.rows, q)
  BY <1>1, NetInTurn
<1>3. Len(led.rows) \in 0..Len(led.rows)
  BY <1>1
<1>4. Net(led.rows, q) \in Int
  BY <1>2, <1>3 DEF NetRun
<1> QED BY <1>1, <1>4 DEF Bal

\* One more row, for an option that may be booked and is not yet, or for none
LEMMA CostOfOneMore ==
  ASSUME NEW L, NEW rows \in Seq(RepairRow), NEW row \in RepairRow, CostIn(rows, L),
         \/ row.option = NoOption
         \/ /\ <<row.order, row.asset, row.option>> \in L
            /\ row.option = Sold \/ \A i \in DOMAIN rows : ~SameOption(rows[i], row)
  PROVE  CostIn(Append(rows, row), L)
<1> DEFINE more == Append(rows, row)
           N == Len(rows)
<1>1. /\ N \in Nat /\ DOMAIN more = 1..(N+1) /\ DOMAIN rows = 1..N /\ more[N+1] = row
      /\ \A i \in 1..N : more[i] = rows[i]
  OBVIOUS
<1> HIDE DEF more, N
<1>2. SUFFICES ASSUME NEW i \in 1..(N+1), more[i].option # NoOption
               PROVE  /\ <<more[i].order, more[i].asset, more[i].option>> \in L
                      /\ more[i].option # Sold =>
                           \A j \in 1..(N+1) \ {i} : ~SameOption(more[j], more[i])
  BY <1>1 DEF CostIn, more
<1>3. CASE i = N + 1
  <2>1. more[i] = row
    BY <1>1, <1>3
  <2>2. <<row.order, row.asset, row.option>> \in L
    BY <1>2, <2>1
  <2>3. ASSUME row.option # Sold, NEW j \in 1..(N+1) \ {i} PROVE ~SameOption(more[j], row)
    <3>1. j \in 1..N
      BY <1>1, <1>3
    <3> QED BY <1>1, <1>2, <2>1, <2>3, <3>1
  <2> QED BY <2>1, <2>2, <2>3
<1>4. CASE i # N + 1
  <2>1. i \in 1..N /\ more[i] = rows[i]
    BY <1>1, <1>4
  <2>2. /\ <<rows[i].order, rows[i].asset, rows[i].option>> \in L
        /\ rows[i].option # Sold => \A j \in 1..N \ {i} : ~SameOption(rows[j], rows[i])
    BY <1>1, <1>2, <2>1 DEF CostIn
  <2>3. ASSUME rows[i].option # Sold, NEW j \in 1..(N+1) \ {i} PROVE ~SameOption(more[j], rows[i])
    <3>1. CASE j = N + 1
      <4>1. more[j] = row
        BY <1>1, <3>1
      <4>2. ASSUME SameOption(row, rows[i]) PROVE FALSE
        <5>1. row.option = rows[i].option
          BY <4>2 DEF SameOption
        <5>2. row.option # NoOption /\ row.option # Sold
          BY <1>2, <2>1, <2>3, <5>1
        <5>3. ~SameOption(rows[i], row)
          BY <1>1, <2>1, <5>2
        <5> QED BY <4>2, <5>3 DEF SameOption
      <4> QED BY <4>1, <4>2
    <3>2. CASE j # N + 1
      <4>1. j \in 1..N
        BY <1>1, <3>2
      <4> QED BY <1>1, <2>2, <2>3, <4>1
    <3> QED BY <3>1, <3>2
  <2> QED BY <2>1, <2>2, <2>3
<1> QED BY <1>3, <1>4

\* One row less
LEMMA CostOfOneLess ==
  ASSUME NEW L, NEW rows \in Seq(RepairRow), NEW k \in DOMAIN rows, CostIn(rows, L)
  PROVE  CostIn(RemoveAt(rows, k), L)
<1> DEFINE less == RemoveAt(rows, k)
           N == Len(rows)
           at == [i \in 1..(N-1) |-> IF i < k THEN i ELSE i + 1]
<1>1. N \in Nat /\ k \in 1..N /\ DOMAIN rows = 1..N
  OBVIOUS
<1>2. /\ less \in Seq(RepairRow) /\ Len(less) = N - 1
      /\ \A n \in 1..(k-1) : less[n] = rows[n]
      /\ \A n \in k..(N-1) : less[n] = rows[n+1]
  BY RemovedAt
<1>3. DOMAIN less = 1..(N-1)
  BY <1>2
<1> HIDE DEF less, N
<1>4. \A i \in 1..(N-1) : at[i] \in 1..N /\ less[i] = rows[at[i]]
  <2> SUFFICES ASSUME NEW i \in 1..(N-1) PROVE at[i] \in 1..N /\ less[i] = rows[at[i]]
    OBVIOUS
  <2>1. CASE i < k
    <3>1. i \in 1..(k-1)
      BY <1>1, <2>1
    <3> QED BY <1>1, <1>2, <2>1, <3>1
  <2>2. CASE ~(i < k)
    <3>1. i \in k..(N-1)
      BY <1>1, <2>2
    <3> QED BY <1>1, <1>2, <2>2, <3>1
  <2> QED BY <2>1, <2>2
<1>5. \A i, j \in 1..(N-1) : i # j => at[i] # at[j]
  BY <1>1
<1> HIDE DEF at
<1>6. SUFFICES ASSUME NEW i \in 1..(N-1), less[i].option # NoOption
               PROVE  /\ <<less[i].order, less[i].asset, less[i].option>> \in L
                      /\ less[i].option # Sold =>
                           \A j \in 1..(N-1) \ {i} : ~SameOption(less[j], less[i])
  BY <1>3 DEF CostIn, less
<1>7. at[i] \in 1..N /\ less[i] = rows[at[i]]
  BY <1>4
<1>8. /\ <<less[i].order, less[i].asset, less[i].option>> \in L
      /\ less[i].option # Sold => \A j \in 1..N \ {at[i]} : ~SameOption(rows[j], less[i])
  BY <1>1, <1>6, <1>7 DEF CostIn
<1>9. ASSUME less[i].option # Sold, NEW j \in 1..(N-1) \ {i} PROVE ~SameOption(less[j], less[i])
  <2>1. at[j] \in 1..N /\ less[j] = rows[at[j]] /\ at[j] # at[i]
    BY <1>4, <1>5
  <2> QED BY <1>8, <1>9, <2>1
<1> QED BY <1>8, <1>9
-----------------------------------------------------------------------------
\* A machine's pieces stay pieces when one is put in or taken out
LEMMA PiecedIsPieces ==
  ASSUME NEW was \in Seq(Pieces), NEW p \in PartSizes, NEW back \in BOOLEAN
  PROVE  Pieced(was, p, back) \in Seq(Pieces)
<1>1. Piece(p) \in Pieces
  BY DEF Piece, Pieces
<1>2. CASE ~back
  BY <1>1, <1>2 DEF Pieced
<1> DEFINE S == {i \in DOMAIN was : was[i] = Piece(p)}
           First(i) == was[i] = Piece(p) /\ \A j \in 1..(i - 1) : was[j] # Piece(p)
<1>3. CASE back /\ S # {}
  <2>1. S \in SUBSET Nat /\ DOMAIN was = 1..Len(was) /\ Len(was) \in Nat
    OBVIOUS
  <2>2. PICK i \in S : \A j \in S : i <= j
    BY <1>3, <2>1, SmallestOfSome
  <2>3. First(i)
    <3>1. ASSUME NEW j \in 1..(i - 1), was[j] = Piece(p) PROVE FALSE
      <4>1. j \in S /\ ~(i <= j)
        BY <2>1, <2>2, <3>1
      <4> QED BY <2>2, <4>1
    <3> QED BY <2>2, <3>1
  <2> DEFINE k == CHOOSE n \in DOMAIN was : First(n)
  <2>4. k \in DOMAIN was
    BY <2>2, <2>3
  <2>5. RemoveAt(was, k) \in Seq(Pieces)
    BY <2>4, RemovedAt
  <2>6. Pieced(was, p, back) = RemoveAt(was, k)
    BY <1>3, Zenon DEF Pieced
  <2> QED BY <2>5, <2>6
<1>4. CASE back /\ S = {}
  BY <1>4 DEF Pieced
<1> QED BY <1>2, <1>3, <1>4

\* A part put in or taken out is a row more, and the balance stays
LEMMA ApplyIs ==
  ASSUME NEW led \in Ledgers, NEW a \in Assets, NEW p \in PartSizes, NEW back \in BOOLEAN,
         NEW o \in Orders \cup {NoOrder}, NEW x \in Options \cup {NoOption}
  PROVE  LET now == Apply(led, a, p, back, o, x) IN
         /\ now \in Ledgers
         /\ \A q \in PartSizes : Bal(now, q) = Bal(led, q)
         /\ \E row \in RepairRow : /\ now.rows = Append(led.rows, row)
                                   /\ row.asset = a /\ row.order = o /\ row.option = x
<1> DEFINE now == Apply(led, a, p, back, o, x)
           to == Pieced(led.spec[a], p, back)
           row == [asset |-> a, part |-> p, back |-> back, order |-> o, option |-> x,
                   from |-> led.spec[a], to |-> to]
           d == IF back THEN 1 ELSE -1
<1>1. /\ led.rows \in Seq(RepairRow) /\ led.spec \in [Assets -> Seq(Pieces)]
      /\ led.onhand \in [PartSizes -> Int] /\ led.spec[a] \in Seq(Pieces)
  BY DEF Ledgers
<1>2. to \in Seq(Pieces)
  BY <1>1, PiecedIsPieces
<1>3. now = [rows |-> Append(led.rows, row), spec |-> [led.spec EXCEPT ![a] = to],
             onhand |-> [led.onhand EXCEPT ![p] = @ + d]]
  BY Zenon DEF Apply
<1> HIDE DEF now, to
<1>4. row \in RepairRow
  BY <1>1, <1>2 DEF RepairRow
<1>5. d \in Int
  OBVIOUS
<1> HIDE DEF row, d
<1>6. /\ Append(led.rows, row) \in Seq(RepairRow)
      /\ [led.spec EXCEPT ![a] = to] \in [Assets -> Seq(Pieces)]
      /\ [led.onhand EXCEPT ![p] = @ + d] \in [PartSizes -> Int]
  BY <1>1, <1>2, <1>4, <1>5
<1>7. now \in Ledgers
  BY <1>3, <1>6 DEF Ledgers
<1>8. ASSUME NEW q \in PartSizes PROVE Bal(now, q) = Bal(led, q)
  <2>1. /\ Net(led.rows, q) \in Int /\ Moved(row, q) \in Int
        /\ Net(Append(led.rows, row), q) = Net(led.rows, q) + Moved(row, q)
    BY <1>1, <1>4, NetOfOneMore
  <2>2. now.onhand[q] = led.onhand[q] + (IF q = p THEN d ELSE 0)
    BY <1>1, <1>3, <1>5
  <2>3. Moved(row, q) = IF q = p THEN 0 - d ELSE 0
    BY DEF Moved, row, d
  <2>4. led.onhand[q] \in Int
    BY <1>1
  <2>5. now.rows = Append(led.rows, row)
    BY <1>3
  <2>6. Bal(now, q) = now.onhand[q] + (Net(led.rows, q) + Moved(row, q))
    BY <2>1, <2>5 DEF Bal
  <2>7. Bal(led, q) = led.onhand[q] + Net(led.rows, q)
    BY DEF Bal
  <2> QED BY <1>5, <2>1, <2>2, <2>3, <2>4, <2>6, <2>7
<1>9. row.asset = a /\ row.order = o /\ row.option = x /\ now.rows = Append(led.rows, row)
  BY <1>3 DEF row
<1> QED BY <1>4, <1>7, <1>8, <1>9 DEF now

\* An option that may be booked and is not yet, or a part by hand
LEMMA ApplyKeeps ==
  ASSUME NEW L, NEW b, NEW led \in Books(L, b), NEW a \in Assets, NEW p \in PartSizes,
         NEW back \in BOOLEAN, NEW o \in Orders \cup {NoOrder}, NEW x \in Options \cup {NoOption},
         \/ x = NoOption
         \/ <<o, a, x>> \in L /\ (x = Sold \/ ~Booked(led, a, o, x))
  PROVE  Apply(led, a, p, back, o, x) \in Books(L, b)
<1> DEFINE now == Apply(led, a, p, back, o, x)
<1>1. led \in Ledgers /\ led.rows \in Seq(RepairRow) /\ CostIn(led.rows, L)
  BY DEF Books, Ledgers
<1>2. /\ now \in Ledgers
      /\ \A q \in PartSizes : Bal(now, q) = Bal(led, q)
      /\ \E row \in RepairRow : /\ now.rows = Append(led.rows, row)
                                /\ row.asset = a /\ row.order = o /\ row.option = x
  BY <1>1, ApplyIs
<1> HIDE DEF now
<1>3. PICK row \in RepairRow : /\ now.rows = Append(led.rows, row)
                               /\ row.asset = a /\ row.order = o /\ row.option = x
  BY <1>2
<1>4. \/ row.option = NoOption
      \/ /\ <<row.order, row.asset, row.option>> \in L
         /\ row.option = Sold \/ \A i \in DOMAIN led.rows : ~SameOption(led.rows[i], row)
  BY <1>3 DEF Booked, SameOption
<1>5. CostIn(now.rows, L)
  BY <1>1, <1>3, <1>4, CostOfOneMore
<1>6. \A q \in PartSizes : Bal(led, q) = b[q]
  BY DEF Books
<1>7. now \in Books(L, b)
  BY <1>2, <1>5, <1>6 DEF Books
<1> QED BY <1>7 DEF now

\* A machine brought to a size: one row or two
LEMMA BroughtKeeps ==
  ASSUME NEW L, NEW b, NEW led \in Books(L, b), NEW a \in Assets, NEW size, priced \subseteq PartSizes,
         NEW o \in Orders \cup {NoOrder}, NEW x \in {Sold, NoOption},
         x = NoOption \/ <<o, a, x>> \in L
  PROVE  Brought(led, a, size, o, x) \in Books(L, b)
<1> DEFINE has  == SizeOf(led.spec[a])
           bare == IF has = 0 THEN led ELSE Apply(led, a, has, TRUE, o, x)
           fits == size \in priced /\ has # size /\ has \in priced \cup {0}
<1>1. x \in Options \cup {NoOption}
  BY DEF Options
<1>2. Brought(led, a, size, o, x) = IF fits THEN Apply(bare, a, size, FALSE, o, x) ELSE led
  BY Zenon DEF Brought
<1> HIDE DEF has
<1>3. CASE fits
  <2>1. bare \in Books(L, b)
    <3>1. CASE has = 0
      BY <3>1
    <3>2. CASE has # 0
      <4>1. has \in PartSizes
        BY <1>3, <3>2
      <4>2. Apply(led, a, has, TRUE, o, x) \in Books(L, b)
        BY <1>1, <4>1, ApplyKeeps
      <4> QED BY <3>2, <4>2
    <3> QED BY <3>1, <3>2
  <2>2. size \in PartSizes
    BY <1>3
  <2> HIDE DEF bare
  <2>3. Apply(bare, a, size, FALSE, o, x) \in Books(L, b)
    BY <1>1, <2>1, <2>2, ApplyKeeps
  <2> QED BY <1>2, <1>3, <2>3
<1>4. CASE ~fits
  BY <1>2, <1>4
<1> QED BY <1>3, <1>4

\* An option on one machine
LEMMA WithOptionKeeps ==
  ASSUME NEW L, NEW b, NEW led \in Books(L, b), NEW a \in Assets, priced \subseteq PartSizes,
         NEW o \in Orders, NEW x \in Options, <<o, a, x>> \in L
  PROVE  WithOption(led, a, o, x) \in Books(L, b)
<1>1. CASE Booked(led, a, o, x)
  BY <1>1 DEF WithOption
<1>2. CASE ~Booked(led, a, o, x) /\ x = Sold
  <2>1. Brought(led, a, SoldSize, o, x) \in Books(L, b)
    BY <1>2, BroughtKeeps
  <2> QED BY <1>2, <2>1 DEF WithOption
<1>3. CASE ~Booked(led, a, o, x) /\ x # Sold /\ x \in priced
  <2>1. x \in PartSizes
    BY <1>3
  <2>2. Apply(led, a, x, FALSE, o, x) \in Books(L, b)
    BY <1>3, <2>1, ApplyKeeps
  <2> QED BY <1>3, <2>2 DEF WithOption
<1>4. CASE ~Booked(led, a, o, x) /\ x # Sold /\ x \notin priced
  BY <1>4 DEF WithOption
<1> QED BY <1>1, <1>2, <1>3, <1>4
-----------------------------------------------------------------------------
Kept(L) == {led \in Ledgers : CostIn(led.rows, L)}
BalOf(led) == [q \in PartSizes |-> Bal(led, q)]

\* A ledger that is kept has its own balance
LEMMA KeptHasBalance ==
  ASSUME NEW L, NEW led
  PROVE  led \in Kept(L) <=> led \in Books(L, BalOf(led))
BY DEF Kept, Books, BalOf

\* The options of one machine
LEMMA WithOptionsKeeps ==
  ASSUME NEW L, NEW b, NEW led \in Books(L, b), NEW a \in Assets, priced \subseteq PartSizes,
         NEW o \in Orders, NEW xs \in SUBSET Options, IsFiniteSet(xs),
         \A x \in xs : <<o, a, x>> \in L
  PROVE  WithOptions(led, a, o, xs) \in Books(L, b)
<1> DEFINE V == Books(L, b)
           seq == SetToSeq(xs)
<1>1. seq \in Seq(xs)
  BY SetToSeqIsOf
<1>2. led \in V /\ OptionsStay(V, xs, a, o)
  <2>1. ASSUME NEW v \in V, NEW x \in xs PROVE WithOption(v, a, o, x) \in V
    BY WithOptionKeeps
  <2> QED BY <2>1 DEF OptionsStay
<1>3. WithOptions(led, a, o, xs) = OptionsOver(led, seq, a, o)
  BY Zenon DEF WithOptions, OptionsOver
<1> HIDE DEF V, seq
<1>4. PICK g \in [0..Len(seq) -> V] : OptionsRun(g, led, seq, a, o)
  BY <1>1, <1>2, OptionsInTurn, Zenon
<1>5. Len(seq) \in 0..Len(seq)
  BY <1>1
<1>6. g[Len(seq)] \in V
  BY <1>5
<1> QED BY <1>3, <1>4, <1>6, Zenon DEF V, OptionsRun

\* The options of several machines
LEMMA AllWithOptionsKeeps ==
  ASSUME NEW L, NEW b, NEW led \in Books(L, b), NEW S \in SUBSET Assets, priced \subseteq PartSizes,
         NEW o \in Orders, NEW xs \in SUBSET Options,
         \A a \in S, x \in xs : <<o, a, x>> \in L
  PROVE  AllWithOptions(led, S, o, xs) \in Books(L, b)
<1> DEFINE V == Books(L, b)
           seq == SetToSeq(S)
<1>1. IsFiniteSet(S) /\ IsFiniteSet(xs)
  <2>1. IsFiniteSet(PartSizes) /\ IsFiniteSet(Assets)
    BY RowsAreFinite
  <2>2. IsFiniteSet(Options)
    BY <2>1, FS_AddElement DEF Options
  <2> QED BY <2>1, <2>2, FS_Subset
<1>2. seq \in Seq(S)
  BY <1>1, SetToSeqIsOf
<1>3. led \in V /\ MachinesStay(V, S, o, xs)
  <2>1. ASSUME NEW v \in V, NEW a \in S PROVE WithOptions(v, a, o, xs) \in V
    <3>1. \A x \in xs : <<o, a, x>> \in L
      OBVIOUS
    <3> QED BY <1>1, <3>1, WithOptionsKeeps
  <2> QED BY <2>1 DEF MachinesStay
<1>4. AllWithOptions(led, S, o, xs) = MachinesOver(led, seq, o, xs)
  BY Zenon DEF AllWithOptions, MachinesOver
<1> HIDE DEF V, seq
<1>5. PICK g \in [0..Len(seq) -> V] : MachinesRun(g, led, seq, o, xs)
  BY <1>2, <1>3, MachinesInTurn, Zenon
<1>6. Len(seq) \in 0..Len(seq)
  BY <1>2
<1>7. g[Len(seq)] \in V
  BY <1>6
<1> QED BY <1>4, <1>5, <1>7, Zenon DEF V, MachinesRun

\* A row that waited, given to a machine: what left the store before leaves it with the machine
LEMMA GivenIs ==
  ASSUME NEW L, NEW led \in Kept(L), NEW a \in Assets, NEW o \in Orders, NEW w \in WaitRow
  PROVE  /\ Given(led, a, o, w) \in Kept(L)
         /\ \A q \in PartSizes :
              Bal(Given(led, a, o, w), q) = Bal(led, q) + (IF w.order = o THEN Moved(w, q) ELSE 0)
<1> DEFINE d == IF w.back THEN -1 ELSE 1
           up == [led EXCEPT !.onhand[w.part] = @ + d]
<1>1. led \in Ledgers /\ CostIn(led.rows, L) /\ w.part \in PartSizes /\ w.back \in BOOLEAN
  BY DEF Kept, WaitRow
<1>2. CASE w.order = o
  <2>1. d \in Int /\ led.onhand \in [PartSizes -> Int] /\ led.rows \in Seq(RepairRow)
    BY <1>1 DEF Ledgers
  <2>2. up.rows = led.rows /\ up.spec = led.spec /\ up.onhand = [led.onhand EXCEPT ![w.part] = @ + d]
    BY <1>1 DEF Ledgers
  <2>3. up \in Ledgers
    <3>1. [led.onhand EXCEPT ![w.part] = @ + d] \in [PartSizes -> Int]
      BY <1>1, <2>1
    <3> QED BY <1>1, <3>1 DEF Ledgers
  <2>4. ASSUME NEW q \in PartSizes PROVE Bal(up, q) = Bal(led, q) + Moved(w, q)
    <3>1. up.onhand[q] = led.onhand[q] + Moved(w, q)
      BY <1>1, <2>1, <2>2 DEF Moved
    <3>2. led.onhand[q] \in Int /\ Net(led.rows, q) \in Int /\ Moved(w, q) \in Int
      BY <1>1, BalIsInt, MovedIsInt
    <3>3. Bal(up, q) = up.onhand[q] + Net(led.rows, q)
      BY <2>2 DEF Bal
    <3> QED BY <3>1, <3>2, <3>3 DEF Bal
  <2> HIDE DEF up
  <2>5. up \in Books(L, BalOf(up))
    BY <1>1, <2>2, <2>3 DEF Books, BalOf
  <2>6. Given(led, a, o, w) = Apply(up, a, w.part, w.back, o, NoOption)
    BY <1>2, Zenon DEF Given, up
  <2>7. Given(led, a, o, w) \in Books(L, BalOf(up))
    BY <1>1, <2>5, <2>6, ApplyKeeps
  <2> QED BY <1>2, <2>4, <2>7 DEF Books, Kept, BalOf
<1>3. CASE w.order # o
  <2>1. Given(led, a, o, w) = led
    BY <1>3 DEF Given
  <2>2. \A q \in PartSizes : Bal(led, q) \in Int
    BY <1>1, BalIsInt
  <2> QED BY <1>3, <2>1, <2>2
<1> QED BY <1>2, <1>3

\* All that waited for a machine of the order: the rest waits on, and nothing is lost between
LEMMA AllGivenIs ==
  ASSUME NEW L, NEW led \in Kept(L), NEW a \in Assets, NEW o \in Orders, waiting \in Seq(WaitRow)
  PROVE  /\ AllGiven(led, a, o) \in Kept(L) /\ StillWaiting(o) \in Seq(WaitRow)
         /\ \A q \in PartSizes : Bal(AllGiven(led, a, o), q) + Net(StillWaiting(o), q)
                                   = Bal(led, q) + Net(waiting, q)
<1> DEFINE V == Kept(L)
           W == Seq(WaitRow)
           N == Len(waiting)
<1>1. led \in V /\ GivenStay(V, WaitRow, a, o)
  BY GivenIs DEF GivenStay
<1>2. <<>> \in W /\ SparedStay(W, WaitRow, o)
  BY DEF Spared, SparedStay
<1>3. N \in Nat /\ N \in 0..N /\ 0 \in 0..N /\ \A n \in 1..N : waiting[n] \in WaitRow
  OBVIOUS
<1>4. AllGiven(led, a, o) = GivenOver(led, waiting, a, o)
  BY Zenon DEF AllGiven, GivenOver
<1>5. StillWaiting(o) = SparedOver(<<>>, waiting, o)
  BY Zenon DEF StillWaiting, SparedOver
<1> HIDE DEF V, W
<1>6. PICK g \in [0..Len(waiting) -> V] : GivenRun(g, led, waiting, a, o)
  BY <1>1, GivenInTurn, Zenon
<1>7. PICK h \in [0..Len(waiting) -> W] : SparedRun(h, <<>>, waiting, o)
  BY <1>2, SparedInTurn, Zenon
<1>8. g[0] = led /\ g[N] = GivenOver(led, waiting, a, o)
  BY <1>6, Zenon DEF GivenRun
<1>9. h[0] = <<>> /\ h[N] = SparedOver(<<>>, waiting, o)
  BY <1>7, Zenon DEF SparedRun
<1>10. \A n \in 1..N : /\ g[n] = Given(g[n-1], a, o, waiting[n])
                      /\ h[n] = Spared(h[n-1], waiting[n], o)
  BY <1>6, <1>7, Zenon DEF GivenRun, SparedRun
<1>11. g \in [0..N -> V] /\ h \in [0..N -> W]
  BY Zenon
<1> HIDE DEF N
<1>12. g[N] = AllGiven(led, a, o) /\ h[N] = StillWaiting(o) /\ g[N] \in V /\ h[N] \in W
  BY <1>3, <1>4, <1>5, <1>8, <1>9, <1>11
<1>13. ASSUME NEW q \in PartSizes
      PROVE  Bal(g[N], q) + Net(h[N], q) = Bal(led, q) + Net(waiting, q)
  <2>1. PICK k \in [0..N -> Int] : NetRun(k, waiting, q)
    BY NetInTurn DEF N
  <2>2. /\ k[0] = 0 /\ k[N] = Net(waiting, q)
        /\ \A n \in 1..N : k[n] = k[n-1] + Moved(waiting[n], q)
    BY <2>1, Zenon DEF NetRun, N
  <2>3. \A n \in 0..N : k[n] \in Int /\ g[n] \in Kept(L) /\ h[n] \in Seq(WaitRow)
    BY <1>11 DEF V, W
  <2>4. \A n \in 0..N : Bal(g[n], q) \in Int /\ Net(h[n], q) \in Int
    <3>1. \A l \in Kept(L) : Bal(l, q) \in Int
      BY BalIsInt DEF Kept
    <3>2. ASSUME NEW s \in Seq(WaitRow) PROVE Net(s, q) \in Int
      <4>1. PICK f \in [0..Len(s) -> Int] : NetRun(f, s, q)
        BY NetInTurn
      <4>2. Len(s) \in 0..Len(s)
        OBVIOUS
      <4> QED BY <4>1, <4>2 DEF NetRun
    <3> QED BY <2>3, <3>1, <3>2
  <2> DEFINE T == {n \in 0..N : Bal(g[n], q) + Net(h[n], q) = Bal(led, q) + k[n]}
  <2>5. 0 \in T
    <3>1. Net(<<>>, q) = 0
      BY NetOfNothing
    <3> QED BY <1>3, <1>8, <1>9, <2>2, <2>4, <3>1
  <2>6. ASSUME NEW n \in 1..N, n - 1 \in T PROVE n \in T
    <3>1. n \in 0..N /\ n - 1 \in 0..N /\ waiting[n] \in WaitRow
      BY <1>3
    <3>2. g[n] = Given(g[n-1], a, o, waiting[n]) /\ h[n] = Spared(h[n-1], waiting[n], o)
      BY <1>10
    <3>3. Bal(g[n], q) = Bal(g[n-1], q) + (IF waiting[n].order = o THEN Moved(waiting[n], q) ELSE 0)
      BY <2>3, <3>1, <3>2, GivenIs
    <3>4. Net(h[n], q) = Net(h[n-1], q) + (IF waiting[n].order = o THEN 0 ELSE Moved(waiting[n], q))
      <4>1. CASE waiting[n].order = o
        BY <2>4, <3>1, <3>2, <4>1 DEF Spared
      <4>2. CASE waiting[n].order # o
        <5>1. h[n] = Append(h[n-1], waiting[n])
          BY <3>2, <4>2 DEF Spared
        <5>2. h[n-1] \in Seq(WaitRow)
          BY <2>3, <3>1
        <5>3. Net(Append(h[n-1], waiting[n]), q) = Net(h[n-1], q) + Moved(waiting[n], q)
          BY <3>1, <5>2, NetOfOneMore
        <5> QED BY <4>2, <5>1, <5>3
      <4> QED BY <4>1, <4>2
    <3>5. k[n] = k[n-1] + Moved(waiting[n], q)
      BY <2>2
    <3>6. /\ Bal(g[n-1], q) \in Int /\ Net(h[n-1], q) \in Int /\ k[n-1] \in Int /\ Bal(led, q) \in Int
          /\ Moved(waiting[n], q) \in Int
      BY <1>3, <1>8, <2>3, <2>4, <3>1, MovedIsInt
    <3>7. Bal(g[n-1], q) + Net(h[n-1], q) = Bal(led, q) + k[n-1]
      BY <2>6
    <3>8. Bal(g[n], q) + Net(h[n], q) = Bal(led, q) + k[n]
      <4> DEFINE m == Moved(waiting[n], q)
                 u == Bal(g[n-1], q)
                 v == Net(h[n-1], q)
                 c == Bal(led, q)
                 z == k[n-1]
      <4>0. m \in Int /\ u \in Int /\ v \in Int /\ c \in Int /\ z \in Int /\ u + v = c + z
        BY <3>6, <3>7
      <4>1. k[n] = z + m
        BY <3>5
      <4>2. CASE waiting[n].order = o
        <5>1. Bal(g[n], q) = u + m /\ Net(h[n], q) = v + 0
          BY <3>3, <3>4, <4>2
        <5> HIDE DEF m, u, v, c, z
        <5>2. Bal(g[n], q) + Net(h[n], q) = c + k[n]
          BY <4>0, <4>1, <5>1
        <5> QED BY <5>2 DEF c
      <4>3. CASE waiting[n].order # o
        <5>1. Bal(g[n], q) = u + 0 /\ Net(h[n], q) = v + m
          BY <3>3, <3>4, <4>3
        <5> HIDE DEF m, u, v, c, z
        <5>2. Bal(g[n], q) + Net(h[n], q) = c + k[n]
          BY <4>0, <4>1, <5>1
        <5> QED BY <5>2 DEF c
      <4> QED BY <4>2, <4>3
    <3> QED BY <3>1, <3>8
  <2> HIDE DEF T
  <2>7. N \in T
    <3>1. 0..N \subseteq T
      BY <1>3, <2>5, <2>6, StepByStep
    <3> QED BY <1>3, <3>1
  <2> QED BY <2>2, <2>7 DEF T
<1> QED BY <1>12, <1>13 DEF V, W
-----------------------------------------------------------------------------
\* A row that is taken out leaves its part to the store
LEMMA StruckKeeps ==
  ASSUME NEW L, NEW b, NEW led \in Books(L, b), NEW i \in DOMAIN led.rows
  PROVE  /\ Struck(led, i) \in Books(L, b) /\ Struck(led, i).rows = RemoveAt(led.rows, i)
         /\ Struck(led, i).spec = led.spec
<1> DEFINE row == led.rows[i]
           d == IF row.back THEN -1 ELSE 1
           now == Struck(led, i)
           less == RemoveAt(led.rows, i)
<1>1. /\ led \in Ledgers /\ led.rows \in Seq(RepairRow) /\ led.onhand \in [PartSizes -> Int]
      /\ CostIn(led.rows, L)
  BY DEF Books, Ledgers
<1>2. row \in RepairRow
  BY <1>1
<1>3. row.part \in PartSizes /\ row.back \in BOOLEAN
  BY <1>2 DEF RepairRow
<1>4. d \in Int
  OBVIOUS
<1>5. now.rows = less /\ now.onhand = [led.onhand EXCEPT ![row.part] = @ + d] /\ now.spec = led.spec
      /\ now = [rows |-> now.rows, spec |-> now.spec, onhand |-> now.onhand]
  <2>1. now = [led EXCEPT !.rows = less, !.onhand[row.part] = @ + d]
    BY Zenon DEF Struck
  <2>2. led = [rows |-> led.rows, spec |-> led.spec, onhand |-> led.onhand]
    BY <1>1 DEF Ledgers
  <2> HIDE DEF now, less, row, d
  <2>3. now = [rows |-> less, spec |-> led.spec, onhand |-> [led.onhand EXCEPT ![row.part] = @ + d]]
    BY <2>1, <2>2
  <2> QED BY <2>3
<1> HIDE DEF now, row, d, less
<1>6. less \in Seq(RepairRow) /\ CostIn(less, L)
  BY <1>1, RemovedAt, CostOfOneLess DEF less
<1>7. [led.onhand EXCEPT ![row.part] = @ + d] \in [PartSizes -> Int]
  BY <1>1, <1>3, <1>4
<1>8. now \in Ledgers
  BY <1>1, <1>5, <1>6, <1>7 DEF Ledgers
<1>9. ASSUME NEW q \in PartSizes PROVE Bal(now, q) = b[q]
  <2>1. Net(less, q) = Net(led.rows, q) - Moved(row, q)
    BY <1>1, NetOfOneLess DEF less, row
  <2>2. now.onhand[q] = led.onhand[q] + Moved(row, q)
    BY <1>1, <1>3, <1>5 DEF Moved, d
  <2>3. led.onhand[q] \in Int /\ Net(led.rows, q) \in Int /\ Moved(row, q) \in Int
    BY <1>1, BalIsInt, MovedIsInt
  <2>4. Bal(now, q) = now.onhand[q] + Net(less, q)
    BY <1>5 DEF Bal
  <2>5. led.onhand[q] + Net(led.rows, q) = b[q]
    BY DEF Books, Bal
  <2> QED BY <2>1, <2>2, <2>3, <2>4, <2>5
<1>10. now \in Books(L, b)
  BY <1>5, <1>6, <1>8, <1>9 DEF Books
<1> QED BY <1>5, <1>10 DEF now, less

\* With it the specification, where nobody touched it since
LEMMA TakenBackKeeps ==
  ASSUME NEW L, NEW b, NEW led \in Books(L, b), NEW i \in DOMAIN led.rows
  PROVE  TakenBack(led, i) \in Books(L, b) /\ TakenBack(led, i).rows = RemoveAt(led.rows, i)
<1> DEFINE row == led.rows[i]
           now == Struck(led, i)
           then == [now EXCEPT !.spec[row.asset] = row.from]
<1>1. now \in Books(L, b) /\ now.rows = RemoveAt(led.rows, i)
  BY StruckKeeps
<1>2. led.rows \in Seq(RepairRow)
  BY DEF Books, Ledgers
<1>3. row \in RepairRow
  BY <1>2
<1>4. row.from \in Seq(Pieces) /\ row.asset \in Assets
  BY <1>3 DEF RepairRow
<1>5. TakenBack(led, i) = then \/ TakenBack(led, i) = now
  BY DEF TakenBack
<1> HIDE DEF now, row
<1>6. now \in Ledgers /\ CostIn(now.rows, L) /\ \A q \in PartSizes : Bal(now, q) = b[q]
  BY <1>1 DEF Books
<1>7. /\ then.rows = now.rows /\ then.onhand = now.onhand
      /\ then.spec = [now.spec EXCEPT ![row.asset] = row.from]
      /\ then = [rows |-> then.rows, spec |-> then.spec, onhand |-> then.onhand]
  <2>1. now = [rows |-> now.rows, spec |-> now.spec, onhand |-> now.onhand]
    BY <1>6 DEF Ledgers
  <2>2. then = [rows |-> now.rows, spec |-> [now.spec EXCEPT ![row.asset] = row.from],
                onhand |-> now.onhand]
    BY <2>1
  <2> HIDE DEF then
  <2> QED BY <2>2
<1> HIDE DEF then
<1>8. then \in Ledgers
  BY <1>4, <1>6, <1>7 DEF Ledgers
<1>9. then \in Books(L, b)
  BY <1>6, <1>7, <1>8 DEF Books, Bal
<1> QED BY <1>1, <1>5, <1>7, <1>9 DEF now

\* What an option put into machines is taken back as a whole
LEMMA RevertedKeeps ==
  ASSUME NEW L, NEW b, NEW led \in Books(L, b), NEW o, NEW S, NEW xs
  PROVE  /\ Reverted(led, o, S, xs) \in Books(L, b)
         /\ RowsFor(Reverted(led, o, S, xs).rows, o, S, xs) = {}
<1> DEFINE V == Books(L, b)
           N == Len(led.rows)
           seq == [n \in DOMAIN led.rows |-> Len(led.rows) + 1 - n]
           Open(l) == RowsFor(l.rows, o, S, xs)
<1>1. led.rows \in Seq(RepairRow)
  BY DEF Books, Ledgers
<1>2. N \in Nat /\ DOMAIN led.rows = 1..N
  BY <1>1
<1>3. seq \in Seq(1..N) /\ Len(seq) = N /\ \A n \in 1..N : seq[n] = N + 1 - n
  <2>1. seq = [n \in 1..N |-> N + 1 - n]
    BY <1>2
  <2>2. \A n \in 1..N : N + 1 - n \in 1..N
    BY <1>2
  <2> QED BY <1>2, <2>1, <2>2
<1>4. Reverted(led, o, S, xs) = BackOver(led, seq, o, S, xs)
  BY Zenon DEF Reverted, BackOver
<1>5. \A v \in V : v.rows \in Seq(RepairRow) /\ Open(v) \subseteq DOMAIN v.rows
  BY DEF Books, Ledgers, RowsFor
<1>6. led \in V /\ BackStay(V, 1..N, o, S, xs)
  <2>1. ASSUME NEW v \in V, NEW i \in 1..N PROVE TakenBackOf(v, i, o, S, xs) \in V
    <3>1. CASE i \in Open(v)
      <4>1. i \in DOMAIN v.rows
        BY <1>5, <3>1
      <4>2. TakenBack(v, i) \in V
        BY <4>1, TakenBackKeeps
      <4> QED BY <3>1, <4>2 DEF TakenBackOf
    <3>2. CASE i \notin Open(v)
      BY <3>2 DEF TakenBackOf
    <3> QED BY <3>1, <3>2
  <2> QED BY <2>1 DEF BackStay
<1> HIDE DEF seq
<1>7. PICK g \in [0..Len(seq) -> V] : BackRun(g, led, seq, o, S, xs)
  <2> HIDE DEF V, N
  <2> QED BY <1>3, <1>6, BackInTurn, Zenon
<1>8. g \in [0..N -> V] /\ g[0] = led /\ g[N] = Reverted(led, o, S, xs)
  BY <1>3, <1>4, <1>7 DEF BackRun
<1>9. \A n \in 1..N : g[n] = TakenBackOf(g[n-1], N + 1 - n, o, S, xs)
  BY <1>3, <1>7 DEF BackRun
<1> HIDE DEF N, V
\* newest first: behind the place that was looked at, nothing of it is left
<1> DEFINE T == {n \in 0..N : \A j \in Open(g[n]) : j <= N - n}
<1>10. 0 \in T
  <2>1. 0 \in 0..N /\ N - 0 = N
    BY <1>2
  <2>3. Open(g[0]) \subseteq 1..N
    BY <1>2, <1>8 DEF RowsFor
  <2>2. \A j \in 1..N : j <= N
    BY <1>2
  <2> QED BY <2>1, <2>2, <2>3
<1>11. ASSUME NEW n \in 1..N, n - 1 \in T PROVE n \in T
  <2> DEFINE i == N + 1 - n
             l == g[n-1]
  <2>1. /\ n \in 0..N /\ n - 1 \in 0..N /\ i \in 1..N /\ N - (n - 1) = i /\ N - n = i - 1
    BY <1>2
  <2>2. l \in V /\ g[n] = TakenBackOf(l, i, o, S, xs) /\ \A j \in Open(l) : j <= i
    BY <1>8, <1>9, <1>11, <2>1
  <2>3. l.rows \in Seq(RepairRow) /\ Open(l) \subseteq DOMAIN l.rows /\ DOMAIN l.rows = 1..Len(l.rows)
        /\ Len(l.rows) \in Nat
    BY <1>5, <2>2
  <2> HIDE DEF i, l
  <2>4. ASSUME NEW j \in Open(g[n]) PROVE j <= i - 1
    <3>1. CASE i \notin Open(l)
      <4>1. j \in Open(l) /\ j # i
        BY <2>2, <2>4, <3>1 DEF TakenBackOf
      <4> QED BY <2>1, <2>2, <2>3, <4>1
    <3>2. CASE i \in Open(l)
      <4> DEFINE less == RemoveAt(l.rows, i)
      <4>1. g[n] = TakenBack(l, i)
        BY <2>2, <3>2 DEF TakenBackOf
      <4>2. i \in DOMAIN l.rows /\ g[n].rows = less
        BY <2>2, <2>3, <3>2, <4>1, TakenBackKeeps DEF V
      <4>3. /\ less \in Seq(RepairRow) /\ Len(less) = Len(l.rows) - 1
            /\ \A k \in 1..(i-1) : less[k] = l.rows[k]
            /\ \A k \in i..(Len(l.rows)-1) : less[k] = l.rows[k+1]
        BY <2>3, <4>2, RemovedAt
      <4> HIDE DEF less
      <4>4. j \in DOMAIN less /\ less[j].order = o /\ less[j].asset \in S /\ less[j].option \in xs
        BY <2>4, <4>2 DEF RowsFor
      <4>5. j \in 1..(Len(l.rows) - 1)
        BY <4>3, <4>4
      <4>6. ASSUME ~(j <= i - 1) PROVE FALSE
        <5>1. j \in i..(Len(l.rows)-1) /\ j + 1 \in DOMAIN l.rows
          BY <2>1, <2>3, <4>5, <4>6
        <5>2. j + 1 \in Open(l)
          BY <4>3, <4>4, <5>1 DEF RowsFor
        <5>3. j + 1 <= i
          BY <2>2, <5>2
        <5> QED BY <2>1, <4>5, <4>6, <5>3
      <4> QED BY <4>6
    <3> QED BY <3>1, <3>2
  <2>5. \A j \in Open(g[n]) : j <= N - n
    BY <2>1, <2>4 DEF i
  <2> QED BY <2>1, <2>5
<1>12. N \in T /\ N \in 0..N
  <2> HIDE DEF T
  <2>1. N \in Nat /\ N \in 0..N
    BY <1>2
  <2>2. 0..N \subseteq T
    BY <1>10, <1>11, <2>1, StepByStep
  <2> QED BY <2>1, <2>2
<1>13. g[N] \in V
  BY <1>8, <1>12
<1>14. Open(g[N]) = {}
  <2>1. ASSUME NEW j \in Open(g[N]) PROVE FALSE
    <3>1. j <= N - N
      BY <1>12, <2>1
    <3>2. j \in DOMAIN g[N].rows /\ g[N].rows \in Seq(RepairRow)
      BY <1>5, <1>13, <2>1
    <3>3. j \in Nat /\ 1 <= j
      BY <3>2
    <3> QED BY <1>2, <3>1, <3>3
  <2> QED BY <2>1
<1> QED BY <1>8, <1>13, <1>14 DEF V
-----------------------------------------------------------------------------
\* the options that may be charged: the order has the machine, and the option is ticked
Charged == {t \in Orders \X Assets \X Options : /\ link[t[1]][t[2]] # Unlinked
                                               /\ <<t[1], t[3]>> \in ticked}
InRepair(q) == Cardinality({t \in Tickets : q \in atRepair[t]})

PartsTyped ==
  /\ Ledger \in Ledgers
  /\ supplied \in [PartSizes -> Int]
  /\ waiting \in Seq(WaitRow)
  /\ ticked \subseteq Orders \X Options
  /\ priced \subseteq PartSizes
  /\ atRepair \in [Tickets -> SUBSET PartSizes]
  /\ Len(repairs) <= MaxRows

\* what every step keeps
PartsInv ==
  /\ PartsTyped
  /\ CostIn(repairs, Charged)
  /\ \A q \in PartSizes : Bal(Ledger, q) + Net(waiting, q) + InRepair(q) = supplied[q]

\* What is in repair is a number
LEMMA InRepairIsInt ==
  ASSUME NEW q PROVE InRepair(q) \in Int
<1>1. IsFiniteSet({t \in Tickets : q \in atRepair[t]})
  BY RowsAreFinite, FS_Subset
<1> QED BY <1>1, FS_CardinalityType DEF InRepair

\* The rows that wait have moved a number of parts
LEMMA WaitingIsInt ==
  ASSUME NEW s \in Seq(WaitRow), NEW q PROVE Net(s, q) \in Int
<1>1. PICK f \in [0..Len(s) -> Int] : NetRun(f, s, q)
  BY NetInTurn
<1>2. Len(s) \in 0..Len(s)
  OBVIOUS
<1> QED BY <1>1, <1>2 DEF NetRun

\* The invariant gives the ledger's books
LEMMA InvGivesBooks ==
  ASSUME PartsInv
  PROVE  /\ Ledger \in Ledgers /\ Ledger.rows = repairs /\ Ledger.spec = spec /\ Ledger.onhand = onhand
         /\ Ledger \in Books(Charged, BalOf(Ledger)) /\ Ledger \in Kept(Charged)
<1>1. Ledger.rows = repairs /\ Ledger.spec = spec /\ Ledger.onhand = onhand
  BY DEF Ledger
<1>2. Ledger \in Ledgers /\ CostIn(Ledger.rows, Charged)
  BY <1>1 DEF PartsInv, PartsTyped
<1> QED BY <1>1, <1>2, KeptHasBalance DEF Kept

\* What may be charged is charged where more may be
LEMMA CostAllows ==
  ASSUME NEW L, NEW M, NEW rows, CostIn(rows, L),
         \A i \in DOMAIN rows :
           rows[i].option # NoOption /\ <<rows[i].order, rows[i].asset, rows[i].option>> \in L
             => <<rows[i].order, rows[i].asset, rows[i].option>> \in M
  PROVE  CostIn(rows, M)
BY DEF CostIn

\* A ledger that is written keeps the invariant, if what it and the waiting rows have is what
\* there was
LEMMA WrittenKeeps ==
  ASSUME PartsInv, NEW led \in Ledgers, CostIn(led.rows, Charged'), Write(led),
         waiting' \in Seq(WaitRow), ticked' \subseteq Orders \X Options,
         UNCHANGED <<supplied, priced, atRepair>>,
         \A q \in PartSizes : Bal(led, q) + Net(waiting', q) = Bal(Ledger, q) + Net(waiting, q)
  PROVE  PartsInv'
<1>1. led = [rows |-> led.rows, spec |-> led.spec, onhand |-> led.onhand]
  BY DEF Ledgers
<1>2. /\ repairs' = led.rows /\ spec' = led.spec /\ onhand' = led.onhand
      /\ Len(led.rows) <= MaxRows
  BY DEF Write
<1>3. Ledger' = led
  BY <1>1, <1>2 DEF Ledger
<1>4. PartsTyped'
  BY <1>2, <1>3 DEF PartsInv, PartsTyped
<1>5. CostIn(repairs, Charged)'
  BY <1>2 DEF CostIn, SameOption
<1>6. ASSUME NEW q \in PartSizes
      PROVE  (Bal(Ledger, q) + Net(waiting, q) + InRepair(q) = supplied[q])'
  <2>1. InRepair(q)' = InRepair(q) /\ supplied' = supplied
    BY DEF InRepair
  <2>2. Bal(Ledger, q) + Net(waiting, q) + InRepair(q) = supplied[q]
    BY DEF PartsInv
  <2>3. Bal(Ledger, q)' = Bal(led, q) /\ Net(waiting, q)' = Net(waiting', q)
    BY <1>3 DEF Bal
  <2>4. Bal(led, q) + Net(waiting', q) = Bal(Ledger, q) + Net(waiting, q)
    OBVIOUS
  <2>5. (Bal(Ledger, q) + Net(waiting, q) + InRepair(q) = supplied[q])'
         <=> Bal(led, q) + Net(waiting', q) + InRepair(q) = supplied[q]
    BY <2>1, <2>3
  <2> QED BY <2>2, <2>4, <2>5
<1> QED BY <1>4, <1>5, <1>6 DEF PartsInv

\* The same, in the usual case that only the ledger changes
LEMMA LedgerKeeps ==
  ASSUME PartsInv, NEW led \in Books(Charged, BalOf(Ledger)), Write(led), UNCHANGED <<link, ticked>>,
         UNCHANGED <<supplied, waiting, priced, atRepair>>
  PROVE  PartsInv'
<1>1. Charged' = Charged
  BY DEF Charged
<1>2. led \in Ledgers /\ CostIn(led.rows, Charged) /\ \A q \in PartSizes : Bal(led, q) = Bal(Ledger, q)
  BY DEF Books, BalOf
<1>3. CostIn(led.rows, Charged')
  BY <1>1, <1>2
<1>4. waiting' = waiting /\ waiting \in Seq(WaitRow) /\ ticked' \subseteq Orders \X Options
  BY DEF PartsInv, PartsTyped
<1> QED BY <1>2, <1>3, <1>4, WrittenKeeps
-----------------------------------------------------------------------------
\* An option ticked: its order has the machines it is charged to
LEMMA TickKeeps ==
  ASSUME PartsInv, NEW o \in Orders, NEW x \in Options, TickOption(o, x), UNCHANGED link
  PROVE  PartsInv'
<1> DEFINE led == AllWithOptions(Ledger, AssetsOf(o), o, {x})
           b == BalOf(Ledger)
           L == Charged'
<1>1. /\ ticked' = ticked \cup {<<o, x>>} /\ Write(led) /\ priced \subseteq PartSizes
      /\ UNCHANGED <<supplied, waiting, priced, atRepair>>
  BY DEF TickOption, PartsInv, PartsTyped
<1>2. Charged \subseteq L /\ AssetsOf(o) \subseteq Assets /\ \A a \in AssetsOf(o) : <<o, a, x>> \in L
  BY <1>1 DEF Charged, AssetsOf
<1>3. Ledger \in Books(L, b)
  <2>1. Ledger \in Ledgers /\ CostIn(Ledger.rows, Charged) /\ \A q \in PartSizes : Bal(Ledger, q) = b[q]
    BY InvGivesBooks DEF Books
  <2>2. CostIn(Ledger.rows, L)
    BY <1>2, <2>1, CostAllows
  <2> QED BY <2>1, <2>2 DEF Books
<1>4. led \in Books(L, b)
  BY <1>1, <1>2, <1>3, AllWithOptionsKeeps
<1> HIDE DEF led
<1>5. led \in Ledgers /\ CostIn(led.rows, Charged') /\ \A q \in PartSizes : Bal(led, q) = Bal(Ledger, q)
  BY <1>4 DEF Books, BalOf
<1>6. waiting' = waiting /\ waiting \in Seq(WaitRow) /\ ticked' \subseteq Orders \X Options
  BY <1>1 DEF PartsInv, PartsTyped
<1> QED BY <1>1, <1>5, <1>6, WrittenKeeps

\* What is taken back of an order is no longer in the ledger, the rest may be charged as before
LEMMA RevertedFits ==
  ASSUME NEW L, NEW M, NEW b, NEW led \in Books(L, b), NEW o, NEW S, NEW xs,
         \A t \in L : t \in Orders \X Assets \X Options
                      /\ (t \in M \/ (t[1] = o /\ t[2] \in S /\ t[3] \in xs))
  PROVE  Reverted(led, o, S, xs) \in Books(M, b)
<1> DEFINE now == Reverted(led, o, S, xs)
<1>1. now \in Books(L, b) /\ RowsFor(now.rows, o, S, xs) = {}
  BY RevertedKeeps
<1> HIDE DEF now
<1>2. CostIn(now.rows, L) /\ now \in Ledgers /\ \A q \in PartSizes : Bal(now, q) = b[q]
  BY <1>1 DEF Books
<1>3. ASSUME NEW i \in DOMAIN now.rows, now.rows[i].option # NoOption,
             <<now.rows[i].order, now.rows[i].asset, now.rows[i].option>> \in L
      PROVE  <<now.rows[i].order, now.rows[i].asset, now.rows[i].option>> \in M
  <2>1. ~(now.rows[i].order = o /\ now.rows[i].asset \in S /\ now.rows[i].option \in xs)
    BY <1>1 DEF RowsFor
  <2> QED BY <1>3, <2>1
<1>4. CostIn(now.rows, M)
  BY <1>2, <1>3, CostAllows
<1> QED BY <1>2, <1>4 DEF Books, now

\* An option unticked: what it had brought to the machines is taken back
LEMMA UntickKeeps ==
  ASSUME PartsInv, NEW o \in Orders, NEW x \in Options, UntickOption(o, x), UNCHANGED link
  PROVE  PartsInv'
<1> DEFINE led == Reverted(Ledger, o, Assets, {x})
           b == BalOf(Ledger)
<1>1. /\ ticked' = ticked \ {<<o, x>>} /\ Write(led)
      /\ UNCHANGED <<supplied, waiting, priced, atRepair>>
  BY DEF UntickOption
<1>2. \A t \in Charged : /\ t \in Orders \X Assets \X Options
                         /\ t \in Charged' \/ (t[1] = o /\ t[2] \in Assets /\ t[3] \in {x})
  BY <1>1 DEF Charged
<1>3. led \in Books(Charged', b)
  BY <1>2, InvGivesBooks, RevertedFits
<1> HIDE DEF led
<1>5. led \in Ledgers /\ CostIn(led.rows, Charged') /\ \A q \in PartSizes : Bal(led, q) = Bal(Ledger, q)
  BY <1>3 DEF Books, BalOf
<1>6. waiting' = waiting /\ waiting \in Seq(WaitRow) /\ ticked' \subseteq Orders \X Options
  BY <1>1 DEF PartsInv, PartsTyped
<1> QED BY <1>1, <1>5, <1>6, WrittenKeeps

\* Where the desk says what an order has, only that may be charged to it, and to the others what
\* might before
LEMMA NowCharged ==
  ASSUME NEW o \in Orders, NEW S \in SUBSET Assets, NowHas(o, S), UNCHANGED ticked
  PROVE  /\ \A a \in S, x \in Options : <<o, x>> \in ticked => <<o, a, x>> \in Charged'
         /\ \A t \in Charged : /\ t \in Orders \X Assets \X Options
                               /\ t \in Charged' \/ (t[1] = o /\ t[2] \in AssetsOf(o) \ S)
<1>1. \A a \in S, x \in Options : <<o, x>> \in ticked => <<o, a, x>> \in Charged'
  BY DEF Charged, NowHas
<1>2. ASSUME NEW t \in Charged
      PROVE  /\ t \in Orders \X Assets \X Options
             /\ t \in Charged' \/ (t[1] = o /\ t[2] \in AssetsOf(o) \ S)
  <2>1. t \in Orders \X Assets \X Options /\ link[t[1]][t[2]] # Unlinked /\ <<t[1], t[3]>> \in ticked
    BY DEF Charged
  <2>2. t[1] \in Orders /\ t[2] \in Assets
    BY <2>1
  <2>3. CASE t[1] # o
    <3>1. link'[t[1]][t[2]] # Unlinked
      BY <2>1, <2>2, <2>3 DEF NowHas
    <3> QED BY <2>1, <3>1 DEF Charged
  <2>4. CASE t[1] = o /\ t[2] \in S
    <3>1. link'[t[1]][t[2]] # Unlinked
      BY <2>2, <2>4 DEF NowHas
    <3> QED BY <2>1, <3>1 DEF Charged
  <2>5. CASE t[1] = o /\ t[2] \notin S
    BY <2>1, <2>2, <2>5 DEF AssetsOf
  <2> QED BY <2>3, <2>4, <2>5
<1> QED BY <1>1, <1>2

\* An order gets other machines: taken back of those it loses, brought to those it gets
LEMMA MatchKeeps ==
  ASSUME PartsInv, NEW o \in Orders, NEW S \in SUBSET Assets, NowHas(o, S),
         PartsOnMatch(o, S \ AssetsOf(o), AssetsOf(o) \ S)
  PROVE  PartsInv'
<1> DEFINE add == S \ AssetsOf(o)
           drop == AssetsOf(o) \ S
           ticks == {x \in Options : <<o, x>> \in ticked}
           booked == AllWithOptions(Ledger, add, o, ticks)
           first == CHOOSE a \in add : TRUE
           given == IF add = {} THEN booked ELSE AllGiven(booked, first, o)
           now == Reverted(given, o, drop, Options)
           L == Charged \cup Charged'
           b == BalOf(Ledger)
<1>1. /\ Write(now)
      /\ waiting' = IF add = {} THEN waiting ELSE StillWaiting(o)
      /\ UNCHANGED <<ticked, supplied, priced, atRepair>>
  BY Zenon DEF PartsOnMatch
<1>2. priced \subseteq PartSizes /\ ticked \subseteq Orders \X Options /\ waiting \in Seq(WaitRow)
  BY DEF PartsInv, PartsTyped
<1>3. ticked' = ticked
  BY <1>1
<1>4. /\ \A a \in S, x \in Options : <<o, x>> \in ticked => <<o, a, x>> \in Charged'
      /\ \A t \in Charged : /\ t \in Orders \X Assets \X Options
                            /\ t \in Charged' \/ (t[1] = o /\ t[2] \in drop)
  BY <1>3, NowCharged
<1>5. Ledger \in Books(L, b)
  <2>1. Ledger \in Ledgers /\ CostIn(Ledger.rows, Charged) /\ \A q \in PartSizes : Bal(Ledger, q) = b[q]
    BY InvGivesBooks DEF Books
  <2>2. CostIn(Ledger.rows, L)
    BY <2>1, CostAllows
  <2> QED BY <2>1, <2>2 DEF Books
<1>6. booked \in Books(L, b)
  <2>1. \A a \in add, x \in ticks : <<o, a, x>> \in L
    BY <1>4
  <2>2. add \in SUBSET Assets /\ ticks \in SUBSET Options
    OBVIOUS
  <2> HIDE DEF add, ticks, L, b
  <2> QED BY <1>2, <1>5, <2>1, <2>2, AllWithOptionsKeeps
<1> HIDE DEF booked, first
<1>7. /\ given \in Kept(L) /\ waiting' \in Seq(WaitRow)
      /\ \A q \in PartSizes : Bal(given, q) + Net(waiting', q) = Bal(Ledger, q) + Net(waiting, q)
  <2>1. booked \in Kept(L) /\ \A q \in PartSizes : Bal(booked, q) = Bal(Ledger, q)
    BY <1>6 DEF Books, Kept, BalOf
  <2>2. CASE add = {}
    <3>1. given = booked /\ waiting' = waiting
      BY <1>1, <2>2
    <3> QED BY <1>2, <2>1, <3>1
  <2>3. CASE add # {}
    <3>1. first \in add /\ first \in Assets
      BY <2>3 DEF first
    <3>2. given = AllGiven(booked, first, o) /\ waiting' = StillWaiting(o)
      BY <1>1, <2>3
    <3>3. /\ AllGiven(booked, first, o) \in Kept(L) /\ StillWaiting(o) \in Seq(WaitRow)
          /\ \A q \in PartSizes : Bal(AllGiven(booked, first, o), q) + Net(StillWaiting(o), q)
                                    = Bal(booked, q) + Net(waiting, q)
      <4> HIDE DEF add, L
      <4> QED BY <1>2, <2>1, <3>1, AllGivenIs
    <3> QED BY <2>1, <3>2, <3>3
  <2> QED BY <2>2, <2>3
<1> HIDE DEF given
<1>8. given \in Books(L, BalOf(given))
  BY <1>7, KeptHasBalance
<1>9. \A t \in L : /\ t \in Orders \X Assets \X Options
                   /\ t \in Charged' \/ (t[1] = o /\ t[2] \in drop /\ t[3] \in Options)
  <2>1. \A t \in Charged' : t \in Orders \X Assets \X Options
    BY DEF Charged
  <2>2. \A t \in Orders \X Assets \X Options : t[3] \in Options
    OBVIOUS
  <2> QED BY <1>4, <2>1, <2>2
<1>10. now \in Books(Charged', BalOf(given))
  <2> HIDE DEF L, drop
  <2> QED BY <1>8, <1>9, RevertedFits
<1> HIDE DEF now
<1>11. now \in Ledgers /\ CostIn(now.rows, Charged') /\ \A q \in PartSizes : Bal(now, q) = Bal(given, q)
  BY <1>10 DEF Books, BalOf
<1>12. ticked' \subseteq Orders \X Options
  BY <1>2, <1>3
<1>13. \A q \in PartSizes : Bal(now, q) + Net(waiting', q) = Bal(Ledger, q) + Net(waiting, q)
  BY <1>7, <1>11
<1> QED BY <1>1, <1>7, <1>11, <1>12, <1>13, WrittenKeeps

\* An order is cancelled: what its options had brought to its machines is taken back
LEMMA CancelKeeps ==
  ASSUME PartsInv, NEW o \in Orders, NowHas(o, {}), PartsOnCancel(o)
  PROVE  PartsInv'
<1> DEFINE led == Reverted(Ledger, o, Assets, Options)
           b == BalOf(Ledger)
<1>1. Write(led) /\ UNCHANGED <<waiting, ticked, supplied, priced, atRepair>>
  BY DEF PartsOnCancel
<1>2. \A t \in Charged : /\ t \in Orders \X Assets \X Options
                         /\ t \in Charged' \/ (t[1] = o /\ t[2] \in Assets /\ t[3] \in Options)
  <2>1. \A t \in Charged : /\ t \in Orders \X Assets \X Options
                           /\ t \in Charged' \/ (t[1] = o /\ t[2] \in AssetsOf(o) \ {})
    BY <1>1, NowCharged
  <2> QED BY <2>1
<1>3. led \in Books(Charged', b)
  BY <1>2, InvGivesBooks, RevertedFits
<1> HIDE DEF led
<1>4. led \in Ledgers /\ CostIn(led.rows, Charged') /\ \A q \in PartSizes : Bal(led, q) = Bal(Ledger, q)
  BY <1>3 DEF Books, BalOf
<1>5. waiting' = waiting /\ waiting \in Seq(WaitRow) /\ ticked' \subseteq Orders \X Options
  BY <1>1 DEF PartsInv, PartsTyped
<1> QED BY <1>1, <1>4, <1>5, WrittenKeeps
-----------------------------------------------------------------------------
\* A part by hand, a repair, a machine brought to its size: rows of no option
LEMMA ByHandKeeps ==
  ASSUME PartsInv, NEW a \in Assets, NEW p \in PartSizes, NEW back \in BOOLEAN,
         NEW o \in Orders \cup {NoOrder}, Write(Apply(Ledger, a, p, back, o, NoOption)),
         UNCHANGED <<link, ticked>>, UNCHANGED <<supplied, waiting, priced, atRepair>>
  PROVE  PartsInv'
<1>1. Apply(Ledger, a, p, back, o, NoOption) \in Books(Charged, BalOf(Ledger))
  BY InvGivesBooks, ApplyKeeps
<1> QED BY <1>1, LedgerKeeps

\* A machine brought to the size its code has
LEMMA BaseSpecKeeps ==
  ASSUME PartsInv, NEW a \in Assets, BaseSpecApply(a), UNCHANGED link
  PROVE  PartsInv'
<1>1. /\ Write(Brought(Ledger, a, BaseSize, NoOrder, NoOption)) /\ priced \subseteq PartSizes
      /\ UNCHANGED <<link, ticked>> /\ UNCHANGED <<supplied, waiting, priced, atRepair>>
  BY DEF BaseSpecApply, PartsInv, PartsTyped
<1>2. Brought(Ledger, a, BaseSize, NoOrder, NoOption) \in Books(Charged, BalOf(Ledger))
  BY <1>1, InvGivesBooks, BroughtKeeps
<1> QED BY <1>1, <1>2, LedgerKeeps

\* A row of repairs deleted by hand
LEMMA DeleteKeeps ==
  ASSUME PartsInv, NEW i \in DOMAIN repairs, DeleteRepair(i), UNCHANGED link
  PROVE  PartsInv'
<1>1. /\ Write(Struck(Ledger, i)) /\ UNCHANGED <<link, ticked>>
      /\ UNCHANGED <<supplied, waiting, priced, atRepair>>
  BY DEF DeleteRepair
<1>2. Struck(Ledger, i) \in Books(Charged, BalOf(Ledger))
  BY InvGivesBooks, StruckKeeps
<1> QED BY <1>1, <1>2, LedgerKeeps

\* A part used before there is a machine: the store gives it, the row waits
LEMMA AheadKeeps ==
  ASSUME PartsInv, NEW o \in Orders, NEW p \in PartSizes, NEW back \in BOOLEAN,
         PartUseAhead(o, p, back), UNCHANGED link
  PROVE  PartsInv'
<1> DEFINE w == [order |-> o, part |-> p, back |-> back]
           d == IF back THEN 1 ELSE -1
<1>1. /\ waiting' = Append(waiting, w) /\ onhand' = [onhand EXCEPT ![p] = @ + d]
      /\ UNCHANGED <<repairs, spec, supplied, ticked, priced, atRepair>>
  BY DEF PartUseAhead
<1>2. w \in WaitRow /\ waiting \in Seq(WaitRow) /\ d \in Int
  BY DEF WaitRow, PartsInv, PartsTyped
<1>3. /\ repairs \in Seq(RepairRow) /\ spec \in [Assets -> Seq(Pieces)] /\ onhand \in [PartSizes -> Int]
  BY InvGivesBooks DEF Ledgers
<1>4. onhand' \in [PartSizes -> Int] /\ waiting' \in Seq(WaitRow)
  BY <1>1, <1>2, <1>3
<1>5. Ledger' \in Ledgers
  BY <1>1, <1>3, <1>4 DEF Ledger, Ledgers
<1>6. PartsTyped'
  BY <1>1, <1>4, <1>5 DEF PartsInv, PartsTyped
<1>7. CostIn(repairs, Charged)'
  <2>1. Charged' = Charged /\ repairs' = repairs
    BY <1>1 DEF Charged
  <2> QED BY <2>1 DEF PartsInv, CostIn, SameOption
<1>8. ASSUME NEW q \in PartSizes
      PROVE  (Bal(Ledger, q) + Net(waiting, q) + InRepair(q) = supplied[q])'
  <2>1. InRepair(q)' = InRepair(q) /\ supplied' = supplied
    BY <1>1 DEF InRepair
  <2>2. Bal(Ledger, q) + Net(waiting, q) + InRepair(q) = supplied[q]
    BY DEF PartsInv
  <2>3. Bal(Ledger, q) = onhand[q] + Net(repairs, q)
    BY DEF Bal, Ledger
  <2>4. Bal(Ledger, q)' = onhand'[q] + Net(repairs, q)
    <3>1. Bal(Ledger, q)' = onhand'[q] + Net(repairs', q)
      BY DEF Bal, Ledger
    <3> QED BY <1>1, <3>1
  <2>5. Net(waiting, q)' = Net(waiting, q) + Moved(w, q)
    <3>1. Net(Append(waiting, w), q) = Net(waiting, q) + Moved(w, q)
      BY <1>2, NetOfOneMore
    <3> QED BY <1>1, <3>1
  <2>6. onhand'[q] = onhand[q] - Moved(w, q)
    BY <1>1, <1>2, <1>3 DEF Moved
  <2>7. /\ onhand[q] \in Int /\ Net(repairs, q) \in Int /\ Net(waiting, q) \in Int /\ Moved(w, q) \in Int
        /\ InRepair(q) \in Int
    BY <1>2, <1>3, InvGivesBooks, BalIsInt, WaitingIsInt, MovedIsInt, InRepairIsInt
  <2> HIDE DEF w
  <2>8. Bal(Ledger, q)' + Net(waiting, q)' = Bal(Ledger, q) + Net(waiting, q)
    BY <2>3, <2>4, <2>5, <2>6, <2>7
  <2> QED BY <2>1, <2>2, <2>8
<1> QED BY <1>6, <1>7, <1>8 DEF PartsInv

\* What leaves the rows, the parts and the ticks alone, and takes no machine from an order
LEMMA AloneKeeps ==
  ASSUME PartsInv, UNCHANGED <<repairs, onhand, supplied, waiting, ticked, atRepair>>,
         spec' \in [Assets -> Seq(Pieces)], priced' \subseteq PartSizes,
         \A o \in Orders : AssetsOf(o) \subseteq AssetsOf(o)'
  PROVE  PartsInv'
<1>1. /\ repairs \in Seq(RepairRow) /\ onhand \in [PartSizes -> Int]
  BY InvGivesBooks DEF Ledgers
<1>2. Ledger' \in Ledgers
  BY <1>1 DEF Ledger, Ledgers
<1>3. PartsTyped'
  BY <1>2 DEF PartsInv, PartsTyped
<1>4. CostIn(repairs, Charged)'
  <2>1. Charged \subseteq Charged'
    BY DEF Charged, AssetsOf
  <2>2. CostIn(repairs, Charged')
    BY <2>1, CostAllows DEF PartsInv
  <2> QED BY <2>2 DEF CostIn, SameOption
<1>5. ASSUME NEW q \in PartSizes
      PROVE  (Bal(Ledger, q) + Net(waiting, q) + InRepair(q) = supplied[q])'
  <2>1. InRepair(q)' = InRepair(q)
    BY DEF InRepair
  <2>2. Bal(Ledger, q)' = Bal(Ledger, q)
    <3>1. Bal(Ledger, q)' = onhand'[q] + Net(repairs', q) /\ Bal(Ledger, q) = onhand[q] + Net(repairs, q)
      BY DEF Bal, Ledger
    <3> QED BY <3>1
  <2> QED BY <2>1, <2>2 DEF PartsInv
<1> QED BY <1>3, <1>4, <1>5 DEF PartsInv

\* Parts bought, and found or missed when counting
LEMMA StockKeeps ==
  ASSUME PartsInv, NEW p \in PartSizes, NEW n \in Int, StockParts(p, n), UNCHANGED link
  PROVE  PartsInv'
<1>1. /\ onhand' = [onhand EXCEPT ![p] = @ + n] /\ supplied' = [supplied EXCEPT ![p] = @ + n]
      /\ UNCHANGED <<repairs, spec, waiting, ticked, priced, atRepair>>
  BY DEF StockParts
<1>2. /\ repairs \in Seq(RepairRow) /\ spec \in [Assets -> Seq(Pieces)] /\ onhand \in [PartSizes -> Int]
      /\ supplied \in [PartSizes -> Int]
  BY InvGivesBooks DEF Ledgers, PartsInv, PartsTyped
<1>3. onhand' \in [PartSizes -> Int] /\ supplied' \in [PartSizes -> Int]
  BY <1>1, <1>2
<1>4. Ledger' \in Ledgers
  BY <1>1, <1>2, <1>3 DEF Ledger, Ledgers
<1>5. PartsTyped'
  BY <1>1, <1>3, <1>4 DEF PartsInv, PartsTyped
<1>6. CostIn(repairs, Charged)'
  <2>1. Charged' = Charged /\ repairs' = repairs
    BY <1>1 DEF Charged
  <2> QED BY <2>1 DEF PartsInv, CostIn, SameOption
<1>7. ASSUME NEW q \in PartSizes
      PROVE  (Bal(Ledger, q) + Net(waiting, q) + InRepair(q) = supplied[q])'
  <2> DEFINE m == IF q = p THEN n ELSE 0
  <2>1. InRepair(q)' = InRepair(q)
    BY <1>1 DEF InRepair
  <2>2. onhand[q] + Net(repairs, q) + Net(waiting, q) + InRepair(q) = supplied[q]
    BY DEF PartsInv, Bal, Ledger
  <2>3. Bal(Ledger, q)' = onhand'[q] + Net(repairs, q)
    <3>1. Bal(Ledger, q)' = onhand'[q] + Net(repairs', q)
      BY DEF Bal, Ledger
    <3> QED BY <1>1, <3>1
  <2>4. onhand'[q] = onhand[q] + m /\ supplied'[q] = supplied[q] + m /\ m \in Int
    BY <1>1, <1>2
  <2>5. /\ onhand[q] \in Int /\ Net(repairs, q) \in Int /\ Net(waiting, q) \in Int
        /\ InRepair(q) \in Int
    BY <1>2, InvGivesBooks, BalIsInt, WaitingIsInt, InRepairIsInt DEF PartsInv, PartsTyped
  <2> HIDE DEF m
  <2>6. (onhand'[q] + Net(repairs, q)) + Net(waiting, q) + InRepair(q) = supplied'[q]
    BY <2>2, <2>4, <2>5
  <2> QED BY <1>1, <2>1, <2>3, <2>6
<1> QED BY <1>5, <1>6, <1>7 DEF PartsInv

\* The parts of a ticket replaced as a whole
LEMMA TicketPartsKeep ==
  ASSUME PartsInv, NEW t \in Tickets, NEW used \in SUBSET PartSizes, SaveTicketItems(t, used),
         UNCHANGED link
  PROVE  PartsInv'
<1>1. /\ onhand' = [p \in PartSizes |-> onhand[p] + (IF p \in atRepair[t] THEN 1 ELSE 0)
                                                  - (IF p \in used THEN 1 ELSE 0)]
      /\ atRepair' = [atRepair EXCEPT ![t] = used]
      /\ UNCHANGED <<repairs, spec, supplied, waiting, ticked, priced>>
  BY DEF SaveTicketItems
<1>2. /\ repairs \in Seq(RepairRow) /\ spec \in [Assets -> Seq(Pieces)] /\ onhand \in [PartSizes -> Int]
      /\ supplied \in [PartSizes -> Int] /\ atRepair \in [Tickets -> SUBSET PartSizes]
  BY InvGivesBooks DEF Ledgers, PartsInv, PartsTyped
<1>3. onhand' \in [PartSizes -> Int] /\ atRepair' \in [Tickets -> SUBSET PartSizes]
  BY <1>1, <1>2
<1>4. Ledger' \in Ledgers
  BY <1>1, <1>2, <1>3 DEF Ledger, Ledgers
<1>5. PartsTyped'
  BY <1>1, <1>3, <1>4 DEF PartsInv, PartsTyped
<1>6. CostIn(repairs, Charged)'
  <2>1. Charged' = Charged /\ repairs' = repairs
    BY <1>1 DEF Charged
  <2> QED BY <2>1 DEF PartsInv, CostIn, SameOption
<1>7. ASSUME NEW q \in PartSizes
      PROVE  (Bal(Ledger, q) + Net(waiting, q) + InRepair(q) = supplied[q])'
  <2> DEFINE S == {u \in Tickets : q \in atRepair[u]}
             R == {u \in Tickets : q \in atRepair'[u]}
             had == IF t \in S THEN 1 ELSE 0
             has == IF t \in R THEN 1 ELSE 0
             rest == S \ {t}
  <2>1. IsFiniteSet(S) /\ IsFiniteSet(R) /\ IsFiniteSet(rest)
    BY RowsAreFinite, FS_Subset
  <2>2. R \ {t} = rest /\ (t \in S <=> q \in atRepair[t]) /\ (t \in R <=> q \in used)
    BY <1>1, <1>2
  <2>3. Cardinality(S) = Cardinality(rest) + had
    <3>1. CASE t \in S
      <4>1. Cardinality(rest) = Cardinality(S) - 1 /\ Cardinality(S) \in Nat
        BY <2>1, <3>1, FS_RemoveElement, FS_CardinalityType
      <4> QED BY <3>1, <4>1
    <3>2. CASE t \notin S
      <4>1. rest = S /\ Cardinality(S) \in Nat
        BY <2>1, <3>2, FS_CardinalityType
      <4> QED BY <3>2, <4>1
    <3> QED BY <3>1, <3>2
  <2>4. Cardinality(R) = Cardinality(rest) + has
    <3>1. CASE t \in R
      <4>1. Cardinality(rest) = Cardinality(R) - 1 /\ Cardinality(R) \in Nat
        BY <2>1, <2>2, <3>1, FS_RemoveElement, FS_CardinalityType
      <4> QED BY <3>1, <4>1
    <3>2. CASE t \notin R
      <4>0. R \ {t} = R
        BY <3>2
      <4>1. rest = R /\ Cardinality(R) \in Nat
        BY <2>1, <2>2, <4>0, FS_CardinalityType
      <4>2. has = 0
        BY <3>2
      <4> HIDE DEF R, rest, has
      <4> QED BY <4>1, <4>2
    <3> QED BY <3>1, <3>2
  <2>5. onhand'[q] = onhand[q] + had - has
    BY <1>1, <2>2
  <2>6. onhand[q] + Net(repairs, q) + Net(waiting, q) + Cardinality(S) = supplied[q]
    BY DEF PartsInv, Bal, Ledger, InRepair
  <2>7. /\ onhand[q] \in Int /\ Net(repairs, q) \in Int /\ Net(waiting, q) \in Int
        /\ Cardinality(rest) \in Int /\ had \in Int /\ has \in Int
    BY <1>2, <2>1, InvGivesBooks, BalIsInt, WaitingIsInt, FS_CardinalityType DEF PartsInv, PartsTyped
  <2>8. Bal(Ledger, q)' = onhand'[q] + Net(repairs, q)
    <3>1. Bal(Ledger, q)' = onhand'[q] + Net(repairs', q)
      BY DEF Bal, Ledger
    <3> QED BY <1>1, <3>1
  <2>9. InRepair(q)' = Cardinality(R)
    BY DEF InRepair
  <2> HIDE DEF had, has, rest, S, R
  <2>10. (onhand'[q] + Net(repairs, q)) + Net(waiting, q) + Cardinality(R) = supplied[q]
    BY <2>3, <2>4, <2>5, <2>6, <2>7
  <2> QED BY <1>1, <2>8, <2>9, <2>10
<1> QED BY <1>5, <1>6, <1>7 DEF PartsInv
-----------------------------------------------------------------------------
\* Before anything was bought or used
LEMMA PartsInitKeeps == PartsInit => PartsInv
<1> SUFFICES ASSUME PartsInit PROVE PartsInv
  OBVIOUS
<1>1. /\ repairs = <<>> /\ waiting = <<>> /\ supplied = onhand /\ ticked = {} /\ priced = PartSizes
      /\ spec \in [Assets -> {<<>>} \cup {<<piece>> : piece \in Pieces}]
      /\ onhand = [p \in PartSizes |-> 1] /\ atRepair = [t \in Tickets |-> {}]
  BY DEF PartsInit
<1>2. spec \in [Assets -> Seq(Pieces)]
  <2>1. <<>> \in Seq(Pieces) /\ \A piece \in Pieces : <<piece>> \in Seq(Pieces)
    OBVIOUS
  <2>2. \A a \in Assets : spec[a] \in Seq(Pieces)
    BY <1>1, <2>1
  <2> QED BY <1>1, <2>2
<1>3. Ledger \in Ledgers
  <2>1. <<>> \in Seq(RepairRow) /\ onhand \in [PartSizes -> Int]
    BY <1>1
  <2> QED BY <1>1, <1>2, <2>1 DEF Ledger, Ledgers
<1>4. PartsTyped
  <2>1. Len(repairs) <= MaxRows
    BY <1>1, PartsAreSizes
  <2>2. waiting \in Seq(WaitRow) /\ supplied \in [PartSizes -> Int]
    BY <1>1
  <2>3. atRepair \in [Tickets -> SUBSET PartSizes]
    BY <1>1
  <2> QED BY <1>1, <1>3, <2>1, <2>2, <2>3 DEF PartsTyped
<1>5. CostIn(repairs, Charged)
  BY <1>1 DEF CostIn
<1>6. ASSUME NEW q \in PartSizes
      PROVE  Bal(Ledger, q) + Net(waiting, q) + InRepair(q) = supplied[q]
  <2>1. Net(repairs, q) = 0 /\ Net(waiting, q) = 0
    BY <1>1, NetOfNothing
  <2>2. InRepair(q) = 0
    <3>1. {t \in Tickets : q \in atRepair[t]} = {}
      BY <1>1
    <3> QED BY <3>1, FS_EmptySet DEF InRepair
  <2>3. Bal(Ledger, q) = onhand[q] + Net(repairs, q)
    BY DEF Bal, Ledger
  <2>4. onhand[q] = 1 /\ supplied[q] = 1
    BY <1>1
  <2> QED BY <2>1, <2>2, <2>3, <2>4
<1> QED BY <1>4, <1>5, <1>6 DEF PartsInv

\* Every step keeps the invariant
LEMMA PartsStepKeeps ==
  PartsInv /\ [PartsNext \/ PartsRest]_<<recordVars, partVars>> => PartsInv'
<1> SUFFICES ASSUME PartsInv, [PartsNext \/ PartsRest]_<<recordVars, partVars>> PROVE PartsInv'
  OBVIOUS
<1>1. /\ spec \in [Assets -> Seq(Pieces)] /\ priced \subseteq PartSizes
  BY InvGivesBooks DEF Ledgers, PartsInv, PartsTyped
<1>2. ASSUME NEW o \in Orders, DeskParts(o) PROVE PartsInv'
  BY <1>2, MatchKeeps, CancelKeeps DEF DeskParts
<1>3. ASSUME NEW o \in Orders, OrderParts(o), UNCHANGED link PROVE PartsInv'
  <2>1. ASSUME NEW x \in Options, TickOption(o, x) \/ UntickOption(o, x) PROVE PartsInv'
    BY <1>3, <2>1, TickKeeps, UntickKeeps
  <2>2. ASSUME NEW p \in PartSizes, NEW back \in BOOLEAN, PartUseAhead(o, p, back) PROVE PartsInv'
    BY <1>3, <2>2, AheadKeeps
  <2>3. ASSUME NEW p \in PartSizes, NEW back \in BOOLEAN, NEW a, PartUse(o, a, p, back) PROVE PartsInv'
    <3>1. /\ a \in Assets /\ Write(Apply(Ledger, a, p, back, o, NoOption))
          /\ UNCHANGED <<supplied, waiting, ticked, priced, atRepair>>
      BY <2>3 DEF PartUse, AssetsOf
    <3> QED BY <1>3, <3>1, ByHandKeeps
  <2> QED BY <1>3, <2>1, <2>2, <2>3 DEF OrderParts
<1>4. ASSUME NEW a \in Assets, MachineParts(a), UNCHANGED link PROVE PartsInv'
  <2>1. ASSUME NEW p \in PartSizes, NEW back \in BOOLEAN, AddRepair(a, p, back) PROVE PartsInv'
    <3>1. /\ Write(Apply(Ledger, a, p, back, NoOrder, NoOption))
          /\ UNCHANGED <<supplied, waiting, ticked, priced, atRepair>>
      BY <2>1 DEF AddRepair
    <3> QED BY <1>4, <3>1, ByHandKeeps
  <2>2. CASE BaseSpecApply(a)
    BY <1>4, <2>2, BaseSpecKeeps
  <2>3. ASSUME NEW pieces \in Seq(Pieces), WriteSpec(a, pieces) PROVE PartsInv'
    <3>1. /\ spec' \in [Assets -> Seq(Pieces)] /\ priced' \subseteq PartSizes
          /\ UNCHANGED <<repairs, onhand, supplied, waiting, ticked, atRepair>>
      BY <1>1, <2>3 DEF WriteSpec
    <3>2. \A o \in Orders : AssetsOf(o) \subseteq AssetsOf(o)'
      BY <1>4 DEF AssetsOf
    <3> QED BY <3>1, <3>2, AloneKeeps
  <2> QED BY <1>4, <2>1, <2>2, <2>3 DEF MachineParts
<1>5. ASSUME NEW i \in DOMAIN repairs, DeleteRepair(i), UNCHANGED link PROVE PartsInv'
  BY <1>5, DeleteKeeps
<1>6. ASSUME NEW p \in PartSizes, UNCHANGED link, PricePart(p) \/ \E n \in Int : StockParts(p, n)
      PROVE  PartsInv'
  <2>1. CASE PricePart(p)
    <3>1. /\ spec' \in [Assets -> Seq(Pieces)] /\ priced' \subseteq PartSizes
          /\ UNCHANGED <<repairs, onhand, supplied, waiting, ticked, atRepair>>
      BY <1>1, <2>1 DEF PricePart
    <3>2. \A o \in Orders : AssetsOf(o) \subseteq AssetsOf(o)'
      BY <1>6 DEF AssetsOf
    <3> QED BY <3>1, <3>2, AloneKeeps
  <2>2. ASSUME NEW n \in Int, StockParts(p, n) PROVE PartsInv'
    BY <1>6, <2>2, StockKeeps
  <2> QED BY <1>6, <2>1, <2>2
<1>7. ASSUME NEW t \in Tickets, NEW used \in SUBSET PartSizes, SaveTicketItems(t, used),
             UNCHANGED link
      PROVE  PartsInv'
  BY <1>7, TicketPartsKeep
<1>8. CASE PartsRest
  BY <1>1, <1>8, AloneKeeps DEF PartsRest, partVars
<1>9. CASE UNCHANGED <<recordVars, partVars>>
  <2>1. \A o \in Orders : AssetsOf(o) \subseteq AssetsOf(o)'
    BY <1>9 DEF AssetsOf, recordVars
  <2> QED BY <1>1, <1>9, <2>1, AloneKeeps DEF partVars
<1>10. UNCHANGED recordVars => UNCHANGED link
  BY DEF recordVars
<1> QED BY <1>2, <1>3, <1>4, <1>5, <1>6, <1>7, <1>8, <1>9, <1>10, Zenon DEF PartsNext

\* The invariant holds throughout
LEMMA PartsHold == PartsSpec => []PartsInv
BY PartsInitKeeps, PartsStepKeeps, PTL DEF PartsSpec

\* What the invariant says
LEMMA PartsInvSays == PartsInv => PartsAreConserved /\ OptionCostIsCurrent /\ PartsLedgerOK
<1> SUFFICES ASSUME PartsInv PROVE PartsAreConserved /\ OptionCostIsCurrent /\ PartsLedgerOK
  OBVIOUS
<1>1. PartsAreConserved
  <2>1. \A q \in PartSizes : Bal(Ledger, q) = onhand[q] + Net(repairs, q)
    BY DEF Bal, Ledger
  <2> QED BY <2>1 DEF PartsInv, PartsAreConserved, InRepair
<1>2. OptionCostIsCurrent
  <2> SUFFICES ASSUME NEW i \in DOMAIN repairs, repairs[i].option # NoOption
               PROVE  /\ link[repairs[i].order][repairs[i].asset] # Unlinked
                      /\ <<repairs[i].order, repairs[i].option>> \in ticked
                      /\ repairs[i].option # Sold =>
                           \A j \in DOMAIN repairs \ {i} : \/ repairs[j].option # repairs[i].option
                                                           \/ repairs[j].asset # repairs[i].asset
                                                           \/ repairs[j].order # repairs[i].order
    BY Zenon DEF OptionCostIsCurrent
  <2>1. /\ <<repairs[i].order, repairs[i].asset, repairs[i].option>> \in Charged
        /\ repairs[i].option # Sold => \A j \in DOMAIN repairs \ {i} : ~SameOption(repairs[j], repairs[i])
    BY DEF PartsInv, CostIn
  <2> QED BY <2>1 DEF Charged, SameOption
<1>3. PartsLedgerOK
  BY InvGivesBooks DEF PartsInv, PartsTyped, PartsLedgerOK, Ledgers
<1> QED BY <1>1, <1>2, <1>3

\* Every part that was bought is in the store, in a machine that was charged for it, with an order
\* that waits for its machine or in a repair, whatever is ticked, matched, dropped, cancelled,
\* deleted and repaired in between (part_stock_moves)
THEOREM PartsStay == PartsSpec => []PartsAreConserved
<1>1. PartsInv => PartsAreConserved
  BY PartsInvSays
<1> QED BY <1>1, PartsHold, PTL

\* A machine bears the cost of an option only while its order has it and the option is ticked, and
\* once (apply_checked_option_parts, revert_option_parts, toggle_check)
THEOREM OptionsAreCharged == PartsSpec => []OptionCostIsCurrent
<1>1. PartsInv => OptionCostIsCurrent
  BY PartsInvSays
<1> QED BY <1>1, PartsHold, PTL

\* A matching and a cancel of the desk say what their order has, as the halves here take it
LEMMA DeskSaysWhatItHas ==
  ASSUME RecordsOK, NEW o \in Orders
  PROVE  /\ \A wanted \in SUBSET Assets : \A force, misfits, last, gone :
              SetOrderAssets(o, wanted, force, misfits, last, gone) => NowHas(o, wanted)
         /\ \A force : Cancel(o, force) => NowHas(o, {})
<1>1. link \in [Orders -> [Assets -> AssetStatuses \cup {Unlinked}]] /\ status \in [Assets -> AssetStatuses]
      /\ Unlinked \notin AssetStatuses
  BY DEF RecordsOK, OrdersOK, AssetsOK, Unlinked, AssetStatuses
<1>2. ASSUME NEW wanted \in SUBSET Assets, NEW force, NEW misfits, NEW last, NEW gone,
             SetOrderAssets(o, wanted, force, misfits, last, gone)
      PROVE  NowHas(o, wanted)
  <2> DEFINE add == wanted \ AssetsOf(o)
             drop == AssetsOf(o) \ wanted
  <2>1. link' = [link EXCEPT ![o] = [a \in Assets |-> IF a \in add THEN status[a]
                                                      ELSE IF a \in drop THEN Unlinked ELSE @[a]]]
    BY <1>2, Zenon DEF SetOrderAssets
  <2>2. \A a \in Assets : link'[o][a] = IF a \in add THEN status[a]
                                        ELSE IF a \in drop THEN Unlinked ELSE link[o][a]
    BY <1>1, <2>1
  <2>3. \A p \in Orders \ {o} : link'[p] = link[p]
    BY <1>1, <2>1
  <2>4. \A a \in Assets : link'[o][a] # Unlinked <=> a \in wanted
    BY <1>1, <2>2 DEF AssetsOf
  <2> QED BY <2>3, <2>4 DEF NowHas
<1>3. ASSUME NEW force, Cancel(o, force) PROVE NowHas(o, {})
  <2>1. link' = Unlink(o, Assets)
    BY <1>3 DEF Cancel
  <2>2. \A a \in Assets : link'[o][a] = Unlinked
    BY <1>1, <2>1 DEF Unlink
  <2>3. \A p \in Orders \ {o} : link'[p] = link[p]
    BY <1>1, <2>1 DEF Unlink
  <2> QED BY <2>2, <2>3 DEF NowHas
<1> QED BY <1>2, <1>3

\* What the desk does else is a rest of the parts: no order loses a machine
LEMMA DeskRestsBesideParts ==
  ASSUME Next, UNCHANGED partVars,
         ~\E o \in Orders : \E force : Cancel(o, force),
         ~\E o \in Orders : \E wanted, force, misfits, last, gone :
            SetOrderAssets(o, wanted, force, misfits, last, gone)
  PROVE  PartsRest
<1>1. UNCHANGED link
  <2>1. ASSUME NEW o \in Orders, NEW u \in Users, StageStep(o, u) PROVE UNCHANGED link
    BY <2>1 DEF StageStep, PreparingOn, PreparingOff, ProductionOn, ProductionOff, InspectionOn,
       InspectionOff, ShippingOn, ShippingOff, Unshipped, ShipAssets
  <2>2. ASSUME NEW o \in Orders, MatchStep(o) PROVE UNCHANGED link
    <3>1. PICK a \in Assets : PrebuildRework(o, a)
      BY <2>2, Zenon DEF MatchStep
    <3> QED BY <3>1 DEF PrebuildRework
  <2>3. ASSUME NEW o \in Orders, MarkStep(o) PROVE UNCHANGED link
    <3>1. \/ RestoreCancel(o) \/ Archive(o) \/ Unarchive(o)
          \/ \E value \in BOOLEAN : SetDelivered(o, value) \/ PickOption(o, value)
      BY <2>3, Zenon DEF MarkStep
    <3> QED BY <3>1 DEF RestoreCancel, Archive, Unarchive, SetDelivered, PickOption
  <2>4. ASSUME NEW S \in SUBSET Orders, NEW u \in Users, ShipToday(S, u) PROVE UNCHANGED link
    BY <2>4 DEF ShipToday, ShipAssets
  <2>5. CASE PrebuildNext
    BY <2>5 DEF PrebuildNext, CreatePrebuild, DeletePrebuild, BuildReady, BuildProduction,
       BuildInspection, PrebuildOnly
  <2>6. CASE AssetNext
    BY <2>6 DEF AssetNext, ChangeStatus, ChangeTier, ChangeListing, PurchaseCancel,
       PurchaseUncancel, Restock, Receive, AssetOnly, orderVars
  <2> QED BY <2>1, <2>2, <2>3, <2>4, <2>5, <2>6 DEF Next, BoardNext
<1>2. \A o \in Orders : AssetsOf(o) \subseteq AssetsOf(o)'
  BY <1>1 DEF AssetsOf
<1> QED BY <1>2 DEF PartsRest

=============================================================================
