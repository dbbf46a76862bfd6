------------------------- MODULE BillingCycleProofs -------------------------
(***************************************************************************)
(* What holds of a contract's billing windows for every number of handlers *)
(* and workers, every start, billing day and length of the calendar.       *)
(*                                                                         *)
(* Inv is inductive.  A request that is about to write acts on what it     *)
(* read some statements ago: PickInv says what of that is still true.  It  *)
(* rests on two things no handler does: no row of billing_periods goes     *)
(* away, and none leaves the status 'invoiced'.                            *)
(***************************************************************************)
EXTENDS BillingCycle, WellFoundedInduction, TLAPS

(* A start that follows its predecessor: the contract's own, or the one    *)
(* after a billed window.                                                  *)
Follows(s) == s = StartDate \/ s - 2 \in WithStatus("invoiced")

PickInv ==
  \A q \in Proc : /\ pc[q] = "insert" => Follows(pick[q])
                  /\ pc[q] = "bill" => row[pick[q]] # "none"

Inv == TypeOK /\ PickInv /\ BilledOnce /\ Tiled

-----------------------------------------------------------------------------
(* The two SELECTs with ORDER BY period_end DESC LIMIT 1 return a row of   *)
(* the set they select from.                                               *)
LEMMA MaxIsMember ==
  ASSUME NEW S \in SUBSET Starts, S # {}
  PROVE  Max(S) \in S
<1> DEFINE Less == {ss \in Nat \X Nat : ss[1] < ss[2]}
           T == {n \in Nat : n <= Horizon /\ Horizon - n \in S}
<1>1. T \subseteq Nat /\ T # {}
  <2>1. PICK s \in S : TRUE
    OBVIOUS
  <2>2. s \in Nat /\ s <= Horizon
    BY DatesAssumption DEF Starts
  <2>3. Horizon - s \in Nat /\ Horizon - s <= Horizon /\ Horizon - (Horizon - s) = s
    BY <2>2, DatesAssumption
  <2> QED
    BY <2>1, <2>3
<1>2. PICK n \in T : \A m \in T : ~(<<m, n>> \in Less)
  <2>1. IsWellFoundedOn(Less, Nat)
    BY NatLessThanWellFounded DEF OpToRel
  <2> QED
    BY <1>1, <2>1, WFMin
<1>3. \A m \in T : ~(m < n)
  BY <1>2
<1>4. \A y \in S : Horizon - n >= y
  <2> SUFFICES ASSUME NEW y \in S PROVE Horizon - n >= y
    OBVIOUS
  <2>1. y \in Nat /\ y <= Horizon
    BY DatesAssumption DEF Starts
  <2>2. Horizon - y \in T
    BY <2>1, DatesAssumption
  <2> QED
    BY <1>3, <2>1, <2>2, DatesAssumption
<1> QED
  BY <1>2, <1>4 DEF Max

(* The day a window is due lies in the month of its start. *)
LEMMA MonthBounds ==
  /\ \A s \in Starts : ScheduledAt(s) \in 0 .. MonthOf(Horizon) + 1
  /\ \A t \in Nat : MonthOf(t) \in Starts => t \in 0 .. MonthOf(Horizon) + 1
<1> USE DatesAssumption DEF MonthOf, Starts
<1>1. ASSUME NEW s \in Starts PROVE ScheduledAt(s) \in 0 .. MonthOf(Horizon) + 1
  BY DEF ScheduledAt
<1>2. ASSUME NEW t \in Nat, MonthOf(t) \in Starts
      PROVE  t \in 0 .. MonthOf(Horizon) + 1
  BY <1>2
<1> QED
  BY <1>1, <1>2

(* The start that generateBillingPeriod computes follows its predecessor.  *)
LEMMA NextStartFollows == Follows(NextStart)
<1>1. CASE WithStatus("invoiced") = {}
  BY <1>1 DEF NextStart, Follows
<1>2. CASE WithStatus("invoiced") # {}
  <2> DEFINE m == Max(WithStatus("invoiced"))
  <2>1. WithStatus("invoiced") \in SUBSET Starts
    BY DEF WithStatus
  <2>2. m \in WithStatus("invoiced")
    BY <1>2, <2>1, MaxIsMember
  <2>3. m \in Nat
    BY <2>1, <2>2, DatesAssumption DEF Starts
  <2>4. NextStart = m + 2
    BY <1>2 DEF NextStart
  <2>5. NextStart - 2 = m
    BY <2>3, <2>4
  <2> QED
    BY <2>2, <2>5 DEF Follows
<1> QED
  BY <1>1, <1>2

-----------------------------------------------------------------------------
(* The first state. *)
LEMMA InvInit == Init => Inv
<1> SUFFICES ASSUME Init PROVE Inv
  OBVIOUS
<1>1. TypeOK
  <2>1. StartDate \in Starts /\ 0 \in 0 .. MonthOf(Horizon) + 1
    BY DatesAssumption DEF Starts, MonthOf
  <2> QED
    BY <2>1, DatesAssumption DEF Init, TypeOK, Routes
<1>2. PickInv
  BY DEF Init, PickInv
<1>3. BilledOnce /\ Tiled
  BY DEF Init, BilledOnce, Tiled
<1> QED
  BY <1>1, <1>2, <1>3 DEF Inv

(* How a request moves on keeps the types of its own variables. *)
LEMMA Moves ==
  ASSUME TypeOK, NEW q \in Proc
  PROVE  /\ End(q) => /\ pc' \in [Proc -> {"idle", "pending", "last", "insert", "bill"}]
                      /\ via' \in [Proc -> Routes] /\ pick' \in [Proc -> Starts]
                      /\ pc' = [pc EXCEPT ![q] = "idle"]
                      /\ \A r \in Proc \ {q} : pick'[r] = pick[r]
         /\ \A l \in {"last", "bill"} :
              Goto(q, l) => /\ pc' \in [Proc -> {"idle", "pending", "last", "insert", "bill"}]
                            /\ via' \in [Proc -> Routes] /\ pick' \in [Proc -> Starts]
         /\ \A l \in {"insert", "bill"}, s \in Starts :
              Hold(q, s, l) =>
                /\ pc' \in [Proc -> {"idle", "pending", "last", "insert", "bill"}]
                /\ via' \in [Proc -> Routes] /\ pick' \in [Proc -> Starts]
<1>1. StartDate \in Starts /\ "task" \in Routes
  BY DatesAssumption DEF Starts, Routes
<1> QED
  BY <1>1 DEF TypeOK, End, Goto, Hold

(* Every statement, transaction and outside event keeps the types. *)
LEMMA TypeNext == Inv /\ [Next]_vars => TypeOK'
<1> SUFFICES ASSUME TypeOK, [Next]_vars PROVE TypeOK'
  BY DEF Inv
<1> USE DatesAssumption
<1>1. ASSUME NEW q \in Proc, NEW r \in Routes, Begin(q, r) PROVE TypeOK'
  BY <1>1 DEF Begin, TypeOK
<1>2. ASSUME NEW q \in Proc, FindPending(q) PROVE TypeOK'
  <2> DEFINE P == WithStatus("pending")
  <2>1. P # {} => Max(P) \in Starts
    BY MaxIsMember DEF WithStatus
  <2>2. /\ pc' \in [Proc -> {"idle", "pending", "last", "insert", "bill"}]
        /\ via' \in [Proc -> Routes] /\ pick' \in [Proc -> Starts]
    BY <1>2, <2>1, Moves DEF FindPending
  <2> QED
    BY <1>2, <2>2 DEF FindPending, TypeOK
<1>3. ASSUME NEW q \in Proc, FindLast(q) PROVE TypeOK'
  <2>1. /\ pc' \in [Proc -> {"idle", "pending", "last", "insert", "bill"}]
        /\ via' \in [Proc -> Routes] /\ pick' \in [Proc -> Starts]
    BY <1>3, Moves DEF FindLast
  <2> QED
    BY <1>3, <2>1 DEF FindLast, TypeOK
<1>4. ASSUME NEW q \in Proc, InsertPeriod(q) PROVE TypeOK'
  <2>1. /\ pc' \in [Proc -> {"idle", "pending", "last", "insert", "bill"}]
        /\ via' \in [Proc -> Routes] /\ pick' \in [Proc -> Starts]
    BY <1>4, Moves DEF InsertPeriod
  <2>2. pick[q] \in Starts /\ ScheduledAt(pick[q]) \in 0 .. MonthOf(Horizon) + 1
    BY MonthBounds DEF TypeOK
  <2>3. /\ row' \in [Starts -> {"none", "pending", "invoiced"}]
        /\ due' \in [Starts -> 0 .. MonthOf(Horizon) + 1]
    BY <1>4, <2>2 DEF InsertPeriod, TypeOK
  <2> QED
    BY <1>4, <2>1, <2>3 DEF InsertPeriod, TypeOK
<1>5. ASSUME NEW q \in Proc, GenerateInvoice(q) PROVE TypeOK'
  BY <1>5, Moves DEF GenerateInvoice, TypeOK
<1>6. ASSUME NEW q \in Proc, InvoiceItems(q) PROVE TypeOK'
  BY <1>6, Moves DEF InvoiceItems, TypeOK
<1>7. ASSUME NEW q \in Proc, Abort(q) PROVE TypeOK'
  BY <1>7, Moves DEF Abort, TypeOK
<1>8. ASSUME InsertCalendarMonth PROVE TypeOK'
  <2>1. now \in Nat /\ now \in 0 .. MonthOf(Horizon) + 1
    BY <1>8, MonthBounds DEF InsertCalendarMonth, TypeOK
  <2> QED
    BY <1>8, <2>1 DEF InsertCalendarMonth, TypeOK
<1>9. ASSUME Tick PROVE TypeOK'
  BY <1>9 DEF Tick, TypeOK
<1>10. ASSUME ChangeStatus PROVE TypeOK'
  BY <1>10 DEF ChangeStatus, TypeOK
<1>11. ASSUME UNCHANGED vars PROVE TypeOK'
  BY <1>11 DEF vars, TypeOK
<1> QED
  BY <1>1, <1>2, <1>3, <1>4, <1>5, <1>6, <1>7, <1>8, <1>9, <1>10, <1>11 DEF Next, Step

(* No step deletes a row of billing_periods or takes one back from         *)
(* 'invoiced'.                                                             *)
LEMMA RowsGrow ==
  ASSUME Inv, [Next]_vars, NEW s \in Starts
  PROVE  /\ row[s] # "none" => row'[s] # "none"
         /\ row[s] = "invoiced" => row'[s] = "invoiced"
<1> USE DEF Inv, TypeOK
<1>1. ASSUME NEW q \in Proc, InsertPeriod(q)
      PROVE  (row[s] # "none" => row'[s] # "none") /\ (row[s] = "invoiced" => row'[s] = "invoiced")
  BY <1>1 DEF InsertPeriod, Insertable
<1>2. ASSUME NEW q \in Proc, GenerateInvoice(q) \/ InvoiceItems(q)
      PROVE  (row[s] # "none" => row'[s] # "none") /\ (row[s] = "invoiced" => row'[s] = "invoiced")
  BY <1>2 DEF GenerateInvoice, InvoiceItems
<1>3. ASSUME InsertCalendarMonth
      PROVE  (row[s] # "none" => row'[s] # "none") /\ (row[s] = "invoiced" => row'[s] = "invoiced")
  BY <1>3 DEF InsertCalendarMonth, Insertable
<1>4. ASSUME UNCHANGED row
      PROVE  (row[s] # "none" => row'[s] # "none") /\ (row[s] = "invoiced" => row'[s] = "invoiced")
  BY <1>4
<1> QED
  BY <1>1, <1>2, <1>3, <1>4
  DEF Next, Step, Begin, FindPending, FindLast, Abort, Tick, ChangeStatus, vars

(* So a start that followed its predecessor still does. *)
LEMMA FollowsStays ==
  ASSUME Inv, [Next]_vars, NEW s \in Starts, Follows(s)
  PROVE  s = StartDate \/ (s - 2 \in Starts /\ row'[s - 2] = "invoiced")
<1>1. CASE s = StartDate
  BY <1>1
<1>2. CASE s - 2 \in WithStatus("invoiced")
  BY <1>2, RowsGrow DEF WithStatus
<1> QED
  BY <1>1, <1>2 DEF Follows

(* What a request read some statements ago still holds when it writes.     *)
LEMMA PickNext == Inv /\ [Next]_vars => PickInv'
<1> DEFINE Held(p) ==
             /\ pc'[p] = "insert" => \/ pick'[p] = StartDate
                                     \/ /\ pick'[p] - 2 \in Starts
                                        /\ row'[pick'[p] - 2] = "invoiced"
             /\ pc'[p] = "bill" => row'[pick'[p]] # "none"
<1> SUFFICES ASSUME Inv, [Next]_vars, NEW p \in Proc PROVE Held(p)
  BY DEF PickInv, Follows, WithStatus
<1>0. TypeOK /\ pick[p] \in Starts
  BY DEF Inv, TypeOK
<1>1. ASSUME pc'[p] \in {"insert", "bill"} => pc'[p] = pc[p] /\ pick'[p] = pick[p]
      PROVE  Held(p)
  <2>1. CASE pc'[p] = "insert"
    BY <1>0, <1>1, <2>1, FollowsStays DEF Inv, PickInv
  <2>2. CASE pc'[p] = "bill"
    BY <1>0, <1>1, <2>2, RowsGrow DEF Inv, PickInv
  <2> QED
    BY <2>1, <2>2
<1>2. ASSUME NEW q \in Proc, End(q) PROVE Held(p)
  BY <1>0, <1>1, <1>2 DEF End, TypeOK
<1>3. ASSUME NEW q \in Proc, NEW r \in Routes, Begin(q, r) PROVE Held(p)
  BY <1>0, <1>1, <1>3 DEF Begin, TypeOK
<1>4. ASSUME NEW q \in Proc, FindPending(q) PROVE Held(p)
  <2>1. CASE p # q \/ WithStatus("pending") = {}
    BY <1>0, <1>1, <1>2, <1>4, <2>1 DEF FindPending, Hold, Goto, TypeOK
  <2>2. CASE p = q /\ WithStatus("pending") # {}
    <3> DEFINE m == Max(WithStatus("pending"))
    <3>1. m \in Starts /\ row[m] = "pending"
      BY <2>2, MaxIsMember DEF WithStatus
    <3> HIDE DEF m
    <3>2. (Hold(q, m, "bill") \/ End(q)) /\ row' = row
      BY <1>4, <2>2 DEF FindPending, m
    <3>3. CASE Hold(q, m, "bill")
      BY <1>0, <2>2, <3>1, <3>2, <3>3 DEF Hold, TypeOK
    <3> QED
      BY <1>2, <3>2, <3>3
  <2> QED
    BY <2>1, <2>2
<1>5. ASSUME NEW q \in Proc, FindLast(q) PROVE Held(p)
  <2>1. /\ (NextStart \in Starts /\ Hold(q, NextStart, "insert")) \/ End(q)
        /\ row' = row
    BY <1>5 DEF FindLast
  <2>2. CASE NextStart \in Starts /\ Hold(q, NextStart, "insert") /\ p = q
    <3>1. NextStart = StartDate \/ (NextStart - 2 \in Starts /\ row'[NextStart - 2] = "invoiced")
      BY <2>1, <2>2, NextStartFollows DEF Follows, WithStatus
    <3>2. pc'[p] = "insert" /\ pick'[p] = NextStart
      BY <1>0, <2>2 DEF Hold, TypeOK
    <3> QED
      BY <3>1, <3>2
  <2>3. CASE Hold(q, NextStart, "insert") /\ p # q
    BY <1>0, <1>1, <2>3 DEF Hold, TypeOK
  <2> QED
    BY <1>2, <2>1, <2>2, <2>3
<1>6. ASSUME NEW q \in Proc, InsertPeriod(q) PROVE Held(p)
  <2>1. CASE p = q /\ Goto(q, "bill") /\ row' = [row EXCEPT ![pick[q]] = "pending"]
    BY <1>0, <2>1 DEF Goto, TypeOK
  <2>2. CASE p # q /\ Goto(q, "bill")
    BY <1>0, <1>1, <2>2 DEF Goto, TypeOK
  <2> QED
    BY <1>2, <1>6, <2>1, <2>2 DEF InsertPeriod
<1>7. ASSUME NEW q \in Proc, GenerateInvoice(q) \/ InvoiceItems(q) \/ Abort(q) PROVE Held(p)
  BY <1>2, <1>7 DEF GenerateInvoice, InvoiceItems, Abort
<1>8. ASSUME UNCHANGED <<pc, pick>> PROVE Held(p)
  BY <1>1, <1>8
<1> QED
  BY <1>3, <1>4, <1>5, <1>6, <1>7, <1>8
  DEF Next, Step, InsertCalendarMonth, Tick, ChangeStatus, vars

(* A second invoice would need the window to be pending again. *)
LEMMA BilledNext == Inv /\ [Next]_vars => BilledOnce'
<1> SUFFICES ASSUME Inv, [Next]_vars, NEW s \in Starts
             PROVE  billed'[s] <= 1 /\ (billed'[s] = 1 => row'[s] = "invoiced")
  BY DEF BilledOnce
<1>1. /\ billed[s] \in Nat /\ billed[s] <= 1
      /\ billed[s] = 1 => row[s] = "invoiced"
  BY DEF Inv, TypeOK, BilledOnce
<1>2. ASSUME billed'[s] = billed[s]
      PROVE  billed'[s] <= 1 /\ (billed'[s] = 1 => row'[s] = "invoiced")
  BY <1>1, <1>2, RowsGrow
<1>3. ASSUME NEW q \in Proc, GenerateInvoice(q)
      PROVE  billed'[s] <= 1 /\ (billed'[s] = 1 => row'[s] = "invoiced")
  <2>1. CASE Billable(q) /\ pick[q] = s
    <3>1. row[s] = "pending" /\ billed[s] = 0
      BY <1>1, <2>1 DEF Billable
    <3> QED
      BY <1>3, <2>1, <3>1 DEF GenerateInvoice, Inv, TypeOK
  <2>2. CASE ~(Billable(q) /\ pick[q] = s)
    BY <1>2, <1>3, <2>2 DEF GenerateInvoice, Inv, TypeOK
  <2> QED
    BY <2>1, <2>2
<1> QED
  BY <1>2, <1>3
  DEF Next, Step, Begin, FindPending, FindLast, InsertPeriod, InvoiceItems, Abort,
      InsertCalendarMonth, Tick, ChangeStatus, vars

(* A row is inserted where its predecessor was billed when the request     *)
(* looked, and billed it stays.                                            *)
LEMMA TiledNext == Inv /\ [Next]_vars => Tiled'
<1> SUFFICES ASSUME Inv, [Next]_vars, calendar' = {}, NEW s \in Starts, row'[s] # "none"
             PROVE  s = StartDate \/ (s - 2 \in Starts /\ row'[s - 2] = "invoiced")
  BY DEF Tiled, WithStatus
<1>1. TypeOK /\ calendar = {} /\ ~InsertCalendarMonth
  <2>1. calendar \subseteq calendar'
    BY DEF Next, Step, Begin, FindPending, FindLast, InsertPeriod, GenerateInvoice,
           InvoiceItems, Abort, InsertCalendarMonth, Tick, ChangeStatus, vars
  <2> QED
    BY <2>1 DEF InsertCalendarMonth, Inv
<1>2. CASE row[s] # "none"
  <2>1. Follows(s)
    BY <1>1, <1>2 DEF Inv, Tiled, Follows
  <2> QED
    BY <2>1, FollowsStays
<1>3. CASE row[s] = "none"
  <2>1. PICK q \in Proc : InsertPeriod(q) /\ pick[q] = s
    <3>1. ASSUME NEW q \in Proc, InsertPeriod(q) PROVE pick[q] = s
      BY <1>1, <1>3, <3>1 DEF InsertPeriod, TypeOK
    <3>2. ASSUME NEW q \in Proc, GenerateInvoice(q) \/ InvoiceItems(q) PROVE FALSE
      <4>1. row[pick[q]] # "none"
        BY <3>2 DEF Inv, PickInv, GenerateInvoice, InvoiceItems
      <4> QED
        BY <1>1, <1>3, <3>2, <4>1 DEF GenerateInvoice, InvoiceItems, TypeOK
    <3> QED
      BY <1>1, <1>3, <3>1, <3>2
      DEF Next, Step, Begin, FindPending, FindLast, Abort, Tick, ChangeStatus, vars
  <2>2. Follows(s)
    BY <2>1 DEF InsertPeriod, Inv, PickInv
  <2> QED
    BY <2>2, FollowsStays
<1> QED
  BY <1>2, <1>3

-----------------------------------------------------------------------------
(* Inv holds in every reachable state. *)
THEOREM Invariance == Spec => []Inv
<1>1. Inv /\ [Next]_vars => Inv'
  BY TypeNext, PickNext, BilledNext, TiledNext DEF Inv
<1> QED
  BY InvInit, <1>1, PTL DEF Spec

(* Every variable stays in its type: the statements of the handlers never  *)
(* set a status, a day or a position outside its domain.                   *)
THEOREM TypeCorrect == Spec => []TypeOK
<1>1. Inv => TypeOK
  BY DEF Inv
<1> QED
  BY Invariance, <1>1, PTL

(* generateInvoice bills a window at most once, and a window it billed     *)
(* stays invoiced, for any number of overlapping tasks and requests, of    *)
(* crashes between their statements and of windows.                        *)
THEOREM BilledOnceHolds == Spec => []BilledOnce
<1>1. Inv => BilledOnce
  BY DEF Inv
<1> QED
  BY Invariance, <1>1, PTL

(* The windows of generateBillingPeriod follow each other without gap or   *)
(* overlap from the start of the contract, however many requests saw the   *)
(* same last window, as long as no calendar month was put in.              *)
THEOREM TiledHolds == Spec => []Tiled
<1>1. Inv => Tiled
  BY DEF Inv
<1> QED
  BY Invariance, <1>1, PTL
=============================================================================
