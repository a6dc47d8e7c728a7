------------------------- MODULE ProcurementProofs -------------------------
(***************************************************************************)
(* Theorems about Procurement, for any number of requests, orders and      *)
(* receipts, and any traffic.                                              *)
(*                                                                         *)
(* Goods receipts are written one after the other although nothing locks   *)
(* the order: the first statement of each takes the next number, which the *)
(* unique index lets one of them have at a time (Drafted, Serial).  What a *)
(* receipt has added is therefore relative to rows nobody else writes      *)
(* (Written), and what it commits is what the ledger of receipts says.     *)
(***************************************************************************)
EXTENDS Procurement, Sums

Rows == Orders \cup OrderLines
Writing == {"saving", "updating"}

IsRow(x, entity) ==
  /\ x \in Orders => entity \in SupplierPO
  /\ x \in OrderLines => entity \in SupplierPOItem

Shape ==
  /\ pc \in [Requests -> Phases \cup {"receiving", "stocking"}]
  /\ DOMAIN dto = Requests /\ DOMAIN view = Requests /\ DOMAIN todo = Requests
  /\ DOMAIN diff = Requests /\ DOMAIN pending = Requests /\ DOMAIN draft = Requests
  /\ added \in [Requests -> Nat]
  /\ inserted \subseteq Requests
  /\ load \in Loads

(* The numbers of the receipts have no gap, so the index lets a number in  *)
(* only if it is the next one, and one request at a time have it.          *)
Receipt(r, n) == [by |-> r, number |-> n, order |-> dto[r].order, lines |-> dto[r].lines]
Numbered == NextNumber \in Nat \ {0} /\ Numbers = 1 .. NextNumber - 1
Serial == \A r, s \in inserted : r = s
ReceiptsTyped ==
  /\ IsFiniteSet(receipts)
  /\ \A g \in receipts : g.order \in Orders /\ g.lines \in Seq(ReceiptLine)
Drafted(r) ==
  /\ pc[r] \in {"idle", "reading"} \/ (pc[r] = "receiving" /\ r \notin inserted) => added[r] = 0
  /\ pc[r] = "receiving" =>
       /\ dto[r].kind = "receive" /\ added[r] <= Len(dto[r].lines)
       /\ \E n \in 1 .. NextNumber : draft[r] = {Receipt(r, n)}
  /\ r \in inserted => /\ dto[r].kind = "receive" /\ pc[r] \in {"receiving"} \cup Writing
                       /\ draft[r] = {Receipt(r, NextNumber)}
  /\ pc[r] \in Writing /\ dto[r].kind = "receive" => r \in inserted /\ added[r] = 0
  /\ pc[r] = "stocking" =>
       /\ dto[r].kind = "receive"
       /\ draft[r] \subseteq receipts /\ \A g \in draft[r] : g.lines = dto[r].lines
Asked(r) == pc[r] # "idle" => dto[r] \in load.inputs

(* What holds of all traffic. *)
Numbering ==
  /\ Shape /\ Numbered /\ Serial /\ ReceiptsTyped /\ MovementsFollowReceipts
  /\ \A r \in Requests : Drafted(r) /\ Asked(r)

(* What a request has read and, if it is writing, what its UPDATEs amount  *)
(* to: the lines of its receipt added so far, then the order's status.     *)
Single == IsFiniteSet(InFlight) /\ (OneByOne => \A r, s \in InFlight : r = s)
Busy(r) == pc[r] \in Writing \/ r \in inserted
RowsTyped == DOMAIN rows = Rows /\ \A x \in Rows : IsRow(x, rows[x])
Knows(r) == \A x \in DOMAIN view[r] : x \in Rows /\ IsRow(x, view[r][x])
Resting(r) == ~Busy(r) => DOMAIN pending[r] = {}

Extra(r, l) ==
  IF dto[r].kind # "receive" THEN 0
  ELSE IF pc[r] = "receiving" THEN SumFunctionOnSet(Named(dto[r], l), 1 .. added[r])
  ELSE QuantityIn(dto[r], l)
Entities(r) == [x \in Image(dto[r].order) |-> IF x = dto[r].order THEN rows[x] ELSE Seen(r, x)]
Moves(status, target) ==
  \/ target = status
  \/ target \in TRANSITIONS[status] \ {"PARTIALLY_RECEIVED", "FULLY_RECEIVED"}
IsGoal(r, entity) ==
  /\ entity \in SupplierPO
  /\ dto[r].kind = "receive" => entity.status = StatusAfterReceipt(dto[r].order, Entities(r))
  /\ dto[r].kind # "receive" => Moves(rows[dto[r].order].status, entity.status)
Plan(r, goal) ==
  [image |-> [x \in Image(dto[r].order) |-> IF x = dto[r].order THEN goal ELSE Seen(r, x)],
   decimals |-> {}]
Goal(r) == Head(todo[r]).image[dto[r].order]
Saved(r) == pc[r] = "saving" /\ todo[r] = << >>
Written(r) ==
  Busy(r) =>
    /\ \A l \in OrderLines :
         Seen(r, l) = [quantity_received |-> rows[l].quantity_received + Extra(r, l)]
    /\ \A o \in Orders : Seen(r, o) = rows[o] \/ (o = dto[r].order /\ Saved(r))
    /\ Saved(r) => IsGoal(r, Seen(r, dto[r].order))
    /\ pc[r] \in Writing /\ ~Saved(r) =>
         /\ IsGoal(r, Goal(r)) /\ todo[r] = <<Plan(r, Goal(r))>>
         /\ pc[r] = "updating" =>
              diff[r] = [x \in Image(dto[r].order) |->
                           Differing(Head(todo[r]).image[x], {}, Seen(r, x))]

(* One by one, what a request has read is what there is. *)
Fresh(r) ==
  /\ pc[r] = "idle" => DOMAIN view[r] = {}
  /\ pc[r] \in {"reading", "receiving"} \cup Writing =>
       \A x \in DOMAIN view[r] : view[r][x] = rows[x]
  /\ pc[r] \in {"receiving"} \cup Writing /\ dto[r].kind = "receive" =>
       /\ rows[dto[r].order].status \in {"CONFIRMED", "PARTIALLY_RECEIVED"}
       /\ \A n \in DOMAIN dto[r].lines :
            LET l == <<dto[r].order, dto[r].lines[n].line>>
            IN WithinReliquat(l, dto[r].lines[n].quantity, rows[l].quantity_received)

Writes(r) == Knows(r) /\ Resting(r) /\ Written(r)
Receiving ==
  /\ RowsTyped /\ ReceiptsExplainOrder
  /\ \A r \in Requests : Writes(r) /\ (OneByOne => Fresh(r))

Inv == Numbering /\ Single /\ (ReceivedApart => Receiving)

-----------------------------------------------------------------------------
USE DEF Phases, Ended, Writing

LEMMA DtoKinds ==
  ASSUME NEW d \in Dto
  PROVE  /\ d.kind \in {"send", "confirm", "cancel", "portalConfirm", "refuse", "edit", "receive"}
         /\ d.order \in Orders
         /\ d.kind = "edit" => d.notes \in STRING
         /\ d.kind = "receive" => d.lines \in Seq(ReceiptLine)
BY DEF Dto

LEMMA MaxOfInterval == ASSUME NEW k \in Nat PROVE Max((1 .. k) \cup {0}) = k
<1>1. k \in (1 .. k) \cup {0} /\ \A y \in (1 .. k) \cup {0} : k >= y
  OBVIOUS
<1>2. \A x \in (1 .. k) \cup {0} : x >= k => x = k
  OBVIOUS
<1> QED BY <1>1, <1>2, Zenon DEF Max

LEMMA OneMore ==
  ASSUME NEW n \in Nat
  PROVE  1 .. n + 1 = (1 .. n) \cup {n + 1} /\ n + 1 \notin 1 .. n /\ IsFiniteSet(1 .. n)
<1>1. IsFiniteSet(1 .. n)
  BY FS_Interval
<1> QED BY <1>1

LEMMA Validated ==
  ASSUME ProcurementAssumption, Numbering, NEW r \in Requests, pc[r] # "idle"
  PROVE  /\ dto[r] \in Dto /\ dto[r].order \in Orders
         /\ dto[r].kind = "receive" => dto[r].lines \in Seq(ReceiptLine) /\ Len(dto[r].lines) \in Nat
<1>1. dto[r] \in Dto
  BY DEF ProcurementAssumption, Numbering, Shape, Asked
<1> QED BY <1>1, DtoKinds

(* A request that does not move keeps its receipt. *)
LEMMA DraftedKept ==
  ASSUME Numbering, NEW s \in Requests, pc'[s] = pc[s], dto'[s] = dto[s], draft'[s] = draft[s],
         added'[s] = added[s], s \in inserted' <=> s \in inserted, UNCHANGED load,
         receipts \subseteq receipts', NextNumber' \in Nat, NextNumber <= NextNumber',
         s \in inserted => NextNumber' = NextNumber
  PROVE  Drafted(s)' /\ Asked(s)'
<1>1. \A n : Receipt(s, n)' = Receipt(s, n)
  BY DEF Receipt
<1>2. Drafted(s) /\ Asked(s) /\ NextNumber \in Nat
  BY DEF Numbering, Numbered
<1>3. pc'[s] = "receiving" => \E n \in 1 .. NextNumber' : draft'[s] = {Receipt(s, n)'}
  BY <1>1, <1>2 DEF Drafted
<1>4. s \in inserted' => draft'[s] = {Receipt(s, NextNumber)'}
  BY <1>1, <1>2 DEF Drafted
<1> QED BY <1>2, <1>3, <1>4 DEF Drafted, Asked

(* Most actions concern one request and no receipt. *)
LEMMA NumberingKept ==
  ASSUME Numbering, NEW r \in Requests, UNCHANGED <<receipts, movements, load>>,
         \A s \in Requests \ {r} : /\ pc'[s] = pc[s] /\ dto'[s] = dto[s] /\ draft'[s] = draft[s]
                                   /\ added'[s] = added[s] /\ (s \in inserted' <=> s \in inserted),
         Shape', Serial', Drafted(r)', Asked(r)'
  PROVE  Numbering'
<1>1. NextNumber' = NextNumber /\ Numbers' = Numbers
  BY DEF NextNumber, Numbers
<1>2. Numbered' /\ ReceiptsTyped' /\ MovementsFollowReceipts'
  BY <1>1 DEF Numbering, Numbered, ReceiptsTyped, MovementsFollowReceipts
<1>3. ASSUME NEW s \in Requests \ {r} PROVE Drafted(s)' /\ Asked(s)'
  <2>1. NextNumber \in Nat /\ NextNumber' \in Nat /\ NextNumber <= NextNumber'
    BY <1>1 DEF Numbering, Numbered
  <2> QED BY <1>1, <2>1, DraftedKept
<1> QED BY <1>2, <1>3 DEF Numbering

LEMMA ForgottenNumbering ==
  ASSUME Numbering, NEW r \in Requests, NEW outcome \in Ended, End(r, outcome), Forget(r),
         UNCHANGED <<receipts, movements, load>>, pc[r] # "idle"
  PROVE  Numbering'
<1>1. /\ pc' = [pc EXCEPT ![r] = outcome] /\ UNCHANGED dto
      /\ draft' = [draft EXCEPT ![r] = {}] /\ inserted' = inserted \ {r}
      /\ added' = [added EXCEPT ![r] = 0]
  BY DEF End, Forget
<1>2. Shape' /\ Serial'
  BY <1>1 DEF Numbering, Shape, Serial, End
<1>3. pc'[r] \in Ended /\ r \notin inserted'
  BY <1>1 DEF Numbering, Shape
<1>4. Drafted(r)' /\ Asked(r)'
  BY <1>1, <1>3 DEF Numbering, Drafted, Asked
<1>5. \A s \in Requests \ {r} :
        /\ pc'[s] = pc[s] /\ dto'[s] = dto[s] /\ draft'[s] = draft[s]
        /\ added'[s] = added[s] /\ (s \in inserted' <=> s \in inserted)
  BY <1>1 DEF Numbering, Shape
<1> QED BY <1>2, <1>4, <1>5, NumberingKept

LEMMA FailedNumbering ==
  ASSUME Numbering, NEW r \in Requests, pc[r] # "idle", Fail(r)
  PROVE  Numbering'
BY ForgottenNumbering DEF Fail, Rollback

(* What is not a receipt takes no number. *)
LEMMA OtherNumbering ==
  ASSUME ProcurementAssumption, Numbering, NEW r \in Requests,
         \/ Arrive(r) \/ Fetch(r) \/ Transition(r) \/ CheckCancel(r) \/ Edit(r) \/ PortalReply(r)
         \/ Write(r)
  PROVE  Numbering'
<1>1. CASE Fail(r) /\ ~Arrive(r)
  BY <1>1, FailedNumbering DEF Fetch, Transition, CheckCancel, Edit, PortalReply, Handles, Write,
    Reload, Update
<1>2. CASE ~Fail(r) \/ Arrive(r)
  <2>1. /\ UNCHANGED <<receipts, draft, inserted, added, movements, load>>
        /\ \/ pc[r] = "idle" /\ pc' = [pc EXCEPT ![r] = "reading"]
              /\ \E d \in load.inputs : dto' = [dto EXCEPT ![r] = d]
           \/ pc[r] = "reading" /\ UNCHANGED pc /\ UNCHANGED dto
           \/ pc[r] = "reading" /\ dto[r].kind # "receive" /\ pc' = [pc EXCEPT ![r] = "saving"]
              /\ UNCHANGED dto
           \/ pc[r] = "saving" /\ pc' = [pc EXCEPT ![r] = "updating"] /\ UNCHANGED dto
           \/ pc[r] = "updating" /\ pc' = [pc EXCEPT ![r] = "saving"] /\ UNCHANGED dto
    BY <1>2 DEF Arrive, Open, receiptVars, Fetch, Read, Transition, CheckCancel, Edit, PortalReply,
      Handles, Decide, Proceed, Write, Reload, Update
  <2>2. Shape'
    BY <1>2, <2>1 DEF Numbering, Shape, Arrive, Open, Fetch, Read, Transition, CheckCancel, Edit,
      PortalReply, Decide, Proceed, Write, Reload, Update
  <2>3. Serial'
    BY <2>1 DEF Numbering, Serial
  <2>4. NextNumber' = NextNumber /\ \A n : dto'[r] = dto[r] => Receipt(r, n)' = Receipt(r, n)
    BY <2>1 DEF NextNumber, Numbers, Receipt
  <2>5. Drafted(r) /\ Asked(r) /\ Shape
    BY DEF Numbering
  <2>6. Drafted(r)' /\ Asked(r)'
    BY <2>1, <2>4, <2>5 DEF Shape, Drafted, Asked
  <2>7. \A s \in Requests \ {r} : pc'[s] = pc[s] /\ dto'[s] = dto[s]
    BY <2>1, <2>5 DEF Shape
  <2> QED BY <2>1, <2>2, <2>3, <2>6, <2>7, NumberingKept
<1> QED BY <1>1, <1>2

LEMMA BeginNumbering ==
  ASSUME ProcurementAssumption, Numbering, NEW r \in Requests, BeginReceipt(r)
  PROVE  Numbering'
<1>1. pc[r] = "reading" /\ dto[r].kind = "receive" /\ r \notin inserted /\ added[r] = 0
  BY DEF BeginReceipt, Handles, Numbering, Drafted
<1>2. CASE Fail(r)
  BY <1>1, <1>2, FailedNumbering
<1>3. CASE ~Fail(r)
  <2>1. /\ pc' = [pc EXCEPT ![r] = "receiving"]
        /\ draft' = [draft EXCEPT ![r] = {Receipt(r, NextNumber)}]
        /\ UNCHANGED <<dto, view, todo, diff, pending, receipts, inserted, added, movements, load>>
    BY <1>3 DEF BeginReceipt, Receipt
  <2>2. Shape' /\ Serial'
    BY <2>1 DEF Numbering, Shape, Serial
  <2>3. NextNumber' = NextNumber /\ NextNumber \in 1 .. NextNumber
    BY <2>1 DEF NextNumber, Numbers, Numbering, Numbered
  <2>4. pc'[r] = "receiving" /\ draft'[r] = {Receipt(r, NextNumber)} /\ r \notin inserted'
    BY <1>1, <2>1 DEF Numbering, Shape
  <2>5. Receipt(r, NextNumber)' = Receipt(r, NextNumber)
    BY <2>1, <2>3 DEF Receipt
  <2>6. added[r] <= Len(dto[r].lines)
    BY <1>1, Validated
  <2>7. \E n \in 1 .. NextNumber' : draft'[r] = {Receipt(r, n)'}
    BY <2>3, <2>4, <2>5
  <2>8. Drafted(r)' /\ Asked(r)'
    BY <1>1, <2>1, <2>4, <2>6, <2>7 DEF Numbering, Drafted, Asked
  <2>9. \A s \in Requests \ {r} : pc'[s] = pc[s] /\ draft'[s] = draft[s]
    BY <2>1 DEF Numbering, Shape
  <2> QED BY <2>1, <2>2, <2>8, <2>9, NumberingKept
<1> QED BY <1>2, <1>3

(* The index lets a number in that is the next one, and one request at a time. *)
LEMMA InsertNumbering ==
  ASSUME ProcurementAssumption, Numbering, NEW r \in Requests, InsertReceipt(r)
  PROVE  Numbering' /\ (~Fail(r) => inserted = {} /\ draft[r] = {Receipt(r, NextNumber)})
<1>1. pc[r] = "receiving" /\ r \notin inserted
  BY DEF InsertReceipt
<1>2. CASE Fail(r)
  BY <1>1, <1>2, FailedNumbering
<1>3. CASE ~Fail(r)
  <2>1. PICK n \in 1 .. NextNumber : draft[r] = {Receipt(r, n)}
    BY <1>1 DEF Numbering, Drafted
  <2>2. /\ \A s \in inserted : \A h \in draft[s] : ~Clash(n, h.number)
        /\ ~\E m \in Numbers : Clash(n, m)
        /\ inserted' = inserted \cup {r}
        /\ UNCHANGED <<sessionVars, receipts, draft, added, movements, load>>
    BY <1>3, <2>1 DEF InsertReceipt, Receipt
  <2>3. n = NextNumber
    BY <2>2 DEF Clash, Numbering, Numbered
  <2>4. inserted = {}
    <3>1. SUFFICES ASSUME NEW s \in inserted PROVE FALSE
      OBVIOUS
    <3>2. draft[s] = {Receipt(s, NextNumber)}
      BY DEF Numbering, Shape, Drafted
    <3>3. Receipt(s, NextNumber) \in draft[s] /\ Receipt(s, NextNumber).number = NextNumber
      BY <3>2 DEF Receipt
    <3> QED BY <2>2, <2>3, <3>3 DEF Clash
  <2>5. Shape' /\ Serial'
    BY <2>2, <2>4 DEF Numbering, Shape, Serial, sessionVars
  <2>6. NextNumber' = NextNumber /\ \A m : Receipt(r, m)' = Receipt(r, m)
    BY <2>2 DEF NextNumber, Numbers, Receipt, sessionVars
  <2>7. Drafted(r)' /\ Asked(r)'
    <3>1. pc' = pc /\ dto' = dto /\ draft' = draft /\ added' = added /\ load' = load
      BY <2>2 DEF sessionVars
    <3>2. draft'[r] = {Receipt(r, NextNumber)'}
      BY <2>1, <2>3, <2>6, <3>1
    <3>3. \E m \in 1 .. NextNumber' : draft'[r] = {Receipt(r, m)'}
      BY <2>3, <2>6, <3>2
    <3> QED BY <1>1, <3>1, <3>2, <3>3 DEF Numbering, Drafted, Asked
  <2> QED BY <2>1, <2>2, <2>3, <2>4, <2>5, <2>7, NumberingKept DEF sessionVars
<1> QED BY <1>2, <1>3

LEMMA AddNumbering ==
  ASSUME ProcurementAssumption, Numbering, NEW r \in Requests, AddLine(r)
  PROVE  Numbering'
<1>1. /\ pc[r] = "receiving" /\ r \in inserted /\ added[r] < Len(dto[r].lines)
      /\ added' = [added EXCEPT ![r] = @ + 1]
      /\ UNCHANGED <<pc, dto, view, todo, diff, receipts, draft, inserted, movements, load>>
  BY DEF AddLine
<1>2. dto[r].kind = "receive" /\ Len(dto[r].lines) \in Nat /\ added[r] \in Nat
  BY <1>1, Validated DEF Numbering, Drafted, Shape
<1>3. Shape' /\ Serial'
  BY <1>1 DEF Numbering, Shape, Serial, AddLine, SetColumns
<1>4. NextNumber' = NextNumber /\ \A n : Receipt(r, n)' = Receipt(r, n)
  BY <1>1 DEF NextNumber, Numbers, Receipt
<1>5. added'[r] = added[r] + 1 /\ \A s \in Requests \ {r} : added'[s] = added[s]
  BY <1>1 DEF Numbering, Shape
<1>6. Drafted(r)' /\ Asked(r)'
  BY <1>1, <1>2, <1>4, <1>5 DEF Numbering, Drafted, Asked
<1> QED BY <1>1, <1>3, <1>5, <1>6, NumberingKept

LEMMA StatusNumbering ==
  ASSUME ProcurementAssumption, Numbering, NEW r \in Requests, UpdateStatusAfterReceipt(r)
  PROVE  Numbering'
<1>1. /\ pc[r] = "receiving" /\ r \in inserted
      /\ pc' = [pc EXCEPT ![r] = "saving"] /\ added' = [added EXCEPT ![r] = 0]
      /\ UNCHANGED <<dto, view, diff, pending, receipts, draft, inserted, movements, load>>
  BY DEF UpdateStatusAfterReceipt, Proceed
<1>2. Shape' /\ Serial'
  BY <1>1 DEF Numbering, Shape, Serial, UpdateStatusAfterReceipt, Proceed
<1>3. NextNumber' = NextNumber /\ \A n : Receipt(r, n)' = Receipt(r, n)
  BY <1>1 DEF NextNumber, Numbers, Receipt
<1>4. pc'[r] = "saving" /\ added'[r] = 0
      /\ \A s \in Requests \ {r} : added'[s] = added[s] /\ pc'[s] = pc[s]
  BY <1>1 DEF Numbering, Shape
<1>5. Drafted(r)' /\ Asked(r)'
  BY <1>1, <1>3, <1>4 DEF Numbering, Drafted, Asked
<1> QED BY <1>1, <1>2, <1>4, <1>5, NumberingKept

(* The committed receipt takes the number that was next. *)
LEMMA CommitNumbering ==
  ASSUME ProcurementAssumption, Numbering, NEW r \in Requests, CommitReceipt(r)
  PROVE  /\ Numbering'
         /\ receipts' = receipts \cup {Receipt(r, NextNumber)}
         /\ Receipt(r, NextNumber) \notin receipts
<1>1. /\ pc[r] = "saving" /\ r \in inserted /\ dto[r].kind = "receive"
      /\ receipts' = receipts \cup draft[r] /\ inserted' = inserted \ {r}
      /\ pc' = [pc EXCEPT ![r] = "stocking"]
      /\ UNCHANGED <<dto, view, todo, diff, draft, added, movements, load>>
  BY DEF CommitReceipt, AllSaved
<1>2. draft[r] = {Receipt(r, NextNumber)} /\ NextNumber \in Nat \ {0} /\ Numbers = 1 .. NextNumber - 1
  BY <1>1 DEF Numbering, Drafted, Numbered
<1>3. inserted' = {}
  BY <1>1 DEF Numbering, Serial
<1>4. Shape' /\ Serial'
  BY <1>1, <1>3 DEF Numbering, Shape, Serial, CommitReceipt
<1>5. Receipt(r, NextNumber).number = NextNumber /\ Receipt(r, NextNumber) \notin receipts
  BY <1>2 DEF Receipt, Numbers
<1>6. Numbers' = Numbers \cup {NextNumber} /\ Numbers' = 1 .. NextNumber
  <2>1. receipts' = receipts \cup {Receipt(r, NextNumber)}
    BY <1>1, <1>2
  <2>2. \A n \in Numbers' : n \in Numbers \/ n = NextNumber
    BY <1>5, <2>1 DEF Numbers
  <2>3. \A n \in Numbers : n \in Numbers'
    BY <2>1 DEF Numbers
  <2>4. NextNumber \in Numbers'
    BY <1>5, <2>1 DEF Numbers
  <2>5. Numbers' = Numbers \cup {NextNumber}
    BY <2>2, <2>3, <2>4
  <2>6. 1 .. NextNumber = (1 .. NextNumber - 1) \cup {NextNumber}
    BY <1>2
  <2> QED BY <1>2, <2>5, <2>6, Zenon
<1>7. NextNumber' = NextNumber + 1
  <2>1. Max(Numbers' \cup {0}) = NextNumber
    BY <1>2, <1>6, MaxOfInterval
  <2> QED BY <1>2, <2>1 DEF NextNumber
<1>8. Numbered'
  BY <1>2, <1>6, <1>7 DEF Numbered
<1>9. ReceiptsTyped'
  <2>1. dto[r].order \in Orders /\ dto[r].lines \in Seq(ReceiptLine)
    BY <1>1, Validated
  <2>2. IsFiniteSet(receipts')
    BY <1>1, <1>2, FS_AddElement DEF Numbering, ReceiptsTyped
  <2> QED BY <1>1, <1>2, <2>1, <2>2 DEF Numbering, ReceiptsTyped, Receipt
<1>10. MovementsFollowReceipts'
  BY <1>1 DEF Numbering, MovementsFollowReceipts
<1>11. Drafted(r)' /\ Asked(r)'
  <2>1. pc'[r] = "stocking" /\ r \notin inserted' /\ draft'[r] = draft[r]
    BY <1>1 DEF Numbering, Shape
  <2>2. \A g \in draft[r] : g.lines = dto[r].lines
    BY <1>2 DEF Receipt
  <2> QED BY <1>1, <2>1, <2>2 DEF Numbering, Drafted, Asked
<1>12. ASSUME NEW s \in Requests \ {r} PROVE Drafted(s)' /\ Asked(s)'
  <2>1. pc'[s] = pc[s] /\ s \notin inserted /\ s \notin inserted'
    BY <1>1, <1>3 DEF Numbering, Shape, Serial
  <2> QED BY <1>1, <1>2, <1>7, <2>1, DraftedKept
<1> QED BY <1>1, <1>2, <1>4, <1>5, <1>8, <1>9, <1>10, <1>11, <1>12 DEF Numbering

LEMMA MoveNumbering ==
  ASSUME ProcurementAssumption, Numbering, NEW r \in Requests, MoveStock(r)
  PROVE  Numbering'
<1>1. /\ pc[r] = "stocking" /\ added[r] < Len(dto[r].lines)
      /\ added' = [added EXCEPT ![r] = @ + 1]
      /\ \/ movements' = movements \cup {<<g.number, added[r] + 1>> : g \in draft[r]}
         \/ UNCHANGED movements
      /\ UNCHANGED <<pc, dto, view, todo, diff, pending, receipts, draft, inserted, load>>
  BY DEF MoveStock, AfterCommit, sessionVars
<1>2. /\ dto[r].kind = "receive" /\ draft[r] \subseteq receipts /\ added[r] \in Nat
      /\ \A g \in draft[r] : g.lines = dto[r].lines
  BY <1>1 DEF Numbering, Drafted, Shape
<1>3. dto[r].lines \in Seq(ReceiptLine) /\ added[r] + 1 \in DOMAIN dto[r].lines
  BY <1>1, <1>2, Validated
<1>4. Shape' /\ Serial'
  BY <1>1 DEF Numbering, Shape, Serial
<1>5. NextNumber' = NextNumber /\ Numbers' = Numbers /\ NextNumber \in Nat
  BY <1>1 DEF NextNumber, Numbers, Numbering, Numbered
<1>6. Numbered' /\ ReceiptsTyped'
  BY <1>1, <1>5 DEF Numbering, Numbered, ReceiptsTyped
<1>7. MovementsFollowReceipts'
  <2>1. MovementsFollowReceipts
    BY DEF Numbering
  <2>2. \A g \in draft[r] : g \in receipts' /\ added[r] + 1 \in DOMAIN g.lines
    BY <1>1, <1>2, <1>3
  <2>3. CASE UNCHANGED movements
    BY <1>1, <2>1, <2>3 DEF MovementsFollowReceipts
  <2>4. CASE movements' = movements \cup {<<g.number, added[r] + 1>> : g \in draft[r]}
    <3>1. ASSUME NEW m \in movements'
          PROVE  \E g \in receipts' : g.number = m[1] /\ m[2] \in DOMAIN g.lines
      <4>1. CASE m \in movements
        BY <1>1, <2>1, <4>1 DEF MovementsFollowReceipts
      <4>2. CASE m \notin movements
        <5>1. PICK g \in draft[r] : m = <<g.number, added[r] + 1>>
          BY <2>4, <4>2
        <5> QED BY <2>2, <5>1
      <4> QED BY <4>1, <4>2
    <3> QED BY <3>1 DEF MovementsFollowReceipts
  <2> QED BY <1>1, <2>3, <2>4
<1>8. Drafted(r)' /\ Asked(r)'
  BY <1>1 DEF Numbering, Drafted, Asked
<1>9. ASSUME NEW s \in Requests \ {r} PROVE Drafted(s)' /\ Asked(s)'
  <2>1. added'[s] = added[s]
    BY <1>1 DEF Numbering, Shape
  <2> QED BY <1>1, <1>5, <2>1, DraftedKept
<1> QED BY <1>4, <1>6, <1>7, <1>8, <1>9 DEF Numbering

LEMMA NumberingStep ==
  ASSUME ProcurementAssumption, Numbering, [Next]_vars
  PROVE  Numbering'
<1>1. CASE UNCHANGED vars
  <2>1. NextNumber' = NextNumber /\ Numbers' = Numbers /\ \A r, n : Receipt(r, n)' = Receipt(r, n)
    BY <1>1 DEF vars, sessionVars, receiptVars, NextNumber, Numbers, Receipt
  <2> QED BY <1>1, <2>1 DEF vars, sessionVars, receiptVars, Numbering, Shape, Numbered, Serial,
    ReceiptsTyped, MovementsFollowReceipts, Drafted, Asked
<1>2. ASSUME NEW r \in Requests, Arrive(r) \/ Handle(r) \/ Abort(r) PROVE Numbering'
  <2>1. CASE Finish(r)
    <3>1. pc[r] # "idle" /\ End(r, "done") /\ Forget(r) /\ UNCHANGED <<receipts, movements, load>>
      BY <2>1 DEF Finish, Commit, AllSaved
    <3> QED BY <3>1, ForgottenNumbering
  <2>2. CASE Abort(r)
    BY <2>2, FailedNumbering DEF Abort, InFlight
  <2> QED BY <1>2, <2>1, <2>2, OtherNumbering, BeginNumbering, InsertNumbering, AddNumbering,
          StatusNumbering, CommitNumbering, MoveNumbering DEF Handle
<1> QED BY <1>1, <1>2 DEF Next

LEMMA NumberingInit ==
  ASSUME ProcurementAssumption, Init
  PROVE  Numbering
<1>1. /\ pc = [r \in Requests |-> "idle"] /\ dto = [r \in Requests |-> Nothing]
      /\ view = [r \in Requests |-> Nothing] /\ todo = [r \in Requests |-> << >>]
      /\ diff = [r \in Requests |-> Nothing] /\ pending = [r \in Requests |-> Nothing]
      /\ draft = [r \in Requests |-> {}] /\ added = [r \in Requests |-> 0]
      /\ receipts = {} /\ inserted = {} /\ movements = {} /\ load \in Loads
  BY DEF Init, SessionsInit
<1>2. Numbers = {} /\ NextNumber = 1
  <2>1. Numbers = {}
    BY <1>1 DEF Numbers
  <2>2. (1 .. 0) \cup {0} = Numbers \cup {0}
    BY <2>1
  <2>3. Max(Numbers \cup {0}) = 0
    BY <2>2, MaxOfInterval
  <2> QED BY <2>1, <2>3 DEF NextNumber
<1>3. Numbered /\ ReceiptsTyped
  BY <1>1, <1>2, FS_EmptySet DEF Numbered, ReceiptsTyped
<1> QED BY <1>1, <1>3 DEF Numbering, Shape, Serial, MovementsFollowReceipts, Drafted, Asked

(* updateStock only ever moves the stock for a line of a receipt that has  *)
(* committed, however the receipts, the confirmations and the cancellations *)
(* of the orders overlap.                                                  *)
THEOREM StockFollowsReceipts == ProcurementAssumption => (Spec => []MovementsFollowReceipts)
<1> SUFFICES ASSUME ProcurementAssumption PROVE Spec => []MovementsFollowReceipts
  OBVIOUS
<1>1. Init => Numbering
  BY NumberingInit
<1>2. Numbering /\ [Next]_vars => Numbering'
  BY NumberingStep
<1>3. Numbering => MovementsFollowReceipts
  BY DEF Numbering
<1> QED BY <1>1, <1>2, <1>3, PTL DEF Spec

-----------------------------------------------------------------------------
(* The sums of a receipt, and of all receipts. *)
LEMMA NamedType ==
  ASSUME NEW g, g.lines \in Seq(ReceiptLine), NEW l
  PROVE  /\ DOMAIN g.lines = 1 .. Len(g.lines) /\ IsFiniteSet(DOMAIN g.lines)
         /\ \A n \in DOMAIN g.lines : Named(g, l)[n] \in Nat
         /\ \A S \in SUBSET DOMAIN g.lines :
              IsFiniteSet(S) /\ SumFunctionOnSet(Named(g, l), S) \in Nat
         /\ QuantityIn(g, l) \in Nat
<1>1. DOMAIN g.lines = 1 .. Len(g.lines) /\ IsFiniteSet(DOMAIN g.lines)
  BY FS_Interval
<1>2. \A n \in DOMAIN g.lines : Named(g, l)[n] \in Nat
  <2>1. ASSUME NEW n \in DOMAIN g.lines PROVE Named(g, l)[n] \in Nat
    <3>1. g.lines[n] \in ReceiptLine
      BY <1>1
    <3>2. g.lines[n].quantity \in Nat
      BY <3>1 DEF ReceiptLine
    <3> QED BY <3>2 DEF Named
  <2> QED BY <2>1
<1>3. ASSUME NEW S \in SUBSET DOMAIN g.lines
      PROVE IsFiniteSet(S) /\ SumFunctionOnSet(Named(g, l), S) \in Nat
  <2>1. IsFiniteSet(S) /\ \A n \in S : Named(g, l)[n] \in Nat
    BY <1>1, <1>2, FS_Subset
  <2> QED BY <2>1, SumOfNats
<1>4. DOMAIN g.lines \in SUBSET DOMAIN g.lines
  OBVIOUS
<1> QED BY <1>1, <1>2, <1>3, <1>4 DEF QuantityIn

LEMMA QuantityElsewhere ==
  ASSUME NEW g, g.lines \in Seq(ReceiptLine), NEW l,
         \A n \in DOMAIN g.lines : <<g.order, g.lines[n].line>> # l
  PROVE  QuantityIn(g, l) = 0
<1>1. IsFiniteSet(DOMAIN g.lines) /\ \A n \in DOMAIN g.lines : Named(g, l)[n] = 0
  BY NamedType DEF Named
<1> QED BY <1>1, SumOfZeros DEF QuantityIn

LEMMA QuantityNamedOnce ==
  ASSUME NEW g, g.lines \in Seq(ReceiptLine), NEW m \in DOMAIN g.lines,
         \A n \in DOMAIN g.lines : g.lines[n].line = g.lines[m].line => n = m
  PROVE  QuantityIn(g, <<g.order, g.lines[m].line>>) = g.lines[m].quantity
<1> DEFINE l == <<g.order, g.lines[m].line>>
<1>1. IsFiniteSet(DOMAIN g.lines) /\ Named(g, l)[m] = g.lines[m].quantity
  BY NamedType DEF Named
<1>2. g.lines[m].quantity \in Int
  <2>1. g.lines[m] \in ReceiptLine
    BY NamedType
  <2> QED BY <2>1 DEF ReceiptLine
<1>3. \A n \in DOMAIN g.lines \ {m} : Named(g, l)[n] = 0
  BY DEF Named
<1> HIDE DEF l
<1> QED BY <1>1, <1>2, <1>3, SumOfOne DEF QuantityIn, l

LEMMA QuantityOfReceipt ==
  ASSUME NEW r, NEW n, NEW l
  PROVE  QuantityIn(Receipt(r, n), l) = QuantityIn(dto[r], l)
BY DEF QuantityIn, Named, Receipt

LEMMA BookedType ==
  ASSUME Numbering, NEW l
  PROVE  Booked(l) \in Nat
<1>1. \A g \in receipts : [h \in receipts |-> QuantityIn(h, l)][g] \in Nat
  BY NamedType DEF Numbering, ReceiptsTyped
<1> QED BY <1>1, SumOfNats DEF Booked, Numbering, ReceiptsTyped

LEMMA BookedGrows ==
  ASSUME Numbering, NEW g, g \notin receipts, g.lines \in Seq(ReceiptLine),
         receipts' = receipts \cup {g}, NEW l
  PROVE  Booked(l)' = Booked(l) + QuantityIn(g, l)
<1> DEFINE f == [h \in receipts |-> QuantityIn(h, l)]
           h2 == [h \in receipts \cup {g} |-> QuantityIn(h, l)]
<1>1. /\ IsFiniteSet(receipts) /\ \A h \in receipts : f[h] \in Int /\ h2[h] = f[h]
      /\ h2[g] = QuantityIn(g, l) /\ h2[g] \in Int
  BY NamedType DEF Numbering, ReceiptsTyped
<1>2. Booked(l)' = SumFunctionOnSet(h2, receipts \cup {g}) /\ Booked(l) = SumFunctionOnSet(f, receipts)
  BY DEF Booked
<1> HIDE DEF f, h2
<1> QED BY <1>1, <1>2, SumGrows

-----------------------------------------------------------------------------
LEMMA SingleStep ==
  ASSUME ProcurementAssumption, Numbering, Single, [Next]_vars
  PROVE  Single' /\ UNCHANGED load
<1>1. CASE UNCHANGED vars
  BY <1>1 DEF vars, sessionVars, receiptVars, Single, InFlight, OneByOne
<1>2. ASSUME NEW r \in Requests, Arrive(r) PROVE Single' /\ UNCHANGED load
  <2>1. UNCHANGED load /\ Room(load) /\ InFlight' = InFlight \cup {r}
    BY <1>2 DEF Arrive, receiptVars, Open, InFlight, Numbering, Shape
  <2>2. IsFiniteSet(InFlight')
    BY <2>1, FS_AddElement DEF Single
  <2>3. OneByOne => InFlight = {}
    <3>1. SUFFICES ASSUME OneByOne PROVE InFlight = {}
      OBVIOUS
    <3>2. Cardinality(InFlight) < 1 /\ IsFiniteSet(InFlight)
      BY <2>1, <3>1 DEF Room, OneByOne, Single
    <3> QED BY <3>2, FS_CardinalityType, FS_EmptySet
  <2> QED BY <2>1, <2>2, <2>3 DEF Single, OneByOne
<1>3. ASSUME NEW r \in Requests, Handle(r) \/ Abort(r) PROVE Single' /\ UNCHANGED load
  <2>1. UNCHANGED load /\ pc[r] \notin {"idle"} \cup Ended
    BY <1>3 DEF Handle, Abort, InFlight, Fetch, Transition, CheckCancel, Edit, PortalReply, Handles,
      Decide, BeginReceipt, InsertReceipt, AddLine, UpdateStatusAfterReceipt, Write, Reload, Update,
      CommitReceipt, MoveStock, AfterCommit, Finish, AllSaved, Fail, receiptVars
  <2>2. \A s \in Requests \ {r} : pc'[s] = pc[s]
    BY <1>3 DEF Numbering, Shape, Handle, Abort, Fetch, Read, Transition, CheckCancel, Edit,
      PortalReply, Decide, Proceed, BeginReceipt, InsertReceipt, AddLine, UpdateStatusAfterReceipt,
      Write, Reload, Update, CommitReceipt, MoveStock, Finish, Commit, Fail, Rollback, End, sessionVars
  <2>3. InFlight' \subseteq InFlight
    BY <2>1, <2>2 DEF InFlight
  <2>4. IsFiniteSet(InFlight')
    BY <2>3, FS_Subset DEF Single
  <2> QED BY <2>1, <2>3, <2>4 DEF Single, OneByOne
<1> QED BY <1>1, <1>2, <1>3 DEF Next

(* One request writes at a time. *)
LEMMA Unique ==
  ASSUME Numbering, Single, ReceivedApart, NEW r \in Requests, NEW s \in Requests, Busy(r), Busy(s)
  PROVE  r = s
<1>1. CASE OneByOne
  BY <1>1 DEF Numbering, Drafted, Busy, Single, InFlight
<1>2. CASE \A d \in load.inputs : d.kind = "receive"
  BY <1>2 DEF Numbering, Drafted, Asked, Busy, Serial
<1> QED BY <1>1, <1>2 DEF ReceivedApart

(* Who does not move knows, has written and is to write what he did. *)
LEMMA WritesKept ==
  ASSUME NEW s \in Requests, Writes(s), pc'[s] = pc[s], dto'[s] = dto[s], view'[s] = view[s],
         todo'[s] = todo[s], diff'[s] = diff[s], pending'[s] = pending[s], added'[s] = added[s],
         s \in inserted' <=> s \in inserted,
         UNCHANGED rows \/ ~Busy(s)
  PROVE  Writes(s)'
<1>1. Busy(s)' = Busy(s)
  BY DEF Busy
<1>2. Knows(s)' /\ Resting(s)'
  BY <1>1 DEF Writes, Knows, Resting
<1>3. CASE ~Busy(s)
  BY <1>1, <1>2, <1>3 DEF Writes, Written
<1>4. CASE UNCHANGED rows
  <2>1. \A x : Seen(s, x)' = Seen(s, x)
    BY <1>4 DEF Seen
  <2>2. \A l : Extra(s, l)' = Extra(s, l)
    BY DEF Extra
  <2>3. Entities(s)' = Entities(s) /\ Goal(s)' = Goal(s) /\ Saved(s)' = Saved(s)
    BY <1>4, <2>1 DEF Entities, Goal, Saved
  <2>4. \A e : IsGoal(s, e)' = IsGoal(s, e) /\ Plan(s, e)' = Plan(s, e)
    BY <1>4, <2>1, <2>3 DEF IsGoal, Plan
  <2>5. Written(s)
    BY DEF Writes
  <2> QED BY <1>1, <1>2, <1>4, <2>1, <2>2, <2>3, <2>4, <2>5 DEF Writes, Written
<1> QED BY <1>3, <1>4

LEMMA FreshKept ==
  ASSUME NEW s \in Requests, Fresh(s), pc'[s] = pc[s], dto'[s] = dto[s], view'[s] = view[s],
         UNCHANGED rows \/ s \notin InFlight
  PROVE  Fresh(s)'
BY DEF Fresh, InFlight

(* Most actions change no row and concern one request. *)
LEMMA ReceivingKept ==
  ASSUME Numbering, ReceivedApart, Receiving, NEW r \in Requests, UNCHANGED <<rows, receipts, load>>,
         \A s \in Requests \ {r} :
           /\ pc'[s] = pc[s] /\ dto'[s] = dto[s] /\ view'[s] = view[s] /\ todo'[s] = todo[s]
           /\ diff'[s] = diff[s] /\ pending'[s] = pending[s] /\ added'[s] = added[s]
           /\ (s \in inserted' <=> s \in inserted),
         Writes(r)', OneByOne => Fresh(r)'
  PROVE  Receiving'
<1>1. RowsTyped'
  BY DEF Receiving, RowsTyped
<1>2. ReceiptsExplainOrder'
  <2>1. \A l : Booked(l)' = Booked(l)
    BY DEF Booked
  <2> QED BY <2>1 DEF Receiving, ReceiptsExplainOrder, ReceivedApart, OneByOne, NamedOnce
<1>3. ASSUME NEW s \in Requests \ {r} PROVE Writes(s)' /\ (OneByOne => Fresh(s)')
  <2>1. Writes(s) /\ (OneByOne => Fresh(s))
    BY DEF Receiving
  <2> QED BY <2>1, WritesKept, FreshKept
<1> QED BY <1>1, <1>2, <1>3 DEF Receiving, OneByOne

-----------------------------------------------------------------------------
(* One lemma per action: what the request has then read and written. *)
LEMMA ReadReceiving ==
  ASSUME ProcurementAssumption, Numbering, Single, ReceivedApart, Receiving, NEW r \in Requests,
         Arrive(r) \/ Fetch(r) \/ (CheckCancel(r) /\ ~Fail(r))
  PROVE  Receiving'
<1>1. /\ pc[r] \in {"idle", "reading"} /\ pc' = [pc EXCEPT ![r] = "reading"]
      /\ \/ pc[r] = "idle" /\ (\E d : dto' = [dto EXCEPT ![r] = d]) /\ UNCHANGED view
         \/ pc[r] = "reading" /\ UNCHANGED dto
      /\ UNCHANGED <<rows, todo, diff, pending, receipts, inserted, added, load>>
  BY DEF Arrive, Open, receiptVars, Fetch, Read, CheckCancel, Handles, Numbering, Shape
<1>2. /\ Shape /\ ~Busy(r) /\ DOMAIN pending[r] = {} /\ Knows(r) /\ (OneByOne => Fresh(r))
      /\ RowsTyped
  BY <1>1 DEF Numbering, Drafted, Busy, Receiving, Writes, Resting
<1>3. pc'[r] = "reading" /\ ~Busy(r)' /\ DOMAIN pending'[r] = {}
  BY <1>1, <1>2 DEF Busy, Shape
<1>4. /\ \A x \in DOMAIN view'[r] : x \in Rows /\ IsRow(x, view'[r][x])
      /\ OneByOne => \A x \in DOMAIN view'[r] : view'[r][x] = rows[x]
  <2>1. CASE Arrive(r)
    <3>1. pc[r] = "idle" /\ view'[r] = view[r]
      BY <2>1 DEF Arrive, Open
    <3> QED BY <1>2, <3>1 DEF Knows, Fresh
  <2>2. CASE Fetch(r)
    <3>1. PICK n \in 1 .. Len(Reads(dto[r])) : Read(r, Reads(dto[r])[n])
      BY <2>2 DEF Fetch
    <3> DEFINE X == Reads(dto[r])[n]
    <3>2. X \subseteq Rows
      <4>1. dto[r].order \in Orders
        BY <2>2, Validated DEF Fetch
      <4>2. Image(dto[r].order) \subseteq Rows /\ {dto[r].order} \X Lines \subseteq Rows
        BY <4>1 DEF Image, Rows, OrderLines
      <4>3. X \in {{dto[r].order}, {dto[r].order} \X Lines, Image(dto[r].order)}
        <5>1. CASE dto[r].kind = "receive"
          <6>1. Reads(dto[r]) = <<{dto[r].order}, {dto[r].order} \X Lines>>
            BY <5>1 DEF Reads
          <6>2. n \in {1, 2}
            BY <6>1
          <6> QED BY <6>1, <6>2
        <5>2. CASE dto[r].kind # "receive"
          <6>1. Reads(dto[r]) = <<Image(dto[r].order)>>
            BY <5>2 DEF Reads
          <6>2. n = 1
            BY <6>1
          <6> QED BY <6>1, <6>2
        <5> QED BY <5>1, <5>2
      <4> QED BY <4>1, <4>2, <4>3 DEF Rows
    <3> HIDE DEF X
    <3>3. view' = [view EXCEPT ![r] = With(view[r], X)]
      BY <3>1 DEF Read, X
    <3>4. view'[r] = [x \in DOMAIN view[r] \cup X |-> IF x \in X THEN rows[x] ELSE view[r][x]]
      BY <1>2, <3>3 DEF With, Shape
    <3>5. pc[r] = "reading"
      BY <2>2 DEF Fetch
    <3> QED BY <1>2, <3>2, <3>4, <3>5 DEF Knows, Fresh, RowsTyped
  <2>3. CASE CheckCancel(r) /\ ~Fail(r)
    <3>1. view' = [view EXCEPT ![r] = Nothing] /\ DOMAIN Nothing = {}
      BY <2>3 DEF CheckCancel, Nothing
    <3>2. DOMAIN view'[r] = {}
      BY <1>2, <3>1 DEF Shape
    <3> QED BY <3>2
  <2> QED BY <2>1, <2>2, <2>3
<1>5. Writes(r)'
  BY <1>3, <1>4 DEF Writes, Knows, Resting, Written
<1>6. OneByOne => Fresh(r)'
  BY <1>1, <1>3, <1>4 DEF Fresh
<1>7. \A s \in Requests \ {r} : pc'[s] = pc[s] /\ dto'[s] = dto[s] /\ view'[s] = view[s]
  BY <1>1, <1>2 DEF Shape, Arrive, Open, Fetch, Read, CheckCancel
<1> QED BY <1>1, <1>5, <1>6, <1>7, ReceivingKept

LEMMA EndedReceiving ==
  ASSUME Numbering, ReceivedApart, Receiving, NEW r \in Requests, NEW outcome \in Ended,
         End(r, outcome), Forget(r), UNCHANGED <<rows, receipts, load>>
  PROVE  Receiving'
<1>1. /\ pc' = [pc EXCEPT ![r] = outcome] /\ view' = [view EXCEPT ![r] = Nothing]
      /\ todo' = [todo EXCEPT ![r] = << >>] /\ diff' = [diff EXCEPT ![r] = Nothing]
      /\ pending' = [pending EXCEPT ![r] = Nothing] /\ UNCHANGED dto
      /\ inserted' = inserted \ {r} /\ added' = [added EXCEPT ![r] = 0]
  BY DEF End, Forget
<1>2. pc'[r] \in Ended /\ r \notin inserted' /\ DOMAIN view'[r] = {} /\ DOMAIN pending'[r] = {}
  BY <1>1 DEF Numbering, Shape, Nothing
<1>3. Writes(r)' /\ Fresh(r)'
  BY <1>2 DEF Writes, Knows, Resting, Written, Busy, Fresh
<1>4. \A s \in Requests \ {r} :
        /\ pc'[s] = pc[s] /\ dto'[s] = dto[s] /\ view'[s] = view[s] /\ todo'[s] = todo[s]
        /\ diff'[s] = diff[s] /\ pending'[s] = pending[s] /\ added'[s] = added[s]
        /\ (s \in inserted' <=> s \in inserted)
  BY <1>1 DEF Numbering, Shape
<1> QED BY <1>3, <1>4, ReceivingKept

LEMMA FailedReceiving ==
  ASSUME Numbering, ReceivedApart, Receiving, NEW r \in Requests, Fail(r)
  PROVE  Receiving'
BY EndedReceiving DEF Fail, Rollback

(* The save of an order that was read as it is, with another status. *)
LEMMA ProceedReceiving ==
  ASSUME ProcurementAssumption, Numbering, Single, ReceivedApart, Receiving, NEW r \in Requests,
         pc[r] = "reading", dto[r].kind # "receive", Image(dto[r].order) \subseteq DOMAIN view[r],
         NEW status \in POStatus, NEW notes \in STRING,
         Moves(view[r][dto[r].order].status, status),
         Proceed(r, <<SaveOrder(view[r], dto[r].order, status, notes)>>), UNCHANGED receiptVars
  PROVE  Receiving'
<1> DEFINE o == dto[r].order
           goal == [status |-> status, notes |-> notes]
           plan == SaveOrder(view[r], o, status, notes)
<1>1. OneByOne /\ o \in Orders /\ goal \in SupplierPO
  BY Validated DEF ReceivedApart, Numbering, Asked, SupplierPO
<1>2. \A x \in Image(o) : view[r][x] = rows[x]
  BY <1>1 DEF Receiving, Fresh
<1>3. ~Busy(r) /\ r \notin inserted /\ DOMAIN pending[r] = {} /\ Knows(r) /\ Fresh(r) /\ Shape /\ RowsTyped
  BY <1>1 DEF Numbering, Drafted, Busy, Receiving, Writes, Resting
<1>4. /\ pc' = [pc EXCEPT ![r] = "saving"] /\ todo' = [todo EXCEPT ![r] = <<plan>>]
      /\ UNCHANGED <<rows, dto, view, diff, pending, receipts, inserted, added, load>>
  BY DEF Proceed, receiptVars
<1>5. pc'[r] = "saving" /\ todo'[r] = <<plan>> /\ r \notin inserted'
  BY <1>3, <1>4 DEF Shape
<1>6. \A x : Seen(r, x)' = rows[x]
  BY <1>3, <1>4 DEF Seen
<1>7. plan = Plan(r, goal)'
  <2>1. plan = [image |-> [x \in Image(o) |-> IF x = o THEN goal ELSE view[r][x]], decimals |-> {}]
    BY DEF SaveOrder
  <2>2. Plan(r, goal)' = [image |-> [x \in Image(o) |-> IF x = o THEN goal ELSE rows[x]], decimals |-> {}]
    BY <1>4, <1>6 DEF Plan
  <2> QED BY <1>2, <2>1, <2>2
<1>8. Goal(r)' = goal
  <2>1. plan.image[o] = goal
    BY DEF SaveOrder, Image
  <2>2. Head(todo'[r]) = plan /\ dto'[r].order = o
    BY <1>4, <1>5
  <2> QED BY <2>1, <2>2 DEF Goal
<1>9. IsGoal(r, goal)'
  BY <1>1, <1>2, <1>4 DEF IsGoal, Image
<1>10. \A l : Extra(r, l)' = 0
  BY <1>4 DEF Extra
<1>11. \A l \in OrderLines : rows[l] = [quantity_received |-> rows[l].quantity_received + 0]
  <2>1. ASSUME NEW l \in OrderLines PROVE rows[l] = [quantity_received |-> rows[l].quantity_received + 0]
    <3>1. rows[l] \in SupplierPOItem
      BY <1>3 DEF RowsTyped, IsRow, Rows
    <3> QED BY <3>1 DEF SupplierPOItem
  <2> QED BY <2>1
<1> HIDE DEF o, goal, plan
<1>12. Written(r)'
  <2>1. ~Saved(r)' /\ pc'[r] # "updating"
    BY <1>5 DEF Saved
  <2>2. \A l \in OrderLines :
          Seen(r, l)' = [quantity_received |-> rows'[l].quantity_received + Extra(r, l)']
    BY <1>4, <1>6, <1>10, <1>11
  <2>3. \A q \in Orders : Seen(r, q)' = rows'[q]
    BY <1>4, <1>6
  <2>4. IsGoal(r, Goal(r))' /\ todo'[r] = <<Plan(r, Goal(r))'>>
    BY <1>5, <1>7, <1>8, <1>9
  <2> QED BY <2>1, <2>2, <2>3, <2>4 DEF Written
<1>13. Writes(r)'
  BY <1>3, <1>4, <1>5, <1>12 DEF Writes, Knows, Resting, Busy
<1>14. Fresh(r)'
  BY <1>3, <1>4, <1>5 DEF Fresh
<1>15. \A s \in Requests \ {r} : pc'[s] = pc[s] /\ todo'[s] = todo[s]
  BY <1>3, <1>4 DEF Shape
<1> QED BY <1>4, <1>13, <1>14, <1>15, ReceivingKept

(* An order is transitioned, edited or answered by its supplier.           *)
LEMMA DecideReceiving ==
  ASSUME ProcurementAssumption, Numbering, Single, ReceivedApart, Receiving, NEW r \in Requests,
         Transition(r) \/ Edit(r) \/ PortalReply(r), ~Fail(r)
  PROVE  Receiving'
<1> DEFINE o == dto[r].order
<1>1. pc[r] = "reading" /\ dto[r].kind # "receive" /\ o \in Orders /\ o \in Image(o)
  BY Validated DEF Transition, Edit, PortalReply, Handles, Image
<1>2. Image(o) \subseteq DOMAIN view[r]
  <2>1. Reads(dto[r]) = <<Image(o)>>
    BY <1>1 DEF Reads
  <2>2. 1 \in 1 .. Len(Reads(dto[r])) /\ Reads(dto[r])[1] = Image(o)
    BY <2>1
  <2>3. HasRead(r, 1)
    BY <2>2 DEF Transition, Edit, PortalReply, Handles
  <2> QED BY <2>2, <2>3 DEF HasRead
<1>3. view[r][o].status \in POStatus /\ view[r][o].notes \in STRING
  <2>1. view[r][o] \in SupplierPO
    BY <1>1, <1>2 DEF Receiving, Writes, Knows, IsRow
  <2> QED BY <2>1 DEF SupplierPO
<1>4. PICK status \in POStatus, notes \in STRING :
        /\ Moves(view[r][o].status, status)
        /\ Proceed(r, <<SaveOrder(view[r], o, status, notes)>>) /\ UNCHANGED receiptVars
  <2>1. CASE Transition(r)
    <3>1. TargetOf(dto[r].kind) \in {"SENT", "CONFIRMED", "CANCELLED"}
      BY <2>1 DEF Transition, Handles, TargetOf
    <3>2. /\ Allowed(view[r][o].status, TargetOf(dto[r].kind))
          /\ Proceed(r, <<SaveOrder(view[r], o, TargetOf(dto[r].kind), view[r][o].notes)>>)
          /\ UNCHANGED receiptVars
      BY <2>1 DEF Transition, Decide
    <3> QED BY <1>3, <3>1, <3>2 DEF Moves, Allowed, POStatus
  <2>2. CASE Edit(r)
    <3>1. /\ view[r][o].status = "DRAFT" /\ UNCHANGED receiptVars
          /\ Proceed(r, <<SaveOrder(view[r], o, "DRAFT", dto[r].notes)>>)
      BY <2>2 DEF Edit, Decide
    <3>2. dto[r].notes \in STRING
      BY <1>1, <2>2, Validated, DtoKinds DEF Edit, Handles
    <3> QED BY <1>3, <3>1, <3>2 DEF Moves
  <2>3. CASE PortalReply(r)
    <3> DEFINE answer == IF dto[r].kind = "portalConfirm" THEN "CONFIRMED" ELSE "CANCELLED"
    <3>1. /\ view[r][o].status = "SENT" /\ UNCHANGED receiptVars
          /\ Proceed(r, <<SaveOrder(view[r], o, answer, view[r][o].notes)>>)
      BY <2>3 DEF PortalReply, Decide, AwaitsSupplier
    <3>2. answer \in TRANSITIONS["SENT"] \ {"PARTIALLY_RECEIVED", "FULLY_RECEIVED"} /\ answer \in POStatus
      BY DEF TRANSITIONS, POStatus
    <3> QED BY <1>3, <3>1, <3>2 DEF Moves
  <2> QED BY <2>1, <2>2, <2>3
<1> QED BY <1>1, <1>2, <1>4, ProceedReceiving

(* A receipt that is about to be written adds nothing yet. *)
LEMMA BeginReceiving ==
  ASSUME ProcurementAssumption, Numbering, Single, ReceivedApart, Receiving, NEW r \in Requests,
         BeginReceipt(r), ~Fail(r)
  PROVE  Receiving'
<1> DEFINE d == dto[r]
<1>1. /\ pc[r] = "reading" /\ d.kind = "receive" /\ pc' = [pc EXCEPT ![r] = "receiving"]
      /\ view[r][d.order].status \in {"CONFIRMED", "PARTIALLY_RECEIVED"}
      /\ \A n \in DOMAIN d.lines : ValidLine(r, <<d.order, d.lines[n].line>>, d.lines[n].quantity)
      /\ UNCHANGED <<rows, dto, view, todo, diff, pending, receipts, inserted, added, load>>
  BY DEF BeginReceipt, Handles
<1>2. ~Busy(r) /\ r \notin inserted /\ DOMAIN pending[r] = {} /\ Knows(r) /\ (OneByOne => Fresh(r)) /\ Shape
  BY <1>1 DEF Numbering, Drafted, Busy, Receiving, Writes, Resting
<1>3. pc'[r] = "receiving"
  BY <1>1, <1>2 DEF Shape
<1>4. Writes(r)'
  BY <1>1, <1>2, <1>3 DEF Writes, Knows, Resting, Written, Busy
<1>5. /\ d.order \in DOMAIN view[r]
      /\ \A n \in DOMAIN d.lines : <<d.order, d.lines[n].line>> \in DOMAIN view[r]
  <2>1. Reads(d) = <<{d.order}, {d.order} \X Lines>>
    BY <1>1 DEF Reads
  <2>2. /\ 1 \in 1 .. Len(Reads(d)) /\ Reads(d)[1] = {d.order}
        /\ 2 \in 1 .. Len(Reads(d)) /\ Reads(d)[2] = {d.order} \X Lines
    BY <2>1
  <2>3. HasRead(r, 1) /\ HasRead(r, 2)
    BY <2>2 DEF BeginReceipt, Handles
  <2>4. {d.order} \X Lines \subseteq DOMAIN view[r] /\ d.order \in DOMAIN view[r]
    BY <2>2, <2>3 DEF HasRead
  <2>5. \A n \in DOMAIN d.lines : d.lines[n].line \in Lines
    <3>1. d.lines \in Seq(ReceiptLine)
      BY <1>1, Validated
    <3>2. \A n \in DOMAIN d.lines : d.lines[n] \in ReceiptLine
      BY <3>1
    <3> QED BY <3>2 DEF ReceiptLine
  <2> QED BY <2>4, <2>5
<1>6. OneByOne => Fresh(r)'
  <2>1. SUFFICES ASSUME OneByOne PROVE Fresh(r)'
    OBVIOUS
  <2>2. \A x \in DOMAIN view[r] : view[r][x] = rows[x]
    BY <1>1, <1>2, <2>1 DEF Fresh
  <2>3. rows[d.order].status \in {"CONFIRMED", "PARTIALLY_RECEIVED"}
    BY <1>1, <1>5, <2>2
  <2>4. \A n \in DOMAIN d.lines :
          LET l == <<d.order, d.lines[n].line>>
          IN WithinReliquat(l, d.lines[n].quantity, rows[l].quantity_received)
    BY <1>1, <1>5, <2>2 DEF ValidLine
  <2> QED BY <1>1, <1>3, <2>2, <2>3, <2>4 DEF Fresh, WithinReliquat
<1>7. \A s \in Requests \ {r} : pc'[s] = pc[s]
  BY <1>1, <1>2 DEF Shape
<1> HIDE DEF d
<1> QED BY <1>1, <1>4, <1>6, <1>7, ReceivingKept

LEMMA InsertReceiving ==
  ASSUME ProcurementAssumption, Numbering, Single, ReceivedApart, Receiving, NEW r \in Requests,
         InsertReceipt(r), ~Fail(r)
  PROVE  Receiving'
<1>1. /\ pc[r] = "receiving" /\ inserted' = inserted \cup {r} /\ r \notin inserted
      /\ UNCHANGED <<rows, pc, dto, view, todo, diff, pending, receipts, added, load>>
  BY DEF InsertReceipt, sessionVars
<1>2. ~Busy(r) /\ DOMAIN pending[r] = {} /\ Knows(r) /\ (OneByOne => Fresh(r)) /\ RowsTyped
      /\ dto[r].kind = "receive" /\ added[r] = 0
  BY <1>1 DEF Numbering, Drafted, Busy, Receiving, Writes, Resting
<1>3. \A x : Seen(r, x)' = rows[x]
  BY <1>1, <1>2 DEF Seen
<1>4. \A l : Extra(r, l)' = 0
  <2>1. ASSUME NEW l PROVE SumFunctionOnSet(Named(dto[r], l), 1 .. added[r]) = 0
    <3>1. 1 .. added[r] = {}
      BY <1>2
    <3> QED BY <3>1, SumEmpty
  <2> QED BY <1>1, <1>2, <2>1 DEF Extra
<1>5. \A l \in OrderLines : rows[l] = [quantity_received |-> rows[l].quantity_received + 0]
  <2>1. ASSUME NEW l \in OrderLines PROVE rows[l] = [quantity_received |-> rows[l].quantity_received + 0]
    <3>1. rows[l] \in SupplierPOItem
      BY <1>2 DEF RowsTyped, IsRow, Rows
    <3> QED BY <3>1 DEF SupplierPOItem
  <2> QED BY <2>1
<1>6. Written(r)'
  <2>1. ~Saved(r)' /\ pc'[r] \notin Writing
    BY <1>1 DEF Saved
  <2>2. \A l \in OrderLines :
          Seen(r, l)' = [quantity_received |-> rows'[l].quantity_received + Extra(r, l)']
    BY <1>1, <1>3, <1>4, <1>5
  <2>3. \A q \in Orders : Seen(r, q)' = rows'[q]
    BY <1>1, <1>3
  <2> QED BY <2>1, <2>2, <2>3 DEF Written
<1>7. Writes(r)' /\ (OneByOne => Fresh(r)')
  BY <1>1, <1>2, <1>6 DEF Writes, Knows, Resting, Busy, Fresh
<1> QED BY <1>1, <1>7, ReceivingKept

(* The UPDATE of a line adds to the row as the transaction sees it. *)
LEMMA AddReceiving ==
  ASSUME ProcurementAssumption, Numbering, Single, ReceivedApart, Receiving, NEW r \in Requests,
         AddLine(r)
  PROVE  Receiving'
<1> PICK d, k, L : d = dto[r] /\ k = added[r] + 1 /\ L = <<d.order, d.lines[k].line>>
  OBVIOUS
<1> DEFINE before == IF L \in DOMAIN pending[r] THEN pending[r][L].cols ELSE {}
           entity == [Seen(r, L) EXCEPT !.quantity_received = @ + d.lines[k].quantity]
<1>1. /\ pc[r] = "receiving" /\ r \in inserted /\ added[r] < Len(d.lines)
      /\ pending' = [pending EXCEPT ![r] =
                       [y \in DOMAIN pending[r] \cup {L} |->
                          IF y = L THEN [entity |-> entity, cols |-> before \cup {"quantity_received"}]
                          ELSE pending[r][y]]]
      /\ added' = [added EXCEPT ![r] = @ + 1]
      /\ UNCHANGED <<rows, pc, dto, view, todo, diff, receipts, inserted, load>>
  BY Zenon DEF AddLine, SetColumns
<1>2. /\ Busy(r) /\ Written(r) /\ Knows(r) /\ (OneByOne => Fresh(r)) /\ RowsTyped /\ Shape
      /\ d.kind = "receive" /\ d.order \in Orders /\ d.lines \in Seq(ReceiptLine)
      /\ added[r] \in Nat /\ DOMAIN d.lines = 1 .. Len(d.lines) /\ k \in DOMAIN d.lines
  BY <1>1, Validated DEF Numbering, Drafted, Shape, Busy, Receiving, Writes
<1>3. d.lines[k].line \in Lines /\ d.lines[k].quantity \in Nat /\ L \in OrderLines
  <2>1. d.lines[k] \in ReceiptLine
    BY <1>2
  <2> QED BY <1>2, <2>1 DEF ReceiptLine, OrderLines
<1>4. \A l \in OrderLines :
        /\ rows[l] \in SupplierPOItem
        /\ Seen(r, l) = [quantity_received |-> rows[l].quantity_received + Extra(r, l)]
        /\ Extra(r, l) \in Nat
  <2>1. ASSUME NEW l \in OrderLines PROVE Extra(r, l) \in Nat
    <3>1. 1 .. added[r] \in SUBSET DOMAIN d.lines
      BY <1>1, <1>2
    <3>2. SumFunctionOnSet(Named(d, l), 1 .. added[r]) \in Nat
      BY <1>2, <3>1, NamedType
    <3> QED BY <1>1, <1>2, <3>2 DEF Extra
  <2> QED BY <1>2, <2>1 DEF RowsTyped, Rows, IsRow, Written
<1>5. \A l : Extra(r, l)' = SumFunctionOnSet(Named(d, l), 1 .. k)
  <2>1. added'[r] = k
    BY <1>1, <1>2 DEF Shape
  <2> QED BY <1>1, <1>2, <2>1 DEF Extra
<1>6. \A l : Extra(r, l)' = Extra(r, l) + Named(d, l)[k]
  <2>1. ASSUME NEW l PROVE Extra(r, l)' = Extra(r, l) + Named(d, l)[k]
    <3>1. 1 .. k = (1 .. added[r]) \cup {k} /\ k \notin 1 .. added[r] /\ IsFiniteSet(1 .. added[r])
      <4>1. added[r] \in Nat /\ k = added[r] + 1
        BY <1>2
      <4> QED BY <4>1, OneMore
    <3>2. \A n \in (1 .. added[r]) \cup {k} : Named(d, l)[n] \in Int
      <4>1. (1 .. added[r]) \cup {k} \subseteq DOMAIN d.lines
        BY <1>1, <1>2
      <4> QED BY <1>2, <4>1, NamedType
    <3>3. SumFunctionOnSet(Named(d, l), 1 .. k) = SumFunctionOnSet(Named(d, l), 1 .. added[r]) + Named(d, l)[k]
      <4> DEFINE f == Named(d, l)
                 S == 1 .. added[r]
      <4>1. IsFiniteSet(S) /\ k \notin S /\ (\A n \in S \cup {k} : f[n] \in Int) /\ 1 .. k = S \cup {k}
        BY <3>1, <3>2
      <4> HIDE DEF f, S
      <4>2. SumFunctionOnSet(f, S \cup {k}) = SumFunctionOnSet(f, S) + f[k]
        BY <4>1, SumAdd
      <4> QED BY <4>1, <4>2 DEF f, S
    <3>4. Extra(r, l) = SumFunctionOnSet(Named(d, l), 1 .. added[r])
      BY <1>1, <1>2 DEF Extra
    <3> QED BY <1>5, <3>3, <3>4
  <2> QED BY <2>1
<1>7. /\ Named(d, L)[k] = d.lines[k].quantity
      /\ \A l : l # L => Named(d, l)[k] = 0
  BY <1>2 DEF Named
<1>8. /\ DOMAIN pending'[r] = DOMAIN pending[r] \cup {L}
      /\ pending'[r][L] = [entity |-> entity, cols |-> before \cup {"quantity_received"}]
      /\ \A y \in DOMAIN pending[r] : y # L => pending'[r][y] = pending[r][y]
  BY <1>1, <1>2 DEF Shape
<1> HIDE DEF before, entity
<1>9. \A x : x # L => Seen(r, x)' = Seen(r, x)
  <2>1. ASSUME NEW x, x # L PROVE Seen(r, x)' = Seen(r, x)
    <3>1. rows' = rows /\ (x \in DOMAIN pending'[r] <=> x \in DOMAIN pending[r])
      BY <1>1, <1>8, <2>1
    <3>2. x \in DOMAIN pending[r] => pending'[r][x] = pending[r][x]
      BY <1>8, <2>1
    <3> QED BY <3>1, <3>2 DEF Seen
  <2> QED BY <2>1
<1>10. Seen(r, L)' = [quantity_received |-> rows[L].quantity_received + Extra(r, L)']
  <2>1. Seen(r, L)' = [c \in DOMAIN rows[L] |->
                         IF c \in before \cup {"quantity_received"} THEN entity[c] ELSE rows[L][c]]
    <3>1. L \in DOMAIN pending'[r] /\ rows' = rows
      BY <1>1, <1>8
    <3>2. pending'[r][L].entity = entity
      BY <1>8
    <3>3. pending'[r][L].cols = before \cup {"quantity_received"}
      BY <1>8
    <3> QED BY <3>1, <3>2, <3>3 DEF Seen, Merge
  <2>2. DOMAIN rows[L] = {"quantity_received"} /\ rows[L].quantity_received \in Nat
    BY <1>3, <1>4 DEF SupplierPOItem
  <2>3. entity.quantity_received = rows[L].quantity_received + Extra(r, L) + d.lines[k].quantity
    BY <1>3, <1>4 DEF entity
  <2>4. entity.quantity_received = rows[L].quantity_received + Extra(r, L)'
    BY <1>3, <1>4, <1>6, <1>7, <2>2, <2>3
  <2>5. Seen(r, L)' = [c \in {"quantity_received"} |-> entity[c]]
    BY <2>1, <2>2
  <2> QED BY <2>4, <2>5
<1>11. Written(r)'
  <2>1. ~Saved(r)' /\ ~Saved(r) /\ pc'[r] \notin Writing
    BY <1>1 DEF Saved
  <2>2. ASSUME NEW l \in OrderLines
        PROVE Seen(r, l)' = [quantity_received |-> rows'[l].quantity_received + Extra(r, l)']
    <3>1. CASE l = L
      BY <1>1, <1>10, <3>1
    <3>2. CASE l # L
      <4>1. Extra(r, l)' = Extra(r, l)
        BY <1>4, <1>6, <1>7, <3>2
      <4> QED BY <1>1, <1>4, <1>9, <3>2, <4>1
    <3> QED BY <3>1, <3>2
  <2>3. \A q \in Orders : Seen(r, q)' = rows'[q]
    <3>1. \A q \in Orders : q # L
      BY <1>3 DEF ProcurementAssumption
    <3> QED BY <1>1, <1>2, <1>9, <2>1, <3>1 DEF Written
  <2> QED BY <2>1, <2>2, <2>3 DEF Written
<1>12. Writes(r)' /\ (OneByOne => Fresh(r)')
  BY <1>1, <1>2, <1>11 DEF Writes, Knows, Resting, Busy, Fresh
<1>13. \A s \in Requests \ {r} : pending'[s] = pending[s] /\ added'[s] = added[s]
  BY <1>1, <1>2 DEF Shape
<1> QED BY <1>1, <1>12, <1>13, ReceivingKept

(* What a receipt has added is what it has written once all lines are in.  *)
LEMMA StatusType ==
  ASSUME NEW o, NEW entities, entities[o].status \in POStatus
  PROVE  StatusAfterReceipt(o, entities) \in POStatus
BY DEF StatusAfterReceipt, POStatus

LEMMA StatusReceiving ==
  ASSUME ProcurementAssumption, Numbering, Single, ReceivedApart, Receiving, NEW r \in Requests,
         UpdateStatusAfterReceipt(r)
  PROVE  Receiving'
<1> PICK o : o = dto[r].order
  OBVIOUS
<1> PICK entities : entities = [x \in Image(o) |-> Seen(r, x)]
  OBVIOUS
<1> PICK goal : goal = [status |-> StatusAfterReceipt(o, entities), notes |-> entities[o].notes]
  OBVIOUS
<1>1. /\ pc[r] = "receiving" /\ r \in inserted /\ added[r] = Len(dto[r].lines)
      /\ pc' = [pc EXCEPT ![r] = "saving"]
      /\ todo' = [todo EXCEPT ![r] =
                    <<SaveOrder(entities, o, StatusAfterReceipt(o, entities), entities[o].notes)>>]
      /\ added' = [added EXCEPT ![r] = 0]
      /\ UNCHANGED <<rows, dto, view, diff, pending, receipts, inserted, load>>
  BY DEF UpdateStatusAfterReceipt, Proceed
<1>2. /\ Busy(r) /\ Written(r) /\ Knows(r) /\ (OneByOne => Fresh(r)) /\ RowsTyped /\ Shape
      /\ dto[r].kind = "receive" /\ o \in Orders /\ dto[r].lines \in Seq(ReceiptLine)
      /\ o \in Image(o)
  BY <1>1, Validated DEF Numbering, Drafted, Shape, Busy, Receiving, Writes, Image
<1>3. Seen(r, o) = rows[o] /\ rows[o] \in SupplierPO
  BY <1>1, <1>2 DEF Written, Saved, RowsTyped, Rows, IsRow
<1>4. entities = Entities(r)
  BY <1>2, <1>3 DEF Entities
<1>5. goal \in SupplierPO
  <2>1. entities[o] = rows[o] /\ rows[o].status \in POStatus /\ rows[o].notes \in STRING
    BY <1>2, <1>3 DEF SupplierPO
  <2> QED BY <2>1, StatusType DEF SupplierPO
<1>6. \A x : Seen(r, x)' = Seen(r, x)
  BY <1>1 DEF Seen
<1>7. Entities(r)' = entities
  BY <1>1, <1>4, <1>6 DEF Entities
<1>8. \A l : Extra(r, l)' = Extra(r, l)
  <2>1. DOMAIN dto[r].lines = 1 .. added[r]
    BY <1>1, <1>2
  <2>2. pc'[r] = "saving"
    BY <1>1, <1>2 DEF Shape
  <2> QED BY <1>1, <1>2, <2>1, <2>2 DEF Extra, QuantityIn
<1>9. todo'[r] = <<Plan(r, goal)'>> /\ pc'[r] = "saving"
  <2>1. todo'[r] = <<SaveOrder(entities, o, StatusAfterReceipt(o, entities), entities[o].notes)>>
        /\ pc'[r] = "saving"
    BY <1>1, <1>2 DEF Shape
  <2>2. SaveOrder(entities, o, StatusAfterReceipt(o, entities), entities[o].notes)
          = [image |-> [x \in Image(o) |-> IF x = o THEN goal ELSE Seen(r, x)], decimals |-> {}]
    BY DEF SaveOrder
  <2>3. Plan(r, goal)' = [image |-> [x \in Image(o) |-> IF x = o THEN goal ELSE Seen(r, x)], decimals |-> {}]
    BY <1>1, <1>6 DEF Plan
  <2> QED BY <2>1, <2>2, <2>3
<1>10. Goal(r)' = goal
  <2>1. Plan(r, goal)'.image[o] = goal
    BY <1>1, <1>2 DEF Plan
  <2>2. Head(todo'[r]) = Plan(r, goal)' /\ dto'[r].order = o
    BY <1>1, <1>9
  <2> QED BY <2>1, <2>2 DEF Goal
<1>11. IsGoal(r, goal)'
  BY <1>1, <1>2, <1>5, <1>7 DEF IsGoal
<1>12. Written(r)'
  <2>1. \A save : <<save>> # << >>
    OBVIOUS
  <2>5. ~Saved(r)' /\ ~Saved(r) /\ pc'[r] # "updating"
    BY <1>1, <1>9, <2>1 DEF Saved
  <2>2. \A l \in OrderLines :
          Seen(r, l)' = [quantity_received |-> rows'[l].quantity_received + Extra(r, l)']
    BY <1>1, <1>2, <1>6, <1>8 DEF Written
  <2>3. \A q \in Orders : Seen(r, q)' = rows'[q]
    BY <1>1, <1>2, <1>6, <2>5 DEF Written
  <2>4. IsGoal(r, Goal(r))' /\ todo'[r] = <<Plan(r, Goal(r))'>>
    BY <1>9, <1>10, <1>11
  <2> QED BY <2>5, <2>2, <2>3, <2>4 DEF Written
<1>13. Writes(r)' /\ (OneByOne => Fresh(r)')
  BY <1>1, <1>2, <1>9, <1>12 DEF Writes, Knows, Resting, Busy, Fresh
<1>14. \A s \in Requests \ {r} : pc'[s] = pc[s] /\ todo'[s] = todo[s] /\ added'[s] = added[s]
  BY <1>1, <1>2 DEF Shape
<1> QED BY <1>1, <1>13, <1>14, ReceivingKept

LEMMA ReloadReceiving ==
  ASSUME ProcurementAssumption, Numbering, Single, ReceivedApart, Receiving, NEW r \in Requests,
         Reload(r), UNCHANGED receiptVars
  PROVE  Receiving'
<1> PICK save : save = Head(todo[r])
  OBVIOUS
<1>1. /\ pc[r] = "saving" /\ todo[r] # << >> /\ pc' = [pc EXCEPT ![r] = "updating"]
      /\ diff' = [diff EXCEPT ![r] = [x \in DOMAIN save.image |->
                    Differing(save.image[x], save.decimals, Seen(r, x))]]
      /\ UNCHANGED <<rows, dto, view, todo, pending, receipts, inserted, added, load>>
  BY DEF Reload, receiptVars
<1>2. Busy(r) /\ Written(r) /\ Knows(r) /\ (OneByOne => Fresh(r)) /\ Shape /\ ~Saved(r)
  BY <1>1 DEF Numbering, Busy, Receiving, Writes, Saved
<1>3. IsGoal(r, Goal(r)) /\ todo[r] = <<Plan(r, Goal(r))>> /\ save = Plan(r, Goal(r))
  BY <1>1, <1>2 DEF Written
<1>4. DOMAIN save.image = Image(dto[r].order) /\ save.decimals = {}
  BY <1>3 DEF Plan
<1>5. /\ pc'[r] = "updating"
      /\ diff'[r] = [x \in Image(dto[r].order) |-> Differing(save.image[x], {}, Seen(r, x))]
  BY <1>1, <1>2, <1>4 DEF Shape
<1>6. \A x : Seen(r, x)' = Seen(r, x)
  BY <1>1 DEF Seen
<1>7. \A l : Extra(r, l)' = Extra(r, l)
  BY <1>1, <1>5 DEF Extra
<1>8. Entities(r)' = Entities(r) /\ Goal(r)' = Goal(r)
  BY <1>1, <1>6 DEF Entities, Goal
<1>9. \A e : IsGoal(r, e)' = IsGoal(r, e) /\ Plan(r, e)' = Plan(r, e)
  BY <1>1, <1>6, <1>8 DEF IsGoal, Plan
<1>10. Written(r)'
  <2>1. ~Saved(r)'
    BY <1>5 DEF Saved
  <2>2. /\ \A l \in OrderLines :
             Seen(r, l)' = [quantity_received |-> rows'[l].quantity_received + Extra(r, l)']
        /\ \A q \in Orders : Seen(r, q)' = rows'[q]
    BY <1>1, <1>2, <1>6, <1>7 DEF Written
  <2>3. IsGoal(r, Goal(r))' /\ todo'[r] = <<Plan(r, Goal(r))'>>
    BY <1>1, <1>3, <1>8, <1>9
  <2>4. diff'[r] = [x \in Image(dto'[r].order) |-> Differing(Head(todo'[r]).image[x], {}, Seen(r, x)')]
    BY <1>1, <1>5, <1>6
  <2> QED BY <2>1, <2>2, <2>3, <2>4 DEF Written
<1>11. Writes(r)' /\ (OneByOne => Fresh(r)')
  BY <1>1, <1>2, <1>5, <1>10 DEF Writes, Knows, Resting, Busy, Fresh
<1>12. \A s \in Requests \ {r} : pc'[s] = pc[s] /\ diff'[s] = diff[s]
  BY <1>1, <1>2 DEF Shape
<1> QED BY <1>1, <1>11, <1>12, ReceivingKept

(* The UPDATE touches the order alone: its lines are as they were read.    *)
LEMMA UpdateReceiving ==
  ASSUME ProcurementAssumption, Numbering, Single, ReceivedApart, Receiving, NEW r \in Requests,
         Update(r), UNCHANGED receiptVars
  PROVE  Receiving'
<1> PICK o, goal : o = dto[r].order /\ goal = Goal(r)
  OBVIOUS
<1>1. /\ pc[r] = "updating" /\ pc' = [pc EXCEPT ![r] = "saving"] /\ todo' = [todo EXCEPT ![r] = Tail(@)]
      /\ pending' = [pending EXCEPT ![r] =
            [x \in DOMAIN pending[r] \cup Needs(r) |->
               IF x \in Needs(r) THEN [entity |-> Head(todo[r]).image[x], cols |-> diff[r][x]]
               ELSE pending[r][x]]]
      /\ diff' = [diff EXCEPT ![r] = Nothing]
      /\ UNCHANGED <<rows, dto, view, receipts, inserted, added, load>>
  BY DEF Update, receiptVars
<1>2. /\ Busy(r) /\ Written(r) /\ Knows(r) /\ (OneByOne => Fresh(r)) /\ Shape /\ ~Saved(r) /\ RowsTyped
      /\ o \in Orders /\ o \in Image(o)
  BY <1>1, Validated DEF Numbering, Busy, Receiving, Writes, Saved, Image
<1>3. /\ IsGoal(r, goal) /\ todo[r] = <<Plan(r, goal)>>
      /\ diff[r] = [x \in Image(o) |-> Differing(Head(todo[r]).image[x], {}, Seen(r, x))]
      /\ Seen(r, o) = rows[o]
  BY <1>1, <1>2 DEF Written
<1>4. Head(todo[r]).image = [x \in Image(o) |-> IF x = o THEN goal ELSE Seen(r, x)] /\ Tail(todo[r]) = << >>
  BY <1>3 DEF Plan
<1>5. Needs(r) \subseteq {o} /\ diff[r][o] = Differing(goal, {}, rows[o])
  BY <1>2, <1>3, <1>4 DEF Needs, Differing
<1>6. /\ pc'[r] = "saving" /\ todo'[r] = << >>
      /\ DOMAIN pending'[r] = DOMAIN pending[r] \cup Needs(r)
      /\ \A x \in DOMAIN pending[r] : x # o => pending'[r][x] = pending[r][x]
      /\ o \notin Needs(r) /\ o \in DOMAIN pending[r] => pending'[r][o] = pending[r][o]
      /\ o \in Needs(r) => pending'[r][o] = [entity |-> goal, cols |-> diff[r][o]]
  BY <1>1, <1>2, <1>4, <1>5 DEF Shape
<1>7. \A x : x # o => Seen(r, x)' = Seen(r, x)
  <2>1. ASSUME NEW x, x # o PROVE Seen(r, x)' = Seen(r, x)
    <3>1. rows' = rows /\ (x \in DOMAIN pending'[r] <=> x \in DOMAIN pending[r])
      BY <1>1, <1>5, <1>6, <2>1
    <3>2. x \in DOMAIN pending[r] => pending'[r][x] = pending[r][x]
      BY <1>6, <2>1
    <3> QED BY <3>1, <3>2 DEF Seen
  <2> QED BY <2>1
<1>8. Seen(r, o)' = goal
  <2>1. goal \in SupplierPO /\ rows[o] \in SupplierPO /\ rows' = rows
    BY <1>1, <1>2, <1>3 DEF IsGoal, RowsTyped, Rows, IsRow
  <2>2. CASE o \in Needs(r)
    <3>1. Seen(r, o)' = Merge(rows[o], goal, diff[r][o])
      BY <1>6, <2>1, <2>2 DEF Seen
    <3> QED BY <1>5, <2>1, <3>1 DEF Merge, Differing, SupplierPO
  <2>3. CASE o \notin Needs(r)
    <3>1. diff[r][o] = {}
      BY <1>2, <1>3, <2>3 DEF Needs
    <3>2. goal = rows[o]
      BY <1>5, <2>1, <3>1 DEF Differing, SupplierPO
    <3>3. Seen(r, o)' = Seen(r, o)
      BY <1>6, <2>1, <2>3 DEF Seen
    <3> QED BY <1>3, <3>2, <3>3
  <2> QED BY <2>2, <2>3
<1>9. \A l : Extra(r, l)' = Extra(r, l)
  BY <1>1, <1>6 DEF Extra
<1>10. Entities(r)' = Entities(r)
  BY <1>1, <1>7 DEF Entities
<1>11. IsGoal(r, goal)'
  BY <1>1, <1>3, <1>10 DEF IsGoal
<1>12. Written(r)'
  <2>1. Saved(r)'
    BY <1>6 DEF Saved
  <2>2. \A l \in OrderLines : l # o
    BY <1>2 DEF ProcurementAssumption
  <2>3. /\ \A l \in OrderLines :
             Seen(r, l)' = [quantity_received |-> rows'[l].quantity_received + Extra(r, l)']
        /\ \A q \in Orders : Seen(r, q)' = rows'[q] \/ q = dto'[r].order
    BY <1>1, <1>2, <1>7, <1>9, <2>2 DEF Written
  <2>4. IsGoal(r, Seen(r, dto[r].order))'
    <3>1. Seen(r, dto[r].order)' = goal
      BY <1>1, <1>8
    <3> QED BY <1>11, <3>1 DEF IsGoal
  <2> QED BY <2>1, <2>3, <2>4 DEF Written
<1>13. Writes(r)' /\ (OneByOne => Fresh(r)')
  BY <1>1, <1>2, <1>6, <1>12 DEF Writes, Knows, Resting, Busy, Fresh
<1>14. \A s \in Requests \ {r} :
         pc'[s] = pc[s] /\ diff'[s] = diff[s] /\ todo'[s] = todo[s] /\ pending'[s] = pending[s]
  BY <1>1, <1>2 DEF Shape
<1> QED BY <1>1, <1>13, <1>14, ReceivingKept

-----------------------------------------------------------------------------
(* The COMMITs.  Nobody else is writing, and one by one nobody else is     *)
(* served.                                                                 *)
LEMMA CommitKeeps ==
  ASSUME Numbering, Single, ReceivedApart, Receiving, NEW r \in Requests, AllSaved(r), UNCHANGED load,
         \A s \in Requests \ {r} :
           /\ pc'[s] = pc[s] /\ dto'[s] = dto[s] /\ view'[s] = view[s] /\ todo'[s] = todo[s]
           /\ diff'[s] = diff[s] /\ pending'[s] = pending[s] /\ added'[s] = added[s]
           /\ (s \in inserted' <=> s \in inserted),
         RowsTyped', ReceiptsExplainOrder', Writes(r)', Fresh(r)'
  PROVE  Receiving'
<1>1. Busy(r) /\ r \in InFlight
  BY DEF AllSaved, Busy, InFlight
<1>2. ASSUME NEW s \in Requests \ {r} PROVE Writes(s)' /\ (OneByOne => Fresh(s)')
  <2>1. ~Busy(s) /\ (OneByOne => s \notin InFlight)
    BY <1>1, Unique DEF Single
  <2>2. Writes(s) /\ (OneByOne => Fresh(s))
    BY DEF Receiving
  <2> QED BY <2>1, <2>2, WritesKept, FreshKept
<1> QED BY <1>2 DEF Receiving, OneByOne

(* What a save wrote when all of it is in. *)
LEMMA SavedRows ==
  ASSUME ProcurementAssumption, Numbering, Receiving, NEW r \in Requests, AllSaved(r),
         rows' = [x \in DOMAIN rows |-> Seen(r, x)]
  PROVE  /\ dto[r].order \in Orders /\ RowsTyped'
         /\ IsGoal(r, rows'[dto[r].order])
         /\ \A q \in Orders \ {dto[r].order} : rows'[q] = rows[q]
         /\ \A l \in OrderLines :
              /\ rows'[l] = Seen(r, l)
              /\ rows'[l].quantity_received = rows[l].quantity_received + Extra(r, l)
              /\ rows[l].quantity_received \in Nat /\ Extra(r, l) \in Nat
              /\ dto[r].kind = "receive" => Extra(r, l) = QuantityIn(dto[r], l)
              /\ dto[r].kind # "receive" => Extra(r, l) = 0
<1>1. /\ Saved(r) /\ Busy(r) /\ Written(r) /\ RowsTyped /\ dto[r].order \in Orders /\ pc[r] = "saving"
      /\ dto[r].kind = "receive" => dto[r].lines \in Seq(ReceiptLine)
  BY Validated DEF AllSaved, Saved, Busy, Receiving, Writes
<1>2. \A x \in Rows : rows'[x] = Seen(r, x)
  BY <1>1 DEF RowsTyped
<1>3. IsGoal(r, rows'[dto[r].order]) /\ \A q \in Orders \ {dto[r].order} : rows'[q] = rows[q]
  BY <1>1, <1>2 DEF Written, Rows
<1>4. ASSUME NEW l \in OrderLines
      PROVE  /\ rows'[l] = Seen(r, l) /\ rows[l].quantity_received \in Nat /\ Extra(r, l) \in Nat
             /\ rows'[l].quantity_received = rows[l].quantity_received + Extra(r, l)
             /\ rows'[l] \in SupplierPOItem
             /\ dto[r].kind = "receive" => Extra(r, l) = QuantityIn(dto[r], l)
             /\ dto[r].kind # "receive" => Extra(r, l) = 0
  <2>1. rows'[l] = Seen(r, l) /\ rows[l] \in SupplierPOItem
    BY <1>1, <1>2 DEF Rows, RowsTyped, IsRow
  <2>2. /\ dto[r].kind = "receive" => Extra(r, l) = QuantityIn(dto[r], l)
        /\ dto[r].kind # "receive" => Extra(r, l) = 0
    BY <1>1 DEF Extra
  <2>3. dto[r].kind = "receive" => QuantityIn(dto[r], l) \in Nat
    BY <1>1, NamedType
  <2>4. Extra(r, l) \in Nat /\ rows[l].quantity_received \in Nat
    BY <2>1, <2>2, <2>3 DEF SupplierPOItem
  <2>5. Seen(r, l) = [quantity_received |-> rows[l].quantity_received + Extra(r, l)]
    BY <1>1 DEF Written
  <2> QED BY <2>1, <2>2, <2>4, <2>5 DEF SupplierPOItem
<1>5. RowsTyped'
  <2>1. DOMAIN rows' = Rows
    BY <1>1 DEF RowsTyped
  <2>2. \A q \in Orders : rows'[q] \in SupplierPO /\ q \notin OrderLines
    BY <1>1, <1>3 DEF IsGoal, RowsTyped, Rows, IsRow, ProcurementAssumption
  <2> QED BY <1>4, <2>1, <2>2 DEF RowsTyped, Rows, IsRow
<1> QED BY <1>1, <1>3, <1>4, <1>5

(* An order that is saved without a receipt keeps what its receipts say.   *)
LEMMA CommitOther ==
  ASSUME ProcurementAssumption, Numbering, Single, ReceivedApart, Receiving, NEW r \in Requests,
         dto[r].kind # "receive", Commit(r), Forget(r), UNCHANGED <<receipts, load>>
  PROVE  Receiving'
<1>1. /\ AllSaved(r) /\ rows' = [x \in DOMAIN rows |-> Seen(r, x)]
      /\ pc' = [pc EXCEPT ![r] = "done"] /\ view' = [view EXCEPT ![r] = Nothing]
      /\ todo' = [todo EXCEPT ![r] = << >>] /\ diff' = [diff EXCEPT ![r] = Nothing]
      /\ pending' = [pending EXCEPT ![r] = Nothing] /\ UNCHANGED dto
      /\ inserted' = inserted \ {r} /\ added' = [added EXCEPT ![r] = 0]
  BY DEF Commit, End, Forget
<1>2. /\ pc'[r] = "done" /\ r \notin inserted' /\ DOMAIN view'[r] = {} /\ DOMAIN pending'[r] = {}
  BY <1>1 DEF Numbering, Shape, Nothing
<1>3. Writes(r)' /\ Fresh(r)'
  BY <1>2 DEF Writes, Knows, Resting, Written, Busy, Fresh
<1>4. \A s \in Requests \ {r} :
        /\ pc'[s] = pc[s] /\ dto'[s] = dto[s] /\ view'[s] = view[s] /\ todo'[s] = todo[s]
        /\ diff'[s] = diff[s] /\ pending'[s] = pending[s] /\ added'[s] = added[s]
        /\ (s \in inserted' <=> s \in inserted)
  BY <1>1 DEF Numbering, Shape
<1>5. /\ RowsTyped'
      /\ \A q \in Orders : Moves(rows[q].status, rows'[q].status)
      /\ \A l \in OrderLines : rows'[l].quantity_received = rows[l].quantity_received
  <2>1. /\ RowsTyped' /\ IsGoal(r, rows'[dto[r].order])
        /\ \A q \in Orders \ {dto[r].order} : rows'[q] = rows[q]
        /\ \A l \in OrderLines : /\ rows'[l].quantity_received = rows[l].quantity_received + Extra(r, l)
                                 /\ rows[l].quantity_received \in Nat /\ Extra(r, l) = 0
    BY <1>1, SavedRows
  <2>2. Moves(rows[dto[r].order].status, rows'[dto[r].order].status)
    BY <2>1 DEF IsGoal
  <2>3. ASSUME NEW q \in Orders \ {dto[r].order} PROVE Moves(rows[q].status, rows'[q].status)
    BY <2>1 DEF Moves
  <2> QED BY <2>1, <2>2, <2>3
<1>6. ReceiptsExplainOrder'
  <2>1. \A l : Booked(l)' = Booked(l)
    BY DEF Booked
  <2>2. \A q \in Orders :
          /\ rows'[q].status = "FULLY_RECEIVED" <=> rows[q].status = "FULLY_RECEIVED"
          /\ rows'[q].status = "PARTIALLY_RECEIVED" <=> rows[q].status = "PARTIALLY_RECEIVED"
    BY <1>5 DEF Moves, TRANSITIONS, POStatus
  <2>3. \A q \in Orders, n \in Lines : <<q, n>> \in OrderLines
    BY DEF OrderLines
  <2> QED BY <1>5, <2>1, <2>2, <2>3 DEF Receiving, ReceiptsExplainOrder, ReceivedApart, OneByOne, NamedOnce
<1> QED BY <1>1, <1>3, <1>4, <1>5, <1>6, CommitKeeps

(* What is complete or begun stays so while the quantities grow. *)
LEMMA StatusGrows ==
  ASSUME NEW before \in [Lines -> Nat], NEW after \in [Lines -> Nat],
         NEW ordered \in [Lines -> Nat \ {0}], \A n \in Lines : before[n] <= after[n],
         NEW status, NEW next,
         status = "FULLY_RECEIVED" <=> \A n \in Lines : before[n] >= ordered[n],
         status = "PARTIALLY_RECEIVED" <=>
           (\E n \in Lines : before[n] > 0) /\ ~\A n \in Lines : before[n] >= ordered[n],
         next = IF \A n \in Lines : after[n] >= ordered[n] THEN "FULLY_RECEIVED"
                ELSE IF \E n \in Lines : after[n] > 0 THEN "PARTIALLY_RECEIVED" ELSE status
  PROVE  /\ next = "FULLY_RECEIVED" <=> \A n \in Lines : after[n] >= ordered[n]
         /\ next = "PARTIALLY_RECEIVED" <=>
              (\E n \in Lines : after[n] > 0) /\ ~\A n \in Lines : after[n] >= ordered[n]
<1>1. 1 \in Lines
  BY DEF Lines
<1>2. ASSUME ~\E n \in Lines : after[n] > 0
      PROVE  /\ ~\A n \in Lines : after[n] >= ordered[n]
             /\ status \notin {"FULLY_RECEIVED", "PARTIALLY_RECEIVED"}
  <2>1. \A n \in Lines : before[n] = 0 /\ after[n] = 0 /\ ordered[n] > 0
    BY <1>2
  <2> QED BY <1>1, <2>1
<1> QED BY <1>2

(* A receipt leaves the order with the status that all its receipts say. *)
LEMMA ReceiptExplains ==
  ASSUME ProcurementAssumption, Numbering, Single, ReceivedApart, Receiving, NEW r \in Requests,
         CommitReceipt(r)
  PROVE  RowsTyped' /\ ReceiptsExplainOrder'
<1>a. PICK d, o, g, quantity :
      /\ d = dto[r] /\ o = d.order /\ g = Receipt(r, NextNumber)
      /\ quantity = [l \in OrderLines |-> QuantityIn(d, l)]
  OBVIOUS
<1>b. PICK before, after :
      /\ before = [q \in Orders |-> [n \in Lines |-> Booked(<<q, n>>)]]
      /\ after = [q \in Orders |-> [n \in Lines |-> Booked(<<q, n>>)']]
  OBVIOUS
<1>1. /\ AllSaved(r) /\ d.kind = "receive" /\ r \in inserted /\ UNCHANGED load
      /\ rows' = [x \in DOMAIN rows |-> Seen(r, x)]
  BY <1>a DEF CommitReceipt
<1>2. d.lines \in Seq(ReceiptLine) /\ o \in Orders /\ \A n \in DOMAIN d.lines : d.lines[n].line \in Lines
  <2>1. d.lines \in Seq(ReceiptLine) /\ o \in Orders
    BY <1>a, <1>1, Validated DEF AllSaved
  <2>2. \A n \in DOMAIN d.lines : d.lines[n] \in ReceiptLine
    BY <2>1
  <2> QED BY <2>1, <2>2 DEF ReceiptLine
<1>3. receipts' = receipts \cup {g} /\ g \notin receipts /\ g.lines \in Seq(ReceiptLine)
  <2>1. g.lines = d.lines
    BY <1>a DEF Receipt
  <2> QED BY <1>a, <1>2, <2>1, CommitNumbering
<1>4. /\ \A l \in OrderLines : Booked(l)' = Booked(l) + quantity[l]
      /\ \A l : Booked(l) \in Nat
      /\ \A l \in OrderLines : quantity[l] \in Nat
  <2>1. ASSUME NEW l \in OrderLines
        PROVE  Booked(l)' = Booked(l) + quantity[l] /\ Booked(l) \in Nat /\ quantity[l] \in Nat
    <3>1. QuantityIn(g, l) = quantity[l]
      BY <1>a, QuantityOfReceipt
    <3>2. quantity[l] \in Nat
      BY <1>a, <1>2, NamedType
    <3> QED BY <1>3, <3>1, <3>2, BookedGrows, BookedType
  <2> QED BY <2>1, BookedType
<1>5. /\ RowsTyped' /\ IsGoal(r, rows'[o])
      /\ \A q \in Orders \ {o} : rows'[q] = rows[q]
      /\ \A l \in OrderLines :
           /\ rows'[l] = Seen(r, l)
           /\ rows'[l].quantity_received = rows[l].quantity_received + quantity[l]
  BY <1>a, <1>1, SavedRows
<1>6. ASSUME NEW q \in Orders, NEW n \in Lines
      PROVE  /\ <<q, n>> \in OrderLines
             /\ after[q][n] = Booked(<<q, n>>)' /\ before[q][n] = Booked(<<q, n>>)
             /\ after[q][n] = before[q][n] + quantity[<<q, n>>]
             /\ rows'[<<q, n>>].quantity_received = after[q][n]
             /\ rows[<<q, n>>].quantity_received = before[q][n]
             /\ after[q][n] \in Nat /\ before[q][n] \in Nat /\ quantity[<<q, n>>] \in Nat
             /\ Ordered[<<q, n>>] \in Nat \ {0}
  <2>1. <<q, n>> \in OrderLines
    BY DEF OrderLines
  <2>2. after[q][n] = Booked(<<q, n>>)' /\ before[q][n] = Booked(<<q, n>>)
    BY <1>b
  <2>3. rows[<<q, n>>].quantity_received = Booked(<<q, n>>)
    BY DEF Receiving, ReceiptsExplainOrder
  <2>4. Ordered[<<q, n>>] \in Nat \ {0}
    BY <2>1 DEF ProcurementAssumption
  <2> QED BY <1>4, <1>5, <2>1, <2>2, <2>3, <2>4
<1>7. rows'[o].status = IF \A n \in Lines : after[o][n] >= Ordered[<<o, n>>] THEN "FULLY_RECEIVED"
                        ELSE IF \E n \in Lines : after[o][n] > 0 THEN "PARTIALLY_RECEIVED"
                        ELSE rows[o].status
  <2>a. PICK entities : entities = Entities(r)
    OBVIOUS
  <2>1. entities[o].status = rows[o].status
    BY <1>a, <2>a, <1>2 DEF Entities, Image
  <2>2. \A n \in Lines : entities[<<o, n>>].quantity_received = after[o][n]
    <3>1. ASSUME NEW n \in Lines PROVE entities[<<o, n>>].quantity_received = after[o][n]
      <4>1. <<o, n>> \in Image(o) /\ <<o, n>> # o
        BY <1>2, <1>6 DEF Image, ProcurementAssumption
      <4>2. entities[<<o, n>>] = Seen(r, <<o, n>>)
        BY <1>a, <2>a, <4>1 DEF Entities
      <4>3. Seen(r, <<o, n>>) = rows'[<<o, n>>] /\ rows'[<<o, n>>].quantity_received = after[o][n]
        BY <1>2, <1>5, <1>6
      <4> QED BY <4>2, <4>3
    <3> QED BY <3>1
  <2>3. rows'[o].status = StatusAfterReceipt(o, entities)
    BY <1>a, <2>a, <1>1, <1>5 DEF IsGoal
  <2>4. AllReceived(o, entities) <=> \A n \in Lines : after[o][n] >= Ordered[<<o, n>>]
    BY <2>2 DEF AllReceived
  <2>5. AnyReceived(o, entities) <=> \E n \in Lines : after[o][n] > 0
    <3>1. AnyReceived(o, entities) <=> \E n \in Lines : entities[<<o, n>>].quantity_received > 0
      <4>1. /\ \A l \in {o} \X Lines : \E n \in Lines : l = <<o, n>>
            /\ \A n \in Lines : <<o, n>> \in {o} \X Lines
        OBVIOUS
      <4> QED BY <4>1, Zenon DEF AnyReceived
    <3> QED BY <2>2, <3>1
  <2> QED BY <2>1, <2>3, <2>4, <2>5 DEF StatusAfterReceipt
<1>8. ASSUME NEW q \in Orders
      PROVE  /\ rows'[q].status = "FULLY_RECEIVED" <=> \A n \in Lines : after[q][n] >= Ordered[<<q, n>>]
             /\ rows'[q].status = "PARTIALLY_RECEIVED" <=>
                  /\ \E n \in Lines : after[q][n] > 0
                  /\ ~\A n \in Lines : after[q][n] >= Ordered[<<q, n>>]
  <2>1. /\ rows[q].status = "FULLY_RECEIVED" <=> \A n \in Lines : before[q][n] >= Ordered[<<q, n>>]
        /\ rows[q].status = "PARTIALLY_RECEIVED" <=>
             /\ \E n \in Lines : before[q][n] > 0
             /\ ~\A n \in Lines : before[q][n] >= Ordered[<<q, n>>]
    <3>1. /\ rows[q].status = "FULLY_RECEIVED" <=> \A n \in Lines : Booked(<<q, n>>) >= Ordered[<<q, n>>]
          /\ rows[q].status = "PARTIALLY_RECEIVED" <=>
               /\ \E n \in Lines : Booked(<<q, n>>) > 0
               /\ ~\A n \in Lines : Booked(<<q, n>>) >= Ordered[<<q, n>>]
      BY DEF Receiving, ReceiptsExplainOrder
    <3>2. \A n \in Lines : before[q][n] = Booked(<<q, n>>)
      BY <1>6
    <3> QED BY <3>1, <3>2
  <2>2. CASE q = o
    <3>a. PICK ordered : ordered = [n \in Lines |-> Ordered[<<q, n>>]]
      OBVIOUS
    <3>1. /\ before[q] \in [Lines -> Nat] /\ after[q] \in [Lines -> Nat]
          /\ ordered \in [Lines -> Nat \ {0}]
          /\ \A n \in Lines : before[q][n] <= after[q][n] /\ ordered[n] = Ordered[<<q, n>>]
      <4>1. \A n \in Lines : /\ before[q][n] \in Nat /\ after[q][n] \in Nat /\ ordered[n] \in Nat \ {0}
                             /\ before[q][n] <= after[q][n] /\ ordered[n] = Ordered[<<q, n>>]
        BY <1>6, <3>a
      <4>2. /\ before[q] = [n \in Lines |-> before[q][n]]
            /\ after[q] = [n \in Lines |-> after[q][n]] /\ ordered = [n \in Lines |-> ordered[n]]
        BY <1>b, <3>a
      <4> QED BY <4>1, <4>2
    <3>b. PICK u, v, status, next :
            u = before[q] /\ v = after[q] /\ status = rows[q].status /\ next = rows'[q].status
      OBVIOUS
    <3>2. /\ u \in [Lines -> Nat] /\ v \in [Lines -> Nat] /\ ordered \in [Lines -> Nat \ {0}]
          /\ \A n \in Lines : u[n] <= v[n]
          /\ status = "FULLY_RECEIVED" <=> \A n \in Lines : u[n] >= ordered[n]
          /\ status = "PARTIALLY_RECEIVED" <=>
               (\E n \in Lines : u[n] > 0) /\ ~\A n \in Lines : u[n] >= ordered[n]
          /\ next = IF \A n \in Lines : v[n] >= ordered[n] THEN "FULLY_RECEIVED"
                    ELSE IF \E n \in Lines : v[n] > 0 THEN "PARTIALLY_RECEIVED" ELSE status
      BY <1>7, <2>1, <2>2, <3>b, <3>1
    <3>3. /\ next = "FULLY_RECEIVED" <=> \A n \in Lines : v[n] >= ordered[n]
          /\ next = "PARTIALLY_RECEIVED" <=>
               (\E n \in Lines : v[n] > 0) /\ ~\A n \in Lines : v[n] >= ordered[n]
      BY <3>2, StatusGrows, Zenon
    <3> QED BY <3>b, <3>1, <3>3
  <2>3. CASE q # o
    <3>1. ASSUME NEW n \in Lines PROVE after[q][n] = before[q][n]
      <4>1. \A m \in DOMAIN d.lines : <<d.order, d.lines[m].line>> # <<q, n>>
        BY <1>a, <2>3
      <4>2. QuantityIn(d, <<q, n>>) = 0
        BY <1>a, <1>2, <4>1, QuantityElsewhere
      <4>3. quantity[<<q, n>>] = 0
        BY <1>a, <1>6, <4>2
      <4> QED BY <1>6, <4>3
    <3>2. rows'[q] = rows[q]
      BY <1>5, <2>3
    <3> QED BY <2>1, <3>1, <3>2
  <2> QED BY <2>2, <2>3
<1>9. ASSUME OneByOne /\ NamedOnce, NEW q \in Orders, NEW n \in Lines
      PROVE  after[q][n] <= Ordered[<<q, n>>]
  <2>1. before[q][n] <= Ordered[<<q, n>>]
    BY <1>6, <1>9 DEF Receiving, ReceiptsExplainOrder
  <2>2. CASE \E m \in DOMAIN d.lines : <<d.order, d.lines[m].line>> = <<q, n>>
    <3>1. PICK m \in DOMAIN d.lines : q = o /\ d.lines[m].line = n
      BY <1>a, <2>2
    <3>2. \A k \in DOMAIN d.lines : d.lines[k].line = d.lines[m].line => k = m
      <4>1. d \in load.inputs
        BY <1>a, <1>1 DEF Numbering, Asked, AllSaved
      <4> QED BY <1>1, <1>9, <3>1, <4>1 DEF NamedOnce
    <3>3. quantity[<<q, n>>] = d.lines[m].quantity
      <4>1. QuantityIn(d, <<d.order, d.lines[m].line>>) = d.lines[m].quantity
        BY <1>2, <3>2, QuantityNamedOnce
      <4> QED BY <1>a, <1>6, <3>1, <4>1
    <3>4. d.lines[m].quantity <= Ordered[<<q, n>>] - rows[<<q, n>>].quantity_received
      <4>1. Fresh(r) /\ pc[r] = "saving"
        BY <1>1, <1>9 DEF Receiving, AllSaved
      <4> QED BY <1>a, <1>1, <3>1, <4>1 DEF Fresh, WithinReliquat
    <3> QED BY <1>6, <3>3, <3>4
  <2>3. CASE ~\E m \in DOMAIN d.lines : <<d.order, d.lines[m].line>> = <<q, n>>
    <3>1. quantity[<<q, n>>] = 0
      <4>1. QuantityIn(d, <<q, n>>) = 0
        BY <1>2, <2>3, QuantityElsewhere
      <4> QED BY <1>a, <1>6, <4>1
    <3> QED BY <1>6, <2>1, <3>1
  <2> QED BY <2>2, <2>3
<1>10. ReceiptsExplainOrder'
  <2>1. (OneByOne' <=> OneByOne) /\ (NamedOnce' <=> NamedOnce)
    BY <1>1 DEF OneByOne, NamedOnce
  <2>2. \A q \in Orders, n \in Lines : /\ after[q][n] = Booked(<<q, n>>)'
                                        /\ rows'[<<q, n>>].quantity_received = after[q][n]
    BY <1>6
  <2>3. \A q \in Orders :
          /\ rows'[q].status = "FULLY_RECEIVED" <=> \A n \in Lines : Booked(<<q, n>>)' >= Ordered[<<q, n>>]
          /\ rows'[q].status = "PARTIALLY_RECEIVED" <=>
               /\ \E n \in Lines : Booked(<<q, n>>)' > 0
               /\ ~\A n \in Lines : Booked(<<q, n>>)' >= Ordered[<<q, n>>]
    <3>1. ASSUME NEW q \in Orders, \A n \in Lines : after[q][n] = Booked(<<q, n>>)'
          PROVE  /\ rows'[q].status = "FULLY_RECEIVED" <=>
                      \A n \in Lines : Booked(<<q, n>>)' >= Ordered[<<q, n>>]
                 /\ rows'[q].status = "PARTIALLY_RECEIVED" <=>
                      /\ \E n \in Lines : Booked(<<q, n>>)' > 0
                      /\ ~\A n \in Lines : Booked(<<q, n>>)' >= Ordered[<<q, n>>]
      BY <1>8, <3>1
    <3> QED BY <2>2, <3>1
  <2>4. OneByOne /\ NamedOnce =>
          \A q \in Orders, n \in Lines : Booked(<<q, n>>)' <= Ordered[<<q, n>>]
    BY <1>9, <2>2
  <2> QED BY <2>1, <2>2, <2>3, <2>4 DEF ReceiptsExplainOrder
<1> QED BY <1>5, <1>10

LEMMA CommitReceiving ==
  ASSUME ProcurementAssumption, Numbering, Single, ReceivedApart, Receiving, NEW r \in Requests,
         CommitReceipt(r)
  PROVE  Receiving'
<1>1. /\ AllSaved(r) /\ pc' = [pc EXCEPT ![r] = "stocking"] /\ inserted' = inserted \ {r}
      /\ pending' = [pending EXCEPT ![r] = Nothing]
      /\ UNCHANGED <<dto, view, todo, diff, added, load>>
  BY DEF CommitReceipt
<1>2. pc'[r] = "stocking" /\ r \notin inserted' /\ DOMAIN pending'[r] = {}
  BY <1>1 DEF Numbering, Shape, Nothing
<1>3. Knows(r)
  BY DEF Receiving, Writes
<1>4. Writes(r)' /\ Fresh(r)'
  BY <1>1, <1>2, <1>3 DEF Writes, Knows, Resting, Written, Busy, Fresh
<1>5. \A s \in Requests \ {r} :
        pc'[s] = pc[s] /\ pending'[s] = pending[s] /\ (s \in inserted' <=> s \in inserted)
  BY <1>1 DEF Numbering, Shape
<1> QED BY <1>1, <1>4, <1>5, ReceiptExplains, CommitKeeps

LEMMA MoveReceiving ==
  ASSUME Numbering, ReceivedApart, Receiving, NEW r \in Requests, MoveStock(r)
  PROVE  Receiving'
<1>1. /\ pc[r] = "stocking" /\ added' = [added EXCEPT ![r] = @ + 1]
      /\ UNCHANGED <<rows, pc, dto, view, todo, diff, pending, receipts, inserted, load>>
  BY DEF MoveStock, AfterCommit, sessionVars
<1>2. ~Busy(r) /\ DOMAIN pending[r] = {} /\ Knows(r) /\ (OneByOne => Fresh(r))
  BY <1>1 DEF Numbering, Drafted, Busy, Receiving, Writes, Resting
<1>3. Writes(r)' /\ (OneByOne => Fresh(r)')
  BY <1>1, <1>2 DEF Writes, Knows, Resting, Written, Busy, Fresh
<1>4. \A s \in Requests \ {r} : added'[s] = added[s]
  BY <1>1 DEF Numbering, Shape
<1> QED BY <1>1, <1>3, <1>4, ReceivingKept

-----------------------------------------------------------------------------
LEMMA InvInit ==
  ASSUME ProcurementAssumption, Init
  PROVE  Inv
<1>1. /\ pc = [r \in Requests |-> "idle"] /\ view = [r \in Requests |-> Nothing]
      /\ pending = [r \in Requests |-> Nothing] /\ DOMAIN Nothing = {}
      /\ receipts = {} /\ inserted = {} /\ load \in Loads
      /\ rows = [x \in Orders \cup OrderLines |->
                   IF x \in Orders THEN load.started
                   ELSE [quantity_received |-> 0]]
  BY DEF Init, SessionsInit, Nothing
<1>2. InFlight = {}
  BY <1>1 DEF InFlight
<1>3. Single
  BY <1>2, FS_EmptySet DEF Single
<1> PICK started : started = load.started
  OBVIOUS
<1>4. started \in SupplierPO /\ started.status \notin {"PARTIALLY_RECEIVED", "FULLY_RECEIVED"}
  BY <1>1 DEF ProcurementAssumption
<1>5. /\ DOMAIN rows = Rows
      /\ \A q \in Orders : rows[q] = started /\ q \notin OrderLines
      /\ \A l \in OrderLines : rows[l] = [quantity_received |-> 0] /\ l \notin Orders
  BY <1>1 DEF Rows, ProcurementAssumption
<1>6. RowsTyped
  <2>1. ASSUME NEW q \in Orders PROVE IsRow(q, rows[q])
    BY <1>4, <1>5 DEF IsRow
  <2>2. ASSUME NEW l \in OrderLines PROVE IsRow(l, rows[l])
    <3>1. [quantity_received |-> 0] \in SupplierPOItem
      BY DEF SupplierPOItem
    <3> QED BY <1>5, <3>1 DEF IsRow
  <2> QED BY <1>5, <2>1, <2>2 DEF RowsTyped, Rows
<1>7. ReceiptsExplainOrder
  <2>1. ASSUME NEW q \in Orders, NEW n \in Lines
        PROVE  /\ Booked(<<q, n>>) = 0 /\ rows[<<q, n>>].quantity_received = 0
               /\ Ordered[<<q, n>>] \in Nat \ {0}
    <3>1. Booked(<<q, n>>) = 0
      BY <1>1, SumEmpty DEF Booked
    <3>2. <<q, n>> \in OrderLines
      BY DEF OrderLines
    <3>3. rows[<<q, n>>] = [quantity_received |-> 0]
      BY <1>5, <3>2
    <3> QED BY <3>1, <3>2, <3>3 DEF ProcurementAssumption
  <2>2. ASSUME NEW q \in Orders
        PROVE  /\ ~\A n \in Lines : Booked(<<q, n>>) >= Ordered[<<q, n>>]
               /\ ~\E n \in Lines : Booked(<<q, n>>) > 0
               /\ \A n \in Lines : Booked(<<q, n>>) <= Ordered[<<q, n>>]
               /\ rows[q].status \notin {"PARTIALLY_RECEIVED", "FULLY_RECEIVED"}
    <3>1. 1 \in Lines
      BY DEF Lines
    <3>2. rows[q].status = started.status
      BY <1>5
    <3>3. PICK booked, ordered :
            \A n \in Lines : booked[n] = Booked(<<q, n>>) /\ ordered[n] = Ordered[<<q, n>>]
      <4>1. [n \in Lines |-> Booked(<<q, n>>)] = [n \in Lines |-> Booked(<<q, n>>)]
        OBVIOUS
      <4> WITNESS [n \in Lines |-> Booked(<<q, n>>)], [n \in Lines |-> Ordered[<<q, n>>]]
      <4> QED OBVIOUS
    <3>4. \A n \in Lines : booked[n] = 0 /\ ordered[n] \in Nat \ {0}
      BY <2>1, <3>3
    <3>5. ~(booked[1] >= ordered[1]) /\ \A n \in Lines : ~(booked[n] > 0) /\ booked[n] <= ordered[n]
      BY <3>1, <3>4
    <3> QED BY <1>4, <3>1, <3>2, <3>3, <3>5
  <2> QED BY <2>1, <2>2 DEF ReceiptsExplainOrder
<1>8. \A r \in Requests : Writes(r) /\ Fresh(r)
  BY <1>1 DEF Writes, Knows, Resting, Written, Busy, Fresh
<1> QED BY <1>3, <1>6, <1>7, <1>8, NumberingInit DEF Inv, Receiving

LEMMA InvStep ==
  ASSUME ProcurementAssumption, Inv, [Next]_vars
  PROVE  Inv'
<1>1. Numbering /\ Single /\ Numbering' /\ Single' /\ UNCHANGED load
  BY NumberingStep, SingleStep DEF Inv
<1>2. SUFFICES ASSUME ReceivedApart PROVE Receiving'
  BY <1>1 DEF Inv, ReceivedApart, OneByOne
<1>3. Receiving
  BY <1>2 DEF Inv
<1>4. CASE UNCHANGED vars
  <2>1. /\ UNCHANGED <<rows, receipts, load, pc, dto, view, todo, diff, pending, added, inserted>>
        /\ \A l : Booked(l)' = Booked(l)
    BY <1>4 DEF vars, sessionVars, receiptVars, Booked
  <2>2. RowsTyped' /\ ReceiptsExplainOrder'
    BY <1>3, <2>1 DEF Receiving, RowsTyped, ReceiptsExplainOrder, ReceivedApart, OneByOne, NamedOnce
  <2>3. ASSUME NEW r \in Requests PROVE Writes(r)' /\ (OneByOne' => Fresh(r)')
    <3>1. Writes(r) /\ (OneByOne => Fresh(r))
      BY <1>3 DEF Receiving
    <3>2. OneByOne' = OneByOne
      BY <2>1 DEF OneByOne
    <3> QED BY <2>1, <3>1, <3>2, WritesKept, FreshKept
  <2> QED BY <2>2, <2>3 DEF Receiving
<1>5. ASSUME NEW r \in Requests, Arrive(r) \/ Handle(r) \/ Abort(r) PROVE Receiving'
  <2>1. CASE Fail(r)
    BY <1>1, <1>2, <1>3, <2>1, FailedReceiving
  <2>2. CASE ~Fail(r)
    <3>1. CASE Write(r)
      BY <1>1, <1>2, <1>3, <3>1, ReloadReceiving, UpdateReceiving DEF Write
    <3>2. CASE Finish(r)
      <4>1. Forget(r) /\ UNCHANGED <<receipts, load>>
        BY <3>2 DEF Finish
      <4>2. CASE End(r, "done") /\ UNCHANGED rows
        BY <1>1, <1>2, <1>3, <4>1, <4>2, EndedReceiving
      <4>3. CASE dto[r].kind # "receive" /\ Commit(r)
        BY <1>1, <1>2, <1>3, <4>1, <4>3, CommitOther
      <4> QED BY <3>2, <4>2, <4>3 DEF Finish
    <3>3. CASE Arrive(r) \/ Fetch(r) \/ CheckCancel(r)
      BY <1>1, <1>2, <1>3, <2>2, <3>3, ReadReceiving
    <3>4. CASE Transition(r) \/ Edit(r) \/ PortalReply(r)
      BY <1>1, <1>2, <1>3, <2>2, <3>4, DecideReceiving
    <3>5. CASE BeginReceipt(r) \/ InsertReceipt(r) \/ AddLine(r)
      BY <1>1, <1>2, <1>3, <2>2, <3>5, BeginReceiving, InsertReceiving, AddReceiving
    <3>6. CASE UpdateStatusAfterReceipt(r) \/ CommitReceipt(r) \/ MoveStock(r)
      BY <1>1, <1>2, <1>3, <3>6, StatusReceiving, CommitReceiving, MoveReceiving
    <3> QED BY <1>5, <2>2, <3>1, <3>2, <3>3, <3>4, <3>5, <3>6 DEF Handle, Abort
  <2> QED BY <2>1, <2>2
<1> QED BY <1>4, <1>5 DEF Next

(* The received quantities and the status of an order are what its         *)
(* committed receipts say, whatever the number of receipts that overlap,   *)
(* unless something else saves the order meanwhile; and receipts that are  *)
(* entered one after the other stay within what was ordered.               *)
THEOREM OrderFollowsReceipts == ProcurementAssumption => (Spec => []ReceiptsExplainOrder)
<1> SUFFICES ASSUME ProcurementAssumption PROVE Spec => []ReceiptsExplainOrder
  OBVIOUS
<1>1. Init => Inv
  BY InvInit
<1>2. Inv /\ [Next]_vars => Inv'
  BY InvStep
<1>3. Inv => ReceiptsExplainOrder
  BY DEF Inv, Receiving, ReceiptsExplainOrder
<1> QED BY <1>1, <1>2, <1>3, PTL DEF Spec

Obeys ==
  OneByOne => \A o \in Orders : rows'[o].status # rows[o].status =>
    rows'[o].status \in TRANSITIONS[rows[o].status]

LEMMA ObeysStep ==
  ASSUME ProcurementAssumption, Inv, Next
  PROVE  Obeys
<1>1. SUFFICES ASSUME OneByOne PROVE Obeys
  BY DEF Obeys
<1>2. Numbering /\ Single /\ Receiving
  BY <1>1 DEF Inv, ReceivedApart
<1>3. PICK r \in Requests : Arrive(r) \/ Handle(r) \/ Abort(r)
  BY DEF Next
<1>4. CASE UNCHANGED rows
  BY <1>4 DEF Obeys
<1>5. CASE CommitReceipt(r)
  <2>1. /\ IsGoal(r, rows'[dto[r].order]) /\ dto[r].kind = "receive"
        /\ \A q \in Orders \ {dto[r].order} : rows'[q] = rows[q]
    BY <1>2, <1>5, SavedRows DEF CommitReceipt
  <2>2. rows[dto[r].order].status \in {"CONFIRMED", "PARTIALLY_RECEIVED"}
    BY <1>1, <1>2, <2>1, <1>5 DEF Receiving, Fresh, CommitReceipt, AllSaved
  <2>3. Entities(r)[dto[r].order].status = rows[dto[r].order].status
    BY DEF Entities, Image
  <2>4. rows'[dto[r].order].status \in {"FULLY_RECEIVED", "PARTIALLY_RECEIVED", rows[dto[r].order].status}
    BY <2>1, <2>3 DEF IsGoal, StatusAfterReceipt
  <2>5. /\ {"FULLY_RECEIVED", "PARTIALLY_RECEIVED"} \subseteq TRANSITIONS["CONFIRMED"]
        /\ "FULLY_RECEIVED" \in TRANSITIONS["PARTIALLY_RECEIVED"]
    BY DEF TRANSITIONS, POStatus
  <2>6. rows'[dto[r].order].status # rows[dto[r].order].status =>
          rows'[dto[r].order].status \in TRANSITIONS[rows[dto[r].order].status]
    BY <2>2, <2>4, <2>5
  <2> QED BY <2>1, <2>6 DEF Obeys
<1>6. CASE dto[r].kind # "receive" /\ Commit(r)
  <2>1. /\ IsGoal(r, rows'[dto[r].order])
        /\ \A q \in Orders \ {dto[r].order} : rows'[q] = rows[q]
    BY <1>2, <1>6, SavedRows DEF Commit
  <2> QED BY <1>6, <2>1 DEF IsGoal, Moves, Obeys
<1>7. CASE ~CommitReceipt(r) /\ ~(dto[r].kind # "receive" /\ Commit(r))
  <2>1. UNCHANGED rows
    BY <1>3, <1>7 DEF Arrive, Open, Handle, Abort, Fetch, Read, Transition, CheckCancel, Edit,
      PortalReply, Decide, Proceed, BeginReceipt, InsertReceipt, AddLine, UpdateStatusAfterReceipt,
      Write, Reload, Update, MoveStock, Finish, Fail, Rollback, sessionVars
  <2> QED BY <1>4, <2>1
<1> QED BY <1>5, <1>6, <1>7

(* Served one by one, an order only moves along the table of transitions,  *)
(* although the receipts and the portal never look at it.                  *)
THEOREM OrderObeysTransitions == ProcurementAssumption => (Spec => TransitionsObeyed)
<1> SUFFICES ASSUME ProcurementAssumption PROVE Spec => TransitionsObeyed
  OBVIOUS
<1>1. Init => Inv
  BY InvInit
<1>2. Inv /\ [Next]_vars => Inv'
  BY InvStep
<1>3. Inv /\ [Next]_vars => [Obeys]_vars
  BY ObeysStep
<1>4. TransitionsObeyed <=> [][Obeys]_vars
  BY DEF TransitionsObeyed, Obeys
<1> QED BY <1>1, <1>2, <1>3, <1>4, PTL DEF Spec
=============================================================================
