--------------------------- MODULE PayablesProofs ---------------------------
(***************************************************************************)
(* Theorems about Payables, for any number of requests, accounts, invoices *)
(* and schedules, and any traffic.                                         *)
(*                                                                         *)
(* Nothing locks an invoice when it is read.  What keeps the payments in   *)
(* order is the unique index on their numbers: the numbers have no gap, so *)
(* it lets in the next one only, and one request at a time (Numbered,      *)
(* Serial).                                                                *)
(***************************************************************************)
EXTENDS Payables, Sums

Rows == Accounts \cup Bills \cup Plans \cup PlanLines
Saving == {"saving", "updating", "recording"}
Debiting == {"pay", "installment"}
Answering == {"accept", "reject"}
Revising == {"approve", "dispute", "resolve", "resolution", "edit", "settle"}
Matched == {"match", "matchAll"}
OfPlan == Answering \cup {"installment"}

IsRow(x, e) ==
  /\ x \in Accounts => e \in Account
  /\ x \in Bills => e \in Bill
  /\ x \in Plans => e \in Schedule
  /\ x \in PlanLines => e \in Installment

Listed(s) == s \in Seq({s[n] : n \in DOMAIN s})

Shape ==
  /\ pc \in [Requests -> Phases \cup {"matching"}]
  /\ DOMAIN dto = Requests /\ DOMAIN view = Requests /\ DOMAIN todo = Requests
  /\ DOMAIN diff = Requests /\ DOMAIN pending = Requests /\ DOMAIN draft = Requests
  /\ inserted \subseteq Requests
  /\ load \in Loads /\ DOMAIN rows = Rows

(* The numbers of the payments have no gap, so the index lets a number in  *)
(* only if it is the next one, and one request at a time have it.          *)
Numbered == NextNumber \in Nat \ {0} /\ Numbers = 1 .. NextNumber - 1
Serial == \A r, s \in inserted : r = s
PaymentsTyped == IsFiniteSet(payments) /\ \A p \in payments : p.amount \in Nat

Paid(x) == \E p \in payments : p.line = x
PaidInPart(b) == \E p \in payments : p.bill = b /\ p.line # << >>
LinesFollow ==
  \A p \in payments : p.line # << >> => \A m \in 1 .. p.line[2] - 1 : Paid(<<p.line[1], m>>)

(* The payment a request has drafted is of its invoice or installment, and *)
(* an installment's only follows those of the earlier ones.                *)
Drafts(r, p) ==
  /\ p.number \in 1 .. NextNumber /\ (r \in inserted => p.number = NextNumber)
  /\ p.amount \in Nat
  /\ dto[r].kind = "pay" => p.bill = dto[r].bill /\ p.line = << >>
  /\ dto[r].kind = "installment" =>
       /\ p.bill = rows[dto[r].plan].bill /\ p.line = <<dto[r].plan, dto[r].line>>
       /\ \A m \in 1 .. dto[r].line - 1 : Paid(<<dto[r].plan, m>>)
Drafted(r) ==
  /\ pc[r] \in Saving /\ dto[r].kind \in Debiting =>
       \E p \in draft[r] : draft[r] = {p} /\ Drafts(r, p)
  /\ ~(pc[r] \in Saving /\ dto[r].kind \in Debiting) => draft[r] = {} /\ r \notin inserted
Names(r) ==
  pc[r] # "idle" =>
    /\ dto[r] \in load.inputs
    /\ dto[r].kind \in OfPlan => rows[dto[r].plan].status # "ABSENT"

(* What a row, or a copy of it, may say. *)
Known(x, e) ==
  /\ IsRow(x, e)
  /\ x \in PlanLines /\ e.status = "PAID" => Paid(x)
  /\ x \in Bills /\ ~NetChanged(x) =>
       /\ e.net_amount = rows[x].net_amount
       /\ PaidInPart(x) \/ e.paid_amount \in 0 .. e.net_amount + Tolerance
HasRead1(r, x, e) ==
  /\ x \in Rows /\ Known(x, e)
  /\ dto[r].kind \in Matched => x \in Bills
  /\ dto[r].kind \in OfPlan /\ x = dto[r].plan => e.status # "ABSENT" /\ e.bill = rows[x].bill
Informed(r) ==
  /\ \A x \in DOMAIN view[r] : HasRead1(r, x, view[r][x])
  /\ pc[r] \in {"idle", "done", "failed"} => DOMAIN view[r] = {}
  /\ pc[r] = "matching" => dto[r].kind \in Matched

(* What a request may be about to write, or have written. *)
BillOf(r) == IF dto[r].kind = "installment" THEN rows[dto[r].plan].bill ELSE dto[r].bill
Written(r, x, e) ==
  /\ x \in Rows /\ IsRow(x, e)
  /\ x \in Accounts => dto[r].kind \in Debiting
  /\ x \in PlanLines =>
       /\ dto[r].kind \in OfPlan \cup {"schedule"}
       /\ e.status = "PAID" =>
            Paid(x) \/ (dto[r].kind = "installment" /\ x = <<dto[r].plan, dto[r].line>>)
  /\ x \in Bills =>
       /\ dto[r].kind \in Debiting \cup Revising /\ x = BillOf(r)
       /\ ~NetChanged(x) =>
            /\ e.net_amount = rows[x].net_amount
            /\ dto[r].kind = "installment" \/ PaidInPart(x)
                 \/ e.paid_amount \in 0 .. e.net_amount + Tolerance
  /\ x \in Plans =>
       /\ dto[r].kind \in Answering \cup {"schedule"}
       /\ e.status # "ABSENT" /\ e.bill \in Bills
       /\ dto[r].kind \in Answering => x = dto[r].plan /\ e.bill = rows[x].bill

(* The rows a request writes.  A schedule that is being made is written    *)
(* whole and is nobody else's.                                             *)
Keys(r) == (UNION {DOMAIN todo[r][n].image : n \in DOMAIN todo[r]}) \cup DOMAIN pending[r]
Owns(r, p) ==
  \/ dto[r].kind \in OfPlan /\ p = dto[r].plan
  \/ dto[r].kind = "schedule" /\ p \in Keys(r) /\ rows[p].status = "ABSENT"
Owning(r) == \A x \in Keys(r) : /\ x \in Plans => Owns(r, x)
                                /\ x \in PlanLines => Owns(r, x[1])
Apart ==
  \A r, s \in Requests : \A p \in Plans :
    r # s /\ p \in Keys(r) /\ p \in Keys(s) =>
      ~(dto[r].kind = "schedule" /\ dto[s].kind = "schedule")
Whole == {"status", "bill"}

Once(r) ==
  \A n \in DOMAIN todo[r] : \A x \in DOMAIN todo[r][n].image :
    /\ x \notin DOMAIN pending[r]
    /\ \A m \in DOMAIN todo[r] : x \in DOMAIN todo[r][m].image => m = n
Planned(r) ==
  /\ Listed(todo[r]) /\ Once(r)
  /\ \A n \in DOMAIN todo[r] : \A x \in DOMAIN todo[r][n].image :
       Written(r, x, todo[r][n].image[x])
  /\ dto[r].kind \notin Debiting \cup {"schedule"} =>
       /\ Len(todo[r]) <= 1
       /\ todo[r] # << >> => DOMAIN pending[r] = {}
Compared(r) ==
  pc[r] = "updating" =>
    /\ todo[r] # << >> /\ DOMAIN diff[r] = DOMAIN Head(todo[r]).image
    /\ dto[r].kind = "schedule" => \A x \in DOMAIN diff[r] \cap Plans : diff[r][x] = Whole
Holding(r) ==
  /\ \A x \in DOMAIN pending[r] : Written(r, x, pending[r][x].entity)
  /\ dto[r].kind = "schedule" => \A x \in DOMAIN pending[r] \cap Plans : pending[r][x].cols = Whole
Writes(r) ==
  /\ pc[r] \notin Saving => todo[r] = << >> /\ DOMAIN pending[r] = {}
  /\ pc[r] # "updating" => DOMAIN diff[r] = {}
  /\ pc[r] \in Saving =>
       /\ Planned(r) /\ Compared(r) /\ Holding(r) /\ Owning(r)
       /\ pc[r] = "updating" \/ DOMAIN pending[r] # {} =>
            (dto[r].kind \in Debiting => r \in inserted)

RowsKnown ==
  /\ \A x \in Rows : Known(x, rows[x])
  /\ \A p \in Plans : rows[p].status = "ABSENT" <=> rows[p].bill = NoBill
Request(r) == Drafted(r) /\ Names(r) /\ Informed(r) /\ Writes(r)
Base ==
  /\ Shape /\ Numbered /\ Serial /\ PaymentsTyped /\ Apart /\ RowsKnown /\ LinesFollow
  /\ \A r \in Requests : Request(r)

-----------------------------------------------------------------------------
USE DEF Phases, Ended, Saving, Debiting, Answering, Revising, Matched, OfPlan

LEMMA DtoFields ==
  ASSUME NEW d \in Dto
  PROVE  /\ d.kind \in Debiting \cup Answering \cup Revising \cup Matched \cup {"schedule", "overdue"}
         /\ d.kind = "pay" => /\ d.account \in Accounts /\ d.bill \in Bills \cup {NoBill}
                              /\ d.amount \in Nat
         /\ d.kind = "installment" => d.line \in Lines /\ d.account \in Accounts
         /\ d.kind \in OfPlan => d.plan \in Plans
         /\ d.kind = "schedule" => d.bill \in Bills /\ d.amounts \in [Lines -> Nat]
         /\ d.kind \in Revising => d.bill \in Bills
         /\ d.kind = "settle" => d.paid \in Nat
         /\ d.kind \in {"edit", "resolution"} => d.net \in Nat
         /\ d.kind = "resolution" =>
              d.action \in {"APPROVE_AS_IS", "CORRECT_AMOUNTS", "REJECT_INVOICE", "NOTE"}
         /\ d.kind = "overdue" => d.due \subseteq Bills
         /\ d.kind \in Matched => d.among \subseteq Bills
BY DEF Dto, SupplierPayments, NewSchedules, Answers, Installments, Reviews, NetEdits, Settlements,
  Resolutions, NightlyJobs, Matchings, Amounts

LEMMA Validated ==
  ASSUME PayablesAssumption, Shape, NEW r \in Requests, Names(r), pc[r] # "idle"
  PROVE  dto[r] \in Dto
BY DEF PayablesAssumption, Shape, Names

LEMMA Disjoint ==
  ASSUME PayablesAssumption
  PROVE  /\ \A x \in Accounts : x \in Rows /\ x \notin Bills \cup Plans \cup PlanLines
         /\ \A x \in Bills : x \in Rows /\ x \notin Accounts \cup Plans \cup PlanLines
         /\ \A x \in Plans : x \in Rows /\ x \notin Accounts \cup Bills \cup PlanLines
         /\ \A x \in PlanLines : x \in Rows /\ x \notin Accounts \cup Bills \cup Plans
         /\ \A p \in Plans, n \in Lines : <<p, n>> \in PlanLines
         /\ NoBill \notin Bills
BY DEF PayablesAssumption, Rows, PlanLines

(* The rows of an installment's or an answer's schedule. *)
LEMMA PlanRow ==
  ASSUME RowsKnown, PayablesAssumption, NEW p \in Plans
  PROVE  /\ rows[p] \in Schedule
         /\ rows[p].status # "ABSENT" <=> rows[p].bill \in Bills
<1>1. Known(p, rows[p]) /\ (rows[p].status = "ABSENT" <=> rows[p].bill = NoBill)
  BY Disjoint DEF RowsKnown
<1>2. rows[p] \in Schedule
  BY <1>1 DEF Known, IsRow
<1> QED BY <1>1, <1>2, Disjoint DEF Schedule

LEMMA MaxOfInterval == ASSUME NEW k \in Nat PROVE Max((1 .. k) \cup {0}) = k
<1>1. k \in (1 .. k) \cup {0} /\ \A y \in (1 .. k) \cup {0} : k >= y
  OBVIOUS
<1>2. \A x \in (1 .. k) \cup {0} : x >= k => x = k
  OBVIOUS
<1> QED BY <1>1, <1>2, Zenon DEF Max

-----------------------------------------------------------------------------
(* Sequences of saves. *)
LEMMA IsListed == ASSUME NEW S, NEW s \in Seq(S) PROVE Listed(s)
<1>1. DOMAIN s = 1 .. Len(s) /\ Len(s) \in Nat
  OBVIOUS
<1>2. s \in [1 .. Len(s) -> {s[n] : n \in DOMAIN s}]
  BY <1>1
<1> QED BY <1>1, <1>2 DEF Listed

LEMMA ListedFew ==
  ASSUME NEW a, NEW b, NEW c
  PROVE  Listed(<< >>) /\ Listed(<<a>>) /\ Listed(<<a, b>>) /\ Listed(<<a, b, c>>)
<1>1. /\ << >> \in Seq({}) /\ <<a>> \in Seq({a}) /\ <<a, b>> \in Seq({a, b})
      /\ <<a, b, c>> \in Seq({a, b, c})
  OBVIOUS
<1> QED BY <1>1, IsListed

LEMMA OfLength ==
  ASSUME NEW a, NEW b, NEW c
  PROVE  /\ DOMAIN <<a>> = {1} /\ <<a>>[1] = a /\ Len(<<a>>) = 1
         /\ DOMAIN <<a, b>> = {1, 2} /\ <<a, b>>[1] = a /\ <<a, b>>[2] = b
         /\ DOMAIN <<a, b, c>> = {1, 2, 3}
         /\ <<a, b, c>>[1] = a /\ <<a, b, c>>[2] = b /\ <<a, b, c>>[3] = c
<1>1. 1 .. 1 = {1} /\ 1 .. 2 = {1, 2} /\ 1 .. 3 = {1, 2, 3}
  OBVIOUS
<1>2. DOMAIN <<a>> = 1 .. 1 /\ DOMAIN <<a, b>> = 1 .. 2 /\ DOMAIN <<a, b, c>> = 1 .. 3
  OBVIOUS
<1> QED BY <1>1, <1>2

LEMMA ListedEmpty == ASSUME NEW s, Listed(s), Len(s) = 0 PROVE s = << >>
<1>1. PICK S : s \in Seq(S)
  BY DEF Listed
<1> QED BY <1>1

LEMMA ListedTail ==
  ASSUME NEW s, Listed(s), s # << >>
  PROVE  /\ Listed(Tail(s)) /\ Len(s) \in Nat \ {0} /\ DOMAIN s = 1 .. Len(s)
         /\ Head(s) = s[1] /\ 1 \in DOMAIN s
         /\ Len(Tail(s)) = Len(s) - 1 /\ DOMAIN Tail(s) = 1 .. Len(s) - 1
         /\ \A n \in DOMAIN Tail(s) : n + 1 \in DOMAIN s /\ Tail(s)[n] = s[n + 1]
<1>1. PICK S : s \in Seq(S)
  BY DEF Listed
<1>2. Tail(s) \in Seq(S)
  BY <1>1
<1>3. Listed(Tail(s))
  BY <1>2, IsListed
<1>4. Len(s) \in Nat \ {0} /\ DOMAIN s = 1 .. Len(s) /\ Head(s) = s[1]
  BY <1>1
<1>5. Len(Tail(s)) = Len(s) - 1 /\ DOMAIN Tail(s) = 1 .. Len(s) - 1
  BY <1>1, <1>2, <1>4
<1>6. \A n \in DOMAIN Tail(s) : n + 1 \in DOMAIN s /\ Tail(s)[n] = s[n + 1]
  BY <1>1, <1>4, <1>5
<1> QED BY <1>3, <1>4, <1>5, <1>6

-----------------------------------------------------------------------------
(* What a step keeps: payments are never deleted, schedules never become   *)
(* ABSENT again nor change invoice, net amounts change only by those who   *)
(* ask to change them.                                                     *)
Later ==
  /\ payments \subseteq payments' /\ load' = load
  /\ \A b \in Bills : ~NetChanged(b)' =>
       ~NetChanged(b) /\ rows'[b].net_amount = rows[b].net_amount
  /\ \A p \in Plans : rows[p].status # "ABSENT" =>
       rows'[p].status # "ABSENT" /\ rows'[p].bill = rows[p].bill

LEMMA KnownLater ==
  ASSUME Later, NEW x, NEW e, Known(x, e)
  PROVE  Known(x, e)'
<1>1. /\ Paid(x) => Paid(x)'
      /\ PaidInPart(x) => PaidInPart(x)'
  BY DEF Later, Paid, PaidInPart
<1>2. IsRow(x, e)' <=> IsRow(x, e)
  BY DEF IsRow
<1> QED BY <1>1, <1>2 DEF Known, Later

(* A request keeps its input once it has arrived. *)
LEMMA AskedLater ==
  ASSUME \A s \in Requests : pc[s] # "idle" => pc'[s] # "idle" /\ dto'[s] = dto[s],
         NEW kinds, NEW b, Asked(kinds, b)
  PROVE  Asked(kinds, b)'
BY DEF Asked

LEMMA PlanLater ==
  ASSUME PayablesAssumption, Shape, RowsKnown, Later, NEW s \in Requests, Names(s),
         pc[s] # "idle", dto[s].kind \in OfPlan
  PROVE  /\ dto[s].plan \in Plans /\ rows[dto[s].plan].status # "ABSENT"
         /\ rows[dto[s].plan].bill \in Bills
         /\ rows'[dto[s].plan].status # "ABSENT"
         /\ rows'[dto[s].plan].bill = rows[dto[s].plan].bill
<1>1. dto[s].plan \in Plans
  BY Validated, DtoFields
<1>2. rows[dto[s].plan].status # "ABSENT"
  BY DEF Names
<1> QED BY <1>1, <1>2, PlanRow DEF Later

LEMMA WrittenLater ==
  ASSUME PayablesAssumption, Shape, RowsKnown, Later, NEW s \in Requests, Names(s),
         pc[s] # "idle", dto'[s] = dto[s], NEW x, NEW e, Written(s, x, e)
  PROVE  Written(s, x, e)'
<1>1. /\ Paid(x) => Paid(x)'
      /\ PaidInPart(x) => PaidInPart(x)'
  BY DEF Later, Paid, PaidInPart
<1>2. IsRow(x, e)' <=> IsRow(x, e)
  BY DEF IsRow
<1>3. BillOf(s)' = BillOf(s)
  BY PlanLater DEF BillOf
<1>4. x \in Plans /\ dto[s].kind \in Answering => rows'[x].bill = rows[x].bill
  BY PlanLater DEF Written
<1>5. x \in Bills /\ ~NetChanged(x)' => ~NetChanged(x) /\ rows'[x].net_amount = rows[x].net_amount
  BY DEF Later
<1>6. x \in Bills => x = BillOf(s)'
  BY <1>3 DEF Written
<1> QED BY <1>1, <1>2, <1>4, <1>5, <1>6 DEF Written

-----------------------------------------------------------------------------
(* A request that does not move. *)
Still(s) ==
  /\ pc'[s] = pc[s] /\ dto'[s] = dto[s] /\ view'[s] = view[s] /\ todo'[s] = todo[s]
  /\ diff'[s] = diff[s] /\ pending'[s] = pending[s] /\ draft'[s] = draft[s]
  /\ s \in inserted' <=> s \in inserted

LEMMA HasReadLater ==
  ASSUME PayablesAssumption, Shape, RowsKnown, Later, NEW s \in Requests, Names(s),
         pc[s] # "idle", dto'[s] = dto[s], NEW x, NEW e, HasRead1(s, x, e)
  PROVE  HasRead1(s, x, e)'
<1>1. Known(x, e)' /\ x \in Rows
  BY KnownLater DEF HasRead1
<1>2. dto[s].kind \in OfPlan /\ x = dto[s].plan => rows'[x].bill = rows[x].bill
  BY PlanLater
<1> QED BY <1>1, <1>2 DEF HasRead1

LEMMA NamesKept ==
  ASSUME PayablesAssumption, Shape, RowsKnown, Later, NEW s \in Requests, Names(s),
         dto'[s] = dto[s], pc[s] = "idle" => pc'[s] = "idle"
  PROVE  Names(s)'
<1>1. pc[s] # "idle" /\ dto[s].kind \in OfPlan => rows'[dto[s].plan].status # "ABSENT"
  BY PlanLater
<1> QED BY <1>1 DEF Names, Later

LEMMA DraftsLater ==
  ASSUME PayablesAssumption, Shape, RowsKnown, Later, NEW s \in Requests, Names(s),
         pc[s] # "idle", dto'[s] = dto[s], s \in inserted' => s \in inserted,
         NextNumber \in Nat, NextNumber' \in Nat, NextNumber <= NextNumber',
         s \in inserted => NextNumber' = NextNumber, NEW p, Drafts(s, p)
  PROVE  Drafts(s, p)'
<1>1. p.number \in 1 .. NextNumber' /\ (s \in inserted' => p.number = NextNumber')
  BY DEF Drafts
<1>2. dto[s].kind = "installment" =>
        /\ rows'[dto[s].plan].bill = rows[dto[s].plan].bill
        /\ \A m \in 1 .. dto[s].line - 1 : Paid(<<dto[s].plan, m>>)'
  BY PlanLater DEF Drafts, Later, Paid
<1> QED BY <1>1, <1>2 DEF Drafts

LEMMA DraftedKept ==
  ASSUME PayablesAssumption, Shape, RowsKnown, Later, NEW s \in Requests, Names(s), Drafted(s),
         dto'[s] = dto[s], draft'[s] = draft[s], s \in inserted' <=> s \in inserted,
         pc[s] \in Saving <=> pc'[s] \in Saving,
         NextNumber \in Nat, NextNumber' \in Nat, NextNumber <= NextNumber',
         s \in inserted => NextNumber' = NextNumber
  PROVE  Drafted(s)'
<1>1. ASSUME pc[s] \in Saving, NEW p \in draft[s], Drafts(s, p) PROVE Drafts(s, p)'
  BY <1>1, DraftsLater
<1> QED BY <1>1 DEF Drafted

LEMMA KeysKept ==
  ASSUME NEW s \in Requests, todo'[s] = todo[s], pending'[s] = pending[s]
  PROVE  Keys(s)' = Keys(s)
BY DEF Keys

LEMMA PlannedLater ==
  ASSUME PayablesAssumption, Shape, RowsKnown, Later, NEW s \in Requests, Names(s),
         pc[s] # "idle", dto'[s] = dto[s], todo'[s] = todo[s], pending'[s] = pending[s],
         Planned(s)
  PROVE  Planned(s)'
<1>1. \A x, e : Written(s, x, e) => Written(s, x, e)'
  BY WrittenLater
<1>2. \A n \in DOMAIN todo'[s] : \A x \in DOMAIN todo'[s][n].image :
        Written(s, x, todo[s][n].image[x])'
  BY <1>1 DEF Planned
<1>3. Listed(todo[s])' /\ Once(s)'
  BY DEF Planned, Listed, Once
<1> QED BY <1>2, <1>3 DEF Planned

LEMMA HoldingLater ==
  ASSUME PayablesAssumption, Shape, RowsKnown, Later, NEW s \in Requests, Names(s),
         pc[s] # "idle", dto'[s] = dto[s], pending'[s] = pending[s], Holding(s)
  PROVE  Holding(s)'
<1>1. \A x, e : Written(s, x, e) => Written(s, x, e)'
  BY WrittenLater
<1> QED BY <1>1 DEF Holding

LEMMA OwningLater ==
  ASSUME NEW s \in Requests, dto'[s] = dto[s], todo'[s] = todo[s], pending'[s] = pending[s],
         Owning(s),
         \A p \in Plans \cap Keys(s) :
           dto[s].kind = "schedule" /\ rows[p].status = "ABSENT" => rows'[p].status = "ABSENT"
  PROVE  Owning(s)'
<1>1. Keys(s)' = Keys(s)
  BY KeysKept
<1>2. ASSUME NEW p, p \in Plans, Owns(s, p) PROVE Owns(s, p)'
  BY <1>1, <1>2 DEF Owns
<1>3. \A x \in PlanLines : x[1] \in Plans
  BY DEF PlanLines
<1> QED BY <1>1, <1>2, <1>3 DEF Owning

LEMMA RequestKept ==
  ASSUME PayablesAssumption, Base, Later, NEW s \in Requests, Still(s),
         NextNumber' \in Nat, NextNumber <= NextNumber',
         s \in inserted => NextNumber' = NextNumber,
         \A p \in Plans \cap Keys(s) :
           dto[s].kind = "schedule" /\ rows[p].status = "ABSENT" => rows'[p].status = "ABSENT"
  PROVE  Request(s)'
<1>1. /\ Shape /\ RowsKnown /\ NextNumber \in Nat
      /\ Names(s) /\ Drafted(s) /\ Informed(s) /\ Writes(s)
  BY DEF Base, Request, Numbered
<1>2. Names(s)' /\ Drafted(s)'
  BY <1>1, NamesKept, DraftedKept DEF Still
<1>3. Informed(s)'
  <2>1. CASE pc[s] = "idle"
    BY <1>1, <2>1 DEF Informed, Still
  <2>2. CASE pc[s] # "idle"
    <3>1. \A x, e : HasRead1(s, x, e) => HasRead1(s, x, e)'
      BY <1>1, <2>2, HasReadLater DEF Still
    <3> QED BY <1>1, <3>1 DEF Informed, Still
  <2> QED BY <2>1, <2>2
<1>4. Writes(s)'
  <2>1. CASE pc[s] \in Saving
    <3>1. Planned(s)' /\ Holding(s)' /\ Owning(s)'
      BY <1>1, <2>1, PlannedLater, HoldingLater, OwningLater DEF Writes, Still
    <3>2. Compared(s)'
      BY <1>1, <2>1 DEF Writes, Still, Compared
    <3> QED BY <1>1, <2>1, <3>1, <3>2 DEF Writes, Still
  <2>2. CASE pc[s] \notin Saving
    BY <1>1, <2>2 DEF Writes, Still
  <2> QED BY <2>1, <2>2
<1> QED BY <1>2, <1>3, <1>4 DEF Request

-----------------------------------------------------------------------------
(* Steps that commit nothing. *)
LEMMA QuietLater ==
  ASSUME UNCHANGED <<payments, load, rows>>,
         \A s \in Requests : pc[s] # "idle" => pc'[s] # "idle" /\ dto'[s] = dto[s]
  PROVE  Later
<1>1. \A b : NetChanged(b) => NetChanged(b)'
  BY AskedLater DEF NetChanged
<1> QED BY <1>1 DEF Later

LEMMA UnusedByNone ==
  ASSUME NEW s \in Requests, NEW p \in Keys(s)
  PROVE  p \notin Unused
<1>1. CASE p \in DOMAIN pending[s]
  BY <1>1 DEF Unused
<1>2. CASE \E n \in DOMAIN todo[s] : p \in DOMAIN todo[s][n].image
  BY <1>2 DEF Unused
<1>3. p \in DOMAIN pending[s] \/ \E n \in DOMAIN todo[s] : p \in DOMAIN todo[s][n].image
  BY DEF Keys
<1> QED BY <1>1, <1>2, <1>3

LEMMA ApartKept ==
  ASSUME Apart, NEW r \in Requests,
         \A s \in Requests \ {r} : Still(s),
         dto'[r] = dto[r] \/ Keys(r)' = {},
         \A p \in Plans : p \in Keys(r)' /\ dto'[r].kind = "schedule" => p \in Keys(r) \/ p \in Unused
  PROVE  Apart'
<1>1. ASSUME NEW s \in Requests \ {r} PROVE Keys(s)' = Keys(s) /\ dto'[s] = dto[s]
  BY KeysKept DEF Still
<1>2. ASSUME NEW s \in Requests \ {r}, NEW p \in Plans, p \in Keys(r)', p \in Keys(s)',
             dto'[r].kind = "schedule"
      PROVE  p \in Keys(r) /\ p \in Keys(s) /\ dto'[r] = dto[r] /\ dto'[s] = dto[s]
  <2>1. p \in Keys(s)
    BY <1>1, <1>2
  <2>2. p \notin Unused
    BY <2>1, UnusedByNone
  <2> QED BY <1>1, <1>2, <2>1, <2>2
<1>3. ASSUME NEW s \in Requests, NEW t \in Requests, NEW p \in Plans, s # t,
             p \in Keys(s)', p \in Keys(t)',
             dto'[s].kind = "schedule", dto'[t].kind = "schedule"
      PROVE  FALSE
  <2>1. p \in Keys(s) /\ p \in Keys(t) /\ dto'[s] = dto[s] /\ dto'[t] = dto[t]
    BY <1>1, <1>2, <1>3
  <2> QED BY <1>3, <2>1 DEF Apart
<1> QED BY <1>3 DEF Apart

LEMMA BaseKept ==
  ASSUME PayablesAssumption, Base, Later, UNCHANGED payments, NEW r \in Requests,
         \A s \in Requests \ {r} : Still(s),
         Shape', Serial', RowsKnown', Request(r)',
         dto'[r] = dto[r] \/ Keys(r)' = {},
         \A p \in Plans : rows'[p] = rows[p],
         \A p \in Plans : p \in Keys(r)' /\ dto'[r].kind = "schedule" => p \in Keys(r) \/ p \in Unused
  PROVE  Base'
<1>1. NextNumber' = NextNumber /\ Numbers' = Numbers /\ NextNumber \in Nat
  BY DEF NextNumber, Numbers, Base, Numbered
<1>2. Numbered' /\ PaymentsTyped' /\ LinesFollow'
  BY <1>1 DEF Base, Numbered, PaymentsTyped, LinesFollow, Paid
<1>3. Apart'
  BY ApartKept DEF Base
<1>4. ASSUME NEW s \in Requests \ {r} PROVE Request(s)'
  BY <1>1, RequestKept
<1> QED BY <1>2, <1>3, <1>4 DEF Base

LEMMA QuietRows ==
  ASSUME Base, Later, UNCHANGED rows
  PROVE  RowsKnown'
<1>1. \A x, e : Known(x, e) => Known(x, e)'
  BY KnownLater
<1> QED BY <1>1 DEF Base, RowsKnown

(* Most steps change neither rows nor payments. *)
LEMMA QuietBase ==
  ASSUME PayablesAssumption, Base, NEW r \in Requests, UNCHANGED <<payments, load, rows>>,
         \A s \in Requests \ {r} : Still(s), Shape', Serial',
         \/ dto'[r] = dto[r] /\ pc[r] # "idle" /\ pc'[r] # "idle"
         \/ pc[r] = "idle" /\ Keys(r)' = {},
         Later => Request(r)',
         \A p \in Plans : p \in Keys(r)' /\ dto'[r].kind = "schedule" => p \in Keys(r) \/ p \in Unused
  PROVE  Base'
<1>1. Later
  <2>1. \A s \in Requests : pc[s] # "idle" => pc'[s] # "idle" /\ dto'[s] = dto[s]
    BY DEF Still
  <2> QED BY <2>1, QuietLater
<1>2. RowsKnown'
  BY <1>1, QuietRows
<1> QED BY <1>1, <1>2, BaseKept

(* A request that ends, and gives back what it had drafted. *)
LEMMA RequestEnded ==
  ASSUME PayablesAssumption, Base, Later, NEW r \in Requests, pc[r] # "idle", dto'[r] = dto[r],
         pc'[r] \in Ended, draft'[r] = {}, r \notin inserted', todo'[r] = << >>,
         DOMAIN pending'[r] = {}, DOMAIN diff'[r] = {}, DOMAIN view'[r] = {}
  PROVE  Request(r)' /\ Keys(r)' = {}
<1>1. Names(r)'
  BY NamesKept DEF Base, Request
<1>2. Drafted(r)' /\ Informed(r)' /\ Writes(r)'
  BY DEF Drafted, Informed, Writes
<1>3. Keys(r)' = {}
  BY DEF Keys
<1> QED BY <1>1, <1>2, <1>3 DEF Request

LEMMA EndIs ==
  ASSUME Shape, NEW r \in Requests, NEW outcome \in Ended, End(r, outcome)
  PROVE  /\ pc'[r] = outcome /\ todo'[r] = << >> /\ UNCHANGED dto
         /\ DOMAIN pending'[r] = {} /\ DOMAIN diff'[r] = {} /\ DOMAIN view'[r] = {}
         /\ pc' \in [Requests -> Phases \cup {"matching"}]
         /\ DOMAIN view' = Requests /\ DOMAIN todo' = Requests
         /\ DOMAIN diff' = Requests /\ DOMAIN pending' = Requests
         /\ \A s \in Requests \ {r} :
              /\ pc'[s] = pc[s] /\ view'[s] = view[s] /\ todo'[s] = todo[s]
              /\ diff'[s] = diff[s] /\ pending'[s] = pending[s]
BY DEF Shape, End, Nothing

LEMMA FailBase ==
  ASSUME PayablesAssumption, Base, NEW r \in Requests, pc[r] # "idle", Fail(r)
  PROVE  Base'
<1>1. /\ End(r, "failed") /\ draft' = [draft EXCEPT ![r] = {}] /\ inserted' = inserted \ {r}
      /\ UNCHANGED <<payments, ledger, load, rows>>
  BY DEF Fail, Rollback
<1>2. Shape
  BY DEF Base
<1>3. \A s \in Requests \ {r} : Still(s)
  BY <1>1, <1>2, EndIs DEF Still, Shape
<1>4. Shape' /\ Serial'
  BY <1>1, <1>2, EndIs DEF Shape, Base, Serial
<1>5. Later => Request(r)' /\ Keys(r)' = {}
  BY <1>1, <1>2, EndIs, RequestEnded DEF Shape
<1>6. Keys(r)' = {}
  BY <1>1, <1>2, EndIs DEF Keys
<1>7. dto'[r] = dto[r] /\ pc'[r] # "idle"
  BY <1>1, <1>2, EndIs
<1> QED BY <1>1, <1>3, <1>4, <1>5, <1>6, <1>7, QuietBase

-----------------------------------------------------------------------------
(* Arriving and reading. *)
LEMMA ArriveBase ==
  ASSUME PayablesAssumption, Base, NEW r \in Requests, Arrive(r)
  PROVE  Base'
<1>1. PICK d \in load.inputs :
        /\ d.kind \in OfPlan => rows[d.plan].status # "ABSENT"
        /\ pc[r] = "idle" /\ pc' = [pc EXCEPT ![r] = "reading"]
        /\ dto' = [dto EXCEPT ![r] = d]
        /\ UNCHANGED <<rows, view, todo, diff, pending, payments, draft, inserted, load>>
  BY DEF Arrive, Open, ledgerVars
<1>2. Shape /\ Request(r)
  BY DEF Base
<1>3. Shape' /\ Serial' /\ dto'[r] = d /\ pc'[r] = "reading"
  BY <1>1, <1>2 DEF Shape, Serial, Base
<1>4. \A s \in Requests \ {r} : Still(s)
  BY <1>1, <1>2 DEF Shape, Still
<1>5. Names(r)' /\ Drafted(r)' /\ Informed(r)' /\ Writes(r)'
  BY <1>1, <1>2, <1>3 DEF Request, Names, Drafted, Informed, Writes
<1>6. Keys(r)' = {}
  BY <1>1, <1>2 DEF Request, Writes, Keys
<1> QED BY <1>1, <1>3, <1>4, <1>5, <1>6, QuietBase DEF Request

LEMMA Joined ==
  ASSUME NEW a, NEW b
  PROVE  <<a>> \o << >> = <<a>> /\ << >> \o <<a>> = <<a>> /\ <<a>> \o <<b>> = <<a, b>>
<1>1. <<a>> \in Seq({a, b}) /\ <<b>> \in Seq({a, b}) /\ <<a, b>> \in Seq({a, b})
  OBVIOUS
<1>2. PICK x : x = <<a>> \o <<b>>
  OBVIOUS
<1>3. x \in Seq({a, b}) /\ Len(x) = 2 /\ x[1] = a /\ x[2] = b
  BY <1>1, <1>2
<1>4. PICK y : y = <<a, b>>
  OBVIOUS
<1>5. y \in Seq({a, b}) /\ Len(y) = 2 /\ y[1] = a /\ y[2] = b
  BY <1>1, <1>4
<1>6. x = y
  BY <1>3, <1>5
<1>7. <<a>> \o << >> = <<a>> /\ << >> \o <<a>> = <<a>>
  OBVIOUS
<1> QED BY <1>2, <1>4, <1>6, <1>7

LEMMA ReadsRows ==
  ASSUME PayablesAssumption, Base, NEW r \in Requests, pc[r] # "idle",
         NEW n \in 1 .. Len(Reads(dto[r]))
  PROVE  /\ Reads(dto[r])[n] \subseteq Rows
         /\ dto[r].kind \in Matched => Reads(dto[r])[n] \subseteq Bills
<1>1. dto[r] \in Dto /\ Names(r) /\ RowsKnown
  BY Validated DEF Base, Request
<1>a. PICK d : d = dto[r]
  OBVIOUS
<1>2. d.kind = "installment" => rows[d.plan].bill \in Bills
  BY <1>1, <1>a, DtoFields, PlanRow DEF Names
<1>3. /\ d.kind = "pay" => d.account \in Rows /\ (d.bill # NoBill => d.bill \in Rows)
      /\ d.kind = "schedule" => d.bill \in Rows /\ Plans \subseteq Rows
      /\ d.kind \in OfPlan => /\ d.plan \in Rows
                              /\ \A m \in Lines : <<d.plan, m>> \in Rows
      /\ d.kind = "installment" => /\ d.line \in Lines /\ d.account \in Rows
                                   /\ rows[d.plan].bill \in Rows
      /\ d.kind \in Matched => d.among \subseteq Bills /\ d.among \subseteq Rows
      /\ d.kind \in Revising => d.bill \in Rows
  BY <1>1, <1>a, <1>2, DtoFields, Disjoint
<1>4. d.kind \in Debiting \cup Answering \cup Revising \cup Matched \cup {"schedule", "overdue"}
  BY <1>1, <1>a, DtoFields
<1>5. n \in 1 .. Len(Reads(d))
  BY <1>a
<1>6. CASE d.kind = "pay"
  <2>1. CASE d.bill = NoBill
    <3>1. Reads(d) = <<{d.account}>>
      BY <1>6, <2>1, Joined DEF Reads
    <3> QED BY <1>a, <1>3, <1>5, <1>6, <3>1
  <2>2. CASE d.bill # NoBill
    <3>1. Reads(d) = <<{d.account}, {d.bill}>>
      BY <1>6, <2>2, Joined DEF Reads
    <3>2. {d.account} \subseteq Rows /\ {d.bill} \subseteq Rows
      BY <1>3, <1>6, <2>2
    <3>3. n = 1 \/ n = 2
      BY <1>5, <3>1
    <3> QED BY <1>a, <1>6, <3>1, <3>2, <3>3
  <2> QED BY <2>1, <2>2
<1>7. CASE d.kind = "schedule"
  BY <1>a, <1>3, <1>5, <1>7 DEF Reads
<1>8. CASE d.kind \in Answering
  BY <1>a, <1>3, <1>5, <1>8 DEF Reads
<1>9. CASE d.kind = "installment"
  <2>1. Reads(d) = <<{d.plan, <<d.plan, d.line>>, rows[d.plan].bill},
                     {d.plan} \X (Lines \ {d.line}), {d.account}>>
    BY <1>9 DEF Reads
  <2> QED BY <1>a, <1>3, <1>5, <1>9, <2>1
<1>10. CASE d.kind \in Matched
  BY <1>a, <1>3, <1>5, <1>10 DEF Reads
<1>11. CASE d.kind \in Revising
  BY <1>a, <1>3, <1>5, <1>11 DEF Reads
<1>12. CASE d.kind = "overdue"
  BY <1>a, <1>5, <1>12 DEF Reads
<1> QED BY <1>4, <1>6, <1>7, <1>8, <1>9, <1>10, <1>11, <1>12

LEMMA FetchBase ==
  ASSUME PayablesAssumption, Base, NEW r \in Requests, Fetch(r)
  PROVE  Base'
<1>1. PICK n \in 1 .. Len(Reads(dto[r])) :
        /\ pc[r] = "reading" /\ view' = [view EXCEPT ![r] = With(@, Reads(dto[r])[n])]
        /\ UNCHANGED <<rows, pc, dto, todo, diff, pending, payments, draft, inserted, load>>
  BY DEF Fetch, Read, ledgerVars
<1>a. PICK X : X = Reads(dto[r])[n]
  OBVIOUS
<1>2. Shape /\ Request(r) /\ RowsKnown
  BY DEF Base
<1>3. X \subseteq Rows /\ (dto[r].kind \in Matched => X \subseteq Bills)
  BY <1>1, <1>a, ReadsRows
<1>4. ASSUME NEW x \in X PROVE HasRead1(r, x, rows[x])
  <2>1. Known(x, rows[x])
    BY <1>2, <1>3 DEF RowsKnown
  <2>2. dto[r].kind \in OfPlan => rows[dto[r].plan].status # "ABSENT"
    BY <1>1, <1>2 DEF Request, Names
  <2> QED BY <1>3, <2>1, <2>2 DEF HasRead1
<1>5. Shape' /\ Serial' /\ \A s \in Requests \ {r} : Still(s)
  BY <1>1, <1>2 DEF Shape, Serial, Base, Still
<1>6. /\ DOMAIN view'[r] = DOMAIN view[r] \cup X
      /\ \A x \in DOMAIN view'[r] : view'[r][x] = IF x \in X THEN rows[x] ELSE view[r][x]
  BY <1>1, <1>2, <1>a DEF Shape, With
<1>7. \A x \in DOMAIN view'[r] : HasRead1(r, x, view'[r][x])
  BY <1>2, <1>4, <1>6 DEF Request, Informed
<1>8. ASSUME Later PROVE Request(r)'
  <2>1. Names(r)' /\ Drafted(r)' /\ Writes(r)'
    BY <1>1, <1>2 DEF Request, Names, Drafted, Writes
  <2>2. ASSUME NEW x, NEW e, HasRead1(r, x, e) PROVE HasRead1(r, x, e)'
    BY <1>1, <1>2, <1>8, <2>2, HasReadLater DEF Request
  <2>3. Informed(r)'
    BY <1>1, <1>7, <2>2 DEF Informed
  <2> QED BY <2>1, <2>3 DEF Request
<1>9. Keys(r)' = Keys(r)
  BY <1>1, KeysKept
<1> QED BY <1>1, <1>5, <1>8, <1>9, QuietBase

-----------------------------------------------------------------------------
(* The index lets a number in that is the next one, and one request at a   *)
(* time.                                                                   *)
LEMMA InsertAlone ==
  ASSUME PayablesAssumption, Base, NEW r \in Requests, InsertPayment(r), ~Fail(r)
  PROVE  /\ pc[r] = "saving" /\ inserted = {} /\ inserted' = {r}
         /\ UNCHANGED <<sessionVars, payments, draft, load>>
         /\ \E p \in draft[r] : draft[r] = {p} /\ Drafts(r, p) /\ p.number = NextNumber
<1>1. pc[r] = "saving" /\ draft[r] # {} /\ r \notin inserted
  BY DEF InsertPayment, Inserted
<1>2. PICK p \in draft[r] : draft[r] = {p} /\ Drafts(r, p)
  BY <1>1 DEF Base, Request, Drafted
<1>3. /\ \A s \in inserted : \A q \in draft[s] : ~Clash(p.number, q.number)
      /\ ~\E n \in Numbers : Clash(p.number, n)
      /\ inserted' = inserted \cup {r}
      /\ UNCHANGED <<sessionVars, payments, draft, load>>
  BY <1>2 DEF InsertPayment
<1>4. p.number = NextNumber
  <2>1. p.number \in 1 .. NextNumber /\ p.number \notin Numbers
    BY <1>2, <1>3 DEF Drafts, Clash
  <2> QED BY <2>1 DEF Base, Numbered
<1>5. inserted = {}
  <2>1. SUFFICES ASSUME NEW s \in inserted PROVE FALSE
    OBVIOUS
  <2>2. s \in Requests /\ Drafted(s)
    BY DEF Base, Shape, Request
  <2>3. PICK q \in draft[s] : Drafts(s, q)
    BY <2>2 DEF Drafted
  <2>4. q.number = NextNumber
    BY <2>3 DEF Drafts
  <2> QED BY <1>3, <1>4, <2>4 DEF Clash
<1> QED BY <1>1, <1>2, <1>3, <1>4, <1>5

LEMMA InsertBase ==
  ASSUME PayablesAssumption, Base, NEW r \in Requests, InsertPayment(r), ~Fail(r)
  PROVE  Base'
<1>1. /\ pc[r] = "saving" /\ inserted = {} /\ inserted' = {r}
      /\ UNCHANGED <<rows, pc, dto, view, todo, diff, pending, payments, draft, load>>
  BY InsertAlone DEF sessionVars
<1>2. PICK p \in draft[r] : draft[r] = {p} /\ Drafts(r, p) /\ p.number = NextNumber
  BY InsertAlone
<1>3. Shape /\ Request(r)
  BY DEF Base
<1>4. Shape' /\ Serial' /\ \A s \in Requests \ {r} : Still(s)
  BY <1>1, <1>3 DEF Shape, Serial, Still
<1>5. NextNumber' = NextNumber /\ draft'[r] = {p}
  BY <1>1, <1>2 DEF NextNumber, Numbers
<1>6. Drafts(r, p)'
  BY <1>1, <1>2, <1>5 DEF Drafts, Paid
<1>7. dto[r].kind \in Debiting
  BY <1>2, <1>3 DEF Request, Drafted
<1>8. ASSUME Later PROVE Request(r)'
  <2>1. Drafted(r)'
    BY <1>1, <1>5, <1>6, <1>7 DEF Drafted
  <2>2. Names(r)'
    BY <1>1, <1>3 DEF Request, Names
  <2>3. ASSUME NEW x, NEW e, HasRead1(r, x, e) PROVE HasRead1(r, x, e)'
    BY <1>1, <1>3, <1>8, <2>3, HasReadLater DEF Request, Base
  <2>4. Informed(r)'
    BY <1>1, <1>3, <2>3 DEF Request, Informed
  <2>5. Planned(r)' /\ Holding(r)' /\ Owning(r)'
    BY <1>1, <1>3, <1>8, PlannedLater, HoldingLater, OwningLater DEF Base, Request, Writes
  <2>6. Compared(r)' /\ Writes(r)'
    BY <1>1, <1>3, <2>5 DEF Request, Writes, Compared
  <2> QED BY <2>1, <2>2, <2>4, <2>6 DEF Request
<1>9. Keys(r)' = Keys(r)
  BY <1>1, KeysKept
<1> QED BY <1>1, <1>4, <1>8, <1>9, QuietBase

(* Steps of a request that is saving, and keeps its input, its draft and   *)
(* what it has read.                                                       *)
LEMMA SavingKept ==
  ASSUME PayablesAssumption, Base, Later, NEW r \in Requests, pc[r] \in Saving, pc'[r] \in Saving,
         UNCHANGED <<rows, dto, view, payments, draft, inserted>>, Writes(r)'
  PROVE  Request(r)'
<1>1. Shape /\ RowsKnown /\ Request(r) /\ NextNumber \in Nat /\ NextNumber' = NextNumber
  BY DEF Base, Numbered, NextNumber, Numbers
<1>2. Names(r)' /\ Drafted(r)'
  BY <1>1, NamesKept, DraftedKept DEF Request
<1>3. ASSUME NEW x, NEW e, HasRead1(r, x, e) PROVE HasRead1(r, x, e)'
  BY <1>1, <1>3, HasReadLater DEF Request
<1>4. Informed(r)'
  BY <1>1, <1>3 DEF Request, Informed
<1> QED BY <1>2, <1>4 DEF Request

LEMMA PhaseBase ==
  ASSUME PayablesAssumption, Base, NEW r \in Requests, FraudClear(r) \/ RecordTransaction(r)
  PROVE  Base'
<1>1. /\ pc[r] \in {"saving", "recording"}
      /\ \E next \in {"saving", "recording"} : pc' = [pc EXCEPT ![r] = next]
      /\ UNCHANGED <<rows, dto, view, todo, diff, pending, payments, draft, inserted, load>>
  BY DEF FraudClear, RecordTransaction, AllSaved, ledgerVars
<1>2. Shape /\ Request(r)
  BY DEF Base
<1>3. Shape' /\ Serial' /\ pc'[r] \in {"saving", "recording"} /\ \A s \in Requests \ {r} : Still(s)
  BY <1>1, <1>2 DEF Shape, Serial, Still, Base
<1>4. ASSUME Later PROVE Writes(r)'
  <2>1. Planned(r)' /\ Holding(r)' /\ Owning(r)'
    BY <1>1, <1>2, <1>4, PlannedLater, HoldingLater, OwningLater DEF Base, Request, Writes
  <2> QED BY <1>1, <1>2, <1>3, <2>1 DEF Request, Writes, Compared
<1>5. Later => Request(r)'
  BY <1>1, <1>3, <1>4, SavingKept
<1>6. Keys(r)' = Keys(r)
  BY <1>1, KeysKept
<1> QED BY <1>1, <1>3, <1>5, <1>6, QuietBase

-----------------------------------------------------------------------------
(* A save is made in two statements. *)
LEMMA WritesUnfold ==
  ASSUME Base, NEW r \in Requests, pc[r] \in Saving
  PROVE  Planned(r) /\ Compared(r) /\ Holding(r) /\ Owning(r) /\ Once(r) /\ Listed(todo[r])
BY DEF Base, Request, Writes, Planned

LEMMA HeadIs ==
  ASSUME Base, NEW r \in Requests, pc[r] \in Saving, todo[r] # << >>
  PROVE  /\ Head(todo[r]) = todo[r][1] /\ 1 \in DOMAIN todo[r]
         /\ DOMAIN Head(todo[r]).image \subseteq Keys(r)
         /\ \A x \in DOMAIN Head(todo[r]).image :
              /\ x \notin DOMAIN pending[r]
              /\ Written(r, x, Head(todo[r]).image[x])
<1>1. Head(todo[r]) = todo[r][1] /\ 1 \in DOMAIN todo[r]
  BY WritesUnfold, ListedTail
<1>2. \A x \in DOMAIN todo[r][1].image : x \in Keys(r)
  BY <1>1 DEF Keys
<1> QED BY <1>1, <1>2, WritesUnfold DEF Once, Planned

(* A schedule being made is compared with the row it does not have yet. *)
LEMMA ComparedWhole ==
  ASSUME PayablesAssumption, Base, NEW r \in Requests, pc[r] \in Saving, todo[r] # << >>,
         dto[r].kind = "schedule", NEW x \in Plans, x \in DOMAIN Head(todo[r]).image, NEW decimals
  PROVE  Differing(Head(todo[r]).image[x], decimals, Seen(r, x)) = Whole
<1>a. PICK e : e = Head(todo[r]).image[x]
  OBVIOUS
<1>1. x \in Keys(r) /\ Seen(r, x) = rows[x] /\ Written(r, x, e)
  BY <1>a, HeadIs DEF Seen
<1>2. rows[x].status = "ABSENT"
  BY <1>1, WritesUnfold DEF Owning, Owns
<1>3. rows[x] \in Schedule /\ rows[x].bill \notin Bills
  BY <1>2, PlanRow DEF Base
<1>4. e.status # "ABSENT" /\ e.bill \in Bills
  BY <1>1 DEF Written
<1>5. DOMAIN rows[x] = Whole
  BY <1>3 DEF Schedule, Whole
<1>6. \A c \in Whole : e[c] # rows[x][c]
  BY <1>2, <1>3, <1>4 DEF Whole
<1> QED BY <1>a, <1>1, <1>5, <1>6 DEF Differing

LEMMA ReloadIs ==
  ASSUME Shape, NEW r \in Requests, Reload(r)
  PROVE  /\ pc[r] = "saving" /\ todo[r] # << >> /\ pc'[r] = "updating"
         /\ pc' = [pc EXCEPT ![r] = "updating"]
         /\ DOMAIN diff'[r] = DOMAIN Head(todo[r]).image
         /\ \A x \in DOMAIN diff'[r] : diff'[r][x] =
              Differing(Head(todo[r]).image[x], Head(todo[r]).decimals, Seen(r, x))
         /\ DOMAIN diff' = Requests /\ \A s \in Requests \ {r} : diff'[s] = diff[s]
         /\ UNCHANGED <<rows, dto, view, todo, pending>>
<1>a. PICK found : found = [x \in DOMAIN Head(todo[r]).image |->
                            Differing(Head(todo[r]).image[x], Head(todo[r]).decimals, Seen(r, x))]
  OBVIOUS
<1>1. /\ pc[r] = "saving" /\ todo[r] # << >> /\ pc' = [pc EXCEPT ![r] = "updating"]
      /\ diff' = [diff EXCEPT ![r] = found]
      /\ UNCHANGED <<rows, dto, view, todo, pending>>
  BY <1>a, Zenon DEF Reload
<1>2. diff'[r] = found
  BY <1>1 DEF Shape
<1>3. /\ DOMAIN found = DOMAIN Head(todo[r]).image
      /\ \A x \in DOMAIN found : found[x] =
           Differing(Head(todo[r]).image[x], Head(todo[r]).decimals, Seen(r, x))
  BY <1>a
<1> QED BY <1>1, <1>2, <1>3 DEF Shape

LEMMA ReloadBase ==
  ASSUME PayablesAssumption, Base, NEW r \in Requests, Reload(r), Inserted(r), UNCHANGED ledgerVars
  PROVE  Base'
<1>1. Shape /\ Request(r)
  BY DEF Base
<1>2. /\ pc[r] = "saving" /\ todo[r] # << >> /\ pc'[r] = "updating"
      /\ pc' = [pc EXCEPT ![r] = "updating"]
      /\ DOMAIN diff'[r] = DOMAIN Head(todo[r]).image
      /\ \A x \in DOMAIN diff'[r] : diff'[r][x] =
           Differing(Head(todo[r]).image[x], Head(todo[r]).decimals, Seen(r, x))
      /\ DOMAIN diff' = Requests /\ \A s \in Requests \ {r} : diff'[s] = diff[s]
      /\ UNCHANGED <<rows, dto, view, todo, pending, payments, draft, inserted, load>>
  BY <1>1, ReloadIs DEF ledgerVars
<1>3. Shape' /\ Serial' /\ \A s \in Requests \ {r} : Still(s)
  BY <1>1, <1>2 DEF Shape, Serial, Still, Base
<1>4. Compared(r)'
  <2>1. ASSUME dto[r].kind = "schedule", NEW x \in DOMAIN diff'[r] \cap Plans
        PROVE  diff'[r][x] = Whole
    <3>1. x \in Plans /\ x \in DOMAIN Head(todo[r]).image
      BY <1>2
    <3>2. Differing(Head(todo[r]).image[x], Head(todo[r]).decimals, Seen(r, x)) = Whole
      BY <1>2, <2>1, <3>1, ComparedWhole
    <3> QED BY <1>2, <3>2
  <2> QED BY <1>2, <2>1 DEF Compared
<1>5. dto[r].kind \in Debiting => r \in inserted
  <2>1. dto[r].kind \in Debiting => draft[r] # {}
    BY <1>1, <1>2 DEF Request, Drafted
  <2> QED BY <2>1 DEF Inserted
<1>6. ASSUME Later PROVE Writes(r)'
  <2>1. Planned(r)' /\ Holding(r)' /\ Owning(r)'
    BY <1>1, <1>2, <1>6, PlannedLater, HoldingLater, OwningLater DEF Base, Request, Writes
  <2> QED BY <1>2, <1>4, <1>5, <2>1 DEF Writes
<1>7. Later => Request(r)'
  BY <1>2, <1>6, SavingKept
<1>8. Keys(r)' = Keys(r)
  BY <1>2, KeysKept
<1> QED BY <1>2, <1>3, <1>7, <1>8, QuietBase

LEMMA UpdateIs ==
  ASSUME Shape, NEW r \in Requests, Update(r)
  PROVE  /\ pc[r] = "updating" /\ pc'[r] = "saving" /\ todo'[r] = Tail(todo[r])
         /\ pc' = [pc EXCEPT ![r] = "saving"]
         /\ DOMAIN pending'[r] = DOMAIN pending[r] \cup Needs(r)
         /\ \A x \in Needs(r) : pending'[r][x].entity = Head(todo[r]).image[x]
         /\ \A x \in Needs(r) : pending'[r][x].cols = diff[r][x]
         /\ \A x \in DOMAIN pending[r] \ Needs(r) : pending'[r][x] = pending[r][x]
         /\ \A x \in Needs(r) : ~LockedByOther(r, x)
         /\ DOMAIN diff'[r] = {}
         /\ DOMAIN todo' = Requests /\ DOMAIN pending' = Requests /\ DOMAIN diff' = Requests
         /\ \A s \in Requests \ {r} :
              todo'[s] = todo[s] /\ pending'[s] = pending[s] /\ diff'[s] = diff[s]
         /\ UNCHANGED <<rows, dto, view>>
<1>a. PICK made : made =
        [x \in DOMAIN pending[r] \cup Needs(r) |->
           IF x \in Needs(r) THEN [entity |-> Head(todo[r]).image[x], cols |-> diff[r][x]]
           ELSE pending[r][x]]
  OBVIOUS
<1>1. /\ pc[r] = "updating" /\ pc' = [pc EXCEPT ![r] = "saving"]
      /\ \A x \in Needs(r) : ~LockedByOther(r, x)
      /\ todo' = [todo EXCEPT ![r] = Tail(@)]
      /\ diff' = [diff EXCEPT ![r] = Nothing]
      /\ UNCHANGED <<rows, dto, view>>
  BY DEF Update
<1>2. pending' = [pending EXCEPT ![r] = made]
  BY <1>a DEF Update, Shape
<1>3. pending'[r] = made
  BY <1>2 DEF Shape
<1>4. /\ DOMAIN made = DOMAIN pending[r] \cup Needs(r)
      /\ \A x \in Needs(r) : made[x] = [entity |-> Head(todo[r]).image[x], cols |-> diff[r][x]]
      /\ \A x \in DOMAIN pending[r] \ Needs(r) : made[x] = pending[r][x]
  BY <1>a
<1>5. \A x \in Needs(r) : made[x].entity = Head(todo[r]).image[x] /\ made[x].cols = diff[r][x]
  BY <1>4
<1>6. DOMAIN diff'[r] = {} /\ pc'[r] = "saving" /\ todo'[r] = Tail(todo[r])
  BY <1>1 DEF Shape, Nothing
<1> QED BY <1>1, <1>2, <1>3, <1>4, <1>5, <1>6 DEF Shape

LEMMA UpdateBase ==
  ASSUME PayablesAssumption, Base, NEW r \in Requests, Update(r), UNCHANGED ledgerVars
  PROVE  Base'
<1>1. Shape /\ Request(r)
  BY DEF Base
<1>2. /\ pc[r] = "updating" /\ pc'[r] = "saving" /\ todo'[r] = Tail(todo[r])
      /\ pc' = [pc EXCEPT ![r] = "saving"]
      /\ DOMAIN pending'[r] = DOMAIN pending[r] \cup Needs(r)
      /\ \A x \in Needs(r) : pending'[r][x].entity = Head(todo[r]).image[x]
      /\ \A x \in Needs(r) : pending'[r][x].cols = diff[r][x]
      /\ \A x \in DOMAIN pending[r] \ Needs(r) : pending'[r][x] = pending[r][x]
      /\ DOMAIN diff'[r] = {}
      /\ DOMAIN todo' = Requests /\ DOMAIN pending' = Requests /\ DOMAIN diff' = Requests
      /\ \A s \in Requests \ {r} :
           todo'[s] = todo[s] /\ pending'[s] = pending[s] /\ diff'[s] = diff[s]
      /\ UNCHANGED <<rows, dto, view, payments, draft, inserted, load>>
  BY <1>1, UpdateIs DEF ledgerVars
<1>3. Shape' /\ Serial' /\ \A s \in Requests \ {r} : Still(s)
  BY <1>1, <1>2 DEF Shape, Serial, Still, Base
<1>4. /\ todo[r] # << >> /\ DOMAIN diff[r] = DOMAIN Head(todo[r]).image
      /\ dto[r].kind = "schedule" => \A x \in DOMAIN diff[r] \cap Plans : diff[r][x] = Whole
  BY <1>2, WritesUnfold DEF Compared
<1>5. /\ Head(todo[r]) = todo[r][1] /\ 1 \in DOMAIN todo[r] /\ DOMAIN todo[r] = 1 .. Len(todo[r])
      /\ Listed(Tail(todo[r])) /\ Len(Tail(todo[r])) = Len(todo[r]) - 1 /\ Len(todo[r]) \in Nat
      /\ DOMAIN Tail(todo[r]) = 1 .. Len(todo[r]) - 1
      /\ \A n \in DOMAIN Tail(todo[r]) : n + 1 \in DOMAIN todo[r] /\ Tail(todo[r])[n] = todo[r][n + 1]
  BY <1>2, <1>4, WritesUnfold, ListedTail
<1>6. Needs(r) \subseteq DOMAIN Head(todo[r]).image
  BY <1>4 DEF Needs
<1>7. \A x, e : Written(r, x, e) => Written(r, x, e)' \/ ~Later
  BY <1>1, <1>2, WrittenLater DEF Base, Request
<1>8. Once(r)' /\ Listed(todo'[r])
  <2>1. ASSUME NEW n \in DOMAIN todo'[r], NEW x \in DOMAIN todo'[r][n].image
        PROVE  /\ x \notin DOMAIN pending'[r]
               /\ \A m \in DOMAIN todo'[r] : x \in DOMAIN todo'[r][m].image => m = n
    <3>1. n + 1 \in DOMAIN todo[r] /\ x \in DOMAIN todo[r][n + 1].image /\ n \in 1 .. Len(todo[r]) - 1
      BY <1>2, <1>5
    <3>2. /\ x \notin DOMAIN pending[r]
          /\ \A m \in DOMAIN todo[r] : x \in DOMAIN todo[r][m].image => m = n + 1
      BY <1>2, <3>1, WritesUnfold DEF Once
    <3>3. x \notin Needs(r)
      BY <1>5, <1>6, <3>1, <3>2
    <3>4. ASSUME NEW m \in DOMAIN todo'[r], x \in DOMAIN todo'[r][m].image PROVE m = n
      <4>1. m + 1 \in DOMAIN todo[r] /\ x \in DOMAIN todo[r][m + 1].image /\ m \in 1 .. Len(todo[r]) - 1
        BY <1>2, <1>5, <3>4
      <4> QED BY <1>5, <3>1, <3>2, <4>1
    <3> QED BY <1>2, <3>2, <3>3, <3>4
  <2> QED BY <1>2, <1>5, <2>1 DEF Once
<1>9. ASSUME NEW n \in DOMAIN todo'[r], NEW x \in DOMAIN todo'[r][n].image
      PROVE  Written(r, x, todo'[r][n].image[x])
  <2>1. n + 1 \in DOMAIN todo[r] /\ todo'[r][n] = todo[r][n + 1]
    BY <1>2, <1>5
  <2> QED BY <1>2, <2>1, WritesUnfold DEF Planned
<1>10. ASSUME NEW x \in DOMAIN pending'[r] PROVE Written(r, x, pending'[r][x].entity)
  <2>1. CASE x \in Needs(r)
    <3>1. pending'[r][x].entity = Head(todo[r]).image[x] /\ x \in DOMAIN Head(todo[r]).image
      BY <1>2, <1>6, <2>1
    <3> QED BY <1>2, <1>4, <3>1, HeadIs
  <2>2. CASE x \notin Needs(r)
    BY <1>2, <2>2, WritesUnfold DEF Holding
  <2> QED BY <2>1, <2>2
<1>11. ASSUME dto[r].kind = "schedule", NEW x \in DOMAIN pending'[r] \cap Plans
       PROVE  pending'[r][x].cols = Whole
  <2>1. CASE x \in Needs(r)
    <3>1. pending'[r][x].cols = diff[r][x]
      BY <1>2, <2>1
    <3>2. x \in DOMAIN diff[r] \cap Plans
      BY <1>4, <1>6, <2>1, <1>11
    <3> QED BY <1>4, <1>11, <3>1, <3>2
  <2>2. CASE x \notin Needs(r)
    <3>1. pending'[r][x] = pending[r][x] /\ x \in DOMAIN pending[r] \cap Plans
      BY <1>2, <2>2
    <3> QED BY <1>2, <1>11, <3>1, WritesUnfold DEF Holding
  <2> QED BY <2>1, <2>2
<1>12. \A x \in Keys(r)' : x \in Keys(r)
  <2>1. ASSUME NEW x, x \in Keys(r)' PROVE x \in Keys(r)
    <3>1. CASE x \in DOMAIN pending'[r]
      BY <1>2, <1>4, <1>6, <3>1, HeadIs DEF Keys
    <3>2. CASE \E n \in DOMAIN todo'[r] : x \in DOMAIN todo'[r][n].image
      BY <1>2, <1>5, <3>2 DEF Keys
    <3> QED BY <2>1, <3>1, <3>2 DEF Keys
  <2> QED BY <2>1
<1>13. ASSUME NEW p \in Plans, Owns(r, p), p \in Keys(r)' \/ p \in Keys(r) PROVE Owns(r, p)'
  <2>1. CASE dto[r].kind # "schedule"
    BY <1>2, <1>13, <2>1 DEF Owns
  <2>2. CASE dto[r].kind = "schedule"
    <3>1. p \in Keys(r) /\ rows[p].status = "ABSENT"
      BY <1>12, <1>13, <2>2 DEF Owns
    <3>2. CASE p \in DOMAIN pending[r]
      BY <1>2, <2>2, <3>1, <3>2 DEF Owns, Keys
    <3>3. CASE p \in DOMAIN todo[r][1].image
      <4>1. p \in DOMAIN diff[r] /\ diff[r][p] = Whole
        BY <1>4, <1>5, <2>2, <3>3
      <4>2. p \in Needs(r)
        BY <4>1 DEF Needs, Whole
      <4> QED BY <1>2, <2>2, <3>1, <4>2 DEF Owns, Keys
    <3>4. CASE \E n \in DOMAIN todo[r] : n # 1 /\ p \in DOMAIN todo[r][n].image
      <4>1. PICK n \in DOMAIN todo[r] : n # 1 /\ p \in DOMAIN todo[r][n].image
        BY <3>4
      <4>2. n - 1 \in DOMAIN Tail(todo[r]) /\ (n - 1) + 1 = n
        BY <1>5, <4>1
      <4>3. p \in DOMAIN todo'[r][n - 1].image /\ n - 1 \in DOMAIN todo'[r]
        BY <1>2, <1>5, <4>1, <4>2
      <4>4. p \in Keys(r)'
        BY <4>3 DEF Keys
      <4> QED BY <1>2, <2>2, <3>1, <4>4 DEF Owns
    <3> QED BY <3>1, <3>2, <3>3, <3>4 DEF Keys
  <2> QED BY <2>1, <2>2
<1>14. Owning(r)'
  <2>1. \A x \in PlanLines : x[1] \in Plans
    BY DEF PlanLines
  <2>2. ASSUME NEW x, x \in Keys(r)', x \in Plans PROVE Owns(r, x)'
    BY <1>2, <1>12, <1>13, <2>2, WritesUnfold DEF Owning
  <2>3. ASSUME NEW x, x \in Keys(r)', x \in PlanLines PROVE Owns(r, x[1])'
    <3>1. x \in Keys(r) /\ x[1] \in Plans
      BY <1>12, <2>1, <2>3
    <3>2. Owns(r, x[1])
      BY <1>2, <2>3, <3>1, WritesUnfold DEF Owning
    <3> QED BY <1>2, <1>13, <3>1, <3>2 DEF Owns
  <2> QED BY <2>2, <2>3 DEF Owning
<1>15. ASSUME Later PROVE Writes(r)'
  <2>1. Holding(r)'
    BY <1>2, <1>7, <1>10, <1>11, <1>15 DEF Holding
  <2>2. dto[r].kind \notin Debiting \cup {"schedule"} =>
          Len(todo'[r]) <= 1 /\ todo'[r] = << >>
    <3>1. dto[r].kind \notin Debiting \cup {"schedule"} => Len(todo[r]) <= 1
      BY <1>2, WritesUnfold DEF Planned
    <3>2. Len(Tail(todo[r])) = 0 => Tail(todo[r]) = << >>
      BY <1>5, ListedEmpty
    <3> QED BY <1>2, <1>5, <3>1, <3>2
  <2>3. Planned(r)'
    BY <1>2, <1>7, <1>8, <1>9, <1>15, <2>2 DEF Planned
  <2>4. dto[r].kind \in Debiting => r \in inserted
    BY <1>1, <1>2 DEF Request, Writes
  <2> QED BY <1>2, <1>14, <2>1, <2>3, <2>4 DEF Writes, Compared
<1>16. Later => Request(r)'
  BY <1>2, <1>15, SavingKept
<1> QED BY <1>2, <1>3, <1>12, <1>16, QuietBase

-----------------------------------------------------------------------------
(* Matchings and the nightly job write statuses of invoices. *)
LEMMA StatusLater ==
  ASSUME PayablesAssumption, Base, UNCHANGED <<payments, load>>,
         \A s \in Requests : pc[s] # "idle" => pc'[s] # "idle" /\ dto'[s] = dto[s],
         \A x \in Rows : \/ rows'[x] = rows[x]
                         \/ /\ x \in Bills /\ rows'[x] \in Bill
                            /\ rows'[x].net_amount = rows[x].net_amount
                            /\ rows'[x].paid_amount = rows[x].paid_amount
  PROVE  /\ Later /\ RowsKnown'
         /\ \A p \in Plans : rows'[p] = rows[p]
<1>1. \A b : NetChanged(b) => NetChanged(b)'
  BY AskedLater DEF NetChanged
<1>2. \A p \in Plans : rows'[p] = rows[p]
  BY Disjoint
<1>3. \A b \in Bills : rows'[b].net_amount = rows[b].net_amount
  BY Disjoint
<1>4. Later
  BY <1>1, <1>2, <1>3 DEF Later
<1>5. ASSUME NEW x \in Rows PROVE Known(x, rows[x])'
  <2>a. PICK e : e = rows'[x]
    OBVIOUS
  <2>1. Known(x, rows[x])
    BY DEF Base, RowsKnown
  <2>2. CASE e = rows[x]
    BY <1>4, <2>a, <2>1, <2>2, KnownLater
  <2>3. CASE /\ x \in Bills /\ e \in Bill /\ e.net_amount = rows[x].net_amount
             /\ e.paid_amount = rows[x].paid_amount
    <3>1. x \notin Accounts \cup Plans \cup PlanLines
      BY <2>3, Disjoint
    <3>2. Known(x, e)
      BY <2>1, <2>3, <3>1 DEF Known, IsRow
    <3> QED BY <1>4, <2>a, <3>2, KnownLater
  <2> QED BY <2>a, <2>2, <2>3
<1>6. RowsKnown'
  BY <1>2, <1>5 DEF Base, RowsKnown
<1> QED BY <1>2, <1>4, <1>6

LEMMA MatchingBase ==
  ASSUME PayablesAssumption, Base, NEW r \in Requests, BeginMatching(r) \/ ApplyAutoAction(r)
  PROVE  Base'
<1>1. Shape /\ Request(r)
  BY DEF Base
<1>2. /\ pc[r] \in {"reading", "matching"} /\ dto[r].kind \in Matched
      /\ pc' = [pc EXCEPT ![r] = "matching"]
      /\ \E X \in SUBSET DOMAIN view[r] : view' = [view EXCEPT ![r] = [b \in X |-> view[r][b]]]
      /\ UNCHANGED <<dto, todo, diff, pending, payments, draft, inserted, load>>
  <2>1. CASE BeginMatching(r)
    <3>1. view' = [view EXCEPT ![r] = [b \in ToMatch(r) |-> view[r][b]]]
      BY <1>1, <2>1 DEF BeginMatching, Shape
    <3> QED BY <2>1, <3>1 DEF BeginMatching, Handles, ToMatch, ledgerVars
  <2>2. CASE ApplyAutoAction(r)
    <3>1. PICK b \in DOMAIN view[r] : view' = [view EXCEPT ![r] = [c \in DOMAIN @ \ {b} |-> @[c]]]
      BY <2>2 DEF ApplyAutoAction
    <3>2. view' = [view EXCEPT ![r] = [c \in DOMAIN view[r] \ {b} |-> view[r][c]]]
      BY <1>1, <3>1 DEF Shape
    <3>3. pc[r] = "matching" /\ UNCHANGED <<pc, dto, todo, diff, pending, ledgerVars>>
      BY <2>2 DEF ApplyAutoAction
    <3>4. pc' = [pc EXCEPT ![r] = "matching"]
      BY <1>1, <3>3 DEF Shape
    <3> QED BY <1>1, <3>2, <3>3, <3>4 DEF Request, Informed, ledgerVars
  <2> QED BY <2>1, <2>2
<1>3. /\ DOMAIN rows' = Rows
      /\ \A x \in Rows : \/ rows'[x] = rows[x]
                         \/ /\ x \in Bills /\ rows'[x] \in Bill
                            /\ rows'[x].net_amount = rows[x].net_amount
                            /\ rows'[x].paid_amount = rows[x].paid_amount
  <2>1. CASE UNCHANGED rows
    BY <1>1, <2>1 DEF Shape
  <2>2. CASE ~UNCHANGED rows
    <3>1. PICK b \in DOMAIN view[r], status \in {"APPROVED", "DISPUTED"} :
            rows' = [rows EXCEPT ![b].status = status]
      BY <2>2 DEF BeginMatching, ApplyAutoAction
    <3>2. b \in Bills
      BY <1>1, <1>2 DEF Request, Informed, HasRead1
    <3>3. b \in Rows /\ rows[b] \in Bill
      BY <3>2, Disjoint DEF Base, RowsKnown, Known, IsRow
    <3>4. rows'[b] = [rows[b] EXCEPT !.status = status] /\ DOMAIN rows' = Rows
          /\ \A x \in Rows \ {b} : rows'[x] = rows[x]
      BY <1>1, <3>1, <3>3 DEF Shape
    <3>5. /\ rows'[b] \in Bill /\ rows'[b].net_amount = rows[b].net_amount
          /\ rows'[b].paid_amount = rows[b].paid_amount
      BY <3>3, <3>4 DEF Bill, InvoiceStatus
    <3> QED BY <3>2, <3>4, <3>5
  <2> QED BY <2>1, <2>2
<1>4. Shape' /\ Serial' /\ pc'[r] = "matching" /\ \A s \in Requests \ {r} : Still(s)
  BY <1>1, <1>2, <1>3 DEF Shape, Serial, Still, Base
<1>5. Later /\ RowsKnown' /\ \A p \in Plans : rows'[p] = rows[p]
  <2>1. \A s \in Requests : pc[s] # "idle" => pc'[s] # "idle" /\ dto'[s] = dto[s]
    BY <1>2, <1>4 DEF Still
  <2> QED BY <1>2, <1>3, <2>1, StatusLater
<1>6. Request(r)'
  <2>1. Names(r)'
    BY <1>1, <1>2, <1>5, NamesKept DEF Base, Request
  <2>2. Drafted(r)' /\ Writes(r)'
    BY <1>1, <1>2, <1>4 DEF Request, Drafted, Writes
  <2>3. ASSUME NEW x, NEW e, HasRead1(r, x, e) PROVE HasRead1(r, x, e)'
    BY <1>1, <1>2, <1>5, <2>3, HasReadLater DEF Request, Base
  <2>4. \A x \in DOMAIN view'[r] : x \in DOMAIN view[r] /\ view'[r][x] = view[r][x]
    BY <1>1, <1>2 DEF Shape
  <2>5. Informed(r)'
    BY <1>1, <1>2, <1>4, <2>3, <2>4 DEF Request, Informed
  <2> QED BY <2>1, <2>2, <2>5 DEF Request
<1>7. Keys(r)' = Keys(r)
  BY <1>2, KeysKept
<1> QED BY <1>2, <1>4, <1>5, <1>6, <1>7, BaseKept

LEMMA LateRows ==
  ASSUME PayablesAssumption, Base, NEW late, late \subseteq Bills,
         rows' = [x \in DOMAIN rows |-> IF x \in late THEN [rows[x] EXCEPT !.status = "OVERDUE"]
                                        ELSE rows[x]]
  PROVE  /\ DOMAIN rows' = Rows
         /\ \A x \in Rows : \/ rows'[x] = rows[x]
                            \/ /\ x \in late /\ x \in Bills /\ rows'[x] \in Bill
                               /\ rows'[x].status = "OVERDUE"
                               /\ rows'[x].net_amount = rows[x].net_amount
                               /\ rows'[x].paid_amount = rows[x].paid_amount
<1>1. DOMAIN rows = Rows /\ \A x \in Bills : x \in Rows /\ rows[x] \in Bill
  BY Disjoint DEF Base, Shape, RowsKnown, Known, IsRow
<1>2. ASSUME NEW x \in late
      PROVE  /\ x \in Bills /\ rows'[x] \in Bill /\ rows'[x].status = "OVERDUE"
             /\ rows'[x].net_amount = rows[x].net_amount
             /\ rows'[x].paid_amount = rows[x].paid_amount
  <2>1. x \in Rows /\ rows[x] \in Bill /\ rows'[x] = [rows[x] EXCEPT !.status = "OVERDUE"]
    BY <1>1
  <2> QED BY <2>1 DEF Bill, InvoiceStatus
<1> QED BY <1>1, <1>2

LEMMA OverdueIs ==
  ASSUME PayablesAssumption, Base, NEW r \in Requests, MarkOverdue(r)
  PROVE  /\ pc[r] = "reading" /\ dto[r].kind = "overdue" /\ End(r, "done") /\ UNCHANGED ledgerVars
         /\ \E late \in SUBSET Bills :
              /\ \A b \in late : rows[b].status \in {"PENDING", "APPROVED", "PARTIALLY_PAID"}
              /\ \A b \in late : ~LockedByOther(r, b)
              /\ rows' = [x \in DOMAIN rows |-> IF x \in late THEN [rows[x] EXCEPT !.status = "OVERDUE"]
                                                ELSE rows[x]]
<1>1. pc[r] = "reading" /\ dto[r].kind = "overdue" /\ End(r, "done") /\ UNCHANGED ledgerVars
  BY DEF MarkOverdue, Handles
<1>2. dto[r].due \subseteq Bills
  BY <1>1, Validated, DtoFields DEF Base, Request
<1>a. PICK late : late = {b \in dto[r].due : rows[b].status \in {"PENDING", "APPROVED", "PARTIALLY_PAID"}}
  OBVIOUS
<1>3. late \in SUBSET Bills
  BY <1>2, <1>a
<1>4. /\ \A b \in late : ~LockedByOther(r, b)
      /\ rows' = [x \in DOMAIN rows |-> IF x \in late THEN [rows[x] EXCEPT !.status = "OVERDUE"]
                                        ELSE rows[x]]
  BY <1>a DEF MarkOverdue
<1>5. \A b \in late : rows[b].status \in {"PENDING", "APPROVED", "PARTIALLY_PAID"}
  BY <1>a
<1> QED BY <1>1, <1>3, <1>4, <1>5

(* The nightly job and a matching end with nothing written nor drafted. *)
LEMMA DoneBase ==
  ASSUME PayablesAssumption, Base, NEW r \in Requests, MarkOverdue(r) \/ EndMatching(r)
  PROVE  Base'
<1>1. Shape /\ Request(r)
  BY DEF Base
<1>2. /\ pc[r] \in {"reading", "matching"} /\ End(r, "done")
      /\ UNCHANGED <<payments, draft, inserted, load>>
  BY OverdueIs DEF EndMatching, ledgerVars
<1>3. /\ DOMAIN rows' = Rows
      /\ \A x \in Rows : \/ rows'[x] = rows[x]
                         \/ /\ x \in Bills /\ rows'[x] \in Bill
                            /\ rows'[x].net_amount = rows[x].net_amount
                            /\ rows'[x].paid_amount = rows[x].paid_amount
  <2>1. CASE EndMatching(r)
    BY <1>1, <2>1 DEF EndMatching, Shape
  <2>2. CASE MarkOverdue(r)
    BY <2>2, OverdueIs, LateRows
  <2> QED BY <2>1, <2>2
<1>4. Shape' /\ Serial' /\ \A s \in Requests \ {r} : Still(s)
  BY <1>1, <1>2, <1>3, EndIs DEF Shape, Serial, Still, Base
<1>5. Later /\ RowsKnown' /\ \A p \in Plans : rows'[p] = rows[p]
  <2>1. \A s \in Requests : pc[s] # "idle" => pc'[s] # "idle" /\ dto'[s] = dto[s]
    BY <1>1, <1>2, <1>4, EndIs DEF Still
  <2> QED BY <1>2, <1>3, <2>1, StatusLater
<1>6. draft'[r] = {} /\ r \notin inserted'
  BY <1>1, <1>2 DEF Request, Drafted
<1>7. Request(r)' /\ Keys(r)' = {} /\ dto'[r] = dto[r]
  BY <1>1, <1>2, <1>5, <1>6, EndIs, RequestEnded
<1> QED BY <1>2, <1>4, <1>5, <1>7, BaseKept

-----------------------------------------------------------------------------
(* What a handler decides: saves of rows that are its own to write. *)
Ready(r, saves) ==
  /\ Listed(saves)
  /\ \A n \in DOMAIN saves : \A x \in DOMAIN saves[n].image :
       /\ Written(r, x, saves[n].image[x])
       /\ \A m \in DOMAIN saves : x \in DOMAIN saves[m].image => m = n
       /\ x \in Plans => IF dto[r].kind = "schedule" THEN x \in Unused
                         ELSE dto[r].kind \in OfPlan /\ x = dto[r].plan
       /\ x \in PlanLines => IF dto[r].kind = "schedule"
                             THEN /\ x[1] \in Unused
                                  /\ \E m \in DOMAIN saves : x[1] \in DOMAIN saves[m].image
                             ELSE dto[r].kind \in OfPlan /\ x[1] = dto[r].plan
  /\ dto[r].kind \notin Debiting \cup {"schedule"} => Len(saves) <= 1

LEMMA ProceedBase ==
  ASSUME PayablesAssumption, Base, NEW r \in Requests, pc[r] = "reading",
         NEW saves, NEW drafted, Proceed(r, saves), draft' = [draft EXCEPT ![r] = drafted],
         UNCHANGED <<payments, inserted, load>>, Ready(r, saves),
         dto[r].kind \in Debiting => \E p \in drafted : drafted = {p} /\ Drafts(r, p),
         dto[r].kind \notin Debiting => drafted = {}
  PROVE  Base'
<1>1. Shape /\ Request(r) /\ r \notin inserted
  BY DEF Base, Request, Drafted
<1>2. /\ pc' = [pc EXCEPT ![r] = "saving"] /\ todo' = [todo EXCEPT ![r] = saves]
      /\ UNCHANGED <<rows, dto, view, diff, pending>>
  BY DEF Proceed
<1>3. Shape' /\ Serial' /\ \A s \in Requests \ {r} : Still(s)
  BY <1>1, <1>2 DEF Shape, Serial, Still, Base
<1>4. /\ pc'[r] = "saving" /\ todo'[r] = saves /\ draft'[r] = drafted
      /\ DOMAIN pending'[r] = {} /\ DOMAIN diff'[r] = {}
  BY <1>1, <1>2 DEF Shape, Request, Writes
<1>5. Keys(r)' = UNION {DOMAIN saves[n].image : n \in DOMAIN saves}
  BY <1>4 DEF Keys
<1>6. \A p \in Plans : p \in Keys(r)' /\ dto'[r].kind = "schedule" => p \in Unused
  BY <1>2, <1>5 DEF Ready
<1>7. Owning(r)'
  <2>1. ASSUME NEW x, x \in Keys(r)', x \in Plans PROVE Owns(r, x)'
    <3>1. PICK n \in DOMAIN saves : x \in DOMAIN saves[n].image
      BY <1>5, <2>1
    <3>2. IF dto[r].kind = "schedule" THEN x \in Unused ELSE dto[r].kind \in OfPlan /\ x = dto[r].plan
      BY <2>1, <3>1 DEF Ready
    <3>3. x \in Unused => rows[x].status = "ABSENT"
      BY DEF Unused
    <3> QED BY <1>2, <2>1, <3>2, <3>3 DEF Owns
  <2>2. ASSUME NEW x, x \in Keys(r)', x \in PlanLines PROVE Owns(r, x[1])'
    <3>1. PICK n \in DOMAIN saves : x \in DOMAIN saves[n].image
      BY <1>5, <2>2
    <3>2. IF dto[r].kind = "schedule"
          THEN x[1] \in Unused /\ \E m \in DOMAIN saves : x[1] \in DOMAIN saves[m].image
          ELSE dto[r].kind \in OfPlan /\ x[1] = dto[r].plan
      BY <2>2, <3>1 DEF Ready
    <3>3. x[1] \in Unused => rows[x[1]].status = "ABSENT"
      BY DEF Unused
    <3>4. dto[r].kind = "schedule" => x[1] \in Keys(r)'
      BY <1>5, <3>2
    <3> QED BY <1>2, <3>2, <3>3, <3>4 DEF Owns
  <2> QED BY <2>1, <2>2 DEF Owning
<1>8. ASSUME Later PROVE Request(r)'
  <2>1. Names(r)'
    BY <1>1, <1>2, <1>8, NamesKept DEF Base, Request
  <2>2. ASSUME NEW x, NEW e, HasRead1(r, x, e) PROVE HasRead1(r, x, e)'
    BY <1>1, <1>2, <1>8, <2>2, HasReadLater DEF Request, Base
  <2>3. Informed(r)'
    BY <1>1, <1>2, <1>4, <2>2 DEF Request, Informed
  <2>4. NextNumber' = NextNumber /\ NextNumber \in Nat
    BY DEF NextNumber, Numbers, Base, Numbered
  <2>5. ASSUME NEW p, Drafts(r, p) PROVE Drafts(r, p)'
    BY <1>1, <1>2, <1>8, <2>4, <2>5, DraftsLater DEF Base, Request
  <2>6. Drafted(r)'
    BY <1>1, <1>2, <1>4, <2>5 DEF Drafted
  <2>7. ASSUME NEW x, NEW e, Written(r, x, e) PROVE Written(r, x, e)'
    BY <1>1, <1>2, <1>8, <2>7, WrittenLater DEF Base, Request
  <2>8. Once(r)' /\ Listed(todo'[r])
    BY <1>4 DEF Ready, Once
  <2>9. \A n \in DOMAIN todo'[r] : \A x \in DOMAIN todo'[r][n].image :
          Written(r, x, todo'[r][n].image[x])
    BY <1>4 DEF Ready
  <2>10. dto'[r].kind \notin Debiting \cup {"schedule"} => Len(todo'[r]) <= 1
    BY <1>2, <1>4 DEF Ready
  <2>11. Planned(r)'
    BY <1>4, <2>7, <2>8, <2>9, <2>10 DEF Planned
  <2>12. Writes(r)'
    BY <1>4, <1>7, <2>11 DEF Writes, Compared, Holding
  <2> QED BY <2>1, <2>3, <2>6, <2>12 DEF Request
<1>9. pc'[r] # "idle" /\ dto'[r] = dto[r]
  BY <1>2, <1>4
<1> QED BY <1>2, <1>3, <1>6, <1>8, <1>9, QuietBase

LEMMA SaveIs ==
  ASSUME NEW x, NEW e, NEW decimals
  PROVE  /\ DOMAIN Save(x, e, decimals).image = {x}
         /\ Save(x, e, decimals).image[x] = e
         /\ Save(x, e, decimals).decimals = decimals
BY DEF Save

(* What a handler has read by the time it decides. *)
LEMMA HandlerHasRead ==
  ASSUME PayablesAssumption, Base, NEW r \in Requests, NEW kinds, Handles(r, kinds)
  PROVE  /\ pc[r] = "reading" /\ dto[r].kind \in kinds /\ dto[r] \in Dto
         /\ dto[r].kind = "pay" =>
              /\ dto[r].account \in DOMAIN view[r]
              /\ dto[r].bill # NoBill => dto[r].bill \in DOMAIN view[r]
         /\ dto[r].kind = "schedule" => dto[r].bill \in DOMAIN view[r] /\ Plans \subseteq DOMAIN view[r]
         /\ dto[r].kind \in OfPlan =>
              /\ dto[r].plan \in DOMAIN view[r]
              /\ \A m \in Lines : <<dto[r].plan, m>> \in DOMAIN view[r]
         /\ dto[r].kind = "installment" =>
              rows[dto[r].plan].bill \in DOMAIN view[r] /\ dto[r].account \in DOMAIN view[r]
         /\ dto[r].kind \in Revising => dto[r].bill \in DOMAIN view[r]
<1>1. /\ pc[r] = "reading" /\ dto[r].kind \in kinds
      /\ \A n \in 1 .. Len(Reads(dto[r])) : Reads(dto[r])[n] \subseteq DOMAIN view[r]
  BY DEF Handles, HasRead
<1>2. dto[r] \in Dto
  BY <1>1, Validated DEF Base, Request
<1>a. PICK d, V : d = dto[r] /\ V = DOMAIN view[r]
  OBVIOUS
<1>3. \A n \in 1 .. Len(Reads(d)) : Reads(d)[n] \subseteq V
  BY <1>1, <1>a
<1>4. ASSUME d.kind = "pay"
      PROVE  d.account \in V /\ (d.bill # NoBill => d.bill \in V)
  <2>1. CASE d.bill = NoBill
    <3>1. Reads(d) = <<{d.account}>>
      BY <1>4, <2>1, Joined DEF Reads
    <3>2. Reads(d)[1] \subseteq V
      BY <1>3, <3>1
    <3> QED BY <2>1, <3>1, <3>2
  <2>2. CASE d.bill # NoBill
    <3>1. Reads(d) = <<{d.account}, {d.bill}>>
      BY <1>4, <2>2, Joined DEF Reads
    <3>2. Reads(d)[1] \subseteq V /\ Reads(d)[2] \subseteq V
      BY <1>3, <3>1
    <3> QED BY <3>1, <3>2
  <2> QED BY <2>1, <2>2
<1>5. ASSUME d.kind = "schedule"
      PROVE  d.bill \in V /\ Plans \subseteq V
  <2>1. Reads(d) = <<{d.bill}, Plans>>
    BY <1>5 DEF Reads
  <2>2. Reads(d)[1] \subseteq V /\ Reads(d)[2] \subseteq V
    BY <1>3, <2>1
  <2> QED BY <2>1, <2>2
<1>6. ASSUME d.kind \in Answering
      PROVE  d.plan \in V /\ \A m \in Lines : <<d.plan, m>> \in V
  <2>1. Reads(d) = <<{d.plan} \cup ({d.plan} \X Lines)>>
    BY <1>6 DEF Reads
  <2>2. Reads(d)[1] \subseteq V
    BY <1>3, <2>1
  <2> QED BY <2>1, <2>2
<1>7. ASSUME d.kind = "installment"
      PROVE  /\ d.plan \in V /\ rows[d.plan].bill \in V /\ d.account \in V
             /\ \A m \in Lines : <<d.plan, m>> \in V
  <2>1. Reads(d) = <<{d.plan, <<d.plan, d.line>>, rows[d.plan].bill},
                     {d.plan} \X (Lines \ {d.line}), {d.account}>>
    BY <1>7 DEF Reads
  <2>2. Reads(d)[1] \subseteq V /\ Reads(d)[2] \subseteq V /\ Reads(d)[3] \subseteq V
    BY <1>3, <2>1
  <2> QED BY <2>1, <2>2
<1>8. ASSUME d.kind \in Revising
      PROVE  d.bill \in V
  <2>1. Reads(d) = <<{d.bill}>>
    BY <1>8 DEF Reads
  <2>2. Reads(d)[1] \subseteq V
    BY <1>3, <2>1
  <2> QED BY <2>1, <2>2
<1> QED BY <1>a, <1>1, <1>2, <1>4, <1>5, <1>6, <1>7, <1>8

-----------------------------------------------------------------------------
(* Reviews, edits, resolutions and corrections of the paid amount. *)
Revises(kind, bill, e) ==
  /\ kind \notin {"edit", "resolution"} => e.net_amount = bill.net_amount
  /\ kind # "settle" =>
       e.paid_amount = bill.paid_amount /\ bill.status # "PAID" /\ e.status # "PAID"
  /\ kind = "settle" => /\ e.paid_amount \in 0 .. bill.net_amount
                        /\ e.status = "PAID" => e.paid_amount >= e.net_amount

LEMMA ReviseIs ==
  ASSUME PayablesAssumption, Base, NEW r \in Requests,
         Review(r) \/ EditBill(r) \/ Settle(r) \/ Resolve(r), ~Fail(r)
  PROVE  /\ pc[r] = "reading" /\ dto[r].kind \in Revising /\ dto[r].bill \in Bills
         /\ dto[r].bill \in DOMAIN view[r] /\ view[r][dto[r].bill] \in Bill
         /\ \E e \in Bill : \E cols :
              /\ Proceed(r, <<Save(dto[r].bill, e, cols)>>)
              /\ Revises(dto[r].kind, view[r][dto[r].bill], e)
              /\ dto[r].kind = "settle" => "paid_amount" \in cols
         /\ draft' = [draft EXCEPT ![r] = {}] /\ UNCHANGED <<payments, inserted, ledger, load>>
<1>1. Handles(r, Revising)
  BY DEF Review, EditBill, Settle, Resolve, Handles
<1>2. /\ pc[r] = "reading" /\ dto[r].kind \in Revising /\ dto[r] \in Dto
      /\ dto[r].bill \in DOMAIN view[r]
  BY <1>1, HandlerHasRead
<1>3. dto[r].bill \in Bills
  BY <1>2, DtoFields
<1>a. PICK d, b, bill : d = dto[r] /\ b = d.bill /\ bill = view[r][d.bill]
  OBVIOUS
<1>4. bill \in Bill
  BY <1>2, <1>3, <1>a DEF Base, Request, Informed, HasRead1, Known, IsRow
<1>5. draft' = [draft EXCEPT ![r] = {}] /\ UNCHANGED <<payments, inserted, ledger, load>>
  BY DEF Review, EditBill, Settle, Resolve, Decide
<1>6. CASE Review(r)
  <2>a. PICK target, cols : /\ target = (IF d.kind = "dispute" THEN "DISPUTED" ELSE "APPROVED")
                            /\ cols = (IF d.kind = "approve" THEN {"net_amount"} ELSE {})
    OBVIOUS
  <2>1. d.kind \in {"approve", "dispute", "resolve"}
    BY <1>6, <1>a DEF Review, Handles
  <2>2. Reviewable(d.kind, bill) /\ Proceed(r, <<Save(b, [bill EXCEPT !.status = target], cols)>>)
    BY <1>6, <1>a, <2>a DEF Review, Decide
  <2>3. [bill EXCEPT !.status = target] \in Bill
    BY <1>4, <2>a DEF Bill, InvoiceStatus
  <2>4. Revises(d.kind, bill, [bill EXCEPT !.status = target])
    BY <1>4, <2>1, <2>2, <2>a DEF Revises, Bill, Reviewable
  <2> QED BY <1>2, <1>3, <1>4, <1>5, <1>a, <2>1, <2>2, <2>3, <2>4
<1>7. CASE EditBill(r)
  <2>1. d.kind = "edit" /\ d.net \in Nat
    BY <1>2, <1>7, <1>a, DtoFields DEF EditBill, Handles
  <2>2. bill.status = "PENDING" /\ Proceed(r, <<Save(b, [bill EXCEPT !.net_amount = d.net], {"net_amount"})>>)
    BY <1>7, <1>a DEF EditBill, Decide
  <2>3. [bill EXCEPT !.net_amount = d.net] \in Bill
    BY <1>4, <2>1 DEF Bill
  <2>4. Revises(d.kind, bill, [bill EXCEPT !.net_amount = d.net])
    BY <1>4, <2>1, <2>2 DEF Revises, Bill
  <2> QED BY <1>2, <1>3, <1>4, <1>5, <1>a, <2>1, <2>2, <2>3, <2>4
<1>8. CASE Settle(r)
  <2>1. d.kind = "settle" /\ d.paid \in Nat
    BY <1>2, <1>8, <1>a, DtoFields DEF Settle, Handles
  <2>a. PICK status : status = (IF d.paid >= bill.net_amount THEN "PAID"
                                ELSE IF d.paid > 0 THEN "PARTIALLY_PAID" ELSE "APPROVED")
    OBVIOUS
  <2>2. /\ d.paid <= bill.net_amount
        /\ Proceed(r, <<Save(b, [bill EXCEPT !.paid_amount = d.paid, !.status = status], {"paid_amount"})>>)
    BY <1>8, <1>a, <2>a DEF Settle, Decide
  <2>b. status \in InvoiceStatus
    BY <2>a DEF InvoiceStatus
  <2>c. PICK paid : paid = [bill EXCEPT !.paid_amount = d.paid]
    OBVIOUS
  <2>d. paid \in Bill
    BY <1>4, <2>1, <2>c DEF Bill
  <2>3. [bill EXCEPT !.paid_amount = d.paid, !.status = status] \in Bill
    <3>1. [paid EXCEPT !.status = status] \in Bill
      BY <2>b, <2>d DEF Bill
    <3> QED BY <2>c, <3>1, Zenon
  <2>4. Revises(d.kind, bill, [bill EXCEPT !.paid_amount = d.paid, !.status = status])
    BY <1>4, <2>1, <2>2, <2>a DEF Revises, Bill
  <2> QED BY <1>2, <1>3, <1>4, <1>5, <1>a, <2>1, <2>2, <2>3, <2>4
<1>9. CASE Resolve(r)
  <2>1. /\ d.kind = "resolution" /\ d.net \in Nat
        /\ d.action \in {"APPROVE_AS_IS", "CORRECT_AMOUNTS", "REJECT_INVOICE", "NOTE"}
    BY <1>2, <1>9, <1>a, DtoFields DEF Resolve, Handles
  <2>a. PICK e, cols :
          /\ e = [bill EXCEPT
                    !.status = CASE d.action \in {"APPROVE_AS_IS", "CORRECT_AMOUNTS"} -> "APPROVED"
                                 [] d.action = "REJECT_INVOICE" -> "PENDING"
                                 [] d.action = "NOTE" -> @,
                    !.net_amount = IF d.action = "CORRECT_AMOUNTS" THEN d.net ELSE @]
          /\ cols = (IF d.action = "CORRECT_AMOUNTS" THEN {"net_amount"} ELSE {})
    OBVIOUS
  <2>2. bill.status = "DISPUTED" /\ Proceed(r, <<Save(b, e, cols)>>)
    BY <1>9, <1>a, <2>a DEF Resolve, Decide
  <2>3. e \in Bill
    BY <1>4, <2>1, <2>a DEF Bill, InvoiceStatus
  <2>4. Revises(d.kind, bill, e)
    BY <1>4, <2>1, <2>2, <2>a DEF Revises, Bill
  <2> QED BY <1>2, <1>3, <1>4, <1>5, <1>a, <2>1, <2>2, <2>3, <2>4
<1> QED BY <1>6, <1>7, <1>8, <1>9

LEMMA ReadyOfOne ==
  ASSUME PayablesAssumption, NEW r \in Requests, NEW x \in Bills, NEW e, NEW cols, Written(r, x, e)
  PROVE  Ready(r, <<Save(x, e, cols)>>)
<1>a. PICK s : s = <<Save(x, e, cols)>>
  OBVIOUS
<1>1. DOMAIN s = {1} /\ s[1] = Save(x, e, cols) /\ Len(s) = 1 /\ Listed(s)
  BY <1>a, ListedFew, OfLength
<1>2. DOMAIN s[1].image = {x} /\ s[1].image[x] = e
  BY <1>1, SaveIs
<1>3. x \notin Plans /\ x \notin PlanLines
  BY Disjoint
<1> QED BY <1>a, <1>1, <1>2, <1>3 DEF Ready

(* A bill in memory is within what may be known of it. *)
LEMMA BillRead ==
  ASSUME PayablesAssumption, Base, NEW r \in Requests, NEW b \in Bills, b \in DOMAIN view[r]
  PROVE  /\ view[r][b] \in Bill
         /\ ~NetChanged(b) =>
              /\ view[r][b].net_amount = rows[b].net_amount
              /\ PaidInPart(b) \/ view[r][b].paid_amount \in 0 .. view[r][b].net_amount + Tolerance
BY DEF Base, Request, Informed, HasRead1, Known, IsRow

LEMMA ReviseBase ==
  ASSUME PayablesAssumption, Base, NEW r \in Requests,
         Review(r) \/ EditBill(r) \/ Settle(r) \/ Resolve(r), ~Fail(r)
  PROVE  Base'
<1>1. /\ pc[r] = "reading" /\ dto[r].kind \in Revising /\ dto[r].bill \in Bills
      /\ dto[r].bill \in DOMAIN view[r]
      /\ draft' = [draft EXCEPT ![r] = {}] /\ UNCHANGED <<payments, inserted, load>>
  BY ReviseIs
<1>a. PICK b, bill : b = dto[r].bill /\ bill = view[r][b]
  OBVIOUS
<1>2. PICK e, cols : /\ e \in Bill /\ Proceed(r, <<Save(b, e, cols)>>)
                     /\ Revises(dto[r].kind, bill, e)
  BY <1>a, ReviseIs
<1>3. Written(r, b, e)
  <2>1. b \in Rows /\ b \notin Accounts \cup Plans \cup PlanLines
    BY <1>1, <1>a, Disjoint
  <2>2. b = BillOf(r)
    BY <1>1, <1>a DEF BillOf
  <2>3. ASSUME ~NetChanged(b)
        PROVE  /\ e.net_amount = rows[b].net_amount
               /\ PaidInPart(b) \/ e.paid_amount \in 0 .. e.net_amount + Tolerance
    <3>1. /\ bill \in Bill /\ bill.net_amount = rows[b].net_amount
          /\ PaidInPart(b) \/ bill.paid_amount \in 0 .. bill.net_amount + Tolerance
      BY <1>1, <1>a, <2>3, BillRead
    <3>2. dto[r].kind \notin {"edit", "resolution"}
      BY <1>1, <1>a, <2>3 DEF NetChanged, Asked
    <3> QED BY <1>2, <3>1, <3>2 DEF Revises, Bill, Tolerance
  <2> QED BY <1>1, <1>2, <2>1, <2>2, <2>3 DEF Written, IsRow
<1>4. Ready(r, <<Save(b, e, cols)>>)
  BY <1>1, <1>a, <1>3, ReadyOfOne
<1> QED BY <1>1, <1>2, <1>4, ProceedBase

(* Answers to the mail. *)
LEMMA AnswerIs ==
  ASSUME PayablesAssumption, Base, NEW r \in Requests, Answer(r), ~Fail(r)
  PROVE  /\ pc[r] = "reading" /\ dto[r].kind \in Answering /\ dto[r].plan \in Plans
         /\ dto[r].plan \in DOMAIN view[r] /\ \A m \in Lines : <<dto[r].plan, m>> \in DOMAIN view[r]
         /\ view[r][dto[r].plan] \in Schedule /\ view[r][dto[r].plan].status = "PENDING_APPROVAL"
         /\ \E answer \in {"ACTIVE", "REJECTED"} :
              Proceed(r, <<SaveSchedule(r, dto[r].plan, [view[r][dto[r].plan] EXCEPT !.status = answer])>>)
         /\ draft' = [draft EXCEPT ![r] = {}] /\ UNCHANGED <<payments, inserted, ledger, load>>
<1>1. Handles(r, {"accept", "reject"})
  BY DEF Answer
<1>2. /\ pc[r] = "reading" /\ dto[r].kind \in Answering /\ dto[r] \in Dto
      /\ dto[r].plan \in DOMAIN view[r] /\ \A m \in Lines : <<dto[r].plan, m>> \in DOMAIN view[r]
  BY <1>1, HandlerHasRead
<1>3. dto[r].plan \in Plans
  BY <1>2, DtoFields
<1>4. view[r][dto[r].plan] \in Schedule
  BY <1>2, <1>3 DEF Base, Request, Informed, HasRead1, Known, IsRow
<1>a. PICK answer : answer = (IF dto[r].kind = "accept" THEN "ACTIVE" ELSE "REJECTED")
  OBVIOUS
<1>5. /\ view[r][dto[r].plan].status = "PENDING_APPROVAL"
      /\ Proceed(r, <<SaveSchedule(r, dto[r].plan, [view[r][dto[r].plan] EXCEPT !.status = answer])>>)
      /\ draft' = [draft EXCEPT ![r] = {}] /\ UNCHANGED <<payments, inserted, ledger, load>>
  BY <1>a DEF Answer, Decide
<1>6. answer \in {"ACTIVE", "REJECTED"}
  BY <1>a
<1> QED BY <1>2, <1>3, <1>4, <1>5, <1>6

LEMMA ScheduleImage ==
  ASSUME NEW r, NEW p, NEW schedule, \A m \in Lines : <<p, m>> # p
  PROVE  /\ DOMAIN SaveSchedule(r, p, schedule).image = {p} \cup ({p} \X Lines)
         /\ SaveSchedule(r, p, schedule).image[p] = schedule
         /\ \A x \in {p} \X Lines : SaveSchedule(r, p, schedule).image[x] = view[r][x]
         /\ SaveSchedule(r, p, schedule).decimals = {}
<1>1. \A x \in {p} \X Lines : x # p
  OBVIOUS
<1> QED BY <1>1 DEF SaveSchedule

LEMMA AnswerBase ==
  ASSUME PayablesAssumption, Base, NEW r \in Requests, Answer(r), ~Fail(r)
  PROVE  Base'
<1>1. /\ pc[r] = "reading" /\ dto[r].kind \in Answering /\ dto[r].plan \in Plans
      /\ dto[r].plan \in DOMAIN view[r] /\ \A m \in Lines : <<dto[r].plan, m>> \in DOMAIN view[r]
      /\ view[r][dto[r].plan] \in Schedule
      /\ draft' = [draft EXCEPT ![r] = {}] /\ UNCHANGED <<payments, inserted, load>>
  BY AnswerIs
<1>a. PICK p, schedule : p = dto[r].plan /\ schedule = view[r][p]
  OBVIOUS
<1>2. PICK answer \in {"ACTIVE", "REJECTED"} :
        Proceed(r, <<SaveSchedule(r, p, [schedule EXCEPT !.status = answer])>>)
  BY <1>a, AnswerIs
<1>b. PICK e, s : e = [schedule EXCEPT !.status = answer] /\ s = <<SaveSchedule(r, p, e)>>
  OBVIOUS
<1>3. p \in Rows /\ p \notin Accounts \cup Bills \cup PlanLines /\ \A m \in Lines : <<p, m>> \in PlanLines
  BY <1>1, <1>a, Disjoint
<1>4. DOMAIN s = {1} /\ s[1] = SaveSchedule(r, p, e) /\ Len(s) = 1 /\ Listed(s)
  BY <1>b, ListedFew, OfLength
<1>5. /\ DOMAIN s[1].image = {p} \cup ({p} \X Lines) /\ s[1].image[p] = e
      /\ \A x \in {p} \X Lines : s[1].image[x] = view[r][x]
  BY <1>3, <1>4, ScheduleImage
<1>6. Written(r, p, e)
  <2>1. HasRead1(r, p, schedule)
    BY <1>1, <1>a DEF Base, Request, Informed
  <2>2. schedule.bill = rows[p].bill /\ rows[p].bill \in Bills
    <3>1. rows[p].status # "ABSENT"
      BY <1>1, <1>a DEF Base, Request, Names
    <3>2. rows[p].bill \in Bills
      BY <1>1, <1>a, <3>1, PlanRow DEF Base
    <3> QED BY <1>1, <1>a, <2>1, <3>2 DEF HasRead1
  <2>3. e \in Schedule /\ e.status # "ABSENT" /\ e.bill = schedule.bill
    BY <1>1, <1>a, <1>b DEF Schedule, ScheduleStatus
  <2> QED BY <1>1, <1>3, <1>a, <2>2, <2>3 DEF Written, IsRow
<1>7. ASSUME NEW x \in {p} \X Lines PROVE Written(r, x, view[r][x]) /\ x \in PlanLines /\ x[1] = p
  <2>1. x \in PlanLines /\ x[1] = p /\ x \in DOMAIN view[r]
    BY <1>1, <1>3, <1>a
  <2>2. x \in Rows /\ x \notin Accounts \cup Bills \cup Plans
    BY <2>1, Disjoint
  <2>3. Known(x, view[r][x])
    BY <2>1 DEF Base, Request, Informed, HasRead1
  <2> QED BY <1>1, <2>1, <2>2, <2>3 DEF Written, Known
<1>8. Ready(r, s)
  <2>1. ASSUME NEW x \in DOMAIN s[1].image
        PROVE  /\ Written(r, x, s[1].image[x])
               /\ x \in Plans => x = dto[r].plan
               /\ x \in PlanLines => x[1] = dto[r].plan
    <3>1. CASE x = p
      BY <1>3, <1>5, <1>6, <1>a, <3>1
    <3>2. CASE x \in {p} \X Lines
      BY <1>5, <1>7, <1>a, <3>2, Disjoint
    <3> QED BY <1>5, <3>1, <3>2
  <2> QED BY <1>1, <1>4, <2>1 DEF Ready
<1> QED BY <1>1, <1>2, <1>8, <1>b, ProceedBase

-----------------------------------------------------------------------------
(* A new schedule and its installments. *)
NewSchedule(r, p) ==
  <<Save(p, [status |-> "PENDING_APPROVAL", bill |-> dto[r].bill], {}),
    [image |-> [x \in {p} \X Lines |-> [status |-> "PENDING", amount |-> dto[r].amounts[x[2]]]],
     decimals |-> {}]>>

LEMMA CreateIs ==
  ASSUME PayablesAssumption, Base, NEW r \in Requests, CreateSchedule(r), ~Fail(r)
  PROVE  /\ pc[r] = "reading" /\ dto[r].kind = "schedule" /\ dto[r].bill \in Bills
         /\ dto[r].amounts \in [Lines -> Nat]
         /\ Plans \subseteq DOMAIN view[r] /\ Scheduled(r) = {}
         /\ \E p \in Unused : Proceed(r, NewSchedule(r, p))
         /\ draft' = [draft EXCEPT ![r] = {}] /\ UNCHANGED <<payments, inserted, ledger, load>>
<1>1. Handles(r, {"schedule"})
  BY DEF CreateSchedule
<1>2. /\ pc[r] = "reading" /\ dto[r].kind = "schedule" /\ dto[r] \in Dto
      /\ Plans \subseteq DOMAIN view[r]
  BY <1>1, HandlerHasRead
<1>3. dto[r].bill \in Bills /\ dto[r].amounts \in [Lines -> Nat]
  BY <1>2, DtoFields
<1>4. PICK p \in Unused :
        /\ Scheduled(r) = {} /\ Proceed(r, NewSchedule(r, p))
        /\ draft' = [draft EXCEPT ![r] = {}] /\ UNCHANGED <<payments, inserted, ledger, load>>
  BY DEF CreateSchedule, Decide, NewSchedule
<1> QED BY <1>2, <1>3, <1>4

LEMMA NewScheduleIs ==
  ASSUME NEW r, NEW p, NEW s, s = NewSchedule(r, p)
  PROVE  /\ DOMAIN s = {1, 2} /\ Listed(s)
         /\ DOMAIN s[1].image = {p} /\ DOMAIN s[2].image = {p} \X Lines
         /\ s[1].image[p] = [status |-> "PENDING_APPROVAL", bill |-> dto[r].bill]
         /\ \A x \in {p} \X Lines : s[2].image[x] = [status |-> "PENDING", amount |-> dto[r].amounts[x[2]]]
         /\ s[1].decimals = {} /\ s[2].decimals = {}
<1>a. PICK one, two :
        /\ one = Save(p, [status |-> "PENDING_APPROVAL", bill |-> dto[r].bill], {})
        /\ two = [image |-> [x \in {p} \X Lines |-> [status |-> "PENDING", amount |-> dto[r].amounts[x[2]]]],
                  decimals |-> {}]
  OBVIOUS
<1>1. s = <<one, two>>
  BY <1>a DEF NewSchedule
<1>2. DOMAIN s = {1, 2} /\ Listed(s) /\ s[1] = one /\ s[2] = two
  <2>1. Listed(<<one, two>>)
    BY ListedFew
  <2>2. DOMAIN <<one, two>> = {1, 2} /\ <<one, two>>[1] = one /\ <<one, two>>[2] = two
    BY OfLength
  <2> QED BY <1>1, <2>1, <2>2
<1>b. PICK new : new = [status |-> "PENDING_APPROVAL", bill |-> dto[r].bill]
  OBVIOUS
<1>3. DOMAIN one.image = {p} /\ one.decimals = {} /\ one.image[p] = new
  <2>1. one = Save(p, new, {})
    BY <1>a, <1>b
  <2> QED BY <2>1, SaveIs
<1>c. PICK lines :
        lines = [x \in {p} \X Lines |-> [status |-> "PENDING", amount |-> dto[r].amounts[x[2]]]]
  OBVIOUS
<1>d. two = [image |-> lines, decimals |-> {}]
  BY <1>a, <1>c
<1>4. /\ DOMAIN two.image = {p} \X Lines /\ two.decimals = {}
      /\ \A x \in {p} \X Lines : two.image[x] = [status |-> "PENDING", amount |-> dto[r].amounts[x[2]]]
  <2>1. two.image = lines /\ two.decimals = {}
    BY <1>d
  <2>2. DOMAIN lines = {p} \X Lines
    BY <1>c
  <2>3. \A x \in {p} \X Lines : lines[x] = [status |-> "PENDING", amount |-> dto[r].amounts[x[2]]]
    BY <1>c, Zenon
  <2> QED BY <2>1, <2>2, <2>3
<1> QED BY <1>2, <1>3, <1>4, <1>b

LEMMA NewScheduleRows ==
  ASSUME NEW r, NEW p
  PROVE  /\ DOMAIN NewSchedule(r, p) = {1, 2}
         /\ DOMAIN NewSchedule(r, p)[1].image = {p} /\ DOMAIN NewSchedule(r, p)[2].image = {p} \X Lines
<1>a. PICK s : s = NewSchedule(r, p)
  OBVIOUS
<1>1. /\ DOMAIN s = {1, 2} /\ Listed(s)
      /\ DOMAIN s[1].image = {p} /\ DOMAIN s[2].image = {p} \X Lines
      /\ s[1].image[p] = [status |-> "PENDING_APPROVAL", bill |-> dto[r].bill]
      /\ \A x \in {p} \X Lines : s[2].image[x] = [status |-> "PENDING", amount |-> dto[r].amounts[x[2]]]
      /\ s[1].decimals = {} /\ s[2].decimals = {}
  BY <1>a, NewScheduleIs
<1> QED BY <1>a, <1>1

LEMMA CreateBase ==
  ASSUME PayablesAssumption, Base, NEW r \in Requests, CreateSchedule(r), ~Fail(r)
  PROVE  Base'
<1>1. /\ pc[r] = "reading" /\ dto[r].kind = "schedule" /\ dto[r].bill \in Bills
      /\ dto[r].amounts \in [Lines -> Nat]
      /\ draft' = [draft EXCEPT ![r] = {}] /\ UNCHANGED <<payments, inserted, load>>
  BY CreateIs
<1>2. PICK p \in Unused : Proceed(r, NewSchedule(r, p))
  BY CreateIs
<1>a. PICK s : s = NewSchedule(r, p)
  OBVIOUS
<1>3. /\ DOMAIN s = {1, 2} /\ Listed(s)
      /\ DOMAIN s[1].image = {p} /\ DOMAIN s[2].image = {p} \X Lines
      /\ s[1].image[p] = [status |-> "PENDING_APPROVAL", bill |-> dto[r].bill]
      /\ \A x \in {p} \X Lines : s[2].image[x] = [status |-> "PENDING", amount |-> dto[r].amounts[x[2]]]
  BY <1>a, NewScheduleIs
<1>4. p \in Plans
  BY DEF Unused
<1>5. p \in Rows /\ p \notin Accounts \cup Bills \cup PlanLines
  BY <1>4, Disjoint
<1>6. Written(r, p, s[1].image[p])
  <2>1. s[1].image[p] \in Schedule
    BY <1>1, <1>3 DEF Schedule, ScheduleStatus
  <2> QED BY <1>1, <1>3, <1>5, <2>1 DEF Written, IsRow
<1>7. ASSUME NEW x \in {p} \X Lines
      PROVE  Written(r, x, s[2].image[x]) /\ x[1] = p /\ x # p /\ x \in PlanLines /\ x \notin Plans
  <2>1. x \in PlanLines /\ x[1] = p /\ x[2] \in Lines
    BY <1>4, Disjoint
  <2>2. x \in Rows /\ x \notin Accounts \cup Bills \cup Plans
    BY <2>1, Disjoint
  <2>a. PICK amount : amount = dto[r].amounts[x[2]]
    OBVIOUS
  <2>b. amount \in Nat /\ s[2].image[x] = [status |-> "PENDING", amount |-> amount]
    <3>1. amount \in Nat
      BY <1>1, <2>1, <2>a
    <3> QED BY <1>3, <2>a, <3>1
  <2>3. s[2].image[x] \in Installment /\ s[2].image[x].status # "PAID"
    BY <2>b DEF Installment, InstallmentStatus
  <2> QED BY <1>1, <1>4, <2>1, <2>2, <2>3 DEF Written, IsRow
<1>8. Ready(r, s)
  <2>1. ASSUME NEW n \in DOMAIN s, NEW x \in DOMAIN s[n].image
        PROVE  /\ Written(r, x, s[n].image[x])
               /\ \A m \in DOMAIN s : x \in DOMAIN s[m].image => m = n
               /\ x \in Plans => x \in Unused
               /\ x \in PlanLines => x[1] \in Unused /\ \E m \in DOMAIN s : x[1] \in DOMAIN s[m].image
    <3>1. CASE n = 1
      <4>1. x = p
        BY <1>3, <3>1
      <4>2. x \notin DOMAIN s[2].image /\ x \notin PlanLines
        BY <1>3, <1>5, <1>7, <4>1
      <4> QED BY <1>3, <1>6, <3>1, <4>1, <4>2
    <3>2. CASE n = 2
      <4>1. x \in {p} \X Lines
        BY <1>3, <3>2
      <4>2. Written(r, x, s[2].image[x]) /\ x[1] = p /\ x # p /\ x \notin Plans
        BY <1>7, <4>1
      <4>3. x \notin DOMAIN s[1].image
        BY <1>3, <4>2
      <4> QED BY <1>3, <3>2, <4>2, <4>3
    <3> QED BY <1>3, <3>1, <3>2
  <2> QED BY <1>1, <1>3, <2>1 DEF Ready
<1> QED BY <1>1, <1>2, <1>8, <1>a, ProceedBase

-----------------------------------------------------------------------------
(* Supplier payments. *)
Paying(r) ==
  IF dto[r].bill = NoBill THEN << >>
  ELSE <<Save(dto[r].bill, WithPayment(view[r][dto[r].bill], dto[r].amount), {"paid_amount"})>>
Debited(r, a, amount) == [view[r][a] EXCEPT !.current_balance = @ - amount]

LEMMA PayIs ==
  ASSUME PayablesAssumption, Base, NEW r \in Requests, PaySupplier(r), ~Fail(r)
  PROVE  /\ pc[r] = "reading" /\ dto[r].kind = "pay" /\ dto[r].amount \in Nat
         /\ dto[r].account \in Accounts /\ dto[r].account \in DOMAIN view[r]
         /\ dto[r].bill # NoBill =>
              /\ dto[r].bill \in Bills /\ dto[r].bill \in DOMAIN view[r]
              /\ view[r][dto[r].bill].status \in {"APPROVED", "PARTIALLY_PAID", "OVERDUE", "DISPUTED"}
              /\ WithinRemaining(view[r][dto[r].bill], dto[r].amount)
         /\ Proceed(r, Paying(r) \o
                       <<Save(dto[r].account, Debited(r, dto[r].account, dto[r].amount), {"current_balance"})>>)
         /\ draft' = [draft EXCEPT ![r] = {Payment(r, NextNumber, dto[r].bill, dto[r].amount, << >>)}]
         /\ UNCHANGED <<payments, inserted, ledger, load>>
<1>1. Handles(r, {"pay"})
  BY DEF PaySupplier
<1>2. /\ pc[r] = "reading" /\ dto[r].kind = "pay" /\ dto[r] \in Dto
      /\ dto[r].account \in DOMAIN view[r]
      /\ dto[r].bill # NoBill => dto[r].bill \in DOMAIN view[r]
  BY <1>1, HandlerHasRead
<1>3. /\ dto[r].amount \in Nat /\ dto[r].account \in Accounts
      /\ dto[r].bill # NoBill => dto[r].bill \in Bills
  BY <1>2, DtoFields
<1>4. /\ dto[r].bill # NoBill =>
           /\ view[r][dto[r].bill].status \in {"APPROVED", "PARTIALLY_PAID", "OVERDUE", "DISPUTED"}
           /\ WithinRemaining(view[r][dto[r].bill], dto[r].amount)
      /\ draft' = [draft EXCEPT ![r] = {Payment(r, NextNumber, dto[r].bill, dto[r].amount, << >>)}]
      /\ UNCHANGED <<payments, inserted, ledger, load>>
  BY DEF PaySupplier, Decide
<1>5. Proceed(r, Paying(r) \o
                 <<Save(dto[r].account, Debited(r, dto[r].account, dto[r].amount), {"current_balance"})>>)
  BY DEF PaySupplier, Decide, Paying, Debit, Debited
<1> QED BY <1>2, <1>3, <1>4, <1>5

LEMMA AccountWritten ==
  ASSUME PayablesAssumption, Base, NEW r \in Requests, dto[r].kind \in Debiting,
         NEW a \in Accounts, a \in DOMAIN view[r], NEW amount \in Nat
  PROVE  Written(r, a, Debited(r, a, amount))
<1>1. view[r][a] \in Account
  BY DEF Base, Request, Informed, HasRead1, Known, IsRow
<1>2. Debited(r, a, amount) \in Account
  BY <1>1 DEF Debited, Account
<1>3. a \in Rows /\ a \notin Bills \cup Plans \cup PlanLines
  BY Disjoint
<1> QED BY <1>2, <1>3 DEF Written, IsRow

LEMMA WithPaymentIs ==
  ASSUME NEW bill \in Bill, NEW amount \in Nat
  PROVE  /\ WithPayment(bill, amount) \in Bill
         /\ WithPayment(bill, amount).paid_amount = bill.paid_amount + amount
         /\ WithPayment(bill, amount).net_amount = bill.net_amount
         /\ WithPayment(bill, amount).status =
              IF bill.paid_amount + amount >= bill.net_amount - Tolerance THEN "PAID" ELSE "PARTIALLY_PAID"
<1>a. PICK paid, status, b2 :
        /\ paid = bill.paid_amount + amount
        /\ status = (IF paid >= bill.net_amount - Tolerance THEN "PAID" ELSE "PARTIALLY_PAID")
        /\ b2 = [bill EXCEPT !.paid_amount = paid]
  OBVIOUS
<1>1. status \in InvoiceStatus /\ paid \in Int
  BY <1>a DEF InvoiceStatus, Bill
<1>2. b2 \in Bill /\ b2.paid_amount = paid /\ b2.net_amount = bill.net_amount
  BY <1>a, <1>1 DEF Bill
<1>3. WithPayment(bill, amount) = [b2 EXCEPT !.status = status]
  BY <1>a DEF WithPayment
<1>4. /\ [b2 EXCEPT !.status = status] \in Bill
      /\ [b2 EXCEPT !.status = status].paid_amount = paid
      /\ [b2 EXCEPT !.status = status].net_amount = bill.net_amount
      /\ [b2 EXCEPT !.status = status].status = status
  BY <1>1, <1>2 DEF Bill
<1> QED BY <1>a, <1>3, <1>4

LEMMA PayBase ==
  ASSUME PayablesAssumption, Base, NEW r \in Requests, PaySupplier(r), ~Fail(r)
  PROVE  Base'
<1>a. PICK d, a, b, amount, paid, debited, debits, p, s :
        /\ d = dto[r] /\ a = d.account /\ b = d.bill /\ amount = d.amount
        /\ paid = WithPayment(view[r][b], amount) /\ debited = Debited(r, a, amount)
        /\ debits = Save(a, debited, {"current_balance"})
        /\ p = Payment(r, NextNumber, b, amount, << >>)
        /\ s = Paying(r) \o <<debits>>
  OBVIOUS
<1>1. /\ pc[r] = "reading" /\ dto[r].kind = "pay" /\ amount \in Nat
      /\ a \in Accounts /\ a \in DOMAIN view[r]
      /\ b # NoBill => /\ b \in Bills /\ b \in DOMAIN view[r]
                       /\ WithinRemaining(view[r][b], amount)
      /\ Proceed(r, s)
      /\ draft' = [draft EXCEPT ![r] = {p}] /\ UNCHANGED <<payments, inserted, load>>
  BY <1>a, PayIs
<1>2. Written(r, a, debited) /\ a \notin Bills \cup Plans \cup PlanLines
  BY <1>1, <1>a, AccountWritten, Disjoint
<1>3. ASSUME b # NoBill PROVE Written(r, b, paid)
  <2>a. PICK bill : bill = view[r][b]
    OBVIOUS
  <2>1. b \in Rows /\ b \notin Accounts \cup Plans \cup PlanLines
    BY <1>1, <1>3, Disjoint
  <2>2. bill \in Bill
    BY <1>1, <1>3, <2>a, BillRead
  <2>3. paid \in Bill /\ paid.paid_amount = bill.paid_amount + amount /\ paid.net_amount = bill.net_amount
    BY <1>1, <1>a, <2>a, <2>2, WithPaymentIs
  <2>4. ASSUME ~NetChanged(b)
        PROVE  /\ paid.net_amount = rows[b].net_amount
               /\ PaidInPart(b) \/ paid.paid_amount \in 0 .. paid.net_amount + Tolerance
    <3>1. /\ bill.net_amount = rows[b].net_amount
          /\ PaidInPart(b) \/ bill.paid_amount \in 0 .. bill.net_amount + Tolerance
      BY <1>1, <1>3, <2>a, <2>4, BillRead
    <3>2. amount <= bill.net_amount - bill.paid_amount + Tolerance
      BY <1>1, <1>3, <2>a DEF WithinRemaining
    <3> QED BY <1>1, <2>2, <2>3, <3>1, <3>2 DEF Bill, Tolerance
  <2>5. b = BillOf(r)
    BY <1>1, <1>a DEF BillOf
  <2> QED BY <1>1, <1>3, <2>1, <2>3, <2>4, <2>5 DEF Written, IsRow
<1>4. Drafts(r, p)
  <2>1. p.number = NextNumber /\ p.bill = b /\ p.amount = amount /\ p.line = << >>
    BY <1>a DEF Payment
  <2>2. NextNumber \in 1 .. NextNumber
    BY DEF Base, Numbered
  <2> QED BY <1>1, <1>a, <2>1, <2>2 DEF Drafts
<1>5. Ready(r, s)
  <2>1. CASE b = NoBill
    <3>1. s = <<debits>>
      BY <1>a, <2>1, Joined DEF Paying
    <3>2. DOMAIN s = {1} /\ s[1] = debits /\ Listed(s)
      BY <3>1, ListedFew, OfLength
    <3>3. DOMAIN s[1].image = {a} /\ s[1].image[a] = debited
      BY <1>a, <3>2, SaveIs
    <3> QED BY <1>1, <1>2, <3>2, <3>3 DEF Ready
  <2>2. CASE b # NoBill
    <3>1. s = <<Save(b, paid, {"paid_amount"}), debits>>
      BY <1>a, <2>2, Joined DEF Paying
    <3>2. DOMAIN s = {1, 2} /\ s[1] = Save(b, paid, {"paid_amount"}) /\ s[2] = debits /\ Listed(s)
      BY <3>1, ListedFew, OfLength
    <3>3. /\ DOMAIN s[1].image = {b} /\ s[1].image[b] = paid
          /\ DOMAIN s[2].image = {a} /\ s[2].image[a] = debited
      BY <1>a, <3>2, SaveIs
    <3>4. b # a /\ b \notin Plans \cup PlanLines
      BY <1>1, <2>2, Disjoint
    <3> QED BY <1>1, <1>2, <1>3, <2>2, <3>2, <3>3, <3>4 DEF Ready
  <2> QED BY <2>1, <2>2
<1>6. \E q \in {p} : {p} = {q} /\ Drafts(r, q)
  BY <1>4
<1> QED BY <1>1, <1>5, <1>6, ProceedBase

-----------------------------------------------------------------------------
(* Payments of installments. *)
PaidOff(r, x) == [view[r][x] EXCEPT !.status = "PAID"]
Paying3(r, x, a, b, amount) ==
  <<Save(x, PaidOff(r, x), {}),
    Save(a, Debited(r, a, amount), {"current_balance"}),
    Save(b, WithPayment(view[r][b], amount), {"paid_amount"})>>

LEMMA InstallmentIs ==
  ASSUME PayablesAssumption, Base, NEW r \in Requests, PayInstallment(r), ~Fail(r),
         NEW p, NEW x, NEW a, NEW b, NEW amount,
         p = dto[r].plan, x = <<p, dto[r].line>>, a = dto[r].account, b = rows[p].bill,
         amount = view[r][x].amount
  PROVE  /\ pc[r] = "reading" /\ dto[r].kind = "installment"
         /\ p \in Plans /\ dto[r].line \in Lines /\ x \in PlanLines /\ a \in Accounts /\ b \in Bills
         /\ p \in DOMAIN view[r] /\ a \in DOMAIN view[r] /\ b \in DOMAIN view[r]
         /\ x \in DOMAIN view[r]
         /\ view[r][p].bill = b /\ amount \in Nat /\ view[r][x] \in Installment
         /\ view[r][p].status = "ACTIVE" /\ view[r][x].status # "PAID"
         /\ \A m \in 1 .. dto[r].line - 1 :
              <<p, m>> \in DOMAIN view[r] /\ <<p, m>> \in PlanLines /\ view[r][<<p, m>>].status = "PAID"
         /\ Proceed(r, Paying3(r, x, a, b, amount))
         /\ draft' = [draft EXCEPT ![r] = {Payment(r, NextNumber, b, amount, x)}]
         /\ UNCHANGED <<payments, inserted, ledger, load>>
<1>1. Handles(r, {"installment"})
  BY DEF PayInstallment
<1>2. /\ pc[r] = "reading" /\ dto[r].kind = "installment" /\ dto[r] \in Dto
      /\ p \in DOMAIN view[r] /\ a \in DOMAIN view[r] /\ b \in DOMAIN view[r]
      /\ \A m \in Lines : <<p, m>> \in DOMAIN view[r]
  BY <1>1, HandlerHasRead
<1>3. p \in Plans /\ dto[r].line \in Lines /\ a \in Accounts
  BY <1>2, DtoFields
<1>4. x \in PlanLines /\ x \in DOMAIN view[r] /\ \A m \in Lines : <<p, m>> \in PlanLines
  BY <1>2, <1>3, Disjoint
<1>5. b \in Bills
  <2>1. rows[p].status # "ABSENT"
    BY <1>2 DEF Base, Request, Names
  <2> QED BY <1>3, <2>1, PlanRow DEF Base
<1>6. view[r][p].bill = b
  BY <1>2, <1>3 DEF Base, Request, Informed, HasRead1
<1>7. view[r][x] \in Installment /\ amount \in Nat
  <2>1. view[r][x] \in Installment
    BY <1>4 DEF Base, Request, Informed, HasRead1, Known, IsRow
  <2> QED BY <2>1 DEF Installment
<1>8. /\ Due(view[r][p], view[r][x]) /\ EarlierPaid(r, p, dto[r].line)
      /\ draft' = [draft EXCEPT ![r] = {Payment(r, NextNumber, view[r][p].bill, amount, x)}]
      /\ UNCHANGED <<payments, inserted, ledger, load>>
  BY DEF PayInstallment, Decide
<1>9. Proceed(r, <<Save(x, [view[r][x] EXCEPT !.status = "PAID"], {}),
                   Debit(a, view[r][a], amount),
                   Save(view[r][p].bill, WithPayment(view[r][view[r][p].bill], amount), {"paid_amount"})>>)
  BY DEF PayInstallment, Decide
<1>10. Proceed(r, Paying3(r, x, a, b, amount))
  BY <1>6, <1>9 DEF Paying3, PaidOff, Debit, Debited
<1>11. \A m \in 1 .. dto[r].line - 1 :
         <<p, m>> \in DOMAIN view[r] /\ <<p, m>> \in PlanLines /\ view[r][<<p, m>>].status = "PAID"
  <2>1. \A m \in 1 .. dto[r].line - 1 : m \in Lines
    BY <1>3 DEF Lines
  <2> QED BY <1>2, <1>4, <1>8, <2>1 DEF EarlierPaid
<1> QED BY <1>2, <1>3, <1>4, <1>5, <1>6, <1>7, <1>8, <1>10, <1>11 DEF Due

LEMMA Paying3Is ==
  ASSUME NEW r, NEW x, NEW a, NEW b, NEW amount, NEW s, s = Paying3(r, x, a, b, amount)
  PROVE  /\ DOMAIN s = {1, 2, 3} /\ Listed(s)
         /\ DOMAIN s[1].image = {x} /\ s[1].image[x] = PaidOff(r, x) /\ s[1].decimals = {}
         /\ DOMAIN s[2].image = {a} /\ s[2].image[a] = Debited(r, a, amount)
         /\ s[2].decimals = {"current_balance"}
         /\ DOMAIN s[3].image = {b} /\ s[3].image[b] = WithPayment(view[r][b], amount)
         /\ s[3].decimals = {"paid_amount"}
<1>a. PICK off, debited, paid :
        off = PaidOff(r, x) /\ debited = Debited(r, a, amount) /\ paid = WithPayment(view[r][b], amount)
  OBVIOUS
<1>b. PICK s1, s2, s3 : /\ s1 = Save(x, off, {}) /\ s2 = Save(a, debited, {"current_balance"})
                        /\ s3 = Save(b, paid, {"paid_amount"})
  OBVIOUS
<1>1. s = <<s1, s2, s3>>
  BY <1>a, <1>b DEF Paying3
<1>2. Listed(<<s1, s2, s3>>)
  BY ListedFew
<1>3. /\ DOMAIN <<s1, s2, s3>> = {1, 2, 3}
      /\ <<s1, s2, s3>>[1] = s1 /\ <<s1, s2, s3>>[2] = s2 /\ <<s1, s2, s3>>[3] = s3
  BY OfLength
<1>4. /\ DOMAIN s1.image = {x} /\ s1.image[x] = off /\ s1.decimals = {}
      /\ DOMAIN s2.image = {a} /\ s2.image[a] = debited /\ s2.decimals = {"current_balance"}
      /\ DOMAIN s3.image = {b} /\ s3.image[b] = paid /\ s3.decimals = {"paid_amount"}
  BY <1>b, SaveIs
<1> QED BY <1>a, <1>1, <1>2, <1>3, <1>4

LEMMA InstallmentBase ==
  ASSUME PayablesAssumption, Base, NEW r \in Requests, PayInstallment(r), ~Fail(r)
  PROVE  Base'
<1>a. PICK p, x, a, b, amount :
        /\ p = dto[r].plan /\ x = <<p, dto[r].line>> /\ a = dto[r].account /\ b = rows[p].bill
        /\ amount = view[r][x].amount
  OBVIOUS
<1>b. PICK off, debited, paid, s, due :
        /\ off = PaidOff(r, x) /\ debited = Debited(r, a, amount)
        /\ paid = WithPayment(view[r][b], amount) /\ s = Paying3(r, x, a, b, amount)
        /\ due = Payment(r, NextNumber, b, amount, x)
  OBVIOUS
<1>1. /\ pc[r] = "reading" /\ dto[r].kind = "installment"
      /\ p \in Plans /\ dto[r].line \in Lines /\ x \in PlanLines /\ a \in Accounts /\ b \in Bills
      /\ a \in DOMAIN view[r] /\ b \in DOMAIN view[r] /\ x \in DOMAIN view[r]
      /\ amount \in Nat /\ view[r][x] \in Installment
      /\ \A m \in 1 .. dto[r].line - 1 :
           <<p, m>> \in DOMAIN view[r] /\ <<p, m>> \in PlanLines /\ view[r][<<p, m>>].status = "PAID"
      /\ Proceed(r, s)
      /\ draft' = [draft EXCEPT ![r] = {due}]
      /\ UNCHANGED <<payments, inserted, load>>
  <2>1. /\ p = dto[r].plan /\ x = <<p, dto[r].line>> /\ a = dto[r].account /\ b = rows[p].bill
        /\ amount = view[r][x].amount
    BY <1>a
  <2>2. Proceed(r, Paying3(r, x, a, b, amount))
    BY <2>1, InstallmentIs
  <2>3. draft' = [draft EXCEPT ![r] = {Payment(r, NextNumber, b, amount, x)}]
    BY <2>1, InstallmentIs
  <2>4. /\ pc[r] = "reading" /\ dto[r].kind = "installment"
        /\ p \in Plans /\ dto[r].line \in Lines /\ x \in PlanLines /\ a \in Accounts /\ b \in Bills
        /\ a \in DOMAIN view[r] /\ b \in DOMAIN view[r] /\ x \in DOMAIN view[r]
        /\ amount \in Nat /\ view[r][x] \in Installment
        /\ UNCHANGED <<payments, inserted, load>>
    BY <2>1, InstallmentIs
  <2>5. \A m \in 1 .. dto[r].line - 1 :
          <<p, m>> \in DOMAIN view[r] /\ <<p, m>> \in PlanLines /\ view[r][<<p, m>>].status = "PAID"
    BY <2>1, InstallmentIs
  <2> QED BY <1>b, <2>2, <2>3, <2>4, <2>5
<1>2. /\ DOMAIN s = {1, 2, 3} /\ Listed(s)
      /\ DOMAIN s[1].image = {x} /\ s[1].image[x] = off
      /\ DOMAIN s[2].image = {a} /\ s[2].image[a] = debited
      /\ DOMAIN s[3].image = {b} /\ s[3].image[b] = paid
  BY <1>b, Paying3Is
<1>3. Written(r, a, debited) /\ a \notin Bills \cup Plans \cup PlanLines
  BY <1>1, <1>b, AccountWritten, Disjoint
<1>4. x \in Rows /\ x \notin Accounts \cup Bills \cup Plans /\ x[1] = p
  BY <1>1, <1>a, Disjoint
<1>5. Written(r, x, off)
  <2>1. off \in Installment
    BY <1>1, <1>b DEF PaidOff, Installment, InstallmentStatus
  <2> QED BY <1>1, <1>4, <1>a, <2>1 DEF Written, IsRow
<1>6. Written(r, b, paid) /\ b \notin Accounts \cup Plans \cup PlanLines
  <2>a. PICK bill : bill = view[r][b]
    OBVIOUS
  <2>1. b \in Rows /\ b \notin Accounts \cup Plans \cup PlanLines
    BY <1>1, Disjoint
  <2>2. bill \in Bill /\ (~NetChanged(b) => bill.net_amount = rows[b].net_amount)
    BY <1>1, <2>a, BillRead
  <2>3. paid \in Bill /\ paid.net_amount = bill.net_amount
    BY <1>1, <1>b, <2>a, <2>2, WithPaymentIs
  <2>4. b = BillOf(r)
    BY <1>1, <1>a DEF BillOf
  <2> QED BY <1>1, <2>1, <2>2, <2>3, <2>4 DEF Written, IsRow
<1>7. Drafts(r, due)
  <2>1. due.number = NextNumber /\ due.bill = b /\ due.amount = amount /\ due.line = x
    BY <1>b DEF Payment
  <2>2. NextNumber \in 1 .. NextNumber
    BY DEF Base, Numbered
  <2>3. ASSUME NEW m \in 1 .. dto[r].line - 1 PROVE Paid(<<p, m>>)
    <3>1. HasRead1(r, <<p, m>>, view[r][<<p, m>>])
      BY <1>1 DEF Base, Request, Informed
    <3> QED BY <1>1, <3>1 DEF HasRead1, Known
  <2>4. r \notin inserted
    BY <1>1 DEF Base, Request, Drafted
  <2> QED BY <1>1, <1>a, <2>1, <2>2, <2>3, <2>4 DEF Drafts
<1>8. Ready(r, s)
  <2>1. a # x /\ b # x /\ a # b
    BY <1>1, Disjoint
  <2>2. ASSUME NEW n \in DOMAIN s, NEW y \in DOMAIN s[n].image
        PROVE  /\ Written(r, y, s[n].image[y]) /\ y \notin Plans
               /\ y \in PlanLines => y[1] = dto[r].plan
               /\ \A m \in DOMAIN s : y \in DOMAIN s[m].image => m = n
    <3>1. CASE n = 1
      BY <1>2, <1>4, <1>5, <1>a, <2>1, <3>1
    <3>2. CASE n = 2
      BY <1>2, <1>3, <2>1, <3>2
    <3>3. CASE n = 3
      BY <1>2, <1>6, <2>1, <3>3
    <3> QED BY <1>2, <3>1, <3>2, <3>3
  <2> QED BY <1>1, <1>2, <2>2 DEF Ready
<1>9. \E q \in {due} : {due} = {q} /\ Drafts(r, q)
  BY <1>7
<1> QED BY <1>1, <1>8, <1>9, ProceedBase

-----------------------------------------------------------------------------
(* The commit. *)
LEMMA MergeAccount ==
  ASSUME NEW row \in Account, NEW e \in Account, NEW cols
  PROVE  Merge(row, e, cols) \in Account
<1>a. PICK m, active :
        /\ m = Merge(row, e, cols)
        /\ active = (IF "is_active" \in cols THEN e["is_active"] ELSE row["is_active"])
  OBVIOUS
<1>1. DOMAIN row = {"current_balance", "is_active"}
  BY DEF Account
<1>2. m = [c \in DOMAIN row |-> IF c \in cols THEN e[c] ELSE row[c]]
  BY <1>a DEF Merge
<1>3. m["current_balance"] = e["current_balance"] \/ m["current_balance"] = row["current_balance"]
  BY <1>1, <1>2
<1>4. m["current_balance"] \in Int
  BY <1>3 DEF Account
<1>5. active \in BOOLEAN
  BY <1>a DEF Account
<1>6. m["is_active"] = active
  BY <1>a, <1>1, <1>2
<1>7. m = [current_balance |-> m["current_balance"], is_active |-> active]
  BY <1>1, <1>2, <1>6
<1> QED BY <1>a, <1>4, <1>5, <1>7 DEF Account

LEMMA MergeBill ==
  ASSUME NEW row \in Bill, NEW e \in Bill, NEW cols, NEW m, m = Merge(row, e, cols)
  PROVE  /\ m \in Bill
         /\ m.status = IF "status" \in cols THEN e.status ELSE row.status
         /\ m.net_amount = IF "net_amount" \in cols THEN e.net_amount ELSE row.net_amount
         /\ m.paid_amount = IF "paid_amount" \in cols THEN e.paid_amount ELSE row.paid_amount
<1>1. DOMAIN row = {"status", "net_amount", "paid_amount"}
  BY DEF Bill
<1>2. m = [c \in DOMAIN row |-> IF c \in cols THEN e[c] ELSE row[c]]
  BY DEF Merge
<1>3. /\ m.status = IF "status" \in cols THEN e.status ELSE row.status
      /\ m.net_amount = IF "net_amount" \in cols THEN e.net_amount ELSE row.net_amount
      /\ m.paid_amount = IF "paid_amount" \in cols THEN e.paid_amount ELSE row.paid_amount
  BY <1>1, <1>2
<1>4. m.status \in InvoiceStatus /\ m.net_amount \in Nat /\ m.paid_amount \in Int
  BY <1>3 DEF Bill
<1>5. m = [status |-> m.status, net_amount |-> m.net_amount, paid_amount |-> m.paid_amount]
  BY <1>1, <1>2
<1> QED BY <1>3, <1>4, <1>5 DEF Bill

LEMMA MergeSchedule ==
  ASSUME NEW row \in Schedule, NEW e \in Schedule, NEW cols, NEW m, m = Merge(row, e, cols)
  PROVE  /\ m \in Schedule
         /\ m.status = IF "status" \in cols THEN e.status ELSE row.status
         /\ m.bill = IF "bill" \in cols THEN e.bill ELSE row.bill
<1>1. DOMAIN row = {"status", "bill"}
  BY DEF Schedule
<1>2. m = [c \in DOMAIN row |-> IF c \in cols THEN e[c] ELSE row[c]]
  BY DEF Merge
<1>3. /\ m.status = IF "status" \in cols THEN e.status ELSE row.status
      /\ m.bill = IF "bill" \in cols THEN e.bill ELSE row.bill
  BY <1>1, <1>2
<1>4. m.status \in ScheduleStatus /\ m.bill \in Bills \cup {NoBill}
  BY <1>3 DEF Schedule
<1>5. m = [status |-> m.status, bill |-> m.bill]
  BY <1>1, <1>2
<1> QED BY <1>3, <1>4, <1>5 DEF Schedule

LEMMA MergeInstallment ==
  ASSUME NEW row \in Installment, NEW e \in Installment, NEW cols, NEW m, m = Merge(row, e, cols)
  PROVE  /\ m \in Installment
         /\ m.status = IF "status" \in cols THEN e.status ELSE row.status
         /\ m.amount = IF "amount" \in cols THEN e.amount ELSE row.amount
<1>1. DOMAIN row = {"status", "amount"}
  BY DEF Installment
<1>2. m = [c \in DOMAIN row |-> IF c \in cols THEN e[c] ELSE row[c]]
  BY DEF Merge
<1>3. /\ m.status = IF "status" \in cols THEN e.status ELSE row.status
      /\ m.amount = IF "amount" \in cols THEN e.amount ELSE row.amount
  BY <1>1, <1>2
<1>4. m.status \in InstallmentStatus /\ m.amount \in Nat
  BY <1>3 DEF Installment
<1>5. m = [status |-> m.status, amount |-> m.amount]
  BY <1>1, <1>2
<1> QED BY <1>3, <1>4, <1>5 DEF Installment

LEMMA MergeRow ==
  ASSUME NEW x, NEW row, NEW e, NEW cols, IsRow(x, row), IsRow(x, e)
  PROVE  IsRow(x, Merge(row, e, cols))
BY MergeAccount, MergeBill, MergeSchedule, MergeInstallment DEF IsRow

LEMMA FinishIs ==
  ASSUME PayablesAssumption, Base, NEW r \in Requests, Finish(r)
  PROVE  /\ pc[r] = "saving" /\ todo[r] = << >> /\ End(r, "done")
         /\ DOMAIN rows' = Rows
         /\ \A x \in Rows \ DOMAIN pending[r] : rows'[x] = rows[x]
         /\ \A x \in DOMAIN pending[r] :
              /\ x \in Keys(r) /\ x \in Rows
              /\ rows'[x] = Merge(rows[x], pending[r][x].entity, pending[r][x].cols)
              /\ Written(r, x, pending[r][x].entity)
              /\ x \in Plans => Owns(r, x)
              /\ dto[r].kind \in Debiting => r \in inserted
         /\ draft' = [draft EXCEPT ![r] = {}] /\ inserted' = inserted \ {r} /\ load' = load
         /\ payments' = IF r \in inserted THEN payments \cup draft[r] ELSE payments
         /\ r \in inserted =>
              /\ dto[r].kind \in Debiting
              /\ \E p \in draft[r] : draft[r] = {p} /\ Drafts(r, p) /\ p.number = NextNumber
<1>1. /\ pc[r] = "saving" /\ todo[r] = << >> /\ End(r, "done")
      /\ rows' = [x \in DOMAIN rows |-> Seen(r, x)]
      /\ draft' = [draft EXCEPT ![r] = {}] /\ inserted' = inserted \ {r} /\ load' = load
      /\ payments' = IF r \in inserted THEN payments \cup draft[r] ELSE payments
  BY DEF Finish, AllSaved, Commit
<1>2. DOMAIN rows = Rows /\ Request(r)
  BY DEF Base, Shape
<1>3. \A x \in Rows : rows'[x] = Seen(r, x)
  BY <1>1, <1>2
<1>4. ASSUME NEW x \in DOMAIN pending[r]
      PROVE  /\ x \in Keys(r) /\ x \in Rows
             /\ Written(r, x, pending[r][x].entity)
             /\ x \in Plans => Owns(r, x)
             /\ dto[r].kind \in Debiting => r \in inserted
  <2>1. x \in Keys(r)
    BY DEF Keys
  <2>2. Written(r, x, pending[r][x].entity) /\ (x \in Plans => Owns(r, x))
    BY <1>1, <2>1, WritesUnfold DEF Holding, Owning
  <2>3. dto[r].kind \in Debiting => r \in inserted
    BY <1>1, <1>2 DEF Request, Writes
  <2> QED BY <2>1, <2>2, <2>3 DEF Written
<1>5. \A x \in Rows \ DOMAIN pending[r] : rows'[x] = rows[x]
  BY <1>3 DEF Seen
<1>6. \A x \in DOMAIN pending[r] :
        rows'[x] = Merge(rows[x], pending[r][x].entity, pending[r][x].cols)
  BY <1>3, <1>4 DEF Seen
<1>7. r \in inserted =>
        /\ dto[r].kind \in Debiting
        /\ \E p \in draft[r] : draft[r] = {p} /\ Drafts(r, p) /\ p.number = NextNumber
  BY <1>1, <1>2 DEF Request, Drafted, Drafts
<1>8. DOMAIN rows' = Rows
  BY <1>1, <1>2
<1> QED BY <1>1, <1>4, <1>5, <1>6, <1>7, <1>8

(* What a commit makes of a schedule. *)
LEMMA FinishPlan ==
  ASSUME PayablesAssumption, Base, NEW r \in Requests, Finish(r), NEW p \in Plans
  PROVE  \/ rows'[p] = rows[p]
         \/ /\ p \in DOMAIN pending[r] /\ p \in Keys(r)
            /\ rows'[p].status # "ABSENT" /\ rows'[p].bill \in Bills
            /\ \/ /\ dto[r].kind \in Answering /\ rows[p].status # "ABSENT"
                  /\ rows'[p].bill = rows[p].bill
               \/ /\ dto[r].kind = "schedule" /\ rows[p].status = "ABSENT"
                  /\ rows'[p].bill = pending[r][p].entity.bill
                  /\ rows'[p].status = pending[r][p].entity.status
<1>1. p \in Rows
  BY Disjoint
<1>2. CASE p \notin DOMAIN pending[r]
  BY <1>1, <1>2, FinishIs
<1>3. CASE p \in DOMAIN pending[r]
  <2>a. PICK e, cols, m : e = pending[r][p].entity /\ cols = pending[r][p].cols /\ m = Merge(rows[p], e, cols)
    OBVIOUS
  <2>1. p \in Keys(r) /\ rows'[p] = m /\ Written(r, p, e) /\ Owns(r, p)
    BY <1>3, <2>a, FinishIs
  <2>2. rows[p] \in Schedule /\ (rows[p].status # "ABSENT" <=> rows[p].bill \in Bills)
    BY PlanRow DEF Base
  <2>3. /\ e \in Schedule /\ dto[r].kind \in Answering \cup {"schedule"}
        /\ e.status # "ABSENT" /\ e.bill \in Bills
        /\ dto[r].kind \in Answering => p = dto[r].plan /\ e.bill = rows[p].bill
    BY <2>1 DEF Written, IsRow
  <2>4. /\ m.status = IF "status" \in cols THEN e.status ELSE rows[p].status
        /\ m.bill = IF "bill" \in cols THEN e.bill ELSE rows[p].bill
    BY <2>a, <2>2, <2>3, MergeSchedule
  <2>5. CASE dto[r].kind \in Answering
    <3>1. rows[p].status # "ABSENT"
      BY <2>3, <2>5, FinishIs DEF Base, Request, Names
    <3> QED BY <1>3, <2>1, <2>2, <2>3, <2>4, <2>5, <3>1
  <2>6. CASE dto[r].kind = "schedule"
    <3>1. rows[p].status = "ABSENT"
      BY <2>1, <2>6 DEF Owns
    <3>2. cols = Whole
      BY <1>3, <2>6, <2>a, FinishIs, WritesUnfold DEF Holding
    <3> QED BY <1>3, <2>1, <2>3, <2>4, <2>6, <2>a, <3>1, <3>2 DEF Whole
  <2> QED BY <2>3, <2>5, <2>6
<1> QED BY <1>2, <1>3

(* And of an invoice. *)
LEMMA FinishBill ==
  ASSUME PayablesAssumption, Base, NEW r \in Requests, Finish(r), NEW b \in Bills
  PROVE  /\ rows'[b] \in Bill
         /\ rows'[b] = rows[b] \/ b \in DOMAIN pending[r]
         /\ b \in DOMAIN pending[r] =>
              /\ pending[r][b].entity \in Bill /\ Written(r, b, pending[r][b].entity)
              /\ rows'[b].status = IF "status" \in pending[r][b].cols
                                   THEN pending[r][b].entity.status ELSE rows[b].status
              /\ rows'[b].net_amount = IF "net_amount" \in pending[r][b].cols
                                       THEN pending[r][b].entity.net_amount ELSE rows[b].net_amount
              /\ rows'[b].paid_amount = IF "paid_amount" \in pending[r][b].cols
                                        THEN pending[r][b].entity.paid_amount ELSE rows[b].paid_amount
<1>1. b \in Rows
  BY Disjoint
<1>2. rows[b] \in Bill
  BY <1>1 DEF Base, RowsKnown, Known, IsRow
<1>3. CASE b \notin DOMAIN pending[r]
  BY <1>1, <1>2, <1>3, FinishIs
<1>4. CASE b \in DOMAIN pending[r]
  <2>a. PICK e, cols : e = pending[r][b].entity /\ cols = pending[r][b].cols
    OBVIOUS
  <2>1. rows'[b] = Merge(rows[b], e, cols) /\ Written(r, b, e)
    BY <1>4, <2>a, FinishIs
  <2>2. e \in Bill
    BY <2>1 DEF Written, IsRow
  <2>b. PICK m : m = Merge(rows[b], e, cols)
    OBVIOUS
  <2>3. /\ m \in Bill
        /\ m.status = IF "status" \in cols THEN e.status ELSE rows[b].status
        /\ m.net_amount = IF "net_amount" \in cols THEN e.net_amount ELSE rows[b].net_amount
        /\ m.paid_amount = IF "paid_amount" \in cols THEN e.paid_amount ELSE rows[b].paid_amount
    BY <1>2, <2>2, <2>b, MergeBill
  <2> QED BY <1>4, <2>a, <2>b, <2>1, <2>2, <2>3
<1> QED BY <1>3, <1>4

LEMMA FinishLater ==
  ASSUME PayablesAssumption, Base, NEW r \in Requests, Finish(r)
  PROVE  Later
<1>1. /\ payments \subseteq payments' /\ load' = load
  BY FinishIs
<1>2. \A s \in Requests : pc[s] # "idle" => pc'[s] # "idle" /\ dto'[s] = dto[s]
  BY FinishIs, EndIs DEF Base
<1>3. ASSUME NEW b \in Bills, ~NetChanged(b)'
      PROVE  ~NetChanged(b) /\ rows'[b].net_amount = rows[b].net_amount
  <2>1. ~NetChanged(b)
    BY <1>2, <1>3, AskedLater DEF NetChanged
  <2>2. b \in DOMAIN pending[r] => pending[r][b].entity.net_amount = rows[b].net_amount
    BY <2>1, FinishBill DEF Written
  <2> QED BY <2>1, <2>2, FinishBill
<1>4. ASSUME NEW p \in Plans, rows[p].status # "ABSENT"
      PROVE  rows'[p].status # "ABSENT" /\ rows'[p].bill = rows[p].bill
  BY <1>4, FinishPlan
<1> QED BY <1>1, <1>3, <1>4 DEF Later

LEMMA FinishRows ==
  ASSUME PayablesAssumption, Base, NEW r \in Requests, Finish(r)
  PROVE  RowsKnown'
<1>1. Later
  BY FinishLater
<1>2. ASSUME NEW x \in Rows PROVE Known(x, rows[x])'
  <2>1. Known(x, rows[x])
    BY DEF Base, RowsKnown
  <2>2. CASE x \notin DOMAIN pending[r]
    <3>1. rows'[x] = rows[x]
      BY <2>2, FinishIs
    <3>2. \A e : Known(x, e) => Known(x, e)'
      BY <1>1, KnownLater
    <3>3. PICK e : e = rows'[x]
      OBVIOUS
    <3>4. Known(x, e)'
      BY <2>1, <3>1, <3>2, <3>3
    <3> QED BY <3>3, <3>4
  <2>3. CASE x \in DOMAIN pending[r]
    <3>a. PICK e, cols, m : e = pending[r][x].entity /\ cols = pending[r][x].cols
                            /\ m = Merge(rows[x], e, cols)
      OBVIOUS
    <3>1. rows'[x] = m /\ Written(r, x, e) /\ (dto[r].kind \in Debiting => r \in inserted)
      BY <2>3, <3>a, FinishIs
    <3>2. IsRow(x, m)
      BY <2>1, <3>a, <3>1, MergeRow DEF Known, Written
    <3>3. /\ \A y : Paid(y) => Paid(y)'
          /\ \A y : PaidInPart(y) => PaidInPart(y)'
      BY <1>1 DEF Later, Paid, PaidInPart
    <3>4. ASSUME dto[r].kind = "installment"
          PROVE  /\ x = <<dto[r].plan, dto[r].line>> => Paid(x)'
                 /\ x \in Bills => PaidInPart(x)'
      <4>1. PICK p \in draft[r] : draft[r] = {p} /\ Drafts(r, p)
        BY <3>1, <3>4, FinishIs
      <4>2. p \in payments'
        BY <3>1, <3>4, <4>1, FinishIs
      <4>3. p.line = <<dto[r].plan, dto[r].line>> /\ p.bill = rows[dto[r].plan].bill
        BY <3>4, <4>1 DEF Drafts
      <4>4. p.line # << >>
        BY <4>3
      <4>5. x \in Bills => x = p.bill
        BY <3>1, <3>4, <4>3 DEF Written, BillOf
      <4> QED BY <4>2, <4>3, <4>4, <4>5 DEF Paid, PaidInPart
    <3>5. ASSUME x \in PlanLines, m.status = "PAID" PROVE Paid(x)'
      <4>1. rows[x] \in Installment /\ e \in Installment
        BY <2>1, <3>1, <3>5 DEF Known, Written, IsRow
      <4>2. m.status = e.status \/ m.status = rows[x].status
        BY <3>a, <4>1, MergeInstallment
      <4>3. CASE rows[x].status = "PAID"
        BY <2>1, <3>3, <3>5, <4>3 DEF Known
      <4>4. CASE e.status = "PAID"
        BY <3>1, <3>3, <3>4, <3>5, <4>4 DEF Written
      <4> QED BY <3>5, <4>2, <4>3, <4>4
    <3>6. ASSUME x \in Bills, ~NetChanged(x)'
          PROVE  /\ m.net_amount = rows[x].net_amount
                 /\ rows'[x].net_amount = rows[x].net_amount
                 /\ PaidInPart(x)' \/ m.paid_amount \in 0 .. m.net_amount + Tolerance
      <4>1. rows[x] \in Bill /\ e \in Bill
        BY <2>1, <3>1, <3>6 DEF Known, Written, IsRow
      <4>2. /\ m.net_amount = e.net_amount \/ m.net_amount = rows[x].net_amount
            /\ m.paid_amount = e.paid_amount \/ m.paid_amount = rows[x].paid_amount
        BY <3>a, <4>1, MergeBill
      <4>3. ~NetChanged(x) /\ rows'[x].net_amount = rows[x].net_amount
        BY <1>1, <3>6 DEF Later
      <4>4. PaidInPart(x) \/ rows[x].paid_amount \in 0 .. rows[x].net_amount + Tolerance
        BY <2>1, <3>6, <4>3 DEF Known
      <4>5. /\ e.net_amount = rows[x].net_amount
            /\ dto[r].kind = "installment" \/ PaidInPart(x) \/ e.paid_amount \in 0 .. e.net_amount + Tolerance
        BY <3>1, <3>6, <4>3 DEF Written
      <4> QED BY <3>3, <3>4, <3>6, <4>2, <4>3, <4>4, <4>5
    <3>7. IsRow(x, m)'
      BY <3>2 DEF IsRow
    <3>8. Known(x, m)'
      BY <3>1, <3>5, <3>6, <3>7 DEF Known
    <3> QED BY <3>1, <3>8
  <2> QED BY <2>2, <2>3
<1>3. ASSUME NEW p \in Plans PROVE rows'[p].status = "ABSENT" <=> rows'[p].bill = NoBill
  <2>1. rows[p].status = "ABSENT" <=> rows[p].bill = NoBill
    BY DEF Base, RowsKnown
  <2>2. NoBill \notin Bills
    BY Disjoint
  <2> QED BY <2>1, <2>2, FinishPlan
<1> QED BY <1>2, <1>3 DEF RowsKnown, Rows

LEMMA FinishBase ==
  ASSUME PayablesAssumption, Base, NEW r \in Requests, Finish(r)
  PROVE  Base'
<1>1. Later /\ RowsKnown'
  BY FinishLater, FinishRows
<1>2. /\ pc[r] = "saving" /\ End(r, "done") /\ DOMAIN rows' = Rows
      /\ draft' = [draft EXCEPT ![r] = {}] /\ inserted' = inserted \ {r} /\ load' = load
  BY FinishIs
<1>3. Shape /\ Request(r)
  BY DEF Base
<1>4. /\ Shape' /\ Serial' /\ \A s \in Requests \ {r} : Still(s)
  <2>1. /\ pc' \in [Requests -> Phases \cup {"matching"}] /\ UNCHANGED dto
        /\ DOMAIN view' = Requests /\ DOMAIN todo' = Requests
        /\ DOMAIN diff' = Requests /\ DOMAIN pending' = Requests
        /\ \A s \in Requests \ {r} :
             /\ pc'[s] = pc[s] /\ view'[s] = view[s] /\ todo'[s] = todo[s]
             /\ diff'[s] = diff[s] /\ pending'[s] = pending[s]
    BY <1>2, <1>3, EndIs
  <2> QED BY <1>2, <1>3, <2>1 DEF Shape, Base, Serial, Still
<1>5. Request(r)' /\ Keys(r)' = {}
  BY <1>1, <1>2, <1>3, EndIs, RequestEnded DEF Shape
<1>6. Apart'
  BY <1>4, <1>5, ApartKept DEF Base
<1>7. /\ Numbered' /\ PaymentsTyped' /\ LinesFollow'
      /\ NextNumber' \in Nat /\ NextNumber <= NextNumber'
      /\ r \notin inserted => NextNumber' = NextNumber
  <2>1. CASE r \notin inserted
    <3>1. payments' = payments
      BY <2>1, FinishIs
    <3>2. NextNumber' = NextNumber /\ Numbers' = Numbers /\ NextNumber \in Nat
      BY <3>1 DEF NextNumber, Numbers, Base, Numbered
    <3>3. Numbered' /\ PaymentsTyped' /\ LinesFollow'
      BY <3>1, <3>2 DEF Base, Numbered, PaymentsTyped, LinesFollow, Paid
    <3> QED BY <2>1, <3>2, <3>3
  <2>2. CASE r \in inserted
    <3>1. PICK p \in draft[r] : draft[r] = {p} /\ Drafts(r, p) /\ p.number = NextNumber
      BY <2>2, FinishIs
    <3>2. payments' = payments \cup {p}
      BY <2>2, <3>1, FinishIs
    <3>3. NextNumber \in Nat \ {0} /\ Numbers = 1 .. NextNumber - 1
      BY DEF Base, Numbered
    <3>4. Numbers' = Numbers \cup {p.number}
      BY <3>2 DEF Numbers
    <3>5. Numbers' = 1 .. NextNumber
      BY <3>1, <3>3, <3>4
    <3>6. NextNumber' = NextNumber + 1
      <4>1. Max((1 .. NextNumber) \cup {0}) = NextNumber
        BY <3>3, MaxOfInterval
      <4>2. NextNumber' = 1 + Max(Numbers' \cup {0})
        BY DEF NextNumber
      <4> QED BY <3>3, <3>5, <4>1, <4>2
    <3>7. Numbered'
      BY <3>3, <3>5, <3>6 DEF Numbered
    <3>8. PaymentsTyped'
      <4>1. IsFiniteSet(payments \cup {p})
        BY FS_AddElement DEF Base, PaymentsTyped
      <4>2. p.amount \in Nat
        BY <3>1 DEF Drafts
      <4> QED BY <3>2, <4>1, <4>2 DEF Base, PaymentsTyped
    <3>9. LinesFollow'
      <4>1. \A x : Paid(x) => Paid(x)'
        BY <1>1 DEF Later, Paid
      <4>2. ASSUME NEW q \in payments, q.line # << >>, NEW m \in 1 .. q.line[2] - 1
            PROVE  Paid(<<q.line[1], m>>)'
        BY <4>1, <4>2 DEF Base, LinesFollow
      <4>3. ASSUME p.line # << >>, NEW m \in 1 .. p.line[2] - 1 PROVE Paid(<<p.line[1], m>>)'
        <5>1. dto[r].kind = "installment"
          BY <2>2, <3>1, <4>3, FinishIs DEF Drafts
        <5>2. /\ p.line = <<dto[r].plan, dto[r].line>>
              /\ \A n \in 1 .. dto[r].line - 1 : Paid(<<dto[r].plan, n>>)
          BY <3>1, <5>1 DEF Drafts
        <5>3. p.line[1] = dto[r].plan /\ p.line[2] = dto[r].line
          BY <5>2
        <5> QED BY <4>1, <4>3, <5>2, <5>3
      <4> QED BY <3>2, <4>2, <4>3 DEF LinesFollow
    <3> QED BY <2>2, <3>3, <3>6, <3>7, <3>8, <3>9
  <2> QED BY <2>1, <2>2
<1>8. ASSUME NEW s \in Requests \ {r} PROVE Request(s)'
  <2>1. s \in inserted => NextNumber' = NextNumber
    BY <1>3, <1>7 DEF Base, Serial, Shape
  <2>2. ASSUME NEW p \in Plans \cap Keys(s), dto[s].kind = "schedule", rows[p].status = "ABSENT"
        PROVE  rows'[p].status = "ABSENT"
    <3>1. ASSUME p \in Keys(r), dto[r].kind = "schedule" PROVE FALSE
      BY <2>2, <3>1 DEF Base, Apart
    <3> QED BY <2>2, <3>1, FinishPlan
  <2> QED BY <1>1, <1>4, <1>7, <2>1, <2>2, RequestKept
<1> QED BY <1>1, <1>4, <1>5, <1>6, <1>7, <1>8 DEF Base

-----------------------------------------------------------------------------
LEMMA InitRows ==
  ASSUME PayablesAssumption, Init
  PROVE  /\ DOMAIN rows = Rows
         /\ \A x \in Accounts : rows[x] = [current_balance |-> Opening[x], is_active |-> TRUE]
         /\ \E start \in {"PENDING", "APPROVED"} : \A x \in Bills :
              rows[x] = [status |-> start, net_amount |-> Net[x], paid_amount |-> 0]
         /\ \A x \in Bills : rows[x].status # "PAID" /\ rows[x].paid_amount = 0
         /\ \A x \in Plans : rows[x] = [status |-> load.standing[x].status, bill |-> load.standing[x].bill]
         /\ \A x \in PlanLines :
              rows[x] = [status |-> "PENDING", amount |-> load.standing[x[1]].amounts[x[2]]]
<1>a. PICK start \in {"PENDING", "APPROVED"} :
        rows = [x \in Accounts \cup Bills \cup Plans \cup PlanLines |->
         CASE x \in Accounts -> [current_balance |-> Opening[x], is_active |-> TRUE]
           [] x \in Bills -> [status |-> start, net_amount |-> Net[x], paid_amount |-> 0]
           [] x \in Plans -> [status |-> load.standing[x].status, bill |-> load.standing[x].bill]
           [] x \in PlanLines ->
                [status |-> "PENDING", amount |-> load.standing[x[1]].amounts[x[2]]]]
  BY DEF Init
<1>2. DOMAIN rows = Rows
  BY <1>a DEF Rows
<1>3. \A x \in Accounts : rows[x] = [current_balance |-> Opening[x], is_active |-> TRUE]
  BY <1>a
<1>4. \A x \in Bills : rows[x] = [status |-> start, net_amount |-> Net[x], paid_amount |-> 0]
  BY <1>a, Disjoint
<1>5. \A x \in Plans : rows[x] = [status |-> load.standing[x].status, bill |-> load.standing[x].bill]
  BY <1>a, Disjoint
<1>6. \A x \in PlanLines : rows[x] = [status |-> "PENDING", amount |-> load.standing[x[1]].amounts[x[2]]]
  BY <1>a, Disjoint
<1>7. ASSUME NEW x \in Bills PROVE rows[x].status # "PAID" /\ rows[x].paid_amount = 0
  <2>a. PICK net : net = Net[x]
    OBVIOUS
  <2>1. rows[x] = [status |-> start, net_amount |-> net, paid_amount |-> 0]
    BY <1>4, <2>a
  <2> QED BY <2>1
<1> QED BY <1>2, <1>3, <1>4, <1>5, <1>6, <1>7

LEMMA BaseInit == PayablesAssumption /\ Init => Base
<1> SUFFICES ASSUME PayablesAssumption, Init PROVE Base
  OBVIOUS
<1>1. /\ pc = [r \in Requests |-> "idle"] /\ dto = [r \in Requests |-> Nothing]
      /\ view = [r \in Requests |-> Nothing] /\ todo = [r \in Requests |-> << >>]
      /\ diff = [r \in Requests |-> Nothing] /\ pending = [r \in Requests |-> Nothing]
      /\ payments = {} /\ inserted = {} /\ draft = [r \in Requests |-> {}] /\ load \in Loads
  BY DEF Init, SessionsInit
<1>2. DOMAIN rows = Rows /\ DOMAIN Nothing = {}
  BY InitRows DEF Nothing
<1>a. PICK start \in {"PENDING", "APPROVED"} :
        \A x \in Bills : rows[x] = [status |-> start, net_amount |-> Net[x], paid_amount |-> 0]
  BY InitRows
<1>3. \A x \in Accounts : rows[x] = [current_balance |-> Opening[x], is_active |-> TRUE]
  BY InitRows
<1>4. \A x \in Bills : rows[x] = [status |-> start, net_amount |-> Net[x], paid_amount |-> 0]
  BY <1>a
<1>5. \A x \in Plans : rows[x] = [status |-> load.standing[x].status, bill |-> load.standing[x].bill]
  BY InitRows
<1>6. \A x \in PlanLines : rows[x] = [status |-> "PENDING", amount |-> load.standing[x[1]].amounts[x[2]]]
  BY InitRows
<1>7. /\ \A p \in Plans : load.standing[p] \in Plan
      /\ \A p \in Plans : load.standing[p].status = "ABSENT" <=> load.standing[p].bill = NoBill
  BY <1>1 DEF PayablesAssumption
<1>8. Shape
  BY <1>1, <1>2 DEF Shape
<1>9. Numbers = {} /\ NextNumber = 1
  <2>1. Numbers = {}
    BY <1>1 DEF Numbers
  <2>2. Max((1 .. 0) \cup {0}) = 0
    BY MaxOfInterval
  <2>3. Max(Numbers \cup {0}) = 0
    <3>1. Numbers \cup {0} = (1 .. 0) \cup {0}
      BY <2>1
    <3> QED BY <2>2, <3>1
  <2> QED BY <2>1, <2>3 DEF NextNumber
<1>10. Numbered /\ Serial /\ PaymentsTyped /\ LinesFollow
  <2>1. IsFiniteSet({})
    BY FS_EmptySet
  <2> QED BY <1>1, <1>9, <2>1 DEF Numbered, Serial, PaymentsTyped, LinesFollow
<1>11. ASSUME NEW r \in Requests PROVE Request(r) /\ Keys(r) = {}
  <2>1. Drafted(r) /\ Names(r) /\ Informed(r) /\ Writes(r)
    BY <1>1, <1>2 DEF Drafted, Names, Informed, Writes
  <2>2. Keys(r) = {}
    BY <1>1, <1>2 DEF Keys
  <2> QED BY <2>1, <2>2 DEF Request
<1>12. Apart
  BY <1>11 DEF Apart
<1>13. ASSUME NEW x \in Rows PROVE Known(x, rows[x])
  <2>1. CASE x \in Accounts
    <3>1. rows[x] \in Account
      <4>a. PICK opening : opening = Opening[x]
        OBVIOUS
      <4>1. opening \in Int
        BY <2>1, <4>a DEF PayablesAssumption
      <4>2. rows[x] = [current_balance |-> opening, is_active |-> TRUE]
        BY <1>3, <2>1, <4>a
      <4> QED BY <4>1, <4>2 DEF Account
    <3> QED BY <2>1, <3>1, Disjoint DEF Known, IsRow
  <2>2. CASE x \in Bills
    <3>a. PICK net : net = Net[x]
      OBVIOUS
    <3>b. PICK row : row = rows[x]
      OBVIOUS
    <3>1. net \in Nat /\ row = [status |-> start, net_amount |-> net, paid_amount |-> 0]
      BY <1>4, <2>2, <3>a, <3>b DEF PayablesAssumption
    <3>2. row \in Bill /\ row.paid_amount = 0 /\ row.net_amount \in Nat
      BY <3>1 DEF Bill, InvoiceStatus
    <3>c. rows[x] \in Bill /\ rows[x].paid_amount \in 0 .. rows[x].net_amount + Tolerance
      BY <3>b, <3>2 DEF Tolerance
    <3> QED BY <2>2, <3>c, Disjoint DEF Known, IsRow
  <2>3. CASE x \in Plans
    <3>a. PICK plan : plan = load.standing[x]
      OBVIOUS
    <3>b. plan.status \in ScheduleStatus /\ plan.bill \in Bills \cup {NoBill}
      BY <1>7, <2>3, <3>a DEF Plan
    <3>c. rows[x] = [status |-> plan.status, bill |-> plan.bill]
      BY <1>5, <2>3, <3>a
    <3>1. rows[x] \in Schedule
      BY <3>b, <3>c DEF Schedule
    <3> QED BY <2>3, <3>1, Disjoint DEF Known, IsRow
  <2>4. CASE x \in PlanLines
    <3>1. x[1] \in Plans /\ x[2] \in Lines
      BY <2>4 DEF PlanLines
    <3>a. PICK amount : amount = load.standing[x[1]].amounts[x[2]]
      OBVIOUS
    <3>2. amount \in Nat
      <4>1. load.standing[x[1]].amounts \in [Lines -> Nat]
        BY <1>7, <3>1 DEF Plan, Amounts
      <4> QED BY <3>1, <3>a, <4>1
    <3>b. rows[x] = [status |-> "PENDING", amount |-> amount]
      BY <1>6, <2>4, <3>a
    <3>3. rows[x] \in Installment /\ rows[x].status # "PAID"
      BY <3>2, <3>b DEF Installment, InstallmentStatus
    <3> QED BY <2>4, <3>3, Disjoint DEF Known, IsRow
  <2> QED BY <2>1, <2>2, <2>3, <2>4 DEF Rows
<1>14. RowsKnown
  <2>1. ASSUME NEW p \in Plans PROVE rows[p].status = "ABSENT" <=> rows[p].bill = NoBill
    <3>1. rows[p].status = load.standing[p].status /\ rows[p].bill = load.standing[p].bill
      <4>a. PICK plan : plan = load.standing[p]
        OBVIOUS
      <4>1. rows[p] = [status |-> plan.status, bill |-> plan.bill]
        BY <1>5, <4>a
      <4> QED BY <4>a, <4>1
    <3> QED BY <1>7, <3>1
  <2> QED BY <1>13, <2>1 DEF RowsKnown
<1> QED BY <1>8, <1>10, <1>11, <1>12, <1>14 DEF Base

(* What a handler does when it does not refuse. *)
LEMMA HandleBase ==
  ASSUME PayablesAssumption, Base, NEW r \in Requests,
         \/ Fetch(r) \/ PaySupplier(r) \/ CreateSchedule(r) \/ Answer(r) \/ PayInstallment(r)
         \/ Review(r) \/ EditBill(r) \/ Settle(r) \/ Resolve(r)
  PROVE  Base'
<1>1. pc[r] # "idle"
  BY DEF Fetch, PaySupplier, CreateSchedule, Answer, PayInstallment, Review, EditBill, Settle, Resolve, Handles
<1> QED BY <1>1, FailBase, FetchBase, PayBase, CreateBase, AnswerBase, InstallmentBase, ReviseBase

LEMMA BaseStep ==
  ASSUME PayablesAssumption, Base, [Next]_vars
  PROVE  Base'
<1>1. CASE UNCHANGED vars
  <2>1. \A s \in Requests : Still(s)
    BY <1>1 DEF vars, sessionVars, ledgerVars, Still
  <2>2. UNCHANGED <<payments, load, rows, inserted>>
    BY <1>1 DEF vars, sessionVars, ledgerVars
  <2>3. Later
    BY <2>1, <2>2, QuietLater DEF Still
  <2>4. RowsKnown' /\ Shape' /\ Serial' /\ Numbered' /\ PaymentsTyped' /\ LinesFollow' /\ Apart'
    <3>1. RowsKnown'
      BY <2>2, <2>3, QuietRows
    <3>2. Shape' /\ Serial' /\ PaymentsTyped' /\ LinesFollow'
      BY <1>1, <2>2 DEF Base, Shape, Serial, PaymentsTyped, LinesFollow, Paid, vars, sessionVars, ledgerVars
    <3>3. Numbered'
      BY <2>2 DEF Base, Numbered, NextNumber, Numbers
    <3>4. \A s \in Requests : Keys(s)' = Keys(s) /\ dto'[s] = dto[s]
      BY <2>1, KeysKept DEF Still
    <3>5. Apart'
      BY <3>4 DEF Base, Apart
    <3> QED BY <3>1, <3>2, <3>3, <3>5
  <2>5. ASSUME NEW s \in Requests PROVE Request(s)'
    <3>1. NextNumber' = NextNumber /\ NextNumber \in Nat
      BY <2>2 DEF NextNumber, Numbers, Base, Numbered
    <3> QED BY <2>1, <2>2, <2>3, <3>1, RequestKept
  <2> QED BY <2>4, <2>5 DEF Base
<1>2. ASSUME NEW r \in Requests, Arrive(r) PROVE Base'
  BY <1>2, ArriveBase
<1>3. ASSUME NEW r \in Requests, Handle(r) PROVE Base'
  <2>1. CASE \/ Fetch(r) \/ PaySupplier(r) \/ CreateSchedule(r) \/ Answer(r) \/ PayInstallment(r)
             \/ Review(r) \/ EditBill(r) \/ Settle(r) \/ Resolve(r)
    BY <2>1, HandleBase
  <2>2. CASE MarkOverdue(r)
    BY <2>2, DoneBase
  <2>3. CASE InsertPayment(r)
    <3>1. pc[r] # "idle"
      BY <2>3 DEF InsertPayment
    <3> QED BY <2>3, <3>1, InsertBase, FailBase
  <2>4. CASE Write(r)
    BY <2>4, ReloadBase, UpdateBase DEF Write
  <2>5. CASE FraudClear(r) \/ RecordTransaction(r)
    BY <2>5, PhaseBase
  <2>6. CASE FraudBlock(r)
    <3>1. pc[r] # "idle" /\ Fail(r)
      BY <2>6 DEF FraudBlock, AllSaved
    <3> QED BY <3>1, FailBase
  <2>7. CASE Finish(r)
    BY <2>7, FinishBase
  <2>8. CASE BeginMatching(r) \/ ApplyAutoAction(r)
    BY <2>8, MatchingBase
  <2>9. CASE EndMatching(r)
    BY <2>9, DoneBase
  <2> QED BY <1>3, <2>1, <2>2, <2>3, <2>4, <2>5, <2>6, <2>7, <2>8, <2>9 DEF Handle
<1>4. ASSUME NEW r \in Requests, Abort(r) PROVE Base'
  <2>1. pc[r] # "idle" /\ Fail(r)
    BY <1>4 DEF Abort, InFlight
  <2> QED BY <2>1, FailBase
<1> QED BY <1>1, <1>2, <1>3, <1>4 DEF Next

THEOREM PayablesInvariant == Spec => []Base
<1>1. PayablesAssumption
  BY PayablesAssumption
<1>2. Init => Base
  BY <1>1, BaseInit
<1>3. Base /\ [Next]_vars => Base'
  BY <1>1, BaseStep
<1> QED BY <1>2, <1>3, PTL DEF Spec

-----------------------------------------------------------------------------
(* Nobody waits for the rows of a schedule that is being made. *)
LEMMA NobodyWaitsForNew ==
  ASSUME PayablesAssumption, Base, NEW v \in Requests, NEW w \in Requests, v # w,
         pc[v] \in Saving, dto[v].kind = "schedule", pc[w] \in Saving,
         NEW x \in DOMAIN pending[v], x \in Keys(w)
  PROVE  FALSE
<1>1. x \in Keys(v) /\ Written(v, x, pending[v][x].entity)
  BY WritesUnfold DEF Keys, Holding
<1>2. x \in Plans \cup PlanLines
  BY <1>1 DEF Written, Rows
<1>3. PICK p : p \in Plans /\ Owns(v, p) /\ Owns(w, p)
  <2>1. \A y \in PlanLines : y[1] \in Plans
    BY DEF PlanLines
  <2> QED BY <1>1, <1>2, <2>1, WritesUnfold DEF Owning
<1>4. p \in Keys(v) /\ rows[p].status = "ABSENT"
  BY <1>3 DEF Owns
<1>5. dto[w].kind # "schedule"
  BY <1>3, <1>4 DEF Owns, Base, Apart
<1>6. rows[p].status # "ABSENT"
  BY <1>3, <1>5 DEF Owns, Base, Request, Names
<1> QED BY <1>4, <1>6

(* A request somebody waits for while it waits itself is the one request   *)
(* whose payment is inserted.                                              *)
LEMMA WaitedFor ==
  ASSUME PayablesAssumption, Base, NEW s \in Requests, NEW t \in WaitsFor(s), pc[t] = "updating"
  PROVE  t \in inserted
<1>1. t \in Requests /\ t # s /\ pc[s] = "updating"
  BY DEF WaitsFor
<1>2. PICK x : x \in Needs(s) /\ x \in DOMAIN pending[t]
  BY DEF WaitsFor
<1>3. todo[s] # << >> /\ DOMAIN diff[s] = DOMAIN Head(todo[s]).image /\ todo[t] # << >>
  BY <1>1, WritesUnfold DEF Compared
<1>4. x \in Keys(s)
  BY <1>1, <1>2, <1>3, HeadIs DEF Needs
<1>5. dto[t].kind # "schedule"
  BY <1>1, <1>2, <1>4, NobodyWaitsForNew
<1>6. dto[t].kind \in Debiting
  BY <1>1, <1>2, <1>3, <1>5, WritesUnfold DEF Planned
<1> QED BY <1>1, <1>6 DEF Base, Request, Writes

LEMMA BaseSafe ==
  ASSUME PayablesAssumption, Base
  PROVE  NeverDeadlocked /\ PaidAtOnceWithinNet
<1>1. ASSUME NEW r \in Requests, NEW D \in SUBSET InFlight, r \in D,
             \A s \in D : WaitsFor(s) \cap D # {}
      PROVE  FALSE
  <2>1. \A s \in D : s \in Requests /\ pc[s] = "updating"
    BY <1>1 DEF InFlight, WaitsFor
  <2>2. PICK t \in D : t \in WaitsFor(r)
    BY <1>1
  <2>3. PICK u \in D : u \in WaitsFor(t)
    BY <1>1, <2>2
  <2>4. t \in inserted /\ u \in inserted
    BY <1>1, <2>1, <2>2, <2>3, WaitedFor
  <2>5. t # u
    BY <2>3 DEF WaitsFor
  <2> QED BY <2>4, <2>5 DEF Base, Serial
<1>2. NeverDeadlocked
  BY <1>1 DEF NeverDeadlocked, Deadlocked
<1>3. ASSUME NEW b \in Bills, ~NetChanged(b), ~\E p \in payments : p.bill = b /\ p.line # << >>
      PROVE  rows[b].paid_amount \in 0 .. rows[b].net_amount + Tolerance
  <2>1. Known(b, rows[b])
    BY Disjoint DEF Base, RowsKnown
  <2> QED BY <1>3, <2>1 DEF Known, PaidInPart
<1> QED BY <1>2, <1>3 DEF PaidAtOnceWithinNet

(* A supplier payment locks the invoice then the account, an installment   *)
(* the account then the invoice; no requests ever wait for each other.     *)
THEOREM NoDeadlock == Spec => []NeverDeadlocked
BY PayablesAssumption, PayablesInvariant, BaseSafe, PTL

(* What is paid at once of an invoice stays within its net amount, unless  *)
(* an installment is paid of it or its net amount changes.                 *)
THEOREM PaymentsWithinNet == Spec => []PaidAtOnceWithinNet
BY PayablesAssumption, PayablesInvariant, BaseSafe, PTL

-----------------------------------------------------------------------------
(* What the committed rows say of the payments: an invoice marked PAID is  *)
(* paid, the installments marked PAID have their payments.  It rests on    *)
(* the invariant above and on two more: Settling, of the invoices that are *)
(* only paid, matched and left to the nightly job, however requests        *)
(* overlap, and InOrder, of every row when they are served one by one.      *)

(* An invoice nobody revises by hand: every save of it writes its paid     *)
(* amount, and its status too unless it would not change it.               *)
Covered(e) == e.status = "PAID" => e.paid_amount >= e.net_amount - Tolerance
Leaves(b, e, cols) ==
  /\ Covered(e) /\ "paid_amount" \in cols
  /\ "status" \in cols \/ (rows[b].status = "PAID" => e.status = "PAID")
Leaving(r, b) ==
  /\ \A n \in DOMAIN todo[r] : b \in DOMAIN todo[r][n].image =>
       Covered(todo[r][n].image[b]) /\ "paid_amount" \in todo[r][n].decimals
  /\ pc[r] = "updating" /\ b \in DOMAIN diff[r] => Leaves(b, Head(todo[r]).image[b], diff[r][b])
  /\ b \in DOMAIN pending[r] => Leaves(b, pending[r][b].entity, pending[r][b].cols)
Settling ==
  \A b \in Bills : ~Revised(b) => Covered(rows[b]) /\ \A r \in Requests : Leaving(r, b)

LEMMA RevisedLater ==
  ASSUME \A s \in Requests : pc[s] # "idle" => pc'[s] # "idle" /\ dto'[s] = dto[s],
         NEW b, ~Revised(b)'
  PROVE  ~Revised(b) /\ ~NetChanged(b)
<1>1. Revised(b) => Revised(b)'
  BY AskedLater DEF Revised
<1>2. NetChanged(b) => Revised(b)
  BY DEF NetChanged, Revised, Asked
<1> QED BY <1>1, <1>2

(* Who writes an invoice that nobody revises pays it. *)
LEMMA PayerOf ==
  ASSUME PayablesAssumption, Base, NEW r \in Requests, NEW b \in Bills, ~Revised(b), b \in Keys(r)
  PROVE  /\ pc[r] \in Saving /\ dto[r].kind \in Debiting
         /\ pc[r] = "updating" \/ b \in DOMAIN pending[r] => r \in inserted
<1>1. pc[r] \in Saving
  <2>1. SUFFICES ASSUME pc[r] \notin Saving PROVE FALSE
    OBVIOUS
  <2>2. todo[r] = << >> /\ DOMAIN pending[r] = {}
    BY <2>1 DEF Base, Request, Writes
  <2> QED BY <2>2 DEF Keys
<1>2. PICK e : Written(r, b, e)
  BY <1>1, WritesUnfold DEF Keys, Holding, Planned
<1>3. dto[r].kind \notin Revising
  <2>1. dto[r].kind \in Revising => b = dto[r].bill
    BY <1>2 DEF Written, BillOf
  <2> QED BY <1>1, <2>1 DEF Revised, Asked
<1>4. dto[r].kind \in Debiting
  BY <1>2, <1>3 DEF Written
<1> QED BY <1>1, <1>4 DEF Base, Request, Writes

LEMMA LeavingStill ==
  ASSUME NEW s \in Requests, NEW b \in Bills, Still(s), Leaving(s, b),
         rows'[b].status = "PAID" => rows[b].status = "PAID"
  PROVE  Leaving(s, b)'
<1>1. \A e, cols : Leaves(b, e, cols) => Leaves(b, e, cols)'
  BY DEF Leaves, Covered
<1>2. ASSUME pc'[s] = "updating", b \in DOMAIN diff'[s]
      PROVE  Leaves(b, Head(todo[s]).image[b], diff[s][b])'
  BY <1>1, <1>2 DEF Still, Leaving
<1>3. ASSUME b \in DOMAIN pending'[s]
      PROVE  Leaves(b, pending[s][b].entity, pending[s][b].cols)'
  BY <1>1, <1>3 DEF Still, Leaving
<1>4. \A n \in DOMAIN todo'[s] : b \in DOMAIN todo'[s][n].image =>
        Covered(todo[s][n].image[b])' /\ "paid_amount" \in todo'[s][n].decimals
  BY DEF Still, Leaving, Covered
<1> QED BY <1>2, <1>3, <1>4 DEF Leaving

(* Steps that take no invoice to PAID nor change what is paid of it. *)
LEMMA SettlingKept ==
  ASSUME PayablesAssumption, Base, Settling, NEW r \in Requests,
         \A s \in Requests \ {r} : Still(s),
         pc[r] # "idle" => pc'[r] # "idle" /\ dto'[r] = dto[r],
         \A b \in Bills : \/ rows'[b] = rows[b]
                          \/ /\ rows'[b].status # "PAID"
                             /\ rows'[b].net_amount = rows[b].net_amount
                             /\ rows'[b].paid_amount = rows[b].paid_amount,
         \A b \in Bills : ~Revised(b) /\ ~Revised(b)' => Leaving(r, b)'
  PROVE  Settling'
<1>1. ASSUME NEW b \in Bills, ~Revised(b)' PROVE ~Revised(b)
  BY <1>1, RevisedLater DEF Still
<1>2. ASSUME NEW b \in Bills, ~Revised(b)', NEW s \in Requests PROVE Leaving(s, b)'
  <2>1. CASE s = r
    BY <1>1, <1>2, <2>1
  <2>2. CASE s # r
    <3>1. Leaving(s, b)
      BY <1>1, <1>2 DEF Settling
    <3> QED BY <1>2, <2>2, <3>1, LeavingStill
  <2> QED BY <2>1, <2>2
<1>3. ASSUME NEW b \in Bills, ~Revised(b)' PROVE Covered(rows[b])'
  <2>1. Covered(rows[b])
    BY <1>1, <1>3 DEF Settling
  <2> QED BY <2>1 DEF Covered
<1> QED BY <1>2, <1>3 DEF Settling

(* Who writes nothing. *)
LEMMA LeavingNothing ==
  ASSUME NEW r \in Requests, NEW b, todo'[r] = << >>, DOMAIN pending'[r] = {}, DOMAIN diff'[r] = {}
  PROVE  Leaving(r, b)'
BY DEF Leaving

LEMMA LeavingSame ==
  ASSUME NEW r \in Requests, NEW b, UNCHANGED <<rows, todo, diff, pending>>,
         Leaving(r, b), pc'[r] = "updating" => pc[r] = "updating"
  PROVE  Leaving(r, b)'
BY DEF Leaving, Leaves, Covered

LEMMA EndSettling ==
  ASSUME PayablesAssumption, Base, Settling, NEW r \in Requests, NEW outcome \in Ended,
         End(r, outcome), UNCHANGED <<rows, payments, load>>, draft' = [draft EXCEPT ![r] = {}],
         inserted' = inserted \ {r}
  PROVE  Settling'
<1>1. Shape
  BY DEF Base
<1>2. /\ \A s \in Requests \ {r} : Still(s)
      /\ todo'[r] = << >> /\ DOMAIN pending'[r] = {} /\ DOMAIN diff'[r] = {}
      /\ pc'[r] # "idle" /\ dto'[r] = dto[r]
  BY <1>1, EndIs DEF Still, Shape
<1> QED BY <1>2, LeavingNothing, SettlingKept

LEMMA FailSettling ==
  ASSUME PayablesAssumption, Base, Settling, NEW r \in Requests, Fail(r)
  PROVE  Settling'
BY EndSettling DEF Fail, Rollback

LEMMA ArriveSettling ==
  ASSUME PayablesAssumption, Base, Settling, NEW r \in Requests, Arrive(r)
  PROVE  Settling'
<1>1. PICK d \in load.inputs :
        /\ pc[r] = "idle" /\ pc' = [pc EXCEPT ![r] = "reading"] /\ dto' = [dto EXCEPT ![r] = d]
        /\ UNCHANGED <<rows, view, todo, diff, pending, payments, draft, inserted, load>>
  BY DEF Arrive, Open, ledgerVars
<1>2. Shape
  BY DEF Base
<1>3. pc'[r] = "reading" /\ \A s \in Requests \ {r} : Still(s)
  BY <1>1, <1>2 DEF Shape, Still
<1>4. \A b \in Bills : ~Revised(b) => Leaving(r, b)'
  BY <1>1, <1>3, LeavingSame DEF Settling
<1> QED BY <1>1, <1>3, <1>4, SettlingKept

(* Steps that leave the saves of the request as they are. *)
LEMMA PhaseSettling ==
  ASSUME PayablesAssumption, Base, Settling, NEW r \in Requests,
         \/ Fetch(r) \/ FraudClear(r) \/ RecordTransaction(r)
         \/ InsertPayment(r) /\ ~Fail(r)
  PROVE  Settling'
<1>1. Shape
  BY DEF Base
<1>2. /\ UNCHANGED <<rows, dto, todo, diff, pending, draft>> /\ pc[r] # "idle"
      /\ \E next \in {"reading", "saving", "recording"} : pc' = [pc EXCEPT ![r] = next]
      /\ \A s \in Requests \ {r} : view'[s] = view[s] /\ (s \in inserted' <=> s \in inserted)
  <2>1. CASE Fetch(r)
    <3>1. pc[r] = "reading" /\ UNCHANGED <<rows, pc, dto, todo, diff, pending, ledgerVars>>
      BY <2>1 DEF Fetch, Read
    <3>2. \A s \in Requests \ {r} : view'[s] = view[s]
      BY <1>1, <2>1 DEF Fetch, Read, Shape
    <3>3. pc' = [pc EXCEPT ![r] = "reading"]
      BY <1>1, <3>1 DEF Shape
    <3> QED BY <3>1, <3>2, <3>3 DEF ledgerVars
  <2>2. CASE FraudClear(r) \/ RecordTransaction(r)
    BY <2>2 DEF FraudClear, RecordTransaction, AllSaved, ledgerVars
  <2>3. CASE InsertPayment(r) /\ ~Fail(r)
    <3>1. pc[r] = "saving" /\ inserted' = {r} /\ inserted = {} /\ UNCHANGED <<sessionVars, draft>>
      BY <2>3, InsertAlone
    <3>2. pc' = [pc EXCEPT ![r] = "saving"]
      BY <1>1, <3>1 DEF Shape, sessionVars
    <3> QED BY <3>1, <3>2 DEF sessionVars
  <2> QED BY <2>1, <2>2, <2>3
<1>3. pc'[r] \in {"reading", "saving", "recording"} /\ \A s \in Requests \ {r} : Still(s)
  BY <1>1, <1>2 DEF Shape, Still
<1>4. \A b \in Bills : ~Revised(b) => Leaving(r, b)'
  BY <1>2, <1>3, LeavingSame DEF Settling
<1> QED BY <1>2, <1>3, <1>4, SettlingKept

LEMMA ProceedSettling ==
  ASSUME PayablesAssumption, Base, Settling, NEW r \in Requests, pc[r] = "reading", NEW saves,
         NEW drafted, Proceed(r, saves), draft' = [draft EXCEPT ![r] = drafted], UNCHANGED inserted,
         \A n \in DOMAIN saves : \A b \in Bills : b \in DOMAIN saves[n].image /\ ~Revised(b) =>
           Covered(saves[n].image[b]) /\ "paid_amount" \in saves[n].decimals
  PROVE  Settling'
<1>1. Shape /\ Request(r)
  BY DEF Base
<1>2. /\ pc' = [pc EXCEPT ![r] = "saving"] /\ todo' = [todo EXCEPT ![r] = saves]
      /\ UNCHANGED <<rows, dto, view, diff, pending>>
  BY DEF Proceed
<1>3. \A s \in Requests \ {r} : Still(s)
  BY <1>1, <1>2 DEF Shape, Still
<1>4. pc'[r] = "saving" /\ todo'[r] = saves /\ DOMAIN pending'[r] = {}
  BY <1>1, <1>2 DEF Shape, Request, Writes
<1>5. \A b \in Bills : ~Revised(b) => Leaving(r, b)'
  BY <1>4 DEF Leaving, Covered
<1> QED BY <1>2, <1>3, <1>4, <1>5, SettlingKept

LEMMA ReviseSettling ==
  ASSUME PayablesAssumption, Base, Settling, NEW r \in Requests,
         Review(r) \/ EditBill(r) \/ Settle(r) \/ Resolve(r), ~Fail(r)
  PROVE  Settling'
<1>a. PICK b : b = dto[r].bill
  OBVIOUS
<1>1. /\ pc[r] = "reading" /\ dto[r].kind \in Revising
      /\ draft' = [draft EXCEPT ![r] = {}] /\ UNCHANGED inserted
  BY ReviseIs
<1>2. PICK e, cols : Proceed(r, <<Save(b, e, cols)>>)
  BY <1>a, ReviseIs
<1>b. PICK one, s : one = Save(b, e, cols) /\ s = <<one>>
  OBVIOUS
<1>3. DOMAIN s = {1} /\ DOMAIN s[1].image = {b}
  BY <1>b, OfLength, SaveIs
<1>4. Revised(b)
  BY <1>1, <1>a DEF Revised, Asked
<1>5. \A n \in DOMAIN s : \A c \in Bills : c \in DOMAIN s[n].image => c = b
  BY <1>3
<1> QED BY <1>1, <1>2, <1>4, <1>5, <1>b, ProceedSettling

LEMMA AnswerSettling ==
  ASSUME PayablesAssumption, Base, Settling, NEW r \in Requests, Answer(r), ~Fail(r)
  PROVE  Settling'
<1>1. /\ pc[r] = "reading" /\ dto[r].plan \in Plans
      /\ draft' = [draft EXCEPT ![r] = {}] /\ UNCHANGED inserted
  BY AnswerIs
<1>a. PICK p : p = dto[r].plan
  OBVIOUS
<1>2. PICK schedule : Proceed(r, <<SaveSchedule(r, p, schedule)>>)
  BY <1>a, AnswerIs
<1>b. PICK one, s : one = SaveSchedule(r, p, schedule) /\ s = <<one>>
  OBVIOUS
<1>3. DOMAIN s = {1} /\ DOMAIN s[1].image = {p} \cup ({p} \X Lines)
  BY <1>b, OfLength DEF SaveSchedule
<1>4. \A n \in DOMAIN s : \A c \in Bills : c \notin DOMAIN s[n].image
  <2>1. \A m \in Lines : <<p, m>> \notin Bills
    BY <1>1, <1>a, Disjoint
  <2> QED BY <1>1, <1>3, <1>a, <2>1, Disjoint
<1> QED BY <1>1, <1>2, <1>4, <1>b, ProceedSettling

LEMMA CreateSettling ==
  ASSUME PayablesAssumption, Base, Settling, NEW r \in Requests, CreateSchedule(r), ~Fail(r)
  PROVE  Settling'
<1>1. /\ pc[r] = "reading" /\ draft' = [draft EXCEPT ![r] = {}] /\ UNCHANGED inserted
  BY CreateIs
<1>2. PICK p \in Unused : Proceed(r, NewSchedule(r, p))
  BY CreateIs
<1>a. PICK s : s = NewSchedule(r, p)
  OBVIOUS
<1>3. /\ DOMAIN s = {1, 2}
      /\ DOMAIN s[1].image = {p} /\ DOMAIN s[2].image = {p} \X Lines
  BY <1>a, NewScheduleRows
<1>4. \A n \in DOMAIN s : \A c \in Bills : c \notin DOMAIN s[n].image
  <2>1. p \in Plans
    BY DEF Unused
  <2>2. \A m \in Lines : <<p, m>> \notin Bills
    BY <2>1, Disjoint
  <2> QED BY <1>3, <2>1, <2>2, Disjoint
<1> QED BY <1>1, <1>2, <1>4, <1>a, ProceedSettling

LEMMA WithPaymentCovered ==
  ASSUME NEW bill \in Bill, NEW amount \in Nat
  PROVE  Covered(WithPayment(bill, amount))
BY WithPaymentIs DEF Covered

LEMMA PaySettling ==
  ASSUME PayablesAssumption, Base, Settling, NEW r \in Requests, PaySupplier(r), ~Fail(r)
  PROVE  Settling'
<1>a. PICK a, b, amount, paid, debited, debits, p, s :
        /\ a = dto[r].account /\ b = dto[r].bill /\ amount = dto[r].amount
        /\ paid = WithPayment(view[r][b], amount) /\ debited = Debited(r, a, amount)
        /\ debits = Save(a, debited, {"current_balance"})
        /\ p = Payment(r, NextNumber, b, amount, << >>)
        /\ s = Paying(r) \o <<debits>>
  OBVIOUS
<1>1. /\ pc[r] = "reading" /\ amount \in Nat /\ a \in Accounts
      /\ b # NoBill => b \in Bills /\ b \in DOMAIN view[r]
      /\ Proceed(r, s)
      /\ draft' = [draft EXCEPT ![r] = {p}] /\ UNCHANGED inserted
  BY <1>a, PayIs
<1>2. ASSUME NEW n \in DOMAIN s, NEW c \in Bills, c \in DOMAIN s[n].image
      PROVE  Covered(s[n].image[c]) /\ "paid_amount" \in s[n].decimals
  <2>1. CASE b = NoBill
    <3>1. s = <<debits>>
      BY <1>a, <2>1, Joined DEF Paying
    <3>2. DOMAIN s = {1} /\ s[1] = debits
      BY <3>1, OfLength
    <3>3. DOMAIN debits.image = {a}
      BY <1>a, SaveIs
    <3> QED BY <1>1, <1>2, <3>2, <3>3, Disjoint
  <2>2. CASE b # NoBill
    <3>a. PICK pays : pays = Save(b, paid, {"paid_amount"})
      OBVIOUS
    <3>1. s = <<pays, debits>>
      BY <1>a, <2>2, <3>a, Joined DEF Paying
    <3>2. DOMAIN s = {1, 2} /\ s[1] = pays /\ s[2] = debits
      BY <3>1, OfLength
    <3>3. /\ DOMAIN pays.image = {b} /\ pays.image[b] = paid /\ pays.decimals = {"paid_amount"}
          /\ DOMAIN debits.image = {a}
      BY <1>a, <3>a, SaveIs
    <3>4. c = b /\ n = 1
      BY <1>1, <1>2, <3>2, <3>3, Disjoint
    <3>5. view[r][b] \in Bill
      BY <1>1, <2>2, BillRead
    <3>6. Covered(paid)
      BY <1>1, <1>a, <3>5, WithPaymentCovered
    <3> QED BY <3>2, <3>3, <3>4, <3>6
  <2> QED BY <2>1, <2>2
<1> QED BY <1>1, <1>2, ProceedSettling

LEMMA InstallmentSettling ==
  ASSUME PayablesAssumption, Base, Settling, NEW r \in Requests, PayInstallment(r), ~Fail(r)
  PROVE  Settling'
<1>a. PICK p, x, a, b, amount :
        /\ p = dto[r].plan /\ x = <<p, dto[r].line>> /\ a = dto[r].account /\ b = rows[p].bill
        /\ amount = view[r][x].amount
  OBVIOUS
<1>b. PICK due, s : due = Payment(r, NextNumber, b, amount, x) /\ s = Paying3(r, x, a, b, amount)
  OBVIOUS
<1>c. /\ p = dto[r].plan /\ x = <<p, dto[r].line>> /\ a = dto[r].account /\ b = rows[p].bill
      /\ amount = view[r][x].amount
  BY <1>a
<1>1. /\ pc[r] = "reading" /\ x \in PlanLines /\ a \in Accounts /\ b \in Bills
      /\ b \in DOMAIN view[r] /\ amount \in Nat /\ UNCHANGED inserted
  BY <1>c, InstallmentIs
<1>2. Proceed(r, s)
  <2>1. Proceed(r, Paying3(r, x, a, b, amount))
    BY <1>c, InstallmentIs
  <2> QED BY <1>b, <2>1
<1>3. draft' = [draft EXCEPT ![r] = {due}]
  <2>1. draft' = [draft EXCEPT ![r] = {Payment(r, NextNumber, b, amount, x)}]
    BY <1>c, InstallmentIs
  <2> QED BY <1>b, <2>1
<1>4. /\ DOMAIN s = {1, 2, 3} /\ DOMAIN s[1].image = {x} /\ DOMAIN s[2].image = {a}
      /\ DOMAIN s[3].image = {b} /\ s[3].image[b] = WithPayment(view[r][b], amount)
      /\ s[3].decimals = {"paid_amount"}
  BY <1>b, Paying3Is
<1>5. Covered(s[3].image[b])
  BY <1>1, <1>4, BillRead, WithPaymentCovered
<1>6. ASSUME NEW n \in DOMAIN s, NEW c \in Bills, c \in DOMAIN s[n].image
      PROVE  Covered(s[n].image[c]) /\ "paid_amount" \in s[n].decimals
  <2>1. n = 3 /\ c = b
    BY <1>1, <1>4, <1>6, Disjoint
  <2> QED BY <1>4, <1>5, <2>1
<1> QED BY <1>1, <1>2, <1>3, <1>6, ProceedSettling

(* A save writes the status unless it is the one it found. *)
LEMMA ReloadSettling ==
  ASSUME PayablesAssumption, Base, Settling, NEW r \in Requests, Reload(r), UNCHANGED ledgerVars
  PROVE  Settling'
<1>1. Shape
  BY DEF Base
<1>2. /\ pc[r] = "saving" /\ todo[r] # << >> /\ pc'[r] = "updating"
      /\ pc' = [pc EXCEPT ![r] = "updating"]
      /\ DOMAIN diff'[r] = DOMAIN Head(todo[r]).image
      /\ \A x \in DOMAIN diff'[r] : diff'[r][x] =
           Differing(Head(todo[r]).image[x], Head(todo[r]).decimals, Seen(r, x))
      /\ DOMAIN diff' = Requests /\ \A s \in Requests \ {r} : diff'[s] = diff[s]
      /\ UNCHANGED <<rows, dto, view, todo, pending, payments, draft, inserted, load>>
  BY <1>1, ReloadIs DEF ledgerVars
<1>3. \A s \in Requests \ {r} : Still(s)
  BY <1>1, <1>2 DEF Shape, Still
<1>4. ASSUME NEW b \in Bills, ~Revised(b) PROVE Leaving(r, b)'
  <2>1. Leaving(r, b)
    BY <1>4 DEF Settling
  <2>2. ASSUME b \in DOMAIN diff'[r]
        PROVE  Leaves(b, Head(todo[r]).image[b], diff'[r][b])
    <3>a. PICK e, decimals : e = Head(todo[r]).image[b] /\ decimals = Head(todo[r]).decimals
      OBVIOUS
    <3>1. b \notin DOMAIN pending[r] /\ Written(r, b, e) /\ Head(todo[r]) = todo[r][1] /\ 1 \in DOMAIN todo[r]
      BY <1>2, <2>2, <3>a, HeadIs
    <3>2. diff'[r][b] = Differing(e, decimals, rows[b])
      BY <1>2, <2>2, <3>1, <3>a DEF Seen
    <3>3. Covered(e) /\ "paid_amount" \in decimals
      BY <1>2, <2>1, <2>2, <3>1, <3>a DEF Leaving
    <3>4. DOMAIN rows[b] = {"status", "net_amount", "paid_amount"}
      <4>1. rows[b] \in Bill
        BY Disjoint DEF Base, RowsKnown, Known, IsRow
      <4> QED BY <4>1 DEF Bill
    <3> QED BY <3>2, <3>3, <3>4, <3>a DEF Leaves, Differing
  <2>3. \A n \in DOMAIN todo'[r] : b \in DOMAIN todo'[r][n].image =>
          Covered(todo'[r][n].image[b]) /\ "paid_amount" \in todo'[r][n].decimals
    BY <1>2, <2>1 DEF Leaving, Covered
  <2>4. \A e, cols : Leaves(b, e, cols) => Leaves(b, e, cols)'
    BY <1>2 DEF Leaves, Covered
  <2>5. b \in DOMAIN diff'[r] => Leaves(b, Head(todo[r]).image[b], diff[r][b])'
    BY <1>2, <2>2, <2>4
  <2>6. b \in DOMAIN pending'[r] => Leaves(b, pending[r][b].entity, pending[r][b].cols)'
    BY <1>2, <2>1, <2>4 DEF Leaving
  <2> QED BY <2>3, <2>5, <2>6 DEF Leaving, Covered
<1> QED BY <1>2, <1>3, <1>4, SettlingKept

LEMMA UpdateSettling ==
  ASSUME PayablesAssumption, Base, Settling, NEW r \in Requests, Update(r), UNCHANGED ledgerVars
  PROVE  Settling'
<1>1. Shape
  BY DEF Base
<1>2. /\ pc[r] = "updating" /\ pc'[r] = "saving" /\ todo'[r] = Tail(todo[r])
      /\ pc' = [pc EXCEPT ![r] = "saving"]
      /\ DOMAIN pending'[r] = DOMAIN pending[r] \cup Needs(r)
      /\ \A x \in Needs(r) : pending'[r][x].entity = Head(todo[r]).image[x]
      /\ \A x \in Needs(r) : pending'[r][x].cols = diff[r][x]
      /\ \A x \in DOMAIN pending[r] \ Needs(r) : pending'[r][x] = pending[r][x]
      /\ \A s \in Requests \ {r} :
           todo'[s] = todo[s] /\ pending'[s] = pending[s] /\ diff'[s] = diff[s]
      /\ UNCHANGED <<rows, dto, view, payments, draft, inserted, load>>
  BY <1>1, UpdateIs DEF ledgerVars
<1>3. \A s \in Requests \ {r} : Still(s)
  BY <1>1, <1>2 DEF Shape, Still
<1>4. \A n \in DOMAIN Tail(todo[r]) : n + 1 \in DOMAIN todo[r] /\ Tail(todo[r])[n] = todo[r][n + 1]
  BY <1>2, WritesUnfold, ListedTail DEF Compared
<1>5. ASSUME NEW b \in Bills, ~Revised(b) PROVE Leaving(r, b)'
  <2>1. Leaving(r, b)
    BY <1>5 DEF Settling
  <2>2. \A n \in DOMAIN todo'[r] : b \in DOMAIN todo'[r][n].image =>
          Covered(todo'[r][n].image[b]) /\ "paid_amount" \in todo'[r][n].decimals
    BY <1>2, <1>4, <2>1 DEF Leaving, Covered
  <2>3. ASSUME b \in DOMAIN pending'[r] PROVE Leaves(b, pending'[r][b].entity, pending'[r][b].cols)
    <3>1. CASE b \in Needs(r)
      <4>1. b \in DOMAIN diff[r]
        BY <3>1 DEF Needs
      <4> QED BY <1>2, <2>1, <3>1, <4>1 DEF Leaving
    <3>2. CASE b \notin Needs(r)
      BY <1>2, <2>1, <2>3, <3>2 DEF Leaving
    <3> QED BY <3>1, <3>2
  <2>4. \A e, cols : Leaves(b, e, cols) => Leaves(b, e, cols)'
    BY <1>2 DEF Leaves, Covered
  <2>5. b \in DOMAIN pending'[r] => Leaves(b, pending[r][b].entity, pending[r][b].cols)'
    BY <2>3, <2>4
  <2> QED BY <1>2, <2>2, <2>5 DEF Leaving, Covered
<1> QED BY <1>2, <1>3, <1>5, SettlingKept

(* A payment commits alone: the others that would write its invoice are    *)
(* waiting for its number.                                                 *)
LEMMA FinishSettling ==
  ASSUME PayablesAssumption, Base, Settling, NEW r \in Requests, Finish(r)
  PROVE  Settling'
<1>1. Shape
  BY DEF Base
<1>2. pc[r] = "saving" /\ End(r, "done")
      /\ draft' = [draft EXCEPT ![r] = {}] /\ inserted' = inserted \ {r}
  BY FinishIs
<1>3. /\ \A s \in Requests \ {r} : Still(s)
      /\ todo'[r] = << >> /\ DOMAIN pending'[r] = {} /\ DOMAIN diff'[r] = {}
      /\ pc'[r] # "idle" /\ dto'[r] = dto[r]
  BY <1>1, <1>2, EndIs DEF Still, Shape
<1>4. ASSUME NEW b \in Bills, ~Revised(b)' PROVE ~Revised(b) /\ ~NetChanged(b)
  BY <1>3, <1>4, RevisedLater DEF Still
<1>5. ASSUME NEW b \in Bills, ~Revised(b)' PROVE Covered(rows'[b])
  <2>1. Covered(rows[b]) /\ Leaving(r, b)
    BY <1>4, <1>5 DEF Settling
  <2>2. rows[b] \in Bill
    BY Disjoint DEF Base, RowsKnown, Known, IsRow
  <2>3. CASE b \notin DOMAIN pending[r]
    BY <2>1, <2>3, FinishBill
  <2>4. CASE b \in DOMAIN pending[r]
    <3>a. PICK e, cols : e = pending[r][b].entity /\ cols = pending[r][b].cols
      OBVIOUS
    <3>1. /\ rows'[b].status = IF "status" \in cols THEN e.status ELSE rows[b].status
          /\ rows'[b].net_amount = IF "net_amount" \in cols THEN e.net_amount ELSE rows[b].net_amount
          /\ rows'[b].paid_amount = IF "paid_amount" \in cols THEN e.paid_amount ELSE rows[b].paid_amount
          /\ e \in Bill /\ Written(r, b, e)
      BY <2>4, <3>a, FinishBill
    <3>2. e.net_amount = rows[b].net_amount
      BY <1>4, <1>5, <3>1 DEF Written
    <3>3. Leaves(b, e, cols)
      BY <2>1, <2>4, <3>a DEF Leaving
    <3> QED BY <2>1, <3>1, <3>2, <3>3 DEF Covered, Leaves
  <2> QED BY <2>3, <2>4
<1>6. ASSUME NEW b \in Bills, ~Revised(b)', NEW s \in Requests PROVE Leaving(s, b)'
  <2>1. CASE s = r
    BY <1>3, <2>1, LeavingNothing
  <2>2. CASE s # r
    <3>1. Leaving(s, b) /\ Still(s)
      BY <1>3, <1>4, <1>6, <2>2 DEF Settling
    <3>2. CASE rows'[b] = rows[b]
      BY <3>1, <3>2, LeavingStill
    <3>3. CASE rows'[b] # rows[b]
      <4>1. b \in DOMAIN pending[r] /\ b \in Keys(r)
        BY <3>3, FinishBill DEF Keys
      <4>2. r \in inserted
        BY <1>4, <1>6, <4>1, PayerOf
      <4>3. ASSUME pc[s] = "updating" \/ b \in DOMAIN pending[s], b \in Keys(s) PROVE FALSE
        <5>1. s \in inserted
          BY <1>4, <1>6, <4>3, PayerOf
        <5> QED BY <2>2, <4>2, <5>1 DEF Base, Serial
      <4>4. b \notin DOMAIN pending[s]
        BY <4>3 DEF Keys
      <4>5. ~(pc[s] = "updating" /\ b \in DOMAIN diff[s])
        <5>1. ASSUME pc[s] = "updating", b \in DOMAIN diff[s] PROVE b \in Keys(s)
          BY <5>1, WritesUnfold, HeadIs DEF Compared
        <5> QED BY <4>3, <5>1
      <4> QED BY <3>1, <4>4, <4>5 DEF Leaving, Still, Covered
    <3> QED BY <3>2, <3>3
  <2> QED BY <2>1, <2>2
<1>7. \A b \in Bills : Covered(rows'[b]) => Covered(rows[b])'
  BY DEF Covered
<1> QED BY <1>5, <1>6, <1>7 DEF Settling

LEMMA MatchingIs ==
  ASSUME PayablesAssumption, Base, NEW r \in Requests, BeginMatching(r) \/ ApplyAutoAction(r)
  PROVE  /\ pc[r] # "idle" /\ pc'[r] = "matching" /\ UNCHANGED <<dto, todo, diff, pending, ledgerVars>>
         /\ \A s \in Requests \ {r} : Still(s)
         /\ \A x \in Rows :
              \/ rows'[x] = rows[x]
              \/ /\ x \in Bills /\ x \in DOMAIN view[r] /\ pc[r] = "matching"
                 /\ rows'[x].status \in {"APPROVED", "DISPUTED"}
                 /\ rows'[x].net_amount = rows[x].net_amount
                 /\ rows'[x].paid_amount = rows[x].paid_amount
<1>1. Shape
  BY DEF Base
<1>2. CASE BeginMatching(r)
  <2>1. /\ pc[r] = "reading" /\ pc' = [pc EXCEPT ![r] = "matching"]
        /\ \A s \in Requests \ {r} : view'[s] = view[s]
        /\ UNCHANGED <<rows, dto, todo, diff, pending, ledgerVars>>
    BY <1>1, <1>2 DEF BeginMatching, Handles, Shape
  <2> QED BY <1>1, <2>1 DEF Shape, Still, ledgerVars
<1>3. CASE ApplyAutoAction(r)
  <2>1. /\ pc[r] = "matching" /\ UNCHANGED <<pc, dto, todo, diff, pending, ledgerVars>>
        /\ \A s \in Requests \ {r} : view'[s] = view[s]
    BY <1>1, <1>3 DEF ApplyAutoAction, Shape
  <2>2. \A s \in Requests \ {r} : Still(s)
    BY <2>1 DEF Still, ledgerVars
  <2>3. PICK b \in DOMAIN view[r] :
          \/ rows' = rows
          \/ \E status \in {"APPROVED", "DISPUTED"} : rows' = [rows EXCEPT ![b].status = status]
    BY <1>3 DEF ApplyAutoAction
  <2>4. b \in Bills /\ b \in Rows /\ rows[b] \in Bill
    <3>1. HasRead1(r, b, view[r][b]) /\ dto[r].kind \in Matched
      BY <2>1 DEF Base, Request, Informed
    <3>2. b \in Bills
      BY <3>1 DEF HasRead1
    <3> QED BY <3>2, Disjoint DEF Base, RowsKnown, Known, IsRow
  <2>5. ASSUME NEW status \in {"APPROVED", "DISPUTED"}, rows' = [rows EXCEPT ![b].status = status]
        PROVE  /\ \A x \in Rows : x # b => rows'[x] = rows[x]
               /\ rows'[b] = [rows[b] EXCEPT !.status = status]
    BY <1>1, <2>4, <2>5 DEF Shape
  <2>6. ASSUME NEW status \in {"APPROVED", "DISPUTED"}
        PROVE  /\ [rows[b] EXCEPT !.status = status].status \in {"APPROVED", "DISPUTED"}
               /\ [rows[b] EXCEPT !.status = status].net_amount = rows[b].net_amount
               /\ [rows[b] EXCEPT !.status = status].paid_amount = rows[b].paid_amount
    BY <2>4 DEF Bill
  <2> QED BY <2>1, <2>2, <2>3, <2>4, <2>5, <2>6
<1> QED BY <1>2, <1>3

LEMMA MatchingSettling ==
  ASSUME PayablesAssumption, Base, Settling, NEW r \in Requests,
         BeginMatching(r) \/ ApplyAutoAction(r)
  PROVE  Settling'
<1>1. /\ pc[r] # "idle" /\ pc'[r] = "matching" /\ UNCHANGED <<dto, todo, diff, pending, ledgerVars>>
      /\ \A s \in Requests \ {r} : Still(s)
      /\ \A b \in Bills : \/ rows'[b] = rows[b]
                          \/ /\ rows'[b].status # "PAID"
                             /\ rows'[b].net_amount = rows[b].net_amount
                             /\ rows'[b].paid_amount = rows[b].paid_amount
  BY MatchingIs, Disjoint
<1>2. pc[r] \notin Saving
  BY DEF BeginMatching, ApplyAutoAction, Handles
<1>3. todo'[r] = << >> /\ DOMAIN pending'[r] = {} /\ DOMAIN diff'[r] = {}
  BY <1>1, <1>2 DEF Base, Request, Writes
<1> QED BY <1>1, <1>3, LeavingNothing, SettlingKept

LEMMA DoneSettling ==
  ASSUME PayablesAssumption, Base, Settling, NEW r \in Requests, MarkOverdue(r) \/ EndMatching(r)
  PROVE  Settling'
<1>1. Shape
  BY DEF Base
<1>2. /\ pc[r] \in {"reading", "matching"} /\ End(r, "done") /\ UNCHANGED <<draft, inserted>>
  BY OverdueIs DEF EndMatching, ledgerVars
<1>3. /\ \A s \in Requests \ {r} : Still(s)
      /\ todo'[r] = << >> /\ DOMAIN pending'[r] = {} /\ DOMAIN diff'[r] = {}
      /\ pc'[r] # "idle" /\ dto'[r] = dto[r]
  BY <1>1, <1>2, EndIs DEF Still, Shape
<1>4. \A b \in Bills : \/ rows'[b] = rows[b]
                       \/ /\ rows'[b].status # "PAID"
                          /\ rows'[b].net_amount = rows[b].net_amount
                          /\ rows'[b].paid_amount = rows[b].paid_amount
  <2>1. CASE EndMatching(r)
    BY <2>1 DEF EndMatching
  <2>2. CASE MarkOverdue(r)
    BY <2>2, OverdueIs, LateRows, Disjoint
  <2> QED BY <2>1, <2>2
<1> QED BY <1>2, <1>3, <1>4, LeavingNothing, SettlingKept

LEMMA SettlingInit == PayablesAssumption /\ Init => Settling
<1> SUFFICES ASSUME PayablesAssumption, Init PROVE Settling
  OBVIOUS
<1>1. /\ todo = [r \in Requests |-> << >>] /\ diff = [r \in Requests |-> Nothing]
      /\ pending = [r \in Requests |-> Nothing] /\ DOMAIN Nothing = {}
  BY DEF Init, SessionsInit, Nothing
<1>2. \A r \in Requests, b \in Bills : Leaving(r, b)
  BY <1>1 DEF Leaving
<1>3. \A b \in Bills : rows[b].status # "PAID"
  BY InitRows
<1> QED BY <1>2, <1>3 DEF Settling, Covered

LEMMA SettlingStep ==
  ASSUME PayablesAssumption, Base, Settling, [Next]_vars
  PROVE  Settling'
<1>1. CASE UNCHANGED vars
  <2>1. \A r \in Requests, b \in Bills : Leaving(r, b) => Leaving(r, b)'
    BY <1>1 DEF Leaving, Leaves, Covered, vars, sessionVars
  <2>2. \A b \in Bills : Revised(b)' <=> Revised(b)
    BY <1>1 DEF Revised, Asked, vars, sessionVars
  <2> QED BY <1>1, <2>1, <2>2 DEF Settling, Covered, vars, sessionVars
<1>2. ASSUME NEW r \in Requests, Arrive(r) PROVE Settling'
  BY <1>2, ArriveSettling
<1>3. ASSUME NEW r \in Requests, Fail(r) PROVE Settling'
  BY <1>3, FailSettling
<1>4. ASSUME NEW r \in Requests, Handle(r), ~Fail(r) PROVE Settling'
  <2>1. CASE Fetch(r) \/ FraudClear(r) \/ RecordTransaction(r) \/ InsertPayment(r)
    BY <1>4, <2>1, PhaseSettling
  <2>2. CASE PaySupplier(r) \/ CreateSchedule(r) \/ Answer(r) \/ PayInstallment(r)
    BY <1>4, <2>2, PaySettling, CreateSettling, AnswerSettling, InstallmentSettling
  <2>3. CASE Review(r) \/ EditBill(r) \/ Settle(r) \/ Resolve(r)
    BY <1>4, <2>3, ReviseSettling
  <2>4. CASE MarkOverdue(r) \/ EndMatching(r)
    BY <2>4, DoneSettling
  <2>5. CASE Write(r)
    BY <2>5, ReloadSettling, UpdateSettling DEF Write
  <2>6. CASE Finish(r)
    BY <2>6, FinishSettling
  <2>7. CASE BeginMatching(r) \/ ApplyAutoAction(r)
    BY <2>7, MatchingSettling
  <2>8. CASE FraudBlock(r)
    BY <1>4, <2>8 DEF FraudBlock
  <2> QED BY <1>4, <2>1, <2>2, <2>3, <2>4, <2>5, <2>6, <2>7, <2>8 DEF Handle
<1> QED BY <1>1, <1>2, <1>3, <1>4 DEF Next, Abort

-----------------------------------------------------------------------------
(* One by one: what a request has read is what is there, and what it will  *)
(* have written when it commits is settled when it decides.                *)
PaidAmong(P, b) == SumFunctionOnSet([p \in P |-> IF p.bill = b THEN p.amount ELSE 0], P)
Explains(table, P) ==
  /\ \A b \in Bills :
       Covered(table[b]) /\ (~Asked({"settle"}, b) => table[b].paid_amount = PaidAmong(P, b))
  /\ \A p \in P : p.line # << >> =>
       /\ p.line \in PlanLines
       /\ table[p.line].status = "PAID" /\ table[p.line[1]].status = "ACTIVE"
  /\ \A p, q \in P : p.line # << >> /\ p.line = q.line => p = q
  /\ \A p, q \in Plans : table[p].bill = table[q].bill /\ table[p].bill # NoBill => p = q
StaysPaid(table) ==
  LeftAlone => \A b \in Bills : rows[b].status = "PAID" => table[b].status = "PAID"
Overwrites(saves, goal) ==
  /\ \A n \in DOMAIN saves : \A x \in DOMAIN saves[n].image : goal[x] = saves[n].image[x]
  /\ \A x \in Rows : (\A n \in DOMAIN saves : x \notin DOMAIN saves[n].image) => goal[x] = rows[x]
Reaches(r, goal) ==
  /\ \A n \in DOMAIN todo[r] : \A x \in DOMAIN todo[r][n].image : goal[x] = todo[r][n].image[x]
  /\ \A x \in Rows : (\A n \in DOMAIN todo[r] : x \notin DOMAIN todo[r][n].image) =>
       goal[x] = Seen(r, x)
Served(r) ==
  /\ pc[r] = "reading" => \A x \in DOMAIN view[r] : view[r][x] = rows[x]
  /\ pc[r] = "matching" /\ dto[r].kind = "matchAll" =>
       \A x \in DOMAIN view[r] : rows[x].status = "PENDING"
  /\ pc[r] = "updating" => \A x \in DOMAIN diff[r] : diff[r][x] =
       Differing(Head(todo[r]).image[x], Head(todo[r]).decimals, rows[x])
  /\ pc[r] \in Saving => \E goal : /\ Reaches(r, goal) /\ StaysPaid(goal)
                                   /\ Explains(goal, payments \cup draft[r])
InOrder ==
  OneByOne => /\ IsFiniteSet(InFlight) /\ \A r, s \in InFlight : r = s
              /\ Explains(rows, payments)
              /\ \A r \in Requests : Served(r)

LEMMA Only ==
  ASSUME InOrder, OneByOne, NEW r \in Requests, pc[r] \notin {"idle"} \cup Ended
  PROVE  \A s \in Requests \ {r} : pc[s] \in {"idle"} \cup Ended
BY DEF InOrder, InFlight

(* A step of the request that is served. *)
LEMMA InOrderKept ==
  ASSUME InOrder, OneByOne, NEW r \in Requests, pc[r] \notin {"idle"} \cup Ended,
         \A s \in Requests \ {r} : pc'[s] = pc[s],
         Explains(rows, payments)', Served(r)'
  PROVE  InOrder'
<1>1. \A s \in Requests \ {r} : pc'[s] \in {"idle"} \cup Ended
  BY Only
<1>2. \A s \in Requests \ {r} : Served(s)'
  BY <1>1 DEF Served
<1>3. InFlight' \subseteq {r}
  BY <1>1 DEF InFlight
<1>4. IsFiniteSet(InFlight')
  BY <1>3, FS_Singleton, FS_Subset
<1> QED BY <1>2, <1>3, <1>4 DEF InOrder

LEMMA ExplainsLater ==
  ASSUME \A s \in Requests : pc[s] # "idle" => pc'[s] # "idle" /\ dto'[s] = dto[s],
         NEW table, NEW P, Explains(table, P)
  PROVE  Explains(table, P)'
<1>1. \A b : ~Asked({"settle"}, b)' => ~Asked({"settle"}, b)
  BY AskedLater
<1>2. \A b \in Bills : Covered(table[b])' <=> Covered(table[b])
  BY DEF Covered
<1>3. \A b : PaidAmong(P, b)' = PaidAmong(P, b)
  BY DEF PaidAmong
<1> QED BY <1>1, <1>2, <1>3 DEF Explains

(* Only the rows count. *)
LEMMA ExplainsSame ==
  ASSUME PayablesAssumption, NEW table, NEW other, NEW P, \A x \in Rows : other[x] = table[x],
         Explains(table, P)
  PROVE  Explains(other, P)
<1>1. \A x \in Bills \cup Plans \cup PlanLines : other[x] = table[x]
  BY Disjoint
<1>2. \A x \in PlanLines : x[1] \in Plans
  BY DEF PlanLines
<1> QED BY <1>1, <1>2 DEF Explains

LEMMA StillThere ==
  ASSUME \A s \in Requests : pc[s] # "idle" => pc'[s] # "idle" /\ dto'[s] = dto[s],
         UNCHANGED <<rows, payments>>, Explains(rows, payments)
  PROVE  Explains(rows, payments)'
<1>1. PICK table, P : table = rows /\ P = payments
  OBVIOUS
<1>2. Explains(table, P)'
  BY <1>1, ExplainsLater
<1> QED BY <1>1, <1>2

LEMMA FailInOrder ==
  ASSUME Base, InOrder, OneByOne, NEW r \in Requests, pc[r] \notin {"idle"} \cup Ended, Fail(r)
  PROVE  InOrder'
<1>1. /\ pc'[r] = "failed" /\ UNCHANGED <<rows, payments, load, dto>>
      /\ \A s \in Requests \ {r} : pc'[s] = pc[s]
  BY EndIs DEF Fail, Rollback, Base
<1>2. Explains(rows, payments)'
  BY <1>1, StillThere DEF InOrder
<1>3. Served(r)'
  BY <1>1 DEF Served
<1> QED BY <1>1, <1>2, <1>3, InOrderKept

LEMMA ArriveInOrder ==
  ASSUME PayablesAssumption, Base, InOrder, OneByOne, NEW r \in Requests, Arrive(r)
  PROVE  InOrder'
<1>1. PICK d \in load.inputs :
        /\ pc[r] = "idle" /\ pc' = [pc EXCEPT ![r] = "reading"] /\ dto' = [dto EXCEPT ![r] = d]
        /\ UNCHANGED <<rows, view, todo, diff, pending, payments, draft, inserted, load>>
        /\ Cardinality(InFlight) < 1
  BY DEF Arrive, Open, Room, ledgerVars, OneByOne
<1>2. InFlight = {}
  <2>1. IsFiniteSet(InFlight) /\ Cardinality(InFlight) \in Nat
    BY FS_CardinalityType DEF InOrder
  <2> QED BY <1>1, <2>1, FS_EmptySet
<1>3. pc'[r] = "reading" /\ \A s \in Requests \ {r} : pc'[s] = pc[s] /\ dto'[s] = dto[s]
  BY <1>1 DEF Base, Shape
<1>4. \A s \in Requests : s # r => pc'[s] \in {"idle"} \cup Ended
  BY <1>2, <1>3 DEF InFlight
<1>5. IsFiniteSet(InFlight)' /\ \A s, t \in InFlight' : s = t
  <2>1. InFlight' \subseteq {r}
    BY <1>4 DEF InFlight
  <2> QED BY <2>1, FS_Singleton, FS_Subset
<1>6. Explains(rows, payments)'
  BY <1>1, <1>3, StillThere DEF InOrder
<1>7. Served(r)'
  <2>1. DOMAIN view'[r] = {}
    BY <1>1 DEF Base, Request, Informed
  <2> QED BY <1>3, <2>1 DEF Served
<1>8. \A s \in Requests : s # r => Served(s)'
  BY <1>4 DEF Served
<1> QED BY <1>5, <1>6, <1>7, <1>8 DEF InOrder

(* What will have been written does not change while it is being written. *)
LEMMA ServedStill ==
  ASSUME \A s \in Requests : pc[s] # "idle" => pc'[s] # "idle" /\ dto'[s] = dto[s],
         NEW r \in Requests, UNCHANGED <<rows, todo, pending, payments, draft, load>>,
         pc[r] \in Saving, Served(r)
  PROVE  \E goal : Reaches(r, goal)' /\ StaysPaid(goal)' /\ Explains(goal, payments \cup draft[r])'
<1>1. PICK goal : Reaches(r, goal) /\ StaysPaid(goal) /\ Explains(goal, payments \cup draft[r])
  BY DEF Served
<1>2. Reaches(r, goal)' /\ StaysPaid(goal)'
  BY <1>1 DEF Reaches, StaysPaid, Seen, Merge, LeftAlone
<1>3. PICK P : P = payments \cup draft[r]
  OBVIOUS
<1>4. Explains(goal, P)'
  BY <1>1, <1>3, ExplainsLater
<1>5. P' = payments' \cup draft'[r]
  BY <1>3
<1> QED BY <1>2, <1>3, <1>4, <1>5

LEMMA PhaseInOrder ==
  ASSUME PayablesAssumption, Base, InOrder, OneByOne, NEW r \in Requests,
         FraudClear(r) \/ RecordTransaction(r) \/ InsertPayment(r), ~Fail(r)
  PROVE  InOrder'
<1>1. Shape
  BY DEF Base
<1>2. /\ UNCHANGED <<rows, dto, todo, pending, payments, draft, load>>
      /\ pc[r] \in Saving /\ pc'[r] \in {"saving", "recording"}
      /\ \A s \in Requests \ {r} : pc'[s] = pc[s]
  <2>1. CASE FraudClear(r) \/ RecordTransaction(r)
    BY <1>1, <2>1 DEF FraudClear, RecordTransaction, AllSaved, ledgerVars, Shape
  <2>2. CASE InsertPayment(r)
    BY <2>2, InsertAlone DEF sessionVars
  <2> QED BY <2>1, <2>2
<1>3. \A s \in Requests : pc[s] # "idle" => pc'[s] # "idle" /\ dto'[s] = dto[s]
  BY <1>2
<1>4. Explains(rows, payments)'
  BY <1>2, <1>3, StillThere DEF InOrder
<1>5. Served(r)'
  <2>1. \E goal : Reaches(r, goal)' /\ StaysPaid(goal)' /\ Explains(goal, payments \cup draft[r])'
    BY <1>2, <1>3, ServedStill DEF InOrder
  <2> QED BY <1>2, <2>1 DEF Served
<1> QED BY <1>2, <1>4, <1>5, InOrderKept

LEMMA FetchInOrder ==
  ASSUME PayablesAssumption, Base, InOrder, OneByOne, NEW r \in Requests, Fetch(r)
  PROVE  InOrder'
<1>1. PICK X : /\ pc[r] = "reading" /\ view' = [view EXCEPT ![r] = With(@, X)]
               /\ UNCHANGED <<rows, pc, dto, todo, diff, pending, payments, load>>
  BY DEF Fetch, Read, ledgerVars
<1>2. Explains(rows, payments)'
  BY <1>1, StillThere DEF InOrder
<1>3. Served(r)'
  <2>1. \A x \in DOMAIN view[r] : view[r][x] = rows[x]
    BY <1>1 DEF InOrder, Served
  <2>2. view'[r] = With(view[r], X)
    BY <1>1 DEF Base, Shape
  <2>3. \A x \in DOMAIN view'[r] : view'[r][x] = rows'[x]
    BY <1>1, <2>1, <2>2 DEF With
  <2> QED BY <1>1, <2>3 DEF Served
<1> QED BY <1>1, <1>2, <1>3, InOrderKept

(* What a handler plans is what it will have written. *)
LEMMA GoalOf ==
  ASSUME NEW saves,
         \A n \in DOMAIN saves : \A x \in DOMAIN saves[n].image :
           \A m \in DOMAIN saves : x \in DOMAIN saves[m].image => m = n
  PROVE  \E goal : Overwrites(saves, goal)
<1> DEFINE At(x) == {n \in DOMAIN saves : x \in DOMAIN saves[n].image}
           first(x) == CHOOSE n \in At(x) : TRUE
           written == UNION {DOMAIN saves[n].image : n \in DOMAIN saves}
           goal == [x \in Rows \cup written |-> IF At(x) = {} THEN rows[x] ELSE saves[first(x)].image[x]]
<1>1. ASSUME NEW n \in DOMAIN saves, NEW x \in DOMAIN saves[n].image
      PROVE  goal[x] = saves[n].image[x]
  <2>1. n \in At(x) /\ \A m \in At(x) : m = n
    BY <1>1
  <2>2. first(x) = n
    BY <2>1
  <2>3. x \in Rows \cup written
    BY <1>1
  <2> QED BY <2>1, <2>2, <2>3
<1>2. ASSUME NEW x \in Rows, \A n \in DOMAIN saves : x \notin DOMAIN saves[n].image
      PROVE  goal[x] = rows[x]
  BY <1>2
<1> QED BY <1>1, <1>2 DEF Overwrites

LEMMA ProceedInOrder ==
  ASSUME PayablesAssumption, Base, Base', InOrder, OneByOne, NEW r \in Requests, pc[r] = "reading",
         NEW saves, NEW drafted, Proceed(r, saves), draft' = [draft EXCEPT ![r] = drafted],
         UNCHANGED <<payments, load>>,
         ASSUME NEW goal, Overwrites(saves, goal)
         PROVE  StaysPaid(goal) /\ Explains(goal, payments \cup drafted)
  PROVE  InOrder'
<1>1. Shape
  BY DEF Base
<1>2. /\ pc' = [pc EXCEPT ![r] = "saving"] /\ todo' = [todo EXCEPT ![r] = saves]
      /\ UNCHANGED <<rows, dto, view, diff, pending>>
  BY DEF Proceed
<1>3. /\ pc'[r] = "saving" /\ todo'[r] = saves /\ draft'[r] = drafted /\ DOMAIN pending'[r] = {}
      /\ \A s \in Requests \ {r} : pc'[s] = pc[s]
      /\ \A s \in Requests : pc[s] # "idle" => pc'[s] # "idle" /\ dto'[s] = dto[s]
  BY <1>1, <1>2 DEF Shape, Base, Request, Writes
<1>4. Once(r)'
  BY <1>3 DEF Base, Request, Writes, Planned
<1>5. \A n \in DOMAIN saves : \A x \in DOMAIN saves[n].image :
        \A m \in DOMAIN saves : x \in DOMAIN saves[m].image => m = n
  BY <1>3, <1>4 DEF Once
<1>6. PICK goal : Overwrites(saves, goal)
  BY <1>5, GoalOf
<1>7. StaysPaid(goal) /\ Explains(goal, payments \cup drafted)
  BY <1>6
<1>8. Reaches(r, goal)'
  BY <1>2, <1>3, <1>6 DEF Overwrites, Reaches, Seen
<1>9. StaysPaid(goal)'
  BY <1>2, <1>7 DEF StaysPaid, LeftAlone
<1>10. Explains(goal, payments \cup draft[r])'
  <2>1. PICK P : P = payments \cup drafted
    OBVIOUS
  <2>2. Explains(goal, P)'
    BY <1>3, <1>7, <2>1, ExplainsLater
  <2> QED BY <1>3, <2>1, <2>2
<1>11. Explains(rows, payments)'
  BY <1>2, <1>3, StillThere DEF InOrder
<1>12. Served(r)'
  BY <1>3, <1>8, <1>9, <1>10 DEF Served
<1> QED BY <1>3, <1>11, <1>12, InOrderKept

LEMMA ReloadInOrder ==
  ASSUME PayablesAssumption, Base, InOrder, OneByOne, NEW r \in Requests, Reload(r), UNCHANGED ledgerVars
  PROVE  InOrder'
<1>1. Shape
  BY DEF Base
<1>2. /\ pc[r] = "saving" /\ todo[r] # << >> /\ pc'[r] = "updating"
      /\ pc' = [pc EXCEPT ![r] = "updating"]
      /\ DOMAIN diff'[r] = DOMAIN Head(todo[r]).image
      /\ \A x \in DOMAIN diff'[r] : diff'[r][x] =
           Differing(Head(todo[r]).image[x], Head(todo[r]).decimals, Seen(r, x))
      /\ UNCHANGED <<rows, dto, view, todo, pending, payments, draft, inserted, load>>
  BY <1>1, ReloadIs DEF ledgerVars
<1>3. /\ \A s \in Requests \ {r} : pc'[s] = pc[s]
      /\ \A s \in Requests : pc[s] # "idle" => pc'[s] # "idle" /\ dto'[s] = dto[s]
  BY <1>1, <1>2 DEF Shape
<1>4. Explains(rows, payments)'
  BY <1>2, <1>3, StillThere DEF InOrder
<1>5. \A x \in DOMAIN diff'[r] : diff'[r][x] =
        Differing(Head(todo[r]).image[x], Head(todo[r]).decimals, rows[x])
  BY <1>2, HeadIs DEF Seen
<1>6. Served(r)'
  <2>1. \E goal : Reaches(r, goal)' /\ StaysPaid(goal)' /\ Explains(goal, payments \cup draft[r])'
    BY <1>2, <1>3, ServedStill DEF InOrder
  <2> QED BY <1>2, <1>5, <2>1 DEF Served
<1> QED BY <1>2, <1>3, <1>4, <1>6, InOrderKept

(* A row in which nothing differs from an entity is the entity, and an     *)
(* UPDATE of what differs makes it so.                                     *)
LEMMA MergeDiffering ==
  ASSUME PayablesAssumption, NEW x \in Rows, NEW row, NEW e, IsRow(x, row), IsRow(x, e), NEW decimals,
         NEW cols, cols = Differing(e, decimals, row)
  PROVE  Merge(row, e, cols) = e /\ (cols = {} => row = e)
<1>1. PICK F : row = [c \in F |-> row[c]] /\ e = [c \in F |-> e[c]] /\ DOMAIN row = F /\ DOMAIN e = F
  <2>1. CASE x \in Accounts
    <3>1. row \in Account /\ e \in Account
      BY <2>1 DEF IsRow
    <3> QED BY <3>1 DEF Account
  <2>2. CASE x \in Bills
    <3>1. row \in Bill /\ e \in Bill
      BY <2>2 DEF IsRow
    <3> QED BY <3>1 DEF Bill
  <2>3. CASE x \in Plans
    <3>1. row \in Schedule /\ e \in Schedule
      BY <2>3 DEF IsRow
    <3> QED BY <3>1 DEF Schedule
  <2>4. CASE x \in PlanLines
    <3>1. row \in Installment /\ e \in Installment
      BY <2>4 DEF IsRow
    <3> QED BY <3>1 DEF Installment
  <2> QED BY <2>1, <2>2, <2>3, <2>4 DEF Rows
<1>2. \A c \in F : c \notin cols => e[c] = row[c]
  BY <1>1 DEF Differing
<1>3. Merge(row, e, cols) = [c \in F |-> e[c]]
  BY <1>1, <1>2 DEF Merge
<1>4. ASSUME cols = {} PROVE row = e
  <2>1. \A c \in F : row[c] = e[c]
    BY <1>2, <1>4
  <2> QED BY <1>1, <2>1
<1> QED BY <1>1, <1>3, <1>4

LEMMA UpdateInOrder ==
  ASSUME PayablesAssumption, Base, InOrder, OneByOne, NEW r \in Requests, Update(r), UNCHANGED ledgerVars
  PROVE  InOrder'
<1>1. Shape
  BY DEF Base
<1>2. /\ pc[r] = "updating" /\ pc'[r] = "saving" /\ todo'[r] = Tail(todo[r])
      /\ pc' = [pc EXCEPT ![r] = "saving"]
      /\ DOMAIN pending'[r] = DOMAIN pending[r] \cup Needs(r)
      /\ \A x \in Needs(r) : pending'[r][x].entity = Head(todo[r]).image[x]
      /\ \A x \in Needs(r) : pending'[r][x].cols = diff[r][x]
      /\ \A x \in DOMAIN pending[r] \ Needs(r) : pending'[r][x] = pending[r][x]
      /\ UNCHANGED <<rows, dto, view, payments, draft, inserted, load>>
  BY <1>1, UpdateIs DEF ledgerVars
<1>3. /\ \A s \in Requests \ {r} : pc'[s] = pc[s]
      /\ \A s \in Requests : pc[s] # "idle" => pc'[s] # "idle" /\ dto'[s] = dto[s]
  BY <1>1, <1>2 DEF Shape
<1>4. Explains(rows, payments)'
  BY <1>2, <1>3, StillThere DEF InOrder
<1>5. PICK goal : Reaches(r, goal) /\ StaysPaid(goal) /\ Explains(goal, payments \cup draft[r])
  BY <1>2 DEF InOrder, Served
<1>6. /\ todo[r] # << >> /\ DOMAIN diff[r] = DOMAIN Head(todo[r]).image
      /\ Head(todo[r]) = todo[r][1] /\ 1 \in DOMAIN todo[r] /\ Once(r) /\ Listed(todo[r])
      /\ \A x \in DOMAIN Head(todo[r]).image :
           x \notin DOMAIN pending[r] /\ Written(r, x, Head(todo[r]).image[x])
  BY <1>2, WritesUnfold, HeadIs DEF Compared
<1>7. /\ \A n \in DOMAIN Tail(todo[r]) : n + 1 \in DOMAIN todo[r] /\ Tail(todo[r])[n] = todo[r][n + 1]
      /\ \A n \in DOMAIN todo[r] : n = 1 \/ (n - 1 \in DOMAIN Tail(todo[r]) /\ n = (n - 1) + 1)
  BY <1>6, ListedTail
<1>8. ASSUME NEW x \in DOMAIN Head(todo[r]).image, x \in Rows PROVE Seen(r, x)' = goal[x]
  <2>a. PICK e, decimals, cols, row :
          /\ e = Head(todo[r]).image[x] /\ decimals = Head(todo[r]).decimals
          /\ cols = diff[r][x] /\ row = rows[x]
    OBVIOUS
  <2>1. goal[x] = e
    BY <1>5, <1>6, <1>8, <2>a DEF Reaches
  <2>2. IsRow(x, e) /\ IsRow(x, row)
    BY <1>6, <1>8, <2>a DEF Written, Base, RowsKnown, Known
  <2>3. cols = Differing(e, decimals, row)
    BY <1>2, <1>6, <1>8, <2>a DEF InOrder, Served
  <2>4. Merge(row, e, cols) = e /\ (cols = {} => row = e)
    BY <1>8, <2>2, <2>3, MergeDiffering
  <2>5. CASE x \in Needs(r)
    <3>1. /\ x \in DOMAIN pending'[r] /\ pending'[r][x].entity = e /\ pending'[r][x].cols = cols
          /\ rows'[x] = row
      BY <1>2, <2>5, <2>a
    <3>2. Seen(r, x)' = Merge(rows'[x], pending'[r][x].entity, pending'[r][x].cols)
      BY <3>1 DEF Seen, Merge
    <3>3. Merge(rows'[x], pending'[r][x].entity, pending'[r][x].cols) = Merge(row, e, cols)
      BY <3>1
    <3> QED BY <2>1, <2>4, <3>2, <3>3
  <2>6. CASE x \notin Needs(r)
    <3>1. cols = {} /\ x \notin DOMAIN pending'[r]
      BY <1>2, <1>6, <1>8, <2>6, <2>a DEF Needs
    <3>2. Seen(r, x)' = rows'[x]
      BY <3>1 DEF Seen
    <3> QED BY <1>2, <2>1, <2>4, <2>a, <3>1, <3>2
  <2> QED BY <2>5, <2>6
<1>9. ASSUME NEW x \in Rows, x \notin DOMAIN Head(todo[r]).image PROVE Seen(r, x)' = Seen(r, x)
  <2>1. x \notin Needs(r)
    BY <1>6, <1>9 DEF Needs
  <2>2. /\ x \in DOMAIN pending'[r] <=> x \in DOMAIN pending[r]
        /\ x \in DOMAIN pending[r] => pending'[r][x] = pending[r][x]
    BY <1>2, <2>1
  <2> QED BY <1>2, <2>2 DEF Seen, Merge
<1>10. Reaches(r, goal)'
  <2>1. ASSUME NEW n \in DOMAIN Tail(todo[r]), NEW x \in DOMAIN Tail(todo[r])[n].image
        PROVE  goal[x] = Tail(todo[r])[n].image[x]
    BY <1>5, <1>7, <2>1 DEF Reaches
  <2>2. ASSUME NEW x \in Rows, \A n \in DOMAIN Tail(todo[r]) : x \notin DOMAIN Tail(todo[r])[n].image
        PROVE  goal[x] = Seen(r, x)'
    <3>1. CASE x \in DOMAIN Head(todo[r]).image
      BY <1>8, <3>1
    <3>2. CASE x \notin DOMAIN Head(todo[r]).image
      <4>1. ASSUME NEW n \in DOMAIN todo[r] PROVE x \notin DOMAIN todo[r][n].image
        BY <1>6, <1>7, <2>2, <3>2
      <4>2. goal[x] = Seen(r, x)
        BY <1>5, <4>1 DEF Reaches
      <4> QED BY <1>9, <3>2, <4>2
    <3> QED BY <3>1, <3>2
  <2> QED BY <1>2, <2>1, <2>2 DEF Reaches
<1>11. Served(r)'
  <2>1. StaysPaid(goal)'
    BY <1>2, <1>5 DEF StaysPaid, LeftAlone
  <2>2. PICK P : P = payments \cup draft[r]
    OBVIOUS
  <2>3. Explains(goal, P)'
    BY <1>3, <1>5, <2>2, ExplainsLater
  <2>4. Explains(goal, payments \cup draft[r])'
    BY <1>2, <2>2, <2>3
  <2> QED BY <1>2, <1>10, <2>1, <2>4 DEF Served
<1> QED BY <1>2, <1>3, <1>4, <1>11, InOrderKept

(* A payment more, and the rows that go with it. *)
LEMMA PaymentExplained ==
  ASSUME PayablesAssumption, Base, InOrder, OneByOne, NEW p, NEW goal,
         p.number = NextNumber, p.amount \in Nat,
         \A b \in Bills : goal[b] = IF b = p.bill THEN WithPayment(rows[b], p.amount) ELSE rows[b],
         \A q \in Plans : goal[q] = rows[q],
         \A x \in PlanLines : x # p.line => goal[x] = rows[x],
         p.line # << >> => /\ p.line \in PlanLines /\ rows[p.line].status # "PAID"
                           /\ goal[p.line].status = "PAID" /\ rows[p.line[1]].status = "ACTIVE"
  PROVE  StaysPaid(goal) /\ Explains(goal, payments \cup {p})
<1>1. Explains(rows, payments)
  BY DEF InOrder
<1>2. \A b \in Bills : rows[b] \in Bill
  BY Disjoint DEF Base, RowsKnown, Known, IsRow
<1>3. ASSUME NEW b \in Bills
      PROVE  /\ Covered(goal[b]) /\ (rows[b].status = "PAID" => goal[b].status = "PAID")
             /\ goal[b].paid_amount = rows[b].paid_amount + (IF p.bill = b THEN p.amount ELSE 0)
  <2>1. Covered(rows[b]) /\ rows[b] \in Bill
    BY <1>1, <1>2 DEF Explains
  <2>2. CASE b = p.bill
    <3>a. PICK e : e = WithPayment(rows[b], p.amount)
      OBVIOUS
    <3>1. /\ e.paid_amount = rows[b].paid_amount + p.amount
          /\ e.status = IF rows[b].paid_amount + p.amount >= rows[b].net_amount - Tolerance
                        THEN "PAID" ELSE "PARTIALLY_PAID"
          /\ Covered(e)
      BY <2>1, <3>a, WithPaymentIs, WithPaymentCovered
    <3>2. rows[b].status = "PAID" => rows[b].paid_amount + p.amount >= rows[b].net_amount - Tolerance
      <4>1. rows[b].net_amount \in Nat /\ rows[b].paid_amount \in Int
        BY <2>1 DEF Bill
      <4> QED BY <2>1, <4>1 DEF Covered, Tolerance
    <3>3. goal[b] = e
      BY <2>2, <3>a
    <3> QED BY <2>2, <3>1, <3>2, <3>3
  <2>3. CASE b # p.bill
    <3>1. goal[b] = rows[b] /\ rows[b].paid_amount \in Int
      BY <2>1, <2>3 DEF Bill
    <3> QED BY <2>1, <2>3, <3>1
  <2> QED BY <2>2, <2>3
<1>4. p \notin payments
  <2>1. NextNumber \notin Numbers
    BY DEF Base, Numbered
  <2> QED BY <2>1 DEF Numbers
<1>5. ASSUME NEW b \in Bills
      PROVE  PaidAmong(payments \cup {p}, b) = PaidAmong(payments, b) + (IF p.bill = b THEN p.amount ELSE 0)
  <2> DEFINE f == [q \in payments |-> IF q.bill = b THEN q.amount ELSE 0]
             h == [q \in payments \cup {p} |-> IF q.bill = b THEN q.amount ELSE 0]
  <2>1. /\ IsFiniteSet(payments) /\ \A q \in payments : f[q] \in Int /\ h[q] = f[q]
        /\ h[p] = (IF p.bill = b THEN p.amount ELSE 0) /\ h[p] \in Int
    BY DEF Base, PaymentsTyped
  <2> HIDE DEF f, h
  <2>2. SumFunctionOnSet(h, payments \cup {p}) = SumFunctionOnSet(f, payments) + h[p]
    BY <1>4, <2>1, SumGrows
  <2> QED BY <2>1, <2>2 DEF PaidAmong, f, h
<1>6. ASSUME NEW b \in Bills, ~Asked({"settle"}, b)
      PROVE  goal[b].paid_amount = PaidAmong(payments \cup {p}, b)
  <2>1. rows[b].paid_amount = PaidAmong(payments, b)
    BY <1>1, <1>6 DEF Explains
  <2>2. PICK more : more = IF p.bill = b THEN p.amount ELSE 0
    OBVIOUS
  <2>3. goal[b].paid_amount = rows[b].paid_amount + more
    BY <1>3, <2>2
  <2>4. PaidAmong(payments \cup {p}, b) = PaidAmong(payments, b) + more
    BY <1>5, <2>2
  <2> QED BY <2>1, <2>3, <2>4
<1>7. \A x \in PlanLines : x[1] \in Plans
  BY DEF PlanLines
<1>8. ASSUME NEW q \in payments \cup {p}, q.line # << >>
      PROVE  q.line \in PlanLines /\ goal[q.line].status = "PAID" /\ goal[q.line[1]].status = "ACTIVE"
  <2>1. CASE q = p
    BY <1>7, <1>8, <2>1
  <2>2. CASE q \in payments
    <3>1. q.line \in PlanLines /\ rows[q.line].status = "PAID" /\ rows[q.line[1]].status = "ACTIVE"
      BY <1>1, <1>8, <2>2 DEF Explains
    <3>2. goal[q.line].status = "PAID"
      <4>1. CASE q.line = p.line
        BY <1>8, <4>1
      <4>2. CASE q.line # p.line
        BY <3>1, <4>2
      <4> QED BY <4>1, <4>2
    <3>3. goal[q.line[1]].status = "ACTIVE"
      BY <1>7, <3>1
    <3> QED BY <3>1, <3>2, <3>3
  <2> QED BY <2>1, <2>2
<1>9. ASSUME NEW q \in payments \cup {p}, NEW s \in payments \cup {p}, q.line # << >>, q.line = s.line
      PROVE  q = s
  <2>1. \A t \in payments : t.line # p.line \/ p.line = << >>
    BY <1>1 DEF Explains
  <2>2. q \in payments /\ s \in payments => q = s
    BY <1>1, <1>9 DEF Explains
  <2> QED BY <1>9, <2>1, <2>2
<1>10. \A q, s \in Plans : goal[q].bill = goal[s].bill /\ goal[q].bill # NoBill => q = s
  BY <1>1 DEF Explains
<1> QED BY <1>3, <1>6, <1>8, <1>9, <1>10 DEF Explains, StaysPaid

LEMMA PayInOrder ==
  ASSUME PayablesAssumption, Base, Base', InOrder, OneByOne, NEW r \in Requests,
         PaySupplier(r), ~Fail(r)
  PROVE  InOrder'
<1>a. PICK a, b, amount, paid, debited, debits, p, s :
        /\ a = dto[r].account /\ b = dto[r].bill /\ amount = dto[r].amount
        /\ paid = WithPayment(view[r][b], amount) /\ debited = Debited(r, a, amount)
        /\ debits = Save(a, debited, {"current_balance"})
        /\ p = Payment(r, NextNumber, b, amount, << >>)
        /\ s = Paying(r) \o <<debits>>
  OBVIOUS
<1>1. /\ pc[r] = "reading" /\ amount \in Nat /\ a \in Accounts
      /\ b # NoBill => b \in Bills /\ b \in DOMAIN view[r]
      /\ Proceed(r, s)
      /\ draft' = [draft EXCEPT ![r] = {p}] /\ UNCHANGED <<payments, load>>
  BY <1>a, PayIs
<1>2. p.number = NextNumber /\ p.amount = amount /\ p.bill = b /\ p.line = << >>
  BY <1>a DEF Payment
<1>3. ASSUME NEW goal, Overwrites(s, goal)
      PROVE  StaysPaid(goal) /\ Explains(goal, payments \cup {p})
  <2>1. /\ \A c \in Bills : goal[c] = IF c = b THEN WithPayment(rows[c], amount) ELSE rows[c]
        /\ \A x \in Plans \cup PlanLines : goal[x] = rows[x]
    <3>1. CASE b = NoBill
      <4>1. s = <<debits>>
        BY <1>a, <3>1, Joined DEF Paying
      <4>2. DOMAIN s = {1} /\ s[1] = debits
        BY <4>1, OfLength
      <4>3. DOMAIN debits.image = {a}
        BY <1>a, SaveIs
      <4>4. \A x \in Bills \cup Plans \cup PlanLines : goal[x] = rows[x]
        BY <1>1, <1>3, <4>2, <4>3, Disjoint DEF Overwrites
      <4> QED BY <3>1, <4>4, Disjoint
    <3>2. CASE b # NoBill
      <4>a. PICK pays : pays = Save(b, paid, {"paid_amount"})
        OBVIOUS
      <4>1. s = <<pays, debits>>
        BY <1>a, <3>2, <4>a, Joined DEF Paying
      <4>2. DOMAIN s = {1, 2} /\ s[1] = pays /\ s[2] = debits
        BY <4>1, OfLength
      <4>3. DOMAIN pays.image = {b} /\ pays.image[b] = paid /\ DOMAIN debits.image = {a}
        BY <1>a, <4>a, SaveIs
      <4>4. goal[b] = paid
        BY <1>3, <4>2, <4>3 DEF Overwrites
      <4>5. \A x \in Bills \cup Plans \cup PlanLines : x # b => goal[x] = rows[x]
        <5>1. ASSUME NEW x \in Bills \cup Plans \cup PlanLines, x # b
              PROVE  x \in Rows /\ \A n \in DOMAIN s : x \notin DOMAIN s[n].image
          BY <1>1, <4>2, <4>3, <5>1, Disjoint
        <5> QED BY <1>3, <5>1 DEF Overwrites
      <4>6. view[r][b] = rows[b]
        BY <1>1, <3>2 DEF InOrder, Served
      <4>7. b \notin Plans \cup PlanLines
        BY <1>1, <3>2, Disjoint
      <4> QED BY <1>a, <4>4, <4>5, <4>6, <4>7
    <3> QED BY <3>1, <3>2
  <2>2. \A q \in Plans : goal[q] = rows[q]
    BY <2>1
  <2>3. \A x \in PlanLines : x # p.line => goal[x] = rows[x]
    BY <2>1
  <2>4. \A c \in Bills : goal[c] = IF c = p.bill THEN WithPayment(rows[c], p.amount) ELSE rows[c]
    BY <1>2, <2>1
  <2> QED BY <1>1, <1>2, <2>2, <2>3, <2>4, PaymentExplained
<1> QED BY <1>1, <1>3, ProceedInOrder

LEMMA InstallmentInOrder ==
  ASSUME PayablesAssumption, Base, Base', InOrder, OneByOne, NEW r \in Requests,
         PayInstallment(r), ~Fail(r)
  PROVE  InOrder'
<1>a. PICK p, x, a, b, amount :
        /\ p = dto[r].plan /\ x = <<p, dto[r].line>> /\ a = dto[r].account /\ b = rows[p].bill
        /\ amount = view[r][x].amount
  OBVIOUS
<1>b. PICK due, s : due = Payment(r, NextNumber, b, amount, x) /\ s = Paying3(r, x, a, b, amount)
  OBVIOUS
<1>c. /\ p = dto[r].plan /\ x = <<p, dto[r].line>> /\ a = dto[r].account /\ b = rows[p].bill
      /\ amount = view[r][x].amount
  BY <1>a
<1>1. /\ pc[r] = "reading" /\ p \in Plans /\ x \in PlanLines /\ a \in Accounts /\ b \in Bills
      /\ b \in DOMAIN view[r] /\ p \in DOMAIN view[r] /\ x \in DOMAIN view[r] /\ amount \in Nat
      /\ view[r][p].status = "ACTIVE" /\ view[r][x].status # "PAID" /\ view[r][x] \in Installment
      /\ UNCHANGED <<payments, load>>
  BY <1>c, InstallmentIs
<1>2. Proceed(r, s)
  <2>1. Proceed(r, Paying3(r, x, a, b, amount))
    BY <1>c, InstallmentIs
  <2> QED BY <1>b, <2>1
<1>3. draft' = [draft EXCEPT ![r] = {due}]
  <2>1. draft' = [draft EXCEPT ![r] = {Payment(r, NextNumber, b, amount, x)}]
    BY <1>c, InstallmentIs
  <2> QED BY <1>b, <2>1
<1>4. /\ DOMAIN s = {1, 2, 3} /\ DOMAIN s[1].image = {x} /\ s[1].image[x] = PaidOff(r, x)
      /\ DOMAIN s[2].image = {a}
      /\ DOMAIN s[3].image = {b} /\ s[3].image[b] = WithPayment(view[r][b], amount)
  BY <1>b, Paying3Is
<1>5. due.number = NextNumber /\ due.amount = amount /\ due.bill = b /\ due.line = x
  BY <1>b DEF Payment
<1>6. view[r][b] = rows[b] /\ view[r][p] = rows[p] /\ view[r][x] = rows[x]
  BY <1>1 DEF InOrder, Served
<1>7. PaidOff(r, x).status = "PAID"
  BY <1>1 DEF PaidOff, Installment
<1>8. ASSUME NEW goal, Overwrites(s, goal)
      PROVE  StaysPaid(goal) /\ Explains(goal, payments \cup {due})
  <2>1. goal[x] = PaidOff(r, x) /\ goal[b] = WithPayment(rows[b], amount)
    BY <1>4, <1>6, <1>8 DEF Overwrites
  <2>2. \A y \in Bills \cup Plans \cup PlanLines : y # b /\ y # x => goal[y] = rows[y]
    <3>1. ASSUME NEW y \in Bills \cup Plans \cup PlanLines, y # b, y # x
          PROVE  y \in Rows /\ \A n \in DOMAIN s : y \notin DOMAIN s[n].image
      BY <1>1, <1>4, <3>1, Disjoint
    <3> QED BY <1>8, <3>1 DEF Overwrites
  <2>3. b \notin Plans \cup PlanLines /\ x \notin Bills \cup Plans
    BY <1>1, Disjoint
  <2>4. \A c \in Bills : goal[c] = IF c = due.bill THEN WithPayment(rows[c], due.amount) ELSE rows[c]
    BY <1>5, <2>1, <2>2, <2>3
  <2>5. \A q \in Plans : goal[q] = rows[q]
    BY <2>2, <2>3
  <2>6. \A y \in PlanLines : y # due.line => goal[y] = rows[y]
    BY <1>5, <2>2, <2>3
  <2>7. /\ due.line \in PlanLines /\ rows[due.line].status # "PAID"
        /\ goal[due.line].status = "PAID" /\ rows[due.line[1]].status = "ACTIVE"
    BY <1>1, <1>5, <1>6, <1>7, <1>c, <2>1
  <2> QED BY <1>1, <1>5, <2>4, <2>5, <2>6, <2>7, PaymentExplained
<1> QED BY <1>1, <1>2, <1>3, <1>8, ProceedInOrder

LEMMA ReviseInOrder ==
  ASSUME PayablesAssumption, Base, Base', InOrder, OneByOne, NEW r \in Requests,
         Review(r) \/ EditBill(r) \/ Settle(r) \/ Resolve(r), ~Fail(r)
  PROVE  InOrder'
<1>a. PICK b, kind : b = dto[r].bill /\ kind = dto[r].kind
  OBVIOUS
<1>1. /\ pc[r] = "reading" /\ kind \in Revising /\ b \in Bills /\ b \in DOMAIN view[r]
      /\ draft' = [draft EXCEPT ![r] = {}] /\ UNCHANGED <<payments, load>>
  BY <1>a, ReviseIs
<1>2. PICK e, cols : e \in Bill /\ Proceed(r, <<Save(b, e, cols)>>) /\ Revises(kind, view[r][b], e)
  BY <1>a, ReviseIs
<1>b. PICK one, s : one = Save(b, e, cols) /\ s = <<one>>
  OBVIOUS
<1>3. DOMAIN s = {1} /\ DOMAIN s[1].image = {b} /\ s[1].image[b] = e
  BY <1>b, OfLength, SaveIs
<1>4. view[r][b] = rows[b]
  BY <1>1 DEF InOrder, Served
<1>5. Explains(rows, payments)
  BY DEF InOrder
<1>6. /\ Covered(e)
      /\ ~Asked({"settle"}, b) => e.paid_amount = rows[b].paid_amount
      /\ kind # "settle" => rows[b].status # "PAID"
  <2>1. CASE kind = "settle"
    <3>1. Asked({"settle"}, b)
      BY <1>1, <1>a, <2>1 DEF Asked
    <3>2. e.status = "PAID" => e.paid_amount >= e.net_amount
      BY <1>2, <2>1 DEF Revises
    <3>3. e.net_amount \in Nat /\ e.paid_amount \in Int
      BY <1>2 DEF Bill
    <3> QED BY <2>1, <3>1, <3>2, <3>3 DEF Covered, Tolerance
  <2>2. CASE kind # "settle"
    BY <1>2, <1>4, <2>2 DEF Revises, Covered
  <2> QED BY <2>1, <2>2
<1>7. LeftAlone => kind # "settle"
  <2>1. dto[r] \in load.inputs
    BY <1>1 DEF Base, Request, Names
  <2> QED BY <1>a, <2>1 DEF LeftAlone
<1>8. ASSUME NEW goal, Overwrites(s, goal)
      PROVE  StaysPaid(goal) /\ Explains(goal, payments \cup {})
  <2>1. goal[b] = e /\ \A x \in Bills \cup Plans \cup PlanLines : x # b => goal[x] = rows[x]
    <3>1. \A x \in Bills \cup Plans \cup PlanLines : x \in Rows
      BY Disjoint
    <3> QED BY <1>3, <1>8, <3>1 DEF Overwrites
  <2>2. \A x \in Plans \cup PlanLines : goal[x] = rows[x]
    BY <1>1, <2>1, Disjoint
  <2>3. StaysPaid(goal)
    BY <1>6, <1>7, <2>1 DEF StaysPaid
  <2>4. ASSUME NEW c \in Bills
        PROVE  Covered(goal[c]) /\ (~Asked({"settle"}, c) => goal[c].paid_amount = PaidAmong(payments, c))
    <3>1. /\ Covered(rows[c])
          /\ ~Asked({"settle"}, c) => rows[c].paid_amount = PaidAmong(payments, c)
      BY <1>5 DEF Explains
    <3>2. CASE c = b
      BY <1>6, <2>1, <3>1, <3>2
    <3>3. CASE c # b
      BY <2>1, <3>1, <3>3
    <3> QED BY <3>2, <3>3
  <2>5. \A x \in PlanLines : x[1] \in Plans
    BY DEF PlanLines
  <2>6. Explains(goal, payments)
    BY <1>5, <2>2, <2>4, <2>5 DEF Explains
  <2>7. payments \cup {} = payments
    OBVIOUS
  <2> QED BY <2>3, <2>6, <2>7
<1> QED BY <1>1, <1>2, <1>8, <1>b, ProceedInOrder

(* Writes of schedules. *)
LEMMA SchedulesExplained ==
  ASSUME PayablesAssumption, InOrder, OneByOne, NEW goal, NEW p \in Plans, rows[p].status # "ACTIVE",
         \A b \in Bills : goal[b] = rows[b],
         \A q \in Plans : q # p => goal[q] = rows[q],
         \A x \in PlanLines : x[1] # p => goal[x] = rows[x],
         \A q \in Plans : q # p /\ goal[p].bill # NoBill => goal[p].bill # rows[q].bill
  PROVE  StaysPaid(goal) /\ Explains(goal, payments \cup {})
<1>1. Explains(rows, payments)
  BY DEF InOrder
<1>2. \A x \in PlanLines : x[1] \in Plans
  BY DEF PlanLines
<1>3. ASSUME NEW q \in payments, q.line # << >>
      PROVE  q.line \in PlanLines /\ goal[q.line].status = "PAID" /\ goal[q.line[1]].status = "ACTIVE"
  <2>1. q.line \in PlanLines /\ rows[q.line].status = "PAID" /\ rows[q.line[1]].status = "ACTIVE"
    BY <1>1, <1>3 DEF Explains
  <2>2. q.line[1] # p
    BY <2>1
  <2> QED BY <1>2, <2>1, <2>2
<1>4. ASSUME NEW q \in Plans, NEW s \in Plans, goal[q].bill = goal[s].bill, goal[q].bill # NoBill
      PROVE  q = s
  <2>1. rows[q].bill = rows[s].bill /\ rows[q].bill # NoBill => q = s
    BY <1>1 DEF Explains
  <2> QED BY <1>4, <2>1
<1>5. Explains(goal, payments)
  BY <1>1, <1>3, <1>4 DEF Explains
<1>6. payments \cup {} = payments
  OBVIOUS
<1> QED BY <1>5, <1>6 DEF StaysPaid

LEMMA AnswerInOrder ==
  ASSUME PayablesAssumption, Base, Base', InOrder, OneByOne, NEW r \in Requests, Answer(r), ~Fail(r)
  PROVE  InOrder'
<1>a. PICK p, schedule : p = dto[r].plan /\ schedule = view[r][p]
  OBVIOUS
<1>1. /\ pc[r] = "reading" /\ p \in Plans /\ p \in DOMAIN view[r]
      /\ \A m \in Lines : <<p, m>> \in DOMAIN view[r]
      /\ schedule \in Schedule /\ schedule.status = "PENDING_APPROVAL"
      /\ draft' = [draft EXCEPT ![r] = {}] /\ UNCHANGED <<payments, load>>
  BY <1>a, AnswerIs
<1>2. PICK answer : Proceed(r, <<SaveSchedule(r, p, [schedule EXCEPT !.status = answer])>>)
  BY <1>a, AnswerIs
<1>b. PICK answered, one, s : /\ answered = [schedule EXCEPT !.status = answer]
                              /\ one = SaveSchedule(r, p, answered) /\ s = <<one>>
  OBVIOUS
<1>3. /\ DOMAIN one.image = {p} \cup ({p} \X Lines) /\ one.image[p] = answered
      /\ \A x \in {p} \X Lines : one.image[x] = view[r][x]
  <2>1. \A m \in Lines : <<p, m>> # p
    BY <1>1, Disjoint
  <2> QED BY <1>b, <2>1, ScheduleImage
<1>4. DOMAIN s = {1} /\ s[1] = one
  BY <1>b, OfLength
<1>5. \A x \in DOMAIN view[r] : view[r][x] = rows[x]
  BY <1>1 DEF InOrder, Served
<1>6. answered.bill = rows[p].bill /\ rows[p].status = "PENDING_APPROVAL"
  BY <1>1, <1>5, <1>a, <1>b DEF Schedule
<1>7. ASSUME NEW goal, Overwrites(s, goal)
      PROVE  StaysPaid(goal) /\ Explains(goal, payments \cup {})
  <2>1. goal[p] = answered
    BY <1>3, <1>4, <1>7 DEF Overwrites
  <2>2. \A x \in Rows : x \notin DOMAIN one.image => goal[x] = rows[x]
    BY <1>4, <1>7 DEF Overwrites
  <2>3. \A b \in Bills : goal[b] = rows[b]
    <3>1. ASSUME NEW b \in Bills PROVE b \notin DOMAIN one.image /\ b \in Rows
      BY <1>1, <1>3, Disjoint
    <3> QED BY <2>2, <3>1
  <2>4. \A q \in Plans : q # p => goal[q] = rows[q]
    <3>1. ASSUME NEW q \in Plans, q # p PROVE q \notin DOMAIN one.image /\ q \in Rows
      BY <1>1, <1>3, <3>1, Disjoint
    <3> QED BY <2>2, <3>1
  <2>5. \A x \in PlanLines : x[1] # p => goal[x] = rows[x]
    <3>1. ASSUME NEW x \in PlanLines, x[1] # p PROVE x \notin DOMAIN one.image /\ x \in Rows
      BY <1>1, <1>3, <3>1, Disjoint
    <3> QED BY <2>2, <3>1
  <2>6. \A q \in Plans : q # p /\ goal[p].bill # NoBill => goal[p].bill # rows[q].bill
    BY <1>1, <1>6, <2>1 DEF InOrder, Explains
  <2>7. rows[p].status # "ACTIVE"
    BY <1>6
  <2> QED BY <1>1, <2>3, <2>4, <2>5, <2>6, <2>7, SchedulesExplained
<1> QED BY <1>1, <1>2, <1>7, <1>b, ProceedInOrder

LEMMA CreateInOrder ==
  ASSUME PayablesAssumption, Base, Base', InOrder, OneByOne, NEW r \in Requests,
         CreateSchedule(r), ~Fail(r)
  PROVE  InOrder'
<1>a. PICK b : b = dto[r].bill
  OBVIOUS
<1>1. /\ pc[r] = "reading" /\ b \in Bills /\ Plans \subseteq DOMAIN view[r] /\ Scheduled(r) = {}
      /\ draft' = [draft EXCEPT ![r] = {}] /\ UNCHANGED <<payments, load>>
  BY <1>a, CreateIs
<1>2. PICK p \in Unused : Proceed(r, NewSchedule(r, p))
  BY CreateIs
<1>b. PICK s : s = NewSchedule(r, p)
  OBVIOUS
<1>3. /\ DOMAIN s = {1, 2} /\ DOMAIN s[1].image = {p} /\ DOMAIN s[2].image = {p} \X Lines
      /\ s[1].image[p] = [status |-> "PENDING_APPROVAL", bill |-> dto[r].bill]
  <2>1. DOMAIN s = {1, 2} /\ DOMAIN s[1].image = {p} /\ DOMAIN s[2].image = {p} \X Lines
    BY <1>b, NewScheduleRows
  <2>2. s[1].image[p] = [status |-> "PENDING_APPROVAL", bill |-> dto[r].bill]
    <3>1. s = NewSchedule(r, p)
      BY <1>b
    <3> QED BY <3>1, NewScheduleIs
  <2> QED BY <2>1, <2>2
<1>4. p \in Plans /\ rows[p].status # "ACTIVE"
  BY DEF Unused
<1>5. \A q \in Plans : rows[q].bill # b
  BY <1>1, <1>a DEF InOrder, Served, Scheduled
<1>6. ASSUME NEW goal, Overwrites(s, goal)
      PROVE  StaysPaid(goal) /\ Explains(goal, payments \cup {})
  <2>1. goal[p].bill = b
    <3>1. goal[p] = [status |-> "PENDING_APPROVAL", bill |-> dto[r].bill]
      BY <1>3, <1>6 DEF Overwrites
    <3> QED BY <1>a, <3>1
  <2>2. \A x \in Rows : x # p /\ x \notin {p} \X Lines => goal[x] = rows[x]
    <3>1. ASSUME NEW x \in Rows, x # p, x \notin {p} \X Lines
          PROVE  \A n \in DOMAIN s : x \notin DOMAIN s[n].image
      BY <1>3, <3>1
    <3> QED BY <1>6, <3>1 DEF Overwrites
  <2>3. \A c \in Bills : goal[c] = rows[c]
    <3>1. ASSUME NEW c \in Bills PROVE c # p /\ c \notin {p} \X Lines /\ c \in Rows
      BY <1>4, Disjoint
    <3> QED BY <2>2, <3>1
  <2>4. \A q \in Plans : q # p => goal[q] = rows[q]
    <3>1. ASSUME NEW q \in Plans PROVE q \notin {p} \X Lines /\ q \in Rows
      BY <1>4, Disjoint
    <3> QED BY <2>2, <3>1
  <2>5. \A x \in PlanLines : x[1] # p => goal[x] = rows[x]
    <3>1. ASSUME NEW x \in PlanLines, x[1] # p PROVE x # p /\ x \notin {p} \X Lines /\ x \in Rows
      BY <1>4, <3>1, Disjoint
    <3> QED BY <2>2, <3>1
  <2>6. \A q \in Plans : q # p /\ goal[p].bill # NoBill => goal[p].bill # rows[q].bill
    BY <1>5, <2>1
  <2> QED BY <1>4, <2>3, <2>4, <2>5, <2>6, SchedulesExplained
<1> QED BY <1>1, <1>2, <1>6, <1>b, ProceedInOrder

(* Steps that take no invoice to PAID nor change what is paid of it. *)
LEMMA StatusExplained ==
  ASSUME PayablesAssumption, InOrder, OneByOne, UNCHANGED payments,
         \A s \in Requests : pc[s] # "idle" => pc'[s] # "idle" /\ dto'[s] = dto[s],
         \A x \in Rows : \/ rows'[x] = rows[x]
                         \/ /\ x \in Bills /\ rows'[x].status # "PAID"
                            /\ rows'[x].paid_amount = rows[x].paid_amount
  PROVE  Explains(rows, payments)'
<1>1. PICK table, P : table = rows' /\ P = payments
  OBVIOUS
<1>2. Explains(rows, P)
  BY <1>1 DEF InOrder
<1>3. \A x \in Plans \cup PlanLines : table[x] = rows[x]
  BY <1>1, Disjoint
<1>4. ASSUME NEW b \in Bills
      PROVE  Covered(table[b]) /\ (~Asked({"settle"}, b) => table[b].paid_amount = PaidAmong(P, b))
  <2>1. \/ table[b] = rows[b]
        \/ table[b].status # "PAID" /\ table[b].paid_amount = rows[b].paid_amount
    BY <1>1, Disjoint
  <2>2. /\ Covered(rows[b])
        /\ ~Asked({"settle"}, b) => rows[b].paid_amount = PaidAmong(P, b)
    BY <1>2 DEF Explains
  <2>3. CASE table[b] = rows[b]
    BY <2>2, <2>3
  <2>4. CASE table[b].status # "PAID" /\ table[b].paid_amount = rows[b].paid_amount
    BY <2>2, <2>4 DEF Covered
  <2> QED BY <2>1, <2>3, <2>4
<1>5. \A x \in PlanLines : x[1] \in Plans
  BY DEF PlanLines
<1>6. Explains(table, P)
  BY <1>2, <1>3, <1>4, <1>5 DEF Explains
<1>7. Explains(table, P)'
  BY <1>6, ExplainsLater
<1>8. P = payments'
  BY <1>1
<1> QED BY <1>1, <1>7, <1>8

LEMMA OverdueInOrder ==
  ASSUME PayablesAssumption, Base, InOrder, OneByOne, NEW r \in Requests, MarkOverdue(r) \/ EndMatching(r)
  PROVE  InOrder' /\ StaysPaid(rows')
<1>1. Shape
  BY DEF Base
<1>2. /\ pc[r] \in {"reading", "matching"} /\ End(r, "done") /\ UNCHANGED ledgerVars
      /\ \A x \in Rows : \/ rows'[x] = rows[x]
                         \/ /\ x \in Bills /\ rows[x].status # "PAID" /\ rows'[x].status # "PAID"
                            /\ rows'[x].paid_amount = rows[x].paid_amount
  <2>1. CASE EndMatching(r)
    BY <2>1 DEF EndMatching
  <2>2. CASE MarkOverdue(r)
    <3>1. PICK late \in SUBSET Bills :
            /\ \A b \in late : rows[b].status \in {"PENDING", "APPROVED", "PARTIALLY_PAID"}
            /\ rows' = [x \in DOMAIN rows |-> IF x \in late THEN [rows[x] EXCEPT !.status = "OVERDUE"]
                                              ELSE rows[x]]
      BY <2>2, OverdueIs
    <3>2. \A x \in Rows : \/ rows'[x] = rows[x]
                          \/ /\ x \in late /\ x \in Bills /\ rows'[x].status = "OVERDUE"
                             /\ rows'[x].paid_amount = rows[x].paid_amount
      BY <3>1, LateRows
    <3> QED BY <2>2, <3>1, <3>2, OverdueIs
  <2> QED BY <2>1, <2>2
<1>3. /\ pc'[r] = "done" /\ dto' = dto /\ \A s \in Requests \ {r} : pc'[s] = pc[s]
      /\ UNCHANGED payments
  BY <1>1, <1>2, EndIs DEF ledgerVars
<1>4. Explains(rows, payments)'
  BY <1>2, <1>3, StatusExplained
<1>5. Served(r)'
  BY <1>3 DEF Served
<1>6. StaysPaid(rows')
  BY <1>2, Disjoint DEF StaysPaid
<1> QED BY <1>2, <1>3, <1>4, <1>5, <1>6, InOrderKept

LEMMA MatchingInOrder ==
  ASSUME PayablesAssumption, Base, InOrder, OneByOne, NEW r \in Requests,
         BeginMatching(r) \/ ApplyAutoAction(r)
  PROVE  InOrder' /\ StaysPaid(rows')
<1>1. Shape
  BY DEF Base
<1>2. /\ pc[r] \in {"reading", "matching"} /\ pc'[r] = "matching" /\ UNCHANGED <<dto, ledgerVars>>
      /\ \A s \in Requests \ {r} : Still(s)
      /\ \A x \in Rows :
           \/ rows'[x] = rows[x]
           \/ /\ x \in Bills /\ x \in DOMAIN view[r] /\ pc[r] = "matching"
              /\ rows'[x].status \in {"APPROVED", "DISPUTED"}
              /\ rows'[x].paid_amount = rows[x].paid_amount
  <2>1. pc[r] \in {"reading", "matching"}
    BY DEF BeginMatching, ApplyAutoAction, Handles
  <2> QED BY <2>1, MatchingIs
<1>3. /\ UNCHANGED <<payments, load>> /\ dto[r] \in load.inputs /\ dto[r].kind \in Matched
      /\ \A s \in Requests \ {r} : pc'[s] = pc[s]
  <2>1. dto[r].kind \in Matched
    <3>1. CASE BeginMatching(r)
      BY <3>1 DEF BeginMatching, Handles
    <3>2. CASE ApplyAutoAction(r)
      <4>1. pc[r] = "matching"
        BY <3>2 DEF ApplyAutoAction
      <4> QED BY <4>1 DEF Base, Request, Informed
    <3> QED BY <3>1, <3>2
  <2>2. dto[r] \in load.inputs
    BY <1>2 DEF Base, Request, Names
  <2>3. UNCHANGED <<payments, load>>
    BY <1>2 DEF ledgerVars
  <2> QED BY <1>2, <2>1, <2>2, <2>3 DEF Still
<1>4. Explains(rows, payments)'
  BY <1>2, <1>3, StatusExplained
<1>5. ASSUME dto[r].kind = "matchAll", NEW x \in DOMAIN view'[r]
      PROVE  rows'[x].status = "PENDING"
  <2>1. CASE BeginMatching(r)
    <3>1. /\ pc[r] = "reading" /\ rows' = rows
          /\ view' = [view EXCEPT ![r] = [b \in ToMatch(r) |-> @[b]]]
      BY <2>1 DEF BeginMatching, Handles
    <3>2. x \in ToMatch(r)
      BY <1>1, <1>5, <3>1 DEF Shape
    <3>3. x \in DOMAIN view[r] /\ view[r][x].status = "PENDING"
      BY <1>5, <3>2 DEF ToMatch
    <3>4. view[r][x] = rows[x]
      BY <3>1, <3>3 DEF InOrder, Served
    <3> QED BY <3>1, <3>3, <3>4
  <2>2. CASE ApplyAutoAction(r)
    <3>1. PICK b \in DOMAIN view[r] :
            /\ pc[r] = "matching"
            /\ rows' = rows \/ \E status : rows' = [rows EXCEPT ![b].status = status]
            /\ view' = [view EXCEPT ![r] = [c \in DOMAIN @ \ {b} |-> @[c]]]
      BY <2>2 DEF ApplyAutoAction
    <3>2. x \in DOMAIN view[r] /\ x # b
      BY <1>1, <1>5, <3>1 DEF Shape
    <3>3. rows[x].status = "PENDING"
      BY <1>5, <3>1, <3>2 DEF InOrder, Served
    <3>4. x \in DOMAIN rows
      BY <1>1, <3>2 DEF Shape, Base, Request, Informed, HasRead1
    <3> QED BY <3>1, <3>2, <3>3, <3>4
  <2> QED BY <2>1, <2>2
<1>6. Served(r)'
  BY <1>2, <1>5 DEF Served
<1>7. StaysPaid(rows')
  <2>1. ASSUME LeftAlone, NEW b \in Bills, rows'[b] # rows[b] PROVE rows[b].status = "PENDING"
    <3>1. dto[r].kind = "matchAll"
      BY <1>3, <2>1 DEF LeftAlone
    <3>2. b \in DOMAIN view[r] /\ pc[r] = "matching"
      BY <1>2, <2>1, Disjoint
    <3> QED BY <3>1, <3>2 DEF InOrder, Served
  <2> QED BY <2>1 DEF StaysPaid
<1> QED BY <1>2, <1>3, <1>4, <1>6, <1>7, InOrderKept

(* What had to be written has been. *)
LEMMA FinishInOrder ==
  ASSUME PayablesAssumption, Base, InOrder, OneByOne, NEW r \in Requests, Finish(r)
  PROVE  InOrder' /\ StaysPaid(rows')
<1>1. Shape
  BY DEF Base
<1>2. /\ pc[r] = "saving" /\ todo[r] = << >> /\ End(r, "done") /\ load' = load
      /\ payments' = IF r \in inserted THEN payments \cup draft[r] ELSE payments
  BY FinishIs
<1>3. rows' = [x \in DOMAIN rows |-> Seen(r, x)] /\ (draft[r] = {} \/ r \in inserted)
  BY DEF Finish, Commit, Inserted
<1>4. payments' = payments \cup draft[r]
  BY <1>2, <1>3
<1>5. /\ pc'[r] = "done" /\ dto' = dto /\ \A s \in Requests \ {r} : pc'[s] = pc[s]
  BY <1>1, <1>2, EndIs
<1>6. PICK goal : Reaches(r, goal) /\ StaysPaid(goal) /\ Explains(goal, payments \cup draft[r])
  BY <1>2 DEF InOrder, Served
<1>7. \A x \in Rows : rows'[x] = goal[x]
  BY <1>1, <1>2, <1>3, <1>6 DEF Shape, Reaches
<1>8. PICK table, P : table = rows' /\ P = payments \cup draft[r]
  OBVIOUS
<1>9. Explains(table, P)
  BY <1>6, <1>7, <1>8, ExplainsSame
<1>10. Explains(table, P)'
  BY <1>5, <1>9, ExplainsLater
<1>11. Explains(rows, payments)'
  BY <1>4, <1>8, <1>10
<1>12. Served(r)'
  BY <1>5 DEF Served
<1>13. StaysPaid(rows')
  BY <1>6, <1>7, Disjoint DEF StaysPaid
<1> QED BY <1>2, <1>5, <1>11, <1>12, <1>13, InOrderKept

LEMMA InOrderInit == PayablesAssumption /\ Init => InOrder
<1> SUFFICES ASSUME PayablesAssumption, Init PROVE InOrder
  OBVIOUS
<1>1. /\ pc = [r \in Requests |-> "idle"] /\ payments = {} /\ load \in Loads
  BY DEF Init, SessionsInit
<1>2. InFlight = {}
  BY <1>1 DEF InFlight
<1>3. IsFiniteSet(InFlight)
  BY <1>2, FS_EmptySet
<1>4. /\ \A b \in Bills : rows[b].status # "PAID" /\ rows[b].paid_amount = 0
      /\ \A p \in Plans : rows[p] = [status |-> load.standing[p].status, bill |-> load.standing[p].bill]
  BY InitRows
<1>5. \A b : PaidAmong({}, b) = 0
  BY SumEmpty DEF PaidAmong
<1>6. ASSUME NEW p \in Plans, NEW q \in Plans, rows[p].bill = rows[q].bill, rows[p].bill # NoBill
      PROVE  p = q
  <2>a. PICK one, other : one = load.standing[p] /\ other = load.standing[q]
    OBVIOUS
  <2>1. rows[p] = [status |-> one.status, bill |-> one.bill] /\ rows[q] = [status |-> other.status, bill |-> other.bill]
    BY <1>4, <2>a
  <2>2. one.bill = other.bill /\ one.bill # NoBill
    BY <1>6, <2>1
  <2> QED BY <1>1, <2>2, <2>a DEF PayablesAssumption
<1>7. Explains(rows, payments)
  BY <1>1, <1>4, <1>5, <1>6 DEF Explains, Covered
<1>8. \A r \in Requests : Served(r)
  BY <1>1 DEF Served
<1> QED BY <1>2, <1>3, <1>7, <1>8 DEF InOrder

LEMMA LoadKept == ASSUME [Next]_vars PROVE load' = load
<1>1. ASSUME NEW r \in Requests, Arrive(r) PROVE load' = load
  BY <1>1 DEF Arrive, ledgerVars
<1>2. ASSUME NEW r \in Requests, Handle(r) PROVE load' = load
  <2>1. CASE Fetch(r) \/ MarkOverdue(r) \/ Write(r) \/ FraudClear(r) \/ FraudBlock(r) \/ RecordTransaction(r)
    BY <2>1 DEF Fetch, MarkOverdue, Write, FraudClear, FraudBlock, RecordTransaction, Fail, ledgerVars
  <2>2. CASE BeginMatching(r) \/ ApplyAutoAction(r) \/ EndMatching(r) \/ InsertPayment(r) \/ Finish(r)
    BY <2>2 DEF BeginMatching, ApplyAutoAction, EndMatching, InsertPayment, Fail, Finish, ledgerVars
  <2>3. CASE PaySupplier(r) \/ CreateSchedule(r) \/ Answer(r) \/ PayInstallment(r)
    BY <2>3 DEF PaySupplier, CreateSchedule, Answer, PayInstallment, Decide, Fail
  <2>4. CASE Review(r) \/ EditBill(r) \/ Settle(r) \/ Resolve(r)
    BY <2>4 DEF Review, EditBill, Settle, Resolve, Decide, Fail
  <2> QED BY <1>2, <2>1, <2>2, <2>3, <2>4 DEF Handle
<1>3. ASSUME NEW r \in Requests, Abort(r) PROVE load' = load
  BY <1>3 DEF Abort, Fail
<1> QED BY <1>1, <1>2, <1>3 DEF Next, vars, ledgerVars

LEMMA InOrderStep ==
  ASSUME PayablesAssumption, Base, Base', InOrder, OneByOne, [Next]_vars
  PROVE  InOrder' /\ StaysPaid(rows')
<1>1. CASE UNCHANGED vars
  <2>1. UNCHANGED <<rows, pc, dto, view, todo, diff, pending, payments, draft, load>>
    BY <1>1 DEF vars, sessionVars, ledgerVars
  <2>2. Explains(rows, payments)'
    BY <2>1, StillThere DEF InOrder
  <2>3. ASSUME NEW r \in Requests PROVE Served(r)'
    <3>1. Served(r)
      BY DEF InOrder
    <3>2. pc[r] \in Saving =>
            \E goal : Reaches(r, goal)' /\ StaysPaid(goal)' /\ Explains(goal, payments \cup draft[r])'
      BY <2>1, <3>1, ServedStill
    <3> QED BY <2>1, <3>1, <3>2 DEF Served
  <2>4. InFlight' = InFlight
    BY <2>1 DEF InFlight
  <2> QED BY <2>1, <2>2, <2>3, <2>4 DEF InOrder, StaysPaid
<1>2. ASSUME NEW r \in Requests, Arrive(r) PROVE InOrder' /\ StaysPaid(rows')
  <2>1. rows' = rows
    BY <1>2 DEF Arrive, Open
  <2> QED BY <1>2, <2>1, ArriveInOrder DEF StaysPaid
<1>3. ASSUME NEW r \in Requests, Fail(r), Handle(r) \/ Abort(r) PROVE InOrder' /\ StaysPaid(rows')
  <2>1. pc[r] \notin {"idle"} \cup Ended
    <3>1. ASSUME Handle(r) PROVE pc[r] \in {"reading", "saving", "updating", "recording", "matching"}
      <4>1. CASE Fetch(r) \/ PaySupplier(r) \/ CreateSchedule(r) \/ Answer(r) \/ PayInstallment(r)
                 \/ Review(r) \/ EditBill(r) \/ Settle(r) \/ Resolve(r)
        BY <4>1 DEF Fetch, PaySupplier, CreateSchedule, Answer, PayInstallment, Review, EditBill, Settle,
          Resolve, Handles
      <4>2. CASE MarkOverdue(r) \/ InsertPayment(r) \/ Write(r) \/ FraudClear(r) \/ FraudBlock(r)
        BY <4>2 DEF MarkOverdue, Handles, InsertPayment, Write, Reload, Update, FraudClear, FraudBlock, AllSaved
      <4>3. CASE RecordTransaction(r) \/ Finish(r) \/ BeginMatching(r) \/ ApplyAutoAction(r) \/ EndMatching(r)
        BY <4>3 DEF RecordTransaction, Finish, AllSaved, BeginMatching, Handles, ApplyAutoAction, EndMatching
      <4> QED BY <3>1, <4>1, <4>2, <4>3 DEF Handle
    <3>2. Abort(r) => pc[r] \notin {"idle"} \cup Ended
      BY DEF Abort, InFlight
    <3> QED BY <1>3, <3>1, <3>2
  <2>2. rows' = rows
    BY <1>3 DEF Fail, Rollback
  <2> QED BY <1>3, <2>1, <2>2, FailInOrder DEF StaysPaid
<1>4. ASSUME NEW r \in Requests, Handle(r), ~Fail(r) PROVE InOrder' /\ StaysPaid(rows')
  <2>0. rows' = rows => StaysPaid(rows')
    BY DEF StaysPaid
  <2>1. CASE Fetch(r)
    BY <2>0, <2>1, FetchInOrder DEF Fetch, Read
  <2>2. CASE FraudClear(r) \/ RecordTransaction(r) \/ InsertPayment(r)
    <3>1. rows' = rows
      BY <1>4, <2>2, InsertAlone DEF FraudClear, RecordTransaction, sessionVars
    <3> QED BY <1>4, <2>0, <2>2, <3>1, PhaseInOrder
  <2>3. CASE PaySupplier(r) \/ PayInstallment(r)
    <3>1. rows' = rows
      BY <1>4, <2>3 DEF PaySupplier, PayInstallment, Decide, Proceed
    <3> QED BY <1>4, <2>0, <2>3, <3>1, PayInOrder, InstallmentInOrder
  <2>4. CASE CreateSchedule(r) \/ Answer(r)
    <3>1. rows' = rows
      BY <1>4, <2>4 DEF CreateSchedule, Answer, Decide, Proceed
    <3> QED BY <1>4, <2>0, <2>4, <3>1, CreateInOrder, AnswerInOrder
  <2>5. CASE Review(r) \/ EditBill(r) \/ Settle(r) \/ Resolve(r)
    <3>1. rows' = rows
      BY <1>4, <2>5 DEF Review, EditBill, Settle, Resolve, Decide, Proceed
    <3> QED BY <1>4, <2>0, <2>5, <3>1, ReviseInOrder
  <2>6. CASE MarkOverdue(r) \/ EndMatching(r)
    BY <2>6, OverdueInOrder
  <2>7. CASE Write(r)
    BY <2>0, <2>7, ReloadInOrder, UpdateInOrder DEF Write, Reload, Update
  <2>8. CASE Finish(r)
    BY <2>8, FinishInOrder
  <2>9. CASE BeginMatching(r) \/ ApplyAutoAction(r)
    BY <2>9, MatchingInOrder
  <2>10. CASE FraudBlock(r)
    BY <1>4, <2>10 DEF FraudBlock
  <2> QED BY <1>4, <2>1, <2>2, <2>3, <2>4, <2>5, <2>6, <2>7, <2>8, <2>9, <2>10 DEF Handle
<1> QED BY <1>1, <1>2, <1>3, <1>4 DEF Next, Abort

-----------------------------------------------------------------------------
Accounted == Base /\ Settling /\ InOrder

LEMMA AccountedStep ==
  ASSUME PayablesAssumption, Accounted, [Next]_vars
  PROVE  Accounted' /\ (OneByOne => StaysPaid(rows'))
<1>1. Base' /\ Settling'
  BY BaseStep, SettlingStep DEF Accounted
<1>2. OneByOne' <=> OneByOne
  BY LoadKept DEF OneByOne
<1>3. CASE OneByOne
  BY <1>1, <1>3, InOrderStep DEF Accounted
<1>4. CASE ~OneByOne
  BY <1>1, <1>2, <1>4 DEF Accounted, InOrder
<1> QED BY <1>3, <1>4

THEOREM PayablesAccounted == Spec => []Accounted
<1>1. Init => Accounted
  BY PayablesAssumption, BaseInit, SettlingInit, InOrderInit DEF Accounted
<1>2. Accounted /\ [Next]_vars => Accounted'
  BY PayablesAssumption, AccountedStep
<1> QED BY <1>1, <1>2, PTL DEF Spec

LEMMA AccountedSafe ==
  ASSUME PayablesAssumption, Accounted
  PROVE  InstallmentsFollow /\ PaidMeansPaid
<1>1. \A x \in PlanLines : rows[x].status = "PAID" => \E p \in payments : p.line = x
  BY Disjoint DEF Accounted, Base, RowsKnown, Known, Paid
<1>2. \A p \in payments : p.line # << >> =>
        \A m \in 1 .. p.line[2] - 1 : \E q \in payments : q.line = <<p.line[1], m>>
  BY DEF Accounted, Base, LinesFollow, Paid
<1>3. OneByOne => Explains(rows, payments)
  BY DEF Accounted, InOrder
<1>4. InstallmentsFollow
  BY <1>1, <1>2, <1>3 DEF InstallmentsFollow, Explains
<1>5. ASSUME NEW b \in Bills, OneByOne \/ ~Revised(b) PROVE Covered(rows[b])
  BY <1>3, <1>5 DEF Accounted, Settling, Explains
<1>6. ASSUME NEW b \in Bills, OneByOne, ~Asked({"settle"}, b) PROVE rows[b].paid_amount = PaidTo(b)
  <2>1. rows[b].paid_amount = PaidAmong(payments, b)
    BY <1>3, <1>6 DEF Explains
  <2> QED BY <2>1 DEF PaidAmong, PaidTo
<1>7. PaidMeansPaid
  BY <1>5, <1>6 DEF PaidMeansPaid, Covered
<1> QED BY <1>4, <1>7

(* An installment marked paid has its payment, after those of the earlier  *)
(* ones; served one by one it is paid once, of an accepted schedule, the   *)
(* only one of its invoice.                                                *)
THEOREM InstallmentsInOrder == Spec => []InstallmentsFollow
BY PayablesAssumption, PayablesAccounted, AccountedSafe, PTL

(* An invoice that says PAID has been paid, and what is paid of it is the  *)
(* sum of its payments, as far as nobody sets it by hand or overwrites it. *)
THEOREM PaidIsPaid == Spec => []PaidMeansPaid
BY PayablesAssumption, PayablesAccounted, AccountedSafe, PTL

(* Served one by one, no step takes an invoice out of PAID when nobody     *)
(* lowers what is paid by hand nor matches an invoice on its own.          *)
THEOREM PaidStays == Spec => PaidIsFinal
<1> DEFINE Final == OneByOne /\ LeftAlone =>
                      \A b \in Bills : rows[b].status = "PAID" => rows'[b].status = "PAID"
<1>1. Accounted /\ [Next]_vars => [Final]_vars
  BY PayablesAssumption, AccountedStep DEF StaysPaid
<1>2. Spec => [][Final]_vars
  BY <1>1, PayablesAccounted, PTL DEF Spec
<1> QED BY <1>2 DEF PaidIsFinal
=============================================================================
