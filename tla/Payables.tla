------------------------------ MODULE Payables ------------------------------
(***************************************************************************)
(* What the business owes its suppliers: the purchase invoices and their   *)
(* life cycle (approval, dispute, resolution, the nightly OVERDUE job),    *)
(* the supplier payments that debit an account, and the payment schedules  *)
(* a supplier accepts or rejects from a link in a mail and that are then   *)
(* paid one installment after the other.                                   *)
(*                                                                         *)
(* Amounts are in millimes.  A row that does not exist yet has the status  *)
(* ABSENT: an INSERT is a save onto a free identity.                       *)
(***************************************************************************)
EXTENDS Sessions, FiniteSetsExt

CONSTANTS Accounts, Bills, Plans,
          NoBill,      \* a payment on account, of no particular invoice
          Opening,     \* the balance of each account at the start
          Net,         \* net_amount of each purchase invoice at the start
          Loads        \* the traffic considered: which validated bodies, how many
                       \* requests in all and at once, which schedules exist at the start

Tolerance == 5                  \* 0.005 dinar
Lines == 1 .. 2                 \* bound: a schedule has two installments
PlanLines == Plans \X Lines

InvoiceStatus == {"PENDING", "APPROVED", "PARTIALLY_PAID", "PAID", "OVERDUE", "DISPUTED"}
ScheduleStatus == {"ABSENT", "PENDING_APPROVAL", "ACTIVE", "REJECTED"}
InstallmentStatus == {"PENDING", "PAID"}

Amounts == [Lines -> Nat]
SupplierPayments == [kind : {"pay"}, account : Accounts, bill : Bills \cup {NoBill},
                     amount : Nat \ {0}]
NewSchedules == [kind : {"schedule"}, bill : Bills, amounts : Amounts]
Answers      == [kind : {"accept", "reject"}, plan : Plans]
Installments == [kind : {"installment"}, plan : Plans, line : Lines, account : Accounts]
Reviews      == [kind : {"approve", "dispute", "resolve"}, bill : Bills]
NetEdits     == [kind : {"edit"}, bill : Bills, net : Nat]
Settlements  == [kind : {"settle"}, bill : Bills, paid : Nat]
Resolutions  == [kind : {"resolution"}, bill : Bills, net : Nat,
                 action : {"APPROVE_AS_IS", "CORRECT_AMOUNTS", "REJECT_INVOICE", "NOTE"}]
NightlyJobs  == [kind : {"overdue"}, due : SUBSET Bills]
Matchings    == [kind : {"match", "matchAll"}, among : SUBSET Bills,
                 verdict : [Bills -> {"approve", "dispute", "none"}]]

Dto == SupplierPayments \cup NewSchedules \cup Answers \cup Installments \cup Reviews
         \cup NetEdits \cup Settlements \cup Resolutions \cup NightlyJobs
         \cup Matchings

Plan == [status : ScheduleStatus, bill : Bills \cup {NoBill}, amounts : Amounts]

ASSUME PayablesAssumption ==
  /\ Accounts \cap Bills = {} /\ Accounts \cap Plans = {} /\ Bills \cap Plans = {}
  /\ PlanLines \cap (Accounts \cup Bills \cup Plans) = {}
  /\ NoBill \notin Bills
  /\ Opening \in [Accounts -> Nat]
  /\ Net \in [Bills -> Nat]
  /\ \A l \in Loads :
       /\ l.inputs \subseteq Dto
       /\ l.atOnce \in 1 .. MaxInFlight /\ l.inAll \in Nat
       /\ l.standing \in [Plans -> Plan]
       /\ \A p \in Plans : l.standing[p].status = "ABSENT" <=> l.standing[p].bill = NoBill
       /\ \A p, q \in Plans : l.standing[p].bill = l.standing[q].bill =>
                              p = q \/ l.standing[p].bill = NoBill

Account == [current_balance : Int, is_active : BOOLEAN]
Bill == [status : InvoiceStatus, net_amount : Nat, paid_amount : Int]
Schedule == [status : ScheduleStatus, bill : Bills \cup {NoBill}]
Installment == [status : InstallmentStatus, amount : Nat]

VARIABLES payments,   \* the committed rows of supplier_payments
          draft,      \* the row each request will insert, or none
          inserted,   \* the requests whose INSERT is made, not committed
          ledger,     \* the transactions table
          load        \* the traffic of this behaviour

ledgerVars == <<payments, draft, inserted, ledger, load>>
vars == <<sessionVars, ledgerVars>>

Transactional(d) == d.kind \in {"pay", "schedule", "installment"}

(* The rows each operation reads, statement by statement. *)
Reads(d) ==
  CASE d.kind = "pay" -> <<{d.account}>> \o (IF d.bill = NoBill THEN << >> ELSE <<{d.bill}>>)
    [] d.kind = "schedule" -> <<{d.bill}, Plans>>
    [] d.kind \in {"accept", "reject"} -> <<{d.plan} \cup ({d.plan} \X Lines)>>
    [] d.kind = "installment" ->
         <<{d.plan, <<d.plan, d.line>>, rows[d.plan].bill},
           {d.plan} \X (Lines \ {d.line}), {d.account}>>
    [] d.kind = "overdue" -> << >>
    [] d.kind \in {"match", "matchAll"} -> <<d.among>>
    [] OTHER -> <<{d.bill}>>

(* The balance covers the debit. *)
Covers(account, amount) == account.current_balance >= amount

(* The amount against what is left to pay, and the check that was meant    *)
(* for the total.                                                          *)
WithinNet(bill, amount) == amount <= bill.net_amount + Tolerance
WithinRemaining(bill, amount) == amount <= bill.net_amount - bill.paid_amount + Tolerance

WithPayment(bill, amount) ==
  LET newPaid == bill.paid_amount + amount IN
  [bill EXCEPT !.paid_amount = newPaid,
               !.status = IF newPaid >= bill.net_amount - Tolerance
                          THEN "PAID" ELSE "PARTIALLY_PAID"]

(* generateNumber: one more than the highest number committed; and what    *)
(* the unique index on payment_number forbids, or the lack of an index.    *)
Numbers == {p.number : p \in payments}
NextNumber == 1 + Max(Numbers \cup {0})
NoClash(number, other) == FALSE
Clash(number, other) == number = other

Payment(r, number, bill, amount, line) ==
  [by |-> r, number |-> number, bill |-> bill, amount |-> amount, line |-> line]
Entry(r, account, amount) == [by |-> r, account |-> account, amount |-> amount]
DebitOf(r) == Entry(r, dto[r].account, -(CHOOSE p \in draft[r] : TRUE).amount)

-----------------------------------------------------------------------------
(* A token or an installment that does not exist yet cannot be named. *)
Arrive(r) ==
  \E d \in load.inputs :
    /\ Room(load)
    /\ d.kind \in {"accept", "reject", "installment"} => rows[d.plan].status # "ABSENT"
    /\ Open(r, d, Transactional(d))
    /\ UNCHANGED ledgerVars

HasRead(r, n) == Reads(dto[r])[n] \subseteq DOMAIN view[r]

Fetch(r) ==
  /\ pc[r] = "reading"
  /\ \E n \in 1 .. Len(Reads(dto[r])) :
       /\ ~HasRead(r, n) /\ \A m \in 1 .. n - 1 : HasRead(r, m)
       /\ Read(r, Reads(dto[r])[n])
  /\ UNCHANGED ledgerVars

Handles(r, kinds) ==
  /\ pc[r] = "reading"
  /\ dto[r].kind \in kinds
  /\ \A n \in 1 .. Len(Reads(dto[r])) : HasRead(r, n)

Fail(r) ==
  /\ Rollback(r)
  /\ draft' = [draft EXCEPT ![r] = {}]
  /\ inserted' = inserted \ {r}
  /\ UNCHANGED <<payments, ledger, load>>

(* A refusal, or the planned saves and the payment row to insert first. *)
Decide(r, ok, rowsToInsert, saves) ==
  IF ok
  THEN /\ Proceed(r, saves)
       /\ draft' = [draft EXCEPT ![r] = rowsToInsert]
       /\ UNCHANGED <<payments, inserted, ledger, load>>
  ELSE Fail(r)

Debit(a, account, amount) ==
  Save(a, [account EXCEPT !.current_balance = @ - amount], {"current_balance"})

(* SupplierPaymentsService.create *)
PaySupplier(r) ==
  /\ Handles(r, {"pay"})
  /\ LET d == dto[r]
         account == view[r][d.account]
         bill == view[r][d.bill]
         billed == d.bill # NoBill
     IN Decide(r,
          /\ account.is_active /\ Covers(account, d.amount)
          /\ billed => /\ bill.status \in {"APPROVED", "PARTIALLY_PAID", "OVERDUE", "DISPUTED"}
                       /\ WithinRemaining(bill, d.amount),
          {Payment(r, NextNumber, d.bill, d.amount, << >>)},
          (IF billed THEN <<Save(d.bill, WithPayment(bill, d.amount), {"paid_amount"})>>
                     ELSE << >>)
            \o <<Debit(d.account, account, d.amount)>>)

(* PaymentScheduleService.createSchedule; the schedule gets a fresh uuid.  *)
(* What was read of the schedules of the invoice.                          *)
Scheduled(r) == {p \in Plans : view[r][p].bill = dto[r].bill}
Unused == {p \in Plans : /\ rows[p].status = "ABSENT"
                         /\ \A s \in Requests : \A n \in DOMAIN todo[s] :
                                p \notin DOMAIN todo[s][n].image
                         /\ \A s \in Requests : p \notin DOMAIN pending[s]}

CreateSchedule(r) ==
  /\ Handles(r, {"schedule"})
  /\ LET d == dto[r]
         bill == view[r][d.bill]
     IN \E p \in Unused :
          Decide(r,
            /\ bill.status \in {"APPROVED", "PARTIALLY_PAID", "OVERDUE"}
            /\ Scheduled(r) = {}
            /\ WithinRemaining(bill, d.amounts[1] + d.amounts[2]),
            {},
            <<Save(p, [status |-> "PENDING_APPROVAL", bill |-> d.bill], {}),
              [image |-> [x \in {p} \X Lines |->
                            [status |-> "PENDING", amount |-> d.amounts[x[2]]]],
               decimals |-> {}]>>)

(* acceptSchedule, rejectSchedule: the save cascades to the installments   *)
(* that findOne loaded with the schedule.                                  *)
SaveSchedule(r, p, schedule) ==
  [image |-> [x \in {p} \cup ({p} \X Lines) |-> IF x = p THEN schedule ELSE view[r][x]],
   decimals |-> {}]

Answer(r) ==
  /\ Handles(r, {"accept", "reject"})
  /\ LET d == dto[r]
         schedule == view[r][d.plan]
         answer == IF d.kind = "accept" THEN "ACTIVE" ELSE "REJECTED"
     IN Decide(r, schedule.status = "PENDING_APPROVAL", {},
               <<SaveSchedule(r, d.plan, [schedule EXCEPT !.status = answer])>>)

(* Every earlier installment is paid, and the check forgotten.             *)
AnyOrder(r, p, line) == TRUE
EarlierPaid(r, p, line) == \A m \in 1 .. line - 1 : view[r][<<p, m>>].status = "PAID"

(* What may be paid: an installment of an accepted schedule, not paid yet.  *)
Due(schedule, installment) == schedule.status = "ACTIVE" /\ installment.status # "PAID"

PayInstallment(r) ==
  /\ Handles(r, {"installment"})
  /\ LET d == dto[r]
         x == <<d.plan, d.line>>
         schedule == view[r][d.plan]
         installment == view[r][x]
         account == view[r][d.account]
         bill == view[r][schedule.bill]
     IN Decide(r,
          /\ Due(schedule, installment)
          /\ EarlierPaid(r, d.plan, d.line)
          /\ account.is_active /\ Covers(account, installment.amount),
          {Payment(r, NextNumber, schedule.bill, installment.amount, x)},
          <<Save(x, [installment EXCEPT !.status = "PAID"], {}),
            Debit(d.account, account, installment.amount),
            Save(schedule.bill, WithPayment(bill, installment.amount), {"paid_amount"})>>)

(* approve, dispute and resolveDispute of PurchaseInvoicesService. *)
Reviewable(kind, bill) ==
  CASE kind = "approve" -> bill.status = "PENDING"
    [] kind = "dispute" -> bill.status # "PAID"
    [] kind = "resolve" -> bill.status = "DISPUTED"

Review(r) ==
  /\ Handles(r, {"approve", "dispute", "resolve"})
  /\ LET d == dto[r]
         bill == view[r][d.bill]
         target == IF d.kind = "dispute" THEN "DISPUTED" ELSE "APPROVED"
     IN Decide(r, Reviewable(d.kind, bill), {},
               <<Save(d.bill, [bill EXCEPT !.status = target],
                      IF d.kind = "approve" THEN {"net_amount"} ELSE {})>>)

(* PurchaseInvoicesService.update *)
EditBill(r) ==
  /\ Handles(r, {"edit"})
  /\ LET d == dto[r]
         bill == view[r][d.bill]
     IN Decide(r, bill.status = "PENDING", {},
               <<Save(d.bill, [bill EXCEPT !.net_amount = d.net], {"net_amount"})>>)

(* PurchaseInvoicesService.updatePayment *)
Settle(r) ==
  /\ Handles(r, {"settle"})
  /\ LET d == dto[r]
         bill == view[r][d.bill]
         status == IF d.paid >= bill.net_amount THEN "PAID"
                   ELSE IF d.paid > 0 THEN "PARTIALLY_PAID" ELSE "APPROVED"
     IN Decide(r, d.paid <= bill.net_amount, {},
               <<Save(d.bill, [bill EXCEPT !.paid_amount = d.paid, !.status = status],
                      {"paid_amount"})>>)

(* DisputeResolutionService.resolveDispute; NOTE stands for the four       *)
(* actions that only annotate the invoice.                                 *)
Resolve(r) ==
  /\ Handles(r, {"resolution"})
  /\ LET d == dto[r]
         bill == view[r][d.bill]
         corrected == d.action = "CORRECT_AMOUNTS"
         resolved ==
           [bill EXCEPT
              !.status = CASE d.action \in {"APPROVE_AS_IS", "CORRECT_AMOUNTS"} -> "APPROVED"
                           [] d.action = "REJECT_INVOICE" -> "PENDING"
                           [] d.action = "NOTE" -> @,
              !.net_amount = IF corrected THEN d.net ELSE @]
     IN Decide(r, bill.status = "DISPUTED", {},
               <<Save(d.bill, resolved, IF corrected THEN {"net_amount"} ELSE {})>>)

(* The nightly job: one UPDATE of the invoices past their due date, that   *)
(* waits for their locks and commits at once.                              *)
MarkOverdue(r) ==
  /\ Handles(r, {"overdue"})
  /\ LET late == {b \in dto[r].due :
                    rows[b].status \in {"PENDING", "APPROVED", "PARTIALLY_PAID"}}
     IN /\ \A b \in late : ~LockedByOther(r, b)
        /\ rows' = [x \in DOMAIN rows |-> IF x \in late
                                        THEN [rows[x] EXCEPT !.status = "OVERDUE"]
                                        ELSE rows[x]]
  /\ End(r, "done")
  /\ UNCHANGED ledgerVars

(* ThreeWayMatchingService: matchInvoice of any invoice, matchAllPending   *)
(* of those its list found PENDING, or of all the list could have held.    *)
(* What the comparison with order and receipts concludes is the verdict.   *)
AnyStatus(r) == DOMAIN view[r]
ToMatch(r) ==
  {b \in DOMAIN view[r] : dto[r].kind = "match" \/ view[r][b].status = "PENDING"}

BeginMatching(r) ==
  /\ Handles(r, {"match", "matchAll"})
  /\ pc' = [pc EXCEPT ![r] = "matching"]
  /\ view' = [view EXCEPT ![r] = [b \in ToMatch(r) |-> @[b]]]
  /\ UNCHANGED <<rows, dto, todo, diff, pending, conns, ledgerVars>>

(* applyAutoAction: an UPDATE by id alone that commits at once; in the     *)
(* bulk an error on one invoice is logged and the next one follows.        *)
ApplyAutoAction(r) ==
  /\ pc[r] = "matching"
  /\ \E b \in DOMAIN view[r] :
       /\ \/ /\ dto[r].verdict[b] # "none" /\ ~LockedByOther(r, b)
             /\ rows' = [rows EXCEPT ![b].status =
                            IF dto[r].verdict[b] = "approve" THEN "APPROVED" ELSE "DISPUTED"]
          \/ /\ dto[r].verdict[b] = "none" \/ dto[r].kind = "matchAll"
             /\ UNCHANGED rows
       /\ view' = [view EXCEPT ![r] = [c \in DOMAIN @ \ {b} |-> @[c]]]
  /\ UNCHANGED <<pc, dto, todo, diff, pending, conns, ledgerVars>>

EndMatching(r) ==
  /\ pc[r] = "matching" /\ view[r] = Nothing
  /\ End(r, "done")
  /\ UNCHANGED <<rows, ledgerVars>>

-----------------------------------------------------------------------------
(* The payment row, if there is one, is in. *)
Inserted(r) == draft[r] = {} \/ r \in inserted

(* INSERT INTO supplier_payments: waits while the number is in another     *)
(* transaction, fails when it is in the table.                             *)
InsertPayment(r) ==
  /\ pc[r] = "saving"
  /\ ~Inserted(r)
  /\ LET p == CHOOSE p \in draft[r] : TRUE IN
       /\ \A s \in inserted : \A q \in draft[s] : ~Clash(p.number, q.number)
       /\ IF \E n \in Numbers : Clash(p.number, n)
          THEN Fail(r)
          ELSE inserted' = inserted \cup {r} /\ UNCHANGED <<sessionVars, payments, draft, ledger, load>>

Write(r) ==
  /\ Inserted(r)
  /\ Reload(r) \/ Update(r)
  /\ UNCHANGED ledgerVars

(* A supplier payment records its ledger row on a connection of its own.   *)
Recorded(r) == dto[r].kind = "pay" => DebitOf(r) \in ledger

FraudClear(r) ==
  /\ AllSaved(r) /\ Inserted(r) /\ ~Recorded(r)
  /\ pc' = [pc EXCEPT ![r] = "recording"]
  /\ UNCHANGED <<rows, dto, view, todo, diff, pending, conns, ledgerVars>>

FraudBlock(r) ==
  /\ AllSaved(r) /\ Inserted(r) /\ ~Recorded(r)
  /\ Fail(r)

RecordTransaction(r) ==
  /\ pc[r] = "recording"
  /\ Cardinality(conns) < PoolSize
  /\ ledger' = ledger \cup {DebitOf(r)}
  /\ pc' = [pc EXCEPT ![r] = "saving"]
  /\ UNCHANGED <<rows, dto, view, todo, diff, pending, conns, payments, draft, inserted, load>>

Finish(r) ==
  /\ AllSaved(r) /\ Inserted(r) /\ Recorded(r)
  /\ Commit(r)
  /\ payments' = IF r \in inserted THEN payments \cup draft[r] ELSE payments
  /\ draft' = [draft EXCEPT ![r] = {}]
  /\ inserted' = inserted \ {r}
  /\ ledger' = IF dto[r].kind = "installment" THEN ledger \cup {DebitOf(r)} ELSE ledger
  /\ UNCHANGED load

Abort(r) == r \in InFlight /\ Fail(r)

Handle(r) ==
  \/ Fetch(r) \/ PaySupplier(r) \/ CreateSchedule(r) \/ Answer(r) \/ PayInstallment(r)
  \/ Review(r) \/ EditBill(r) \/ Settle(r) \/ Resolve(r) \/ MarkOverdue(r)
  \/ InsertPayment(r) \/ Write(r) \/ FraudClear(r) \/ FraudBlock(r)
  \/ RecordTransaction(r) \/ Finish(r)
  \/ BeginMatching(r) \/ ApplyAutoAction(r) \/ EndMatching(r)

Next == \E r \in Requests : Arrive(r) \/ Handle(r) \/ Abort(r)

Init ==
  /\ SessionsInit
  /\ payments = {} /\ inserted = {} /\ ledger = {}
  /\ draft = [r \in Requests |-> {}]
  /\ load \in Loads
  /\ \E start \in {"PENDING", "APPROVED"} :
       rows = [x \in Accounts \cup Bills \cup Plans \cup PlanLines |->
         CASE x \in Accounts -> [current_balance |-> Opening[x], is_active |-> TRUE]
           [] x \in Bills -> [status |-> start, net_amount |-> Net[x], paid_amount |-> 0]
           [] x \in Plans -> [status |-> load.standing[x].status, bill |-> load.standing[x].bill]
           [] x \in PlanLines ->
                [status |-> "PENDING", amount |-> load.standing[x[1]].amounts[x[2]]]]

Spec == Init /\ [][Next]_vars

-----------------------------------------------------------------------------
(***************************************************************************)
(* Properties.                                                             *)
(***************************************************************************)

OneByOne == load.atOnce = 1

(* SupplierPaymentsService.create promises that what is paid of an invoice *)
(* stays within its net amount and half a centime.                         *)
PaidWithinNet ==
  \A b \in Bills : rows[b].paid_amount \in 0 .. rows[b].net_amount + Tolerance

(* It holds of the invoices nobody paid an installment of and whose net    *)
(* amount nobody changed, however their payments, reviews, corrections of  *)
(* the paid amount, matchings and the nightly job overlap: what an invoice *)
(* shows as paid was within its net amount for whoever wrote it, stale or  *)
(* not.                                                                    *)
Asked(kinds, b) == \E r \in Requests : pc[r] # "idle" /\ dto[r].kind \in kinds /\ dto[r].bill = b
NetChanged(b) == Asked({"edit", "resolution"}, b)
PaidAtOnceWithinNet ==
  \A b \in Bills :
    \/ NetChanged(b)
    \/ \E p \in payments : p.bill = b /\ p.line # << >>
    \/ rows[b].paid_amount \in 0 .. rows[b].net_amount + Tolerance

(* An installment is marked paid in the transaction that inserts its       *)
(* payment, and only once the payments of the earlier ones have committed, *)
(* whatever the order in which the payments of one schedule are sent.      *)
(* "Installment already paid", "only allowed when schedule is ACTIVE", "A  *)
(* payment schedule already exists for this invoice": served one by one,   *)
(* it is paid once, of an accepted schedule, the only one of its invoice.  *)
(* (Each is tested on rows read without a lock and stated by no index:     *)
(* requests that overlap pay twice, or of a schedule that is rejected, and *)
(* make two schedules.)                                                    *)
InstallmentsFollow ==
  /\ \A x \in PlanLines : rows[x].status = "PAID" => \E p \in payments : p.line = x
  /\ \A p \in payments : p.line # << >> =>
       \A m \in 1 .. p.line[2] - 1 : \E q \in payments : q.line = <<p.line[1], m>>
  /\ OneByOne =>
       /\ \A p, q \in payments : p.line # << >> /\ p.line = q.line => p = q
       /\ \A p \in payments : p.line # << >> => rows[p.line[1]].status = "ACTIVE"
       /\ \A p, q \in Plans : rows[p].bill = rows[q].bill /\ rows[p].bill # NoBill => p = q

(* "Impossible de mettre en litige une facture deja payee": served one by  *)
(* one, with nobody lowering the paid amount by hand nor matching an       *)
(* invoice on its own, no review, resolution, edit, schedule, bulk         *)
(* matching or nightly job takes an invoice out of PAID.                   *)
LeftAlone == \A d \in load.inputs : d.kind \notin {"settle", "match"}
PaidIsFinal ==
  [][OneByOne /\ LeftAlone =>
       \A b \in Bills : rows[b].status = "PAID" => rows'[b].status = "PAID"]_vars

(* An invoice that says PAID has been paid, however its payments, its      *)
(* matchings and the nightly jobs overlap.  It takes the unique index on   *)
(* the numbers: it makes supplier payments write one after the other, so   *)
(* that a save finds the status of the payment before it and corrects it.  *)
(* (A review, edit or correction that overlaps puts back the paid amount   *)
(* it had read, and leaves an invoice PAID with less.)  Served one by one, *)
(* with everything else, what is paid is the sum of the payments, unless   *)
(* it was set by hand.                                                     *)
Revised(b) == Asked({"approve", "dispute", "resolve", "resolution", "edit", "settle"}, b)
PaidTo(b) == SumFunctionOnSet([p \in payments |-> IF p.bill = b THEN p.amount ELSE 0], payments)
PaidMeansPaid ==
  \A b \in Bills :
    /\ (OneByOne \/ ~Revised(b)) /\ rows[b].status = "PAID" =>
         rows[b].paid_amount >= rows[b].net_amount - Tolerance
    /\ OneByOne /\ ~Asked({"settle"}, b) => rows[b].paid_amount = PaidTo(b)

(* A supplier payment locks the invoice then the account, an installment   *)
(* the account then the invoice; still no requests ever wait for each      *)
(* other, because the unique payment number lets one of them in at a time. *)
NeverDeadlocked == \A r \in Requests : ~Deadlocked(r)
=============================================================================
