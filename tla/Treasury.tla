------------------------------ MODULE Treasury ------------------------------
(***************************************************************************)
(* Bank and cash accounts, the ledger of their transactions, deposits,     *)
(* transfers, the payments received on sales invoices and the life cycle   *)
(* of these invoices, as concurrent requests over the database of          *)
(* Sessions.  What leaves an account for a supplier is in Payables.        *)
(*                                                                         *)
(* The ledger row of an operation is inserted by TransactionsService on a  *)
(* connection of its own, so it is committed at once, whatever becomes of  *)
(* the transaction it is about.                                            *)
(***************************************************************************)
EXTENDS Sessions

CONSTANTS Accounts, Invoices,
          Inputs,      \* the validated bodies the requests may carry
          Opening,     \* opening_balance of each account
          Total,       \* total_ttc of each invoice when it is created
          Limit        \* capacity of a numeric(15,3) column

InvoiceStatus == {"DRAFT", "SENT", "PARTIALLY_PAID", "PAID", "OVERDUE", "CANCELLED"}

Deposits  == [kind : {"deposit"}, account : Accounts, amount : Nat \ {0}]
Transfers == {d \in [kind : {"transfer"}, from : Accounts, to : Accounts,
                     amount : Nat \ {0}] : d.from # d.to}
ClientPayments == [kind : {"payment"}, invoice : Invoices, account : Accounts,
                   amount : Nat \ {0}]
NotGiven == -1   \* a field the body of a request leaves out
AccountEdits == [kind : {"edit"}, account : Accounts,
                 current_balance : Nat \cup {NotGiven}, is_default : BOOLEAN]
Toggles == [kind : {"toggle"}, account : Accounts]
Transitions == [kind : {"transition"}, invoice : Invoices,
                target : InvoiceStatus \ {"DRAFT"}]
InvoiceEdits == [kind : {"invoiceEdit"}, invoice : Invoices, total : Nat]

Dto == Deposits \cup Transfers \cup ClientPayments \cup AccountEdits \cup Toggles
         \cup Transitions \cup InvoiceEdits

ASSUME TreasuryAssumption ==
  /\ Accounts \cap Invoices = {}
  /\ Inputs \subseteq Dto
  /\ Limit \in Nat
  /\ Opening \in [Accounts -> 0 .. Limit - 1]
  /\ Total \in [Invoices -> Nat]
  /\ \A d \in Inputs : /\ d.kind = "edit" => d.current_balance < Limit
                       /\ d.kind = "invoiceEdit" => d.total < Limit

Account == [current_balance : Int, is_active : BOOLEAN, is_default : BOOLEAN]
Invoice == [total_ttc : Nat, paid_amount : Int, status : InvoiceStatus]

VARIABLES ledger,    \* the transactions table
          payments   \* per invoice, the sum of the amounts of its Payment rows

vars == <<sessionVars, ledger, payments>>

TRANSITIONS ==
  [DRAFT          |-> {"SENT", "CANCELLED"},
   SENT           |-> {"PARTIALLY_PAID", "PAID", "OVERDUE", "CANCELLED"},
   PARTIALLY_PAID |-> {"PAID", "OVERDUE"},
   PAID           |-> {},
   OVERDUE        |-> {"PARTIALLY_PAID", "PAID"},
   CANCELLED      |-> {}]

(* Everything but the edits and the status changes runs in a transaction. *)
Transactional(d) == d.kind \in {"deposit", "transfer", "payment"}

(* The rows each operation reads, in the order of its findOne calls. *)
Reads(d) ==
  CASE d.kind \in {"deposit", "edit", "toggle"}     -> <<d.account>>
    [] d.kind = "transfer"                          -> <<d.from, d.to>>
    [] d.kind = "payment"                           -> <<d.invoice, d.account>>
    [] d.kind \in {"transition", "invoiceEdit"}     -> <<d.invoice>>

(* The ledger rows each operation inserts once its saves are made. *)
Entry(r, account, amount) == [by |-> r, account |-> account, amount |-> amount]
Entries(r) ==
  LET d == dto[r] IN
  CASE d.kind \in {"deposit", "payment"} -> <<Entry(r, d.account, d.amount)>>
    [] d.kind = "transfer" -> <<Entry(r, d.from, -d.amount), Entry(r, d.to, d.amount)>>
    [] OTHER -> << >>

(* The first of these rows that is not in the table yet. *)
IsNextEntry(r, n) ==
  /\ n \in 1 .. Len(Entries(r)) /\ Entries(r)[n] \notin ledger
  /\ \A m \in 1 .. n - 1 : Entries(r)[m] \in ledger

(* All of them are in, and the test that forgets the last one. *)
AllButOneRecorded(r) == \A n \in 1 .. Len(Entries(r)) - 1 : Entries(r)[n] \in ledger
AllRecorded(r) == \A n \in 1 .. Len(Entries(r)) : Entries(r)[n] \in ledger

Fits(n) == n < Limit

(* "Verifier solde suffisant", and the same check forgotten. *)
CoversAnything(account, amount) == TRUE
Covers(account, amount) == account.current_balance >= amount

(* "Verifier que le montant ne depasse pas le restant du", and the same    *)
(* check against the total.                                                *)
WithinTotal(invoice, amount) == amount <= invoice.total_ttc
WithinRemaining(invoice, amount) == amount <= invoice.total_ttc - invoice.paid_amount

(* The invoice after a payment; the broken form takes it as fully paid.    *)
SettledAtOnce(invoice, amount) ==
  [invoice EXCEPT !.paid_amount = invoice.total_ttc, !.status = "PAID"]
WithPayment(invoice, amount) ==
  LET newPaidAmount == invoice.paid_amount + amount IN
  [invoice EXCEPT !.paid_amount = newPaidAmount,
                  !.status = IF newPaidAmount >= invoice.total_ttc
                             THEN "PAID" ELSE "PARTIALLY_PAID"]

-----------------------------------------------------------------------------
(* The handlers.  Each starts with the reads of Reads and ends with a      *)
(* refusal (an exception, nothing was written) or with its planned saves.  *)
Arrive(r) ==
  \E d \in Inputs :
    /\ Open(r, d, Transactional(d))
    /\ UNCHANGED <<ledger, payments>>

HasRead(r, n) == Reads(dto[r])[n] \in DOMAIN view[r]

Fetch(r) ==
  /\ pc[r] = "reading"
  /\ \E n \in 1 .. Len(Reads(dto[r])) :
       /\ ~HasRead(r, n) /\ \A m \in 1 .. n - 1 : HasRead(r, m)
       /\ Read(r, {Reads(dto[r])[n]})
  /\ UNCHANGED <<ledger, payments>>

Handles(r, kind) ==
  /\ pc[r] = "reading"
  /\ dto[r].kind = kind
  /\ \A n \in 1 .. Len(Reads(dto[r])) : HasRead(r, n)

Decide(r, ok, saves) ==
  /\ IF ok THEN Proceed(r, saves) ELSE Rollback(r)
  /\ UNCHANGED <<ledger, payments>>

SaveAccount(a, account) == Save(a, account, {"current_balance"})

Deposit(r) ==
  /\ Handles(r, "deposit")
  /\ LET d == dto[r]
         account == view[r][d.account]
         newBalance == account.current_balance + d.amount
     IN Decide(r, account.is_active /\ Fits(newBalance),
               <<SaveAccount(d.account, [account EXCEPT !.current_balance = newBalance])>>)

Transfer(r) ==
  /\ Handles(r, "transfer")
  /\ LET d == dto[r]
         from == view[r][d.from]
         to == view[r][d.to]
     IN Decide(r, /\ from.is_active /\ to.is_active
                  /\ Covers(from, d.amount)
                  /\ Fits(to.current_balance + d.amount),
               <<SaveAccount(d.from, [from EXCEPT !.current_balance = @ - d.amount]),
                 SaveAccount(d.to, [to EXCEPT !.current_balance = @ + d.amount])>>)

ClientPayment(r) ==
  /\ Handles(r, "payment")
  /\ LET d == dto[r]
         invoice == view[r][d.invoice]
         account == view[r][d.account]
     IN Decide(r, /\ invoice.status \notin {"PAID", "CANCELLED"}
                  /\ account.is_active
                  /\ WithinRemaining(invoice, d.amount)
                  /\ Fits(account.current_balance + d.amount),
               <<Save(d.invoice, WithPayment(invoice, d.amount), {"paid_amount"}),
                 SaveAccount(d.account,
                   [account EXCEPT !.current_balance = @ + d.amount])>>)

(* update(): with is_default the other defaults are first cleared, by an   *)
(* UPDATE of its own that commits at once (and waits for their locks).     *)
EditAccount(r) ==
  /\ Handles(r, "edit")
  /\ LET d == dto[r]
         account == view[r][d.account]
         cleared == {a \in Accounts : d.is_default /\ rows[a].is_default}
         given == d.current_balance # NotGiven
         entity == [account EXCEPT
                      !.current_balance = IF given THEN d.current_balance ELSE @,
                      !.is_default = d.is_default \/ @]
     IN /\ \A a \in cleared : ~LockedByOther(r, a)
        /\ rows' = [x \in DOMAIN rows |->
                      IF x \in cleared THEN [rows[x] EXCEPT !.is_default = FALSE]
                      ELSE rows[x]]
        /\ pc' = [pc EXCEPT ![r] = "saving"]
        /\ todo' = [todo EXCEPT ![r] =
              <<Save(d.account, entity, IF given THEN {"current_balance"} ELSE {})>>]
  /\ UNCHANGED <<dto, view, diff, pending, conns, ledger, payments>>

ToggleActive(r) ==
  /\ Handles(r, "toggle")
  /\ LET a == dto[r].account
         account == view[r][a]
     IN Decide(r, ~(account.is_default /\ account.is_active),
               <<Save(a, [account EXCEPT !.is_active = ~@], {})>>)

(* send, markPartiallyPaid, markPaid, markOverdue and cancel. *)
TransitionInvoice(r) ==
  /\ Handles(r, "transition")
  /\ LET d == dto[r]
         invoice == view[r][d.invoice]
     IN Decide(r, d.target \in TRANSITIONS[invoice.status],
               <<Save(d.invoice, [invoice EXCEPT !.status = d.target], {})>>)

EditInvoice(r) ==
  /\ Handles(r, "invoiceEdit")
  /\ LET d == dto[r]
         invoice == view[r][d.invoice]
     IN Decide(r, invoice.status = "DRAFT",
               <<Save(d.invoice, [invoice EXCEPT !.total_ttc = d.total], {"total_ttc"})>>)

-----------------------------------------------------------------------------
Write(r) ==
  /\ Reload(r) \/ Update(r)
  /\ UNCHANGED <<ledger, payments>>

(* TransactionsService.create: the fraud service lets the row through (it  *)
(* also does so when it is unreachable), or it blocks it and the caller's  *)
(* transaction rolls back.                                                 *)
FraudClear(r) ==
  /\ AllSaved(r) /\ ~AllRecorded(r)
  /\ pc' = [pc EXCEPT ![r] = "recording"]
  /\ UNCHANGED <<rows, dto, view, todo, diff, pending, conns, ledger, payments>>

FraudBlock(r) ==
  /\ AllSaved(r) /\ ~AllRecorded(r)
  /\ Rollback(r)
  /\ UNCHANGED <<ledger, payments>>

(* The row is inserted, and committed, on another connection of the pool.  *)
RecordTransaction(r) ==
  /\ pc[r] = "recording"
  /\ Cardinality(conns) < PoolSize
  /\ \E n \in 1 .. Len(Entries(r)) :
       IsNextEntry(r, n) /\ ledger' = ledger \cup {Entries(r)[n]}
  /\ pc' = [pc EXCEPT ![r] = "saving"]
  /\ UNCHANGED <<rows, dto, view, todo, diff, pending, conns, payments>>

Finish(r) ==
  /\ AllSaved(r) /\ AllRecorded(r)
  /\ Commit(r)
  /\ payments' = IF dto[r].kind = "payment"
                 THEN [payments EXCEPT ![dto[r].invoice] = @ + dto[r].amount]
                 ELSE payments
  /\ UNCHANGED ledger

(* A lost connection or a crash, at any moment of the request. *)
Abort(r) ==
  /\ r \in InFlight
  /\ Rollback(r)
  /\ UNCHANGED <<ledger, payments>>

DeadlockVictim(r) ==
  /\ Deadlocked(r)
  /\ Rollback(r)
  /\ UNCHANGED <<ledger, payments>>

Handle(r) ==
  \/ Fetch(r) \/ Deposit(r) \/ Transfer(r) \/ ClientPayment(r)
  \/ EditAccount(r) \/ ToggleActive(r) \/ TransitionInvoice(r) \/ EditInvoice(r)
  \/ Write(r) \/ FraudClear(r) \/ FraudBlock(r) \/ RecordTransaction(r) \/ Finish(r)
  \/ DeadlockVictim(r)

Next == \E r \in Requests : Arrive(r) \/ Handle(r) \/ Abort(r)

Init ==
  /\ SessionsInit
  /\ ledger = {}
  /\ payments = [i \in Invoices |-> 0]
  /\ \E default \in Accounts, sent \in SUBSET Invoices :
       rows = [x \in Accounts \cup Invoices |->
                 IF x \in Accounts
                 THEN [current_balance |-> Opening[x], is_active |-> TRUE,
                       is_default |-> x = default]
                 ELSE [total_ttc |-> Total[x], paid_amount |-> 0,
                       status |-> IF x \in sent THEN "SENT" ELSE "DRAFT"]]

Spec == Init /\ [][Next]_vars

(* The process keeps serving what it has started; nobody has to send a     *)
(* request, and nothing has to crash.                                      *)
FairSpec == Spec /\ \A r \in Requests : WF_vars(Handle(r))

-----------------------------------------------------------------------------
(***************************************************************************)
(* Properties.                                                             *)
(***************************************************************************)

Row(x) == IF x \in Accounts THEN Account ELSE Invoice
IsEntityOf(x, entity) == x \in Accounts \cup Invoices /\ entity \in Row(x)

(* Type invariant: every row, and every entity a request holds in memory,  *)
(* in a planned save or in an uncommitted UPDATE, has the columns of its   *)
(* table; what the pool lends it lends to requests in flight.              *)
TypeOK ==
  /\ pc \in [Requests -> Phases]
  /\ DOMAIN rows = Accounts \cup Invoices
  /\ \A x \in DOMAIN rows : IsEntityOf(x, rows[x])
  /\ \A r \in Requests : 
       /\ pc[r] # "idle" => dto[r] \in Inputs
       /\ \A x \in DOMAIN view[r] : IsEntityOf(x, view[r][x])
       /\ \A n \in DOMAIN todo[r] : \A x \in DOMAIN todo[r][n].image :
             IsEntityOf(x, todo[r][n].image[x])
       /\ \A x \in DOMAIN pending[r] : IsEntityOf(x, pending[r][x].entity)
  /\ conns \subseteq Requests
  /\ payments \in [Invoices -> Nat]

(* No operation of this module overdraws an account, in whatever order the *)
(* transactions read and commit: a lost update loses money on paper, but   *)
(* each written balance was checked against the balance it was made from.  *)
NoOverdraft == \A a \in Accounts : rows[a].current_balance >= 0

(* PaymentsService.create never takes an invoice past its total, even when *)
(* two payments and a status change of the same invoice overlap.           *)
PaidWithinTotal ==
  \A i \in Invoices : rows[i].paid_amount \in 0 .. rows[i].total_ttc

(* An invoice never claims more money than its Payment rows add up to: a   *)
(* stale save may forget a payment, none may invent one.                   *)
PaidWithinReceipts ==
  \A i \in Invoices : rows[i].paid_amount <= payments[i]

(* What the comment in PaymentsService.create asks for ("Verifier que le   *)
(* montant ne depasse pas le restant du"), for requests that are served    *)
(* one by one: the payments taken for an invoice never add up to more than *)
(* its total.  Two payments that overlap both see the whole remaining      *)
(* amount; then only PaidWithinTotal and PaidWithinReceipts hold.          *)
CollectedWithinTotal == \A i \in Invoices : payments[i] <= rows[i].total_ttc

(* A request that is being served ends, whatever it waits for: a row lock, *)
(* the deadlock detector, the second connection its ledger row needs.      *)
Served == \A r \in Requests : r \in InFlight ~> pc[r] \in Ended
=============================================================================
