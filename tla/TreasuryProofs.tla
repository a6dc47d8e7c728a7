--------------------------- MODULE TreasuryProofs ---------------------------
(***************************************************************************)
(* Theorems about Treasury, for any number of requests, accounts and       *)
(* invoices, any pool and any number of requests in flight.                *)
(*                                                                         *)
(* No property of the rows is inductive by itself: what COMMIT writes was  *)
(* decided long before, from rows that may have changed since.  The        *)
(* invariant says of every entity a request holds (read, planned or        *)
(* written but not committed) what the properties say of the rows, in a    *)
(* form that survives the column by column mix of two entities that an     *)
(* UPDATE makes: the bound on paid_amount is stated against the constant   *)
(* Total, since the two columns may come from different transactions.      *)
(*                                                                         *)
(* Backing adds what an entity claims to have been paid, and Serial, for   *)
(* requests served one by one, what the saves a request still has to make  *)
(* will make of the rows: its COMMIT is then one step of IdealTreasury.    *)
(***************************************************************************)
EXTENDS TreasuryRefinement, Sums, TLAPS

Rows == Accounts \cup Invoices
Entity == Account \cup Invoice
SaveSet == [image : UNION {[X -> Entity] : X \in SUBSET Rows},
            decimals : SUBSET {"current_balance", "paid_amount", "total_ttc"}]

(* No request edits the lines of a draft: totals are constant. *)
NoRedraft == \A d \in Inputs : d.kind # "invoiceEdit"

Sound(x, entity) ==
  /\ IsEntityOf(x, entity)
  /\ x \in Accounts => entity.current_balance >= 0
  /\ x \in Invoices => entity.paid_amount >= 0
  /\ x \in Invoices /\ NoRedraft =>
       entity.total_ttc = Total[x] /\ entity.paid_amount <= Total[x]

SoundSave(save) == \A x \in DOMAIN save.image : Sound(x, save.image[x])

Shape ==
  /\ pc \in [Requests -> Phases]
  /\ DOMAIN dto = Requests /\ DOMAIN view = Requests
  /\ todo \in [Requests -> Seq(SaveSet)]
  /\ DOMAIN diff = Requests /\ DOMAIN pending = Requests
  /\ conns \subseteq Requests
  /\ payments \in [Invoices -> Nat]

RowsSound == DOMAIN rows = Rows /\ \A x \in Rows : Sound(x, rows[x])

Memory(r) ==
  /\ pc[r] # "idle" => dto[r] \in Inputs
  /\ \A x \in DOMAIN view[r] : Sound(x, view[r][x])
  /\ \A n \in 1 .. Len(todo[r]) : SoundSave(todo[r][n])
  /\ \A x \in DOMAIN pending[r] : Sound(x, pending[r][x].entity)
  /\ pc[r] = "updating" =>
       todo[r] # << >> /\ DOMAIN diff[r] \subseteq DOMAIN Head(todo[r]).image

Inv == Shape /\ RowsSound /\ \A r \in Requests : Memory(r)

-----------------------------------------------------------------------------
USE DEF NotGiven, Phases, Ended

(* An UPDATE keeps a row sound: each of its columns comes from a sound     *)
(* version of the row.                                                     *)
LEMMA MergeSound ==
  ASSUME NEW x, NEW row, NEW entity, NEW cols,
         TreasuryAssumption, Sound(x, row), Sound(x, entity)
  PROVE  Sound(x, Merge(row, entity, cols))
<1>1. CASE x \in Accounts
  <2>1. Merge(row, entity, cols) \in Account /\ Merge(row, entity, cols).current_balance >= 0
    BY <1>1 DEF Sound, IsEntityOf, Row, Account, Merge
  <2>2. x \notin Invoices
    BY <1>1 DEF TreasuryAssumption
  <2> QED BY <1>1, <2>1, <2>2 DEF Sound, IsEntityOf, Row
<1>2. CASE x \in Invoices
  <2>1. x \notin Accounts
    BY <1>2 DEF TreasuryAssumption
  <2>2. row \in Invoice /\ entity \in Invoice
    BY <1>2, <2>1 DEF Sound, IsEntityOf, Row
  <2>3. Merge(row, entity, cols) \in Invoice
    BY <2>2 DEF Merge, Invoice
  <2>4. /\ Merge(row, entity, cols).paid_amount \in {row.paid_amount, entity.paid_amount}
        /\ Merge(row, entity, cols).total_ttc \in {row.total_ttc, entity.total_ttc}
    BY <2>2 DEF Merge, Invoice
  <2> QED BY <1>2, <2>1, <2>2, <2>3, <2>4 DEF Sound, IsEntityOf, Row, Invoice
<1> QED BY <1>1, <1>2 DEF Sound, IsEntityOf

(* A refused, blocked, aborted or victim request leaves nothing behind. *)
LEMMA RollbackStep ==
  ASSUME Inv, NEW r \in Requests, Rollback(r), pc[r] # "idle", UNCHANGED payments
  PROVE  Inv'
<1>1. Shape'
  BY DEF Inv, Shape, Rollback, End
<1>2. RowsSound'
  BY DEF Inv, RowsSound, Rollback
<1>3. ASSUME NEW s \in Requests PROVE Memory(s)'
  <2>1. CASE s = r
    BY <2>1 DEF Inv, Memory, Shape, Rollback, End, Nothing
  <2>2. CASE s # r
    BY <2>2 DEF Inv, Memory, Shape, Rollback, End
  <2> QED BY <2>1, <2>2
<1> QED BY <1>1, <1>2, <1>3 DEF Inv

(* A handler that plans sound saves keeps the invariant. *)
LEMMA ProceedStep ==
  ASSUME Inv, NEW r \in Requests, NEW saves \in Seq(SaveSet), pc[r] = "reading",
         \A n \in 1 .. Len(saves) : SoundSave(saves[n]),
         Proceed(r, saves), UNCHANGED payments
  PROVE  Inv'
<1>1. Shape'
  BY DEF Inv, Shape, Proceed
<1>2. RowsSound'
  BY DEF Inv, RowsSound, Proceed
<1>3. ASSUME NEW s \in Requests PROVE Memory(s)'
  BY <1>3 DEF Inv, Memory, Shape, Proceed
<1> QED BY <1>1, <1>2, <1>3 DEF Inv

LEMMA DecideStep ==
  ASSUME Inv, NEW r \in Requests, NEW ok, NEW saves, pc[r] = "reading",
         ok => saves \in Seq(SaveSet) /\ \A n \in 1 .. Len(saves) : SoundSave(saves[n]),
         Decide(r, ok, saves)
  PROVE  Inv'
<1>1. CASE ok
  <2>1. Proceed(r, saves) /\ UNCHANGED payments
    BY <1>1 DEF Decide
  <2> QED BY <1>1, <2>1, ProceedStep
<1>2. CASE ~ok
  <2>1. Rollback(r) /\ UNCHANGED payments
    BY <1>2 DEF Decide
  <2> QED BY <2>1, RollbackStep
<1> QED BY <1>1, <1>2

(* The save of one sound entity. *)
LEMMA SaveSound ==
  ASSUME NEW x \in Rows, NEW entity, Sound(x, entity),
         NEW decimals \in SUBSET {"current_balance", "paid_amount", "total_ttc"}
  PROVE  Save(x, entity, decimals) \in SaveSet /\ SoundSave(Save(x, entity, decimals))
<1>1. entity \in Entity
  BY DEF Sound, IsEntityOf, Row, Entity
<1>2. [y \in {x} |-> entity] \in [{x} -> Entity] /\ {x} \in SUBSET Rows
  BY <1>1
<1>3. [y \in {x} |-> entity] \in UNION {[X -> Entity] : X \in SUBSET Rows}
  BY <1>2
<1>4. Save(x, entity, decimals) \in SaveSet
  BY <1>3 DEF Save, SaveSet
<1>5. SoundSave(Save(x, entity, decimals))
  BY DEF Save, SoundSave
<1> QED BY <1>4, <1>5

-----------------------------------------------------------------------------
(* The rows a handler has read are sound entities in memory. *)
LEMMA FetchedSound ==
  ASSUME Inv, NEW r \in Requests, NEW kind, Handles(r, kind),
         NEW n \in 1 .. Len(Reads(dto[r]))
  PROVE  Sound(Reads(dto[r])[n], view[r][Reads(dto[r])[n]])
BY DEF Inv, Memory, Handles, HasRead

LEMMA InputOf ==
  ASSUME Inv, TreasuryAssumption, NEW r \in Requests, NEW kind, Handles(r, kind)
  PROVE  /\ dto[r] \in Inputs /\ dto[r] \in Dto /\ dto[r].kind = kind
         /\ pc[r] = "reading"
BY DEF Inv, Memory, Handles, TreasuryAssumption

(* A sound account with a balance that is not negative stays sound. *)
LEMMA AccountSound ==
  ASSUME TreasuryAssumption, NEW a \in Accounts, NEW account, Sound(a, account),
         NEW new \in Account, new.current_balance >= 0
  PROVE  Sound(a, new) /\ a \in Rows
BY DEF Sound, IsEntityOf, Row, TreasuryAssumption, Rows

LEMMA SoundAccount ==
  ASSUME TreasuryAssumption, NEW a \in Accounts, NEW account, Sound(a, account)
  PROVE  account \in Account /\ account.current_balance >= 0
BY DEF Sound, IsEntityOf, Row

LEMMA SoundInvoice ==
  ASSUME TreasuryAssumption, NEW i \in Invoices, NEW invoice, Sound(i, invoice)
  PROVE  /\ invoice \in Invoice /\ invoice.paid_amount >= 0
         /\ NoRedraft => invoice.total_ttc = Total[i] /\ invoice.paid_amount <= Total[i]
BY DEF Sound, IsEntityOf, Row, TreasuryAssumption

LEMMA InvoiceSound ==
  ASSUME TreasuryAssumption, NEW i \in Invoices, NEW new \in Invoice,
         new.paid_amount >= 0,
         NoRedraft => new.total_ttc = Total[i] /\ new.paid_amount <= Total[i]
  PROVE  Sound(i, new) /\ i \in Rows
BY DEF Sound, IsEntityOf, Row, TreasuryAssumption, Rows

LEMMA OneSave ==
  ASSUME NEW save \in SaveSet, SoundSave(save)
  PROVE  /\ <<save>> \in Seq(SaveSet)
         /\ \A n \in 1 .. Len(<<save>>) : SoundSave(<<save>>[n])
OBVIOUS

LEMMA TwoSaves ==
  ASSUME NEW first \in SaveSet, NEW second \in SaveSet, SoundSave(first), SoundSave(second)
  PROVE  /\ <<first, second>> \in Seq(SaveSet)
         /\ \A n \in 1 .. Len(<<first, second>>) : SoundSave(<<first, second>>[n])
OBVIOUS

LEMMA DepositStep ==
  ASSUME Inv, TreasuryAssumption, NEW r \in Requests, Deposit(r)
  PROVE  Inv'
<1> DEFINE d == dto[r]
           account == view[r][d.account]
           new == [account EXCEPT !.current_balance = account.current_balance + d.amount]
           ok == account.is_active /\ Fits(account.current_balance + d.amount)
<1>1. /\ d \in Dto /\ d.kind = "deposit" /\ pc[r] = "reading" /\ Handles(r, "deposit")
      /\ Decide(r, ok, <<SaveAccount(d.account, new)>>)
  BY InputOf DEF Deposit
<1>2. d.account \in Accounts /\ d.amount \in Nat
  BY <1>1 DEF Dto, Deposits, Transfers, ClientPayments, AccountEdits, Toggles, Transitions, InvoiceEdits
<1>3. Sound(d.account, account)
  <2>1. Reads(d) = <<d.account>>
    BY <1>1 DEF Reads
  <2>2. 1 \in 1 .. Len(Reads(d)) /\ Reads(d)[1] = d.account
    BY <2>1
  <2> QED BY <1>1, <2>2, FetchedSound
<1>4. new \in Account /\ new.current_balance >= 0
  BY <1>2, <1>3, SoundAccount DEF Account
<1>5. SaveAccount(d.account, new) \in SaveSet /\ SoundSave(SaveAccount(d.account, new))
  <2>1. Sound(d.account, new) /\ d.account \in Rows
    BY <1>2, <1>3, <1>4, AccountSound
  <2> HIDE DEF new, d
  <2> QED BY <2>1, SaveSound DEF SaveAccount
<1> HIDE DEF new, ok, d
<1> QED BY <1>1, <1>5, OneSave, DecideStep

LEMMA TransferStep ==
  ASSUME Inv, TreasuryAssumption, NEW r \in Requests, Transfer(r)
  PROVE  Inv'
<1> DEFINE d == dto[r]
           from == view[r][d.from]
           to == view[r][d.to]
           newFrom == [from EXCEPT !.current_balance = @ - d.amount]
           newTo == [to EXCEPT !.current_balance = @ + d.amount]
           ok == /\ from.is_active /\ to.is_active
                 /\ Covers(from, d.amount)
                 /\ Fits(to.current_balance + d.amount)
<1>1. /\ d \in Dto /\ d.kind = "transfer" /\ pc[r] = "reading" /\ Handles(r, "transfer")
      /\ Decide(r, ok, <<SaveAccount(d.from, newFrom), SaveAccount(d.to, newTo)>>)
  BY InputOf DEF Transfer
<1>2. d.from \in Accounts /\ d.to \in Accounts /\ d.amount \in Nat
  BY <1>1 DEF Dto, Deposits, Transfers, ClientPayments, AccountEdits, Toggles, Transitions, InvoiceEdits
<1>3. Sound(d.from, from) /\ Sound(d.to, to)
  <2>1. Reads(d) = <<d.from, d.to>>
    BY <1>1 DEF Reads
  <2>2. /\ 1 \in 1 .. Len(Reads(d)) /\ Reads(d)[1] = d.from
        /\ 2 \in 1 .. Len(Reads(d)) /\ Reads(d)[2] = d.to
    BY <2>1
  <2> QED BY <1>1, <2>2, FetchedSound
<1>4. CASE ok
  <2>1. newFrom \in Account /\ newFrom.current_balance >= 0
    BY <1>2, <1>3, <1>4, SoundAccount DEF Account, Covers
  <2>2. newTo \in Account /\ newTo.current_balance >= 0
    BY <1>2, <1>3, SoundAccount DEF Account
  <2>3. Sound(d.from, newFrom) /\ Sound(d.to, newTo) /\ d.from \in Rows /\ d.to \in Rows
    BY <1>2, <1>3, <2>1, <2>2, AccountSound
  <2>4. /\ SaveAccount(d.from, newFrom) \in SaveSet /\ SoundSave(SaveAccount(d.from, newFrom))
        /\ SaveAccount(d.to, newTo) \in SaveSet /\ SoundSave(SaveAccount(d.to, newTo))
    <3> HIDE DEF newFrom, newTo, d
    <3> QED BY <2>3, SaveSound DEF SaveAccount
  <2> HIDE DEF newFrom, newTo, ok, d
  <2> QED BY <1>1, <2>4, TwoSaves, DecideStep
<1>5. CASE ~ok
  <2> HIDE DEF newFrom, newTo, ok, d
  <2> QED BY <1>1, <1>5, DecideStep
<1> QED BY <1>4, <1>5

LEMMA PaymentKeepsTotal ==
  ASSUME NEW invoice \in Invoice, NEW amount \in Nat
  PROVE  /\ WithPayment(invoice, amount) \in Invoice
         /\ WithPayment(invoice, amount).total_ttc = invoice.total_ttc
         /\ WithPayment(invoice, amount).paid_amount = invoice.paid_amount + amount
<1> DEFINE paid == invoice.paid_amount + amount
<1>1. paid \in Int
  BY DEF Invoice
<1>2. CASE paid >= invoice.total_ttc
  <2>1. WithPayment(invoice, amount) = [invoice EXCEPT !.paid_amount = paid, !.status = "PAID"]
    BY <1>2 DEF WithPayment
  <2> HIDE DEF paid
  <2> QED BY <1>1, <2>1 DEF Invoice, InvoiceStatus, paid
<1>3. CASE ~(paid >= invoice.total_ttc)
  <2>1. WithPayment(invoice, amount)
          = [invoice EXCEPT !.paid_amount = paid, !.status = "PARTIALLY_PAID"]
    BY <1>3 DEF WithPayment
  <2> HIDE DEF paid
  <2> QED BY <1>1, <2>1 DEF Invoice, InvoiceStatus, paid
<1> QED BY <1>2, <1>3

LEMMA ClientPaymentStep ==
  ASSUME Inv, TreasuryAssumption, NEW r \in Requests, ClientPayment(r)
  PROVE  Inv'
<1> DEFINE d == dto[r]
           invoice == view[r][d.invoice]
           account == view[r][d.account]
           newInvoice == WithPayment(invoice, d.amount)
           newAccount == [account EXCEPT !.current_balance = @ + d.amount]
           ok == /\ invoice.status \notin {"PAID", "CANCELLED"}
                 /\ account.is_active
                 /\ WithinRemaining(invoice, d.amount)
                 /\ Fits(account.current_balance + d.amount)
<1>1. /\ d \in Dto /\ d.kind = "payment" /\ pc[r] = "reading" /\ Handles(r, "payment")
      /\ Decide(r, ok, <<Save(d.invoice, newInvoice, {"paid_amount"}),
                         SaveAccount(d.account, newAccount)>>)
  BY InputOf DEF ClientPayment
<1>2. d.invoice \in Invoices /\ d.account \in Accounts /\ d.amount \in Nat
  BY <1>1 DEF Dto, Deposits, Transfers, ClientPayments, AccountEdits, Toggles, Transitions, InvoiceEdits
<1>3. Sound(d.invoice, invoice) /\ Sound(d.account, account)
  <2>1. Reads(d) = <<d.invoice, d.account>>
    BY <1>1 DEF Reads
  <2>2. /\ 1 \in 1 .. Len(Reads(d)) /\ Reads(d)[1] = d.invoice
        /\ 2 \in 1 .. Len(Reads(d)) /\ Reads(d)[2] = d.account
    BY <2>1
  <2> QED BY <1>1, <2>2, FetchedSound
<1>4. CASE ok
  <2>1. newAccount \in Account /\ newAccount.current_balance >= 0
    BY <1>2, <1>3, SoundAccount DEF Account
  <2>2. /\ invoice \in Invoice /\ invoice.paid_amount >= 0
        /\ NoRedraft => invoice.total_ttc = Total[d.invoice]
    BY <1>2, <1>3, SoundInvoice
  <2>3. newInvoice \in Invoice /\ newInvoice.total_ttc = invoice.total_ttc
        /\ newInvoice.paid_amount = invoice.paid_amount + d.amount
    <3> HIDE DEF invoice, d
    <3> QED BY <1>2, <2>2, PaymentKeepsTotal
  <2>4. newInvoice.paid_amount >= 0 /\ newInvoice.paid_amount <= invoice.total_ttc
    BY <1>2, <1>4, <2>2, <2>3 DEF Invoice, WithinRemaining
  <2>5. Sound(d.invoice, newInvoice) /\ d.invoice \in Rows
    <3> HIDE DEF newInvoice
    <3> QED BY <1>2, <2>2, <2>3, <2>4, InvoiceSound
  <2>6. Sound(d.account, newAccount) /\ d.account \in Rows
    BY <1>2, <1>3, <2>1, AccountSound
  <2>7. /\ Save(d.invoice, newInvoice, {"paid_amount"}) \in SaveSet
        /\ SoundSave(Save(d.invoice, newInvoice, {"paid_amount"}))
        /\ SaveAccount(d.account, newAccount) \in SaveSet
        /\ SoundSave(SaveAccount(d.account, newAccount))
    <3> HIDE DEF newInvoice, newAccount, d
    <3> QED BY <2>5, <2>6, SaveSound DEF SaveAccount
  <2> HIDE DEF newInvoice, newAccount, ok, d
  <2> QED BY <1>1, <2>7, TwoSaves, DecideStep
<1>5. CASE ~ok
  <2> HIDE DEF newInvoice, newAccount, ok, d
  <2> QED BY <1>1, <1>5, DecideStep
<1> QED BY <1>4, <1>5

LEMMA ToggleActiveStep ==
  ASSUME Inv, TreasuryAssumption, NEW r \in Requests, ToggleActive(r)
  PROVE  Inv'
<1> DEFINE a == dto[r].account
           account == view[r][a]
           new == [account EXCEPT !.is_active = ~@]
           ok == ~(account.is_default /\ account.is_active)
<1>1. /\ dto[r] \in Dto /\ dto[r].kind = "toggle" /\ pc[r] = "reading"
      /\ Handles(r, "toggle") /\ Decide(r, ok, <<Save(a, new, {})>>)
  BY InputOf DEF ToggleActive
<1>2. a \in Accounts
  BY <1>1 DEF Dto, Deposits, Transfers, ClientPayments, AccountEdits, Toggles, Transitions, InvoiceEdits
<1>3. Sound(a, account)
  <2>1. Reads(dto[r]) = <<a>>
    BY <1>1 DEF Reads
  <2>2. 1 \in 1 .. Len(Reads(dto[r])) /\ Reads(dto[r])[1] = a
    BY <2>1
  <2> QED BY <1>1, <2>2, FetchedSound
<1>4. new \in Account /\ new.current_balance >= 0
  BY <1>2, <1>3, SoundAccount DEF Account
<1>5. Save(a, new, {}) \in SaveSet /\ SoundSave(Save(a, new, {}))
  <2>1. Sound(a, new) /\ a \in Rows
    BY <1>2, <1>3, <1>4, AccountSound
  <2> HIDE DEF new, a
  <2> QED BY <2>1, SaveSound
<1> HIDE DEF new, ok, a
<1> QED BY <1>1, <1>5, OneSave, DecideStep

LEMMA TransitionInvoiceStep ==
  ASSUME Inv, TreasuryAssumption, NEW r \in Requests, TransitionInvoice(r)
  PROVE  Inv'
<1> DEFINE d == dto[r]
           invoice == view[r][d.invoice]
           new == [invoice EXCEPT !.status = d.target]
           ok == d.target \in TRANSITIONS[invoice.status]
<1>1. /\ d \in Dto /\ d.kind = "transition" /\ pc[r] = "reading"
      /\ Handles(r, "transition") /\ Decide(r, ok, <<Save(d.invoice, new, {})>>)
  BY InputOf DEF TransitionInvoice
<1>2. d.invoice \in Invoices /\ d.target \in InvoiceStatus
  BY <1>1 DEF Dto, Deposits, Transfers, ClientPayments, AccountEdits, Toggles, Transitions, InvoiceEdits
<1>3. Sound(d.invoice, invoice)
  <2>1. Reads(d) = <<d.invoice>>
    BY <1>1 DEF Reads
  <2>2. 1 \in 1 .. Len(Reads(d)) /\ Reads(d)[1] = d.invoice
    BY <2>1
  <2> QED BY <1>1, <2>2, FetchedSound
<1>4. /\ new \in Invoice /\ new.paid_amount >= 0
      /\ NoRedraft => new.total_ttc = Total[d.invoice] /\ new.paid_amount <= Total[d.invoice]
  BY <1>2, <1>3, SoundInvoice DEF Invoice
<1>5. Save(d.invoice, new, {}) \in SaveSet /\ SoundSave(Save(d.invoice, new, {}))
  <2> HIDE DEF new, d
  <2> QED BY <1>2, <1>4, InvoiceSound, SaveSound
<1> HIDE DEF new, ok, d
<1> QED BY <1>1, <1>5, OneSave, DecideStep

LEMMA EditInvoiceStep ==
  ASSUME Inv, TreasuryAssumption, NEW r \in Requests, EditInvoice(r)
  PROVE  Inv'
<1> DEFINE d == dto[r]
           invoice == view[r][d.invoice]
           new == [invoice EXCEPT !.total_ttc = d.total]
           ok == invoice.status = "DRAFT"
<1>1. /\ d \in Inputs /\ d \in Dto /\ d.kind = "invoiceEdit" /\ pc[r] = "reading"
      /\ Handles(r, "invoiceEdit")
      /\ Decide(r, ok, <<Save(d.invoice, new, {"total_ttc"})>>)
  BY InputOf DEF EditInvoice
<1>2. d.invoice \in Invoices /\ d.total \in Nat /\ ~NoRedraft
  BY <1>1 DEF Dto, Deposits, Transfers, ClientPayments, AccountEdits, Toggles, Transitions, InvoiceEdits, NoRedraft
<1>3. Sound(d.invoice, invoice)
  <2>1. Reads(d) = <<d.invoice>>
    BY <1>1 DEF Reads
  <2>2. 1 \in 1 .. Len(Reads(d)) /\ Reads(d)[1] = d.invoice
    BY <2>1
  <2> QED BY <1>1, <2>2, FetchedSound
<1>4. new \in Invoice /\ new.paid_amount >= 0
  BY <1>2, <1>3, SoundInvoice DEF Invoice
<1>5. /\ Save(d.invoice, new, {"total_ttc"}) \in SaveSet
      /\ SoundSave(Save(d.invoice, new, {"total_ttc"}))
  <2> HIDE DEF new, d
  <2> QED BY <1>2, <1>4, InvoiceSound, SaveSound
<1> HIDE DEF new, ok, d
<1> QED BY <1>1, <1>5, OneSave, DecideStep

(* update() writes twice: the other defaults at once, the account later. *)
LEMMA EditAccountStep ==
  ASSUME Inv, TreasuryAssumption, NEW r \in Requests, EditAccount(r)
  PROVE  Inv'
<1> DEFINE d == dto[r]
           account == view[r][d.account]
           cleared == {a \in Accounts : d.is_default /\ rows[a].is_default}
           given == d.current_balance # NotGiven
           new == [account EXCEPT
                      !.current_balance = IF given THEN d.current_balance ELSE @,
                      !.is_default = d.is_default \/ @]
           save == Save(d.account, new, IF given THEN {"current_balance"} ELSE {})
<1>1. /\ d \in Dto /\ d.kind = "edit" /\ pc[r] = "reading" /\ Handles(r, "edit")
  BY InputOf DEF EditAccount
<1>2. /\ d.account \in Accounts /\ d.current_balance \in Nat \cup {NotGiven}
      /\ d.is_default \in BOOLEAN
  BY <1>1 DEF Dto, Deposits, Transfers, ClientPayments, AccountEdits, Toggles, Transitions, InvoiceEdits
<1>3. Sound(d.account, account)
  <2>1. Reads(d) = <<d.account>>
    BY <1>1 DEF Reads
  <2>2. 1 \in 1 .. Len(Reads(d)) /\ Reads(d)[1] = d.account
    BY <2>1
  <2> QED BY <1>1, <2>2, FetchedSound
<1>4. new \in Account /\ new.current_balance >= 0
  <2> DEFINE balance == IF given THEN d.current_balance ELSE account.current_balance
             default == d.is_default \/ account.is_default
  <2>1. account \in Account /\ account.current_balance >= 0
    BY <1>2, <1>3, SoundAccount
  <2>2. balance \in Int /\ balance >= 0
    BY <1>2, <2>1 DEF Account
  <2>3. default \in BOOLEAN
    OBVIOUS
  <2>4. new = [account EXCEPT !.current_balance = balance, !.is_default = default]
    OBVIOUS
  <2> HIDE DEF new, balance, default
  <2> QED BY <2>1, <2>2, <2>3, <2>4 DEF Account
<1>5. save \in SaveSet /\ SoundSave(save)
  <2>1. Sound(d.account, new) /\ d.account \in Rows
    BY <1>2, <1>3, <1>4, AccountSound
  <2> HIDE DEF new, d
  <2> QED BY <2>1, SaveSound
<1>6. /\ rows' = [x \in DOMAIN rows |->
                   IF x \in cleared THEN [rows[x] EXCEPT !.is_default = FALSE] ELSE rows[x]]
      /\ pc' = [pc EXCEPT ![r] = "saving"]
      /\ todo' = [todo EXCEPT ![r] = <<save>>]
      /\ UNCHANGED <<dto, view, diff, pending, conns, payments>>
  BY DEF EditAccount
<1>7. <<save>> \in Seq(SaveSet) /\ \A n \in 1 .. Len(<<save>>) : SoundSave(<<save>>[n])
  <2> HIDE DEF save
  <2> QED BY <1>5, OneSave
<1> HIDE DEF save, new, d, given
<1>8. Shape'
  BY <1>6, <1>7 DEF Inv, Shape
<1>9. RowsSound'
  <2>1. DOMAIN rows' = Rows
    BY <1>6 DEF Inv, RowsSound
  <2>2. ASSUME NEW x \in Rows PROVE Sound(x, rows'[x])
    <3>1. CASE x \in cleared
      <4>1. x \in Accounts /\ Sound(x, rows[x])
        BY <3>1 DEF Inv, RowsSound
      <4>2. rows[x] \in Account /\ rows[x].current_balance >= 0
        BY <4>1, SoundAccount
      <4>3. rows'[x] = [rows[x] EXCEPT !.is_default = FALSE]
        BY <1>6, <3>1 DEF Inv, RowsSound
      <4>4. rows'[x] \in Account /\ rows'[x].current_balance >= 0
        BY <4>2, <4>3 DEF Account
      <4> QED BY <4>1, <4>4, AccountSound
    <3>2. CASE x \notin cleared
      BY <1>6, <3>2 DEF Inv, RowsSound
    <3> QED BY <3>1, <3>2
  <2> QED BY <2>1, <2>2 DEF RowsSound, Sound, IsEntityOf, Row
<1>10. ASSUME NEW s \in Requests PROVE Memory(s)'
  BY <1>6, <1>7, <1>1 DEF Inv, Shape, Memory, Sound, IsEntityOf, Row, SoundSave
<1> QED BY <1>8, <1>9, <1>10 DEF Inv

-----------------------------------------------------------------------------
LEMMA ArriveStep ==
  ASSUME Inv, TreasuryAssumption, NEW r \in Requests, Arrive(r)
  PROVE  Inv'
<1>1. PICK d \in Inputs : Open(r, d, Transactional(d)) /\ UNCHANGED <<ledger, payments>>
  BY DEF Arrive
<1>2. Shape'
  BY <1>1 DEF Inv, Shape, Open
<1>3. RowsSound'
  BY <1>1 DEF Inv, RowsSound, Open
<1>4. ASSUME NEW s \in Requests PROVE Memory(s)'
  BY <1>1, <1>4 DEF Inv, Memory, Shape, Open
<1> QED BY <1>2, <1>3, <1>4 DEF Inv

(* What a findOne brings into memory is a sound row. *)
LEMMA FetchStep ==
  ASSUME Inv, TreasuryAssumption, NEW r \in Requests, Fetch(r)
  PROVE  Inv'
<1>1. PICK n \in 1 .. Len(Reads(dto[r])) : Read(r, {Reads(dto[r])[n]})
  BY DEF Fetch
<1> DEFINE x == Reads(dto[r])[n]
<1>2. pc[r] = "reading" /\ UNCHANGED payments /\ dto[r] \in Dto
  BY DEF Fetch, Inv, Memory, TreasuryAssumption
<1>3. x \in Rows
  BY <1>1, <1>2 DEF Dto, Deposits, Transfers, ClientPayments, AccountEdits, Toggles,
                    Transitions, InvoiceEdits, Reads, Rows
<1>4. Sound(x, rows[x])
  BY <1>3 DEF Inv, RowsSound
<1> HIDE DEF x
<1>5. /\ view' = [view EXCEPT ![r] = With(view[r], {x})]
      /\ UNCHANGED <<rows, pc, dto, todo, diff, pending, conns, payments>>
  BY <1>1, <1>2 DEF Read, x
<1>6. Shape'
  BY <1>5 DEF Inv, Shape
<1>7. RowsSound'
  BY <1>5 DEF Inv, RowsSound
<1>8. ASSUME NEW s \in Requests PROVE Memory(s)'
  <2>1. ASSUME NEW y \in DOMAIN view'[s] PROVE Sound(y, view'[s][y])
    <3>1. CASE s = r
      BY <1>4, <1>5, <3>1 DEF Inv, Shape, Memory, With
    <3>2. CASE s # r
      BY <1>5, <3>2 DEF Inv, Shape, Memory
    <3> QED BY <3>1, <3>2
  <2> QED BY <1>5, <2>1 DEF Inv, Memory
<1> QED BY <1>6, <1>7, <1>8 DEF Inv

LEMMA ReloadStep ==
  ASSUME Inv, NEW r \in Requests, Reload(r), UNCHANGED payments
  PROVE  Inv'
<1>1. Shape'
  BY DEF Inv, Shape, Reload
<1>2. RowsSound'
  BY DEF Inv, RowsSound, Reload
<1>3. ASSUME NEW s \in Requests PROVE Memory(s)'
  BY <1>3 DEF Inv, Memory, Shape, Reload
<1> QED BY <1>1, <1>2, <1>3 DEF Inv

LEMMA UpdateStep ==
  ASSUME Inv, NEW r \in Requests, Update(r), UNCHANGED payments
  PROVE  Inv'
<1> DEFINE save == Head(todo[r])
<1>1. /\ pc[r] = "updating" /\ todo[r] \in Seq(SaveSet) /\ todo[r] # << >>
      /\ DOMAIN diff[r] \subseteq DOMAIN save.image
      /\ \A n \in 1 .. Len(todo[r]) : SoundSave(todo[r][n])
  BY DEF Update, Inv, Shape, Memory
<1>2. SoundSave(save)
  BY <1>1
<1>3. /\ Tail(todo[r]) \in Seq(SaveSet)
      /\ \A n \in 1 .. Len(Tail(todo[r])) : SoundSave(Tail(todo[r])[n])
  BY <1>1
<1>4. Shape'
  BY <1>3 DEF Inv, Shape, Update
<1>5. RowsSound'
  BY DEF Inv, RowsSound, Update
<1>6. ASSUME NEW s \in Requests PROVE Memory(s)'
  <2>1. CASE s = r
    <3>1. ASSUME NEW x \in DOMAIN pending'[r] PROVE Sound(x, pending'[r][x].entity)
      <4>1. CASE x \in Needs(r)
        <5>1. x \in DOMAIN save.image
          BY <1>1, <4>1 DEF Needs
        <5>2. pending'[r][x].entity = save.image[x]
          BY <3>1, <4>1 DEF Update, Inv, Shape
        <5> QED BY <1>2, <5>1, <5>2 DEF SoundSave
      <4>2. CASE x \notin Needs(r)
        <5>1. x \in DOMAIN pending[r] /\ pending'[r][x] = pending[r][x]
          BY <3>1, <4>2 DEF Update, Inv, Shape
        <5> QED BY <5>1 DEF Inv, Memory
      <4> QED BY <4>1, <4>2
    <3>2. todo'[r] = Tail(todo[r]) /\ pc'[r] = "saving" /\ UNCHANGED <<dto, view>>
      BY DEF Update, Inv, Shape
    <3> QED BY <1>1, <1>3, <2>1, <3>1, <3>2 DEF Inv, Memory
  <2>2. CASE s # r
    BY <2>2 DEF Inv, Memory, Shape, Update
  <2> QED BY <2>1, <2>2
<1> QED BY <1>4, <1>5, <1>6 DEF Inv

(* Waiting for the fraud service or for a connection changes no row. *)
LEMMA ScreenStep ==
  ASSUME Inv, NEW r \in Requests, FraudClear(r) \/ RecordTransaction(r)
  PROVE  Inv'
<1>1. /\ pc[r] # "idle"
      /\ \E phase \in {"saving", "recording"} : pc' = [pc EXCEPT ![r] = phase]
      /\ UNCHANGED <<rows, dto, view, todo, diff, pending, conns, payments>>
  BY DEF FraudClear, RecordTransaction, AllSaved
<1>2. Shape'
  BY <1>1 DEF Inv, Shape
<1>3. RowsSound'
  BY <1>1 DEF Inv, RowsSound
<1>4. ASSUME NEW s \in Requests PROVE Memory(s)'
  BY <1>1, <1>4 DEF Inv, Memory, Shape
<1> QED BY <1>2, <1>3, <1>4 DEF Inv

LEMMA FinishStep ==
  ASSUME Inv, TreasuryAssumption, NEW r \in Requests, Finish(r)
  PROVE  Inv'
<1>1. /\ pc[r] = "saving" /\ End(r, "done") /\ dto[r] \in Dto
      /\ rows' = [x \in DOMAIN rows |->
                    IF x \in DOMAIN pending[r]
                    THEN Merge(rows[x], pending[r][x].entity, pending[r][x].cols)
                    ELSE rows[x]]
  BY DEF Finish, Commit, Seen, AllSaved, Inv, Memory, TreasuryAssumption
<1>2. payments' \in [Invoices -> Nat]
  BY <1>1 DEF Finish, Inv, Shape, Dto, Deposits, Transfers, ClientPayments, AccountEdits,
              Toggles, Transitions, InvoiceEdits
<1>3. Shape'
  BY <1>1, <1>2 DEF Inv, Shape, End
<1>4. RowsSound'
  <2>1. DOMAIN rows' = Rows
    BY <1>1 DEF Inv, RowsSound
  <2>2. ASSUME NEW x \in Rows PROVE Sound(x, rows'[x])
    <3>1. CASE x \in DOMAIN pending[r]
      <4>1. Sound(x, rows[x]) /\ Sound(x, pending[r][x].entity)
        BY <3>1 DEF Inv, RowsSound, Memory
      <4>2. rows'[x] = Merge(rows[x], pending[r][x].entity, pending[r][x].cols)
        BY <1>1, <3>1 DEF Inv, RowsSound
      <4> QED BY <4>1, <4>2, MergeSound
    <3>2. CASE x \notin DOMAIN pending[r]
      BY <1>1, <3>2 DEF Inv, RowsSound
    <3> QED BY <3>1, <3>2
  <2> QED BY <2>1, <2>2 DEF RowsSound, Sound, IsEntityOf, Row
<1>5. ASSUME NEW s \in Requests PROVE Memory(s)'
  BY <1>1, <1>5 DEF Inv, Memory, Shape, End, Nothing
<1> QED BY <1>3, <1>4, <1>5 DEF Inv

LEMMA InitInv == ASSUME TreasuryAssumption, Init PROVE Inv
<1>1. PICK default \in Accounts, sent \in SUBSET Invoices :
        rows = [x \in Accounts \cup Invoices |->
                 IF x \in Accounts
                 THEN [current_balance |-> Opening[x], is_active |-> TRUE,
                       is_default |-> x = default]
                 ELSE [total_ttc |-> Total[x], paid_amount |-> 0,
                       status |-> IF x \in sent THEN "SENT" ELSE "DRAFT"]]
  BY DEF Init
<1>2. ASSUME NEW a \in Accounts PROVE Sound(a, rows[a])
  <2>1. rows[a] = [current_balance |-> Opening[a], is_active |-> TRUE,
                   is_default |-> a = default]
    BY <1>1
  <2>2. Opening[a] \in Int /\ Opening[a] >= 0
    BY DEF TreasuryAssumption
  <2>3. rows[a] \in Account /\ rows[a].current_balance >= 0
    BY <2>1, <2>2 DEF Account
  <2>4. a \notin Invoices
    BY DEF TreasuryAssumption
  <2> QED BY <2>3, <2>4 DEF Sound, IsEntityOf, Row
<1>3. ASSUME NEW i \in Invoices PROVE Sound(i, rows[i])
  <2>1. i \notin Accounts /\ Total[i] \in Nat
    BY DEF TreasuryAssumption
  <2>2. rows[i] = [total_ttc |-> Total[i], paid_amount |-> 0,
                   status |-> IF i \in sent THEN "SENT" ELSE "DRAFT"]
    BY <1>1, <2>1
  <2>3. rows[i] \in Invoice /\ rows[i].paid_amount = 0 /\ rows[i].total_ttc = Total[i]
    BY <2>1, <2>2 DEF Invoice, InvoiceStatus
  <2> QED BY <2>1, <2>3, InvoiceSound
<1>4. RowsSound
  BY <1>1, <1>2, <1>3 DEF RowsSound, Rows
<1>5. Shape /\ \A r \in Requests : Memory(r)
  BY DEF Init, SessionsInit, Shape, Memory, Nothing
<1> QED BY <1>4, <1>5 DEF Inv

LEMMA NextInv == ASSUME TreasuryAssumption, Inv, [Next]_vars PROVE Inv'
<1>1. CASE UNCHANGED vars
  BY <1>1 DEF vars, sessionVars, Inv, Shape, RowsSound, Memory, Sound, SoundSave, IsEntityOf, Row
<1>2. ASSUME NEW r \in Requests, Arrive(r) PROVE Inv'
  BY <1>2, ArriveStep
<1>3. ASSUME NEW r \in Requests, Handle(r) PROVE Inv'
  <2>1. CASE Fetch(r)
    BY <2>1, FetchStep
  <2>2. CASE Deposit(r) \/ Transfer(r) \/ ClientPayment(r)
    BY <2>2, DepositStep, TransferStep, ClientPaymentStep
  <2>3. CASE EditAccount(r) \/ ToggleActive(r)
    BY <2>3, EditAccountStep, ToggleActiveStep
  <2>4. CASE TransitionInvoice(r) \/ EditInvoice(r)
    BY <2>4, TransitionInvoiceStep, EditInvoiceStep
  <2>5. CASE Write(r)
    BY <2>5, ReloadStep, UpdateStep DEF Write
  <2>6. CASE FraudClear(r) \/ RecordTransaction(r)
    BY <2>6, ScreenStep
  <2>7. CASE FraudBlock(r)
    BY <2>7, RollbackStep DEF FraudBlock, AllSaved
  <2>8. CASE Finish(r)
    BY <2>8, FinishStep
  <2>9. CASE DeadlockVictim(r)
    <3>1. r \in InFlight
      BY <2>9 DEF DeadlockVictim, Deadlocked
    <3> QED BY <2>9, <3>1, RollbackStep DEF DeadlockVictim, InFlight
  <2> QED BY <1>3, <2>1, <2>2, <2>3, <2>4, <2>5, <2>6, <2>7, <2>8, <2>9 DEF Handle
<1>4. ASSUME NEW r \in Requests, Abort(r) PROVE Inv'
  BY <1>4, RollbackStep DEF Abort, InFlight
<1> QED BY <1>1, <1>2, <1>3, <1>4 DEF Next

(* The inductive invariant: in every reachable state each row, and each    *)
(* entity in the memory, the plans and the uncommitted UPDATEs of a        *)
(* request, has the columns of its table, no negative balance and, when no *)
(* draft is edited, no more paid than its total.                           *)
THEOREM Invariance == Spec => []Inv
<1>1. TreasuryAssumption
  BY TreasuryAssumption
<1>2. Init => Inv
  BY <1>1, InitInv
<1>3. Inv /\ [Next]_vars => Inv'
  BY <1>1, NextInv
<1> QED BY <1>2, <1>3, PTL DEF Spec

(* Type correctness: whatever the requests do and however they interleave, *)
(* the rows and everything in memory keep the shape of their tables.       *)
THEOREM TypeCorrect == Spec => []TypeOK
<1>1. Inv => TypeOK
  <2> SUFFICES ASSUME Inv PROVE TypeOK
    OBVIOUS
  <2>1. \A r \in Requests : \A n \in DOMAIN todo[r] : n \in 1 .. Len(todo[r])
    BY DEF Inv, Shape
  <2> QED BY <2>1 DEF Inv, Shape, RowsSound, Rows, Memory, Sound, SoundSave, TypeOK
<1> QED BY <1>1, Invariance, PTL

(* No account is overdrawn by a deposit, a transfer, a payment or an edit, *)
(* for any number of concurrent requests.                                  *)
THEOREM BalancesStayCovered == Spec => []NoOverdraft
<1>1. Inv => NoOverdraft
  BY DEF Inv, RowsSound, Rows, Sound, NoOverdraft
<1> QED BY <1>1, Invariance, PTL

(* When no request edits the lines of a draft, paid_amount stays between 0 *)
(* and total_ttc, although payments of one invoice lose each other's       *)
(* updates and the row mixes columns of several transactions.              *)
THEOREM PaymentsStayWithinTotal == ASSUME NoRedraft PROVE Spec => []PaidWithinTotal
<1>1. Inv => PaidWithinTotal
  <2> SUFFICES ASSUME Inv, NEW i \in Invoices
               PROVE  rows[i].paid_amount \in 0 .. rows[i].total_ttc
    BY DEF PaidWithinTotal
  <2>1. Sound(i, rows[i])
    BY DEF Inv, RowsSound, Rows
  <2>2. rows[i] \in Invoice
    BY <2>1, SoundInvoice, TreasuryAssumption
  <2> QED BY <2>1, <2>2, NoRedraft DEF Sound, Invoice
<1> QED BY <1>1, Invariance, PTL

-----------------------------------------------------------------------------
(* What a request brings to the payments of an invoice when it commits.    *)
Brings(r, i) ==
  IF dto[r].kind = "payment" /\ dto[r].invoice = i THEN dto[r].amount ELSE 0

(* A paid amount is backed by the payments that were committed and, if a   *)
(* request computed it, by the one this request is about to commit.        *)
Backed(i, entity, brings) == entity.paid_amount <= payments[i] + brings
Claims(r) ==
  /\ pc[r] = "idle" => todo[r] = << >> /\ DOMAIN pending[r] = {}
  /\ \A i \in DOMAIN view[r] \cap Invoices : Backed(i, view[r][i], 0)
  /\ \A n \in 1 .. Len(todo[r]) : \A i \in DOMAIN todo[r][n].image \cap Invoices :
       Backed(i, todo[r][n].image[i], Brings(r, i))
  /\ \A i \in DOMAIN pending[r] \cap Invoices :
       Backed(i, pending[r][i].entity, Brings(r, i))
Backing == PaidWithinReceipts /\ \A r \in Requests : Claims(r)

(* A request that is served knows a body, and brings a natural number.     *)
LEMMA BringsNat ==
  ASSUME TreasuryAssumption, Inv, NEW r \in Requests, pc[r] # "idle", NEW i \in Invoices
  PROVE  Brings(r, i) \in Nat
BY DEF Inv, Memory, TreasuryAssumption, Brings, Dto, Deposits, Transfers, ClientPayments,
       AccountEdits, Toggles, Transitions, InvoiceEdits

(* A step of a request that leaves the payments and the paid amounts alone *)
(* has to keep the claims of that request only.                            *)
LEMMA BackingFrame ==
  ASSUME Inv, Backing, NEW r \in Requests, UNCHANGED payments,
         \A i \in Invoices : rows'[i].paid_amount = rows[i].paid_amount,
         \A s \in Requests \ {r} : /\ pc'[s] = pc[s] /\ dto'[s] = dto[s] /\ view'[s] = view[s]
                                   /\ todo'[s] = todo[s] /\ pending'[s] = pending[s],
         Claims(r)'
  PROVE  Backing'
<1>1. PaidWithinReceipts'
  BY DEF Backing, PaidWithinReceipts
<1>2. ASSUME NEW s \in Requests PROVE Claims(s)'
  BY DEF Backing, Claims, Backed, Brings
<1> QED BY <1>1, <1>2 DEF Backing

LEMMA BackingRollback ==
  ASSUME Inv, Backing, NEW r \in Requests, Rollback(r), UNCHANGED payments
  PROVE  Backing'
<1>1. view'[r] = Nothing /\ todo'[r] = << >> /\ pending'[r] = Nothing
  BY DEF Rollback, End, Inv, Shape
<1>2. Claims(r)'
  BY <1>1 DEF Claims, Nothing
<1> QED BY <1>2, BackingFrame DEF Rollback, End, Inv, Shape

(* What a handler plans is backed by what it read and what it brings.      *)
LEMMA BackingDecide ==
  ASSUME Inv, Backing, NEW r \in Requests, NEW ok, NEW saves, pc[r] = "reading",
         Decide(r, ok, saves),
         ok => \A n \in 1 .. Len(saves) : \A i \in DOMAIN saves[n].image \cap Invoices :
                 Backed(i, saves[n].image[i], Brings(r, i))
  PROVE  Backing'
<1>1. CASE ok
  <2>1. Proceed(r, saves) /\ UNCHANGED payments
    BY <1>1 DEF Decide
  <2>2. /\ pc'[r] = "saving" /\ todo'[r] = saves
        /\ UNCHANGED <<rows, dto, view, pending, payments>>
    BY <2>1 DEF Proceed, Inv, Shape
  <2>3. Claims(r)'
    BY <1>1, <2>2 DEF Backing, Claims, Backed, Brings
  <2>4. \A s \in Requests \ {r} : pc'[s] = pc[s] /\ todo'[s] = todo[s]
    BY <2>1 DEF Proceed, Inv, Shape
  <2> QED BY <2>2, <2>3, <2>4, BackingFrame
<1>2. CASE ~ok
  BY <1>2, BackingRollback DEF Decide
<1> QED BY <1>1, <1>2

(* The handlers of accounts plan no save of an invoice.                    *)
LEMMA BackingAccounts ==
  ASSUME TreasuryAssumption, Inv, Backing, NEW r \in Requests,
         Deposit(r) \/ Transfer(r) \/ ToggleActive(r)
  PROVE  Backing'
<1>0. dto[r] \in Dto /\ pc[r] = "reading"
  BY InputOf DEF Deposit, Transfer, ToggleActive
<1>1. CASE Deposit(r)
  <2>1. dto[r].account \in Accounts
    BY <1>0, <1>1 DEF Deposit, Handles, Dto, Deposits, Transfers, ClientPayments, AccountEdits,
                      Toggles, Transitions, InvoiceEdits
  <2>2. PICK ok, e : Decide(r, ok, <<SaveAccount(dto[r].account, e)>>)
    BY <1>1 DEF Deposit
  <2>3. \A n \in 1 .. Len(<<SaveAccount(dto[r].account, e)>>) :
          DOMAIN <<SaveAccount(dto[r].account, e)>>[n].image \cap Invoices = {}
    BY <2>1 DEF SaveAccount, Save, TreasuryAssumption
  <2> QED BY <1>0, <2>2, <2>3, BackingDecide
<1>2. CASE Transfer(r)
  <2>1. dto[r].from \in Accounts /\ dto[r].to \in Accounts
    BY <1>0, <1>2 DEF Transfer, Handles, Dto, Deposits, Transfers, ClientPayments, AccountEdits,
                      Toggles, Transitions, InvoiceEdits
  <2>2. PICK ok, e, f :
          Decide(r, ok, <<SaveAccount(dto[r].from, e), SaveAccount(dto[r].to, f)>>)
    BY <1>2 DEF Transfer
  <2> DEFINE saves == <<SaveAccount(dto[r].from, e), SaveAccount(dto[r].to, f)>>
  <2>3. \A n \in 1 .. Len(saves) : DOMAIN saves[n].image \cap Invoices = {}
    BY <2>1 DEF SaveAccount, Save, TreasuryAssumption
  <2> HIDE DEF saves
  <2>4. Decide(r, ok, saves)
    BY <2>2 DEF saves
  <2> QED BY <1>0, <2>3, <2>4, BackingDecide
<1>3. CASE ToggleActive(r)
  <2>1. dto[r].account \in Accounts
    BY <1>0, <1>3 DEF ToggleActive, Handles, Dto, Deposits, Transfers, ClientPayments,
                      AccountEdits, Toggles, Transitions, InvoiceEdits
  <2>2. PICK ok, e : Decide(r, ok, <<Save(dto[r].account, e, {})>>)
    BY <1>3 DEF ToggleActive
  <2>3. \A n \in 1 .. Len(<<Save(dto[r].account, e, {})>>) :
          DOMAIN <<Save(dto[r].account, e, {})>>[n].image \cap Invoices = {}
    BY <2>1 DEF Save, TreasuryAssumption
  <2> QED BY <1>0, <2>2, <2>3, BackingDecide
<1> QED BY <1>1, <1>2, <1>3

(* A status change, or another total, saves the paid amount that was read. *)
LEMMA BackingInvoices ==
  ASSUME TreasuryAssumption, Inv, Backing, NEW r \in Requests,
         TransitionInvoice(r) \/ EditInvoice(r)
  PROVE  Backing'
<1> DEFINE i == dto[r].invoice
           read == view[r][i]
<1>1. /\ dto[r] \in Dto /\ pc[r] = "reading" /\ dto[r].kind \in {"transition", "invoiceEdit"}
      /\ \A n \in 1 .. Len(Reads(dto[r])) : HasRead(r, n)
  BY InputOf DEF TransitionInvoice, EditInvoice, Handles
<1>2. Reads(dto[r]) = <<i>>
  BY <1>1 DEF Reads
<1>3. i \in Invoices
  BY <1>1 DEF Dto, Deposits, Transfers, ClientPayments, AccountEdits, Toggles, Transitions,
              InvoiceEdits
<1>4. i \in DOMAIN view[r]
  BY <1>1, <1>2 DEF HasRead
<1>5. Backed(i, read, 0) /\ read \in Invoice
  <2>1. Sound(i, read)
    BY <1>4 DEF Inv, Memory
  <2> QED BY <1>3, <1>4, <2>1, SoundInvoice DEF Backing, Claims
<1>6. payments[i] \in Nat /\ Brings(r, i) \in Nat
  BY <1>1, <1>3, BringsNat DEF Inv, Shape
<1>7. ASSUME NEW e, NEW decimals, NEW ok, e.paid_amount = read.paid_amount,
             Decide(r, ok, <<Save(i, e, decimals)>>)
      PROVE  Backing'
  <2>1. Backed(i, e, Brings(r, i))
    BY <1>5, <1>6, <1>7 DEF Backed, Invoice
  <2> HIDE DEF i, read
  <2>2. \A n \in 1 .. Len(<<Save(i, e, decimals)>>) :
          \A j \in DOMAIN <<Save(i, e, decimals)>>[n].image \cap Invoices :
            Backed(j, <<Save(i, e, decimals)>>[n].image[j], Brings(r, j))
    BY <2>1 DEF Save
  <2> QED BY <1>1, <1>7, <2>2, BackingDecide
<1>8. CASE TransitionInvoice(r)
  <2> DEFINE e == [read EXCEPT !.status = dto[r].target]
  <2>1. Decide(r, dto[r].target \in TRANSITIONS[read.status], <<Save(i, e, {})>>)
    BY <1>8 DEF TransitionInvoice
  <2>2. e.paid_amount = read.paid_amount
    BY <1>5 DEF Invoice
  <2> HIDE DEF e, i, read
  <2> QED BY <1>7, <2>1, <2>2
<1>9. CASE EditInvoice(r)
  <2> DEFINE e == [read EXCEPT !.total_ttc = dto[r].total]
  <2>1. Decide(r, read.status = "DRAFT", <<Save(i, e, {"total_ttc"})>>)
    BY <1>9 DEF EditInvoice
  <2>2. e.paid_amount = read.paid_amount
    BY <1>5 DEF Invoice
  <2> HIDE DEF e, i, read
  <2> QED BY <1>7, <2>1, <2>2
<1> QED BY <1>8, <1>9

(* A payment adds the amount it brings to the paid amount it read.         *)
LEMMA BackingPayment ==
  ASSUME TreasuryAssumption, Inv, Backing, NEW r \in Requests, ClientPayment(r)
  PROVE  Backing'
<1> DEFINE d == dto[r]
           i == d.invoice
           read == view[r][i]
           new == WithPayment(read, d.amount)
<1>1. /\ d \in Dto /\ pc[r] = "reading" /\ d.kind = "payment"
      /\ \A n \in 1 .. Len(Reads(d)) : HasRead(r, n)
  BY InputOf DEF ClientPayment, Handles
<1>2. Reads(d) = <<i, d.account>>
  BY <1>1 DEF Reads
<1>3. i \in Invoices /\ d.account \in Accounts /\ d.amount \in Nat
  BY <1>1 DEF Dto, Deposits, Transfers, ClientPayments, AccountEdits, Toggles, Transitions,
              InvoiceEdits
<1>4. i \in DOMAIN view[r]
  BY <1>1, <1>2 DEF HasRead
<1>5. Backed(i, read, 0) /\ read \in Invoice
  <2>1. Sound(i, read)
    BY <1>4 DEF Inv, Memory
  <2> QED BY <1>3, <1>4, <2>1, SoundInvoice DEF Backing, Claims
<1>6. payments[i] \in Nat /\ Brings(r, i) = d.amount
  BY <1>1, <1>3 DEF Inv, Shape, Brings
<1>7. PICK ok, e : Decide(r, ok, <<Save(i, new, {"paid_amount"}), SaveAccount(d.account, e)>>)
  BY DEF ClientPayment
<1>8. Backed(i, new, Brings(r, i))
  <2> HIDE DEF d, i, read
  <2>1. new.paid_amount = read.paid_amount + d.amount
    BY <1>3, <1>5, PaymentKeepsTotal
  <2> QED BY <1>3, <1>5, <1>6, <2>1 DEF Backed, Invoice
<1> HIDE DEF new, i, d
<1> DEFINE saves == <<Save(i, new, {"paid_amount"}), SaveAccount(d.account, e)>>
<1>9. \A n \in 1 .. Len(saves) : \A j \in DOMAIN saves[n].image \cap Invoices :
        Backed(j, saves[n].image[j], Brings(r, j))
  BY <1>3, <1>8 DEF Save, SaveAccount, TreasuryAssumption
<1> HIDE DEF saves
<1>10. Decide(r, ok, saves)
  BY <1>7 DEF saves
<1> QED BY <1>1, <1>9, <1>10, BackingDecide DEF d

LEMMA BackingEdit ==
  ASSUME TreasuryAssumption, Inv, Backing, NEW r \in Requests, EditAccount(r)
  PROVE  Backing'
<1> DEFINE a == dto[r].account
<1>1. dto[r] \in Dto /\ pc[r] = "reading" /\ dto[r].kind = "edit"
  BY InputOf DEF EditAccount, Handles
<1>2. a \in Accounts
  BY <1>1 DEF Dto, Deposits, Transfers, ClientPayments, AccountEdits, Toggles, Transitions,
              InvoiceEdits
<1>3. /\ \E e, decimals : todo' = [todo EXCEPT ![r] = <<Save(a, e, decimals)>>]
      /\ pc' = [pc EXCEPT ![r] = "saving"]
      /\ UNCHANGED <<dto, view, pending, payments>>
      /\ \E X \in SUBSET Accounts :
           rows' = [x \in DOMAIN rows |->
                      IF x \in X THEN [rows[x] EXCEPT !.is_default = FALSE] ELSE rows[x]]
  BY DEF EditAccount
<1>4. \A i \in Invoices : rows'[i].paid_amount = rows[i].paid_amount
  BY <1>3 DEF TreasuryAssumption, Inv, RowsSound, Rows
<1>5. PICK e, decimals : todo' = [todo EXCEPT ![r] = <<Save(a, e, decimals)>>]
  BY <1>3
<1>6. \A n \in 1 .. Len(todo'[r]) : DOMAIN todo'[r][n].image \cap Invoices = {}
  BY <1>2, <1>5 DEF Inv, Shape, Save, TreasuryAssumption
<1>7. pc'[r] = "saving"
  BY <1>3 DEF Inv, Shape
<1>8. Claims(r)'
  BY <1>3, <1>6, <1>7 DEF Backing, Claims, Backed, Brings
<1> QED BY <1>3, <1>4, <1>5, <1>8, BackingFrame DEF Inv, Shape

LEMMA BackingArrive ==
  ASSUME Inv, Backing, NEW r \in Requests, Arrive(r)
  PROVE  Backing'
<1>1. PICK d : Open(r, d, Transactional(d)) /\ UNCHANGED payments
  BY DEF Arrive
<1>2. /\ pc[r] = "idle" /\ pc'[r] = "reading" /\ UNCHANGED <<rows, view, todo, pending>>
      /\ \A s \in Requests \ {r} : pc'[s] = pc[s] /\ dto'[s] = dto[s]
  BY <1>1 DEF Open, Inv, Shape
<1>3. Claims(r)'
  BY <1>1, <1>2 DEF Backing, Claims, Backed
<1> QED BY <1>1, <1>2, <1>3, BackingFrame

LEMMA BackingFetch ==
  ASSUME Inv, Backing, NEW r \in Requests, Fetch(r)
  PROVE  Backing'
<1>1. PICK x : Read(r, {x}) /\ UNCHANGED payments /\ pc[r] = "reading"
  BY DEF Fetch
<1>2. /\ view'[r] = With(view[r], {x}) /\ \A s \in Requests \ {r} : view'[s] = view[s]
      /\ UNCHANGED <<rows, pc, dto, todo, pending>>
  BY <1>1 DEF Read, Inv, Shape
<1>3. \A i \in DOMAIN view'[r] \cap Invoices : view'[r][i].paid_amount <= payments[i] + 0
  <2> SUFFICES ASSUME NEW i \in DOMAIN view'[r] \cap Invoices PROVE view'[r][i].paid_amount <= payments[i] + 0
    OBVIOUS
  <2>1. CASE i = x
    <3>1. view'[r][i] = rows[i]
      BY <1>2, <2>1 DEF With
    <3>2. rows[i].paid_amount <= payments[i]
      BY DEF Backing, PaidWithinReceipts
    <3>3. payments[i] \in Nat
      BY DEF Inv, Shape
    <3> QED BY <3>1, <3>2, <3>3
  <2>2. CASE i # x
    <3>1. i \in DOMAIN view[r] /\ view'[r][i] = view[r][i]
      BY <1>2, <2>2 DEF With
    <3> QED BY <3>1 DEF Backing, Claims, Backed
  <2> QED BY <2>1, <2>2
<1>4. Claims(r)'
  BY <1>1, <1>2, <1>3 DEF Backing, Claims, Backed, Brings
<1> QED BY <1>1, <1>2, <1>4, BackingFrame

LEMMA BackingUpdate ==
  ASSUME Inv, Backing, NEW r \in Requests, Update(r), UNCHANGED payments
  PROVE  Backing'
<1> DEFINE save == Head(todo[r])
<1>1. /\ pc[r] = "updating" /\ todo[r] \in Seq(SaveSet) /\ todo[r] # << >>
      /\ DOMAIN diff[r] \subseteq DOMAIN save.image
  BY DEF Update, Inv, Shape, Memory
<1>2. save = todo[r][1] /\ 1 \in 1 .. Len(todo[r])
  BY <1>1
<1>3. /\ todo'[r] = Tail(todo[r]) /\ pc'[r] = "saving"
      /\ pending'[r] = [x \in DOMAIN pending[r] \cup Needs(r) |->
                          IF x \in Needs(r) THEN [entity |-> save.image[x], cols |-> diff[r][x]]
                          ELSE pending[r][x]]
      /\ \A s \in Requests \ {r} : /\ pc'[s] = pc[s] /\ todo'[s] = todo[s]
                                   /\ pending'[s] = pending[s]
      /\ UNCHANGED <<rows, dto, view>>
  BY DEF Update, Inv, Shape
<1>4. \A n \in 1 .. Len(Tail(todo[r])) :
        n + 1 \in 1 .. Len(todo[r]) /\ Tail(todo[r])[n] = todo[r][n + 1]
  BY <1>1
<1>5. \A i \in DOMAIN pending'[r] \cap Invoices :
        Backed(i, pending'[r][i].entity, Brings(r, i))
  <2> SUFFICES ASSUME NEW i \in DOMAIN pending'[r] \cap Invoices
               PROVE  Backed(i, pending'[r][i].entity, Brings(r, i))
    OBVIOUS
  <2>1. CASE i \in Needs(r)
    <3>1. i \in DOMAIN save.image /\ pending'[r][i].entity = save.image[i]
      BY <1>1, <1>3, <2>1 DEF Needs
    <3> QED BY <1>2, <3>1 DEF Backing, Claims
  <2>2. CASE i \notin Needs(r)
    <3>1. i \in DOMAIN pending[r] /\ pending'[r][i] = pending[r][i]
      BY <1>3, <2>2
    <3> QED BY <3>1 DEF Backing, Claims
  <2> QED BY <2>1, <2>2
<1>6. \A n \in 1 .. Len(todo'[r]) : \A i \in DOMAIN todo'[r][n].image \cap Invoices :
        Backed(i, todo'[r][n].image[i], Brings(r, i))
  BY <1>3, <1>4 DEF Backing, Claims
<1>7. Claims(r)'
  BY <1>3, <1>5, <1>6 DEF Backing, Claims, Backed, Brings
<1> QED BY <1>3, <1>7, BackingFrame

(* Looking a row up again, and waiting for the fraud service, claim nothing. *)
LEMMA BackingWait ==
  ASSUME Inv, Backing, NEW r \in Requests,
         (Reload(r) /\ UNCHANGED payments) \/ FraudClear(r) \/ RecordTransaction(r)
  PROVE  Backing'
<1>1. /\ \E phase \in {"saving", "recording", "updating"} : pc' = [pc EXCEPT ![r] = phase]
      /\ UNCHANGED <<rows, dto, view, todo, pending, payments>>
  BY DEF Reload, FraudClear, RecordTransaction
<1>2. /\ pc'[r] # "idle" /\ \A s \in Requests \ {r} : pc'[s] = pc[s]
  BY <1>1 DEF Inv, Shape
<1>3. Claims(r)'
  BY <1>1, <1>2 DEF Backing, Claims, Backed, Brings
<1> QED BY <1>1, <1>2, <1>3, BackingFrame

(* COMMIT: the paid amount of an invoice is the one it had, or the one the *)
(* request wrote, whose payment is counted by the same step.               *)
LEMMA BackingFinish ==
  ASSUME TreasuryAssumption, Inv, Backing, NEW r \in Requests, Finish(r)
  PROVE  Backing'
<1>1. /\ pc[r] = "saving" /\ End(r, "done") /\ dto[r] \in Dto
      /\ rows' = [x \in DOMAIN rows |->
                    IF x \in DOMAIN pending[r]
                    THEN Merge(rows[x], pending[r][x].entity, pending[r][x].cols)
                    ELSE rows[x]]
  BY DEF Finish, Commit, Seen, AllSaved, Inv, Memory, TreasuryAssumption
<1>2. \A i \in Invoices : payments'[i] = payments[i] + Brings(r, i) /\ Brings(r, i) \in Nat
                          /\ payments[i] \in Nat
  <2>1. ASSUME dto[r].kind = "payment" PROVE dto[r].amount \in Nat /\ dto[r].invoice \in Invoices
    BY <1>1, <2>1 DEF Dto, Deposits, Transfers, ClientPayments, AccountEdits, Toggles,
                      Transitions, InvoiceEdits
  <2>2. CASE dto[r].kind = "payment"
    BY <2>1, <2>2 DEF Finish, Brings, Inv, Shape
  <2>3. CASE dto[r].kind # "payment"
    BY <2>3 DEF Finish, Brings, Inv, Shape
  <2> QED BY <2>2, <2>3
<1>3. ASSUME NEW i \in Invoices PROVE rows'[i].paid_amount <= payments'[i]
  <2>1. rows[i] \in Invoice /\ rows[i].paid_amount <= payments[i]
    BY SoundInvoice DEF Inv, RowsSound, Rows, Backing, PaidWithinReceipts
  <2>2. rows[i].paid_amount <= payments'[i]
    BY <1>2, <2>1 DEF Invoice
  <2>3. i \in DOMAIN rows
    BY DEF Inv, RowsSound, Rows
  <2>4. CASE i \in DOMAIN pending[r]
    <3>1. pending[r][i].entity.paid_amount <= payments'[i]
      BY <1>2, <2>4 DEF Backing, Claims, Backed
    <3>2. rows'[i].paid_amount \in {rows[i].paid_amount, pending[r][i].entity.paid_amount}
      BY <1>1, <2>1, <2>3, <2>4 DEF Merge, Invoice
    <3> QED BY <2>2, <3>1, <3>2
  <2>5. CASE i \notin DOMAIN pending[r]
    BY <1>1, <2>2, <2>3, <2>5
  <2> QED BY <2>4, <2>5
<1>4. ASSUME NEW s \in Requests PROVE Claims(s)'
  <2>1. CASE s = r
    <3>1. view'[r] = Nothing /\ todo'[r] = << >> /\ pending'[r] = Nothing
      BY <1>1 DEF End, Inv, Shape
    <3> QED BY <2>1, <3>1 DEF Claims, Nothing
  <2>2. CASE s # r
    <3>1. /\ pc'[s] = pc[s] /\ dto'[s] = dto[s] /\ view'[s] = view[s]
          /\ todo'[s] = todo[s] /\ pending'[s] = pending[s]
      BY <1>1, <2>2 DEF End, Inv, Shape
    <3>2. Claims(s) /\ (pc[s] = "idle" => todo[s] = << >> /\ DOMAIN pending[s] = {})
      BY DEF Backing, Claims
    <3>3. \A i \in DOMAIN view[s] \cap Invoices : Backed(i, view[s][i], 0)'
      <4> SUFFICES ASSUME NEW i \in DOMAIN view[s] \cap Invoices PROVE Backed(i, view[s][i], 0)'
        OBVIOUS
      <4>1. view[s][i].paid_amount <= payments[i] /\ view[s][i].paid_amount \in Int
        <5>1. Sound(i, view[s][i])
          BY DEF Inv, Memory
        <5>2. view[s][i] \in Invoice
          BY <5>1, SoundInvoice
        <5>3. payments[i] \in Nat
          BY DEF Inv, Shape
        <5> QED BY <3>2, <5>2, <5>3 DEF Claims, Backed, Invoice
      <4> QED BY <1>2, <3>1, <4>1 DEF Backed
    <3>4. ASSUME NEW i \in Invoices, NEW e, Sound(i, e), Backed(i, e, Brings(s, i)), pc[s] # "idle"
          PROVE  Backed(i, e, Brings(s, i))'
      <4>1. e.paid_amount \in Int /\ Brings(s, i) \in Nat
        BY <3>4, SoundInvoice, BringsNat DEF Invoice
      <4>2. Brings(s, i)' = Brings(s, i)
        BY <3>1 DEF Brings
      <4>3. e.paid_amount <= payments[i] + Brings(s, i)
        BY <3>4 DEF Backed
      <4>4. e.paid_amount <= payments'[i] + Brings(s, i)
        BY <1>2, <4>1, <4>3
      <4> QED BY <4>2, <4>4 DEF Backed
    <3>5. \A n \in 1 .. Len(todo[s]) : \A i \in DOMAIN todo[s][n].image \cap Invoices :
            Backed(i, todo[s][n].image[i], Brings(s, i))'
      <4> SUFFICES ASSUME NEW n \in 1 .. Len(todo[s]),
                          NEW i \in DOMAIN todo[s][n].image \cap Invoices
                   PROVE  Backed(i, todo[s][n].image[i], Brings(s, i))'
        OBVIOUS
      <4>1. pc[s] # "idle"
        BY <3>2
      <4>2. PICK e : e = todo[s][n].image[i]
        OBVIOUS
      <4>3. Sound(i, e) /\ Backed(i, e, Brings(s, i))
        BY <3>2, <4>2 DEF Claims, Inv, Memory, SoundSave
      <4>4. Backed(i, e, Brings(s, i))'
        BY <3>4, <4>1, <4>3
      <4>5. e = todo'[s][n].image[i]
        BY <3>1, <4>2
      <4> QED BY <3>1, <4>2, <4>4, <4>5 DEF Backed
    <3>6. \A i \in DOMAIN pending[s] \cap Invoices :
            Backed(i, pending[s][i].entity, Brings(s, i))'
      <4> SUFFICES ASSUME NEW i \in DOMAIN pending[s] \cap Invoices
                   PROVE  Backed(i, pending[s][i].entity, Brings(s, i))'
        OBVIOUS
      <4>1. pc[s] # "idle"
        BY <3>2
      <4>2. PICK e : e = pending[s][i].entity
        OBVIOUS
      <4>3. Sound(i, e) /\ Backed(i, e, Brings(s, i))
        BY <3>2, <4>2 DEF Claims, Inv, Memory
      <4>4. Backed(i, e, Brings(s, i))'
        BY <3>4, <4>1, <4>3
      <4>5. e = pending'[s][i].entity
        BY <3>1, <4>2
      <4> QED BY <3>1, <4>2, <4>4, <4>5 DEF Backed
    <3> QED BY <3>1, <3>2, <3>3, <3>5, <3>6 DEF Claims, Backed, Brings
  <2> QED BY <2>1, <2>2
<1> QED BY <1>3, <1>4 DEF Backing, PaidWithinReceipts

LEMMA BackingNext ==
  ASSUME TreasuryAssumption, Inv, Backing, [Next]_vars
  PROVE  Backing'
<1>1. CASE UNCHANGED vars
  BY <1>1 DEF vars, sessionVars, Backing, PaidWithinReceipts, Claims, Backed, Brings
<1>2. ASSUME NEW r \in Requests, Arrive(r) PROVE Backing'
  BY <1>2, BackingArrive
<1>3. ASSUME NEW r \in Requests, Handle(r) PROVE Backing'
  <2>1. CASE Fetch(r) \/ EditAccount(r) \/ ClientPayment(r)
    BY <2>1, BackingFetch, BackingEdit, BackingPayment
  <2>2. CASE Deposit(r) \/ Transfer(r) \/ ToggleActive(r)
    BY <2>2, BackingAccounts
  <2>3. CASE TransitionInvoice(r) \/ EditInvoice(r)
    BY <2>3, BackingInvoices
  <2>4. CASE Write(r)
    BY <2>4, BackingUpdate, BackingWait DEF Write
  <2>5. CASE FraudClear(r) \/ RecordTransaction(r)
    BY <2>5, BackingWait
  <2>6. CASE FraudBlock(r) \/ DeadlockVictim(r)
    BY <2>6, BackingRollback DEF FraudBlock, DeadlockVictim
  <2>7. CASE Finish(r)
    BY <2>7, BackingFinish
  <2> QED BY <1>3, <2>1, <2>2, <2>3, <2>4, <2>5, <2>6, <2>7 DEF Handle
<1>4. ASSUME NEW r \in Requests, Abort(r) PROVE Backing'
  BY <1>4, BackingRollback DEF Abort
<1> QED BY <1>1, <1>2, <1>3, <1>4 DEF Next

(* No stale save, and no mix of the columns of several transactions, makes *)
(* an invoice claim more than its committed payments add up to.            *)
THEOREM PaymentsBackInvoices == Spec => []PaidWithinReceipts
<1>1. Init => Backing
  <2> SUFFICES ASSUME Init PROVE Backing
    OBVIOUS
  <2>1. \A i \in Invoices : rows[i].paid_amount = 0 /\ payments[i] = 0
    BY TreasuryAssumption DEF Init, TreasuryAssumption
  <2> QED BY <2>1 DEF Init, SessionsInit, Backing, PaidWithinReceipts, Claims, Nothing
<1>2. Inv /\ Backing /\ [Next]_vars => Backing'
  BY BackingNext, TreasuryAssumption
<1>3. Backing => PaidWithinReceipts
  BY DEF Backing
<1> QED BY <1>1, <1>2, <1>3, Invariance, PTL DEF Spec

-----------------------------------------------------------------------------
Busy == {"saving", "updating", "recording"}

(* What the request of d makes of the rows, and the checks that let it.    *)
Adding(d, G) ==
  /\ d.kind = "deposit"
  /\ rows[d.account].is_active /\ Fits(rows[d.account].current_balance + d.amount)
  /\ G = [x \in Rows |->
            IF x = d.account THEN [rows[x] EXCEPT !.current_balance = @ + d.amount] ELSE rows[x]]
Moving(d, G) ==
  /\ d.kind = "transfer"
  /\ rows[d.from].is_active /\ rows[d.to].is_active
  /\ Covers(rows[d.from], d.amount) /\ Fits(rows[d.to].current_balance + d.amount)
  /\ G = [x \in Rows |->
            IF x = d.from THEN [rows[x] EXCEPT !.current_balance = @ - d.amount]
            ELSE IF x = d.to THEN [rows[x] EXCEPT !.current_balance = @ + d.amount]
            ELSE rows[x]]
Receiving(d, G) ==
  /\ d.kind = "payment"
  /\ rows[d.invoice].status \notin {"PAID", "CANCELLED"} /\ rows[d.account].is_active
  /\ WithinRemaining(rows[d.invoice], d.amount)
  /\ Fits(rows[d.account].current_balance + d.amount)
  /\ G = [x \in Rows |->
            IF x = d.invoice THEN WithPayment(rows[x], d.amount)
            ELSE IF x = d.account THEN [rows[x] EXCEPT !.current_balance = @ + d.amount]
            ELSE rows[x]]
Correcting(d, G) ==
  /\ d.kind = "edit"
  /\ d.is_default => \A a \in Accounts : ~rows[a].is_default
  /\ G = [x \in Rows |->
            IF x = d.account
            THEN [rows[x] EXCEPT
                    !.current_balance = IF d.current_balance # NotGiven
                                        THEN d.current_balance ELSE @,
                    !.is_default = d.is_default \/ @]
            ELSE rows[x]]
Toggling(d, G) ==
  /\ d.kind = "toggle"
  /\ ~(rows[d.account].is_default /\ rows[d.account].is_active)
  /\ G = [x \in Rows |->
            IF x = d.account THEN [rows[x] EXCEPT !.is_active = ~@] ELSE rows[x]]
Advancing(d, G) ==
  /\ d.kind = "transition"
  /\ d.target \in TRANSITIONS[rows[d.invoice].status]
  /\ G = [x \in Rows |->
            IF x = d.invoice THEN [rows[x] EXCEPT !.status = d.target] ELSE rows[x]]
Redrafting(d, G) ==
  /\ d.kind = "invoiceEdit"
  /\ rows[d.invoice].status = "DRAFT"
  /\ G = [x \in Rows |->
            IF x = d.invoice THEN [rows[x] EXCEPT !.total_ttc = d.total] ELSE rows[x]]
Effect(d, G) ==
  \/ Adding(d, G) \/ Moving(d, G) \/ Receiving(d, G) \/ Correcting(d, G) \/ Toggling(d, G)
  \/ Advancing(d, G) \/ Redrafting(d, G)

(* The saves still to make and the UPDATEs made take the rows to G.        *)
Covered(saves, x) == \E n \in 1 .. Len(saves) : x \in DOMAIN saves[n].image
Aims(saves, G) ==
  /\ \A n \in 1 .. Len(saves) : \A x \in DOMAIN saves[n].image :
       x \in Rows /\ saves[n].image[x] = G[x]
  /\ \A m, n \in 1 .. Len(saves) :
       m # n => DOMAIN saves[m].image \cap DOMAIN saves[n].image = {}
Leads(r, G) ==
  /\ Aims(todo[r], G)
  /\ \A x \in DOMAIN pending[r] : x \in Rows /\ ~Covered(todo[r], x)
  /\ \A x \in Rows : Seen(r, x) = G[x] \/ Covered(todo[r], x)
  /\ pc[r] = "updating" =>
       /\ todo[r] # << >>
       /\ diff[r] = [x \in DOMAIN Head(todo[r]).image |->
                       Differing(G[x], Head(todo[r]).decimals, rows[x])]

(* What is true of the only request that is served, and of the others.     *)
Course(r) ==
  /\ pc[r] \notin Busy => todo[r] = << >> /\ DOMAIN pending[r] = {}
  /\ r \notin InFlight => DOMAIN view[r] = {}
  /\ pc[r] = "reading" => \A x \in DOMAIN view[r] : view[r][x] = rows[x]
  /\ pc[r] \in Busy => \E G : Effect(dto[r], G) /\ Leads(r, G)

(* The books between two requests: an invoice says it was paid what was    *)
(* paid for it, and says so once anything was.                             *)
Books ==
  /\ \A a \in Accounts : rows[a].current_balance < Limit
  /\ \A i \in Invoices :
       /\ rows[i].paid_amount = payments[i] /\ payments[i] <= rows[i].total_ttc
       /\ rows[i].status \in {"DRAFT", "SENT"} => payments[i] = 0

Serial == Books /\ (\A r, s \in InFlight : r = s) /\ \A r \in Requests : Course(r)

-----------------------------------------------------------------------------
(* While one request is served the others rest, so a step of it has to     *)
(* keep the books and its own course.                                      *)
LEMMA SerialFrame ==
  ASSUME Inv, Serial, NEW r \in Requests, \A s \in InFlight : s = r,
         \A s \in Requests \ {r} : /\ pc'[s] = pc[s] /\ view'[s] = view[s]
                                   /\ todo'[s] = todo[s] /\ pending'[s] = pending[s],
         Books', Course(r)'
  PROVE  Serial'
<1>1. \A s \in Requests \ {r} : pc[s] \in {"idle"} \cup Ended
  BY DEF InFlight
<1>2. \A s \in InFlight' : s = r
  BY <1>1 DEF InFlight
<1>3. ASSUME NEW s \in Requests \ {r} PROVE Course(s)'
  <2>1. pc[s] \in {"idle"} \cup Ended /\ pc'[s] = pc[s]
    BY <1>1
  <2>2. todo[s] = << >> /\ DOMAIN pending[s] = {} /\ DOMAIN view[s] = {}
    BY <2>1 DEF Serial, Course, InFlight, Busy
  <2> QED BY <2>1, <2>2 DEF Course, InFlight, Busy
<1> QED BY <1>2, <1>3 DEF Serial

LEMMA BooksKept ==
  ASSUME Serial, UNCHANGED <<rows, payments>>
  PROVE  Books'
BY DEF Serial, Books

LEMMA SerialArrive ==
  ASSUME Inv, Serial, MaxInFlight = 1, NEW r \in Requests, Arrive(r)
  PROVE  Serial' /\ UNCHANGED <<rows, payments>>
<1>1. PICK d : Open(r, d, Transactional(d)) /\ UNCHANGED payments
  BY DEF Arrive
<1>2. InFlight = {}
  <2> SUFFICES ASSUME NEW s \in InFlight PROVE FALSE
    OBVIOUS
  <2>1. InFlight = {s}
    BY DEF Serial
  <2>2. Cardinality(InFlight) = 1
    BY <2>1, FS_Singleton
  <2> QED BY <1>1, <2>2 DEF Open
<1>3. /\ pc[r] = "idle" /\ pc'[r] = "reading" /\ UNCHANGED <<rows, view, todo, pending>>
      /\ \A s \in Requests \ {r} : pc'[s] = pc[s]
  BY <1>1 DEF Open, Inv, Shape
<1>4. todo[r] = << >> /\ DOMAIN pending[r] = {} /\ DOMAIN view[r] = {}
  BY <1>2, <1>3 DEF Serial, Course, Busy
<1>5. Course(r)'
  BY <1>3, <1>4 DEF Course, InFlight, Busy
<1>6. Books'
  BY <1>1, <1>3, BooksKept
<1> QED BY <1>1, <1>2, <1>3, <1>5, <1>6, SerialFrame

LEMMA SerialRollback ==
  ASSUME Inv, Serial, NEW r \in InFlight, Rollback(r), UNCHANGED payments
  PROVE  Serial' /\ UNCHANGED <<rows, payments>>
<1>1. /\ pc'[r] = "failed" /\ view'[r] = Nothing /\ todo'[r] = << >> /\ pending'[r] = Nothing
      /\ r \in Requests /\ UNCHANGED rows
  BY DEF Rollback, End, Inv, Shape, InFlight
<1>2. Course(r)'
  BY <1>1 DEF Course, Nothing, Busy, InFlight
<1>3. Books'
  BY <1>1, BooksKept
<1>4. \A s \in Requests \ {r} : /\ pc'[s] = pc[s] /\ view'[s] = view[s]
                                /\ todo'[s] = todo[s] /\ pending'[s] = pending[s]
  BY DEF Rollback, End, Inv, Shape
<1>5. \A s \in InFlight : s = r
  BY DEF Serial
<1> QED BY <1>1, <1>2, <1>3, <1>4, <1>5, SerialFrame

LEMMA SerialFetch ==
  ASSUME Inv, Serial, NEW r \in Requests, Fetch(r)
  PROVE  Serial' /\ UNCHANGED <<rows, payments>>
<1>1. PICK x : Read(r, {x}) /\ UNCHANGED payments /\ pc[r] = "reading"
  BY DEF Fetch
<1>2. /\ view'[r] = With(view[r], {x}) /\ \A s \in Requests \ {r} : view'[s] = view[s]
      /\ UNCHANGED <<rows, pc, dto, todo, pending>>
  BY <1>1 DEF Read, Inv, Shape
<1>3. \A y \in DOMAIN view'[r] : view'[r][y] = rows'[y]
  BY <1>1, <1>2 DEF With, Serial, Course
<1>4. Course(r)'
  BY <1>1, <1>2, <1>3 DEF Serial, Course, InFlight, Busy
<1>5. \A s \in InFlight : s = r
  BY <1>1 DEF Serial, InFlight
<1>6. Books'
  BY <1>1, <1>2, BooksKept
<1> QED BY <1>1, <1>2, <1>4, <1>5, <1>6, SerialFrame

LEMMA EffectKept ==
  ASSUME NEW d, NEW G, Effect(d, G), UNCHANGED rows
  PROVE  Effect(d, G)'
<1> USE DEF Fits, Covers, WithinRemaining, WithPayment, TRANSITIONS, Rows
<1>1. CASE Adding(d, G)
  BY <1>1 DEF Effect, Adding
<1>2. CASE Moving(d, G)
  BY <1>2 DEF Effect, Moving
<1>3. CASE Receiving(d, G)
  BY <1>3 DEF Effect, Receiving
<1>4. CASE Correcting(d, G)
  BY <1>4 DEF Effect, Correcting
<1>5. CASE Toggling(d, G)
  BY <1>5 DEF Effect, Toggling
<1>6. CASE Advancing(d, G)
  BY <1>6 DEF Effect, Advancing
<1>7. CASE Redrafting(d, G)
  BY <1>7 DEF Effect, Redrafting
<1> QED BY <1>1, <1>2, <1>3, <1>4, <1>5, <1>6, <1>7 DEF Effect

(* A handler that plans the saves that lead to its effect.                 *)
LEMMA SerialProceed ==
  ASSUME Inv, Serial, NEW r \in Requests, pc[r] = "reading", NEW saves, NEW G,
         Proceed(r, saves), UNCHANGED payments,
         Effect(dto[r], G), Aims(saves, G),
         \A x \in Rows : rows[x] = G[x] \/ Covered(saves, x)
  PROVE  Serial' /\ UNCHANGED <<rows, payments>>
<1>1. /\ pc'[r] = "saving" /\ todo'[r] = saves /\ UNCHANGED <<rows, dto, view, diff, pending>>
      /\ \A s \in Requests \ {r} : pc'[s] = pc[s] /\ todo'[s] = todo[s]
  BY DEF Proceed, Inv, Shape
<1>2. DOMAIN pending[r] = {}
  BY DEF Serial, Course, Busy
<1>3. Effect(dto[r], G)'
  <2>1. PICK d : d = dto[r]
    OBVIOUS
  <2>2. Effect(d, G)'
    BY <1>1, <2>1, EffectKept
  <2>3. d = dto'[r]
    BY <1>1, <2>1
  <2> QED BY <2>2, <2>3
<1>4. Leads(r, G)'
  BY <1>1, <1>2 DEF Leads, Aims, Covered, Seen
<1>5. Course(r)'
  BY <1>1, <1>3, <1>4 DEF Course, Busy, InFlight
<1>6. \A s \in InFlight : s = r
  BY DEF Serial, InFlight
<1>7. Books'
  BY <1>1, BooksKept
<1> QED BY <1>1, <1>5, <1>6, <1>7, SerialFrame

LEMMA SerialDecide ==
  ASSUME Inv, Serial, NEW r \in Requests, pc[r] = "reading", NEW ok, NEW saves, NEW G,
         Decide(r, ok, saves),
         ok => /\ Effect(dto[r], G) /\ Aims(saves, G)
               /\ \A x \in Rows : rows[x] = G[x] \/ Covered(saves, x)
  PROVE  Serial' /\ UNCHANGED <<rows, payments>>
<1>1. CASE ok
  BY <1>1, SerialProceed DEF Decide
<1>2. CASE ~ok
  BY <1>2, SerialRollback DEF Decide, InFlight
<1> QED BY <1>1, <1>2

LEMMA AimsOne ==
  ASSUME NEW x \in Rows, NEW decimals, NEW G, NEW saves, saves = <<Save(x, G[x], decimals)>>
  PROVE  Aims(saves, G) /\ Covered(saves, x)
BY DEF Aims, Covered, Save

LEMMA AimsTwo ==
  ASSUME NEW x \in Rows, NEW y \in Rows, x # y, NEW G, NEW dx, NEW dy, NEW saves,
         saves = <<Save(x, G[x], dx), Save(y, G[y], dy)>>
  PROVE  Aims(saves, G) /\ Covered(saves, x) /\ Covered(saves, y)
BY DEF Aims, Covered, Save

(* What a handler works from is what is in the rows.                       *)
LEMMA ReadIsRow ==
  ASSUME Serial, NEW r \in Requests, NEW kind, Handles(r, kind),
         NEW n \in 1 .. Len(Reads(dto[r]))
  PROVE  view[r][Reads(dto[r])[n]] = rows[Reads(dto[r])[n]]
BY DEF Serial, Course, Handles, HasRead

LEMMA SerialDeposit ==
  ASSUME Inv, Serial, TreasuryAssumption, NEW r \in Requests, Deposit(r)
  PROVE  Serial' /\ UNCHANGED <<rows, payments>>
<1>1. PICK d : d = dto[r]
  OBVIOUS
<1>2. /\ d \in Dto /\ d.kind = "deposit" /\ pc[r] = "reading" /\ Handles(r, "deposit")
  BY <1>1, InputOf DEF Deposit
<1>3. d.account \in Accounts /\ d.account \in Rows
  BY <1>2 DEF Dto, Deposits, Transfers, ClientPayments, AccountEdits, Toggles, Transitions,
              InvoiceEdits, Rows
<1>4. view[r][d.account] = rows[d.account]
  <2>1. Reads(d) = <<d.account>>
    BY <1>2 DEF Reads
  <2>2. 1 \in 1 .. Len(Reads(d)) /\ Reads(d)[1] = d.account
    BY <2>1
  <2> QED BY <1>1, <1>2, <2>2, ReadIsRow
<1>5. PICK G : G = [x \in Rows |->
            IF x = d.account THEN [rows[x] EXCEPT !.current_balance = @ + d.amount] ELSE rows[x]]
  OBVIOUS
<1>6. PICK saves : saves = <<Save(d.account, G[d.account], {"current_balance"})>>
  OBVIOUS
<1>7. PICK ok : ok = (rows[d.account].is_active /\ Fits(rows[d.account].current_balance + d.amount))
  OBVIOUS
<1>8. Decide(r, ok, saves)
  BY <1>1, <1>3, <1>4, <1>5, <1>6, <1>7 DEF Deposit, SaveAccount
<1>9. ok => Effect(d, G)
  BY <1>2, <1>5, <1>7 DEF Effect, Adding
<1>10. Aims(saves, G) /\ Covered(saves, d.account)
  BY <1>3, <1>6, AimsOne
<1>11. \A x \in Rows : rows[x] = G[x] \/ Covered(saves, x)
  BY <1>5, <1>10
<1> QED BY <1>1, <1>2, <1>8, <1>9, <1>10, <1>11, SerialDecide

LEMMA SerialTransfer ==
  ASSUME Inv, Serial, TreasuryAssumption, NEW r \in Requests, Transfer(r)
  PROVE  Serial' /\ UNCHANGED <<rows, payments>>
<1>1. PICK d : d = dto[r]
  OBVIOUS
<1>2. /\ d \in Dto /\ d.kind = "transfer" /\ pc[r] = "reading" /\ Handles(r, "transfer")
  BY <1>1, InputOf DEF Transfer
<1>3. d.from \in Rows /\ d.to \in Rows /\ d.from # d.to
  BY <1>2 DEF Dto, Deposits, Transfers, ClientPayments, AccountEdits, Toggles, Transitions,
              InvoiceEdits, Rows
<1>4. view[r][d.from] = rows[d.from] /\ view[r][d.to] = rows[d.to]
  <2>1. Reads(d) = <<d.from, d.to>>
    BY <1>2 DEF Reads
  <2>2. /\ 1 \in 1 .. Len(Reads(d)) /\ Reads(d)[1] = d.from
        /\ 2 \in 1 .. Len(Reads(d)) /\ Reads(d)[2] = d.to
    BY <2>1
  <2> QED BY <1>1, <1>2, <2>2, ReadIsRow
<1>5. PICK G : G = [x \in Rows |->
            IF x = d.from THEN [rows[x] EXCEPT !.current_balance = @ - d.amount]
            ELSE IF x = d.to THEN [rows[x] EXCEPT !.current_balance = @ + d.amount]
            ELSE rows[x]]
  OBVIOUS
<1>6. PICK saves : saves = <<Save(d.from, G[d.from], {"current_balance"}),
                             Save(d.to, G[d.to], {"current_balance"})>>
  OBVIOUS
<1>7. PICK ok : ok = (/\ rows[d.from].is_active /\ rows[d.to].is_active
                      /\ Covers(rows[d.from], d.amount)
                      /\ Fits(rows[d.to].current_balance + d.amount))
  OBVIOUS
<1>8. Decide(r, ok, saves)
  <2>1. /\ G[d.from] = [rows[d.from] EXCEPT !.current_balance = @ - d.amount]
        /\ G[d.to] = [rows[d.to] EXCEPT !.current_balance = @ + d.amount]
    BY <1>3, <1>5
  <2> QED BY <1>1, <1>4, <1>6, <1>7, <2>1 DEF Transfer, SaveAccount
<1>9. ok => Effect(d, G)
  BY <1>2, <1>5, <1>7 DEF Effect, Moving
<1>10. Aims(saves, G) /\ Covered(saves, d.from) /\ Covered(saves, d.to)
  BY <1>3, <1>6, AimsTwo
<1>11. \A x \in Rows : rows[x] = G[x] \/ Covered(saves, x)
  BY <1>5, <1>10
<1> QED BY <1>1, <1>2, <1>8, <1>9, <1>10, <1>11, SerialDecide

LEMMA SerialPayment ==
  ASSUME Inv, Serial, TreasuryAssumption, NEW r \in Requests, ClientPayment(r)
  PROVE  Serial' /\ UNCHANGED <<rows, payments>>
<1>1. PICK d : d = dto[r]
  OBVIOUS
<1>2. /\ d \in Dto /\ d.kind = "payment" /\ pc[r] = "reading" /\ Handles(r, "payment")
  BY <1>1, InputOf DEF ClientPayment
<1>3. d.invoice \in Rows /\ d.account \in Rows /\ d.invoice # d.account
  BY <1>2 DEF Dto, Deposits, Transfers, ClientPayments, AccountEdits, Toggles, Transitions,
              InvoiceEdits, Rows, TreasuryAssumption
<1>4. view[r][d.invoice] = rows[d.invoice] /\ view[r][d.account] = rows[d.account]
  <2>1. Reads(d) = <<d.invoice, d.account>>
    BY <1>2 DEF Reads
  <2>2. /\ 1 \in 1 .. Len(Reads(d)) /\ Reads(d)[1] = d.invoice
        /\ 2 \in 1 .. Len(Reads(d)) /\ Reads(d)[2] = d.account
    BY <2>1
  <2> QED BY <1>1, <1>2, <2>2, ReadIsRow
<1>5. PICK G : G = [x \in Rows |->
            IF x = d.invoice THEN WithPayment(rows[x], d.amount)
            ELSE IF x = d.account THEN [rows[x] EXCEPT !.current_balance = @ + d.amount]
            ELSE rows[x]]
  OBVIOUS
<1>6. PICK saves : saves = <<Save(d.invoice, G[d.invoice], {"paid_amount"}),
                             Save(d.account, G[d.account], {"current_balance"})>>
  OBVIOUS
<1>7. PICK ok : ok = (/\ rows[d.invoice].status \notin {"PAID", "CANCELLED"}
                      /\ rows[d.account].is_active
                      /\ WithinRemaining(rows[d.invoice], d.amount)
                      /\ Fits(rows[d.account].current_balance + d.amount))
  OBVIOUS
<1>8. Decide(r, ok, saves)
  <2>1. /\ G[d.invoice] = WithPayment(rows[d.invoice], d.amount)
        /\ G[d.account] = [rows[d.account] EXCEPT !.current_balance = @ + d.amount]
    BY <1>3, <1>5
  <2> QED BY <1>1, <1>4, <1>6, <1>7, <2>1 DEF ClientPayment, SaveAccount
<1>9. ok => Effect(d, G)
  BY <1>2, <1>5, <1>7 DEF Effect, Receiving
<1>10. Aims(saves, G) /\ Covered(saves, d.invoice) /\ Covered(saves, d.account)
  BY <1>3, <1>6, AimsTwo
<1>11. \A x \in Rows : rows[x] = G[x] \/ Covered(saves, x)
  BY <1>5, <1>10
<1> QED BY <1>1, <1>2, <1>8, <1>9, <1>10, <1>11, SerialDecide

LEMMA SerialToggle ==
  ASSUME Inv, Serial, TreasuryAssumption, NEW r \in Requests, ToggleActive(r)
  PROVE  Serial' /\ UNCHANGED <<rows, payments>>
<1>1. PICK d : d = dto[r]
  OBVIOUS
<1>2. /\ d \in Dto /\ d.kind = "toggle" /\ pc[r] = "reading" /\ Handles(r, "toggle")
  BY <1>1, InputOf DEF ToggleActive
<1>3. d.account \in Rows
  BY <1>2 DEF Dto, Deposits, Transfers, ClientPayments, AccountEdits, Toggles, Transitions,
              InvoiceEdits, Rows
<1>4. view[r][d.account] = rows[d.account]
  <2>1. Reads(d) = <<d.account>>
    BY <1>2 DEF Reads
  <2>2. 1 \in 1 .. Len(Reads(d)) /\ Reads(d)[1] = d.account
    BY <2>1
  <2> QED BY <1>1, <1>2, <2>2, ReadIsRow
<1>5. PICK G : G = [x \in Rows |->
            IF x = d.account THEN [rows[x] EXCEPT !.is_active = ~@] ELSE rows[x]]
  OBVIOUS
<1>6. PICK saves : saves = <<Save(d.account, G[d.account], {})>>
  OBVIOUS
<1>7. PICK ok : ok = ~(rows[d.account].is_default /\ rows[d.account].is_active)
  OBVIOUS
<1>8. Decide(r, ok, saves)
  BY <1>1, <1>3, <1>4, <1>5, <1>6, <1>7 DEF ToggleActive
<1>9. ok => Effect(d, G)
  BY <1>2, <1>5, <1>7 DEF Effect, Toggling
<1>10. Aims(saves, G) /\ Covered(saves, d.account)
  BY <1>3, <1>6, AimsOne
<1>11. \A x \in Rows : rows[x] = G[x] \/ Covered(saves, x)
  BY <1>5, <1>10
<1> QED BY <1>1, <1>2, <1>8, <1>9, <1>10, <1>11, SerialDecide

LEMMA SerialTransition ==
  ASSUME Inv, Serial, TreasuryAssumption, NEW r \in Requests, TransitionInvoice(r)
  PROVE  Serial' /\ UNCHANGED <<rows, payments>>
<1>1. PICK d : d = dto[r]
  OBVIOUS
<1>2. /\ d \in Dto /\ d.kind = "transition" /\ pc[r] = "reading" /\ Handles(r, "transition")
  BY <1>1, InputOf DEF TransitionInvoice
<1>3. d.invoice \in Rows
  BY <1>2 DEF Dto, Deposits, Transfers, ClientPayments, AccountEdits, Toggles, Transitions,
              InvoiceEdits, Rows
<1>4. view[r][d.invoice] = rows[d.invoice]
  <2>1. Reads(d) = <<d.invoice>>
    BY <1>2 DEF Reads
  <2>2. 1 \in 1 .. Len(Reads(d)) /\ Reads(d)[1] = d.invoice
    BY <2>1
  <2> QED BY <1>1, <1>2, <2>2, ReadIsRow
<1>5. PICK G : G = [x \in Rows |->
            IF x = d.invoice THEN [rows[x] EXCEPT !.status = d.target] ELSE rows[x]]
  OBVIOUS
<1>6. PICK saves : saves = <<Save(d.invoice, G[d.invoice], {})>>
  OBVIOUS
<1>7. PICK ok : ok = (d.target \in TRANSITIONS[rows[d.invoice].status])
  OBVIOUS
<1>8. Decide(r, ok, saves)
  BY <1>1, <1>3, <1>4, <1>5, <1>6, <1>7 DEF TransitionInvoice
<1>9. ok => Effect(d, G)
  BY <1>2, <1>5, <1>7 DEF Effect, Advancing
<1>10. Aims(saves, G) /\ Covered(saves, d.invoice)
  BY <1>3, <1>6, AimsOne
<1>11. \A x \in Rows : rows[x] = G[x] \/ Covered(saves, x)
  BY <1>5, <1>10
<1> QED BY <1>1, <1>2, <1>8, <1>9, <1>10, <1>11, SerialDecide

LEMMA SerialRedraft ==
  ASSUME Inv, Serial, TreasuryAssumption, NEW r \in Requests, EditInvoice(r)
  PROVE  Serial' /\ UNCHANGED <<rows, payments>>
<1>1. PICK d : d = dto[r]
  OBVIOUS
<1>2. /\ d \in Dto /\ d.kind = "invoiceEdit" /\ pc[r] = "reading" /\ Handles(r, "invoiceEdit")
  BY <1>1, InputOf DEF EditInvoice
<1>3. d.invoice \in Rows
  BY <1>2 DEF Dto, Deposits, Transfers, ClientPayments, AccountEdits, Toggles, Transitions,
              InvoiceEdits, Rows
<1>4. view[r][d.invoice] = rows[d.invoice]
  <2>1. Reads(d) = <<d.invoice>>
    BY <1>2 DEF Reads
  <2>2. 1 \in 1 .. Len(Reads(d)) /\ Reads(d)[1] = d.invoice
    BY <2>1
  <2> QED BY <1>1, <1>2, <2>2, ReadIsRow
<1>5. PICK G : G = [x \in Rows |->
            IF x = d.invoice THEN [rows[x] EXCEPT !.total_ttc = d.total] ELSE rows[x]]
  OBVIOUS
<1>6. PICK saves : saves = <<Save(d.invoice, G[d.invoice], {"total_ttc"})>>
  OBVIOUS
<1>7. PICK ok : ok = (rows[d.invoice].status = "DRAFT")
  OBVIOUS
<1>8. Decide(r, ok, saves)
  BY <1>1, <1>3, <1>4, <1>5, <1>6, <1>7 DEF EditInvoice
<1>9. ok => Effect(d, G)
  BY <1>2, <1>5, <1>7 DEF Effect, Redrafting
<1>10. Aims(saves, G) /\ Covered(saves, d.invoice)
  BY <1>3, <1>6, AimsOne
<1>11. \A x \in Rows : rows[x] = G[x] \/ Covered(saves, x)
  BY <1>5, <1>10
<1> QED BY <1>1, <1>2, <1>8, <1>9, <1>10, <1>11, SerialDecide

(* An UPDATE of the columns that differ makes the row the entity.          *)
LEMMA UpdateMakesEqual ==
  ASSUME TreasuryAssumption, NEW x \in Rows, NEW row, NEW entity, NEW decimals,
         Sound(x, row), Sound(x, entity)
  PROVE  /\ Merge(row, entity, Differing(entity, decimals, row)) = entity
         /\ Differing(entity, decimals, row) = {} => row = entity
<1>1. CASE x \in Accounts
  <2>1. row \in Account /\ entity \in Account
    BY <1>1 DEF Sound, IsEntityOf, Row
  <2> QED BY <2>1 DEF Account, Merge, Differing
<1>2. CASE x \in Invoices
  <2>1. row \in Invoice /\ entity \in Invoice
    BY <1>2 DEF Sound, IsEntityOf, Row, TreasuryAssumption
  <2> QED BY <2>1 DEF Invoice, Merge, Differing
<1> QED BY <1>1, <1>2 DEF Rows

LEMMA SerialReload ==
  ASSUME Inv, Serial, NEW r \in Requests, Reload(r), UNCHANGED payments
  PROVE  Serial' /\ UNCHANGED <<rows, payments>>
<1> DEFINE save == Head(todo[r])
<1>1. /\ pc[r] = "saving" /\ todo[r] # << >> /\ todo[r] \in Seq(SaveSet)
      /\ diff' = [diff EXCEPT ![r] = [x \in DOMAIN save.image |->
                                        Differing(save.image[x], save.decimals, Seen(r, x))]]
      /\ pc' = [pc EXCEPT ![r] = "updating"]
      /\ UNCHANGED <<rows, dto, view, todo, pending>>
  BY DEF Reload, Inv, Shape
<1>2. /\ pc'[r] = "updating" /\ \A s \in Requests \ {r} : pc'[s] = pc[s]
      /\ diff'[r] = [x \in DOMAIN save.image |->
                       Differing(save.image[x], save.decimals, Seen(r, x))]
  BY <1>1 DEF Inv, Shape
<1>3. PICK G : Effect(dto[r], G) /\ Leads(r, G)
  BY <1>1 DEF Serial, Course, Busy
<1>4. save = todo[r][1] /\ 1 \in 1 .. Len(todo[r])
  BY <1>1
<1>5. \A x \in DOMAIN save.image : save.image[x] = G[x] /\ Seen(r, x) = rows[x]
  BY <1>3, <1>4 DEF Leads, Aims, Covered, Seen
<1>6. diff'[r] = [x \in DOMAIN save.image |-> Differing(G[x], save.decimals, rows[x])]
  BY <1>2, <1>5
<1>7. Leads(r, G)'
  BY <1>1, <1>2, <1>3, <1>6 DEF Leads, Aims, Covered, Seen, Merge, Differing
<1>8. Effect(dto[r], G)'
  <2>1. PICK d : d = dto[r]
    OBVIOUS
  <2>2. Effect(d, G)'
    BY <1>1, <1>3, <2>1, EffectKept
  <2>3. d = dto'[r]
    BY <1>1, <2>1
  <2> QED BY <2>2, <2>3
<1>9. Course(r)'
  BY <1>2, <1>7, <1>8 DEF Course, Busy, InFlight
<1>10. \A s \in InFlight : s = r
  BY <1>1 DEF Serial, InFlight
<1>11. Books'
  BY <1>1, BooksKept
<1> QED BY <1>1, <1>2, <1>9, <1>10, <1>11, SerialFrame

LEMMA SerialUpdate ==
  ASSUME Inv, TreasuryAssumption, Serial, NEW r \in Requests, Update(r), UNCHANGED payments
  PROVE  Serial' /\ UNCHANGED <<rows, payments>>
<1>0. PICK save : save = Head(todo[r])
  OBVIOUS
<1>1. pc[r] = "updating" /\ todo[r] \in Seq(SaveSet)
  BY DEF Update, Inv, Shape
<1>2. PICK G : Effect(dto[r], G) /\ Leads(r, G)
  BY <1>1 DEF Serial, Course, Busy
<1>3. /\ todo[r] # << >> /\ save = todo[r][1] /\ 1 \in 1 .. Len(todo[r])
      /\ diff[r] = [x \in DOMAIN save.image |-> Differing(G[x], save.decimals, rows[x])]
  BY <1>0, <1>1, <1>2 DEF Leads
<1>4. /\ todo'[r] = Tail(todo[r]) /\ pc'[r] = "saving"
      /\ pending'[r] = [x \in DOMAIN pending[r] \cup Needs(r) |->
                          IF x \in Needs(r) THEN [entity |-> save.image[x], cols |-> diff[r][x]]
                          ELSE pending[r][x]]
      /\ \A s \in Requests \ {r} : /\ pc'[s] = pc[s] /\ todo'[s] = todo[s]
                                   /\ pending'[s] = pending[s]
      /\ UNCHANGED <<rows, dto, view>>
  BY <1>0 DEF Update, Inv, Shape
<1>5. PICK rest : rest = Tail(todo[r])
  OBVIOUS
<1>6. /\ \A n \in 1 .. Len(rest) : n + 1 \in 1 .. Len(todo[r]) /\ n + 1 # 1
                                   /\ rest[n] = todo[r][n + 1]
      /\ \A n \in 1 .. Len(todo[r]) : n # 1 => n - 1 \in 1 .. Len(rest)
                                               /\ todo[r][n] = rest[n - 1]
  BY <1>1, <1>3, <1>5
<1>7. Aims(rest, G)
  <2>1. Aims(todo[r], G)
    BY <1>2 DEF Leads
  <2>2. ASSUME NEW n \in 1 .. Len(rest), NEW x \in DOMAIN rest[n].image
        PROVE  x \in Rows /\ rest[n].image[x] = G[x]
    <3>1. n + 1 \in 1 .. Len(todo[r]) /\ rest[n] = todo[r][n + 1]
      BY <1>6
    <3>2. PICK m \in 1 .. Len(todo[r]) : rest[n] = todo[r][m]
      BY <3>1
    <3> QED BY <2>1, <3>2 DEF Aims
  <2>3. ASSUME NEW m \in 1 .. Len(rest), NEW n \in 1 .. Len(rest), m # n
        PROVE  DOMAIN rest[m].image \cap DOMAIN rest[n].image = {}
    <3>1. m + 1 # n + 1
      BY <2>3
    <3> QED BY <1>6, <2>1, <3>1 DEF Aims
  <2> QED BY <2>2, <2>3 DEF Aims
<1>8. \A x : Covered(todo[r], x) => x \in DOMAIN save.image \/ Covered(rest, x)
  BY <1>3, <1>6 DEF Covered
<1>9. \A x : x \in DOMAIN save.image => Covered(todo[r], x) /\ ~Covered(rest, x)
  BY <1>2, <1>3, <1>6 DEF Covered, Leads, Aims
<1>10. \A x : Covered(rest, x) => Covered(todo[r], x)
  BY <1>6 DEF Covered
<1>11. Needs(r) \subseteq DOMAIN save.image
  BY <1>3 DEF Needs
<1>12. ASSUME NEW x \in DOMAIN save.image
       PROVE  /\ x \in Rows /\ save.image[x] = G[x] /\ x \notin DOMAIN pending[r]
              /\ Merge(rows[x], G[x], diff[r][x]) = G[x]
              /\ x \notin Needs(r) => rows[x] = G[x]
  <2>1. x \in Rows /\ save.image[x] = G[x] /\ x \notin DOMAIN pending[r]
    BY <1>2, <1>3, <1>9 DEF Leads, Aims
  <2>2. Sound(x, rows[x]) /\ Sound(x, G[x])
    BY <1>3, <2>1 DEF Inv, RowsSound, Memory, SoundSave
  <2>3. diff[r][x] = Differing(G[x], save.decimals, rows[x])
    BY <1>3
  <2>4. x \notin Needs(r) => diff[r][x] = {}
    BY <1>3 DEF Needs
  <2> QED BY <2>1, <2>2, <2>3, <2>4, UpdateMakesEqual
<1>13. \A x \in DOMAIN pending'[r] : x \in Rows /\ ~Covered(rest, x)
  BY <1>2, <1>4, <1>9, <1>10, <1>11, <1>12 DEF Leads
<1>14. ASSUME NEW x \in Rows PROVE Seen(r, x)' = G[x] \/ Covered(rest, x)
  <2>1. CASE x \in Needs(r)
    <3>1. x \in DOMAIN save.image /\ x \in DOMAIN pending'[r]
      BY <1>4, <1>11, <2>1
    <3>2. pending'[r][x].entity = G[x] /\ pending'[r][x].cols = diff[r][x]
      BY <1>4, <1>12, <2>1, <3>1
    <3>3. Seen(r, x)' = Merge(rows[x], pending'[r][x].entity, pending'[r][x].cols)
      BY <1>4, <3>1 DEF Seen, Merge
    <3> QED BY <1>12, <3>1, <3>2, <3>3
  <2>2. CASE x \notin Needs(r) /\ x \in DOMAIN save.image
    <3>1. x \notin DOMAIN pending'[r]
      BY <1>4, <1>12, <2>2
    <3> QED BY <1>4, <1>12, <2>2, <3>1 DEF Seen
  <2>3. CASE x \notin Needs(r) /\ x \notin DOMAIN save.image
    <3>1. Seen(r, x)' = Seen(r, x)
      BY <1>4, <2>3 DEF Seen, Merge
    <3> QED BY <1>2, <1>8, <2>3, <3>1 DEF Leads
  <2> QED BY <2>1, <2>2, <2>3
<1>15. Leads(r, G)'
  <2>1. Aims(rest, G)'
    BY <1>7
  <2>2. /\ \A x \in DOMAIN pending'[r] : x \in Rows /\ ~Covered(todo'[r], x)
        /\ \A x \in Rows : Seen(r, x)' = G[x] \/ Covered(todo'[r], x)
        /\ Aims(todo'[r], G)
    BY <1>4, <1>5, <1>7, <1>13, <1>14
  <2> QED BY <1>4, <2>2 DEF Leads, Rows, Aims, Covered
<1>16. Effect(dto[r], G)'
  <2>1. PICK d : d = dto[r]
    OBVIOUS
  <2>2. Effect(d, G)'
    BY <1>2, <1>4, <2>1, EffectKept
  <2>3. d = dto'[r]
    BY <1>4, <2>1
  <2> QED BY <2>2, <2>3
<1>17. Course(r)'
  BY <1>4, <1>15, <1>16 DEF Course, Busy, InFlight
<1>18. \A s \in InFlight : s = r
  BY <1>1 DEF Serial, InFlight
<1>19. Books'
  BY <1>4, BooksKept
<1> QED BY <1>4, <1>17, <1>18, <1>19, SerialFrame

LEMMA SerialScreen ==
  ASSUME Inv, Serial, NEW r \in Requests, FraudClear(r) \/ RecordTransaction(r)
  PROVE  Serial' /\ UNCHANGED <<rows, payments>>
<1>1. /\ pc[r] \in {"saving", "recording"}
      /\ \E phase \in {"saving", "recording"} : pc' = [pc EXCEPT ![r] = phase]
      /\ UNCHANGED <<rows, dto, view, todo, diff, pending, conns, payments>>
  BY DEF FraudClear, RecordTransaction, AllSaved
<1>2. /\ pc'[r] \in {"saving", "recording"} /\ \A s \in Requests \ {r} : pc'[s] = pc[s]
  BY <1>1 DEF Inv, Shape
<1>3. PICK G : Effect(dto[r], G) /\ Leads(r, G)
  BY <1>1 DEF Serial, Course, Busy
<1>4. Leads(r, G)'
  BY <1>1, <1>2, <1>3 DEF Leads, Aims, Covered, Seen, Merge
<1>5. Effect(dto[r], G)'
  <2>1. PICK d : d = dto[r]
    OBVIOUS
  <2>2. Effect(d, G)'
    BY <1>1, <1>3, <2>1, EffectKept
  <2>3. d = dto'[r]
    BY <1>1, <2>1
  <2> QED BY <2>2, <2>3
<1>6. Course(r)'
  BY <1>2, <1>4, <1>5 DEF Course, Busy, InFlight
<1>7. \A s \in InFlight : s = r
  BY <1>1 DEF Serial, InFlight
<1>8. Books'
  BY <1>1, BooksKept
<1> QED BY <1>1, <1>2, <1>6, <1>7, <1>8, SerialFrame

LEMMA SerialEdit ==
  ASSUME Inv, TreasuryAssumption, Serial, NEW r \in Requests, EditAccount(r)
  PROVE  /\ Serial' /\ UNCHANGED payments
         /\ \A i \in Invoices : rows'[i] = rows[i]
         /\ \A a \in Accounts : rows'[a] =
              IF dto[r].is_default THEN [rows[a] EXCEPT !.is_default = FALSE] ELSE rows[a]
<1>1. PICK d : d = dto[r]
  OBVIOUS
<1>2. /\ d \in Dto /\ d.kind = "edit" /\ pc[r] = "reading" /\ Handles(r, "edit")
  BY <1>1, InputOf DEF EditAccount
<1>3. d.account \in Accounts /\ d.account \in Rows /\ d.is_default \in BOOLEAN
  BY <1>2 DEF Dto, Deposits, Transfers, ClientPayments, AccountEdits, Toggles, Transitions,
              InvoiceEdits, Rows
<1>4. view[r][d.account] = rows[d.account]
  <2>1. Reads(d) = <<d.account>>
    BY <1>2 DEF Reads
  <2>2. 1 \in 1 .. Len(Reads(d)) /\ Reads(d)[1] = d.account
    BY <2>1
  <2> QED BY <1>1, <1>2, <2>2, ReadIsRow
<1>5. DOMAIN rows = Rows /\ (\A a \in Accounts : a \in Rows /\ rows[a] \in Account)
      /\ \A i \in Invoices : i \in Rows /\ i \notin Accounts
  BY SoundAccount DEF Inv, RowsSound, Rows, TreasuryAssumption
<1>6. PICK cleared : cleared = {a \in Accounts : d.is_default /\ rows[a].is_default}
  OBVIOUS
<1>7. PICK entity : entity = [rows[d.account] EXCEPT
                      !.current_balance = IF d.current_balance # NotGiven
                                          THEN d.current_balance ELSE @,
                      !.is_default = d.is_default \/ @]
  OBVIOUS
<1>8. PICK decimals : decimals = IF d.current_balance # NotGiven THEN {"current_balance"} ELSE {}
  OBVIOUS
<1>9. /\ rows' = [x \in DOMAIN rows |->
                    IF x \in cleared THEN [rows[x] EXCEPT !.is_default = FALSE] ELSE rows[x]]
      /\ pc' = [pc EXCEPT ![r] = "saving"]
      /\ todo' = [todo EXCEPT ![r] = <<Save(d.account, entity, decimals)>>]
      /\ UNCHANGED <<dto, view, diff, pending, conns, ledger, payments>>
  BY <1>1, <1>4, <1>6, <1>7, <1>8 DEF EditAccount
<1>10. \A i \in Invoices : rows'[i] = rows[i]
  BY <1>5, <1>6, <1>9
<1>11. ASSUME NEW a \in Accounts
       PROVE  rows'[a] = IF d.is_default THEN [rows[a] EXCEPT !.is_default = FALSE] ELSE rows[a]
  <2>1. rows[a] \in Account
    BY <1>5
  <2>2. CASE a \in cleared
    BY <1>5, <1>6, <1>9, <2>2
  <2>3. CASE a \notin cleared
    <3>1. rows'[a] = rows[a] /\ (d.is_default => ~rows[a].is_default)
      BY <1>5, <1>6, <1>9, <2>3
    <3>2. ~rows[a].is_default => [rows[a] EXCEPT !.is_default = FALSE] = rows[a]
      BY <2>1 DEF Account
    <3> QED BY <3>1, <3>2
  <2> QED BY <2>2, <2>3
<1>12. PICK R : R = rows'
  OBVIOUS
<1>13. PICK G : G = [x \in Rows |-> IF x = d.account
            THEN [R[x] EXCEPT
                    !.current_balance = IF d.current_balance # NotGiven
                                        THEN d.current_balance ELSE @,
                    !.is_default = d.is_default \/ @]
            ELSE R[x]]
  OBVIOUS
<1>14. G[d.account] = entity
  <2>1. rows[d.account] \in Account
    BY <1>3, <1>5
  <2>2. CASE d.is_default
    <3>1. R[d.account] = [rows[d.account] EXCEPT !.is_default = FALSE]
      BY <1>3, <1>11, <1>12, <2>2
    <3>2. PICK row : row = rows[d.account]
      OBVIOUS
    <3>3. row \in Account /\ R[d.account] = [row EXCEPT !.is_default = FALSE]
      BY <2>1, <3>1, <3>2
    <3>4. G[d.account] = [R[d.account] EXCEPT
                    !.current_balance = IF d.current_balance # NotGiven
                                        THEN d.current_balance ELSE @,
                    !.is_default = TRUE]
      BY <1>3, <1>13, <2>2
    <3>5. entity = [row EXCEPT
                    !.current_balance = IF d.current_balance # NotGiven
                                        THEN d.current_balance ELSE @,
                    !.is_default = TRUE]
      BY <1>7, <2>2, <3>2
    <3> QED BY <3>3, <3>4, <3>5 DEF Account
  <2>3. CASE ~d.is_default
    <3>1. R[d.account] = rows[d.account]
      BY <1>3, <1>11, <1>12, <2>3
    <3> QED BY <1>3, <1>7, <1>13, <3>1
  <2> QED BY <1>3, <2>2, <2>3
<1>15. Effect(d, G)'
  <2>1. d.is_default => \A a \in Accounts : ~rows'[a].is_default
    BY <1>5, <1>11 DEF Account
  <2>2. Correcting(d, G)'
    BY <1>2, <1>12, <1>13, <2>1 DEF Correcting, Rows
  <2> QED BY <2>2 DEF Effect
<1>16. /\ pc'[r] = "saving" /\ todo'[r] = <<Save(d.account, entity, decimals)>>
       /\ \A s \in Requests \ {r} : pc'[s] = pc[s] /\ todo'[s] = todo[s]
  BY <1>9 DEF Inv, Shape
<1>17. Aims(todo'[r], G) /\ Covered(todo'[r], d.account)
  BY <1>3, <1>14, <1>16, AimsOne
<1>18. DOMAIN pending'[r] = {}
  BY <1>2, <1>9 DEF Serial, Course, Busy
<1>19. \A x \in Rows : Seen(r, x)' = R[x] /\ (R[x] = G[x] \/ x = d.account)
  BY <1>12, <1>13, <1>18 DEF Seen
<1>20. Leads(r, G)'
  <2>1. /\ \A x \in DOMAIN pending'[r] : x \in Rows /\ ~Covered(todo'[r], x)
        /\ \A x \in Rows : Seen(r, x)' = G[x] \/ Covered(todo'[r], x)
    BY <1>17, <1>18, <1>19
  <2> QED BY <1>16, <1>17, <2>1 DEF Leads, Rows, Aims, Covered
<1>21. Course(r)'
  <2>1. Effect(dto[r], G)'
    <3>1. d = dto'[r]
      BY <1>1, <1>9
    <3> QED BY <1>15, <3>1
  <2> QED BY <1>16, <1>20, <2>1 DEF Course, Busy, InFlight
<1>22. \A s \in InFlight : s = r
  BY <1>2 DEF Serial, InFlight
<1>23. Books'
  <2>1. \A a \in Accounts : rows'[a].current_balance = rows[a].current_balance
    BY <1>5, <1>11 DEF Account
  <2> QED BY <1>9, <1>10, <2>1 DEF Serial, Books
<1>24. Serial'
  BY <1>9, <1>16, <1>21, <1>22, <1>23, SerialFrame
<1> QED BY <1>1, <1>9, <1>10, <1>11, <1>24

(* COMMIT: the rows become what the request led them to.                   *)
LEMMA FinishReaches ==
  ASSUME Inv, TreasuryAssumption, Serial, NEW r \in Requests, Finish(r)
  PROVE  /\ \E G : Effect(dto[r], G) /\ \A x \in Rows : rows'[x] = G[x]
         /\ dto[r] \in Inputs
         /\ payments' = IF dto[r].kind = "payment"
                        THEN [payments EXCEPT ![dto[r].invoice] = @ + dto[r].amount]
                        ELSE payments
         /\ Books' => Serial'
<1>1. /\ pc[r] = "saving" /\ todo[r] = << >> /\ End(r, "done")
      /\ rows' = [x \in DOMAIN rows |-> Seen(r, x)]
  BY DEF Finish, Commit, AllSaved
<1>2. PICK G : Effect(dto[r], G) /\ Leads(r, G)
  BY <1>1 DEF Serial, Course, Busy
<1>3. \A x \in Rows : rows'[x] = G[x]
  BY <1>1, <1>2 DEF Leads, Covered, Inv, RowsSound
<1>4. dto[r] \in Inputs
  BY <1>1 DEF Inv, Memory
<1>5. /\ pc'[r] = "done" /\ view'[r] = Nothing /\ todo'[r] = << >> /\ pending'[r] = Nothing
      /\ \A s \in Requests \ {r} : /\ pc'[s] = pc[s] /\ view'[s] = view[s]
                                   /\ todo'[s] = todo[s] /\ pending'[s] = pending[s]
  BY <1>1 DEF End, Inv, Shape
<1>6. Course(r)'
  BY <1>5 DEF Course, Nothing, Busy, InFlight
<1>7. \A s \in InFlight : s = r
  BY <1>1 DEF Serial, InFlight
<1>8. Books' => Serial'
  BY <1>5, <1>6, <1>7, SerialFrame
<1>9. payments' = IF dto[r].kind = "payment"
                  THEN [payments EXCEPT ![dto[r].invoice] = @ + dto[r].amount]
                  ELSE payments
  BY DEF Finish
<1> QED BY <1>2, <1>3, <1>4, <1>8, <1>9

-----------------------------------------------------------------------------
(* The refinement mapping, step by step.                                   *)
LEMMA SoundRows ==
  ASSUME Inv, TreasuryAssumption
  PROVE  /\ \A a \in Accounts : rows[a] \in Account /\ rows[a].current_balance >= 0
                                /\ a \in Rows /\ a \notin Invoices
         /\ \A i \in Invoices : rows[i] \in Invoice /\ i \in Rows /\ i \notin Accounts
                                /\ payments[i] \in Nat
BY SoundAccount, SoundInvoice DEF Inv, RowsSound, Rows, Shape, TreasuryAssumption

(* A step that changes neither table, as the ideal treasury sees it.       *)
LEMMA IdealStutter ==
  ASSUME UNCHANGED <<rows, payments>>
  PROVE  UNCHANGED Ideal!vars
BY DEF Ideal!vars, Balances, Totals, Paid, Statuses

LEMMA AccountsApart ==
  ASSUME \A a \in Accounts : rows'[a] = rows[a]
  PROVE  /\ Balances' = Balances
         /\ {a \in Accounts : rows[a].is_active}' = {a \in Accounts : rows[a].is_active}
         /\ {a \in Accounts : rows[a].is_default}' = {a \in Accounts : rows[a].is_default}
BY DEF Balances

LEMMA InvoicesApart ==
  ASSUME \A i \in Invoices : rows'[i] = rows[i]
  PROVE  Totals' = Totals /\ Paid' = Paid /\ Statuses' = Statuses
BY DEF Totals, Paid, Statuses

(* Only the balance of an account changes.                                 *)
LEMMA BalanceOnly ==
  ASSUME NEW a \in Accounts, NEW v,
         \A x \in Accounts : rows[x] \in Account,
         \A x \in Accounts : rows'[x] = IF x = a THEN [rows[x] EXCEPT !.current_balance = v]
                                        ELSE rows[x]
  PROVE  /\ Balances' = [Balances EXCEPT ![a] = v]
         /\ {x \in Accounts : rows[x].is_active}' = {x \in Accounts : rows[x].is_active}
         /\ {x \in Accounts : rows[x].is_default}' = {x \in Accounts : rows[x].is_default}
<1>1. \A x \in Accounts : /\ rows'[x].is_active = rows[x].is_active
                          /\ rows'[x].is_default = rows[x].is_default
                          /\ rows'[x].current_balance = IF x = a THEN v
                                                        ELSE rows[x].current_balance
  BY DEF Account
<1> QED BY <1>1 DEF Balances

LEMMA IdealAdding ==
  ASSUME Inv, Books, TreasuryAssumption, NEW d \in Inputs, NEW G, Adding(d, G),
         \A x \in Rows : rows'[x] = G[x], UNCHANGED payments
  PROVE  Books' /\ Ideal!Next
<1> DEFINE n == d.amount
           b == rows[d.account].current_balance
<1>1. d \in Dto /\ d.kind = "deposit"
  BY DEF Adding, TreasuryAssumption
<1>2. d.account \in Accounts /\ n \in Nat \ {0}
  BY <1>1 DEF Dto, Deposits, Transfers, ClientPayments, AccountEdits, Toggles, Transitions,
              InvoiceEdits
<1>3. \A x \in Rows : rows'[x] = IF x = d.account THEN [rows[x] EXCEPT !.current_balance = b + n]
                                 ELSE rows[x]
  BY DEF Adding
<1>4. /\ \A x \in Accounts : rows'[x] = IF x = d.account
                                        THEN [rows[x] EXCEPT !.current_balance = b + n]
                                        ELSE rows[x]
      /\ \A i \in Invoices : rows'[i] = rows[i]
  BY <1>2, <1>3, SoundRows
<1>5. /\ Balances' = [Balances EXCEPT ![d.account] = b + n]
      /\ {x \in Accounts : rows[x].is_active}' = {x \in Accounts : rows[x].is_active}
      /\ {x \in Accounts : rows[x].is_default}' = {x \in Accounts : rows[x].is_default}
  BY <1>2, <1>4, SoundRows, BalanceOnly
<1>6. Totals' = Totals /\ Paid' = Paid /\ Statuses' = Statuses
  BY <1>4, InvoicesApart
<1>7. b \in Nat /\ b + n < Limit /\ Limit \in Nat /\ rows[d.account].is_active
  <2>1. rows[d.account] \in Account /\ rows[d.account].current_balance >= 0
    BY <1>2, SoundRows
  <2> QED BY <2>1 DEF Adding, Fits, TreasuryAssumption, Account
<1>8. Balances[d.account] = b
  BY <1>2 DEF Balances
<1>9. Ideal!Deposit(d.account, n)
  BY <1>2, <1>5, <1>6, <1>7, <1>8 DEF Ideal!Deposit
<1>10. n \in Ideal!Amounts
  BY <1>2, <1>7 DEF Ideal!Amounts
<1>11. Books'
  <2>1. \A x \in Accounts : rows'[x].current_balance < Limit
    BY <1>4, <1>7, SoundRows DEF Books, Account
  <2> QED BY <1>4, <2>1 DEF Books
<1> QED BY <1>2, <1>9, <1>10, <1>11 DEF Ideal!Next

LEMMA IdealMoving ==
  ASSUME Inv, Books, TreasuryAssumption, NEW d \in Inputs, NEW G, Moving(d, G),
         \A x \in Rows : rows'[x] = G[x], UNCHANGED payments
  PROVE  Books' /\ Ideal!Next
<1> DEFINE n == d.amount
           b == rows[d.from].current_balance
           c == rows[d.to].current_balance
<1>1. d \in Dto /\ d.kind = "transfer"
  BY DEF Moving, TreasuryAssumption
<1>2. d.from \in Accounts /\ d.to \in Accounts /\ d.from # d.to /\ n \in Nat \ {0}
  BY <1>1 DEF Dto, Deposits, Transfers, ClientPayments, AccountEdits, Toggles, Transitions,
              InvoiceEdits
<1>3. \A x \in Rows : rows'[x] =
        IF x = d.from THEN [rows[x] EXCEPT !.current_balance = b - n]
        ELSE IF x = d.to THEN [rows[x] EXCEPT !.current_balance = c + n]
        ELSE rows[x]
  BY DEF Moving
<1>4. /\ \A x \in Accounts : rows'[x] =
           IF x = d.from THEN [rows[x] EXCEPT !.current_balance = b - n]
           ELSE IF x = d.to THEN [rows[x] EXCEPT !.current_balance = c + n]
           ELSE rows[x]
      /\ \A i \in Invoices : rows'[i] = rows[i]
  BY <1>2, <1>3, SoundRows
<1>5. \A x \in Accounts :
        /\ rows'[x].is_active = rows[x].is_active /\ rows'[x].is_default = rows[x].is_default
        /\ rows'[x].current_balance = IF x = d.from THEN b - n
                                      ELSE IF x = d.to THEN c + n
                                      ELSE rows[x].current_balance
  BY <1>4, SoundRows DEF Account
<1>6. Totals' = Totals /\ Paid' = Paid /\ Statuses' = Statuses
  BY <1>4, InvoicesApart
<1>7. /\ b \in Nat /\ c \in Nat /\ b >= n /\ c + n < Limit /\ b < Limit /\ Limit \in Nat
      /\ rows[d.from].is_active /\ rows[d.to].is_active
  <2>1. /\ rows[d.from] \in Account /\ rows[d.from].current_balance >= 0
        /\ rows[d.to] \in Account /\ rows[d.to].current_balance >= 0
    BY <1>2, SoundRows
  <2> QED BY <1>2, <2>1 DEF Moving, Fits, Covers, TreasuryAssumption, Account, Books
<1>8. Balances' = [Balances EXCEPT ![d.from] = @ - n, ![d.to] = @ + n]
  BY <1>2, <1>5 DEF Balances
<1>9. /\ {x \in Accounts : rows[x].is_active}' = {x \in Accounts : rows[x].is_active}
      /\ {x \in Accounts : rows[x].is_default}' = {x \in Accounts : rows[x].is_default}
  BY <1>5
<1>10. Balances[d.from] = b /\ Balances[d.to] = c
  BY <1>2 DEF Balances
<1>11. Ideal!Transfer(d.from, d.to, n)
  BY <1>2, <1>6, <1>7, <1>8, <1>9, <1>10 DEF Ideal!Transfer
<1>12. n \in Ideal!Amounts
  BY <1>2, <1>7 DEF Ideal!Amounts
<1>13. Books'
  <2>1. \A x \in Accounts : rows'[x].current_balance < Limit
    BY <1>2, <1>5, <1>7 DEF Books
  <2> QED BY <1>4, <2>1 DEF Books
<1> QED BY <1>2, <1>11, <1>12, <1>13 DEF Ideal!Next

LEMMA PaymentSettles ==
  ASSUME NEW invoice \in Invoice, NEW amount \in Nat, WithinRemaining(invoice, amount)
  PROVE  WithPayment(invoice, amount).status =
           IF invoice.paid_amount + amount = invoice.total_ttc THEN "PAID" ELSE "PARTIALLY_PAID"
<1> DEFINE paid == invoice.paid_amount + amount
<1>1. invoice.paid_amount \in Int /\ invoice.total_ttc \in Int /\ paid \in Int
      /\ paid <= invoice.total_ttc
  BY DEF Invoice, WithinRemaining
<1>2. WithPayment(invoice, amount) =
        [invoice EXCEPT !.paid_amount = paid,
                        !.status = IF paid >= invoice.total_ttc THEN "PAID" ELSE "PARTIALLY_PAID"]
  BY DEF WithPayment
<1>3. WithPayment(invoice, amount).status =
        IF paid >= invoice.total_ttc THEN "PAID" ELSE "PARTIALLY_PAID"
  BY <1>2 DEF Invoice
<1> HIDE DEF paid
<1>4. (paid >= invoice.total_ttc) <=> (paid = invoice.total_ttc)
  BY <1>1
<1> QED BY <1>3, <1>4 DEF paid

LEMMA IdealReceiving ==
  ASSUME Inv, Books, TreasuryAssumption, NEW d \in Inputs, NEW G, Receiving(d, G),
         \A x \in Rows : rows'[x] = G[x],
         payments' = [payments EXCEPT ![d.invoice] = @ + d.amount]
  PROVE  Books' /\ Ideal!Next
<1> DEFINE n == d.amount
           i == d.invoice
           b == rows[d.account].current_balance
<1>1. d \in Dto /\ d.kind = "payment"
  BY DEF Receiving, TreasuryAssumption
<1>2. d.account \in Accounts /\ i \in Invoices /\ n \in Nat \ {0}
  BY <1>1 DEF Dto, Deposits, Transfers, ClientPayments, AccountEdits, Toggles, Transitions,
              InvoiceEdits
<1>3. \A x \in Rows : rows'[x] =
        IF x = i THEN WithPayment(rows[x], n)
        ELSE IF x = d.account THEN [rows[x] EXCEPT !.current_balance = b + n]
        ELSE rows[x]
  BY DEF Receiving
<1>4. /\ \A x \in Accounts : rows'[x] = IF x = d.account
                                        THEN [rows[x] EXCEPT !.current_balance = b + n]
                                        ELSE rows[x]
      /\ \A j \in Invoices : rows'[j] = IF j = i THEN WithPayment(rows[j], n) ELSE rows[j]
  BY <1>2, <1>3, SoundRows
<1>5. /\ Balances' = [Balances EXCEPT ![d.account] = b + n]
      /\ {x \in Accounts : rows[x].is_active}' = {x \in Accounts : rows[x].is_active}
      /\ {x \in Accounts : rows[x].is_default}' = {x \in Accounts : rows[x].is_default}
  BY <1>2, <1>4, SoundRows, BalanceOnly
<1>6. /\ rows[i] \in Invoice /\ WithinRemaining(rows[i], n)
      /\ rows[i].status \notin {"PAID", "CANCELLED"} /\ rows[d.account].is_active
  BY <1>2, SoundRows DEF Receiving
<1>7. /\ rows'[i].total_ttc = rows[i].total_ttc
      /\ rows'[i].paid_amount = rows[i].paid_amount + n
      /\ rows'[i].status = IF rows[i].paid_amount + n = rows[i].total_ttc
                           THEN "PAID" ELSE "PARTIALLY_PAID"
  <2>1. PICK row : row = rows[i]
    OBVIOUS
  <2>2. row \in Invoice /\ WithinRemaining(row, n) /\ rows'[i] = WithPayment(row, n)
    BY <1>2, <1>4, <1>6, <2>1
  <2>3. /\ WithPayment(row, n).total_ttc = row.total_ttc
        /\ WithPayment(row, n).paid_amount = row.paid_amount + n
        /\ WithPayment(row, n).status = IF row.paid_amount + n = row.total_ttc
                                       THEN "PAID" ELSE "PARTIALLY_PAID"
    BY <1>2, <2>2, PaymentKeepsTotal, PaymentSettles
  <2> QED BY <2>1, <2>2, <2>3
<1>8. rows[i].paid_amount + n <= rows[i].total_ttc
  BY <1>2, <1>6 DEF WithinRemaining, Invoice
<1>9. b \in Nat /\ b + n < Limit /\ Limit \in Nat
  <2>1. rows[d.account] \in Account /\ rows[d.account].current_balance >= 0
    BY <1>2, SoundRows
  <2> QED BY <2>1 DEF Receiving, Fits, TreasuryAssumption, Account
<1>10. /\ Balances[d.account] = b /\ Paid[i] = rows[i].paid_amount
       /\ Totals[i] = rows[i].total_ttc /\ Statuses[i] = rows[i].status
  BY <1>2 DEF Balances, Paid, Totals, Statuses
<1>11. \A j \in Invoices : j # i => rows'[j] = rows[j]
  BY <1>4
<1>12. Paid' = [Paid EXCEPT ![i] = @ + n] /\ Totals' = Totals
  BY <1>2, <1>7, <1>11 DEF Paid, Totals
<1>13. Statuses' = [Statuses EXCEPT ![i] = IF Paid[i] + n = Totals[i]
                                           THEN "PAID" ELSE "PARTIALLY_PAID"]
  BY <1>2, <1>7, <1>10, <1>11 DEF Statuses
<1>14. Ideal!Receive(i, d.account, n)
  BY <1>2, <1>5, <1>6, <1>8, <1>9, <1>10, <1>12, <1>13 DEF Ideal!Receive
<1>15. n \in Ideal!Amounts
  BY <1>2, <1>9 DEF Ideal!Amounts
<1>16. Books'
  <2>1. \A x \in Accounts : rows'[x].current_balance < Limit
    BY <1>4, <1>9, SoundRows DEF Books, Account
  <2>2. payments'[i] = payments[i] + n /\ \A j \in Invoices : j # i => payments'[j] = payments[j]
    BY <1>2 DEF Inv, Shape
  <2>3. ASSUME NEW j \in Invoices
        PROVE  /\ rows'[j].paid_amount = payments'[j] /\ payments'[j] <= rows'[j].total_ttc
               /\ rows'[j].status \in {"DRAFT", "SENT"} => payments'[j] = 0
    <3>1. CASE j = i
      BY <1>2, <1>7, <1>8, <2>2, <3>1 DEF Books
    <3>2. CASE j # i
      BY <1>11, <2>2, <3>2 DEF Books
    <3> QED BY <3>1, <3>2
  <2> QED BY <2>1, <2>3 DEF Books
<1> QED BY <1>2, <1>14, <1>15, <1>16 DEF Ideal!Next

LEMMA IdealCorrecting ==
  ASSUME Inv, Books, TreasuryAssumption, NEW d \in Inputs, NEW G, Correcting(d, G),
         \A x \in Rows : rows'[x] = G[x], UNCHANGED payments
  PROVE  Books' /\ Ideal!Next
<1> DEFINE a == d.account
<1>0. PICK n : n = IF d.current_balance # NotGiven THEN d.current_balance
                   ELSE rows[a].current_balance
  OBVIOUS
<1>1. d \in Dto /\ d.kind = "edit"
  BY DEF Correcting, TreasuryAssumption
<1>2. a \in Accounts /\ d.current_balance \in Nat \cup {NotGiven} /\ d.is_default \in BOOLEAN
  BY <1>1 DEF Dto, Deposits, Transfers, ClientPayments, AccountEdits, Toggles, Transitions,
              InvoiceEdits
<1>3. \A x \in Rows : rows'[x] =
        IF x = a THEN [rows[x] EXCEPT !.current_balance = n, !.is_default = d.is_default \/ @]
        ELSE rows[x]
  BY <1>0 DEF Correcting
<1>4. /\ \A x \in Accounts : rows'[x] =
           IF x = a THEN [rows[x] EXCEPT !.current_balance = n, !.is_default = d.is_default \/ @]
           ELSE rows[x]
      /\ \A i \in Invoices : rows'[i] = rows[i]
  BY <1>2, <1>3, SoundRows
<1>5. n \in Nat /\ n < Limit /\ Limit \in Nat
  <2>1. rows[a] \in Account /\ rows[a].current_balance >= 0
    BY <1>2, SoundRows
  <2> QED BY <1>0, <1>1, <1>2, <2>1 DEF TreasuryAssumption, Account, Books
<1>6. \A x \in Accounts :
        /\ rows'[x].is_active = rows[x].is_active
        /\ rows'[x].is_default = IF x = a THEN d.is_default \/ rows[x].is_default
                                 ELSE rows[x].is_default
        /\ rows'[x].current_balance = IF x = a THEN n ELSE rows[x].current_balance
  BY <1>4, SoundRows DEF Account
<1>7. Totals' = Totals /\ Paid' = Paid /\ Statuses' = Statuses
  BY <1>4, InvoicesApart
<1>8. Balances' = [Balances EXCEPT ![a] = n]
  BY <1>2, <1>6 DEF Balances
<1>9. {x \in Accounts : rows[x].is_active}' = {x \in Accounts : rows[x].is_active}
  BY <1>6
<1>10. ASSUME d.is_default PROVE Ideal!Next
  <2>1. \A x \in Accounts : ~rows[x].is_default
    BY <1>10 DEF Correcting
  <2>2. /\ {x \in Accounts : rows[x].is_default} = {}
        /\ {x \in Accounts : rows[x].is_default}' = {a}
    BY <1>2, <1>6, <1>10, <2>1
  <2>3. Ideal!ChooseDefault(a, n)
    BY <1>7, <1>8, <1>9, <2>2 DEF Ideal!ChooseDefault
  <2> QED BY <1>2, <1>5, <2>3 DEF Ideal!Next
<1>11. ASSUME ~d.is_default PROVE Ideal!Next
  <2>1. {x \in Accounts : rows[x].is_default}' = {x \in Accounts : rows[x].is_default}
    BY <1>6, <1>11
  <2>2. Ideal!Correct(a, n)
    BY <1>5, <1>7, <1>8, <1>9, <2>1 DEF Ideal!Correct
  <2> QED BY <1>2, <1>5, <2>2 DEF Ideal!Next
<1>12. Books'
  <2>1. \A x \in Accounts : rows'[x].current_balance < Limit
    BY <1>5, <1>6 DEF Books
  <2> QED BY <1>4, <2>1 DEF Books
<1>13. Ideal!Next
  BY <1>2, <1>10, <1>11
<1> QED BY <1>12, <1>13

LEMMA IdealToggling ==
  ASSUME Inv, Books, TreasuryAssumption, NEW d \in Inputs, NEW G, Toggling(d, G),
         \A x \in Rows : rows'[x] = G[x], UNCHANGED payments
  PROVE  Books' /\ Ideal!Next
<1> DEFINE a == d.account
<1>1. d \in Dto /\ d.kind = "toggle"
  BY DEF Toggling, TreasuryAssumption
<1>2. a \in Accounts
  BY <1>1 DEF Dto, Deposits, Transfers, ClientPayments, AccountEdits, Toggles, Transitions,
              InvoiceEdits
<1>3. \A x \in Rows : rows'[x] = IF x = a THEN [rows[x] EXCEPT !.is_active = ~@] ELSE rows[x]
  BY DEF Toggling
<1>4. /\ \A x \in Accounts : rows'[x] = IF x = a THEN [rows[x] EXCEPT !.is_active = ~@]
                                        ELSE rows[x]
      /\ \A i \in Invoices : rows'[i] = rows[i]
  BY <1>2, <1>3, SoundRows
<1>5. \A x \in Accounts :
        /\ rows'[x].is_active = IF x = a THEN ~rows[x].is_active ELSE rows[x].is_active
        /\ rows'[x].is_default = rows[x].is_default
        /\ rows'[x].current_balance = rows[x].current_balance
  <2> SUFFICES ASSUME NEW x \in Accounts
               PROVE  /\ rows'[x].is_active = IF x = a THEN ~rows[x].is_active ELSE rows[x].is_active
                      /\ rows'[x].is_default = rows[x].is_default
                      /\ rows'[x].current_balance = rows[x].current_balance
    OBVIOUS
  <2>1. PICK row : row = rows[x]
    OBVIOUS
  <2>2. PICK flipped : flipped = ~row.is_active
    OBVIOUS
  <2>3. row \in Account /\ rows'[x] = IF x = a THEN [row EXCEPT !.is_active = flipped] ELSE row
    BY <1>4, <2>1, <2>2, SoundRows
  <2> QED BY <2>1, <2>2, <2>3 DEF Account
<1>6. Totals' = Totals /\ Paid' = Paid /\ Statuses' = Statuses
  BY <1>4, InvoicesApart
<1>7. /\ Balances' = Balances
      /\ {x \in Accounts : rows[x].is_default}' = {x \in Accounts : rows[x].is_default}
  BY <1>5 DEF Balances
<1>8. {x \in Accounts : rows[x].is_active}' =
        IF a \in {x \in Accounts : rows[x].is_active}
        THEN {x \in Accounts : rows[x].is_active} \ {a}
        ELSE {x \in Accounts : rows[x].is_active} \cup {a}
  BY <1>2, <1>5
<1>9. a \in {x \in Accounts : rows[x].is_active} => a \notin {x \in Accounts : rows[x].is_default}
  BY DEF Toggling
<1>10. Ideal!Toggle(a)
  BY <1>6, <1>7, <1>8, <1>9 DEF Ideal!Toggle
<1>11. Books'
  BY <1>4, <1>5 DEF Books
<1> QED BY <1>2, <1>10, <1>11 DEF Ideal!Next

LEMMA IdealAdvancing ==
  ASSUME Inv, Books, TreasuryAssumption, NEW d \in Inputs, NEW G, Advancing(d, G),
         \A x \in Rows : rows'[x] = G[x], UNCHANGED payments
  PROVE  Books' /\ Ideal!Next
<1> DEFINE i == d.invoice
           s == d.target
<1>1. d \in Dto /\ d.kind = "transition"
  BY DEF Advancing, TreasuryAssumption
<1>2. i \in Invoices /\ s \in {"SENT", "PARTIALLY_PAID", "PAID", "OVERDUE", "CANCELLED"}
  BY <1>1 DEF Dto, Deposits, Transfers, ClientPayments, AccountEdits, Toggles, Transitions,
              InvoiceEdits, InvoiceStatus
<1>3. \A x \in Rows : rows'[x] = IF x = i THEN [rows[x] EXCEPT !.status = s] ELSE rows[x]
  BY DEF Advancing
<1>4. /\ \A x \in Accounts : rows'[x] = rows[x]
      /\ \A j \in Invoices : rows'[j] = IF j = i THEN [rows[j] EXCEPT !.status = s] ELSE rows[j]
  BY <1>2, <1>3, SoundRows
<1>5. \A j \in Invoices : /\ rows'[j].total_ttc = rows[j].total_ttc
                          /\ rows'[j].paid_amount = rows[j].paid_amount
                          /\ rows'[j].status = IF j = i THEN s ELSE rows[j].status
  BY <1>4, SoundRows DEF Invoice
<1>6. /\ Balances' = Balances
      /\ {x \in Accounts : rows[x].is_active}' = {x \in Accounts : rows[x].is_active}
      /\ {x \in Accounts : rows[x].is_default}' = {x \in Accounts : rows[x].is_default}
  BY <1>4, AccountsApart
<1>7. Totals' = Totals /\ Paid' = Paid /\ Statuses' = [Statuses EXCEPT ![i] = s]
  BY <1>2, <1>5 DEF Totals, Paid, Statuses
<1>8. \/ rows[i].status = "DRAFT" /\ s \in {"SENT", "CANCELLED"}
      \/ rows[i].status = "SENT" /\ s \in {"OVERDUE", "PARTIALLY_PAID", "PAID", "CANCELLED"}
      \/ rows[i].status = "PARTIALLY_PAID" /\ s \in {"OVERDUE", "PAID"}
      \/ rows[i].status = "OVERDUE" /\ s \in {"PARTIALLY_PAID", "PAID"}
  <2>1. rows[i].status \in InvoiceStatus /\ s \in TRANSITIONS[rows[i].status]
    BY <1>2, SoundRows DEF Invoice, Advancing
  <2> QED BY <2>1 DEF InvoiceStatus, TRANSITIONS
<1>9. s \in {"CANCELLED", "SENT"} => payments[i] = 0
  BY <1>2, <1>8 DEF Books
<1>10. Statuses[i] = rows[i].status
  BY <1>2 DEF Statuses
<1>11. Ideal!Advance(i, s)
  BY <1>6, <1>7, <1>8, <1>9, <1>10 DEF Ideal!Advance
<1>12. Books'
  <2>1. ASSUME NEW j \in Invoices
        PROVE  /\ rows'[j].paid_amount = payments'[j] /\ payments'[j] <= rows'[j].total_ttc
               /\ rows'[j].status \in {"DRAFT", "SENT"} => payments'[j] = 0
    BY <1>2, <1>5, <1>9 DEF Books
  <2> QED BY <1>4, <2>1 DEF Books
<1> QED BY <1>2, <1>11, <1>12 DEF Ideal!Next

LEMMA IdealRedrafting ==
  ASSUME Inv, Books, TreasuryAssumption, NEW d \in Inputs, NEW G, Redrafting(d, G),
         \A x \in Rows : rows'[x] = G[x], UNCHANGED payments
  PROVE  Books' /\ Ideal!Next
<1> DEFINE i == d.invoice
           n == d.total
<1>1. d \in Dto /\ d.kind = "invoiceEdit"
  BY DEF Redrafting, TreasuryAssumption
<1>2. i \in Invoices /\ n \in Nat /\ n < Limit /\ Limit \in Nat
  BY <1>1 DEF Dto, Deposits, Transfers, ClientPayments, AccountEdits, Toggles, Transitions,
              InvoiceEdits, TreasuryAssumption
<1>3. \A x \in Rows : rows'[x] = IF x = i THEN [rows[x] EXCEPT !.total_ttc = n] ELSE rows[x]
  BY DEF Redrafting
<1>4. /\ \A x \in Accounts : rows'[x] = rows[x]
      /\ \A j \in Invoices : rows'[j] = IF j = i THEN [rows[j] EXCEPT !.total_ttc = n] ELSE rows[j]
  BY <1>2, <1>3, SoundRows
<1>5. \A j \in Invoices : /\ rows'[j].total_ttc = IF j = i THEN n ELSE rows[j].total_ttc
                          /\ rows'[j].paid_amount = rows[j].paid_amount
                          /\ rows'[j].status = rows[j].status
  BY <1>4, SoundRows DEF Invoice
<1>6. /\ Balances' = Balances
      /\ {x \in Accounts : rows[x].is_active}' = {x \in Accounts : rows[x].is_active}
      /\ {x \in Accounts : rows[x].is_default}' = {x \in Accounts : rows[x].is_default}
  BY <1>4, AccountsApart
<1>7. Totals' = [Totals EXCEPT ![i] = n] /\ Paid' = Paid /\ Statuses' = Statuses
  BY <1>2, <1>5 DEF Totals, Paid, Statuses
<1>8. rows[i].status = "DRAFT" /\ payments[i] = 0 /\ Statuses[i] = "DRAFT"
  BY <1>2 DEF Redrafting, Books, Statuses
<1>9. Ideal!Redraft(i, n)
  BY <1>6, <1>7, <1>8 DEF Ideal!Redraft
<1>10. n \in 0 .. Limit
  BY <1>2
<1>11. Books'
  <2>1. ASSUME NEW j \in Invoices
        PROVE  /\ rows'[j].paid_amount = payments'[j] /\ payments'[j] <= rows'[j].total_ttc
               /\ rows'[j].status \in {"DRAFT", "SENT"} => payments'[j] = 0
    BY <1>2, <1>5, <1>8 DEF Books
  <2> QED BY <1>4, <2>1 DEF Books
<1> QED BY <1>2, <1>9, <1>10, <1>11 DEF Ideal!Next

LEMMA IdealFinish ==
  ASSUME Inv, TreasuryAssumption, Serial, NEW r \in Requests, Finish(r)
  PROVE  Serial' /\ Ideal!Next
<1>1. PICK G : Effect(dto[r], G) /\ \A x \in Rows : rows'[x] = G[x]
  BY FinishReaches
<1>2. PICK d : d = dto[r]
  OBVIOUS
<1>3. /\ d \in Inputs /\ Effect(d, G) /\ Books /\ (Books' => Serial')
      /\ payments' = IF d.kind = "payment" THEN [payments EXCEPT ![d.invoice] = @ + d.amount]
                     ELSE payments
  BY <1>1, <1>2, FinishReaches DEF Serial
<1>4. CASE Receiving(d, G)
  <2>1. payments' = [payments EXCEPT ![d.invoice] = @ + d.amount]
    BY <1>3, <1>4 DEF Receiving
  <2> QED BY <1>1, <1>3, <1>4, <2>1, IdealReceiving
<1>5. CASE \/ Adding(d, G) \/ Moving(d, G) \/ Correcting(d, G) \/ Toggling(d, G)
           \/ Advancing(d, G) \/ Redrafting(d, G)
  <2>1. UNCHANGED payments
    BY <1>3, <1>5 DEF Adding, Moving, Correcting, Toggling, Advancing, Redrafting
  <2> QED BY <1>1, <1>3, <1>5, <2>1, IdealAdding, IdealMoving, IdealCorrecting, IdealToggling,
             IdealAdvancing, IdealRedrafting
<1> QED BY <1>3, <1>4, <1>5 DEF Effect

(* The other defaults are cleared before the edit itself is saved.         *)
LEMMA IdealClear ==
  ASSUME Inv, TreasuryAssumption, Serial, NEW r \in Requests, EditAccount(r)
  PROVE  Serial' /\ [Ideal!Next]_Ideal!vars
<1>1. /\ Serial' /\ UNCHANGED payments
      /\ \A i \in Invoices : rows'[i] = rows[i]
      /\ \A a \in Accounts : rows'[a] =
           IF dto[r].is_default THEN [rows[a] EXCEPT !.is_default = FALSE] ELSE rows[a]
  BY SerialEdit
<1>2. Totals' = Totals /\ Paid' = Paid /\ Statuses' = Statuses
  BY <1>1, InvoicesApart
<1>3. ASSUME dto[r].is_default PROVE Ideal!Next
  <2>1. \A a \in Accounts : /\ rows'[a].is_active = rows[a].is_active
                            /\ rows'[a].is_default = FALSE
                            /\ rows'[a].current_balance = rows[a].current_balance
    <3> SUFFICES ASSUME NEW a \in Accounts
                 PROVE  /\ rows'[a].is_active = rows[a].is_active
                        /\ rows'[a].is_default = FALSE
                        /\ rows'[a].current_balance = rows[a].current_balance
      OBVIOUS
    <3>1. rows[a] \in Account
      BY SoundRows
    <3>2. rows'[a] = [rows[a] EXCEPT !.is_default = FALSE]
      BY <1>1, <1>3
    <3> QED BY <3>1, <3>2 DEF Account
  <2>2. /\ {x \in Accounts : rows[x].is_active}' = {x \in Accounts : rows[x].is_active}
        /\ {x \in Accounts : rows[x].is_default}' = {}
        /\ Balances' = Balances
    BY <2>1 DEF Balances
  <2>3. Ideal!ClearDefault
    BY <1>1, <1>2, <2>2 DEF Ideal!ClearDefault
  <2> QED BY <2>3 DEF Ideal!Next
<1>4. ASSUME ~dto[r].is_default PROVE UNCHANGED Ideal!vars
  <2>1. \A a \in Accounts : rows'[a] = rows[a]
    BY <1>1, <1>4
  <2> QED BY <1>1, <1>2, <2>1, AccountsApart DEF Ideal!vars
<1> QED BY <1>1, <1>3, <1>4

(* Every step of the requests served one by one is a step of the ideal     *)
(* treasury or a stutter.                                                  *)
LEMMA IdealNext ==
  ASSUME TreasuryAssumption, MaxInFlight = 1, Inv, Serial, [Next]_vars
  PROVE  Serial' /\ [Ideal!Next]_Ideal!vars
<1>1. CASE UNCHANGED vars
  <2>1. Serial'
    <3>1. UNCHANGED <<rows, payments>>
      BY <1>1 DEF vars, sessionVars
    <3>2. Books'
      BY <3>1, BooksKept
    <3>3. ASSUME NEW r \in Requests PROVE Course(r)'
      <4>1. UNCHANGED <<rows, pc, dto, view, todo, diff, pending>>
        BY <1>1 DEF vars, sessionVars
      <4>2. ASSUME NEW G, Effect(dto[r], G), Leads(r, G)
            PROVE  Effect(dto[r], G)' /\ Leads(r, G)'
        <5>1. PICK d : d = dto[r]
          OBVIOUS
        <5>2. Effect(d, G)' /\ d = dto'[r]
          BY <4>1, <4>2, <5>1, EffectKept
        <5>3. Leads(r, G)'
          BY <4>1, <4>2 DEF Leads, Aims, Covered, Seen, Merge
        <5> QED BY <5>2, <5>3
      <4>3. Course(r)
        BY DEF Serial
      <4> QED BY <4>1, <4>2, <4>3 DEF Course, InFlight
    <3>4. InFlight' = InFlight
      BY <1>1 DEF vars, sessionVars, InFlight
    <3> QED BY <3>2, <3>3, <3>4 DEF Serial
  <2>2. UNCHANGED Ideal!vars
    BY <1>1, IdealStutter DEF vars, sessionVars
  <2> QED BY <2>1, <2>2
<1>2. ASSUME NEW r \in Requests, Arrive(r) PROVE Serial' /\ [Ideal!Next]_Ideal!vars
  BY <1>2, SerialArrive, IdealStutter
<1>3. ASSUME NEW r \in Requests, Handle(r) PROVE Serial' /\ [Ideal!Next]_Ideal!vars
  <2>1. CASE Fetch(r)
    BY <2>1, SerialFetch, IdealStutter
  <2>2. CASE Deposit(r) \/ Transfer(r) \/ ClientPayment(r)
    BY <2>2, SerialDeposit, SerialTransfer, SerialPayment, IdealStutter
  <2>3. CASE ToggleActive(r) \/ TransitionInvoice(r) \/ EditInvoice(r)
    BY <2>3, SerialToggle, SerialTransition, SerialRedraft, IdealStutter
  <2>4. CASE EditAccount(r)
    BY <2>4, IdealClear
  <2>5. CASE Write(r)
    BY <2>5, SerialReload, SerialUpdate, IdealStutter DEF Write
  <2>6. CASE FraudClear(r) \/ RecordTransaction(r)
    BY <2>6, SerialScreen, IdealStutter
  <2>7. CASE FraudBlock(r) \/ DeadlockVictim(r)
    <3>1. r \in InFlight /\ Rollback(r) /\ UNCHANGED payments
      BY <2>7 DEF FraudBlock, DeadlockVictim, Deadlocked, AllSaved, InFlight
    <3> QED BY <3>1, SerialRollback, IdealStutter
  <2>8. CASE Finish(r)
    BY <2>8, IdealFinish
  <2> QED BY <1>3, <2>1, <2>2, <2>3, <2>4, <2>5, <2>6, <2>7, <2>8 DEF Handle
<1>4. ASSUME NEW r \in Requests, Abort(r) PROVE Serial' /\ [Ideal!Next]_Ideal!vars
  BY <1>4, SerialRollback, IdealStutter DEF Abort
<1> QED BY <1>1, <1>2, <1>3, <1>4 DEF Next

LEMMA IdealInit ==
  ASSUME TreasuryAssumption, Init
  PROVE  Serial /\ Ideal!Init
<1>1. PICK default \in Accounts, sent \in SUBSET Invoices :
        rows = [x \in Accounts \cup Invoices |->
                 IF x \in Accounts
                 THEN [current_balance |-> Opening[x], is_active |-> TRUE,
                       is_default |-> x = default]
                 ELSE [total_ttc |-> Total[x], paid_amount |-> 0,
                       status |-> IF x \in sent THEN "SENT" ELSE "DRAFT"]]
  BY DEF Init
<1>2. \A a \in Accounts : /\ rows[a].current_balance = Opening[a] /\ rows[a].is_active = TRUE
                          /\ Opening[a] \in 0 .. Limit - 1
  BY <1>1 DEF TreasuryAssumption
<1>3. \A i \in Invoices : /\ rows[i].total_ttc = Total[i] /\ rows[i].paid_amount = 0
                          /\ rows[i].status \in {"DRAFT", "SENT"} /\ Total[i] \in Nat
                          /\ payments[i] = 0
  BY <1>1 DEF TreasuryAssumption, Init
<1>4. Books
  BY <1>2, <1>3 DEF Books, TreasuryAssumption
<1>5. InFlight = {} /\ \A r \in Requests : Course(r)
  BY DEF Init, SessionsInit, Course, InFlight, Nothing, Busy
<1>6. Ideal!Init
  <2>1. Balances \in [Accounts -> 0 .. Limit - 1] /\ {a \in Accounts : rows[a].is_active} = Accounts
    BY <1>2 DEF Balances
  <2>2. /\ Totals \in [Invoices -> Nat] /\ Paid = [i \in Invoices |-> 0]
        /\ Statuses \in [Invoices -> {"DRAFT", "SENT"}]
    BY <1>3 DEF Totals, Paid, Statuses
  <2>3. payments = Paid
    BY <2>2 DEF Init
  <2> QED BY <2>1, <2>2, <2>3 DEF Ideal!Init
<1> QED BY <1>4, <1>5, <1>6 DEF Serial

(* While requests are served one by one the rows change only as a request  *)
(* that commits means them to, and the books are what the payments made.   *)
THEOREM ServedOneByOne == ASSUME MaxInFlight = 1 PROVE Spec => []Serial
<1>1. Init => Serial
  BY IdealInit, TreasuryAssumption
<1>2. Inv /\ Serial /\ [Next]_vars => Serial'
  BY IdealNext, TreasuryAssumption
<1> QED BY <1>1, <1>2, Invariance, PTL DEF Spec

(* Served one by one, the treasury implements the ideal one: a request is  *)
(* done at its COMMIT, entirely, or it never happened.                     *)
THEOREM Refinement == ASSUME MaxInFlight = 1 PROVE Spec => ImplementsIdeal
<1>1. Init => Ideal!Init
  BY IdealInit, TreasuryAssumption
<1>2. Inv /\ Serial /\ [Next]_vars => [Ideal!Next]_Ideal!vars
  BY IdealNext, TreasuryAssumption
<1> QED BY <1>1, <1>2, Invariance, ServedOneByOne, PTL DEF Spec, ImplementsIdeal, Ideal!Spec

(* Served one by one, the payments taken for an invoice never add up to    *)
(* more than its total, although they are checked against the amount the   *)
(* invoice says it was paid.                                               *)
THEOREM CollectedStaysWithinTotal == ASSUME MaxInFlight = 1 PROVE Spec => []CollectedWithinTotal
<1>1. Serial => CollectedWithinTotal
  BY DEF Serial, Books, CollectedWithinTotal
<1> QED BY <1>1, ServedOneByOne, PTL

-----------------------------------------------------------------------------
(* What the ledger says of the balances.  Each of its rows is an entry of  *)
(* the request that inserted it, and there are finitely many.              *)
Traced ==
  /\ IsFiniteSet(ledger)
  /\ \A e \in ledger : /\ e.by \in Requests /\ pc[e.by] # "idle"
                       /\ \E n \in 1 .. Len(Entries(e.by)) : e = Entries(e.by)[n]

(* A request keeps its body, and only its own COMMIT makes it done.        *)
LEMMA BodyKept ==
  ASSUME Inv, [Next]_vars, NEW s \in Requests, pc[s] # "idle"
  PROVE  /\ pc'[s] # "idle" /\ dto'[s] = dto[s]
         /\ (pc'[s] = "done") = (pc[s] = "done") \/ Finish(s)
<1> DEFINE Goal == /\ pc'[s] # "idle" /\ dto'[s] = dto[s]
                   /\ (pc'[s] = "done") = (pc[s] = "done") \/ Finish(s)
<1>1. CASE UNCHANGED vars
  BY <1>1 DEF vars, sessionVars
<1>2. ASSUME NEW r \in Requests, Arrive(r) PROVE Goal
  BY <1>2 DEF Arrive, Open, Inv, Shape
<1>3. ASSUME NEW r \in InFlight, Rollback(r) PROVE Goal
  BY <1>3 DEF Rollback, End, Inv, Shape, InFlight
<1>4. ASSUME NEW r \in Requests, NEW ok, NEW saves, pc[r] = "reading", Decide(r, ok, saves)
      PROVE  Goal
  <2>1. CASE ok
    BY <1>4, <2>1 DEF Decide, Proceed, Inv, Shape
  <2>2. CASE ~ok
    BY <1>3, <1>4, <2>2 DEF Decide, InFlight
  <2> QED BY <2>1, <2>2
<1>5. ASSUME NEW r \in Requests, Handle(r) PROVE Goal
  <2>1. CASE Fetch(r)
    BY <2>1 DEF Fetch, Read
  <2>2. CASE \/ Deposit(r) \/ Transfer(r) \/ ClientPayment(r) \/ ToggleActive(r)
             \/ TransitionInvoice(r) \/ EditInvoice(r)
    <3>1. pc[r] = "reading" /\ \E ok, saves : Decide(r, ok, saves)
      BY <2>2, Zenon DEF Deposit, Transfer, ClientPayment, ToggleActive, TransitionInvoice,
                         EditInvoice, Handles
    <3> QED BY <1>4, <3>1
  <2>3. CASE EditAccount(r)
    BY <2>3 DEF EditAccount, Handles, Inv, Shape
  <2>4. CASE Write(r)
    BY <2>4 DEF Write, Reload, Update, Inv, Shape
  <2>5. CASE FraudClear(r) \/ RecordTransaction(r)
    BY <2>5 DEF FraudClear, RecordTransaction, AllSaved, Inv, Shape
  <2>6. CASE FraudBlock(r) \/ DeadlockVictim(r)
    <3>1. r \in InFlight /\ Rollback(r)
      BY <2>6 DEF FraudBlock, DeadlockVictim, Deadlocked, AllSaved, InFlight
    <3> QED BY <1>3, <3>1
  <2>7. CASE Finish(r)
    BY <2>7 DEF Finish, Commit, Seen, End, Inv, Shape
  <2> QED BY <1>5, <2>1, <2>2, <2>3, <2>4, <2>5, <2>6, <2>7 DEF Handle
<1>6. ASSUME NEW r \in Requests, Abort(r) PROVE Goal
  BY <1>3, <1>6 DEF Abort
<1>7. Goal
  BY <1>1, <1>2, <1>5, <1>6 DEF Next
<1> QED BY <1>7

(* Only RecordTransaction inserts into the ledger.                         *)
LEMMA LedgerGrows ==
  ASSUME [Next]_vars
  PROVE  UNCHANGED ledger \/ \E r \in Requests : RecordTransaction(r)
BY DEF Next, vars, Arrive, Handle, Fetch, Deposit, Transfer, ClientPayment, EditAccount,
       ToggleActive, TransitionInvoice, EditInvoice, Decide, Write, FraudClear,
       FraudBlock, Finish, DeadlockVictim, Abort

LEMMA TracedNext ==
  ASSUME Inv, Traced, [Next]_vars
  PROVE  Traced'
<1>1. ASSUME NEW e \in ledger
      PROVE  /\ e.by \in Requests /\ pc'[e.by] # "idle"
             /\ \E n \in 1 .. Len(Entries(e.by)') : e = Entries(e.by)'[n]
  <2>1. e.by \in Requests /\ pc[e.by] # "idle"
    BY DEF Traced
  <2>2. pc'[e.by] # "idle" /\ dto'[e.by] = dto[e.by]
    BY <2>1, BodyKept
  <2>3. Entries(e.by)' = Entries(e.by)
    BY <2>2 DEF Entries, Entry
  <2> QED BY <2>1, <2>2, <2>3 DEF Traced
<1>2. CASE UNCHANGED ledger
  BY <1>1, <1>2 DEF Traced
<1>3. ASSUME NEW r \in Requests, RecordTransaction(r) PROVE Traced'
  <2>1. PICK n \in 1 .. Len(Entries(r)) : ledger' = ledger \cup {Entries(r)[n]}
    BY <1>3 DEF RecordTransaction
  <2>2. dto' = dto /\ pc'[r] = "saving"
    BY <1>3 DEF RecordTransaction, Inv, Shape
  <2>3. Entries(r)' = Entries(r)
    BY <2>2 DEF Entries, Entry
  <2>4. Entries(r)[n].by = r
    BY DEF Entries, Entry
  <2>5. PICK new : new = Entries(r)[n]
    OBVIOUS
  <2>6. /\ new.by \in Requests /\ pc'[new.by] # "idle"
        /\ \E m \in 1 .. Len(Entries(new.by)') : new = Entries(new.by)'[m]
    BY <2>2, <2>3, <2>4, <2>5
  <2>7. ledger' = ledger \cup {new} /\ IsFiniteSet(ledger')
    BY <2>1, <2>5, FS_AddElement DEF Traced
  <2> QED BY <1>1, <2>6, <2>7 DEF Traced
<1> QED BY <1>2, <1>3, LedgerGrows

(* The amounts of the ledger are integers.                                 *)
LEMMA EntryShape ==
  ASSUME Inv, TreasuryAssumption, Traced, NEW e \in ledger
  PROVE  e.amount \in Int
<1>0. PICK r : r = e.by
  OBVIOUS
<1>1. PICK n \in 1 .. Len(Entries(r)) : e = Entries(r)[n] /\ pc[r] # "idle" /\ r \in Requests
  BY <1>0 DEF Traced
<1>2. PICK d : d = dto[r]
  OBVIOUS
<1>3. d \in Dto
  BY <1>1, <1>2 DEF Inv, Memory, TreasuryAssumption
<1>4. CASE d.kind \in {"deposit", "payment"}
  <2>1. d.amount \in Nat
    BY <1>3, <1>4 DEF Dto, Deposits, Transfers, ClientPayments, AccountEdits, Toggles,
                      Transitions, InvoiceEdits
  <2>2. Entries(r) = <<Entry(r, d.account, d.amount)>>
    BY <1>2, <1>4 DEF Entries
  <2>3. e = Entry(r, d.account, d.amount)
    BY <1>1, <2>2
  <2> QED BY <2>1, <2>3 DEF Entry
<1>5. CASE d.kind = "transfer"
  <2>1. d.amount \in Nat
    BY <1>3, <1>5 DEF Dto, Deposits, Transfers, ClientPayments, AccountEdits, Toggles,
                      Transitions, InvoiceEdits
  <2>2. Entries(r) = <<Entry(r, d.from, -d.amount), Entry(r, d.to, d.amount)>>
    BY <1>2, <1>5 DEF Entries
  <2>3. e \in {Entry(r, d.from, -d.amount), Entry(r, d.to, d.amount)}
    BY <1>1, <2>2
  <2> QED BY <2>1, <2>3 DEF Entry
<1>6. CASE d.kind \notin {"deposit", "payment", "transfer"}
  <2>1. Entries(r) = << >>
    BY <1>2, <1>6 DEF Entries
  <2> QED BY <1>1, <2>1
<1> QED BY <1>4, <1>5, <1>6

(* While the committed moves of an account stay, so does their sum.        *)
LEMMA MovedKept ==
  ASSUME Traced, ledger \subseteq ledger', NEW a, MovesOf(a)' = MovesOf(a)
  PROVE  Moved(a)' = Moved(a)
<1>1. PICK f : f = [e \in ledger |-> e.amount]
  OBVIOUS
<1>2. PICK g : g = [e \in ledger' |-> e.amount]
  OBVIOUS
<1>3. PICK S : S = MovesOf(a)
  OBVIOUS
<1>4. IsFiniteSet(S) /\ S \subseteq ledger
  BY <1>3, FS_Subset DEF MovesOf, Traced
<1>5. \A e \in S : f[e] = g[e]
  BY <1>1, <1>2, <1>4
<1>6. SumFunctionOnSet(f, S) = SumFunctionOnSet(g, S)
  BY <1>4, <1>5, SumOfEqual
<1>7. Moved(a) = SumFunctionOnSet(f, S)
  BY <1>1, <1>3 DEF Moved
<1>8. Moved(a)' = SumFunctionOnSet(g, S)
  <2>1. S = MovesOf(a)'
    BY <1>3
  <2> QED BY <1>2, <2>1 DEF Moved
<1> QED BY <1>6, <1>7, <1>8

(* One more committed move adds its amount.                                *)
LEMMA MovedBy ==
  ASSUME Inv, TreasuryAssumption, Traced, UNCHANGED ledger, NEW a,
         NEW e \in ledger, e \notin MovesOf(a), MovesOf(a)' = MovesOf(a) \cup {e}
  PROVE  Moved(a) \in Int /\ Moved(a)' = Moved(a) + e.amount
<1>1. PICK f : f = [x \in ledger |-> x.amount]
  OBVIOUS
<1>2. PICK S : S = MovesOf(a)
  OBVIOUS
<1>3. IsFiniteSet(S) /\ S \subseteq ledger /\ e \notin S
  BY <1>2, FS_Subset DEF MovesOf, Traced
<1>4. \A x \in S \cup {e} : f[x] \in Int
  BY <1>1, <1>3, EntryShape
<1>5. SumFunctionOnSet(f, S \cup {e}) = SumFunctionOnSet(f, S) + f[e]
  BY <1>3, <1>4, SumAdd
<1>6. Moved(a) = SumFunctionOnSet(f, S) /\ SumFunctionOnSet(f, S) \in Int
  BY <1>1, <1>2, <1>3, <1>4, SumType DEF Moved
<1>7. Moved(a)' = SumFunctionOnSet(f, S \cup {e})
  <2>1. S \cup {e} = MovesOf(a)'
    BY <1>2
  <2>2. f = [x \in ledger' |-> x.amount]
    BY <1>1
  <2> QED BY <2>1, <2>2 DEF Moved
<1> QED BY <1>1, <1>5, <1>6, <1>7

LEMMA MovedInt ==
  ASSUME Inv, TreasuryAssumption, Traced, NEW a
  PROVE  Moved(a) \in Int
<1>1. PICK f : f = [x \in ledger |-> x.amount]
  OBVIOUS
<1>2. PICK S : S = MovesOf(a)
  OBVIOUS
<1>3. IsFiniteSet(S) /\ S \subseteq ledger
  BY <1>2, FS_Subset DEF MovesOf, Traced
<1>4. \A x \in S : f[x] \in Int
  BY <1>1, <1>3, EntryShape
<1>5. SumFunctionOnSet(f, S) \in Int
  BY <1>3, <1>4, SumType
<1> QED BY <1>1, <1>2, <1>5 DEF Moved

(* The balances after the effect of a request, but for a correction.       *)
Gain(d, a) ==
  IF d.kind \in {"deposit", "payment"} /\ a = d.account THEN d.amount
  ELSE IF d.kind = "transfer" /\ a = d.from THEN -d.amount
  ELSE IF d.kind = "transfer" /\ a = d.to THEN d.amount
  ELSE 0

LEMMA EffectGain ==
  ASSUME Inv, TreasuryAssumption, NEW d \in Inputs, NEW G, Effect(d, G), d.kind # "edit",
         \A x \in Rows : rows'[x] = G[x], NEW a \in Accounts
  PROVE  /\ rows[a].current_balance \in Int /\ Gain(d, a) \in Int
         /\ rows'[a].current_balance = rows[a].current_balance + Gain(d, a)
<1>1. PICK row : row = rows[a]
  OBVIOUS
<1>2. row \in Account /\ a \in Rows /\ a \notin Invoices /\ rows'[a] = G[a]
  BY <1>1, SoundRows
<1>3. d \in Dto
  BY DEF TreasuryAssumption
<1>4. CASE Adding(d, G)
  <2>1. d.kind = "deposit" /\ d.amount \in Nat
    BY <1>3, <1>4 DEF Adding, Dto, Deposits, Transfers, ClientPayments, AccountEdits, Toggles,
                      Transitions, InvoiceEdits
  <2>2. G[a] = IF a = d.account
               THEN [row EXCEPT !.current_balance = row.current_balance + d.amount] ELSE row
    BY <1>1, <1>2, <1>4 DEF Adding
  <2> QED BY <1>1, <1>2, <2>1, <2>2 DEF Account, Gain
<1>5. CASE Moving(d, G)
  <2>1. d.kind = "transfer" /\ d.amount \in Nat
    BY <1>3, <1>5 DEF Moving, Dto, Deposits, Transfers, ClientPayments, AccountEdits, Toggles,
                      Transitions, InvoiceEdits
  <2>2. G[a] = IF a = d.from THEN [row EXCEPT !.current_balance = row.current_balance - d.amount]
               ELSE IF a = d.to THEN [row EXCEPT !.current_balance = row.current_balance + d.amount]
               ELSE row
    BY <1>1, <1>2, <1>5 DEF Moving
  <2> QED BY <1>1, <1>2, <2>1, <2>2 DEF Account, Gain
<1>6. CASE Receiving(d, G)
  <2>1. d.kind = "payment" /\ d.amount \in Nat /\ d.invoice \in Invoices
    BY <1>3, <1>6 DEF Receiving, Dto, Deposits, Transfers, ClientPayments, AccountEdits, Toggles,
                      Transitions, InvoiceEdits
  <2>2. G[a] = IF a = d.account
               THEN [row EXCEPT !.current_balance = row.current_balance + d.amount] ELSE row
    BY <1>1, <1>2, <1>6, <2>1 DEF Receiving
  <2> QED BY <1>1, <1>2, <2>1, <2>2 DEF Account, Gain
<1>7. CASE Toggling(d, G)
  <2>1. d.kind = "toggle"
    BY <1>7 DEF Toggling
  <2>2. PICK flipped : flipped = ~row.is_active
    OBVIOUS
  <2>3. G[a] = IF a = d.account THEN [row EXCEPT !.is_active = flipped] ELSE row
    BY <1>1, <1>2, <1>7, <2>2 DEF Toggling
  <2> QED BY <1>1, <1>2, <2>1, <2>3 DEF Account, Gain
<1>8. CASE Advancing(d, G) \/ Redrafting(d, G)
  <2>1. d.kind \in {"transition", "invoiceEdit"} /\ d.invoice \in Invoices
    BY <1>3, <1>8 DEF Advancing, Redrafting, Dto, Deposits, Transfers, ClientPayments,
                      AccountEdits, Toggles, Transitions, InvoiceEdits
  <2>2. G[a] = row
    BY <1>1, <1>2, <1>8, <2>1 DEF Advancing, Redrafting
  <2> QED BY <1>1, <1>2, <2>1, <2>2 DEF Account, Gain
<1>9. ~Correcting(d, G)
  BY DEF Correcting
<1> QED BY <1>4, <1>5, <1>6, <1>7, <1>8, <1>9 DEF Effect

(* A COMMIT makes the rows of its request count, and no others.            *)
LEMMA OwnMoves ==
  ASSUME Inv, Traced, NEW r \in Requests, Finish(r), NEW a
  PROVE  /\ UNCHANGED ledger /\ pc[r] = "saving"
         /\ MovesOf(a)' = MovesOf(a) \cup {e \in ledger : e.by = r /\ e.account = a}
         /\ \A e \in MovesOf(a) : e.by # r
         /\ \A n \in 1 .. Len(Entries(r)) : Entries(r)[n] \in ledger
         /\ \A e \in ledger : e.by = r => \E n \in 1 .. Len(Entries(r)) : e = Entries(r)[n]
<1>1. pc[r] = "saving" /\ UNCHANGED ledger /\ AllRecorded(r)
  BY DEF Finish, AllSaved
<1>2. pc' = [pc EXCEPT ![r] = "done"]
  BY DEF Finish, Commit, End
<1>3. \A e \in ledger : e.by \in Requests /\ (pc'[e.by] = "done" <=> e.by = r \/ pc[e.by] = "done")
  BY <1>2 DEF Traced, Inv, Shape
<1>4. MovesOf(a)' = MovesOf(a) \cup {e \in ledger : e.by = r /\ e.account = a}
  BY <1>1, <1>3 DEF MovesOf
<1>5. \A e \in MovesOf(a) : e.by # r
  BY <1>1 DEF MovesOf
<1>6. \A e \in ledger : e.by = r => \E n \in 1 .. Len(Entries(r)) : e = Entries(r)[n]
  BY DEF Traced
<1> QED BY <1>1, <1>4, <1>5, <1>6 DEF AllRecorded

LEMMA MovedGain ==
  ASSUME Inv, TreasuryAssumption, Traced, NEW r \in Requests, Finish(r), NEW a \in Accounts
  PROVE  Moved(a) \in Int /\ Moved(a)' = Moved(a) + Gain(dto[r], a)
<1>1. PICK d : d = dto[r]
  OBVIOUS
<1>2. PICK own : own = {e \in ledger : e.by = r /\ e.account = a}
  OBVIOUS
<1>3. /\ UNCHANGED ledger /\ pc[r] = "saving" /\ MovesOf(a)' = MovesOf(a) \cup own
      /\ \A e \in MovesOf(a) : e.by # r
  BY <1>2, OwnMoves
<1>4. /\ \A n \in 1 .. Len(Entries(r)) : Entries(r)[n] \in ledger
      /\ \A e \in ledger : e.by = r => \E n \in 1 .. Len(Entries(r)) : e = Entries(r)[n]
  BY OwnMoves
<1>5. d \in Dto
  BY <1>1, <1>3 DEF Inv, Memory, TreasuryAssumption
<1>6. Moved(a) \in Int
  BY MovedInt
<1>7. ASSUME own = {}, Gain(d, a) = 0 PROVE Moved(a)' = Moved(a) + Gain(d, a)
  <2>1. Moved(a)' = Moved(a)
    BY <1>3, <1>7, MovedKept
  <2> QED BY <1>6, <1>7, <2>1
<1>8. ASSUME NEW e \in ledger, own = {e}, e.amount = Gain(d, a)
      PROVE  Moved(a)' = Moved(a) + Gain(d, a)
  <2>1. e \notin MovesOf(a)
    BY <1>2, <1>3, <1>8
  <2> QED BY <1>3, <1>8, <2>1, MovedBy
<1>9. CASE d.kind \in {"deposit", "payment"}
  <2>1. PICK e : e = Entry(r, d.account, d.amount)
    OBVIOUS
  <2>2. Entries(r) = <<e>>
    BY <1>1, <1>9, <2>1 DEF Entries
  <2>3. e \in ledger /\ \A x \in ledger : x.by = r => x = e
    BY <1>4, <2>2
  <2>4. e.by = r /\ e.account = d.account /\ e.amount = d.amount
    BY <2>1 DEF Entry
  <2>5. own = IF a = d.account THEN {e} ELSE {}
    BY <1>2, <2>3, <2>4
  <2> QED BY <1>1, <1>6, <1>7, <1>8, <1>9, <2>3, <2>4, <2>5 DEF Gain
<1>10. CASE d.kind = "transfer"
  <2>1. PICK e : e = Entry(r, d.from, -d.amount)
    OBVIOUS
  <2>2. PICK f : f = Entry(r, d.to, d.amount)
    OBVIOUS
  <2>3. Entries(r) = <<e, f>>
    BY <1>1, <1>10, <2>1, <2>2 DEF Entries
  <2>4. e \in ledger /\ f \in ledger /\ \A x \in ledger : x.by = r => x \in {e, f}
    BY <1>4, <2>3
  <2>5. /\ e.by = r /\ e.account = d.from /\ e.amount = -d.amount
        /\ f.by = r /\ f.account = d.to /\ f.amount = d.amount
    BY <2>1, <2>2 DEF Entry
  <2>6. d.from # d.to
    BY <1>5, <1>10 DEF Dto, Deposits, Transfers, ClientPayments, AccountEdits, Toggles,
                       Transitions, InvoiceEdits
  <2>7. own = IF a = d.from THEN {e} ELSE IF a = d.to THEN {f} ELSE {}
    BY <1>2, <2>4, <2>5, <2>6
  <2> QED BY <1>1, <1>6, <1>7, <1>8, <1>10, <2>4, <2>5, <2>6, <2>7 DEF Gain
<1>11. CASE d.kind \notin {"deposit", "payment", "transfer"}
  <2>1. Entries(r) = << >>
    BY <1>1, <1>11 DEF Entries
  <2>2. own = {}
    BY <1>2, <1>4, <2>1
  <2> QED BY <1>1, <1>6, <1>7, <1>11, <2>2 DEF Gain
<1> QED BY <1>9, <1>10, <1>11

(* A step that is no COMMIT moves no balance and makes no row count.       *)
LEMMA RestMoves ==
  ASSUME Inv, TreasuryAssumption, Traced, Serial, [Next]_vars, MaxInFlight = 1,
         \A r \in Requests : ~Finish(r), NEW a \in Accounts
  PROVE  /\ rows'[a].current_balance = rows[a].current_balance
         /\ Moved(a)' = Moved(a)
<1>1. rows'[a].current_balance = rows[a].current_balance
  <2>1. CASE UNCHANGED vars
    BY <2>1 DEF vars, sessionVars
  <2>2. ASSUME NEW r \in Requests, EditAccount(r)
        PROVE  rows'[a].current_balance = rows[a].current_balance
    <3>1. rows[a] \in Account
      BY SoundRows
    <3>2. rows'[a] = IF dto[r].is_default THEN [rows[a] EXCEPT !.is_default = FALSE] ELSE rows[a]
      BY <2>2, SerialEdit
    <3> QED BY <3>1, <3>2 DEF Account
  <2>3. ASSUME NEW r \in Requests, Arrive(r) \/ Abort(r) \/ (Handle(r) /\ ~EditAccount(r))
        PROVE  UNCHANGED rows
    BY <2>3, Zenon DEF Arrive, Open, Abort, Rollback, Handle, Fetch, Read, Deposit, Transfer,
      ClientPayment, ToggleActive, TransitionInvoice, EditInvoice, Decide, Proceed, Write, Reload,
      Update, FraudClear, FraudBlock, RecordTransaction, DeadlockVictim
  <2> QED BY <2>1, <2>2, <2>3 DEF Next
<1>2. ledger \subseteq ledger'
  BY LedgerGrows DEF RecordTransaction
<1>3. \A e \in ledger : (pc'[e.by] = "done") = (pc[e.by] = "done")
  BY BodyKept DEF Traced
<1>4. \A e \in ledger' \ ledger : pc'[e.by] # "done"
  <2>1. CASE UNCHANGED ledger
    BY <2>1
  <2>2. ASSUME NEW r \in Requests, RecordTransaction(r)
        PROVE  \A e \in ledger' \ ledger : pc'[e.by] # "done"
    <3>1. PICK n \in 1 .. Len(Entries(r)) : ledger' = ledger \cup {Entries(r)[n]}
      BY <2>2 DEF RecordTransaction
    <3>2. Entries(r)[n].by = r
      BY DEF Entries, Entry
    <3>3. pc'[r] = "saving"
      BY <2>2 DEF RecordTransaction, Inv, Shape
    <3> QED BY <3>1, <3>2, <3>3
  <2> QED BY <2>1, <2>2, LedgerGrows
<1>5. MovesOf(a)' = MovesOf(a)
  BY <1>2, <1>3, <1>4 DEF MovesOf
<1> QED BY <1>1, <1>2, <1>5, MovedKept

(* Served one by one, a balance changes by the ledger rows of the request  *)
(* that commits, unless that request corrects it by hand.                  *)
THEOREM LedgerExplains == ASSUME MaxInFlight = 1 PROVE Spec => LedgerExplainsBalance
<1> DEFINE Explained == \A a \in Accounts :
             \/ \E r \in InFlight : Corrects(r)
             \/ rows'[a].current_balance - rows[a].current_balance = Moved(a)' - Moved(a)
<1>1. Init => Traced
  BY FS_EmptySet DEF Init, Traced
<1>2. Inv /\ Traced /\ [Next]_vars => Traced'
  BY TracedNext
<1>3. ASSUME Inv, Traced, Serial, [Next]_vars PROVE Explained
  <2>1. CASE \A r \in Requests : ~Finish(r)
    <3> SUFFICES ASSUME NEW a \in Accounts
                 PROVE  rows'[a].current_balance - rows[a].current_balance = Moved(a)' - Moved(a)
      OBVIOUS
    <3>1. rows[a].current_balance \in Int /\ Moved(a) \in Int
      BY <1>3, SoundRows, MovedInt, TreasuryAssumption DEF Account
    <3>2. rows'[a].current_balance = rows[a].current_balance /\ Moved(a)' = Moved(a)
      BY <1>3, <2>1, RestMoves, TreasuryAssumption
    <3> QED BY <3>1, <3>2
  <2>2. ASSUME NEW r \in Requests, Finish(r), dto[r].kind = "edit" PROVE Explained
    <3>1. r \in InFlight /\ pc'[r] = "done"
      BY <1>3, <2>2 DEF Finish, Commit, AllSaved, End, InFlight, Inv, Shape
    <3> QED BY <2>2, <3>1 DEF Corrects
  <2>3. ASSUME NEW r \in Requests, Finish(r), dto[r].kind # "edit" PROVE Explained
    <3> SUFFICES ASSUME NEW a \in Accounts
                 PROVE  rows'[a].current_balance - rows[a].current_balance = Moved(a)' - Moved(a)
      OBVIOUS
    <3>1. PICK G : Effect(dto[r], G) /\ \A x \in Rows : rows'[x] = G[x]
      BY <1>3, <2>3, FinishReaches, TreasuryAssumption
    <3>2. PICK d : d = dto[r]
      OBVIOUS
    <3>3. d \in Inputs /\ Effect(d, G) /\ d.kind # "edit"
      BY <1>3, <2>3, <3>1, <3>2, FinishReaches, TreasuryAssumption
    <3>4. /\ rows[a].current_balance \in Int /\ Gain(d, a) \in Int
          /\ rows'[a].current_balance = rows[a].current_balance + Gain(d, a)
      BY <1>3, <3>1, <3>3, EffectGain, TreasuryAssumption
    <3>5. Moved(a) \in Int /\ Moved(a)' = Moved(a) + Gain(d, a)
      BY <1>3, <2>3, <3>2, MovedGain, TreasuryAssumption
    <3> QED BY <3>4, <3>5
  <2> QED BY <2>1, <2>2, <2>3
<1>4. Inv /\ Traced /\ Serial /\ [Next]_vars => [Explained]_vars
  BY <1>3
<1> QED BY <1>1, <1>2, <1>4, Invariance, ServedOneByOne, PTL DEF Spec, LedgerExplainsBalance
=============================================================================
