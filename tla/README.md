# A TLA+ model of the BizManage back end

The repository is the back end of an ERP for small businesses: a NestJS
application over PostgreSQL (through TypeORM) that keeps the treasury, the
purchases, the sales, the stock, the members and the tasks of many businesses in
one database. It has almost no state of its own in memory. What makes it hard
is the database: every service reads rows, decides in JavaScript and saves them
back, at PostgreSQL's default isolation, with no lock on what it read and no
condition on what it writes. The modules here model that, service by service;
TLC checks small instances; TLAPS proves, for all sizes, what their safety
properties promise.

`PROJECT.json` maps every definition to the lines it models, and lists the runs, the
mutants that show what each property can catch, the hazards and the theorems.
Paths below are relative to `src/src/`.

## 1. Inventory

How the parts interact: an HTTP controller calls one service method per request;
services call each other directly and share the tables; four nightly jobs and two
WebSocket gateways are the only other actors; suppliers, clients, members and
Stripe act through public links and a webhook. There is no queue and no event
bus. Mail is sent inside the request, mostly after the commit. Several
replicas may run (`k8s/`), so nothing in memory serialises requests.

| Component | State it keeps | Operations that change it | What is hard | What makes it correct | Module |
|---|---|---|---|---|---|
| Treasury (`payments/`) | `accounts` (balance, active, default), `payments`, `transactions` (the ledger), invoice columns `paid_amount`, `status` | deposit, transfer, client payment, account edit and activation | balances are read, computed in memory and set; ledger rows go through a second connection, before the commit; a fraud check can refuse one | no overdraft; an invoice is not paid beyond its total nor beyond what was received; served one by one, balances are what the ledger says | `Treasury`, `IdealTreasury`, `TreasuryRefinement`, `TreasuryProofs`, `Sums` |
| Supplier payments, schedules, matching (`payments/`, `Purchases/`) | `supplier_payments`, `payment_schedules`, installments, `purchase_invoices` | pay, propose/accept/reject a schedule, pay an installment, review, edit, settle, mark overdue, match one or all, resolve a dispute | two ways to pay one invoice; a unique number that serialises by accident; lists read before comparisons; locks taken in two orders | paid at once within the net amount, installments paid once and of an active schedule, PAID means paid and is final, nobody waits forever | `Payables`, `PayablesProofs` |
| Salaries (`payments/services/salary.service.ts`) | `salary_proposals`, accounts, ledger | send, answer, pay | checks before the transaction, mail after it | the ledger explains balance and PAID; one by one, paid once and covered | `Salaries`, `SalariesProofs` |
| Purchase orders and receipts (`Purchases/`) | `supplier_pos` with lines, `goods_receipts` with lines, stock movements | send, confirm, refuse, cancel, edit, receive | saving an order cascades to lines it read earlier; stock moves after the commit, one product at a time; the supplier answers by a link | quantities and status are those the receipts justify, the stock moves for them only, the table of transitions is obeyed | `Procurement`, `ProcurementProofs` |
| Document numbers (all of the above and `sales/`) | number columns and their indexes | create, delete | MAX + 1, last + 1 and COUNT + 1, under no index, one per business, or one for all | distinct, no gap, nobody refused for nothing | `Numbering`, `NumberingProofs` |
| Database and pool | committed rows, uncommitted updates, row locks, connections | read, save, explicit UPDATE, commit, rollback, deadlock detection | partial-column updates; pool of 10 that waits forever | - | `Sessions` (external), in less detail `Jobs` |
| Stock (`stock/`) | `products` (quantity, reserved, archived), `stock_movements` | move, remove, restore, edit, archive, relabel, reserve | two commits per movement; a product is always saved whole | the quantity is the opening one plus the live movements | `Stock`, `ClientSideProofs` |
| Quotes, sales orders, delivery notes, portals (`sales/`) | `quotes`, `sales_orders`, `delivery_notes`, links, draft invoices | every transition, edit, conversion and deletion, answers by link | links spent outside the transaction; stock taken at several places; conversion tested before its transaction | one invoice per order, one answer per order, what is delivered has left the stock, an accepted quote names its order | `Sales`, `ClientSideProofs` |
| Client invoices | `invoices` | create, edit, transition, delete, overdue job | as Treasury | as Treasury | `Treasury`, `Numbering`, `Sales` |
| Recurring invoices | `recurring_invoices` | create (office or link), edit, pause, activate, test, validate, nightly generation | a list read once and saved entry by entry, entries that fail | counters count what was generated; a night leaves nothing due | `Recurring`, `ClientSideProofs` |
| Tenants and platform subscriptions (`platform-admin/`, `tenants/`) | tenant, approval, subscription, plans, payments, Stripe intents, suspension flags in five tables, exports, tickets | register, review, pay by card or transfer, suspend, reactivate, export, delete, morning jobs, tickets | webhook and browser race; suspension in five commits; two ways to suspend and to lift; a deletion that stops half way | active only if paid for; let in again as it was where every lock is lifted by its counterpart; one export per deletion; trials end as EXPIRED | `Platform`, `OfficeProofs` |
| Members and invitations (`businesses/`) and the guards of every controller | `users.role`, `business_members` (role, active, six permission tables), `business_invitations`, `tax_rates` | invite, accept (which makes an account), reject, cancel, expire; add, remove, change role and permissions, seed; found and delete a business; tax rates | the role is kept twice, in two commits; an answer and its membership are two commits; about twenty guards read them differently | what the membership grants is served unless something locks its user out; an invitation gives one membership iff accepted; one default rate, of those updated under their own business | `Permissions`, `Routes`, `Members`, `OfficeProofs` |
| Registration and sessions (`auth/`, `users/`) | `users`, refresh and reset tokens, the status of the tenant's subscription as the guards read it | register, Google sign-in, login, refresh, logout, mailed links, suspend, edit; a tenant's locking out and letting in, trial and payment | test then revoke then insert; a user is saved whole by seven handlers | a session whose token a logout was sent stays out, a suspension stands until it is lifted | `Accounts`, `OfficeProofs` |
| Tasks, subtasks, activities | `tasks.order`, `subtasks`, `activities` | create, edit, move, remove, complete | shifts computed from a position read earlier | places of a column are distinct | `Workspace`, `OfficeProofs` |
| Messages, check-ins, presence (`collaboration/`, gateways) | threads with a counter, daily check-ins, maps in memory | post, reply, check in, connect, disconnect, restart | a counter in a statement of its own; presence keyed by user, several sockets per user | no counter is below the replies there are; whoever is shown online is connected there | `Workspace`, `OfficeProofs` |
| Suppliers, clients and their onboarding | rows, onboarding tokens | create by link, archive, restore | check then insert | one row per onboarding | not modelled |
| Platform administrators (`platform-auth/`) | `platform_admins`, tokens | login, second factor | as sessions | as sessions | not modelled |
| Mail, OCR, assistants, forecasts, dashboards, statistics | - | reads, calls to other services | pure I/O | - | not modelled |
| Migrations, scripts | - | run by hand | - | - | not modelled |

## 2. Plan

Done, in this order: `Sessions`; `Treasury` with its abstract specification and
its proofs; `Payables`; `Procurement`; `Numbering` with its proofs; `Salaries`; then
`Jobs`, `Stock`, `Sales` and `Recurring`, composed in `ClientSide`; `Platform`;
`Permissions`, `Routes`, `Members`, `Accounts` and `Workspace`, composed in `Office`;
three-way matching in `Payables`; the lemmas about sums; then the proofs: every safety and
action property of the modules on `Sessions` and of `Numbering`, the refinement included, and
the invariants of the modules on `Jobs` (`ClientSideProofs`, `OfficeProofs`).

What is left, the most useful first:

1. Onboarding of suppliers and clients by link; replacing the lines of a draft order;
   sessions of platform administrators.
2. Overlapping handlers in `ClientSide` and `Platform`, with the promises that survive them.
3. `GrantedIsServed` proved for teams that people are added to by hand, with the condition under
   which the two roles of a member agree again.

## 3. The modules

Two views of the database serve the modules, chosen by where a component's hazards lie.

**Sessions** is the database and TypeORM as the code uses them, statement by statement,
for the services that move money and goods. A request goes `idle -> reading -> saving <->
updating -> ... -> done | failed`. `Read` brings rows into memory (`view`): two reads of one
request may see different commits. The checks of a service run on `view` and either
fail (`Rollback`) or plan saves (`todo`). A TypeORM `save` is two statements: `Reload`
reads the row again and finds which columns differ from the entity in memory,
`Update` waits for the row locks and writes those columns only; a decimal is read as a
string and assigned as a number, so it always counts as different. `pending` holds
what the transaction wrote and has not committed, `Commit` publishes it, `conns`
is the pool. `SetColumns` is an UPDATE written out by a service. `Abort` in the
modules above it is a failed statement, a lost connection or the end of the process,
at any point. One save of several rows locks them together, which hides a
deadlock inside a single save; locks between saves are modelled one by one.

**Jobs** is a lighter view, for services whose hazards lie between commits. A handler
is a `job` of a worker: the operation, its input and the rows it has read. `AtOnce` is a
handler of one statement; `Begin`, `Continue`, `Finish` are the pieces between two awaits;
`Fail` is an exception or a killed process between them (in the mixes that contain
"fail"). A save writes the whole entity back. `marred` remembers whether handlers have
overlapped or one has failed: `Settled` promises hold only while nothing of the kind has
happened, `Apart` ones in spite of failures, and the others always. A `mix`, chosen at
the start of a behaviour, is the set of operations asked for together; it keeps an
instance small without fixing any order.

**Treasury** has one action per operation of the treasury services
(`Deposit`, `Transfer`, `ClientPayment`, `EditAccount`, `ToggleActive`,
`TransitionInvoice`, `EditInvoice`) that decides and plans the saves the method makes,
in its order; `RecordTransaction` is `TransactionsService.create` on its own connection, with
`FraudClear` and `FraudBlock` for the screening (the score is left open: either answer);
`Finish` commits. **IdealTreasury** is what the treasury promises: each operation one
atomic step over balances, flags, totals and statuses. **TreasuryRefinement** maps the
committed rows to it (`Balances`, `Totals`, `Paid`, `Statuses`, the sets of active and default
accounts), and states that the ledger explains every balance: `Moved(a)` adds up
`MovesOf(a)`, the ledger rows of requests that are done. The columns of money are
`numeric(15,3)` and `Limit` stands for what they hold: no total, nor edited total, reaches it.

**Payables** is the supplier side: `PaySupplier`, `CreateSchedule`, `Answer`,
`PayInstallment`, `Review`, `EditBill`, `Settle`, `MarkOverdue`, `Resolve`, and matching:
`BeginMatching` reads what is to be matched, `ApplyAutoAction` approves or disputes one
invoice after the other by id, `EndMatching` ends the request. The row of
`supplier_payments` is inserted under a unique number (`InsertPayment`), which waits for
a clashing insert in flight and is refused when that one commits. Amounts are in
thousandths, so the tolerance of 0.005 is 5. Schedules have two installments. What survives
overlaps depends on what is asked beside a payment, and the properties name it:
`NetChanged` (an edit or a resolution of the invoice), `Revised` (anything by hand),
`LeftAlone` (nothing settled by hand nor matched on its own).

**Procurement** models one order with two lines: `Transition` (send, confirm), `CheckCancel`
(with the mail between test and save), `Edit`, `PortalReply` (confirm and refuse by link),
`BeginReceipt`, `InsertReceipt`, `AddLine`, `UpdateStatusAfterReceipt`, `CommitReceipt`,
`MoveStock` after the commit, `Finish`. The image of an order's save contains its lines,
because the relation cascades. `Booked` adds up the committed receipts of a line;
`ReceivedApart` (receipts overlap receipts only) and `NamedOnce` (no receipt names a line
twice) delimit what is promised.

**Salaries** has `SendProposal`, `Respond`, `BeginPayment`, `Decrement`, `MarkPaid`,
`CommitPayment`; the payment decrements the balance in the database. `Mail` ends a
request either way. Inputs leave out a counter-offer's amount and currency. `AnsweredApart`
says that answers do not overlap payments.

In these three a behaviour chooses its `load` at the start: the inputs that may arrive,
how many in all, how many at once, and the standing data. So one run checks both what
holds however requests overlap and what holds one by one.

**Numbering** stands apart: a creation computes a number from what is
committed, inserts it, waits for or is refused by the index, commits or aborts. A
behaviour is about one series, chosen at the start: its generator (`max`, `last`,
`count`), its index (`business`, `global`, `none`), whether its documents can be deleted,
and how many creations overlap. `MCNumbering` lists the series of the back end.

**Stock** keeps products and movements. `StartMovement`, `SaveMovement`, `SaveQuantity` are a
manual movement, `StartRemoval`, `ReturnQuantity`, `MarkRemoved` its removal,
`RestoreMovement` its restoration, `StartEdit` and `SaveEdit` every handler that loads a
product and saves it whole. `offBook` records the changes the code lets happen without a
movement (recounts, restorations). **Sales** extends it: `FindOrder`, `FindNote` and
`FindQuote` load a row and test it, then one action per handler writes what its
transaction writes, `MoveStock` being the movements and quantities that go with it. Links
are opened, spent and answered in actions of their own, as the portals commit them.
**Recurring** has the subscriptions; `StartNight` reads the list, `NightEntry` and `NightFailure`
treat one entry, `EndNight` ends it. **ClientSide** composes the three and adds the link of
an order by which a client subscribes.

**Platform** gives each handler the list of its commits (`todo` of its job): a registration
(`RegisterTenant`, `AskApproval`, `FirstSubscription`), a card payment (`CreateIntent`, `Charge`
outside, `ConfirmPayment` and `Webhook` in either order and the webhook repeatedly,
`CardPayment`), a transfer (`SubmitPayment`, `Judge`, `SaveVerdict`), `LockOut` and `LetIn` over the
tables each of the two ways writes, `Export`, the steps of a deletion, each of which a
foreign key may refuse (`Refused`), and the 6 h and 9 h jobs (`NextTick` moves the clock
from one of the two hours to the next and leaves its job on duty).

**Permissions** has the roles and default permission tables, **Routes** the demand of every
HTTP handler (session, roles of `@Roles`, key of its permission guard, membership in the
path, plan), one definition per controller. **Members** adds the tables and the guards as
predicates (`RolesAdmit`, `BusinessAccess`, `Permits`; `Serves` is all of them in order) and the
handlers of members, invitations, businesses and tax rates. **Accounts** extends it with
registration, Google, sessions, mailed links and the edits of a user, and with what stops a
request from outside: `tenants` holds the status of each owner's subscription, `LockTenant` is
the four handlers of an administrator that suspend and let in a tenant or its subscription
(`SubscriptionSaved`, `MembersLocked`, `UsersLocked` are their statements, as far as these tables
go; cancelling and reactivating a subscription write the same), `ExpireFreeTrial` and
`PaySubscription` the end of a trial and a payment, whose details, with the approval, are in
`Platform`. `Logout` either revokes the token it is sent or, sent none, revokes nothing.
**Workspace** extends it with
the board (`CreateTask`, `UpdateTask`, `MoveTask`, `RemoveTask`; `Across` and `Within` are the two
shifts of a move), subtasks, threads, check-ins and presence; the identity of a message that a
reply still on its way refers to is not given to another (`Unheld`), as a generated UUID never
is. In the mixes that contain "astray" a client names what does not belong together: a reply
another task than its parent's, or a tax rate under another business than its own. `Swept` is
what the foreign keys delete with a task. **Office** composes them.

## 4. Runs

Requests are model values in the modules on `Sessions`; a run gives each at most one
operation, so their number bounds the length of a behaviour. In the modules on `Jobs` the
number of rows that can be inserted and of days bounds it. `CHECK_DEADLOCK` is off because
requests and days run out and then nothing remains to do. `Limit`, `MaxNumber` and the
amounts bound the data; amounts are chosen so that one operation is covered and two are not.

Services that test a row and save it later promise some things however requests
overlap, and others only to a caller who is alone. Runs distinguish the two by their bounds
or by the `load` of a behaviour.

| Run | Bounds | Shows |
|---|---|---|
| `treasury_overlapping` | 3 at once, 2 accounts, 1 invoice | no balance below zero although updates are lost; `paid_amount` stays within the total and within what was received |
| `treasury_serial` | 3, one by one, all inputs | the services implement `IdealTreasury`; a balance changes by the ledger rows of the request that commits; no invoice collects more than its total |
| `treasury_served` | 2 at once, pool of 3, fairness | every request ends: PostgreSQL breaks the deadlock of opposite transfers. With a pool of 2 it fails: two payments hold both connections and wait for a third |
| `payables` | 3 at once paying at once, reviewing and matching one invoice; 3 at once on the two installments of an active schedule; any 3 of 20 inputs one by one on 2 invoices and 2 schedules; any 4 payments, reviews, matchings and corrections by hand one by one | paid at once within the net amount (the unique number lets one of two overlapping payments through); PAID means paid but for a revision by hand; paid installments have their payment; no two requests wait for each other; one by one, PAID is final, an installment is paid once, of an active schedule, and an invoice has one schedule |
| `payables_overpaid` | 3, one by one | violated: installments and a direct payment beyond the net amount (section 6) |
| `procurement` | 3 receipts at once on 2 lines; any 4 of 10 operations on a draft, one by one; receipts that name a line twice, and receipts beside other saves, 2 at once | received quantities and status are those the receipts explain; stock moves only for committed receipts; one by one, only transitions of the table |
| `numbering` | 5 creations, 2 businesses, 8 series, up to 4 at once | distinct numbers without gaps; nobody is refused who is alone |
| `salaries` | 3 payments at once of 2 proposals; any 4 operations one by one | the ledger explains the balance and which proposals are PAID; one by one, paid once and covered |
| `client_side` | handlers one after the other, failures between their commits; 10 mixes; 1 order, 1 quote, 2 notes, 2 links, 2 products (one a service), 3 movements, 2 subscriptions over 3 days | stock explained by movements, one invoice per order, one answer per order, delivered goods have left the stock, an accepted quote names the order made for it, counters count, a night leaves nothing due |
| `platform` | handlers one after the other, failures; 6 mixes; 1 tenant, 2 people, 2 plans, 3 payments, 1 intent, 1 export token, 6 ticks | active only if paid for; a tenant on whom every lock was lifted by its counterpart is open again, in whatever order (nothing is said where a counterpart is refused: after `suspendSubscription`, `suspendTenant`, `unsuspendTenant` the subscription is active and `unsuspendSubscription` wants a suspended one); trials end as EXPIRED unless they end between the jobs; one export per deletion |
| `office` | 2 at once in the mixes "together", else one by one, failures; 18 mixes; 2 people, 2 businesses, 3 tax rates, 1 invitation, 2 tokens, 2 links, 3 tasks, 2 subtasks, 3 messages of at most 2 replies each (`MaxReplies`), 2 sockets | a membership that grants a handler's demand gets past its guards unless something locks its user out, for all controllers; invitations accounted for; one default rate; a session whose token a logout was sent stays out; suspended stays suspended; one task per place; counters of replies, a task being removed with its thread beside replies; presence |
| `office_rates_astray` | one by one, 2 businesses, 3 rates | violated: a rate updated under another business becomes a second default of its own (section 6) |

Why these bounds suffice: the interference the code allows is between a read of one
request and the commit of others; two requests exhibit each pair, the third lets a
commit fall between two reads or two saves of another. In the runs that serve one handler
at a time, what interferes is an earlier failure or an earlier handler of another kind, and
the mixes put together the kinds that touch the same rows; each chain of a mix (quote,
order, note, invoice; invite, accept, change, remove; register, pay, lock, export, delete)
fits in its rows. The theorems below cover the sizes that TLC does not, for the modules they are about.

Fairness: only `treasury_served` needs it. `FairSpec` asks weak fairness of every request
that has started: Node resumes a promise whose statement has ended, PostgreSQL ends a
statement whose locks are free, and grants a lock or a connection in order of arrival.
Nothing is asked of arrivals or of aborts.

## 5. Proofs

TLAPS proves the safety properties, action properties and the refinement that the runs check,
for any requests or handlers, any rows and any inputs the named `ASSUME` of a module allows.
Two are proved for part of the behaviours: `PaidWithinTotal` where no input edits a draft
(`NoRedraft`), `GrantedIsServed` for steady teams (below). The assumptions are about
constants: identities of different tables differ, amounts and periods are natural numbers,
tables that are counted or summed are finite (`NumberingAssumption`, `StockAssumption`,
`SalesAssumption`, `RecurringAssumption`, `WorkspaceAssumption`, `PlatformAssumption`), there
is a handler and finitely many run at a time (`JobsAssumption`), someone can join at least
once (`MembersAssumption`). No mix of operations is assumed. What a promise needs of the
behaviour, "one by one" or "nothing failed", is in the property: a load with `atOnce = 1`,
`Settled`, `Apart`. Two kinds of theorem add it as a premise: `ASSUME MaxInFlight = 1` in four
of `TreasuryProofs`, and `OneByOne` (no two handlers have overlapped) in `InvoicedOnceAlways`,
`AnsweredOnceAlways` and `DeliveredAlwaysTookStock`, whose run has one worker: there
`ServedByOne` drops it.

| Module | Theorem | States |
|---|---|---|
| `TreasuryProofs` | `TypeCorrect`, `BalancesStayCovered` | `TypeOK`, `NoOverdraft` |
| | `PaymentsStayWithinTotal` (no draft is edited) | `PaidWithinTotal` |
| | `PaymentsBackInvoices` | `PaidWithinReceipts` |
| | `Refinement`, `CollectedStaysWithinTotal`, `LedgerExplains` (one by one) | `ImplementsIdeal`, `CollectedWithinTotal`, `LedgerExplainsBalance` |
| `NumberingProofs` | `NumbersStayDistinct`, `NoGapIsLeft`, `AloneIsNotRefused` | `NumbersDistinct`, `NoGaps`, `NeverRefused` |
| `SalariesProofs` | `SalariesExplained`, `SalariesPaidOnce` | `LedgerExplainsSalaries`, `PaidOnceAndCovered` |
| `ProcurementProofs` | `StockFollowsReceipts`, `OrderFollowsReceipts`, `OrderObeysTransitions` | `MovementsFollowReceipts`, `ReceiptsExplainOrder`, `TransitionsObeyed` |
| `PayablesProofs` | `NoDeadlock`, `PaymentsWithinNet` | `NeverDeadlocked`, `PaidAtOnceWithinNet` |
| | `InstallmentsInOrder`, `PaidIsPaid`, `PaidStays` | `InstallmentsFollow`, `PaidMeansPaid`, `PaidIsFinal` |
| `ClientSideProofs` | `StockAlwaysExplained`, `DeliveredAlwaysTookStock` | `StockExplained`, `DeliveredTookStock` |
| | `InvoicedOnceAlways`, `AnsweredOnceAlways`, `AcceptedQuotesOrdered` | `InvoicedOnce`, `AnsweredOnce`, `AcceptedQuoteHasOrder` |
| | `ServedByOne` (one worker) | `InvoicedOnce`, `AnsweredOnce` and `DeliveredTookStock`, of every state |
| | `CounterAlwaysExplained`, `NightLeavesNothing` | `CounterExplained`, `NothingLeftDue` |
| `OfficeProofs` | `LoggedOutAlways`, `SuspendedAlways` | `LoggedOutStaysOut`, `SuspendedStaysSuspended` |
| | `InvitationsAlwaysAccounted`, `OneDefaultRateAlways` | `InvitationsAccounted`, `OneDefaultRate` |
| | `OnePlaceAlways`, `RepliesAlwaysCounted`, `PresenceAlwaysTrue` | `OneTaskPerPlace`, `RepliesCounted`, `PresenceIsTrue` |
| | `TeamAlwaysServed` (steady teams) | `GrantedIsServed` |
| | `ActiveAlwaysPaidFor`, `AlwaysOpenedAsLocked` | `ActiveIsPaidFor`, `OpenedAsItWasLocked` |
| | `OverdueTrialsAlwaysAtDawn`, `AlwaysExportedAnew` | `OverdueTrialsEndedAtDawn`, `ExportedAnew` |

**Why the properties are not inductive.** A row says what some request computed earlier from
rows it had read, saved in pieces. Each invariant therefore says of every place an entity can
be (the rows, the memory `view` of a request, its planned saves `todo`, its uncommitted
updates `pending`) what makes the next step safe.

**Treasury, overlapping.** `Inv` says that entities are sound wherever they are. `MergeSound`:
mixing columns of two sound rows gives a sound row, so partial updates are harmless for
`NoOverdraft` and `PaidWithinTotal`. Each operation has a lemma that the saves it plans are
sound; the steps of `Sessions` then preserve `Inv` for all of them at once. `Backing`
(`PaymentsBackInvoices`) says that a paid amount is covered by the committed payments and, if
a request computed it, by the one that request will commit: payments only grow, so an old
amount stays covered, and `Claims` is kept by whoever does not touch it.

**Treasury, one by one.** `Serial` has three parts: the `Books` (the paid amount of an invoice
is what its payments sum to, within the total; balances fit their column), one request in
flight, and its `Course`: what it has read is what the rows are, and once it has decided there
are rows `G`, an `Effect` of its input on the committed rows, to which the saves still to make
and the updates made lead (`Leads`). At COMMIT the rows become `G`, which is a step of
`IdealTreasury`; every other step leaves the mapped variables alone. That an edited total
stays below `Limit` is part of `TreasuryAssumption`, because the column has the width of a
balance: without it a payment of the whole of an invoice could not be credited.
`LedgerExplains` adds `Traced` (a ledger row is an entry of the request that wrote it, and
there are finitely many): at COMMIT the sum over `MovesOf` gains exactly that request's
entries.

**Numbering.** Under an index, `Reserved` (a row that waits for its commit clashes with no
committed and no other uncommitted row); without one and one by one, `Ordered`: dates and
numbers increase together, so the newest is the highest, and the number of the creation under
way is above both, which is also why a creation that is alone is not refused. That no gap is
left rests on `Preceded`: the numbers below the one a creation holds are in the table.

**Salaries.** A decrement is written long before it commits. `Paying` says it relative to the
row as it is: the balance less the salary, right at the commit because the row is locked
(`Exclusive`). One by one (`Alone`), what was read is what there is, so the proposal is still
ACCEPTED and the balance still covers it.

**Procurement.** Nothing locks an order while goods are received, but the first statement of a
receipt takes the next number, and the unique index lets one request at a time have it:
numbers have no gap (`Numbered`), so any other number is refused, and at most one is inserted
(`Serial`). So whoever writes lines writes alone, and `Written` says what its updates amount
to: the lines added so far (`Extra`), then the status they justify (`IsGoal`).

**Payables.** The same index argument (`Base`: `Numbered`, `Serial`, `Drafted`) gives
`NoDeadlock`: a request that others wait for while it waits itself has a payment inserted
(`WaitedFor`: whoever has none to insert saves once, and the rows of a schedule in the making
are nobody else's), and only one request has. `Known` and `Written` say what a copy of a row
may claim, however old: an installment is marked only if its payment exists, a paid amount was
within the net amount. `Settling` is the part about PAID (every save of an invoice nobody
revises covers a PAID status, and writes the amount whenever it writes or keeps the status),
and `InOrder` is about one by one: the rows a request will have written (`Reaches`) are fixed
when it decides, and they explain the payments together with the one it drafted (`Explains`).

**Sums.** The library defines the sum over a set by a recursive choice of elements, and its
induction theorems cannot be instantiated. `Sums` goes another way: if two such sums disagreed
on some subset, or did not exist, there would be a least such subset (the strict subset order
on finite sets is well-founded), and removing one element contradicts that. From this follow
`SumRemove` and `SumAdd` (a row changes a sum by its own value, whichever is chosen first),
and what the proofs cite: `SumOfEqual`, `SumOfNats`, `SumOfZeros`, `SumOfOne`, `SumGrows`.

**The modules on `Jobs`, one by one.** `JobsShape` says that at most one handler is not idle
as long as none have overlapped; `Acts(w)` is what every step of a worker leaves alone. So an
invariant is about the tables and about the one handler in the middle of its statements: what
it has read is what is there, and what it has written so far is half of a promise it is about
to keep. A lemma per invariant (`SaleBy`, `StockBy`, `SubBy`, `TokensBy`, `InviteBy` and so
on) reduces a step to the worker who takes it, and then there is one step per action.

- *Stock.* `Balance`: quantity less opening, live movements and `offBook` is the `Debt` of the
  handler between its two saves. `Sums` adds the movements up; a transaction that gives
  movements back and writes new ones changes quantity and sum alike.
- *Sales.* `SalesInv` (a copy of an order, a quote, a note or a link is its row) gives
  `InvoicesNamed`, one answer per order and the orders of accepted quotes. Goods of a
  delivered order have left by movements of that order (`GoodsHaveLeft`), which a removal by
  hand does not take: it takes manual ones. `QuotesNamed`: the order a
  quote names, if it is there, names the quote, and an identity a quote names is not given again
  (`Unnamed`). All but the accepted quotes survive a failure of
  any handler.
- *Recurring.* `SubInv`: a counter lags behind what was generated only between the two saves
  of a test (`Uncounted`), and during a night every due row is on the rest of the list
  (`Nightly`).
- *Sessions and users.* `TokensInv`: a session is the row of its first token, at most one
  token of it is live, none between the statement that revokes one and the one that inserts
  its successor. `UsersInv`: what is about to be saved of a user is what was read, but for the
  columns the handler edits, and whoever is in `barred` is suspended.
- *Members.* `InviteInv`: an invitation is accepted exactly if it gave one membership or the
  handler at work still owes it (`Owed`). `RatesInv`: between the statement that unsets the
  default rate and the one that writes the new one there is none (`InPlace`: rates are updated
  under their own business).
- *Teams.* `TeamInv`: the role of a membership is the role of its user, except for the handler
  that has written one and holds the other (`RoleDue`). From this, and from the guards of every controller
  (`HandledTabled` looks at each demand in `Routes`), `GrantedIsServed` follows. `Steady` says
  of which teams: one business that people join by invitation, where nobody is added by hand,
  made an owner or founds another business; its members may change role and permissions, leave,
  and be suspended or locked out with the tenant and let in again. Outside, the two roles may
  part: `addMember` gives a membership another role than the account has, and leaves
  `users.role` alone.
- *Board.* `BoardInv` needs that the shifts of a move, `Across` and `Within`, are injective on
  every column, whatever the position read. `restatus`, which changes a column without a
  place, is left out of the property and of the invariant.
- *Threads.* `RepliesCounted` needs no "one by one": `Told` adds the replies of a message to the
  handlers that have incremented its counter and not yet inserted. The sum never exceeds the
  counter, however they interleave with removals, whatever task a reply names and
  whatever fails, and equals it where neither failures nor such replies are in the mix
  (`Kept`).
- *Platform.* `PlatformInv` has six parts, as long as nothing overlapped or failed: the types;
  what a handler holds and has left to do (`JobsTyped`); `Billed`, a subscription that is
  active without an administrator's hand is covered by a verified payment, or the handler
  about to activate it has one; `Spent`, deletions and unspent tokens are within the exports;
  `Dawn`, which trials are overdue follows from the parity of the hour and the rest of the
  morning list; `Locked`, every part of a tenant is open, or a lock that stands accounts for
  it, or the handler at work is about to open it.

**Only model-checked.** `Served`, because liveness is out of the prover's reach, with the
deadlock detection it needs. `GrantedIsServed` beyond steady teams: `Answers`, `Seeding` and
the other mixes of the run in which members are added by hand, with the role they have, show it
for two people and one invitation. The other way round, the type invariants
of `Treasury`, `Numbering` and `Platform` are proved and no run checks them; those of the
other modules on `Jobs` (`TypeOK`, `MembersTypeOK` and so on) document the variables, and the
proofs use only the parts of them they need.

## 6. Where the code departs from what it says

Two runs are violated:

- `payables_overpaid`: even one by one, a schedule made for what remains of an
  invoice, then a direct payment, then the installments add up to more than the net
  amount: `payInstallment` does not look at the invoice again, although `createSchedule`
  and `supplier-payments.service.ts` both refuse to exceed it.
- `office_rates_astray`: `updateTaxRate` unsets the defaults of the business of the path, as
  "unset any existing default" announces, and then updates the rate by its identity alone
  (`businesses.service.ts:215`): a rate of another business becomes a second default of its own,
  and the business of the path is left without one.

Promises checked one by one are broken by overlapping requests. TLC shows it when
`MaxInFlight` (treasury) or `Workers` (client side) is raised to two, or in `Payables`,
`Procurement` and `Salaries` the `atOnce` of the load `Life` is and `OneByOne` becomes TRUE; for the erased
receipt with `ReceiptsExplainOrder` and a confirmed order that is confirmed again by link, for
the receipt that names a line twice with such a receipt among the inputs, and for
the numbers with `NeverRefused` freed of its condition:

- two payments of one client invoice collect more than its total
  (`payments.service.ts:150`), and a payment that read the invoice before it was
  cancelled takes it out of CANCELLED (`payments.service.ts:182`);
- an installment is paid twice (`payment-schedule.service.ts:312`), an invoice gets two
  schedules (`:163`), an installment is paid under a rejected schedule (`:294`);
- a review, an edit or a settlement that overlaps payments puts back the paid amount it had
  read and leaves an invoice PAID with less (`purchase-invoices.service.ts:248`), hence `Revised`;
- a purchase order is confirmed after it was cancelled (`supplier-pos.service.ts:478`); a
  receipt that names a line twice exceeds the order (`goods-receipts.service.ts:212`),
  and a confirmation that overlaps a receipt erases it (`supplier-portal.service.ts:191`);
  hence `ReceivedApart` and `NamedOnce`;
- a salary is paid twice (`salary.service.ts:95`), overdraws the account (`:105`); an answer that
  overlaps a payment writes the proposal back as it was read and erases that it was paid
  (`:282`), hence `AnsweredApart`; an answer also replaces another (`:264`), which no property states;
- a creation is refused because another took its number, in spite of the comment at
  `supplier-pos.service.ts:510`; because another business did
  (`supplier-payment.entity.ts:42`, `invoice.entity.ts:34`); or because the count fell behind
  (`recurring-invoices.service.ts:276`);
- a delivered order becomes two invoices (`sales-orders.service.ts:585`) and two links of one
  order both answer it (`client-portal.service.ts:113`).

Smaller departures, met while modelling and built into the modules:

- a resolution may correct the net amount of an invoice to less than was paid of it, even
  one by one (`dispute-resolution.service.ts`), hence `NetChanged`;
- matching one invoice takes a PAID one back to APPROVED or DISPUTED; a bulk matching takes
  pending ones only, as it reads them (`three-way-matching.service.ts`);
- a restored movement does not change the quantity back (`stock-movements.service.ts:166`);
- a member's role is saved in two commits, and a failure between them leaves the two roles
  unequal: `GrantedIsServed` is a `Settled` promise;
- the default permissions of a TEAM_MEMBER contain `create_quote`, and `QuotesController` admits no
  TEAM_MEMBER to `create`; `subtasks.controller.ts:89` leaves the creation of subtasks to owners and
  administrators, and the default `create_subtask` of the other roles is true;
- the refresh token is a cookie of the path `/auth/refresh` (`auth.service.ts:399`): a browser
  does not send it to `/auth/logout`, which revokes a token only if it is sent one
  (`auth.controller.ts:80`). Then the session can be refreshed after the logout; `Logout` has
  both outcomes and `LoggedOutStaysOut` is about sessions whose token was sent;
- `unsuspendTenant` clears `users.is_suspended` of everyone who works for the tenant
  (`tenant-management.service.ts:460`), whom an administrator had suspended on his own included:
  `SuspendedStaysSuspended` counts it among what lifts a suspension;
- the task of a reply is the client's, like its parent, and nothing compares the two
  (`messages.service.ts:32`): when the reply goes with its task, its parent keeps counting it;
- the order a quote was converted to is a column without a foreign key (`quote.entity.ts:62`):
  a confirmed order can be deleted (`sales-orders.service.ts:381`), and its quote goes on naming it;
- an invitation is cancelled by its identity, whatever business the path names
  (`invitations.service.ts:221`);
- `acceptInvitation` has no caller: the route that accepts an invitation makes an account and
  refuses one that exists (`invitations.service.ts:125`), so the model has no such step;
- the legs of a transfer that is refused or aborted stay in the ledger
  (`transfers.service.ts:152`): the ledger contains more than what was committed, and no
  property states the contrary;
- `messages.controller.ts:89` announces the counter of replies plus one, after it was incremented;
- a check-in is one per user and day, and is shown per business; presence is keyed by user,
  so closing one of two tabs shows the user offline (hence the condition on "tabs");
- a user promoted to BUSINESS_OWNER without a tenant of his own fails `BusinessAccessGuard`;
- deleting a tenant may be stopped half way by foreign keys: the users go before their business
  (`tenant-management.service.ts:513`), and rows refer to them; the comment at `:540` wants the
  owner deleted after the tenant;
- `cleanupExpiredInvitations` has no caller: an invitation expires when someone looks at it. The
  model has it as an action, so that a schedule for it changes nothing here.

