----------------------------- MODULE Recurring -----------------------------
(***************************************************************************)
(* The subscriptions of clients: rows that the nightly job turns into      *)
(* draft invoices when their date has come.  The job reads the whole list  *)
(* of what is due before it starts and saves each row as it read it; the   *)
(* handlers load a row, change it in memory and save it whole.             *)
(***************************************************************************)
EXTENDS Jobs, SequencesExt

CONSTANTS
  Subscriptions,      \* bound: identities of subscriptions
  Periods,            \* the days between two invoices of a frequency
  LastDay,            \* bound: the days the behaviour lasts
  Ends,               \* the days on which a subscription may end; after LastDay, never
  MaxExtra            \* bound: test invoices, and payments, of a subscription

ASSUME RecurringAssumption ==
  /\ IsFiniteSet(Subscriptions)
  /\ Periods \subseteq Nat \ {0} /\ Ends \subseteq Nat /\ LastDay \in Nat /\ MaxExtra \in Nat

VARIABLES
  recurring,    \* the rows of recurring_invoices
  today,
  tonight,      \* the nightly job has worked through its list and nothing has happened since
  billed, tested, received   \* per subscription: nightly invoices, test invoices, payments

recurringVars == <<recurring, today, tonight, billed, tested, received>>

Days == 0 .. LastDay

RecurringInvoice ==
  [status : {"ACTIVE", "PAUSED", "INACTIVE"}, next : Nat, period : Periods, ends : Ends,
   generated : Nat]

Agreed(start, period, ends) ==
  [status |-> "ACTIVE", next |-> start, period |-> period, ends |-> ends, generated |-> 0]

(* calculateNextDate: counted from the day of the invoice; and from the    *)
(* day it was due.                                                         *)
NextDateFromDue(day, row) == row.next + row.period
NextDate(day, row) == day + row.period

(* A row once it has given an invoice; and one moved on, not counted. *)
MovedOn(row, day) == [row EXCEPT !.next = NextDate(day, row)]
OnceBilled(row, day) == [row EXCEPT !.next = NextDate(day, row), !.generated = @ + 1]

SaveRecurring(r, row) == recurring' = [recurring EXCEPT ![r] = row]

-----------------------------------------------------------------------------
(* create, and createRecurringFromOrder of the client portal. *)
Subscribe(w, op) ==
  /\ CanInsert(recurring)
  /\ \E start \in Days, period \in Periods, ends \in Ends :
       SaveRecurring(Fresh(recurring), Agreed(start, period, ends))
  /\ AtOnce(w, op)
  /\ tonight' = FALSE
  /\ UNCHANGED <<today, billed, tested, received>>

(* update, activate and resume, deactivate, pause, remove. *)
Handled(op, row, period, ends) ==
  CASE op = "updateRecurring" -> [row EXCEPT !.period = period, !.ends = ends]
    [] op = "activate" -> [row EXCEPT !.status = "ACTIVE"]
    [] op = "deactivate" -> [row EXCEPT !.status = "INACTIVE"]
    [] op = "pause" -> [row EXCEPT !.status = "PAUSED"]
    [] op = "remove" -> Absent

RecurringOps == {"updateRecurring", "activate", "deactivate", "pause", "remove"}

FindRecurring(w) ==
  /\ \E r \in Rows(recurring), op \in RecurringOps, period \in Periods, ends \in Ends :
       /\ op # "updateRecurring" => period = recurring[r].period /\ ends = recurring[r].ends
       /\ Begin(w, [op |-> op, row |-> r, image |-> Handled(op, recurring[r], period, ends)])
  /\ UNCHANGED recurringVars

HandleRecurring(w) ==
  /\ job[w].op \in RecurringOps
  /\ SaveRecurring(job[w].row, job[w].image)
  /\ tonight' = FALSE
  /\ Finish(w)
  /\ LET gone(count) == IF Doing(w, "remove") THEN [count EXCEPT ![job[w].row] = 0] ELSE count IN
     billed' = gone(billed) /\ tested' = gone(tested) /\ received' = gone(received)
  /\ UNCHANGED today

(* generateTestInvoice: the invoice is saved, then the counter. *)
StartTest(w) ==
  /\ \E r \in Rows(recurring) :
       /\ tested[r] < MaxExtra
       /\ Begin(w, [op |-> "test", row |-> r, seen |-> recurring[r], written |-> FALSE])
  /\ UNCHANGED recurringVars

SaveTestInvoice(w) ==
  /\ Doing(w, "test") /\ ~job[w].written /\ Exists(recurring, job[w].row)
  /\ tested' = [tested EXCEPT ![job[w].row] = @ + 1]
  /\ Continue(w, [job[w] EXCEPT !.written = TRUE])
  /\ UNCHANGED <<recurring, today, tonight, billed, received>>

CountTest(w) ==
  /\ Doing(w, "test") /\ job[w].written
  /\ SaveRecurring(job[w].row, [job[w].seen EXCEPT !.generated = @ + 1])
  /\ tonight' = FALSE
  /\ Finish(w)
  /\ UNCHANGED <<today, billed, tested, received>>

(* validatePayment: the account, the transaction and the subscription, in  *)
(* one transaction; whatever the status, at any date, with no invoice.     *)
StartValidation(w) ==
  /\ \E r \in Rows(recurring), day \in Days :
       /\ received[r] < MaxExtra
       /\ Begin(w, [op |-> "validate", row |-> r, seen |-> recurring[r], day |-> day])
  /\ UNCHANGED recurringVars

ValidatePayment(w) ==
  /\ Doing(w, "validate")
  /\ SaveRecurring(job[w].row, OnceBilled(job[w].seen, job[w].day))
  /\ received' = [received EXCEPT ![job[w].row] = @ + 1]
  /\ tonight' = FALSE
  /\ Finish(w)
  /\ UNCHANGED <<today, billed, tested>>

-----------------------------------------------------------------------------
(* The nightly job: once a day, over what was ACTIVE and due at its start. *)
Due(row) == row.status = "ACTIVE" /\ row.next <= today
DueRows == {r \in Rows(recurring) : Due(recurring[r])}

NewDay ==
  /\ today < LastDay
  /\ today' = today + 1
  /\ tonight' = FALSE
  /\ UNCHANGED <<jobVars, recurring, billed, tested, received>>

StartNight(w) ==
  /\ Begin(w, [op |-> "night", list |-> SetToSeq(DueRows), copies |-> recurring, day |-> today])
  /\ UNCHANGED recurringVars

(* An entry whose end has passed becomes INACTIVE; any other is invoiced   *)
(* and moved on, as the job read it.                                       *)
Over(row, day) == row.ends < day
NightEntry(w) ==
  /\ Doing(w, "night") /\ job[w].list # << >>
  /\ LET r == Head(job[w].list)  row == job[w].copies[r]  day == job[w].day IN
     IF Over(row, day)
     THEN SaveRecurring(r, [row EXCEPT !.status = "INACTIVE"]) /\ UNCHANGED billed
     ELSE /\ SaveRecurring(r, OnceBilled(row, day))
          /\ billed' = [billed EXCEPT ![r] = @ + 1]
  /\ Continue(w, [job[w] EXCEPT !.list = Tail(@)])
  /\ UNCHANGED <<today, tonight, tested, received>>

(* An entry that fails is logged and left for another night. *)
NightFailure(w) ==
  /\ Doing(w, "night") /\ job[w].list # << >> /\ "fail" \in mix
  /\ job' = [job EXCEPT ![w].list = Tail(@)]
  /\ marred' = marred \cup {"failure"}
  /\ UNCHANGED <<mix, recurringVars>>

EndNight(w) ==
  /\ Doing(w, "night") /\ job[w].list = << >>
  /\ tonight' = (job[w].day = today)
  /\ Finish(w)
  /\ UNCHANGED <<recurring, today, billed, tested, received>>

-----------------------------------------------------------------------------
RecurringInit ==
  /\ recurring = [r \in Subscriptions |-> Absent]
  /\ today = 0 /\ tonight = FALSE
  /\ billed = [r \in Subscriptions |-> 0]
  /\ tested = [r \in Subscriptions |-> 0]
  /\ received = [r \in Subscriptions |-> 0]

RecurringNext(w) ==
  \/ Subscribe(w, "createRecurring") \/ FindRecurring(w) \/ HandleRecurring(w)
  \/ StartTest(w) \/ SaveTestInvoice(w) \/ CountTest(w) \/ StartValidation(w) \/ ValidatePayment(w)
  \/ StartNight(w) \/ NightEntry(w) \/ NightFailure(w) \/ EndNight(w)

RecurringTypeOK == \A r \in Rows(recurring) : recurring[r] \in RecurringInvoice

(* invoices_generated is what was generated: a draft a night, a test, or   *)
(* the payment that takes its place, wherever handlers did not overlap.    *)
CounterExplained ==
  Settled =>
    \A r \in Rows(recurring) : recurring[r].generated = billed[r] + tested[r] + received[r]

(* A night that went through its list leaves nothing due, however many     *)
(* days the subscription was late: one invoice catches up with all of them.*)
NothingLeftDue == Settled /\ tonight => DueRows = {}
=============================================================================
